---------------------------- MODULE MCPullRequest ----------------------------
(***************************************************************************)
(* What is read from a pull request, shown to the model, and published     *)
(* again.  A behaviour is that of one part, chosen at the start: the       *)
(* variables of the others do not change.                                  *)
(***************************************************************************)
EXTENDS DiffChunks, DiffFiles, Patches, Describe, InlinePublish, Mosaico, ToolRuns,
        ProviderSuggestions, PullRequestComments

CONSTANTS f1, f2, f3, f4, s1, s2, s3, s4, s5, t1, t2

VARIABLE part

chunking == <<pr, packer, policy, prompt, phase, pos, total, chunk, chunks, pending, left, calls, named>>
talking == talkVars

-----------------------------------------------------------------------------
(* DiffChunks: small and large patches, a long title, one that is clipped  *)
(* to something or to nothing, one that only deletes, and a binary one.    *)

MCFiles == {[full |-> 4, tokens |-> 2, clipped |-> 0, header |-> 0],
            [full |-> 4, tokens |-> 3, clipped |-> 0, header |-> 1],
            [full |-> 3, tokens |-> 2, clipped |-> 0, header |-> 3],
            [full |-> 9, tokens |-> 9, clipped |-> 4, header |-> 0],
            [full |-> 9, tokens |-> 9, clipped |-> 0, header |-> 0],
            [full |-> 5, tokens |-> 0, clipped |-> 0, header |-> 0],
            [full |-> 0, tokens |-> 0, clipped |-> 0, header |-> 0]}
MCPullRequests == UNION {[1 .. n -> MCFiles] : n \in 0 .. 3} \cup [1 .. 4 -> {f \in MCFiles : f.tokens > 0}]

(* DiffFiles *)
Kind(t, g, k) == [type |-> t, given |-> g, kept |-> k]
MCChanged == <<f1, f2, f3, f4>>
MCKinds == {Kind("edit", TRUE, TRUE), Kind("edit", FALSE, TRUE), Kind("add", TRUE, TRUE),
            Kind("delete", TRUE, TRUE), Kind("rename", TRUE, TRUE), Kind("edit", TRUE, FALSE)}

(* Patches: every diff of up to four lines, additions after deletions as   *)
(* git has them, and those of seven with two changes apart; the lines may  *)
(* repeat, and one is git's remark.                                        *)
Signs == {s \in UNION {[1 .. n -> {"=", "-", "+"}] : n \in 1 .. 4} :
            \A i \in 2 .. Len(s) : ~(s[i - 1] = "+" /\ s[i] = "-")}
         \cup {s \in [1 .. 7 -> {"=", "-", "+"}] :
                 LET c == {i \in DOMAIN s : s[i] # "="} IN Cardinality(c) = 2 /\ \E i, j \in c : j - i > 3}
Line(i, p) == CASE p = "distinct" -> <<"a", "b", "c", "def", "e", "f", "g">>[i]
                [] p = "mixed" -> <<"a", "def", "a", "a", "b", "a", "b">>[i]
                [] p = "remark" -> <<"a", "b", "no newline at end of file", "c", "d", "e", "f">>[i]
MCDiffs == {[i \in DOMAIN s |-> <<s[i], Line(i, p)>>] : s \in Signs, p \in {"distinct", "mixed", "remark"}}

(* InlinePublish: s1 and s2 propose the same code in other words, s2 and   *)
(* s3 say the same of other code; s3 is rejected as it is and s4 always.   *)
ProseOf == (s1 :> "p1") @@ (s2 :> "p2") @@ (s3 :> "p2") @@ (s4 :> "p4") @@ (s5 :> "p5")
CodeOf == (s1 :> "c1") @@ (s2 :> "c1") @@ (s3 :> "c3") @@ (s4 :> "c4") @@ (s5 :> "c5")
MCLists == {<<s1, s2, s3>>, <<s3, s1>>, <<s4, s3, s2>>, <<s3, s4>>, <<s5, s1>>, <<s2, s5>>}

(* ProviderSuggestions *)
MCOffers == <<s1, s2, s3>>

(* ToolRuns: every tool, in every mood of its settings it looks at; MOSAICO, *)
(* which asks for errors, neither publishes nor runs by itself.            *)
Mood(of, styles) ==
  {m \in [tool : of, auto : BOOLEAN, publish : BOOLEAN, propagate : BOOLEAN, style : styles] :
     /\ m.auto => m.tool \in {"review", "improve", "describe"}
     /\ m.propagate => ~m.auto /\ ~m.publish /\ m.tool \in {"review", "improve", "describe", "ask"}}
MCRequests == Mood({"describe", "ask", "ask_line", "add_docs", "generate_labels", "config"}, {"usual"})
              \cup Mood({"review"}, {"usual", "quiet"}) \cup Mood({"update_changelog"}, {"usual", "commit"})
              \cup Mood({"help", "improve"}, {"usual", "plain"})
NoRequest == [tool |-> "config", auto |-> FALSE, publish |-> FALSE, propagate |-> FALSE, style |-> "usual"]

(* Mosaico: conversations of up to three turns.                            *)
Said == [user : BOOLEAN, verb : {"none", "improve", "describe"}, asks : BOOLEAN,
         target : {"none", "url", "diff", "diffless"}]
Older == {s \in Said : ~s.asks /\ s.target # "diffless"}
MCTexts == {<<s>> : s \in Said} \cup {<<s, t>> : s \in Older, t \in Said}
           \cup {<<s, t, u>> : s \in {x \in Older : x.user /\ x.verb = "improve"},
                               t \in {x \in Older : x.verb # "improve"},
                               u \in {x \in Said : x.verb = "none"}}
NoTurn == [user |-> FALSE, verb |-> "none", asks |-> FALSE, target |-> "none"]

-----------------------------------------------------------------------------
(* The parts that are not chosen.                                          *)

NoChunks == /\ pr = <<>> /\ packer = "single" /\ policy = "clip" /\ prompt = 1 /\ phase = "extend" /\ pos = 1
            /\ total = 1 /\ chunk = {} /\ chunks = <<>> /\ pending = {} /\ left = {} /\ calls = 1 /\ named = {}
NoFiles == /\ host = "github" /\ change = [f \in Names |-> Kind("edit", TRUE, TRUE)]
           /\ cache = NoList /\ todo = <<>> /\ out = <<>> /\ stale = <<None, None>>
           /\ tries = Tries /\ served = NoList /\ step = "idle" /\ asked = 0 /\ trouble = 0
NoPatches == /\ diff = <<>> /\ unended = {} /\ original = <<>> /\ new = <<>> /\ before = 0 /\ after = 0 /\ dynamic = 0
             /\ path = "extended" /\ hunks = <<>> /\ shown = <<>> /\ kept = <<>>
NoDescription == /\ number = 1 /\ config = [async |-> TRUE, semantic |-> TRUE, marker |-> "none"]
                 /\ place = <<1>> /\ whole = TRUE /\ DescribeInit
NoSuggestions == provider = "gitlab" /\ sort = [s \in Offered |-> "good"] /\ SuggestInit
NoTools == request = [r \in Runs |-> NoRequest] /\ ToolInit
NoAgent == /\ text = <<NoTurn>> /\ identified = FALSE /\ traced = FALSE /\ at = "identify" /\ work = Nothing
           /\ hops = 0 /\ result = Refused("none") /\ events = <<>> /\ terminal = FALSE
           /\ toolFailed = FALSE /\ spanFailed = FALSE /\ queueFailed = FALSE

MCInit ==
  \/ /\ part = "chunks" /\ Init
     /\ NoFiles /\ NoPatches /\ NoDescription /\ PublishInit /\ NoSuggestions /\ TalkInit /\ NoTools /\ NoAgent
  \/ /\ part = "files" /\ ListInit
     /\ NoChunks /\ NoPatches /\ NoDescription /\ PublishInit /\ NoSuggestions /\ TalkInit /\ NoTools /\ NoAgent
  \/ /\ part = "patches" /\ PatchInit
     /\ NoChunks /\ NoFiles /\ NoDescription /\ PublishInit /\ NoSuggestions /\ TalkInit /\ NoTools /\ NoAgent
  \/ /\ part = "describe" /\ DescribeInit
     /\ NoChunks /\ NoFiles /\ NoPatches /\ PublishInit /\ NoSuggestions /\ TalkInit /\ NoTools /\ NoAgent
  \/ /\ part = "inline" /\ PublishInit
     /\ NoChunks /\ NoFiles /\ NoPatches /\ NoDescription /\ NoSuggestions /\ TalkInit /\ NoTools /\ NoAgent
  \/ /\ part = "suggestions" /\ SuggestInit
     /\ NoChunks /\ NoFiles /\ NoPatches /\ NoDescription /\ PublishInit /\ TalkInit /\ NoTools /\ NoAgent
  \/ /\ part = "comments" /\ TalkInit
     /\ NoChunks /\ NoFiles /\ NoPatches /\ NoDescription /\ PublishInit /\ NoSuggestions /\ NoTools /\ NoAgent
  \/ /\ part = "tools" /\ ToolInit
     /\ NoChunks /\ NoFiles /\ NoPatches /\ NoDescription /\ PublishInit /\ NoSuggestions /\ TalkInit /\ NoAgent
  \/ /\ part = "agent" /\ TaskInit
     /\ NoChunks /\ NoFiles /\ NoPatches /\ NoDescription /\ PublishInit /\ NoSuggestions /\ TalkInit /\ NoTools

MCNext ==
  \/ /\ part = "chunks" /\ Next
     /\ UNCHANGED <<part, listVars, patchVars, describeVars, publishVars, suggestVars, talking, toolVars, taskVars>>
  \/ /\ part = "files" /\ ListNext
     /\ UNCHANGED <<part, chunking, patchVars, describeVars, publishVars, suggestVars, talking, toolVars, taskVars>>
  \/ /\ part = "patches" /\ PatchNext
     /\ UNCHANGED <<part, chunking, listVars, describeVars, publishVars, suggestVars, talking, toolVars, taskVars>>
  \/ /\ part = "describe" /\ DescribeNext
     /\ UNCHANGED <<part, chunking, listVars, patchVars, publishVars, suggestVars, talking, toolVars, taskVars>>
  \/ /\ part = "inline" /\ PublishNext
     /\ UNCHANGED <<part, chunking, listVars, patchVars, describeVars, suggestVars, talking, toolVars, taskVars>>
  \/ /\ part = "suggestions" /\ SuggestNext
     /\ UNCHANGED <<part, chunking, listVars, patchVars, describeVars, publishVars, talking, toolVars, taskVars>>
  \/ /\ part = "comments" /\ TalkNext
     /\ UNCHANGED <<part, chunking, listVars, patchVars, describeVars, publishVars, suggestVars, toolVars, taskVars>>
  \/ /\ part = "tools" /\ ToolNext
     /\ UNCHANGED <<part, chunking, listVars, patchVars, describeVars, publishVars, suggestVars, talking, taskVars>>
  \/ /\ part = "agent" /\ TaskNext
     /\ UNCHANGED <<part, chunking, listVars, patchVars, describeVars, publishVars, suggestVars, talking, toolVars>>

MCSpec == MCInit /\ [][MCNext]_<<part, chunking, listVars, patchVars, describeVars, publishVars, suggestVars, talking, toolVars, taskVars>>

MCSymmetry == Permutations({t1, t2})
=============================================================================
