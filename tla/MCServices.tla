------------------------------ MODULE MCServices ------------------------------
(***************************************************************************)
(* What a request runs under and what it keeps beside the pull request:    *)
(* its settings, the files of the host, the index of issues, the commits   *)
(* reviewed so far.  A behaviour is that of one part, chosen at the start: *)
(* the variables of the others do not change.  The modules state their     *)
(* own properties.                                                         *)
(***************************************************************************)
EXTENDS RequestSettings, IncrementalReview, HostFiles, SimilarIssues

CONSTANTS q1, q2, r1, r2, process

VARIABLE part

scopes == vars
increments == reviewVars
caching == hostVars
indexing == issueVars

-----------------------------------------------------------------------------
(* RequestSettings: files, which any request may find absent, and what the *)
(* other layers set.                                                       *)
MCFileChoices == {{"disabled", "tool"}, {"push", "publish", "tool"}}
MCLayerChoices == {[env |-> {}, extra |-> {}, org |-> {}],
                   [env |-> {"ignored"}, extra |-> {}, org |-> {}],
                   [env |-> {"tool"}, extra |-> {"publish"}, org |-> {"tool"}],
                   [env |-> {"push"}, extra |-> {"tool"}, org |-> {"publish"}]}
MCAutoCommands == <<{"tool"}, {}>>
MCCommentArgs == {{}, {"tool"}}

(* HostFiles: AGENTS is as long as the shorter of two limits lets through. *)
MCOrg == [p \in {"p1", "p2"} |-> IF p = "p1" THEN "o1" ELSE "o2"]
MCConfigs == {[files |-> <<"AGENTS", "CLAUDE">>, lines |-> l, fromDefault |-> TRUE] : l \in {9, 16}}
MCLength == [f \in {"AGENTS", "CLAUDE"} |-> IF f = "AGENTS" THEN 2 ELSE 1]

(* SimilarIssues: the first issue has a comment, the second is too long.   *)
MCComments == [n \in 1 .. 3 |-> IF n = 1 THEN 1 ELSE 0]

(* IncrementalReview: asked for, and automatic with both thresholds.       *)
Reviewing(auto, persistent, min, minutes, all) ==
  [auto |-> auto, persistent |-> persistent, commits |-> min, minutes |-> minutes, all |-> all]
MCReviewing == {Reviewing(FALSE, FALSE, 0, 0, FALSE), Reviewing(TRUE, TRUE, 2, 1, FALSE)}

-----------------------------------------------------------------------------
NoScopes ==
  /\ server = "kenny" /\ layers = CHOOSE l \in MCLayerChoices : l.env = {} /\ l.org = {}
  /\ files = [r \in Repos |-> Absent] /\ settings = [q \in Requests \cup {Process} |-> Loaded]
  /\ event = [q \in Requests |-> Idle] /\ pc = [q \in Requests |-> "new"]
  /\ fetched = [q \in Requests |-> Unread] /\ left = [q \in Requests |-> <<>>]
  /\ ran = [q \in Requests |-> 0] /\ unbuilt = [q \in Requests |-> 0] /\ seen = [q \in Requests |-> {}] /\ loop = Process /\ edits = 0
NoIndex == db = "qdrant" /\ IssuesInit
NoIncrement == ReviewInit /\ host = "github" /\ ~config.auto

MCInit ==
  /\ part \in {"settings", "host", "issues", "increments"}
  /\ IF part = "settings" THEN Init ELSE NoScopes
  /\ HostInit /\ (part # "host" => provider = CHOOSE k \in Providers : TRUE)
  /\ IF part = "issues" THEN IssuesInit ELSE NoIndex
  /\ IF part = "increments" THEN ReviewInit ELSE NoIncrement

MCNext ==
  /\ UNCHANGED part
  /\ \/ /\ part = "settings" /\ Next
        /\ UNCHANGED <<caching, indexing, increments>>
     \/ /\ part = "host" /\ HostNext
        /\ UNCHANGED <<scopes, indexing, increments>>
     \/ /\ part = "issues" /\ IssuesNext
        /\ UNCHANGED <<scopes, caching, increments>>
     \/ /\ part = "increments" /\ ReviewNext
        /\ UNCHANGED <<scopes, caching, indexing>>

MCSpec ==
  MCInit /\ [][MCNext]_<<part, scopes, caching, indexing, increments>>

\* Requests are alike in every part, and so are repositories.
MCSymmetry == Permutations({q1, q2}) \cup Permutations({r1, r2})
=============================================================================
