------------------------------ MODULE ToolRuns ------------------------------
(***************************************************************************)
(* The runs of the tools that PRAgent.handle_request starts, on one pull   *)
(* request: what a run announces, asks its model, publishes and removes,   *)
(* and what becomes of it when one of its calls raises.  A run gives way   *)
(* to others only while its model thinks, so what follows the answer is    *)
(* one step; the user may change the labels whenever he likes.             *)
(* /review and /improve publish comments that are found again by later     *)
(* runs: see PullRequestComments.                                          *)
(***************************************************************************)
EXTENDS Integers, Sequences

CONSTANTS
  Runs,      \* runs that overlap on one pull request
  Requests,  \* [tool, auto, publish, propagate, style]: what a run may be asked
  UserLabels \* labels only a user sets

Tools == {"review", "improve", "describe", "ask", "ask_line", "add_docs",
          "generate_labels", "update_changelog", "config", "help"}

ASSUME ToolAssumption ==
  Requests \subseteq [tool : Tools, auto : BOOLEAN, publish : BOOLEAN, propagate : BOOLEAN,
                      style : {"usual", "quiet", "commit", "plain"}]

VARIABLES
  request,   \* request[r]
  st,        \* idle, asking, ended
  seen,      \* seen[r]: what the constructor has read, [labels, changelog]
  comments,  \* the conversation: {[by, kind]}
  labels, changelog,  \* of the pull request; entries are the runs that wrote them
  artifact,  \* artifact[r]: what settings.data carries for the caller
  returned,  \* returned[r]: what handle_request returns
  outcome,   \* outcome[r]: what became of the run (not in the code)
  swallowed    \* swallowed[r]: its calls that failed, of which nothing tells (not in the code)

toolVars == <<request, st, seen, comments, labels, changelog, artifact, returned, outcome, swallowed>>

-----------------------------------------------------------------------------
(* Deliberate faults: each replaces the operator it is named after.        *)

FaultClosing(tool) == <<"post">>
FaultSwallows(r) == TRUE
FaultLabelsKnown(r, fails) == seen[r].labels

-----------------------------------------------------------------------------
(* What the tools have in common.                                          *)

Asks(tool) == tool # "config"

\* A comment is_temporary announces a run that was not triggered automatically,
\* and of some tools one that was.
Announces(q) ==
  /\ q.publish
  /\ \/ q.tool \in {"review", "improve", "describe"} /\ ~q.auto
     \/ q.tool \in {"ask", "add_docs", "generate_labels", "update_changelog"}

\* Tools that catch what their calls raise; some raise it again if asked to.
Swallows(r) ==
  \/ request[r].tool \in {"add_docs", "generate_labels", "help"}
  \/ request[r].tool \in {"review", "improve", "describe"} /\ ~request[r].propagate

MayWrite(r) == request[r].publish

\* The order in which a run ends that has something to publish.
Closing(tool) ==
  CASE tool = "describe" -> <<"labels", "post", "remove">>
    [] tool = "review" -> <<"labels", "post", "remove">>
    [] tool = "improve" -> <<"remove", "post">>
    [] tool \in {"ask", "config"} -> <<"post", "remove">>
    [] tool = "add_docs" -> <<"remove", "post">>
    [] tool = "generate_labels" -> <<"labels", "remove">>
    [] tool = "update_changelog" -> <<"remove", "push">>
    [] OTHER -> <<"post">>

\* What a run leaves for its caller instead: not every tool does.
LeavesArtifact(tool) ==
  tool \in {"review", "improve", "describe", "ask", "ask_line", "generate_labels"}

\* Calls at the end of a run whose failure the git provider keeps to itself:
\* reading the labels, setting them, and deleting the announcement.  done are
\* the instructions that make them.
Fallible(r, done) ==
  UNION {IF "remove" \in done /\ Announces(request[r]) THEN {"remove"} ELSE {},
         IF "labels" \in done THEN {"write"} ELSE {},
         IF "labels" \in done /\ request[r].tool # "generate_labels" THEN {"read"} ELSE {}}
Instructions(r, n) == {Closing(request[r].tool)[i] : i \in 1 .. n}

\* The labels a run sets beside those of the model: the ones that are not its
\* own among those it knows.  /generate_labels knows those of its constructor;
\* the others read them again, and a read that fails finds none.
Mine(tool) == IF tool = "review" THEN {"effort"} ELSE {"enhancement", "tests"}
LabelsKnown(r, fails) ==
  IF request[r].tool = "generate_labels" THEN seen[r].labels ELSE IF "read" \in fails THEN {} ELSE labels
WithLabels(r, own, fails) == own \cup (LabelsKnown(r, fails) \ Mine(request[r].tool))

\* /describe sets no labels if its model suggests none, /review if there are
\* none at all.
SetsLabels(r, own, fails) ==
  /\ "write" \notin fails
  /\ request[r].tool = "describe" => own # {}
  /\ request[r].tool = "review" => own # {} \/ LabelsKnown(r, fails) # {}

-----------------------------------------------------------------------------
(* A run.                                                                  *)

Own(r, kind) == [by |-> r, kind |-> kind]

Say(w, r) == [w EXCEPT !.comments = @ \cup {Own(r, "answer")}]
TakeBack(w, r, fails) ==
  IF "remove" \in fails THEN w ELSE [w EXCEPT !.comments = @ \ {Own(r, "announcement")}]

\* The changelog is pushed as a file; it is a comment if pushing is neither
\* asked for nor possible.
Pushes(r) == request[r].style = "commit"

\* The pull request after the first n instructions of the end of a run: their
\* order tells only which they are; fails are the calls that do.  What is pushed is the file as the
\* constructor has read it, with the new entry.
After(r, n, own, fails) ==
  LET done == Instructions(r, n)
      says == "post" \in done \/ ("push" \in done /\ ~Pushes(r))
      world == [comments |-> comments,
                labels |-> IF "labels" \in done /\ SetsLabels(r, own, fails) THEN WithLabels(r, own, fails) ELSE labels,
                changelog |-> IF "push" \in done /\ Pushes(r) THEN seen[r].changelog \cup {r} ELSE changelog]
      heard == IF says THEN Say(world, r) ELSE world
  IN IF "remove" \in done THEN TakeBack(heard, r, fails) ELSE heard

Write(w) == comments' = w.comments /\ labels' = w.labels /\ changelog' = w.changelog

End(r, returns, how, fails) ==
  /\ st' = [st EXCEPT ![r] = "ended"]
  /\ outcome' = [outcome EXCEPT ![r] = how]
  /\ returned' = [returned EXCEPT ![r] = IF returns THEN "true" ELSE "false"]
  /\ swallowed' = [swallowed EXCEPT ![r] = fails]

Start(r) ==
  /\ st[r] = "idle"
  /\ st' = [st EXCEPT ![r] = "asking"]
  /\ seen' = [seen EXCEPT ![r] = [labels |-> labels, changelog |-> changelog]]
  /\ comments' = IF Announces(request[r]) THEN comments \cup {Own(r, "announcement")} ELSE comments
  /\ UNCHANGED <<request, labels, changelog, artifact, returned, outcome, swallowed>>

\* The review of a pull request without issues may be kept from it.
KeptBack(r) == request[r].tool = "review" /\ request[r].style = "quiet"

\* The model has answered; own are the labels it suggests.
Answer(r, own, fails) ==
  LET n == IF ~MayWrite(r) THEN 0 ELSE IF KeptBack(r) THEN 1 ELSE Len(Closing(request[r].tool))
  IN /\ st[r] = "asking" /\ fails \subseteq Fallible(r, Instructions(r, n))
     /\ Write(After(r, n, own, fails))
     /\ artifact' = IF (MayWrite(r) => KeptBack(r)) /\ LeavesArtifact(request[r].tool)
                    THEN [artifact EXCEPT ![r] = "answer"] ELSE artifact
     /\ End(r, TRUE, IF KeptBack(r) THEN "kept back" ELSE "answered", fails)
     /\ UNCHANGED <<request, seen>>

\* The model has nothing to say: /describe and /review take their announcement
\* back, /ask and /update_changelog publish an empty answer, /improve says so
\* beside its temporary comment or in its progress comment; the rest leaves.
NothingToSay(r, fails) ==
  LET tool == request[r].tool
      world == [comments |-> comments, labels |-> labels, changelog |-> changelog]
  IN /\ st[r] = "asking" /\ Asks(tool) /\ fails \subseteq Fallible(r, {"remove"})
     /\ Write(CASE tool \in {"describe", "review"} -> TakeBack(world, r, fails)
                [] tool \in {"ask", "update_changelog"} /\ MayWrite(r) ->
                     After(r, Len(Closing(tool)), {}, fails)
                [] tool = "improve" /\ MayWrite(r) ->
                     Say(IF request[r].style = "plain" THEN world ELSE TakeBack(world, r, fails), r)
                [] OTHER -> world)
     /\ artifact' = IF tool = "ask" /\ ~MayWrite(r) THEN [artifact EXCEPT ![r] = "answer"] ELSE artifact
     /\ End(r, TRUE, "empty", fails)
     /\ UNCHANGED <<request, seen>>

\* A call raises: the model's after its last retry (n is 0), or the git
\* provider's that posts or pushes, after n instructions of the end.  /improve
\* removes what announced it, and says that it has failed if that was a
\* temporary comment; the others leave their announcement.
Raise(r, n, own, fails) ==
  LET tool == request[r].tool
      world == After(r, n, own, fails)
  IN /\ st[r] = "asking"
     /\ fails \subseteq Fallible(r, Instructions(r, n) \cup IF tool = "improve" THEN {"remove"} ELSE {})
     /\ n > 0 => MayWrite(r) /\ ~KeptBack(r) /\ Closing(tool)[n + 1] \in {"post", "push"}
     /\ Write(IF tool # "improve" \/ ~MayWrite(r) THEN world
              ELSE IF request[r].style = "plain" \/ request[r].auto
                   THEN [TakeBack(world, r, fails) EXCEPT !.comments = @ \cup {Own(r, "failure")}]
                   ELSE TakeBack(world, r, fails))
     /\ End(r, Swallows(r), "raised", fails)
     /\ UNCHANGED <<request, seen, artifact>>

\* On a platform without tables /help says so, whatever it may publish.
NoHelp(r) ==
  /\ st[r] = "idle" /\ request[r].tool = "help" /\ request[r].style = "plain"
  /\ comments' = comments \cup {Own(r, "no help")}
  /\ End(r, TRUE, "refused", {})
  /\ UNCHANGED <<request, seen, labels, changelog, artifact>>

\* The user sets a label while runs are under way.
Label(l) ==
  /\ l \notin labels
  /\ labels' = labels \cup {l}
  /\ UNCHANGED <<request, st, seen, comments, changelog, artifact, returned, outcome, swallowed>>

ToolInit ==
  /\ request \in [Runs -> Requests]
  /\ st = [r \in Runs |-> "idle"]
  /\ seen = [r \in Runs |-> [labels |-> {}, changelog |-> {}]]
  /\ comments = {} /\ labels = {} /\ changelog = {}
  /\ artifact = [r \in Runs |-> "none"] /\ returned = [r \in Runs |-> "none"]
  /\ outcome = [r \in Runs |-> "none"] /\ swallowed = [r \in Runs |-> {}]

ToolNext ==
  \/ \E r \in Runs :
       \/ Start(r) \/ NoHelp(r)
       \/ \E fails \in SUBSET {"read", "write", "remove"} :
            \/ NothingToSay(r, fails)
            \/ \E own \in {{}, Mine(request[r].tool)} :
                 \/ Answer(r, own, fails)
                 \/ \E n \in 0 .. Len(Closing(request[r].tool)) - 1 : Raise(r, n, own, fails)
  \/ \E l \in UserLabels : Label(l)

ToolSpec == ToolInit /\ [][ToolNext]_toolVars

-----------------------------------------------------------------------------
(* Properties.                                                             *)

\* Nobody reads "Preparing ..." beside the answer it announced, unless the host
\* has refused to delete it.
AnnouncementsGo ==
  \A r \in Runs :
    outcome[r] = "answered" /\ "remove" \notin swallowed[r] => Own(r, "announcement") \notin comments

\* Without publish_output the pull request stays as it was, whatever fails;
\* only /help may say that it cannot help (pr_help_message.py:190).
PublishesOnlyIfAsked ==
  \A r \in Runs : ~request[r].publish =>
    /\ r \notin changelog /\ \A c \in comments : c.by = r => c.kind = "no help"
    /\ (\A o \in Runs : ~request[o].publish) => labels \subseteq UserLabels

\* What runs leave on a pull request is what they were to say, and no more.
OnlyAnswersStay == AnnouncementsGo /\ PublishesOnlyIfAsked

\* A label goes only when a run ends that may set labels, and stays if it is not
\* of those the run decides about, though it was set while the run's model was
\* thinking; but a run that cannot read the labels takes them for none, and
\* /generate_labels knows no label set after its constructor.
LabelsStay ==
  [][\A l \in labels \ labels' : \E r \in Runs :
       /\ st[r] = "asking" /\ st'[r] = "ended" /\ MayWrite(r)
       /\ \/ l \in Mine(request[r].tool)
          \/ "read" \in swallowed'[r]
          \/ request[r].tool = "generate_labels" /\ l \notin seen[r].labels]_toolVars

\* A caller that asks for errors (config.propagate_tool_errors, which MOSAICO's
\* dispatch sets) is told of every call that raised, and of no other failure.
FailuresAreTold ==
  \A r \in Runs : st[r] = "ended" /\ request[r].propagate
                  /\ request[r].tool \in {"review", "improve", "describe", "ask"} =>
    (returned[r] = "false" <=> outcome[r] = "raised")

-----------------------------------------------------------------------------
(* What makes them hold.                                                   *)

AllLabels == UserLabels \cup {"effort", "enhancement", "tests"}

\* The values the variables take.
ToolTypeOK ==
  /\ request \in [Runs -> Requests]
  /\ st \in [Runs -> {"idle", "asking", "ended"}]
  /\ seen \in [Runs -> [labels : SUBSET AllLabels, changelog : SUBSET Runs]]
  /\ comments \subseteq [by : Runs, kind : {"announcement", "answer", "failure", "no help"}]
  /\ labels \subseteq AllLabels /\ changelog \subseteq Runs
  /\ artifact \in [Runs -> {"none", "answer"}]
  /\ returned \in [Runs -> {"none", "true", "false"}]
  /\ outcome \in [Runs -> {"none", "answered", "kept back", "empty", "raised", "refused"}]
  /\ swallowed \in [Runs -> SUBSET {"read", "write", "remove"}]

\* Only a run that announces itself is announced, and from its start on; what
\* has become of a run is known when it has ended.
Announced ==
  \A r \in Runs :
    /\ Own(r, "announcement") \in comments => Announces(request[r]) /\ st[r] # "idle"
    /\ outcome[r] # "none" => st[r] = "ended"

\* What a run has read of the changelog is of runs that publish.
PublishersRead == \A r, o \in Runs : ~request[r].publish => r \notin seen[o].changelog

ToolInv == ToolTypeOK /\ Announced /\ PublishersRead /\ OnlyAnswersStay /\ FailuresAreTold
=============================================================================
