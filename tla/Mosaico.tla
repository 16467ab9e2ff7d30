------------------------------ MODULE Mosaico -------------------------------
(***************************************************************************)
(* One task of the MOSAICO agent (pr_agent/mosaico): a text, which may be  *)
(* a conversation, is routed to a verb and a diff, the verb's tool runs on *)
(* the diff with publishing off, and its outcome is reported to the        *)
(* agent-to-agent SDK as an artifact and a final status.                   *)
(***************************************************************************)
EXTENDS Integers, Sequences, SequencesExt, Subsequences

CONSTANTS
  Texts,        \* conversations: sequences of [user, verb, asks, target], oldest first
  MaxRedirects  \* _DIFF_FETCH_MAX_REDIRECTS

Segment == [user : BOOLEAN, verb : STRING, asks : BOOLEAN, target : STRING]

ASSUME TaskAssumption == MaxRedirects \in Nat /\ Texts \subseteq Seq(Segment)

VARIABLES
  text, identified, traced,  \* what the SDK calls execute() with
  at,          \* identify, route, fetch, run, close, artifact, status, excuse, regret;
               \* done, or raised from execute()
  work,        \* what _resolve_verb and the search for a target have found
  hops,        \* requests sent for the diff
  result,      \* RouteResult
  events,      \* what the task's queue has received
  terminal,    \* the updater's flag
  toolFailed, spanFailed, queueFailed  \* what went wrong (not in the code)

taskVars == <<text, identified, traced, at, work, hops, result, events, terminal,
          toolFailed, spanFailed, queueFailed>>
taskInput == <<text, identified, traced>>
faults == <<toolFailed, spanFailed, queueFailed>>

-----------------------------------------------------------------------------
(* Deliberate faults: each replaces the operator it is named after.        *)

FaultNewestFirst(segments) == segments
FaultRaised(verb) == [kind |-> "empty", ok |-> TRUE]
FaultExcuse ==
  at = "excuse" /\ at' = "regret"
  /\ UNCHANGED <<taskInput, work, hops, result, events, terminal, faults>>

-----------------------------------------------------------------------------
(* Routing.                                                                *)

Nothing == [verb |-> "none", on |-> "none", segment |-> 0]

NewestFirst(segments) == Reverse(segments)

\* Roles are only told apart in a text with at least two of them.
Numbered(s, i) == [user |-> s.user, verb |-> s.verb, asks |-> s.asks, target |-> s.target, no |-> i]
Turns(t) == IF Len(t) < 2 THEN <<>> ELSE [i \in DOMAIN t |-> Numbered(t[i], i)]

\* The text as one segment: its earliest verb, its pull request before its diff.
WholeText(t) ==
  LET has(what) == \E i \in DOMAIN t : t[i].target = what
      verbs == {i \in DOMAIN t : t[i].verb # "none"}
  IN [verb |-> IF verbs = {} THEN "none" ELSE t[Min(verbs)].verb,
      asks |-> \E i \in DOMAIN t : t[i].asks,
      target |-> CASE has("url") -> "url" [] has("diff") -> "diff"
                   [] has("diffless") -> "diffless" [] OTHER -> "none",
      no |-> 0]

\* What the user has said; the agent's own words only serve to find a target.
UserSegments(t) ==
  LET said == {i \in DOMAIN Turns(t) : Turns(t)[i].user}
  IN IF said = {} THEN <<WholeText(t)>> ELSE NewestFirst(Picked(Turns(t), said))
ContextSegments(t) == IF Turns(t) = <<>> THEN <<WholeText(t)>> ELSE NewestFirst(Turns(t))

\* The newest segment decides, by its verb or by asking; an older one only
\* when the newest is neither.
ResolveVerb(segments) ==
  LET spoken == {i \in DOMAIN segments : segments[i].verb # "none"}
  IN CASE segments[1].verb # "none" -> segments[1].verb
       [] segments[1].verb = "none" /\ segments[1].asks -> "ask"
       [] OTHER -> IF spoken = {} THEN "review" ELSE segments[Min(spoken)].verb

\* The first segment with a pull request's address or a diff.
Target(segments) ==
  LET found == {i \in DOMAIN segments : segments[i].target # "none"}
      first == segments[Min(found)]
  IN IF found = {} THEN [on |-> "none", no |-> 0] ELSE [on |-> first.target, no |-> first.no]

-----------------------------------------------------------------------------
(* The run.                                                                *)

Answered(kind) == [kind |-> kind, ok |-> TRUE]
Refused(kind) == [kind |-> kind, ok |-> FALSE]

\* What a failed tool becomes: handle_request answers false, /ask is caught here.
Raised(verb) == Refused("error")

\* A supplied text without a "diff --git" line is an empty run; a fetched one
\* is not a diff.
WithoutFiles(onUrl) == IF onUrl THEN Refused("unfetched") ELSE Answered("empty")

Returns(r) == result' = r /\ at' = "close"

Identify ==
  /\ at = "identify"
  /\ at' = IF identified THEN "route" ELSE "raised"
  /\ UNCHANGED <<taskInput, work, hops, result, events, terminal, faults>>

Route ==
  /\ at = "route"
  /\ LET target == Target(ContextSegments(text))
     IN /\ work' = [verb |-> ResolveVerb(UserSegments(text)), on |-> target.on, segment |-> target.no]
        /\ CASE target.on = "url" -> at' = "fetch" /\ UNCHANGED result
             [] target.on = "diff" -> at' = "run" /\ UNCHANGED result
             [] target.on = "diffless" -> Returns(WithoutFiles(FALSE))
             [] OTHER -> Returns(Answered("guidance"))
  /\ UNCHANGED <<taskInput, hops, events, terminal, faults>>

\* One request for the diff: each address is vetted before it is asked, and a
\* redirect is another address.
Fetch ==
  /\ at = "fetch"
  /\ \E answer \in {"blocked", "redirect", "refused", "diff", "diffless"} :
       /\ hops' = IF answer = "blocked" THEN hops ELSE hops + 1
       /\ IF answer = "diff" THEN at' = "run" /\ UNCHANGED result
          ELSE IF answer = "redirect" /\ hops < MaxRedirects THEN UNCHANGED <<at, result>>
          ELSE Returns(IF answer = "diffless" THEN WithoutFiles(TRUE) ELSE Refused("unfetched"))
  /\ UNCHANGED <<taskInput, work, events, terminal, faults>>

\* The tool runs with propagate_tool_errors, so it ends with an artifact, with
\* none or by raising (ToolRuns); the flag is put back whatever happens.
Run ==
  /\ at = "run"
  /\ \E outcome \in {"artifact", "empty", "raises"} :
       /\ Returns(IF outcome = "raises" THEN Raised(work.verb) ELSE Answered(outcome))
       /\ toolFailed' = (outcome = "raises")
  /\ UNCHANGED <<taskInput, work, hops, events, terminal, spanFailed, queueFailed>>

-----------------------------------------------------------------------------
(* The report.                                                             *)

\* langfuse_span catches what opening or closing the span raises and yields
\* again; after the body has run, that is an error of its own.
Close ==
  /\ at = "close"
  /\ \E fails \in IF traced THEN BOOLEAN ELSE {FALSE} :
       spanFailed' = fails /\ at' = IF fails THEN "excuse" ELSE "artifact"
  /\ UNCHANGED <<taskInput, work, hops, result, events, terminal, toolFailed, queueFailed>>

\* The SDK's queue takes an event or raises; the updater refuses a final status
\* after the first, whether or not the queue has taken that one.
Enqueue(event, next, otherwise) ==
  \E fails \in BOOLEAN :
    /\ queueFailed' = (queueFailed \/ fails)
    /\ events' = IF fails THEN events ELSE Append(events, event)
    /\ at' = IF fails THEN otherwise ELSE next

Final(status, otherwise) ==
  IF terminal THEN at' = otherwise /\ UNCHANGED <<events, terminal, queueFailed>>
  ELSE terminal' = TRUE /\ Enqueue(status, "done", otherwise)

AddArtifact ==
  /\ at = "artifact" /\ Enqueue("artifact", "status", "excuse")
  /\ UNCHANGED <<taskInput, work, hops, result, terminal, toolFailed, spanFailed>>

\* complete() or failed(): the result's ok.
Report ==
  /\ at = "status" /\ Final(IF result.ok THEN "completed" ELSE "failed", "excuse")
  /\ UNCHANGED <<taskInput, work, hops, result, toolFailed, spanFailed>>

\* The handler of execute(): what it raises itself leaves execute().
Excuse ==
  /\ at = "excuse" /\ Enqueue("artifact", "regret", "raised")
  /\ UNCHANGED <<taskInput, work, hops, result, terminal, toolFailed, spanFailed>>
Regret ==
  /\ at = "regret" /\ Final("failed", "raised")
  /\ UNCHANGED <<taskInput, work, hops, result, toolFailed, spanFailed>>

TaskInit ==
  /\ text \in Texts /\ identified \in BOOLEAN /\ traced \in BOOLEAN
  /\ at = "identify" /\ work = Nothing /\ hops = 0 /\ result = Refused("none")
  /\ events = <<>> /\ terminal = FALSE
  /\ toolFailed = FALSE /\ spanFailed = FALSE /\ queueFailed = FALSE

TaskNext == Identify \/ Route \/ Fetch \/ Run \/ Close \/ AddArtifact \/ Report \/ Excuse \/ Regret

TaskSpec == TaskInit /\ [][TaskNext]_taskVars

-----------------------------------------------------------------------------
(* Properties.                                                             *)

Places == {"identify", "route", "fetch", "run", "close", "artifact", "status", "excuse",
           "regret", "done", "raised"}
Status == {"completed", "failed"}

\* A task asks for the diff at most once more than it may be redirected.
TaskTypeOK ==
  /\ text \in Texts /\ identified \in BOOLEAN /\ traced \in BOOLEAN
  /\ at \in Places
  /\ hops \in 0 .. MaxRedirects + 1 /\ (at = "fetch" => hops <= MaxRedirects)
  /\ at \in {"identify", "route"} => hops = 0
  /\ result \in [kind : {"none", "guidance", "unfetched", "empty", "artifact", "error"}, ok : BOOLEAN]
  /\ events \in Seq({"artifact"} \cup Status)
  /\ terminal \in BOOLEAN /\ toolFailed \in BOOLEAN /\ spanFailed \in BOOLEAN /\ queueFailed \in BOOLEAN

HasStatus(s) == \E i \in DOMAIN events : events[i] = s

\* The SDK raises InvalidAgentResponseError for a status without an artifact
\* before it (executor.py:61), and takes nothing after a final status.
OneOutcome ==
  /\ events # <<>> => events[1] = "artifact"
  /\ \A i \in DOMAIN events : events[i] \in Status => i = Len(events)

\* A run that failed is never reported as completed, and one that did not is
\* not reported as failed unless what reports it has failed
\* ("a failure cannot read back as an empty run", dispatch.py:312).
FailuresAreReported ==
  /\ HasStatus("completed") => ~toolFailed /\ result.ok
  /\ HasStatus("failed") => ~result.ok \/ spanFailed \/ queueFailed

\* A run works on what the conversation mentioned last, and does what its user
\* asked for last.
LatestWins ==
  LET n == Len(text)
      mentions == {i \in 1 .. n : text[i].target # "none"}
      commands == {i \in 1 .. n : text[i].user /\ (text[i].verb # "none")}
      users == {i \in 1 .. n : text[i].user}
  IN work # Nothing /\ n >= 2 =>
       /\ mentions # {} => work.segment = Max(mentions)
       /\ commands # {} /\ ~(text[Max(users)].asks /\ text[Max(users)].verb = "none") =>
            work.verb = text[Max(commands)].verb
=============================================================================
