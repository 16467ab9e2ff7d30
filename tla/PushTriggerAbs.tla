--------------------------- MODULE PushTriggerAbs ---------------------------
(***************************************************************************)
(* What the push trigger of the GitHub app promises for each pull request: *)
(* at most one automatic review runs, and (when the backlog is enabled) at *)
(* most one more push waits as the delegate of everything pushed since the *)
(* running review began.                                                   *)
(***************************************************************************)
CONSTANTS PRs,      \* the pull requests that receive pushes
          Backlog   \* push_trigger_pending_tasks_backlog (a Boolean)

VARIABLES phase,     \* phase[p]: no review, one running, or one about to start
          queued,    \* queued[p]: a push waits for the review to end
          uncovered  \* uncovered[p]: pushed commits no review has started after

vars == <<phase, queued, uncovered>>

Init == /\ phase = [p \in PRs |-> "none"]
        /\ queued = [p \in PRs |-> FALSE]
        /\ uncovered = [p \in PRs |-> FALSE]

\* A push finds no review: it starts one, which sees the pushed commits.
PushStarts(p) == /\ phase[p] = "none"
                 /\ phase' = [phase EXCEPT ![p] = "running"]
                 /\ uncovered' = [uncovered EXCEPT ![p] = FALSE]
                 /\ UNCHANGED queued

\* A push finds a review and becomes its delegate.
PushQueues(p) == /\ phase[p] # "none" /\ ~queued[p] /\ Backlog
                 /\ queued' = [queued EXCEPT ![p] = TRUE]
                 /\ uncovered' = [uncovered EXCEPT ![p] = TRUE]
                 /\ UNCHANGED phase

\* A push finds a review and a delegate (or no delegate is allowed).
PushDropped(p) == /\ phase[p] # "none" /\ (queued[p] \/ ~Backlog)
                  /\ uncovered' = [uncovered EXCEPT ![p] = TRUE]
                  /\ UNCHANGED <<phase, queued>>

\* The review ends, or fails; the delegate, if any, is next.
ReviewEnds(p) == /\ phase[p] = "running"
                 /\ phase' = [phase EXCEPT ![p] = IF queued[p] THEN "granted" ELSE "none"]
                 /\ queued' = [queued EXCEPT ![p] = FALSE]
                 /\ UNCHANGED uncovered

DelegateStarts(p) == /\ phase[p] = "granted"
                     /\ phase' = [phase EXCEPT ![p] = "running"]
                     /\ uncovered' = [uncovered EXCEPT ![p] = FALSE]
                     /\ UNCHANGED queued

Step(p) == \/ PushStarts(p) \/ PushQueues(p) \/ PushDropped(p)
           \/ ReviewEnds(p) \/ DelegateStarts(p)

Next == \E p \in PRs : Step(p)

Spec == Init /\ [][Next]_vars
=============================================================================
