-------------------------- MODULE ModelFallbackAbs --------------------------
(***************************************************************************)
(* What retry_with_fallback_models promises to the tools of one request:   *)
(* the commands run one after the other; each tries its models in order,   *)
(* one after the failure of another, and fails only when none is left, or  *)
(* is refused before any model is tried.                                   *)
(***************************************************************************)
EXTENDS Naturals

CONSTANTS N,         \* number of commands of the request
          MaxModels  \* bound on the number of configured models

VARIABLES models,  \* number of models every command can try
          tried,   \* tried[c]: models command c has tried
          outcome  \* outcome[c] \in {"waiting","running","ok","failed","refused"}
vars == <<models, tried, outcome>>

Ended(c) == outcome[c] \in {"ok", "failed", "refused"}

Init == /\ models \in 1 .. MaxModels
        /\ tried = [c \in 1..N |-> 0]
        /\ outcome = [c \in 1..N |-> "waiting"]

Turn(c) == outcome[c] = "waiting" /\ \A b \in 1 .. c - 1 : Ended(b)

Start(c) == Turn(c) /\ tried' = [tried EXCEPT ![c] = 1]
                    /\ outcome' = [outcome EXCEPT ![c] = "running"]

Refuse(c) == Turn(c) /\ outcome' = [outcome EXCEPT ![c] = "refused"]
                     /\ UNCHANGED tried

NextModel(c) == /\ outcome[c] = "running" /\ tried[c] < models
                /\ tried' = [tried EXCEPT ![c] = @ + 1]
                /\ UNCHANGED outcome

Answer(c) == /\ outcome[c] = "running"
             /\ outcome' = [outcome EXCEPT ![c] = "ok"]
             /\ UNCHANGED tried

GiveUp(c) == /\ outcome[c] = "running" /\ tried[c] = models
             /\ outcome' = [outcome EXCEPT ![c] = "failed"]
             /\ UNCHANGED tried

Next == /\ \E c \in 1..N : Start(c) \/ Refuse(c) \/ NextModel(c) \/ Answer(c) \/ GiveUp(c)
        /\ UNCHANGED models

Safety == Init /\ [][Next]_vars
Spec == Safety /\ WF_vars(Next)
=============================================================================
