--------------------------- MODULE CallbackDrain ---------------------------
(***************************************************************************)
(* The drain of litellm's deferred callbacks before a process ends.  When  *)
(* a completion resolves, litellm creates a task, the task puts a callback *)
(* on the queue of a worker, and the worker runs it; asyncio.run() cancels *)
(* whatever is left when the command returns.  drain_litellm_callbacks     *)
(* waits for the tasks in rounds, then for the queue, within one timeout.  *)
(***************************************************************************)
EXTENDS Integers, FiniteSets

CONSTANTS
  Tasks,     \* tasks litellm may create, those that tasks create included
  Timeouts,  \* values of callback_timeout_seconds, in halves of a second
  Workers    \* BOOLEAN: whether litellm has its worker

ASSUME DrainAssumption == Timeouts \subseteq Nat /\ Workers \subseteq BOOLEAN

MaxRounds == 5  \* MAX_DRAIN_ROUNDS
Reserve == 2    \* FLUSH_RESERVE_SECONDS, in halves of a second

\* The loop task of the worker; it runs for ever.
Loop == "loop"

VARIABLES
  timeout, worker,  \* fixed at the start
  now,      \* loop.time() since the start
  task,     \* task[t]: unborn, pending, done; or unrelated to litellm
  queue,    \* callbacks on the worker's queue, the running one included
  st,       \* drain: before, round, waiting, flush, flushing, done
  round,    \* rounds begun
  waited,   \* the snapshot asyncio.wait waits for
  why       \* why the drain stopped waiting (not in the code)

drainVars == <<timeout, worker, now, task, queue, st, round, waited, why>>

Half(n) == n \div 2
Smaller(a, b) == IF a < b THEN a ELSE b

-----------------------------------------------------------------------------
(* Deliberate faults: each replaces the operator it is named after.        *)

FaultTaskDeadline == timeout

-----------------------------------------------------------------------------
(* The drain.                                                              *)

\* Both deadlines lie in one timeout.
TaskDeadline == timeout - Smaller(Reserve, Half(timeout))

\* Tasks of litellm; the loop of the worker would never be done.
Pending == {t \in Tasks : task[t] = "pending"}

Stop(reason) == why' = why \cup {reason}

Start ==
  /\ st = "before" /\ st' = "round"
  /\ UNCHANGED <<timeout, worker, now, task, queue, round, waited, why>>

\* Another round: there is time, and a task to wait for.
Begin ==
  /\ st = "round" /\ round < MaxRounds /\ now < TaskDeadline /\ Pending # {}
  /\ st' = "waiting" /\ round' = round + 1 /\ waited' = Pending
  /\ UNCHANGED <<timeout, worker, now, task, queue, why>>

NoMore ==
  /\ st = "round" /\ (round = MaxRounds \/ now >= TaskDeadline \/ Pending = {})
  /\ st' = "flush"
  /\ IF Pending = {} THEN UNCHANGED why
     ELSE Stop(IF round = MaxRounds THEN "rounds" ELSE "tasks late")
  /\ UNCHANGED <<timeout, worker, now, task, queue, round, waited>>

\* A task that is done may have created another one.
AfterRound == "round"

\* asyncio.wait returns when all are done, or late with some that are not.
AllDone ==
  /\ st = "waiting" /\ waited \cap Pending = {} /\ Loop \notin waited
  /\ st' = AfterRound /\ waited' = {}
  /\ UNCHANGED <<timeout, worker, now, task, queue, round, why>>

TasksLate ==
  /\ st = "waiting" /\ now >= TaskDeadline /\ (waited \cap Pending # {} \/ Loop \in waited)
  /\ st' = "flush" /\ waited' = {} /\ Stop("tasks late")
  /\ UNCHANGED <<timeout, worker, now, task, queue, round>>

\* The flush, if there is a worker, gets what is left of the timeout; with
\* nothing left wait_for cancels it before it begins.
Flush ==
  /\ st = "flush"
  /\ st' = IF worker /\ now < timeout THEN "flushing" ELSE "done"
  /\ IF ~worker THEN Stop("no worker") ELSE IF now < timeout THEN UNCHANGED why ELSE Stop("queue late")
  /\ UNCHANGED <<timeout, worker, now, task, queue, round, waited>>

Flushed ==
  /\ st = "flushing" /\ queue = 0 /\ st' = "done"
  /\ UNCHANGED <<timeout, worker, now, task, queue, round, waited, why>>

QueueLate ==
  /\ st = "flushing" /\ queue > 0 /\ now >= timeout /\ st' = "done" /\ Stop("queue late")
  /\ UNCHANGED <<timeout, worker, now, task, queue, round, waited>>

Drain == Start \/ Begin \/ NoMore \/ AllDone \/ TasksLate \/ Flush \/ Flushed \/ QueueLate

-----------------------------------------------------------------------------
(* litellm (external).                                                     *)

\* A task is done: it may have put a callback on the queue and created another
\* task; what it raises is logged and dropped.
TaskDone(t, puts, creates) ==
  /\ task[t] = "pending" /\ st # "done"
  /\ creates \subseteq {u \in Tasks : task[u] = "unborn"} /\ Cardinality(creates) <= 1
  /\ task' = [u \in Tasks |-> IF u = t THEN "done" ELSE IF u \in creates THEN "pending" ELSE task[u]]
  /\ queue' = IF puts THEN queue + 1 ELSE queue
  /\ UNCHANGED <<timeout, worker, now, st, round, waited, why>>

CallbackDone ==
  /\ worker /\ queue > 0 /\ st # "done" /\ queue' = queue - 1
  /\ UNCHANGED <<timeout, worker, now, task, st, round, waited, why>>

\* Timers fire on time: time does not pass them.
Tick ==
  /\ st \in {"waiting", "flushing"}
  /\ now < (IF st = "waiting" THEN TaskDeadline ELSE timeout)
  /\ now' = now + 1
  /\ UNCHANGED <<timeout, worker, task, queue, st, round, waited, why>>

DrainInit ==
  /\ timeout \in Timeouts /\ worker \in Workers
  /\ now = 0 /\ queue \in 0 .. 1
  /\ task \in [Tasks -> {"unborn", "pending"}]
  /\ st = "before" /\ round = 0 /\ waited = {} /\ why = {}

Environment ==
  \/ \E t \in Tasks, puts \in BOOLEAN : \E creates \in SUBSET Tasks : TaskDone(t, puts, creates)
  \/ CallbackDone
  \/ Tick

DrainNext == Drain \/ Environment

DrainSpec == DrainInit /\ [][DrainNext]_drainVars

-----------------------------------------------------------------------------
(* Properties.                                                             *)

\* Types.
DrainTypeOK ==
  /\ timeout \in Nat /\ worker \in BOOLEAN /\ now \in Nat /\ queue \in Nat
  /\ task \in [Tasks -> {"unborn", "pending", "done"}]
  /\ st \in {"before", "round", "waiting", "flush", "flushing", "done"}
  /\ round \in 0 .. MaxRounds /\ waited \subseteq Tasks
  /\ why \subseteq {"rounds", "tasks late", "no worker", "queue late"}

\* Callbacks are lost only for a reason the code names: the time or the rounds
\* ran out while something was still to be done, or litellm has no worker; a queue
\* alone that is late leaves no task behind (litellm_helpers.py:208, 219).
LostForCause ==
  /\ st = "done" /\ (queue > 0 \/ Pending # {}) => why # {}
  /\ why \subseteq {"queue late"} /\ st = "done" => Pending = {}

\* However long the tasks take, the queue is given its reserve
\* (litellm_helpers.py:12: "so the final flush always gets a turn").
FlushHasItsTurn ==
  st = "flush" => timeout - now >= Smaller(Reserve, Half(timeout))

\* The time a drain has is spent on what is there to be run, and what it loses
\* it loses for want of time.
Drained == LostForCause /\ FlushHasItsTurn

-----------------------------------------------------------------------------
(* Why it holds: the inductive invariant.                                  *)

\* Up to the flush the reserve is untouched; tasks that are left when it begins
\* are left for a reason, and no new ones are born without one that is left; so
\* is the queue at the end.
DrainInv ==
  /\ st \in {"before", "round", "waiting", "flush"} => now =< TaskDeadline
  /\ st \in {"flush", "flushing", "done"} => Pending = {} \/ why \cap {"rounds", "tasks late"} # {}
  /\ st = "done" => queue = 0 \/ why # {}
=============================================================================
