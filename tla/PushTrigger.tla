----------------------------- MODULE PushTrigger -----------------------------
(***************************************************************************)
(* handle_push_trigger_for_new_commits of the GitHub app: the webhook      *)
(* deliveries of pushes to open pull requests, deduplicated by a counter   *)
(* and a condition variable per pull request.  Both live in                *)
(* DefaultDictWithTimeout dictionaries whose entries expire.               *)
(*                                                                         *)
(* All deliveries are tasks of one asyncio loop, so an action is the code  *)
(* between two awaits that really suspend.  The awaits that suspend are    *)
(* Condition.wait() and the review itself: the lock of a condition is      *)
(* never held across another await, hence never contended.                 *)
(***************************************************************************)
EXTENDS Integers, Sequences

CONSTANTS PRs,              \* pull requests
          Deliveries,       \* tasks that can be in progress at the same time
          Backlog,          \* push_trigger_pending_tasks_backlog
          Ttl,              \* push_trigger_pending_tasks_ttl, in ticks
          RefreshInterval,  \* refresh_interval of the dictionaries, in ticks
          Prompt            \* TRUE: no entry in use is left untouched for Ttl

ASSUME ConstantTypes ==
  /\ Backlog \in BOOLEAN
  /\ Prompt \in BOOLEAN
  /\ Ttl \in Nat
  /\ RefreshInterval \in Nat \ {0}

VARIABLES
  keys,        \* keys of _duplicate_push_triggers
  count,       \* its values: tasks active on the pull request (0 off keys)
  countAge,    \* time since each key was accessed, NoTime if not recorded
  countIdle,   \* time since its last refresh
  condAge,     \* the same for _pending_task_duplicate_push_conditions
  condIdle,
  queue,       \* queue[p]: waiters of the Condition in that dictionary
  orphans,     \* orphans[p]: waiters of Conditions the dictionary has dropped
  woken,       \* woken[p]: notified, not resumed yet
  running,     \* running[p]: in _perform_auto_commands_github
  uncovered    \* uncovered[p]: has commits that no review has started after

countVars == <<keys, count, countAge, countIdle>>
condVars  == <<condAge, condIdle, queue, orphans>>
taskVars  == <<woken, running, uncovered>>
vars == <<countVars, condVars, taskVars>>

NoTime == -1
Ages == -1 .. Ttl + 1     \* ages are only compared with Ttl: they saturate
Elements(s) == {s[i] : i \in DOMAIN s}

Busy(p) == Elements(queue[p]) \cup orphans[p] \cup woken[p] \cup running[p]
Idle(d) == \A p \in PRs : d \notin Busy(p)

-----------------------------------------------------------------------------
(* Deliberate faults: each replaces the operator it is named after.        *)

FaultMustWait(n) == n = 2
FaultNotified(q) == {}
FaultAccessed(age, p) == age

-----------------------------------------------------------------------------
(* DefaultDictWithTimeout.  An access first records the time of its key,   *)
(* so a refresh never expires the key that is being accessed.              *)

Expired(age, idle) == {p \in PRs : idle >= RefreshInterval /\ age[p] > Ttl}
IdleAfter(idle)    == IF idle >= RefreshInterval THEN 0 ELSE idle
Accessed(age, p)   == [age EXCEPT ![p] = 0]
Forget(age, E)     == [p \in PRs |-> IF p \in E THEN NoTime ELSE age[p]]
Older(age)  == [p \in PRs |-> IF age[p] \in {NoTime, Ttl + 1} THEN age[p]
                              ELSE age[p] + 1]
MoreIdle(n) == IF n = RefreshInterval THEN n ELSE n + 1

\* An expired key has a recorded time but no value: `del self[key]` raises.
StaleKeys(K, age) == Expired(age, countIdle) \ K

\* _duplicate_push_triggers[p] = n, after the refresh of the access before it.
StoreCount(p, n) ==
  LET age == Accessed(countAge, p)
      E == Expired(age, countIdle)
  IN /\ StaleKeys(keys \cup {p}, age) = {}
     /\ keys' = (keys \cup {p}) \ E
     /\ count' = [q \in PRs |-> IF q = p THEN n ELSE IF q \in E THEN 0 ELSE count[q]]
     /\ countAge' = Forget(age, E)
     /\ countIdle' = IdleAfter(countIdle)

\* The access of key p, with K the keys present, meets a stale key s: some of
\* the expired keys are gone, s is no longer timed, a KeyError is raised and
\* the time of the last refresh stays.
RefreshRaises(p, K) ==
  LET age == Accessed(countAge, p) IN
  \E s \in StaleKeys(K, age) :
  \E E \in SUBSET (Expired(age, countIdle) \cap K) :
    /\ keys' = K \ E
    /\ count' = [q \in PRs |-> IF q \in E THEN 0 ELSE count[q]]
    /\ countAge' = Forget(age, E \cup {s})
    /\ UNCHANGED countIdle

\* _pending_task_duplicate_push_conditions[p].  The factory stores through
\* __setitem__, so a key is present exactly when its time is recorded.  The
\* waiters of an expired Condition can never be notified again.
AccessCondition(p, newQueue) ==
  LET age == Accessed(condAge, p)
      E == Expired(age, condIdle)
  IN /\ condAge' = Forget(age, E)
     /\ condIdle' = IdleAfter(condIdle)
     /\ queue' = [q \in PRs |-> IF q = p THEN newQueue
                                ELSE IF q \in E THEN <<>> ELSE queue[q]]
     /\ orphans' = [q \in PRs |-> IF q \in E THEN orphans[q] \cup Elements(queue[q])
                                  ELSE orphans[q]]

-----------------------------------------------------------------------------
(* Admission: lines 208-228 up to the first suspension.                    *)

MaxActive == IF Backlog THEN 2 ELSE 1
MustWait(n) == n = 1
Queued(p, d) == Append(queue[p], d)

Begin(p, d, r) == /\ running' = [r EXCEPT ![p] = @ \cup {d}]
                  /\ uncovered' = [uncovered EXCEPT ![p] = FALSE]

\* The counter is at its limit: the push is discarded.
Skip(p, d) ==
  /\ Idle(d)
  /\ count[p] >= MaxActive
  /\ uncovered' = [uncovered EXCEPT ![p] = TRUE]
  /\ UNCHANGED <<countVars, condVars, woken, running>>

Enter(p, d) ==
  /\ Idle(d)
  /\ count[p] < MaxActive /\ ~MustWait(count[p])
  /\ StoreCount(p, count[p] + 1)
  /\ AccessCondition(p, queue[p])
  /\ Begin(p, d, running)
  /\ UNCHANGED woken

Wait(p, d) ==
  /\ Idle(d)
  /\ count[p] < MaxActive /\ MustWait(count[p])
  /\ StoreCount(p, count[p] + 1)
  /\ AccessCondition(p, Queued(p, d))
  /\ uncovered' = [uncovered EXCEPT ![p] = TRUE]
  /\ UNCHANGED <<woken, running>>

\* `_duplicate_push_triggers[api_url] += 1` raises: the delivery is lost.
EnterRaises(p, d) ==
  /\ Idle(d)
  /\ count[p] < MaxActive
  /\ RefreshRaises(p, keys \cup {p})
  /\ uncovered' = [uncovered EXCEPT ![p] = TRUE]
  /\ UNCHANGED <<condVars, woken, running>>

\* wait() returns in a notified task, which goes on to the review.
Resume(p, d) ==
  /\ d \in woken[p]
  /\ woken' = [woken EXCEPT ![p] = @ \ {d}]
  /\ Begin(p, d, running)
  /\ UNCHANGED <<countVars, condVars>>

-----------------------------------------------------------------------------
(* The finally block: lines 235-239, however the review ended.             *)

AfterNotify(q) == IF q = <<>> THEN <<>> ELSE Tail(q)
Notified(q) == IF q = <<>> THEN {} ELSE {Head(q)}
Released(n) == n - 1

Notify(p, d) ==
  /\ d \in running[p]
  /\ running' = [running EXCEPT ![p] = @ \ {d}]
  /\ woken' = [woken EXCEPT ![p] = @ \cup Notified(queue[p])]
  /\ AccessCondition(p, AfterNotify(queue[p]))
  /\ UNCHANGED uncovered

Finish(p, d) ==
  /\ Notify(p, d)
  /\ p \in keys
  /\ StoreCount(p, Released(count[p]))

\* The refresh inside `_duplicate_push_triggers[api_url] -= 1` raises.
FinishRaises(p, d) ==
  /\ Notify(p, d)
  /\ RefreshRaises(p, keys)

\* The counter has expired: __missing__ raises, but the time of the key has
\* been recorded and the other expired keys are gone.
FinishExpired(p, d) ==
  /\ Notify(p, d)
  /\ p \notin keys
  /\ LET age == Accessed(countAge, p)
         E == Expired(age, countIdle)
     IN /\ StaleKeys(keys, age) = {}
        /\ keys' = keys \ E
        /\ count' = [q \in PRs |-> IF q \in E THEN 0 ELSE count[q]]
        /\ countAge' = Forget(age, E)
        /\ countIdle' = IdleAfter(countIdle)

-----------------------------------------------------------------------------
InUse(p) == Busy(p) # {}

\* Time passes.  Under Prompt no entry of a pull request with an active
\* delivery gets older than Ttl.
Tick ==
  /\ Prompt => \A p \in PRs : InUse(p) => countAge[p] < Ttl /\ condAge[p] < Ttl
  /\ countAge' = Older(countAge)
  /\ condAge' = Older(condAge)
  /\ countIdle' = MoreIdle(countIdle)
  /\ condIdle' = MoreIdle(condIdle)
  /\ UNCHANGED <<keys, count, queue, orphans, taskVars>>

Init ==
  /\ keys = {}
  /\ count = [p \in PRs |-> 0]
  /\ countAge = [p \in PRs |-> NoTime]
  /\ condAge = [p \in PRs |-> NoTime]
  /\ countIdle = RefreshInterval /\ condIdle = RefreshInterval
  /\ queue = [p \in PRs |-> <<>>]
  /\ orphans = [p \in PRs |-> {}]
  /\ woken = [p \in PRs |-> {}]
  /\ running = [p \in PRs |-> {}]
  /\ uncovered = [p \in PRs |-> FALSE]

Push(p, d) == Skip(p, d) \/ Enter(p, d) \/ Wait(p, d) \/ EnterRaises(p, d)
End(p, d)  == Finish(p, d) \/ FinishRaises(p, d) \/ FinishExpired(p, d)

Next == \/ Tick
        \/ \E p \in PRs, d \in Deliveries : Push(p, d) \/ Resume(p, d) \/ End(p, d)

Spec == Init /\ [][Next]_vars

\* asyncio resumes a notified task, and every review ends (its model and
\* provider calls have timeouts).
Fairness == \A p \in PRs, d \in Deliveries :
              WF_vars(Resume(p, d)) /\ WF_vars(End(p, d))
FairSpec == Spec /\ Fairness

-----------------------------------------------------------------------------
TypeOK ==
  /\ keys \in SUBSET PRs
  /\ count \in [PRs -> Int]
  /\ countAge \in [PRs -> Ages]
  /\ condAge \in [PRs -> Ages]
  /\ countIdle \in 0 .. RefreshInterval
  /\ condIdle \in 0 .. RefreshInterval
  /\ queue \in [PRs -> Seq(Deliveries)]
  /\ orphans \in [PRs -> SUBSET Deliveries]
  /\ woken \in [PRs -> SUBSET Deliveries]
  /\ running \in [PRs -> SUBSET Deliveries]
  /\ uncovered \in [PRs -> BOOLEAN]

\* Two reviews never run at the same time on one pull request ("prevent
\* triggering multiple times", github_app.py:202).
OneReviewPerPR == \A p \in PRs : \A c, d \in running[p] \cup woken[p] : c = d

\* A pushed commit that no review has started after has a delegate: a task
\* that waits, or was notified, and will start a review (github_app.py:205-207).
UncoveredHasDelegate ==
  Backlog => \A p \in PRs : uncovered[p] => queue[p] # <<>> \/ woken[p] # {}

\* The push commands run for every push (automations_and_usage.md:155): a pull
\* request nothing is active on has no commit that a review has yet to cover.
IdleIsCovered == Backlog => \A p \in PRs : uncovered[p] => Busy(p) # {}

\* The counter is exactly the number of tasks that hold the pull request, and
\* no waiter has lost its Condition.
CountIsExact ==
  \A p \in PRs :
    /\ orphans[p] = {}
    /\ count[p] = Len(queue[p]) + (IF running[p] \cup woken[p] = {} THEN 0 ELSE 1)

\* The inductive invariant behind these when runs are prompt: the entries of a
\* pull request in use are fresh, hence survive every refresh; no key is stale;
\* the pull request is held by one task, with at most one waiter behind it.
EntriesInUseFresh ==
  \A p \in PRs : InUse(p) => /\ p \in keys
                             /\ countAge[p] \in 0 .. Ttl
                             /\ condAge[p] \in 0 .. Ttl
NoStaleKey == \A p \in PRs : /\ countAge[p] # NoTime => p \in keys
                             /\ p \notin keys => count[p] = 0
OneHolder ==
  \A p \in PRs : /\ running[p] # {} => woken[p] = {}
                 /\ queue[p] # <<>> => running[p] \cup woken[p] # {} /\ Len(queue[p]) = 1
IndInv == /\ EntriesInUseFresh /\ NoStaleKey /\ OneHolder
          /\ OneReviewPerPR /\ CountIsExact /\ UncoveredHasDelegate

\* Every entry of the counter dictionary has a recorded time: setdefault
\* inserts one without, which no refresh would ever remove, and the code relies
\* on the access that follows it to record the time even when it raises.
NoImmortalEntry == \A p \in keys : countAge[p] # NoTime

\* A delivery that waits for the review to end eventually reviews.
WaiterReviews ==
  \A p \in PRs, d \in Deliveries :
    d \in Elements(queue[p]) \cup orphans[p] ~> d \in running[p]

\* Every pushed commit is eventually covered by a review that starts after it.
PushIsCovered == \A p \in PRs : uncovered[p] ~> ~uncovered[p]

\* The trigger implements its promise.
Abs == INSTANCE PushTriggerAbs WITH
  phase <- [p \in PRs |-> IF running[p] # {} THEN "running"
                          ELSE IF woken[p] # {} THEN "granted" ELSE "none"],
  queued <- [p \in PRs |-> queue[p] # <<>>],
  uncovered <- uncovered
KeepsPromise == Abs!Spec
=============================================================================
