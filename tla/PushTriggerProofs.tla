------------------------- MODULE PushTriggerProofs -------------------------
(***************************************************************************)
(* Proofs about PushTrigger: type correctness always, and, when no run     *)
(* outlasts the time-to-live of the entries it uses (Prompt), one review   *)
(* per pull request, an exact counter, no uncovered push without a         *)
(* delegate, and the implementation of PushTriggerAbs.                     *)
(***************************************************************************)
EXTENDS PushTrigger, TLAPS

(***************************************************************************)
(* What each dictionary access does to the types.                          *)
(***************************************************************************)
LEMMA AgesType ==
  ASSUME NEW age \in [PRs -> Ages], NEW p \in PRs, NEW E \in SUBSET PRs
  PROVE  /\ Accessed(age, p) \in [PRs -> Ages]
         /\ Forget(age, E) \in [PRs -> Ages]
  BY ConstantTypes DEF Accessed, Forget, Ages, NoTime

LEMMA OlderType ==
  ASSUME NEW age \in [PRs -> Ages]
  PROVE  Older(age) \in [PRs -> Ages]
  BY ConstantTypes DEF Older, Ages, NoTime

LEMMA IdleType ==
  ASSUME NEW n \in 0 .. RefreshInterval
  PROVE  IdleAfter(n) \in 0 .. RefreshInterval /\ MoreIdle(n) \in 0 .. RefreshInterval
  BY ConstantTypes DEF IdleAfter, MoreIdle

CountTypes == /\ keys \in SUBSET PRs
              /\ count \in [PRs -> Int]
              /\ countAge \in [PRs -> Ages]
              /\ countIdle \in 0 .. RefreshInterval
CondTypes == /\ condAge \in [PRs -> Ages]
             /\ condIdle \in 0 .. RefreshInterval
             /\ queue \in [PRs -> Seq(Deliveries)]
             /\ orphans \in [PRs -> SUBSET Deliveries]
TaskTypes == /\ woken \in [PRs -> SUBSET Deliveries]
             /\ running \in [PRs -> SUBSET Deliveries]
             /\ uncovered \in [PRs -> BOOLEAN]

LEMMA TypeParts == TypeOK <=> CountTypes /\ CondTypes /\ TaskTypes
  BY DEF TypeOK, CountTypes, CondTypes, TaskTypes

LEMMA StoreCountType ==
  ASSUME CountTypes, NEW p \in PRs, NEW n \in Int, StoreCount(p, n)
  PROVE  CountTypes'
<1>1. Accessed(countAge, p) \in [PRs -> Ages]
  BY AgesType DEF CountTypes
<1>2. Expired(Accessed(countAge, p), countIdle) \in SUBSET PRs
  BY DEF Expired
<1>3. countAge' \in [PRs -> Ages]
  <2>1. countAge' = Forget(Accessed(countAge, p), Expired(Accessed(countAge, p), countIdle))
    BY DEF StoreCount
  <2> QED BY <1>1, <1>2, <2>1, AgesType
<1>4. countIdle' \in 0 .. RefreshInterval
  BY IdleType DEF CountTypes, StoreCount
<1>5. keys' \in SUBSET PRs /\ count' \in [PRs -> Int]
  BY DEF CountTypes, StoreCount
<1> QED BY <1>3, <1>4, <1>5 DEF CountTypes

LEMMA RefreshRaisesType ==
  ASSUME CountTypes, NEW p \in PRs, NEW K \in SUBSET PRs, RefreshRaises(p, K)
  PROVE  CountTypes'
<1>1. Accessed(countAge, p) \in [PRs -> Ages]
  BY AgesType DEF CountTypes
<1>2. PICK s \in StaleKeys(K, Accessed(countAge, p)),
           E \in SUBSET (Expired(Accessed(countAge, p), countIdle) \cap K) :
        /\ keys' = K \ E
        /\ count' = [q \in PRs |-> IF q \in E THEN 0 ELSE count[q]]
        /\ countAge' = Forget(Accessed(countAge, p), E \cup {s})
        /\ UNCHANGED countIdle
  BY DEF RefreshRaises
<1>3. E \cup {s} \in SUBSET PRs
  BY DEF StaleKeys, Expired
<1>4. countAge' \in [PRs -> Ages]
  BY <1>1, <1>2, <1>3, AgesType
<1>5. keys' \in SUBSET PRs /\ count' \in [PRs -> Int] /\ countIdle' \in 0 .. RefreshInterval
  BY <1>2 DEF CountTypes
<1> QED BY <1>4, <1>5 DEF CountTypes

LEMMA AccessConditionType ==
  ASSUME CondTypes, NEW p \in PRs, NEW q \in Seq(Deliveries), AccessCondition(p, q)
  PROVE  CondTypes'
<1>1. Accessed(condAge, p) \in [PRs -> Ages]
  BY AgesType DEF CondTypes
<1>2. Expired(Accessed(condAge, p), condIdle) \in SUBSET PRs
  BY DEF Expired
<1>3. condAge' \in [PRs -> Ages]
  <2>1. condAge' = Forget(Accessed(condAge, p), Expired(Accessed(condAge, p), condIdle))
    BY DEF AccessCondition
  <2> QED BY <1>1, <1>2, <2>1, AgesType
<1>4. condIdle' \in 0 .. RefreshInterval
  BY IdleType DEF CondTypes, AccessCondition
<1>5. queue' \in [PRs -> Seq(Deliveries)]
  BY DEF CondTypes, AccessCondition
<1>6. orphans' \in [PRs -> SUBSET Deliveries]
  BY DEF CondTypes, AccessCondition, Elements
<1> QED BY <1>3, <1>4, <1>5, <1>6 DEF CondTypes

LEMMA NotifyType ==
  ASSUME CondTypes, TaskTypes, NEW p \in PRs, NEW d \in Deliveries, Notify(p, d)
  PROVE  CondTypes' /\ TaskTypes'
<1>1. queue[p] \in Seq(Deliveries)
  BY DEF CondTypes
<1>2. AfterNotify(queue[p]) \in Seq(Deliveries) /\ Notified(queue[p]) \in SUBSET Deliveries
  BY <1>1 DEF AfterNotify, Notified
<1>3. CondTypes'
  BY <1>2, AccessConditionType DEF Notify
<1>4. TaskTypes'
  BY <1>2 DEF Notify, TaskTypes
<1> QED BY <1>3, <1>4

(***************************************************************************)
(* Type correctness, whatever expires: the dictionaries, the waiters and   *)
(* the tasks keep their types through every step, KeyErrors included.      *)
(***************************************************************************)
LEMMA InitType == Init => TypeOK
  BY ConstantTypes DEF Init, TypeOK, Ages, NoTime

LEMMA NextType == TypeOK /\ [Next]_vars => TypeOK'
<1> SUFFICES ASSUME TypeOK, [Next]_vars
             PROVE  CountTypes' /\ CondTypes' /\ TaskTypes'
  BY DEF TypeOK, CountTypes, CondTypes, TaskTypes
<1> USE TypeParts
<1>1. CASE Tick
  <2>1. CountTypes'
    BY <1>1, OlderType, IdleType DEF Tick, CountTypes
  <2>2. CondTypes'
    BY <1>1, OlderType, IdleType DEF Tick, CondTypes
  <2>3. TaskTypes'
    BY <1>1 DEF Tick, TaskTypes, taskVars
  <2> QED BY <2>1, <2>2, <2>3
<1>2. ASSUME NEW p \in PRs, NEW d \in Deliveries, Skip(p, d)
      PROVE  CountTypes' /\ CondTypes' /\ TaskTypes'
  BY <1>2 DEF Skip, CountTypes, CondTypes, TaskTypes, countVars, condVars
<1>3. ASSUME NEW p \in PRs, NEW d \in Deliveries, Enter(p, d)
      PROVE  CountTypes' /\ CondTypes' /\ TaskTypes'
  <2>1. CountTypes'
    <3>1. count[p] + 1 \in Int
      BY DEF CountTypes
    <3> QED BY <1>3, <3>1, StoreCountType DEF Enter
  <2>2. CondTypes'
    <3>1. queue[p] \in Seq(Deliveries)
      BY DEF CondTypes
    <3> QED BY <1>3, <3>1, AccessConditionType DEF Enter
  <2>3. TaskTypes'
    BY <1>3 DEF Enter, Begin, TaskTypes
  <2> QED BY <2>1, <2>2, <2>3
<1>4. ASSUME NEW p \in PRs, NEW d \in Deliveries, Wait(p, d)
      PROVE  CountTypes' /\ CondTypes' /\ TaskTypes'
  <2>1. CountTypes'
    <3>1. count[p] + 1 \in Int
      BY DEF CountTypes
    <3> QED BY <1>4, <3>1, StoreCountType DEF Wait
  <2>2. CondTypes'
    <3>1. Queued(p, d) \in Seq(Deliveries)
      BY DEF CondTypes, Queued
    <3> QED BY <1>4, <3>1, AccessConditionType DEF Wait
  <2>3. TaskTypes'
    BY <1>4 DEF Wait, TaskTypes
  <2> QED BY <2>1, <2>2, <2>3
<1>5. ASSUME NEW p \in PRs, NEW d \in Deliveries, EnterRaises(p, d)
      PROVE  CountTypes' /\ CondTypes' /\ TaskTypes'
  <2>1. CountTypes'
    <3>1. keys \cup {p} \in SUBSET PRs
      BY DEF CountTypes
    <3> QED BY <1>5, <3>1, RefreshRaisesType DEF EnterRaises
  <2>2. CondTypes' /\ TaskTypes'
    BY <1>5 DEF EnterRaises, CondTypes, TaskTypes, condVars
  <2> QED BY <2>1, <2>2
<1>6. ASSUME NEW p \in PRs, NEW d \in Deliveries, Resume(p, d)
      PROVE  CountTypes' /\ CondTypes' /\ TaskTypes'
  BY <1>6 DEF Resume, Begin, CountTypes, CondTypes, TaskTypes, countVars, condVars
<1>7. ASSUME NEW p \in PRs, NEW d \in Deliveries, End(p, d)
      PROVE  CountTypes' /\ CondTypes' /\ TaskTypes'
  <2>1. CondTypes' /\ TaskTypes'
    BY <1>7, NotifyType DEF End, Finish, FinishRaises, FinishExpired
  <2>2. CASE Finish(p, d)
    <3>1. Released(count[p]) \in Int
      BY DEF CountTypes, Released
    <3> QED BY <2>1, <2>2, <3>1, StoreCountType DEF Finish
  <2>3. CASE FinishRaises(p, d)
    BY <2>1, <2>3, RefreshRaisesType DEF FinishRaises, CountTypes
  <2>4. CASE FinishExpired(p, d)
    <3> DEFINE age == Accessed(countAge, p)
               E == Expired(age, countIdle)
    <3>1. age \in [PRs -> Ages]
      BY AgesType DEF CountTypes
    <3>2. E \in SUBSET PRs
      BY DEF Expired
    <3>3. Forget(age, E) \in [PRs -> Ages]
      BY <3>1, <3>2, AgesType
    <3>4. countAge' \in [PRs -> Ages]
      BY <2>4, <3>3 DEF FinishExpired
    <3>5. countIdle' \in 0 .. RefreshInterval
      BY <2>4, IdleType DEF FinishExpired, CountTypes
    <3>6. keys' \in SUBSET PRs /\ count' \in [PRs -> Int]
      BY <2>4 DEF FinishExpired, CountTypes
    <3> QED BY <2>1, <3>4, <3>5, <3>6 DEF CountTypes
  <2> QED BY <1>7, <2>2, <2>3, <2>4 DEF End
<1>8. CASE UNCHANGED vars
  BY <1>8 DEF vars, countVars, condVars, taskVars, CountTypes, CondTypes, TaskTypes
<1> QED BY <1>1, <1>2, <1>3, <1>4, <1>5, <1>6, <1>7, <1>8 DEF Next, Push

THEOREM TypeCorrect == Spec => []TypeOK
  BY InitType, NextType, PTL DEF Spec

LEMMA ImmortalStore ==
  ASSUME TypeOK, NoImmortalEntry, NEW p \in PRs, NEW n, StoreCount(p, n)
  PROVE  NoImmortalEntry'
  BY DEF StoreCount, Forget, Accessed, Expired, NoImmortalEntry, NoTime, TypeOK

LEMMA ImmortalRaise ==
  ASSUME TypeOK, NoImmortalEntry, NEW p \in PRs, NEW K \in {keys, keys \cup {p}},
         RefreshRaises(p, K)
  PROVE  NoImmortalEntry'
  BY DEF RefreshRaises, StaleKeys, Forget, Accessed, NoImmortalEntry, NoTime, TypeOK

\* However long the runs take, every entry of the counter dictionary can
\* expire, so a counter left wrong by a KeyError is not wrong for ever.
THEOREM NoImmortal == Spec => []NoImmortalEntry
<1>1. Init => NoImmortalEntry
  BY DEF Init, NoImmortalEntry
<1>2. TypeOK /\ NoImmortalEntry /\ [Next]_vars => NoImmortalEntry'
  <2> SUFFICES ASSUME TypeOK, NoImmortalEntry, [Next]_vars
               PROVE  NoImmortalEntry'
    OBVIOUS
  <2>1. CASE Tick
    BY <2>1, ConstantTypes DEF Tick, Older, NoImmortalEntry, NoTime, Ages, TypeOK
  <2>2. ASSUME NEW p \in PRs, NEW d \in Deliveries, Push(p, d)
        PROVE  NoImmortalEntry'
    BY <2>2, ImmortalStore, ImmortalRaise
       DEF Push, Skip, Enter, Wait, EnterRaises, countVars, NoImmortalEntry
  <2>3. ASSUME NEW p \in PRs, NEW d \in Deliveries, Resume(p, d)
        PROVE  NoImmortalEntry'
    BY <2>3 DEF Resume, countVars, NoImmortalEntry
  <2>4. ASSUME NEW p \in PRs, NEW d \in Deliveries, End(p, d)
        PROVE  NoImmortalEntry'
    <3>1. CASE Finish(p, d)
      BY <3>1, ImmortalStore DEF Finish
    <3>2. CASE FinishRaises(p, d)
      BY <3>2, ImmortalRaise DEF FinishRaises
    <3>3. CASE FinishExpired(p, d)
      BY <3>3 DEF FinishExpired, Forget, Accessed, Expired, NoImmortalEntry, NoTime, TypeOK
    <3> QED BY <2>4, <3>1, <3>2, <3>3 DEF End
  <2>5. CASE UNCHANGED vars
    BY <2>5 DEF vars, countVars, NoImmortalEntry
  <2> QED BY <2>1, <2>2, <2>3, <2>4, <2>5 DEF Next
<1> QED BY <1>1, <1>2, TypeCorrect, PTL DEF Spec

(***************************************************************************)
(* Prompt runs.  Under IndInv no access raises, and no access disturbs the *)
(* entries of another pull request that has an active delivery.            *)
(***************************************************************************)
LEMMA ExpiredUnused ==
  ASSUME TypeOK, IndInv, NEW p \in PRs
  PROVE  /\ \A q \in Expired(Accessed(countAge, p), countIdle) :
              q \in PRs /\ q # p /\ ~InUse(q) /\ q \in keys
         /\ \A q \in Expired(Accessed(condAge, p), condIdle) :
              q \in PRs /\ q # p /\ ~InUse(q)
<1>1. ASSUME NEW q \in Expired(Accessed(countAge, p), countIdle)
      PROVE  q \in PRs /\ q # p /\ ~InUse(q) /\ q \in keys
  <2>1. q \in PRs /\ Accessed(countAge, p)[q] > Ttl
    BY DEF Expired
  <2>2. q # p
    BY <2>1, ConstantTypes DEF Accessed, TypeOK
  <2>3. countAge[q] > Ttl /\ countAge[q] \in Ages
    BY <2>1, <2>2 DEF Accessed, TypeOK
  <2>4. countAge[q] # NoTime
    BY <2>3, ConstantTypes DEF NoTime, Ages
  <2>5. ~InUse(q)
    BY <2>1, <2>3, ConstantTypes DEF IndInv, EntriesInUseFresh, Ages
  <2> QED BY <2>1, <2>2, <2>4, <2>5 DEF IndInv, NoStaleKey
<1>2. ASSUME NEW q \in Expired(Accessed(condAge, p), condIdle)
      PROVE  q \in PRs /\ q # p /\ ~InUse(q)
  <2>1. q \in PRs /\ Accessed(condAge, p)[q] > Ttl
    BY DEF Expired
  <2>2. q # p
    BY <2>1, ConstantTypes DEF Accessed, TypeOK
  <2>3. condAge[q] > Ttl /\ condAge[q] \in Ages
    BY <2>1, <2>2 DEF Accessed, TypeOK
  <2>5. ~InUse(q)
    BY <2>1, <2>3, ConstantTypes DEF IndInv, EntriesInUseFresh, Ages
  <2> QED BY <2>1, <2>2, <2>5
<1> QED BY <1>1, <1>2

LEMMA NoRaise ==
  ASSUME TypeOK, IndInv, NEW p \in PRs, NEW K, keys \subseteq K
  PROVE  ~RefreshRaises(p, K)
  BY ExpiredUnused DEF RefreshRaises, StaleKeys

LEMMA UnusedIsFree ==
  ASSUME TypeOK, IndInv, NEW q \in PRs, ~InUse(q)
  PROVE  count[q] = 0 /\ queue[q] = <<>> /\ running[q] = {} /\ woken[q] = {}
<1>1. running[q] = {} /\ woken[q] = {}
  BY DEF InUse, Busy
<1>2. queue[q] = <<>>
  BY <1>1 DEF IndInv, OneHolder
<1>3. Len(queue[q]) = 0 /\ running[q] \cup woken[q] = {}
  BY <1>1, <1>2
<1>4. count[q] = Len(queue[q]) + (IF running[q] \cup woken[q] = {} THEN 0 ELSE 1)
  BY DEF IndInv, CountIsExact
<1> QED BY <1>1, <1>2, <1>3, <1>4

\* The counter entry p is stored, and nothing else changes for a reader.
CountStored(p, n) ==
  /\ count' = [count EXCEPT ![p] = n]
  /\ p \in keys' /\ countAge'[p] = 0
  /\ \A q \in PRs : q # p /\ InUse(q) => q \in keys' /\ countAge'[q] = countAge[q]
  /\ \A q \in PRs : /\ countAge'[q] # NoTime => q \in keys'
                    /\ q \notin keys' => count'[q] = 0

LEMMA StoreCountEffect ==
  ASSUME TypeOK, IndInv, NEW p \in PRs, NEW n \in Int, StoreCount(p, n)
  PROVE  CountStored(p, n)
<1> DEFINE age == Accessed(countAge, p)
           E == Expired(age, countIdle)
<1>1. /\ keys' = (keys \cup {p}) \ E
      /\ count' = [q \in PRs |-> IF q = p THEN n ELSE IF q \in E THEN 0 ELSE count[q]]
      /\ countAge' = Forget(age, E)
  BY DEF StoreCount
<1>2. \A q \in E : q \in PRs /\ q # p /\ ~InUse(q) /\ q \in keys
  BY ExpiredUnused
<1>3. \A q \in E : count[q] = 0
  BY <1>2, UnusedIsFree
<1> HIDE DEF E
<1>4. count' = [count EXCEPT ![p] = n]
  BY <1>1, <1>3 DEF TypeOK
<1>5. \A q \in PRs : countAge'[q] = IF q \in E THEN NoTime ELSE IF q = p THEN 0 ELSE countAge[q]
  BY <1>1 DEF Forget, Accessed, TypeOK
<1>6. p \in keys' /\ countAge'[p] = 0
  BY <1>1, <1>2, <1>5
<1>7. ASSUME NEW q \in PRs, q # p, InUse(q)
      PROVE  q \in keys' /\ countAge'[q] = countAge[q]
  BY <1>1, <1>2, <1>5, <1>7 DEF IndInv, EntriesInUseFresh
<1>8. ASSUME NEW q \in PRs
      PROVE  /\ countAge'[q] # NoTime => q \in keys'
             /\ q \notin keys' => count'[q] = 0
  <2>1. CASE q \in E
    BY <2>1, <1>1, <1>2, <1>5
  <2>2. CASE q = p
    BY <2>2, <1>6
  <2>3. CASE q \notin E /\ q # p
    <3>1. countAge'[q] = countAge[q] /\ count'[q] = count[q] /\ (q \in keys' <=> q \in keys)
      BY <1>1, <1>5, <2>3
    <3> QED BY <3>1 DEF IndInv, NoStaleKey
  <2> QED BY <2>1, <2>2, <2>3
<1> QED BY <1>4, <1>6, <1>7, <1>8 DEF CountStored

\* The Condition of p is accessed, and the others keep their waiters.
ConditionAccessed(p, newQueue) ==
  /\ queue' = [queue EXCEPT ![p] = newQueue]
  /\ orphans' = orphans
  /\ condAge'[p] = 0
  /\ \A q \in PRs : q # p /\ InUse(q) => condAge'[q] = condAge[q]

LEMMA AccessConditionEffect ==
  ASSUME TypeOK, IndInv, NEW p \in PRs, NEW nq \in Seq(Deliveries), AccessCondition(p, nq)
  PROVE  ConditionAccessed(p, nq)
<1> DEFINE age == Accessed(condAge, p)
           E == Expired(age, condIdle)
<1>1. /\ condAge' = Forget(age, E)
      /\ queue' = [q \in PRs |-> IF q = p THEN nq
                                 ELSE IF q \in E THEN <<>> ELSE queue[q]]
      /\ orphans' = [q \in PRs |-> IF q \in E THEN orphans[q] \cup Elements(queue[q])
                                   ELSE orphans[q]]
  BY DEF AccessCondition
<1>2. \A q \in E : q \in PRs /\ q # p /\ ~InUse(q)
  BY ExpiredUnused
<1>3. \A q \in E : queue[q] = <<>>
  BY <1>2, UnusedIsFree
<1>4. Elements(<<>>) = {}
  BY DEF Elements
<1> HIDE DEF E
<1>5. queue' = [queue EXCEPT ![p] = nq]
  BY <1>1, <1>3 DEF TypeOK
<1>6. orphans' = orphans
  BY <1>1, <1>3, <1>4 DEF TypeOK
<1>7. \A q \in PRs : condAge'[q] = IF q \in E THEN NoTime ELSE IF q = p THEN 0 ELSE condAge[q]
  BY <1>1 DEF Forget, Accessed, TypeOK
<1> QED BY <1>2, <1>5, <1>6, <1>7 DEF ConditionAccessed

(***************************************************************************)
(* IndInv pull request by pull request.                                    *)
(***************************************************************************)
Tasks(q) == running[q] \cup woken[q]
NoStaleAt(q) == (countAge[q] # NoTime => q \in keys) /\ (q \notin keys => count[q] = 0)
FreshAt(q) == q \in keys /\ countAge[q] \in 0 .. Ttl /\ condAge[q] \in 0 .. Ttl
TasksAt(q) ==
  /\ running[q] # {} => woken[q] = {}
  /\ queue[q] # <<>> => Tasks(q) # {} /\ Len(queue[q]) = 1
  /\ \A c, d \in Tasks(q) : c = d
  /\ orphans[q] = {}
  /\ count[q] = Len(queue[q]) + (IF Tasks(q) = {} THEN 0 ELSE 1)
  /\ Backlog => (uncovered[q] => queue[q] # <<>> \/ woken[q] # {})
InvAt(q) == (InUse(q) => FreshAt(q)) /\ NoStaleAt(q) /\ TasksAt(q)

LEMMA IndInvByPR == IndInv <=> \A q \in PRs : InvAt(q)
<1>1. IndInv => \A q \in PRs : InvAt(q)
  BY DEF IndInv, InvAt, FreshAt, NoStaleAt, TasksAt, Tasks, EntriesInUseFresh, NoStaleKey,
         OneHolder, OneReviewPerPR, CountIsExact, UncoveredHasDelegate
<1>2. (\A q \in PRs : InvAt(q)) => IndInv
  BY DEF IndInv, InvAt, FreshAt, NoStaleAt, TasksAt, Tasks, EntriesInUseFresh, NoStaleKey,
         OneHolder, OneReviewPerPR, CountIsExact, UncoveredHasDelegate
<1> QED BY <1>1, <1>2

SameTasks(q) == /\ running'[q] = running[q] /\ woken'[q] = woken[q]
                /\ queue'[q] = queue[q] /\ orphans'[q] = orphans[q]
                /\ uncovered'[q] = uncovered[q] /\ count'[q] = count[q]

LEMMA UntouchedKept ==
  ASSUME NEW q \in PRs, InvAt(q), SameTasks(q), NoStaleAt(q)',
         InUse(q) => q \in keys' /\ countAge'[q] = countAge[q] /\ condAge'[q] = condAge[q]
  PROVE  InvAt(q)'
  BY DEF InvAt, SameTasks, FreshAt, TasksAt, Tasks, InUse, Busy, Elements

\* Both dictionaries accessed for p, and only the tasks of p changed.
LEMMA TouchKeepsInv ==
  ASSUME TypeOK, IndInv, NEW p \in PRs, NEW n \in Int, NEW nq \in Seq(Deliveries),
         CountStored(p, n), ConditionAccessed(p, nq),
         \A q \in PRs : q # p => /\ running'[q] = running[q] /\ woken'[q] = woken[q]
                                 /\ uncovered'[q] = uncovered[q],
         TasksAt(p)'
  PROVE  IndInv'
<1>1. ASSUME NEW q \in PRs, q # p
      PROVE  InvAt(q)'
  <2>1. InvAt(q)
    BY IndInvByPR
  <2>2. SameTasks(q)
    BY <1>1 DEF SameTasks, CountStored, ConditionAccessed, TypeOK
  <2>3. NoStaleAt(q)'
    BY DEF CountStored, NoStaleAt
  <2>4. InUse(q) => q \in keys' /\ countAge'[q] = countAge[q] /\ condAge'[q] = condAge[q]
    BY <1>1 DEF CountStored, ConditionAccessed
  <2> QED BY <2>1, <2>2, <2>3, <2>4, UntouchedKept
<1>2. InvAt(p)'
  <2>1. FreshAt(p)'
    BY ConstantTypes DEF FreshAt, CountStored, ConditionAccessed
  <2>2. NoStaleAt(p)'
    BY DEF CountStored, NoStaleAt
  <2> QED BY <2>1, <2>2 DEF InvAt
<1>3. (\A q \in PRs : InvAt(q))'
  BY <1>1, <1>2
<1> QED BY <1>3, IndInvByPR, PTL

LEMMA InitInv == Init => IndInv
  <1> SUFFICES ASSUME Init, NEW q \in PRs PROVE InvAt(q)
    BY IndInvByPR
  <1>1. InUse(q) = FALSE
    BY DEF Init, InUse, Busy, Elements
  <1>2. NoStaleAt(q)
    BY DEF Init, NoStaleAt
  <1>3. TasksAt(q)
    BY DEF Init, TasksAt, Tasks
  <1> QED BY <1>1, <1>2, <1>3 DEF InvAt

\* The three situations of a pull request.
LEMMA Situations ==
  ASSUME TypeOK, IndInv, NEW p \in PRs
  PROVE  \/ Tasks(p) = {} /\ queue[p] = <<>> /\ count[p] = 0
         \/ Tasks(p) # {} /\ queue[p] = <<>> /\ count[p] = 1
         \/ Tasks(p) # {} /\ queue[p] # <<>> /\ count[p] = 2
<1>1. TasksAt(p)
  BY IndInvByPR DEF InvAt
<1>2. count[p] = Len(queue[p]) + (IF Tasks(p) = {} THEN 0 ELSE 1)
  BY <1>1 DEF TasksAt
<1>3. CASE queue[p] = <<>>
  <2>1. Len(queue[p]) = 0
    BY <1>3
  <2> QED BY <1>2, <1>3, <2>1
<1>4. CASE queue[p] # <<>>
  <2>1. Tasks(p) # {} /\ Len(queue[p]) = 1
    BY <1>1, <1>4 DEF TasksAt
  <2> QED BY <1>2, <1>4, <2>1
<1> QED BY <1>3, <1>4

LEMMA SkipInv ==
  ASSUME TypeOK, IndInv, NEW p \in PRs, NEW d \in Deliveries, Skip(p, d)
  PROVE  IndInv'
<1>1. ASSUME NEW q \in PRs
      PROVE  InvAt(q)'
  <2>1. InvAt(q)
    BY IndInvByPR
  <2>2. UNCHANGED <<keys, count, countAge, condAge, queue, orphans, woken, running>>
    BY DEF Skip, countVars, condVars
  <2>3. (InUse(q) => FreshAt(q))' /\ NoStaleAt(q)'
    BY <2>1, <2>2 DEF InvAt, FreshAt, NoStaleAt, InUse, Busy, Elements
  <2>4. Backlog => (uncovered'[q] => queue[q] # <<>> \/ woken[q] # {})
    <3>1. CASE q # p
      BY <2>1, <3>1 DEF Skip, InvAt, TasksAt, TypeOK
    <3>2. CASE q = p /\ Backlog
      <4>1. count[p] >= 2
        BY <3>2 DEF Skip, MaxActive
      <4>2. Len(queue[p]) # 0
        BY <2>1, <3>2, <4>1 DEF InvAt, TasksAt, TypeOK
      <4> QED BY <3>2, <4>2
    <3> QED BY <3>1, <3>2
  <2>5. TasksAt(q)'
    BY <2>1, <2>2, <2>4 DEF InvAt, TasksAt, Tasks
  <2> QED BY <2>3, <2>5 DEF InvAt
<1>20. (\A q \in PRs : InvAt(q))'
  BY <1>1
<1> QED BY <1>20, IndInvByPR, PTL

\* A task may enter only when none is active: the counter is exact.
LEMMA EnterInv ==
  ASSUME TypeOK, IndInv, NEW p \in PRs, NEW d \in Deliveries, Enter(p, d)
  PROVE  IndInv'
<1>1. count[p] + 1 \in Int /\ queue[p] \in Seq(Deliveries)
  BY DEF TypeOK
<1>2. CountStored(p, count[p] + 1) /\ ConditionAccessed(p, queue[p])
  BY <1>1, StoreCountEffect, AccessConditionEffect DEF Enter
<1>3. TasksAt(p)
  BY IndInvByPR DEF InvAt
<1>4. count[p] = 0 /\ queue[p] = <<>> /\ Tasks(p) = {}
  <2>1. count[p] < 2 /\ count[p] # 1
    BY DEF Enter, MaxActive, MustWait, TypeOK
  <2> QED BY <2>1, Situations
<1>5. running'[p] = {d} /\ woken'[p] = {} /\ uncovered'[p] = FALSE
  BY <1>4 DEF Enter, Begin, Tasks, TypeOK
<1>6. queue'[p] = <<>> /\ orphans'[p] = {} /\ count'[p] = 1
  BY <1>2, <1>3, <1>4 DEF CountStored, ConditionAccessed, TasksAt, TypeOK
<1>7. TasksAt(p)'
  BY <1>5, <1>6 DEF TasksAt, Tasks
<1>8. \A q \in PRs : q # p => /\ running'[q] = running[q] /\ woken'[q] = woken[q]
                              /\ uncovered'[q] = uncovered[q]
  BY DEF Enter, Begin, TypeOK
<1> QED BY <1>1, <1>2, <1>7, <1>8, TouchKeepsInv

\* A task waits only behind one that is active and has no waiter yet.
LEMMA WaitInv ==
  ASSUME TypeOK, IndInv, NEW p \in PRs, NEW d \in Deliveries, Wait(p, d)
  PROVE  IndInv'
<1>1. count[p] + 1 \in Int /\ queue[p] \in Seq(Deliveries) /\ Queued(p, d) \in Seq(Deliveries)
  BY DEF TypeOK, Queued
<1>2. CountStored(p, count[p] + 1) /\ ConditionAccessed(p, Queued(p, d))
  BY <1>1, StoreCountEffect, AccessConditionEffect DEF Wait
<1>3. TasksAt(p)
  BY IndInvByPR DEF InvAt
<1>4. count[p] = 1 /\ queue[p] = <<>> /\ Tasks(p) # {}
  <2>1. count[p] = 1
    BY DEF Wait, MustWait
  <2> QED BY <2>1, Situations
<1>5. Queued(p, d) # <<>> /\ Len(Queued(p, d)) = 1
  BY <1>1, <1>4 DEF Queued
<1>6. running' = running /\ woken' = woken
  BY DEF Wait
<1>7. queue'[p] = Queued(p, d) /\ orphans'[p] = {} /\ count'[p] = 2
  BY <1>2, <1>3, <1>4 DEF CountStored, ConditionAccessed, TasksAt, TypeOK
<1>8. TasksAt(p)'
  <2>1. Tasks(p)' = Tasks(p) /\ Tasks(p)' # {}
    BY <1>4, <1>6 DEF Tasks
  <2>2. queue'[p] # <<>> /\ Len(queue'[p]) = 1
    BY <1>5, <1>7
  <2>3. count'[p] = Len(queue'[p]) + (IF Tasks(p)' = {} THEN 0 ELSE 1)
    BY <1>7, <2>1, <2>2
  <2>4. /\ running'[p] # {} => woken'[p] = {}
        /\ \A b, c \in Tasks(p)' : b = c
    BY <1>3, <1>6, <2>1 DEF TasksAt
  <2> QED BY <1>7, <2>1, <2>2, <2>3, <2>4 DEF TasksAt
<1>9. \A q \in PRs : q # p => /\ running'[q] = running[q] /\ woken'[q] = woken[q]
                              /\ uncovered'[q] = uncovered[q]
  BY DEF Wait, TypeOK
<1> QED BY <1>1, <1>2, <1>8, <1>9, TouchKeepsInv

LEMMA ResumeInv ==
  ASSUME TypeOK, IndInv, NEW p \in PRs, NEW d \in Deliveries, Resume(p, d)
  PROVE  IndInv'
<1>1. UNCHANGED <<keys, count, countAge, condAge, queue, orphans>>
  BY DEF Resume, countVars, condVars
<1>2. TasksAt(p)
  BY IndInvByPR DEF InvAt
<1>3. running[p] = {} /\ woken[p] = {d}
  BY <1>2 DEF Resume, TasksAt, Tasks
<1>4. running'[p] = {d} /\ woken'[p] = {} /\ uncovered'[p] = FALSE
  BY <1>3 DEF Resume, Begin, TypeOK
<1>5. ASSUME NEW q \in PRs
      PROVE  InvAt(q)'
  <2>1. InvAt(q)
    BY IndInvByPR
  <2>2. CASE q = p
    <3>1. InUse(p)
      BY DEF Resume, InUse, Busy
    <3>2. FreshAt(p)' /\ NoStaleAt(p)'
      BY <1>1, <2>1, <2>2, <3>1 DEF InvAt, FreshAt, NoStaleAt
    <3>3. TasksAt(p)'
      BY <1>1, <1>2, <1>3, <1>4 DEF TasksAt, Tasks
    <3> QED BY <2>2, <3>2, <3>3 DEF InvAt
  <2>3. CASE q # p
    <3>1. SameTasks(q)
      BY <1>1, <2>3 DEF SameTasks, Resume, Begin, TypeOK
    <3>2. NoStaleAt(q)'
      BY <1>1, <2>1 DEF InvAt, NoStaleAt
    <3>3. InUse(q) => q \in keys
      BY <2>1 DEF InvAt, FreshAt
    <3> QED BY <1>1, <2>1, <3>1, <3>2, <3>3, UntouchedKept
  <2> QED BY <2>2, <2>3
<1>20. (\A q \in PRs : InvAt(q))'
  BY <1>5
<1> QED BY <1>20, IndInvByPR, PTL

\* What the end of a review does to the tasks of its pull request.
LEMMA FinishTasks ==
  ASSUME TypeOK, IndInv, NEW p \in PRs, NEW d \in Deliveries, Finish(p, d)
  PROVE  /\ running[p] = {d} /\ woken[p] = {} /\ running'[p] = {}
         /\ queue'[p] = <<>> /\ uncovered' = uncovered
         /\ queue[p] = <<>> => woken'[p] = {}
         /\ queue[p] # <<>> => woken'[p] # {}
         /\ IndInv'
<1> DEFINE nq == AfterNotify(queue[p])
<1>1. queue[p] \in Seq(Deliveries) /\ nq \in Seq(Deliveries) /\ Released(count[p]) \in Int
  BY DEF TypeOK, AfterNotify, Released
<1>2. CountStored(p, Released(count[p])) /\ ConditionAccessed(p, nq)
  BY <1>1, StoreCountEffect, AccessConditionEffect DEF Finish, Notify
<1>3. TasksAt(p)
  BY IndInvByPR DEF InvAt
<1>4. running[p] = {d} /\ woken[p] = {} /\ Tasks(p) = {d}
  BY <1>3 DEF Finish, Notify, TasksAt, Tasks
<1>5. running'[p] = {} /\ uncovered' = uncovered /\ woken'[p] = Notified(queue[p])
  BY <1>4 DEF Finish, Notify, TypeOK
<1>6. queue'[p] = nq /\ orphans'[p] = {} /\ count'[p] = Len(queue[p])
  <2>0. Tasks(p) # {} /\ Len(queue[p]) \in Nat
    BY <1>1, <1>4
  <2>1. count[p] = Len(queue[p]) + 1 /\ Len(queue[p]) \in Nat
    BY <1>3, <2>0 DEF TasksAt
  <2> QED BY <1>2, <1>3, <2>1 DEF CountStored, ConditionAccessed, TasksAt, TypeOK, Released
<1>9. TasksAt(p)' /\ queue'[p] = <<>>
  <2>1. CASE queue[p] = <<>>
    <3>1. queue'[p] = <<>> /\ woken'[p] = {} /\ count'[p] = 0
      BY <1>5, <1>6, <2>1 DEF AfterNotify, Notified
    <3>2. Backlog => ~uncovered[p]
      BY <1>3, <1>4, <2>1 DEF TasksAt
    <3>3. Tasks(p)' = {} /\ Len(queue'[p]) = 0
      BY <1>5, <3>1 DEF Tasks
    <3> QED BY <1>5, <1>6, <3>1, <3>2, <3>3 DEF TasksAt
  <2>2. CASE queue[p] # <<>>
    <3>1. Len(queue[p]) = 1
      BY <1>3, <2>2 DEF TasksAt
    <3>2. nq = <<>>
      <4>1. nq = Tail(queue[p])
        BY <2>2 DEF AfterNotify
      <4>2. Len(Tail(queue[p])) = 0
        BY <1>1, <2>2, <3>1
      <4>3. \A s \in Seq(Deliveries) : Len(s) = 0 => s = <<>>
        OBVIOUS
      <4>4. Len(nq) = 0
        BY <4>1, <4>2
      <4> HIDE DEF nq
      <4> QED BY <1>1, <4>3, <4>4
    <3>3. queue'[p] = <<>> /\ woken'[p] = {Head(queue[p])} /\ count'[p] = 1
      BY <1>5, <1>6, <2>2, <3>1, <3>2 DEF Notified
    <3>4. Tasks(p)' = {Head(queue[p])}
      BY <1>5, <3>3 DEF Tasks
    <3>5. Tasks(p)' # {} /\ Len(queue'[p]) = 0 /\ queue'[p] = <<>>
      BY <3>3, <3>4
    <3>6. count'[p] = Len(queue'[p]) + (IF Tasks(p)' = {} THEN 0 ELSE 1)
      BY <3>3, <3>5
    <3>7. \A b, c \in Tasks(p)' : b = c
      BY <3>4
    <3> QED BY <1>5, <1>6, <3>3, <3>5, <3>6, <3>7 DEF TasksAt
  <2> QED BY <2>1, <2>2
<1>7. \A q \in PRs : q # p => /\ running'[q] = running[q] /\ woken'[q] = woken[q]
                               /\ uncovered'[q] = uncovered[q]
  BY DEF Finish, Notify, TypeOK
<1>8. IndInv'
  BY <1>1, <1>2, <1>9, <1>7, TouchKeepsInv
<1> QED BY <1>4, <1>5, <1>8, <1>9 DEF Notified

\* With a fresh counter the end of a review never raises.
LEMMA EndIsFinish ==
  ASSUME TypeOK, IndInv, NEW p \in PRs, NEW d \in Deliveries, End(p, d)
  PROVE  Finish(p, d)
<1>1. ~FinishRaises(p, d)
  BY NoRaise DEF FinishRaises
<1>2. ~FinishExpired(p, d)
  BY DEF FinishExpired, Notify, InUse, Busy, IndInv, EntriesInUseFresh
<1> QED BY <1>1, <1>2 DEF End

LEMMA TickInv ==
  ASSUME Prompt, TypeOK, IndInv, Tick
  PROVE  IndInv'
<1>1. ASSUME NEW q \in PRs
      PROVE  InvAt(q)'
  <2>1. InvAt(q)
    BY IndInvByPR
  <2>2. UNCHANGED <<keys, count, queue, orphans, woken, running, uncovered>>
    BY DEF Tick, taskVars
  <2>3. TasksAt(q)' /\ (InUse(q)' <=> InUse(q))
    <3>1. TasksAt(q) => TasksAt(q)'
      BY <2>2 DEF TasksAt, Tasks
    <3>2. InUse(q)' <=> InUse(q)
      BY <2>2 DEF InUse, Busy, Elements
    <3> QED BY <2>1, <3>1, <3>2 DEF InvAt
  <2>4. countAge'[q] = Older(countAge)[q] /\ condAge'[q] = Older(condAge)[q]
    BY DEF Tick
  <2>5. (countAge[q] = NoTime => countAge'[q] = NoTime)
    BY <2>4 DEF Older
  <2>6. NoStaleAt(q)'
    BY <2>1, <2>2, <2>5 DEF InvAt, NoStaleAt
  <2>7. ASSUME InUse(q)
        PROVE  FreshAt(q)'
    <3>1. q \in keys /\ countAge[q] \in 0 .. Ttl /\ condAge[q] \in 0 .. Ttl
      BY <2>1, <2>7 DEF InvAt, FreshAt
    <3>2. countAge[q] < Ttl /\ condAge[q] < Ttl
      BY <2>7 DEF Tick
    <3>3. countAge'[q] = countAge[q] + 1 /\ condAge'[q] = condAge[q] + 1
      BY <2>4, <3>1, <3>2, ConstantTypes DEF Older, NoTime
    <3> QED BY <2>2, <3>1, <3>2, <3>3, ConstantTypes DEF FreshAt
  <2> QED BY <2>3, <2>6, <2>7 DEF InvAt
<1>20. (\A q \in PRs : InvAt(q))'
  BY <1>1
<1> QED BY <1>20, IndInvByPR, PTL

LEMMA NextInv ==
  ASSUME Prompt, TypeOK, IndInv, [Next]_vars
  PROVE  IndInv'
<1>1. CASE Tick
  BY <1>1, TickInv
<1>2. ASSUME NEW p \in PRs, NEW d \in Deliveries, Push(p, d)
      PROVE  IndInv'
  <2>1. ~EnterRaises(p, d)
    BY NoRaise DEF EnterRaises
  <2> QED BY <1>2, <2>1, SkipInv, EnterInv, WaitInv DEF Push
<1>3. ASSUME NEW p \in PRs, NEW d \in Deliveries, Resume(p, d)
      PROVE  IndInv'
  BY <1>3, ResumeInv
<1>4. ASSUME NEW p \in PRs, NEW d \in Deliveries, End(p, d)
      PROVE  IndInv'
  BY <1>4, EndIsFinish, FinishTasks
<1>5. CASE UNCHANGED vars
  <2>1. ASSUME NEW q \in PRs
        PROVE  InvAt(q)'
    <3>1. InvAt(q)
      BY IndInvByPR
    <3>2. UNCHANGED <<keys, count, countAge, condAge, queue, orphans, woken, running, uncovered>>
      BY <1>5 DEF vars, countVars, condVars, taskVars
    <3> QED BY <3>1, <3>2 DEF InvAt, FreshAt, NoStaleAt, TasksAt, Tasks, InUse, Busy, Elements
  <2>20. (\A q \in PRs : InvAt(q))'
    BY <2>1
  <2> QED BY <2>20, IndInvByPR, PTL
<1> QED BY <1>1, <1>2, <1>3, <1>4, <1>5 DEF Next

\* When runs are prompt: one review per pull request, an exact counter, and a
\* delegate for every commit that is not covered (lines 202-239).
THEOREM Invariance == ASSUME Prompt PROVE Spec => []IndInv
<1>1. TypeOK /\ IndInv /\ [Next]_vars => IndInv'
  BY NextInv
<1> QED BY <1>1, InitInv, TypeCorrect, PTL DEF Spec

THEOREM PromptSafety ==
  ASSUME Prompt
  PROVE  Spec => [](OneReviewPerPR /\ CountIsExact /\ UncoveredHasDelegate)
<1>1. IndInv => OneReviewPerPR /\ CountIsExact /\ UncoveredHasDelegate
  BY DEF IndInv
<1> QED BY <1>1, Invariance, PTL

(***************************************************************************)
(* The trigger implements PushTriggerAbs.                                  *)
(***************************************************************************)
AbsPhase(q) == IF running[q] # {} THEN "running"
               ELSE IF woken[q] # {} THEN "granted" ELSE "none"

\* Only pull request p changes in the abstract state.
OthersSame(p) == \A q \in PRs : q # p => /\ running'[q] = running[q] /\ woken'[q] = woken[q]
                                         /\ queue'[q] = queue[q]

LEMMA AbsFrame ==
  ASSUME TypeOK, NEW p \in PRs, OthersSame(p)
  PROVE  /\ [q \in PRs |-> AbsPhase(q)]' = [[q \in PRs |-> AbsPhase(q)] EXCEPT ![p] = AbsPhase(p)']
         /\ [q \in PRs |-> queue[q] # <<>>]'
              = [[q \in PRs |-> queue[q] # <<>>] EXCEPT ![p] = (queue[p] # <<>>)']
  BY DEF AbsPhase, OthersSame

LEMMA ImplementsStep ==
  ASSUME Prompt, TypeOK, IndInv, [Next]_vars
  PROVE  [Abs!Next]_(Abs!vars)
<1> DEFINE ph == [q \in PRs |-> AbsPhase(q)]
           qd == [q \in PRs |-> queue[q] # <<>>]
<1>1. CASE Tick \/ UNCHANGED vars
  <2>1. UNCHANGED <<queue, woken, running, uncovered>>
    BY <1>1 DEF Tick, vars, condVars, taskVars
  <2> QED BY <2>1 DEF Abs!vars
<1>2. ASSUME NEW p \in PRs, NEW d \in Deliveries, Skip(p, d)
      PROVE  Abs!PushDropped(p)
  <2>1. count[p] >= 1 /\ (Backlog => count[p] >= 2)
    BY <1>2 DEF Skip, MaxActive, TypeOK
  <2>2. Tasks(p) # {} /\ (Backlog => queue[p] # <<>>)
    BY <2>1, Situations
  <2>3. AbsPhase(p) # "none"
    BY <2>2 DEF AbsPhase, Tasks
  <2>4. UNCHANGED <<queue, woken, running>> /\ uncovered' = [uncovered EXCEPT ![p] = TRUE]
    BY <1>2 DEF Skip, condVars
  <2> QED BY <2>2, <2>3, <2>4 DEF Abs!PushDropped, AbsPhase
<1>3. ASSUME NEW p \in PRs, NEW d \in Deliveries, Enter(p, d)
      PROVE  Abs!PushStarts(p)
  <2>1. count[p] + 1 \in Int /\ queue[p] \in Seq(Deliveries)
    BY DEF TypeOK
  <2>2. ConditionAccessed(p, queue[p])
    BY <1>3, <2>1, AccessConditionEffect DEF Enter
  <2>3. Tasks(p) = {}
    <3>1. count[p] # 1 /\ count[p] < 2
      BY <1>3 DEF Enter, MaxActive, MustWait, TypeOK
    <3> QED BY <3>1, Situations
  <2>4. queue' = queue
    BY <2>2 DEF ConditionAccessed, TypeOK
  <2>5. /\ running' = [running EXCEPT ![p] = @ \cup {d}] /\ woken' = woken
        /\ uncovered' = [uncovered EXCEPT ![p] = FALSE]
    BY <1>3 DEF Enter, Begin
  <2>6. running'[p] # {} /\ running[p] = {} /\ woken[p] = {} /\ OthersSame(p)
    BY <2>3, <2>4, <2>5 DEF Tasks, OthersSame, TypeOK
  <2>7. ph' = [ph EXCEPT ![p] = "running"] /\ ph[p] = "none"
    BY <2>6, AbsFrame DEF AbsPhase
  <2> QED BY <2>4, <2>5, <2>7 DEF Abs!PushStarts, AbsPhase
<1>4. ASSUME NEW p \in PRs, NEW d \in Deliveries, Wait(p, d)
      PROVE  Abs!PushQueues(p)
  <2>1. Queued(p, d) \in Seq(Deliveries) /\ Queued(p, d) # <<>>
    <3>1. queue[p] \in Seq(Deliveries)
      BY DEF TypeOK
    <3>2. Queued(p, d) \in Seq(Deliveries) /\ Len(Queued(p, d)) = Len(queue[p]) + 1
      BY <3>1 DEF Queued
    <3> QED BY <3>1, <3>2
  <2>2. ConditionAccessed(p, Queued(p, d))
    BY <1>4, <2>1, AccessConditionEffect DEF Wait
  <2>3. Backlog /\ count[p] = 1
    BY <1>4 DEF Wait, MaxActive, MustWait
  <2>4. queue[p] = <<>> /\ Tasks(p) # {}
    BY <2>3, Situations
  <2>5. woken' = woken /\ running' = running /\ uncovered' = [uncovered EXCEPT ![p] = TRUE]
    BY <1>4 DEF Wait
  <2>6. queue'[p] # <<>> /\ OthersSame(p)
    BY <2>1, <2>2, <2>5 DEF ConditionAccessed, OthersSame, TypeOK
  <2>7. qd' = [qd EXCEPT ![p] = TRUE]
    BY <2>6, AbsFrame
  <2>8. ph' = ph /\ ph[p] # "none"
    BY <2>4, <2>5 DEF AbsPhase, Tasks
  <2> QED BY <2>3, <2>4, <2>5, <2>7, <2>8 DEF Abs!PushQueues, AbsPhase
<1>5. ASSUME NEW p \in PRs, NEW d \in Deliveries, Resume(p, d)
      PROVE  Abs!DelegateStarts(p)
  <2>1. TasksAt(p) /\ d \in woken[p]
    BY <1>5, IndInvByPR DEF InvAt, Resume
  <2>2. running[p] = {} /\ woken[p] # {}
    BY <2>1 DEF TasksAt, Tasks
  <2>3. /\ queue' = queue /\ running'[p] # {} /\ OthersSame(p)
        /\ uncovered' = [uncovered EXCEPT ![p] = FALSE]
    BY <1>5 DEF Resume, Begin, condVars, OthersSame, TypeOK
  <2>4. ph' = [ph EXCEPT ![p] = "running"] /\ ph[p] = "granted"
    BY <2>2, <2>3, AbsFrame DEF AbsPhase
  <2> QED BY <2>3, <2>4 DEF Abs!DelegateStarts, AbsPhase
<1>6. ASSUME NEW p \in PRs, NEW d \in Deliveries, End(p, d)
      PROVE  Abs!ReviewEnds(p)
  <2>1. Finish(p, d)
    BY <1>6, EndIsFinish
  <2>2. /\ running[p] = {d} /\ woken[p] = {} /\ running'[p] = {}
        /\ queue'[p] = <<>> /\ uncovered' = uncovered
        /\ queue[p] = <<>> => woken'[p] = {}
        /\ queue[p] # <<>> => woken'[p] # {}
    BY <2>1, FinishTasks
  <2>3. queue[p] \in Seq(Deliveries) /\ AfterNotify(queue[p]) \in Seq(Deliveries)
    BY DEF TypeOK, AfterNotify
  <2>4. ConditionAccessed(p, AfterNotify(queue[p]))
    BY <2>1, <2>3, AccessConditionEffect DEF Finish, Notify
  <2>5. OthersSame(p)
    BY <2>1, <2>4 DEF OthersSame, ConditionAccessed, Finish, Notify, TypeOK
  <2>6. ph[p] = "running" /\ AbsPhase(p)' = (IF queue[p] # <<>> THEN "granted" ELSE "none")
    BY <2>2 DEF AbsPhase
  <2>7. /\ ph' = [ph EXCEPT ![p] = IF qd[p] THEN "granted" ELSE "none"]
        /\ qd' = [qd EXCEPT ![p] = FALSE]
    BY <2>2, <2>5, <2>6, AbsFrame
  <2> QED BY <2>2, <2>6, <2>7 DEF Abs!ReviewEnds, AbsPhase
<1>7. ASSUME NEW p \in PRs, NEW d \in Deliveries
      PROVE  ~EnterRaises(p, d)
  BY NoRaise DEF EnterRaises
<1> QED
  BY <1>1, <1>2, <1>3, <1>4, <1>5, <1>6, <1>7 DEF Next, Push, Abs!Next, Abs!Step

\* Prompt runs keep the promise stated in PushTriggerAbs.
THEOREM Implements == ASSUME Prompt PROVE Spec => KeepsPromise
<1>1. Init => Abs!Init
  BY DEF Init, Abs!Init
<1>2. TypeOK /\ IndInv /\ [Next]_vars => [Abs!Next]_(Abs!vars)
  BY ImplementsStep
<1> QED BY <1>1, <1>2, TypeCorrect, Invariance, PTL DEF Spec, Abs!Spec, KeepsPromise
=============================================================================
