---------------------------- MODULE PollingProofs ----------------------------
(***************************************************************************)
(* Proofs about Polling, for any pull requests, comments and failures: the *)
(* server carries out what users asked for, once for each latest comment,  *)
(* and no more often than users have commented.                            *)
(***************************************************************************)
EXTENDS Polling, FiniteSetTheorems, WellFoundedInduction, TLAPS

-----------------------------------------------------------------------------
(* The greatest of a set of positions: nothing in the library says that    *)
(* there is one.                                                           *)

Before == {p \in Nat \X Nat : p[1] < p[2]}

LEMMA BeforeIsWellFounded == IsWellFoundedOn(Before, Nat)
  BY NatLessThanWellFounded DEF OpToRel, Before

LEMMA MaxIsMember ==
  ASSUME NEW n \in Nat, NEW S \in SUBSET (1 .. n), S # {}
  PROVE  Max(S) \in S
  <1> DEFINE T == {k \in Nat : n - k \in S}
  <1>1. T \subseteq Nat /\ T # {}
    <2>1. PICK x \in S : TRUE
      OBVIOUS
    <2>2. n - x \in T
      BY <2>1
    <2> QED
      BY <2>2
  <1>2. PICK m \in T : \A k \in T : <<k, m>> \notin Before
    <2> HIDE DEF T
    <2> QED
      BY <1>1, BeforeIsWellFounded, WFMin
  <1>3. \A y \in S : n - m >= y
    <2> SUFFICES ASSUME NEW y \in S PROVE n - m >= y
      OBVIOUS
    <2>1. n - y \in T
      OBVIOUS
    <2>2. ~(n - y < m)
      BY <1>2, <2>1 DEF Before
    <2> QED
      BY <2>2
  <1>4. \E x \in S : \A y \in S : x >= y
    BY <1>2, <1>3
  <1> QED
    BY <1>4 DEF Max

LEMMA StartableType ==
  ASSUME Len(queue) \in Nat
  PROVE  Startable \in 0 .. Len(queue)
  <1>1. \E x \in {Len(queue), MaxParallel + 2} : \A y \in {Len(queue), MaxParallel + 2} : x =< y
    BY Lengths
  <1>2. /\ Startable \in {Len(queue), MaxParallel + 2}
        /\ \A y \in {Len(queue), MaxParallel + 2} : Startable =< y
    BY <1>1 DEF Startable, Min
  <1> QED
    BY <1>2, Lengths

-----------------------------------------------------------------------------
(* Types.                                                                  *)

Records == [user : BOOLEAN, tag : BOOLEAN]
Ids == PRs \X (Nat \ {0})
AnyTask == [comment : Ids, news : Ids]

TypeInv ==
  /\ thread \in [PRs -> Seq(Records)]
  /\ \A p \in unread : thread[p] # <<>>
  /\ queue \in Seq(AnyTask) /\ started \in Seq(AnyTask)
  /\ changes \in Nat /\ faults \in Nat
  /\ TypeOK

LEMMA PostedIs ==
  ASSUME thread \in [PRs -> Seq(Records)], NEW c
  PROVE  c \in Posted <=> c \in Ids /\ c[2] \in DOMAIN thread[c[1]]
  BY DEF Posted, Id, Ids

\* Comments are only added: what is posted stays, and is what it was.
Grows == \A p \in PRs : /\ DOMAIN thread[p] \subseteq DOMAIN thread'[p]
                        /\ \A i \in DOMAIN thread[p] : thread'[p][i] = thread[p][i]

LEMMA GrowsKeeps ==
  ASSUME thread \in [PRs -> Seq(Records)], thread' \in [PRs -> Seq(Records)], Grows
  PROVE  /\ Posted \subseteq Posted'
         /\ \A c \in Posted : The(c)' = The(c) /\ (Command(c)' <=> Command(c))
         /\ Tasks \subseteq Tasks'
  <1>1. ASSUME NEW c \in Posted PROVE c \in Posted' /\ The(c)' = The(c)
    <2>1. PICK p \in PRs : \E i \in DOMAIN thread[p] : c = <<p, i>>
      BY DEF Posted, Id
    <2>2. PICK i \in DOMAIN thread[p] : c = <<p, i>>
      BY <2>1
    <2>3. i \in DOMAIN thread'[p] /\ thread'[p][i] = thread[p][i]
      BY <2>2 DEF Grows
    <2> QED
      BY <2>2, <2>3 DEF Posted, Id, The
  <1> QED
    BY <1>1 DEF Command, Tasks

LEMMA Appended ==
  ASSUME NEW S, NEW s \in Seq(S), NEW e \in S
  PROVE  /\ Append(s, e) \in Seq(S) /\ Append(s, e) # <<>>
         /\ Len(s) \in Nat /\ DOMAIN s = 1 .. Len(s)
         /\ DOMAIN Append(s, e) = 1 .. Len(s) + 1
         /\ Append(s, e)[Len(s) + 1] = e
         /\ \A i \in 1 .. Len(s) : Append(s, e)[i] = s[i]
  <1>1. /\ Append(s, e) \in Seq(S) /\ Len(s) \in Nat /\ DOMAIN s = 1 .. Len(s)
        /\ Len(Append(s, e)) = Len(s) + 1
    OBVIOUS
  <1>2. \A i \in 1 .. Len(s) + 1 : Append(s, e)[i] = IF i = Len(s) + 1 THEN e ELSE s[i]
    OBVIOUS
  <1> QED
    BY <1>1, <1>2

\* A comment more in one thread.
LEMMA AppendGrows ==
  ASSUME thread \in [PRs -> Seq(Records)], NEW p \in PRs, NEW c \in Records,
         thread' = [thread EXCEPT ![p] = Append(@, c)]
  PROVE  /\ thread' \in [PRs -> Seq(Records)] /\ Grows
         /\ thread'[p] = Append(thread[p], c) /\ thread'[p] # <<>>
         /\ \A q \in PRs \ {p} : thread'[q] = thread[q]
  <1>1. /\ Append(thread[p], c) \in Seq(Records) /\ Append(thread[p], c) # <<>>
        /\ DOMAIN thread[p] = 1 .. Len(thread[p]) /\ Len(thread[p]) \in Nat
        /\ DOMAIN Append(thread[p], c) = 1 .. Len(thread[p]) + 1
        /\ \A i \in 1 .. Len(thread[p]) : Append(thread[p], c)[i] = thread[p][i]
    BY Appended
  <1>2. /\ thread'[p] = Append(thread[p], c) /\ \A q \in PRs \ {p} : thread'[q] = thread[q]
        /\ thread' \in [PRs -> Seq(Records)]
    BY <1>1
  <1> QED
    BY <1>1, <1>2 DEF Grows

LEMMA SameGrows == UNCHANGED thread => Grows
  BY DEF Grows

\* The comments of a thread that has one, and the commands found in it.
LEMMA LatestPosted ==
  ASSUME TypeInv, NEW p \in unread
  PROVE  Latest(p) \in Posted /\ Latest(p)[1] = p
  <1>1. p \in PRs /\ thread[p] \in Seq(Records) /\ thread[p] # <<>>
    BY DEF TypeInv, TypeOK
  <1>2. Len(thread[p]) \in DOMAIN thread[p]
    BY <1>1
  <1> QED
    BY <1>1, <1>2 DEF Latest, Posted, Id

LEMMA FoundPosted ==
  ASSUME TypeInv, NEW c \in Posted, Found(c[1]) # 0
  PROVE  LET d == Id(c[1], Found(c[1])) IN d \in Posted /\ Command(d) /\ d[1] = c[1]
  <1> DEFINE p == c[1]
  <1>1. p \in PRs /\ thread[p] \in Seq(Records)
    BY DEF Posted, Id, TypeInv
  <1>2. Len(thread[p]) \in Nat /\ DOMAIN thread[p] = 1 .. Len(thread[p])
    BY <1>1
  <1> DEFINE n == Min({Len(thread[p]), PageLength})
  <1>3. n \in Nat /\ n =< Len(thread[p])
    <2>1. \E x \in {Len(thread[p]), PageLength} : \A y \in {Len(thread[p]), PageLength} : x =< y
      BY <1>2, Lengths
    <2>2. n \in {Len(thread[p]), PageLength} /\ \A y \in {Len(thread[p]), PageLength} : n =< y
      BY <2>1 DEF Min
    <2> QED
      BY <1>2, <2>2, Lengths
  <1>4. Scanned(p) \subseteq 1 .. n /\ \A i \in Scanned(p) : Command(Id(p, i))
    <2>1. Scanned(p) = {i \in 1 .. n : i > n - ScanLength /\ Command(Id(p, i))}
      BY DEF Scanned
    <2> HIDE DEF n
    <2> QED
      BY <2>1
  <1> HIDE DEF n
  <1>5. Scanned(p) # {} /\ Found(p) = Max(Scanned(p))
    BY DEF Found
  <1>6. Found(p) \in Scanned(p)
    BY <1>3, <1>4, <1>5, MaxIsMember
  <1>7. Found(p) \in DOMAIN thread[p]
    BY <1>2, <1>3, <1>4, <1>6
  <1> QED
    BY <1>1, <1>4, <1>6, <1>7 DEF Posted, Id

-----------------------------------------------------------------------------
(* The work: what is started, followed by what is queued.                  *)

WorkIs(s, q) == /\ s \o q \in Seq(AnyTask) /\ Len(s) \in Nat /\ Len(q) \in Nat
                /\ Len(s \o q) = Len(s) + Len(q) /\ DOMAIN (s \o q) = 1 .. Len(s) + Len(q)
                /\ \A k \in 1 .. Len(s) + Len(q) :
                     (s \o q)[k] = IF k =< Len(s) THEN s[k] ELSE q[k - Len(s)]

LEMMA Concatenated ==
  ASSUME NEW s \in Seq(AnyTask), NEW q \in Seq(AnyTask)
  PROVE  WorkIs(s, q)
  BY DEF WorkIs

LEMMA WorkTypes ==
  ASSUME TypeInv
  PROVE  /\ Len(Work) \in Nat /\ DOMAIN Work = 1 .. Len(Work)
         /\ \A k \in 1 .. Len(Work) : Work[k] \in Tasks
  <1>1. WorkIs(started, queue)
    BY Concatenated DEF TypeInv
  <1>2. /\ \A k \in 1 .. Len(started) : started[k] \in Tasks
        /\ \A k \in 1 .. Len(queue) : queue[k] \in Tasks
    BY DEF TypeInv, TypeOK, Range
  <1> QED
    BY <1>1, <1>2 DEF Work, WorkIs

\* What is set off is only taken back, from its end.
Kept == /\ Len(Work') \in Nat /\ Len(Work') =< Len(Work) /\ DOMAIN Work' = 1 .. Len(Work')
        /\ \A k \in 1 .. Len(Work') : Work'[k] = Work[k]

\* A task more at its end.
Gains(t) == /\ Len(Work') = Len(Work) + 1 /\ DOMAIN Work' = 1 .. Len(Work')
            /\ Work'[Len(Work) + 1] = t
            /\ \A k \in 1 .. Len(Work) : Work'[k] = Work[k]

LEMMA SameWork == TypeInv /\ UNCHANGED <<started, queue>> => Kept
  BY WorkTypes DEF Kept, Work

LEMMA Queued ==
  ASSUME TypeInv, NEW t \in Tasks, queue' = Append(queue, t), UNCHANGED started
  PROVE  /\ queue' \in Seq(AnyTask) /\ Range(queue') = Range(queue) \cup {t}
         /\ Gains(t)
  <1>1. t \in AnyTask
    BY PostedIs DEF TypeInv, Tasks, AnyTask
  <1>2. /\ queue' \in Seq(AnyTask) /\ DOMAIN queue' = 1 .. Len(queue) + 1
        /\ DOMAIN queue = 1 .. Len(queue) /\ Len(queue) \in Nat
        /\ queue'[Len(queue) + 1] = t /\ \A i \in 1 .. Len(queue) : queue'[i] = queue[i]
        /\ Len(queue') = Len(queue) + 1
    BY <1>1, Appended DEF TypeInv
  <1>3. WorkIs(started, queue) /\ WorkIs(started, queue')
    BY <1>2, Concatenated DEF TypeInv
  <1>4. Work' = started \o queue'
    BY DEF Work
  <1>5. Gains(t)
    BY <1>2, <1>3, <1>4 DEF Gains, Work, WorkIs
  <1> QED
    BY <1>2, <1>5 DEF Range

LEMMA ShortQueue ==
  ASSUME TypeInv, NEW n \in 0 .. Len(queue),
         started' = started \o SubSeq(queue, 1, n), queue' = <<>>
  PROVE  /\ started' \in Seq(AnyTask) /\ queue' \in Seq(AnyTask) /\ Range(queue') = {}
         /\ Range(started') \subseteq Range(started) \cup Range(queue)
         /\ DOMAIN started' = 1 .. Len(started) + n /\ DOMAIN started = 1 .. Len(started)
         /\ Kept
  <1>1. /\ SubSeq(queue, 1, n) \in Seq(AnyTask) /\ Len(SubSeq(queue, 1, n)) = n
        /\ \A i \in 1 .. n : SubSeq(queue, 1, n)[i] = queue[i]
        /\ Len(queue) \in Nat /\ n \in Nat /\ n =< Len(queue) /\ DOMAIN queue = 1 .. Len(queue)
        /\ DOMAIN started = 1 .. Len(started) /\ Len(started) \in Nat
    BY DEF TypeInv
  <1>2. WorkIs(started, SubSeq(queue, 1, n)) /\ WorkIs(started, queue)
    BY <1>1, Concatenated DEF TypeInv
  <1>3. /\ started' \in Seq(AnyTask) /\ Len(started') = Len(started) + n
        /\ DOMAIN started' = 1 .. Len(started) + n
        /\ \A k \in 1 .. Len(started) + n : started'[k] = Work[k]
    BY <1>1, <1>2 DEF WorkIs, Work
  <1>4. queue' \in Seq(AnyTask) /\ Len(queue') = 0 /\ Range(queue') = {}
    BY DEF Range
  <1>5. WorkIs(started', queue') /\ Work' = started' \o queue'
    BY <1>3, <1>4, Concatenated DEF Work
  <1>6. Kept
    BY <1>1, <1>2, <1>3, <1>4, <1>5 DEF Kept, WorkIs, Work
  <1>7. \A k \in 1 .. Len(started) + n : Work[k] \in Range(started) \cup Range(queue)
    BY <1>1, <1>2 DEF Work, WorkIs, Range
  <1> QED
    BY <1>1, <1>3, <1>4, <1>6, <1>7 DEF Range

-----------------------------------------------------------------------------
LEMMA InitTypes == Init => TypeInv
  <1> SUFFICES ASSUME Init PROVE TypeInv
    OBVIOUS
  <1>1. <<>> \in Seq(Records) /\ <<Comment(TRUE, TRUE)>> \in Seq(Records)
    BY DEF Comment, Records
  <1>2. thread \in [PRs -> Seq(Records)] /\ \A p \in unread : thread[p] # <<>>
    BY <1>1 DEF Init
  <1>3. queue \in Seq(AnyTask) /\ started \in Seq(AnyTask) /\ Range(queue) = {} /\ Range(started) = {}
    BY DEF Init, Range
  <1> QED
    BY <1>2, <1>3 DEF Init, TypeInv, TypeOK

\* A step that leaves the threads, the queue and the processes alone.
LEMMA QuietTypes ==
  ASSUME TypeInv, UNCHANGED <<thread, old, changes, queue, started, running>>,
         faults' \in Nat, unread' \subseteq unread, modified' \in {modified, changes},
         batch' \subseteq Posted, current' \subseteq Posted, handled' \subseteq Posted,
         step' \in {"sleep", "mark", "check", "start"}
  PROVE  TypeInv'
  BY DEF TypeInv, TypeOK, Posted, Tasks

\* A step that adds comments.
LEMMA GrownTypes ==
  ASSUME TypeInv, thread' \in [PRs -> Seq(Records)], Grows,
         UNCHANGED <<modified, batch, current, step, handled, queue, started, faults>>,
         unread' \subseteq PRs, \A p \in unread' : thread'[p] # <<>>,
         old' \subseteq PRs, changes' \in Nat, changes' >= changes, running' \subseteq running
  PROVE  TypeInv'
  <1>1. Posted \subseteq Posted' /\ Tasks \subseteq Tasks'
    BY GrowsKeeps DEF TypeInv
  <1>2. modified' \in -1 .. changes'
    BY DEF TypeInv, TypeOK
  <1> QED
    BY <1>1, <1>2 DEF TypeInv, TypeOK

LEMMA TakeTypes ==
  ASSUME TypeInv, NEW p, Take(p)
  PROVE  batch' \subseteq Posted /\ current' \subseteq Posted /\ step' = "check"
  BY DEF Take, TypeInv, TypeOK

LEMMA CheckedTypes ==
  ASSUME Checked
  PROVE  current' = {} /\ step' \in {"mark", "start"}
  BY DEF Checked

LEMMA NextTypes == TypeInv /\ [Next]_vars => TypeInv'
  <1> SUFFICES ASSUME TypeInv, [Next]_vars PROVE TypeInv'
    OBVIOUS
  <1>0. /\ batch \subseteq Posted /\ current \subseteq Posted /\ handled \subseteq Posted
        /\ step \in {"sleep", "mark", "check", "start"} /\ faults \in Nat /\ unread \subseteq PRs
        /\ thread \in [PRs -> Seq(Records)]
    BY DEF TypeInv, TypeOK
  <1>1. CASE UNCHANGED vars
    BY <1>0, <1>1, QuietTypes DEF vars
  <1>2. CASE UserComments
    <2>1. PICK p \in PRs, tag \in BOOLEAN :
            /\ thread' = [thread EXCEPT ![p] = Append(@, Comment(TRUE, tag))]
            /\ \/ unread' = unread \cup {p} /\ old' = old \ {p} /\ changes' = changes + 1
               \/ UNCHANGED <<unread, old, changes>>
            /\ UNCHANGED <<modified, batch, current, step, handled, queue, started, running, faults>>
      BY <1>2 DEF UserComments
    <2>2. Comment(TRUE, tag) \in Records
      BY DEF Comment, Records
    <2>3. /\ thread' \in [PRs -> Seq(Records)] /\ Grows /\ thread'[p] # <<>>
          /\ \A q \in PRs \ {p} : thread'[q] = thread[q]
      BY <1>0, <2>1, <2>2, AppendGrows
    <2>4. /\ unread' \subseteq unread \cup {p} /\ old' \subseteq old
          /\ changes \in Nat /\ changes' \in Nat /\ changes' >= changes
      BY <2>1 DEF TypeInv
    <2>5. \A q \in unread' : thread'[q] # <<>>
      BY <1>0, <2>3, <2>4 DEF TypeInv
    <2> QED
      BY <1>0, <2>1, <2>3, <2>4, <2>5, GrownTypes DEF TypeInv, TypeOK
  <1>3. CASE ProcessEnds
    <2>1. /\ UNCHANGED <<unread, old, changes, modified, batch, current, step, handled, queue, started, faults>>
          /\ running' \subseteq running
      BY <1>3 DEF ProcessEnds
    <2>2. CASE UNCHANGED thread
      BY <2>1, <2>2 DEF TypeInv, TypeOK, Posted, Tasks
    <2>3. CASE thread' # thread
      <3>1. PICK r \in running, tag \in BOOLEAN :
              thread' = [thread EXCEPT ![started[r].comment[1]] = Append(@, Comment(FALSE, tag))]
        BY <1>3, <2>3 DEF ProcessEnds
      <3>2. Comment(FALSE, tag) \in Records
        BY DEF Comment, Records
      <3>3. started[r].comment[1] \in PRs
        <4>1. r \in DOMAIN started /\ started \in Seq(AnyTask)
          BY DEF TypeInv, TypeOK
        <4>2. started[r] \in AnyTask
          BY <4>1
        <4> QED
          BY <4>2 DEF AnyTask, Ids
      <3>4. /\ thread' \in [PRs -> Seq(Records)] /\ Grows
            /\ thread'[started[r].comment[1]] # <<>>
            /\ \A q \in PRs \ {started[r].comment[1]} : thread'[q] = thread[q]
        BY <1>0, <3>1, <3>2, <3>3, AppendGrows
      <3>5. \A q \in unread' : thread'[q] # <<>>
        BY <1>0, <2>1, <3>4 DEF TypeInv
      <3> QED
        BY <1>0, <2>1, <3>4, <3>5, GrownTypes DEF TypeInv, TypeOK
    <2> QED
      BY <2>2, <2>3
  <1>4. CASE List
    <2>1. {Latest(p) : p \in Listed} \subseteq Posted
      BY LatestPosted DEF Listed
    <2> QED
      BY <1>0, <1>4, <2>1, QuietTypes DEF List, world
  <1>5. CASE ListFails
    BY <1>0, <1>5, QuietTypes DEF ListFails, world
  <1>6. CASE MarkRead
    BY <1>0, <1>6, QuietTypes, TakeTypes DEF MarkRead, Marked
  <1>7. CASE MarkRefused
    BY <1>0, <1>7, QuietTypes, TakeTypes DEF MarkRefused, world
  <1>8. CASE MarkFails
    <2>1. queue' = <<>> /\ queue' \in Seq(AnyTask) /\ Range(queue') = {}
      BY <1>8 DEF MarkFails, Range
    <2> QED
      BY <1>0, <1>8, <2>1 DEF MarkFails, world, TypeInv, TypeOK, Posted, Tasks
  <1>9. CASE KnownComment
    BY <1>0, <1>9, QuietTypes, CheckedTypes DEF KnownComment, world
  <1>10. CASE NewCommand
    <2>1. PICK c \in current : handled' = handled \cup {c} /\ queue' = Append(queue, Task(c, c))
      BY <1>10 DEF NewCommand
    <2>2. Task(c, c) \in Tasks
      BY <1>0 DEF Task, Tasks
    <2>3. queue' \in Seq(AnyTask) /\ Range(queue') = Range(queue) \cup {Task(c, c)}
      BY <1>10, <2>1, <2>2, Queued DEF NewCommand, world
    <2> QED
      BY <1>0, <1>10, <2>1, <2>2, <2>3, CheckedTypes DEF NewCommand, world, TypeInv, TypeOK, Posted, Tasks
  <1>11. CASE ScanThread
    <2>1. PICK c \in current :
            /\ handled' = handled \cup {c}
            /\ queue' = IF Found(c[1]) = 0 THEN queue ELSE Append(queue, Task(Id(c[1], Found(c[1])), c))
      BY <1>11 DEF ScanThread
    <2>2. CASE Found(c[1]) = 0
      BY <1>0, <1>11, <2>1, <2>2, QuietTypes, CheckedTypes DEF ScanThread, world
    <2>3. CASE Found(c[1]) # 0
      <3> DEFINE t == Task(Id(c[1], Found(c[1])), c)
      <3>1. t \in Tasks
        BY <1>0, <2>3, FoundPosted DEF Task, Tasks
      <3>2. queue' \in Seq(AnyTask) /\ Range(queue') = Range(queue) \cup {t}
        BY <1>11, <2>1, <2>3, <3>1, Queued DEF ScanThread, world
      <3>3. /\ UNCHANGED <<thread, unread, old, changes, started, running, modified, batch, faults>>
            /\ current' = {} /\ step' \in {"mark", "start"}
        BY <1>11, CheckedTypes DEF ScanThread, world
      <3>4. Posted' = Posted /\ Tasks' = Tasks /\ handled' \subseteq Posted
        BY <1>0, <2>1, <3>3 DEF Posted, Tasks
      <3>5. \A u \in Range(queue') \cup Range(started') : u \in Tasks
        BY <3>1, <3>2, <3>3 DEF TypeInv, TypeOK
      <3> QED
        BY <1>0, <3>2, <3>3, <3>4, <3>5 DEF TypeInv, TypeOK
    <2> QED
      BY <2>2, <2>3
  <1>12. CASE CheckFails
    BY <1>0, <1>12, QuietTypes, CheckedTypes DEF CheckFails, world
  <1>13. CASE StartProcesses
    <2>1. Len(queue) \in Nat
      BY DEF TypeInv
    <2>2. Startable \in 0 .. Len(queue)
      BY <2>1, StartableType
    <2>3. /\ started' \in Seq(AnyTask) /\ queue' \in Seq(AnyTask) /\ Range(queue') = {}
          /\ Range(started') \subseteq Range(started) \cup Range(queue)
          /\ DOMAIN started' = 1 .. Len(started) + Startable /\ DOMAIN started = 1 .. Len(started)
      BY <1>13, <2>2, ShortQueue DEF StartProcesses
    <2>4. running' \subseteq DOMAIN started'
      <3>1. Len(started) \in Nat
        BY DEF TypeInv
      <3> QED
        BY <1>13, <2>1, <2>2, <2>3, <3>1 DEF StartProcesses, TypeInv, TypeOK
    <2> QED
      BY <1>0, <1>13, <2>3, <2>4 DEF StartProcesses, github, TypeInv, TypeOK, Posted, Tasks
  <1> QED
    BY <1>1, <1>2, <1>3, <1>4, <1>5, <1>6, <1>7, <1>8, <1>9, <1>10, <1>11, <1>12, <1>13 DEF Next, Loop

\* Types, whatever is posted and whichever requests fail: what is listed,
\* handled, queued and started are comments that exist.
THEOREM TypeCorrect == Spec => []TypeOK
  <1>1. TypeInv => TypeOK
    BY DEF TypeInv
  <1> QED
    BY <1>1, InitTypes, NextTypes, PTL DEF Spec

-----------------------------------------------------------------------------
(* Work is set off for ever later comments: what is set off was asked for, *)
(* its notification's comment has been handled, and no comment in hand is  *)
(* older than a handled one of its pull request.                           *)

Hand == batch \cup current
HandInv ==
  /\ step # "check" => current = {}
  /\ \A c, d \in Hand : c[1] = d[1] => c = d
  /\ \A c \in Hand, d \in handled : c[1] = d[1] => d[2] =< c[2]

OnceInv ==
  /\ TypeInv /\ HandInv
  /\ \A k \in DOMAIN Work : Command(Work[k].comment) /\ Work[k].news \in handled
  /\ InTurn /\ ForItself

LEMMA HandNext ==
  ASSUME TypeInv, HandInv, [Next]_vars
  PROVE  HandInv'
  <1> USE DEF HandInv, Hand
  <1>1. CASE List
    <2>1. current = {} /\ current' = {} /\ handled' = handled /\ batch' = {Latest(p) : p \in Listed}
      BY <1>1 DEF List
    <2>2. \A p \in PRs : Latest(p)[1] = p /\ Latest(p)[2] = Len(thread[p])
      BY DEF Latest, Id
    <2>3. Listed \subseteq PRs
      BY DEF Listed, TypeInv, TypeOK
    <2>4. ASSUME NEW d \in handled PROVE d[1] \in PRs /\ d[2] =< Len(thread[d[1]])
      <3>1. d \in Ids /\ d[2] \in DOMAIN thread[d[1]] /\ thread[d[1]] \in Seq(Records)
        BY PostedIs DEF TypeInv, TypeOK, Ids
      <3> QED
        BY <3>1 DEF Ids
    <2> QED
      BY <2>1, <2>2, <2>3, <2>4
  <1>2. CASE MarkRead \/ MarkRefused
    <2>1. PICK p \in PRs : Take(p)
      BY <1>2 DEF MarkRead, MarkRefused
    <2>2. current = {} /\ handled' = handled /\ step' = "check"
      BY <1>2, <2>1 DEF MarkRead, MarkRefused, Take
    <2>3. Hand' \subseteq Hand
      BY <2>1 DEF Take
    <2> QED
      BY <2>2, <2>3
  <1>3. CASE MarkFails \/ ListFails
    BY <1>3 DEF MarkFails, ListFails
  <1>4. CASE KnownComment \/ NewCommand \/ ScanThread \/ CheckFails
    <2>1. batch' = batch /\ current' = {}
      BY <1>4 DEF KnownComment, NewCommand, ScanThread, CheckFails, Checked
    <2>2. handled' \subseteq handled \cup current
      BY <1>4 DEF KnownComment, NewCommand, ScanThread, CheckFails
    <2>3. ASSUME NEW c \in current PROVE c[2] \in Int
      <3>1. c \in Ids
        BY PostedIs DEF TypeInv, TypeOK
      <3> QED
        BY <3>1 DEF Ids
    <2> QED
      BY <2>1, <2>2, <2>3
  <1>5. CASE StartProcesses
    BY <1>5 DEF StartProcesses
  <1>6. CASE UserComments \/ ProcessEnds \/ UNCHANGED vars
    BY <1>6 DEF UserComments, ProcessEnds, vars
  <1> QED
    BY <1>1, <1>2, <1>3, <1>4, <1>5, <1>6 DEF Next, Loop

LEMMA OnceKept ==
  ASSUME OnceInv, TypeInv', HandInv', Kept, Grows, handled \subseteq handled'
  PROVE  OnceInv'
  <1>1. /\ DOMAIN Work = 1 .. Len(Work) /\ Len(Work) \in Nat
        /\ \A k \in DOMAIN Work : Work[k] \in Tasks
    BY WorkTypes DEF OnceInv
  <1>2. \A k \in DOMAIN Work' : k \in DOMAIN Work /\ Work'[k] = Work[k]
    BY <1>1 DEF Kept
  <1>3. \A c \in Posted : Command(c)' <=> Command(c)
    BY GrowsKeeps DEF OnceInv, TypeInv
  <1>4. ASSUME NEW k \in DOMAIN Work'
        PROVE  /\ Command(Work[k].comment)' /\ Work'[k].news \in handled'
               /\ Work'[k].comment[1] = Work'[k].news[1]
               /\ Command(Work[k].news)' => Work'[k].comment = Work'[k].news
    <2>1. /\ k \in DOMAIN Work /\ Work'[k] = Work[k]
          /\ Work[k].comment \in Posted /\ Work[k].news \in Posted
      BY <1>1, <1>2 DEF Tasks
    <2>2. Command(Work[k].comment) /\ Work[k].news \in handled
      BY <2>1 DEF OnceInv
    <2>3. Command(Work[k].comment)' /\ (Command(Work[k].news)' <=> Command(Work[k].news))
      BY <1>3, <2>1, <2>2 DEF Command, The
    <2> QED
      BY <2>1, <2>2, <2>3 DEF OnceInv, ForItself
  <1>5. InTurn'
    BY <1>2 DEF OnceInv, InTurn
  <1> QED
    BY <1>4, <1>5 DEF OnceInv, ForItself

LEMMA OnceGains ==
  ASSUME OnceInv, TypeInv', HandInv', UNCHANGED thread, NEW t \in Tasks, Gains(t),
         Command(t.comment), t.comment[1] = t.news[1], Command(t.news) => t.comment = t.news,
         t.news \in current, t.news \notin handled, handled' = handled \cup {t.news}
  PROVE  OnceInv'
  <1>1. DOMAIN Work = 1 .. Len(Work) /\ Len(Work) \in Nat /\ \A k \in DOMAIN Work : Work[k] \in Tasks
    BY WorkTypes DEF OnceInv
  <1>2. \A k \in DOMAIN Work' : \/ k \in DOMAIN Work /\ Work'[k] = Work[k]
                                \/ k = Len(Work) + 1 /\ Work'[k] = t
    BY <1>1 DEF Gains
  <1>3. \A k \in DOMAIN Work' : Command(Work[k].comment)' /\ Work'[k].news \in handled'
    BY <1>2 DEF OnceInv, Command, The
  <1>4. ASSUME NEW k \in DOMAIN Work, Work[k].news[1] = t.news[1] PROVE Work[k].news[2] < t.news[2]
    <2>1. Work[k].news \in handled /\ Work[k].news # t.news
      BY DEF OnceInv
    <2>2. Work[k].news \in Ids /\ t.news \in Ids
      BY <1>1, PostedIs DEF OnceInv, TypeInv, Tasks
    <2>3. Work[k].news[2] =< t.news[2]
      BY <1>4, <2>1 DEF OnceInv, HandInv, Hand
    <2>4. Work[k].news[2] # t.news[2]
      BY <1>4, <2>1, <2>2 DEF Ids
    <2>5. Work[k].news[2] \in Int /\ t.news[2] \in Int
      BY <2>2 DEF Ids
    <2> QED
      BY <2>3, <2>4, <2>5
  <1>5. InTurn'
    <2> SUFFICES ASSUME NEW j \in DOMAIN Work', NEW k \in DOMAIN Work', j < k,
                        Work'[j].news[1] = Work'[k].news[1]
                 PROVE  Work'[j].news[2] < Work'[k].news[2]
      BY DEF InTurn
    <2>1. j \in DOMAIN Work /\ Work'[j] = Work[j]
      BY <1>1, <1>2
    <2> QED
      BY <1>2, <1>4, <2>1 DEF OnceInv, InTurn
  <1>6. ForItself'
    BY <1>2 DEF OnceInv, ForItself, Command, The
  <1> QED
    BY <1>3, <1>5, <1>6 DEF OnceInv

\* What a step does to the work: it adds what a notification asks for, or
\* nothing.
LEMMA WorkSteps ==
  ASSUME TypeInv, [Next]_vars
  PROVE  \/ /\ NewCommand \/ ScanThread
            /\ \E c \in current, t \in Tasks :
                 /\ Gains(t) /\ t.news = c /\ t.comment[1] = c[1] /\ Command(t.comment)
                 /\ Command(c) => t.comment = c
                 /\ c \notin handled /\ handled' = handled \cup {c}
         \/ Kept /\ handled \subseteq handled' /\ Grows
  <1>1. CASE NewCommand
    <2>1. PICK c \in current : /\ ~Known(c) /\ Command(c) /\ handled' = handled \cup {c}
                               /\ queue' = Append(queue, Task(c, c))
      BY <1>1 DEF NewCommand
    <2>2. Task(c, c) \in Tasks /\ Task(c, c).news = c /\ Task(c, c).comment = c
      BY DEF Task, Tasks, TypeInv, TypeOK
    <2>3. Gains(Task(c, c))
      BY <1>1, <2>1, <2>2, Queued DEF NewCommand, world
    <2> QED
      BY <1>1, <2>1, <2>2, <2>3 DEF Known
  <1>2. CASE ScanThread
    <2>1. PICK c \in current :
            /\ ~Known(c) /\ ~Command(c) /\ handled' = handled \cup {c}
            /\ queue' = IF Found(c[1]) = 0 THEN queue ELSE Append(queue, Task(Id(c[1], Found(c[1])), c))
      BY <1>2 DEF ScanThread
    <2>2. CASE Found(c[1]) = 0
      BY <1>2, <2>1, <2>2, SameWork, SameGrows DEF ScanThread, world
    <2>3. CASE Found(c[1]) # 0
      <3> DEFINE d == Id(c[1], Found(c[1]))
                 t == Task(d, c)
      <3>1. c \in Posted /\ d \in Posted /\ Command(d) /\ d[1] = c[1]
        BY <2>3, FoundPosted DEF TypeInv, TypeOK
      <3>2. t \in Tasks /\ t.news = c /\ t.comment = d
        BY <3>1 DEF Task, Tasks
      <3> HIDE DEF d
      <3>3. queue' = Append(queue, t)
        BY <2>1, <2>3 DEF d
      <3> HIDE DEF t
      <3>4. Gains(t)
        BY <1>2, <3>2, <3>3, Queued DEF ScanThread, world
      <3> QED
        BY <1>2, <2>1, <3>1, <3>2, <3>4 DEF Known
    <2> QED
      BY <2>2, <2>3
  <1>3. CASE StartProcesses
    <2>1. Len(queue) \in Nat
      BY DEF TypeInv
    <2>2. Kept
      BY <1>3, <2>1, StartableType, ShortQueue DEF StartProcesses
    <2> QED
      BY <1>3, <2>2, SameGrows DEF StartProcesses, github
  <1>4. CASE MarkFails
    <2>1. SubSeq(queue, 1, 0) = <<>> /\ started \o <<>> = started /\ 0 \in 0 .. Len(queue)
      BY DEF TypeInv
    <2>2. Kept
      BY <1>4, <2>1, ShortQueue DEF MarkFails, world
    <2> QED
      BY <1>4, <2>2, SameGrows DEF MarkFails, world
  <1>5. CASE UserComments
    <2>1. PICK p \in PRs, tag \in BOOLEAN :
            /\ thread' = [thread EXCEPT ![p] = Append(@, Comment(TRUE, tag))]
            /\ UNCHANGED <<handled, queue, started>>
      BY <1>5 DEF UserComments
    <2>2. Comment(TRUE, tag) \in Records /\ thread \in [PRs -> Seq(Records)]
      BY DEF Comment, Records, TypeInv
    <2> QED
      BY <2>1, <2>2, AppendGrows, SameWork
  <1>6. CASE ProcessEnds
    <2>1. UNCHANGED <<handled, queue, started>>
      BY <1>6 DEF ProcessEnds
    <2>2. CASE UNCHANGED thread
      BY <2>1, <2>2, SameWork, SameGrows
    <2>3. CASE thread' # thread
      <3>1. PICK r \in running, tag \in BOOLEAN :
              thread' = [thread EXCEPT ![started[r].comment[1]] = Append(@, Comment(FALSE, tag))]
        BY <1>6, <2>3 DEF ProcessEnds
      <3>2. r \in DOMAIN started /\ started \in Seq(AnyTask)
        BY DEF TypeInv, TypeOK
      <3>3. started[r] \in AnyTask
        BY <3>2
      <3>4. started[r].comment[1] \in PRs /\ Comment(FALSE, tag) \in Records
        BY <3>3 DEF AnyTask, Ids, Comment, Records
      <3> QED
        BY <2>1, <3>1, <3>4, AppendGrows, SameWork DEF TypeInv
    <2> QED
      BY <2>2, <2>3
  <1>7. CASE List \/ MarkRead \/ KnownComment \/ ListFails \/ MarkRefused \/ CheckFails \/ UNCHANGED vars
    <2>1. UNCHANGED <<thread, queue, started>>
      BY <1>7 DEF List, MarkRead, KnownComment, ListFails, MarkRefused, CheckFails, vars, world
    <2>2. handled \subseteq handled'
      BY <1>7 DEF List, MarkRead, KnownComment, ListFails, MarkRefused, CheckFails, vars, world
    <2> QED
      BY <2>1, <2>2, SameWork, SameGrows
  <1> QED
    BY <1>1, <1>2, <1>3, <1>4, <1>5, <1>6, <1>7 DEF Next, Loop

LEMMA OnceNext == OnceInv /\ [Next]_vars => OnceInv'
  <1> SUFFICES ASSUME OnceInv, [Next]_vars PROVE OnceInv'
    OBVIOUS
  <1>1. TypeInv /\ TypeInv' /\ HandInv'
    BY NextTypes, HandNext DEF OnceInv
  <1>2. CASE Kept /\ handled \subseteq handled' /\ Grows
    BY <1>1, <1>2, OnceKept
  <1>3. ASSUME NewCommand \/ ScanThread, NEW c \in current, NEW t \in Tasks, Gains(t), t.news = c,
               t.comment[1] = c[1], Command(t.comment), Command(c) => t.comment = c,
               c \notin handled, handled' = handled \cup {c}
        PROVE  OnceInv'
    <2>1. UNCHANGED thread
      BY <1>3 DEF NewCommand, ScanThread, world
    <2> QED
      BY <1>1, <1>3, <2>1, OnceGains
  <1> QED
    BY <1>1, <1>2, <1>3, WorkSteps

LEMMA OnceInit == Init => OnceInv
  <1> SUFFICES ASSUME Init PROVE OnceInv
    OBVIOUS
  <1>1. Work = <<>> /\ DOMAIN Work = {}
    BY DEF Init, Work
  <1>2. HandInv
    BY DEF Init, HandInv, Hand
  <1> QED
    BY <1>1, <1>2, InitTypes DEF OnceInv, InTurn, ForItself

\* The server sets off nothing but what a user asked for, once for itself and
\* once for each comment without a command that it is found behind, in the
\* order of these comments; for any pull requests, comments, answers that quote
\* mentions, limits and failures.
THEOREM OnceForNews == Spec => []OncePerNews
  <1>1. OnceInv => OncePerNews
    BY DEF OnceInv, OncePerNews, OnlyRequests, Command, The
  <1> QED
    BY <1>1, OnceInit, OnceNext, PTL DEF Spec

-----------------------------------------------------------------------------
(* A pull request is served no more often than its users have commented:   *)
(* each unread notification, and each one in hand, stands for a comment    *)
(* that nothing has been set off for.                                      *)

WorkOf(p) == {k \in DOMAIN Work : Work[k].comment[1] = p}
UsersOf(p) == {i \in DOMAIN thread[p] : thread[p][i].user}
InHand(p) == \E c \in current : c[1] = p
Pending(p) == (IF p \in unread THEN 1 ELSE 0) + (IF InHand(p) THEN 1 ELSE 0)

\* The batch has one notification of a pull request, an unread one.
BatchUnread ==
  /\ \A c \in batch : c[1] \in unread
  /\ \A c, d \in batch : c[1] = d[1] => c = d
  /\ \A c, d \in current : c = d
  /\ step # "check" => current = {}

Covered == \A p \in PRs : Cardinality(WorkOf(p)) + Pending(p) =< Cardinality(UsersOf(p))

ServedInv == TypeInv /\ (faults = 0 => BatchUnread /\ Covered)

LEMMA Counts ==
  ASSUME TypeInv, NEW p \in PRs
  PROVE  /\ IsFiniteSet(WorkOf(p)) /\ Cardinality(WorkOf(p)) \in Nat
         /\ IsFiniteSet(UsersOf(p)) /\ Cardinality(UsersOf(p)) \in Nat
  <1>1. DOMAIN Work = 1 .. Len(Work) /\ Len(Work) \in Nat
    BY WorkTypes
  <1>2. DOMAIN thread[p] = 1 .. Len(thread[p]) /\ Len(thread[p]) \in Nat
    BY DEF TypeInv
  <1>3. IsFiniteSet(DOMAIN Work) /\ IsFiniteSet(DOMAIN thread[p])
    BY <1>1, <1>2, FS_Interval
  <1>4. IsFiniteSet(WorkOf(p)) /\ IsFiniteSet(UsersOf(p))
    BY <1>3, FS_Subset DEF WorkOf, UsersOf
  <1> QED
    BY <1>4, FS_CardinalityType

AllCounts == \A p \in PRs : Cardinality(WorkOf(p)) \in Nat /\ Cardinality(UsersOf(p)) \in Nat

LEMMA CountsNext ==
  TypeInv' => \A p \in PRs : /\ Cardinality(WorkOf(p)') \in Nat
                             /\ Cardinality(UsersOf(p)') \in Nat
  <1>1. TypeInv => AllCounts
    BY Counts DEF AllCounts
  <1>2. TypeInv' => AllCounts'
    BY <1>1, PTL
  <1> QED
    BY <1>2 DEF AllCounts

LEMMA FewerTasks ==
  ASSUME TypeInv, Kept, NEW p \in PRs
  PROVE  Cardinality(WorkOf(p)') =< Cardinality(WorkOf(p))
  <1>1. DOMAIN Work = 1 .. Len(Work) /\ Len(Work) \in Nat
    BY WorkTypes
  <1>2. WorkOf(p)' \subseteq WorkOf(p)
    BY <1>1 DEF Kept, WorkOf
  <1> QED
    BY <1>2, Counts, FS_Subset

LEMMA TaskMore ==
  ASSUME TypeInv, NEW t, Gains(t), NEW p \in PRs
  PROVE  Cardinality(WorkOf(p)') = Cardinality(WorkOf(p)) + (IF t.comment[1] = p THEN 1 ELSE 0)
  <1> DEFINE n == Len(Work)
  <1>1. DOMAIN Work = 1 .. n /\ n \in Nat /\ DOMAIN Work' = 1 .. n + 1
    BY WorkTypes DEF Gains
  <1>2. Work'[n + 1] = t /\ \A k \in 1 .. n : Work'[k] = Work[k]
    BY DEF Gains
  <1>3. n + 1 \notin WorkOf(p)
    BY <1>1 DEF WorkOf
  <1>4. WorkOf(p)' = {k \in DOMAIN Work' : Work'[k].comment[1] = p}
    BY DEF WorkOf
  <1> HIDE DEF n
  <1>5. CASE t.comment[1] = p
    <2>1. WorkOf(p)' = WorkOf(p) \cup {n + 1}
      BY <1>1, <1>2, <1>4, <1>5 DEF WorkOf
    <2> QED
      BY <1>3, <1>5, <2>1, Counts, FS_AddElement
  <1>6. CASE t.comment[1] # p
    <2>1. WorkOf(p)' = WorkOf(p)
      BY <1>1, <1>2, <1>4, <1>6 DEF WorkOf
    <2> QED
      BY <1>6, <2>1, Counts
  <1> QED
    BY <1>5, <1>6

LEMMA UsersStay ==
  ASSUME TypeInv, TypeInv', Grows, NEW p \in PRs
  PROVE  Cardinality(UsersOf(p)) =< Cardinality(UsersOf(p)')
  <1>1. UsersOf(p) \subseteq UsersOf(p)'
    BY DEF Grows, UsersOf
  <1>2. IsFiniteSet(UsersOf(p)')
    <2>1. DOMAIN thread'[p] = 1 .. Len(thread'[p]) /\ Len(thread'[p]) \in Nat
      BY DEF TypeInv
    <2>2. IsFiniteSet(1 .. Len(thread'[p])) /\ UsersOf(p)' \subseteq 1 .. Len(thread'[p])
      BY <2>1, FS_Interval DEF UsersOf
    <2> QED
      BY <2>2, FS_Subset
  <1> QED
    BY <1>1, <1>2, FS_Subset

LEMMA UserMore ==
  ASSUME TypeInv, NEW p \in PRs, NEW c \in Records, c.user,
         thread' = [thread EXCEPT ![p] = Append(@, c)]
  PROVE  Cardinality(UsersOf(p)') = Cardinality(UsersOf(p)) + 1
  <1> DEFINE n == Len(thread[p])
  <1>1. thread \in [PRs -> Seq(Records)] /\ thread[p] \in Seq(Records)
    BY DEF TypeInv
  <1>2. /\ thread'[p] = Append(thread[p], c)
        /\ n \in Nat /\ DOMAIN thread[p] = 1 .. n
        /\ DOMAIN thread'[p] = 1 .. n + 1 /\ thread'[p][n + 1] = c
        /\ \A i \in 1 .. n : thread'[p][i] = thread[p][i]
    BY <1>1, Appended
  <1> HIDE DEF n
  <1>3. UsersOf(p)' = UsersOf(p) \cup {n + 1} /\ n + 1 \notin UsersOf(p)
    BY <1>2 DEF UsersOf
  <1> QED
    BY <1>3, Counts, FS_AddElement

\* Looking at a notification, or giving it up, leaves fewer pending; taking
\* one from the batch, none more.
LEMMA FewerPending ==
  ASSUME unread' \subseteq unread, current' \subseteq current, NEW p
  PROVE  Pending(p)' =< Pending(p)
  BY DEF Pending, InHand

LEMMA TakenPending ==
  ASSUME BatchUnread, step # "check", NEW q, Take(q), unread' = unread \ {q}, NEW p
  PROVE  BatchUnread' /\ Pending(p)' = Pending(p)
  <1>1. PICK c \in batch : /\ c[1] = q /\ batch' = batch \ {c} /\ current' = {c}
                           /\ step' = "check"
    BY DEF Take
  <1>2. q \in unread /\ current = {}
    BY <1>1 DEF BatchUnread
  <1>3. BatchUnread'
    BY <1>1 DEF BatchUnread
  <1>4. (InHand(p)' <=> p = q) /\ ~InHand(p)
    BY <1>1, <1>2 DEF InHand
  <1>5. p \in unread' <=> p \in unread /\ p # q
    OBVIOUS
  <1> QED
    BY <1>2, <1>3, <1>4, <1>5 DEF Pending

\* A step that is no user's comment: what it does to the batch and to what is
\* pending, while no request fails.
LEMMA PendingSteps ==
  ASSUME TypeInv, BatchUnread, Loop \/ ProcessEnds \/ UNCHANGED vars
  PROVE  BatchUnread' /\ \A p \in PRs : Pending(p)' =< Pending(p)
  <1>1. CASE List
    <2>1. UNCHANGED <<unread, current>> /\ current = {}
      BY <1>1 DEF List, world, BatchUnread
    <2>2. batch' = {Latest(p) : p \in Listed} /\ Listed \subseteq unread
      BY <1>1 DEF List, Listed
    <2>3. \A c \in batch' : c[1] \in unread /\ c = Latest(c[1])
      BY <2>2 DEF Latest, Id
    <2> QED
      BY <2>1, <2>3, FewerPending DEF BatchUnread
  <1>2. CASE MarkRead
    <2>1. PICK q \in PRs : Take(q) /\ unread' = unread \ {q}
      BY <1>2 DEF MarkRead, Marked
    <2>2. step # "check"
      BY <1>2 DEF MarkRead
    <2>3. BatchUnread' /\ \A p \in PRs : Pending(p)' = Pending(p)
      BY <2>1, <2>2, TakenPending
    <2> QED
      BY <2>3, FewerPending DEF Pending
  <1>3. CASE KnownComment \/ NewCommand \/ ScanThread
    <2>1. UNCHANGED <<unread, batch>> /\ current' = {}
      BY <1>3 DEF KnownComment, NewCommand, ScanThread, Checked, world
    <2> QED
      BY <2>1, FewerPending DEF BatchUnread
  <1>4. CASE StartProcesses
    <2>0. UNCHANGED <<unread, batch, current>> /\ step = "start"
      BY <1>4 DEF StartProcesses, github
    <2>1. UNCHANGED <<unread, batch, current>> /\ current = {}
      BY <2>0 DEF BatchUnread
    <2> QED
      BY <2>1, FewerPending DEF BatchUnread
  <1>5. CASE ProcessEnds \/ UNCHANGED vars
    <2>1. UNCHANGED <<unread, batch, current, step>>
      BY <1>5 DEF ProcessEnds, vars
    <2> QED
      BY <2>1, FewerPending DEF BatchUnread
  <1> QED
    BY <1>1, <1>2, <1>3, <1>4, <1>5 DEF Loop

\* A notification that has been looked at is no longer pending.
LEMMA LookedAt ==
  ASSUME BatchUnread, NewCommand \/ ScanThread, NEW c \in current, NEW p \in PRs
  PROVE  /\ UNCHANGED <<thread, unread, batch>> /\ BatchUnread'
         /\ Pending(p)' + (IF c[1] = p THEN 1 ELSE 0) = Pending(p)
  <1>1. UNCHANGED <<thread, unread, batch>> /\ current' = {}
    BY DEF NewCommand, ScanThread, Checked, world
  <1>2. BatchUnread'
    BY <1>1 DEF BatchUnread
  <1>3. ~InHand(p)' /\ (InHand(p) <=> c[1] = p)
    BY <1>1 DEF InHand, BatchUnread
  <1> QED
    BY <1>1, <1>2, <1>3 DEF Pending

LEMMA ServedNext == ServedInv /\ [Next]_vars => ServedInv'
  <1> SUFFICES ASSUME ServedInv, [Next]_vars, faults' = 0
               PROVE  BatchUnread' /\ Covered'
    BY NextTypes DEF ServedInv
  <1>0. TypeInv /\ TypeInv' /\ faults \in Nat
    BY NextTypes DEF ServedInv, TypeInv
  <1>1. Loop \/ UserComments \/ ProcessEnds \/ UNCHANGED vars
    BY <1>0 DEF Next, ListFails, MarkRefused, MarkFails, CheckFails
  <1>2. faults = 0
    BY <1>1 DEF Loop, List, MarkRead, KnownComment, NewCommand, ScanThread, StartProcesses,
                UserComments, ProcessEnds, vars
  <1>3. BatchUnread /\ Covered
    BY <1>2 DEF ServedInv
  <1>4. \A p \in PRs : /\ Cardinality(WorkOf(p)) \in Nat /\ Cardinality(UsersOf(p)) \in Nat
                       /\ Cardinality(WorkOf(p)') \in Nat /\ Cardinality(UsersOf(p)') \in Nat
                       /\ Pending(p) \in Nat /\ Pending(p)' \in Nat
    <2>1. \A p \in PRs : Cardinality(WorkOf(p)) \in Nat /\ Cardinality(UsersOf(p)) \in Nat
      BY <1>0, Counts
    <2>2. \A p \in PRs : Cardinality(WorkOf(p)') \in Nat /\ Cardinality(UsersOf(p)') \in Nat
      BY <1>0, CountsNext
    <2> QED
      BY <2>1, <2>2 DEF Pending
  <1>5. CASE UserComments
    <2>1. PICK q \in PRs, tag \in BOOLEAN :
            /\ thread' = [thread EXCEPT ![q] = Append(@, Comment(TRUE, tag))]
            /\ \/ unread' = unread \cup {q}
               \/ UNCHANGED unread
            /\ UNCHANGED <<batch, current, step, queue, started>>
      BY <1>5 DEF UserComments
    <2>2. Comment(TRUE, tag) \in Records /\ Comment(TRUE, tag).user
      BY DEF Comment, Records
    <2>3. Cardinality(UsersOf(q)') = Cardinality(UsersOf(q)) + 1
      BY <1>0, <2>1, <2>2, UserMore
    <2>4. Grows /\ Kept
      BY <1>0, <2>1, <2>2, AppendGrows, SameWork DEF TypeInv
    <2>5. \A p \in PRs : Pending(p)' =< Pending(p) + (IF p = q THEN 1 ELSE 0)
      BY <2>1 DEF Pending, InHand
    <2>6. \A p \in PRs : /\ Cardinality(WorkOf(p)') =< Cardinality(WorkOf(p))
                         /\ Cardinality(UsersOf(p)) =< Cardinality(UsersOf(p)')
      BY <1>0, <2>4, FewerTasks, UsersStay
    <2>7. Covered'
      BY <1>3, <1>4, <2>3, <2>5, <2>6 DEF Covered
    <2>8. BatchUnread'
      BY <1>3, <2>1 DEF BatchUnread
    <2> QED
      BY <2>7, <2>8
  <1>6. CASE Loop \/ ProcessEnds \/ UNCHANGED vars
    <2>1. CASE Kept /\ Grows
      <3>1. BatchUnread' /\ \A p \in PRs : Pending(p)' =< Pending(p)
        BY <1>0, <1>3, <1>6, PendingSteps
      <3>2. \A p \in PRs : /\ Cardinality(WorkOf(p)') =< Cardinality(WorkOf(p))
                           /\ Cardinality(UsersOf(p)) =< Cardinality(UsersOf(p)')
        BY <1>0, <2>1, FewerTasks, UsersStay
      <3> QED
        BY <1>3, <1>4, <3>1, <3>2 DEF Covered
    <2>2. ASSUME NewCommand \/ ScanThread, NEW c \in current, NEW t \in Tasks,
                 Gains(t), t.comment[1] = c[1]
          PROVE  BatchUnread' /\ Covered'
      <3>1. \A p \in PRs : /\ UNCHANGED thread /\ BatchUnread'
                           /\ Pending(p)' + (IF c[1] = p THEN 1 ELSE 0) = Pending(p)
        BY <1>3, <2>2, LookedAt
      <3>2. \A p \in PRs : Cardinality(WorkOf(p)')
                             = Cardinality(WorkOf(p)) + (IF c[1] = p THEN 1 ELSE 0)
        BY <1>0, <2>2, TaskMore
      <3>3. \A p \in PRs : Cardinality(UsersOf(p)') = Cardinality(UsersOf(p))
        BY <3>1 DEF UsersOf
      <3>4. BatchUnread'
        BY <1>3, <1>6, <1>0, PendingSteps
      <3> QED
        BY <1>3, <1>4, <3>1, <3>2, <3>3, <3>4 DEF Covered
    <2> QED
      BY <1>0, <2>1, <2>2, WorkSteps
  <1> QED
    BY <1>1, <1>5, <1>6

LEMMA ServedInit == Init => ServedInv
  <1> SUFFICES ASSUME Init PROVE BatchUnread /\ Covered
    BY InitTypes DEF ServedInv
  <1>1. BatchUnread
    BY DEF Init, BatchUnread
  <1>2. ASSUME NEW p \in PRs PROVE Cardinality(WorkOf(p)) + Pending(p) =< Cardinality(UsersOf(p))
    <2>1. WorkOf(p) = {} /\ ~InHand(p)
      BY DEF Init, WorkOf, Work, InHand
    <2>2. Cardinality(WorkOf(p)) = 0 /\ Cardinality(UsersOf(p)) \in Nat
      BY <2>1, InitTypes, Counts, FS_EmptySet
    <2>3. CASE p \notin unread
      BY <2>1, <2>2, <2>3 DEF Pending
    <2>4. CASE p \in unread
      <3>1. thread[p] = <<Comment(TRUE, TRUE)>>
        BY <2>4 DEF Init
      <3>2. UsersOf(p) = {1}
        BY <3>1 DEF UsersOf, Comment
      <3>3. Cardinality(UsersOf(p)) = 1
        BY <3>2, FS_Singleton
      <3> QED
        BY <2>1, <2>2, <2>4, <3>3 DEF Pending
    <2> QED
      BY <2>3, <2>4
  <1> QED
    BY <1>1, <1>2 DEF Covered

\* While no request fails, a pull request is served no more often than its
\* users have commented, for any number of pull requests and comments: what
\* the server posts itself, mentions quoted, never sets off more work.
THEOREM ServedForAll == Spec => []ServedPerComment
  <1>1. ServedInv => ServedPerComment
    <2> SUFFICES ASSUME ServedInv, faults = 0, NEW p \in PRs
                 PROVE  Cardinality(WorkOf(p)) =< Cardinality(UsersOf(p))
      BY DEF ServedPerComment, WorkOf, UsersOf
    <2>1. Cardinality(WorkOf(p)) + Pending(p) =< Cardinality(UsersOf(p))
      BY DEF ServedInv, Covered
    <2>2. Cardinality(WorkOf(p)) \in Nat /\ Cardinality(UsersOf(p)) \in Nat /\ Pending(p) \in Nat
      BY Counts DEF ServedInv, Pending
    <2> QED
      BY <2>1, <2>2
  <1> QED
    BY <1>1, ServedInit, ServedNext, PTL DEF Spec

=============================================================================
