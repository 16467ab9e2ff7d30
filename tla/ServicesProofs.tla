---------------------------- MODULE ServicesProofs ---------------------------
(***************************************************************************)
(* Proofs about what a request runs under and keeps beside the pull        *)
(* request.  RequestSettings, for any requests, repositories, files and    *)
(* commands: types and the count of a request's commands in every server;  *)
(* and, in the servers that install a copy of the settings, that a request *)
(* runs under its own settings, in the order of the layers, and is served  *)
(* automatically exactly as these ask.  IncrementalReview, for any number  *)
(* of runs, commits and reviews, any thresholds, dates and merges: which   *)
(* commits an incremental review leaves out.  HostFiles, for any files,    *)
(* settings, requests and caches: how old what a cache serves can be.      *)
(* SimilarIssues, for any repositories, issues and overlapping runs: what  *)
(* a list of similar issues names, and that the index has no gaps.         *)
(***************************************************************************)
EXTENDS RequestSettings, IncrementalReview, HostFiles, SimilarIssues, SequenceTheorems, SubsequenceProofs, TLAPS

(***************************************************************************)
(* What an application of a file, and of all files, makes of a key.        *)
(***************************************************************************)
EnvValue == Value("env", Process)

LEMMA FileApplied ==
  ASSUME NEW s, NEW f, NEW v, NEW k \in Keys
  PROVE  /\ WithFile(s, f, v)[k] \in {s[k], v, EnvValue}
         /\ (k \in layers.env => s[k] = EnvValue) =>
              WithFile(s, f, v)[k] = IF k \in layers.env THEN EnvValue
                                     ELSE IF f.valid /\ k \in f.sets THEN v ELSE s[k]
  <1>1. CASE f.valid /\ f.sets # {}
    BY <1>1 DEF WithFile, WithEnv, Over, EnvValue
  <1>2. CASE ~(f.valid /\ f.sets # {})
    BY <1>2 DEF WithFile
  <1> QED
    BY <1>1, <1>2

\* A key comes from the highest layer that sets it, if the environment is
\* already over what was there.
LEMMA FilesApplied ==
  ASSUME NEW s, NEW q, NEW f, NEW k \in Keys, k \in layers.env => s[k] = EnvValue
  PROVE  WithFiles(s, q, f)[k] =
           IF k \in layers.env THEN EnvValue
           ELSE IF f.local.valid /\ k \in f.local.sets THEN Value("repo", event[q].repo)
           ELSE IF k \in f.org THEN Value("org", Process)
           ELSE IF k \in layers.extra THEN Value("extra", Process)
           ELSE s[k]
  <1> DEFINE a == WithExtra(s)
             b == WithFile(a, LayerFile(f.org), Value("org", Process))
  <1>1. a[k] = IF k \in layers.env THEN EnvValue
               ELSE IF k \in layers.extra THEN Value("extra", Process) ELSE s[k]
    BY FileApplied DEF LayerFile, WithExtra
  <1>2. b[k] = IF k \in layers.env THEN EnvValue
               ELSE IF k \in f.org THEN Value("org", Process) ELSE a[k]
    <2> HIDE DEF a
    <2> QED BY <1>1, FileApplied DEF LayerFile
  <1>3. WithFiles(s, q, f) = WithFile(b, f.local, Value("repo", event[q].repo))
    BY DEF WithFiles
  <1> HIDE DEF a, b
  <1> QED
    BY <1>1, <1>2, <1>3, FileApplied

\* The files of a request bring in values of the process and its repository.
LEMMA FilesBring ==
  ASSUME NEW s, NEW q, NEW f, NEW k \in Keys
  PROVE  WithFiles(s, q, f)[k] \in
           {s[k], EnvValue, Value("extra", Process), Value("org", Process), Value("repo", event[q].repo)}
  <1> DEFINE a == WithExtra(s)
             b == WithFile(a, LayerFile(f.org), Value("org", Process))
  <1>1. a[k] \in {s[k], EnvValue, Value("extra", Process)}
    BY FileApplied DEF WithExtra
  <1>2. b[k] \in {a[k], EnvValue, Value("org", Process)}
    <2> HIDE DEF a
    <2> QED BY FileApplied
  <1>3. WithFiles(s, q, f) = WithFile(b, f.local, Value("repo", event[q].repo))
    BY DEF WithFiles
  <1> HIDE DEF a, b
  <1> QED
    BY <1>1, <1>2, <1>3, FileApplied

\* Settings stay a function of the keys.
LEMMA FilesKeys ==
  ASSUME NEW s, s = [k \in Keys |-> s[k]], NEW q, NEW f
  PROVE  WithFiles(s, q, f) = [k \in Keys |-> WithFiles(s, q, f)[k]]
  <1> DEFINE Fun(t) == t = [k \in Keys |-> t[k]]
  <1>1. ASSUME NEW t, Fun(t), NEW g, NEW v PROVE Fun(WithFile(t, g, v))
    BY <1>1 DEF WithFile, WithEnv, Over
  <1> DEFINE a == WithExtra(s)
             b == WithFile(a, LayerFile(f.org), Value("org", Process))
  <1>2. Fun(a)
    BY <1>1 DEF WithExtra
  <1>3. Fun(b)
    BY <1>1, <1>2
  <1>4. WithFiles(s, q, f) = WithFile(b, f.local, Value("repo", event[q].repo))
    BY DEF WithFiles
  <1> QED
    BY <1>1, <1>3, <1>4

(***************************************************************************)
(* Types, and how many commands a request has started.                     *)
(***************************************************************************)
Total(q) == IF Automatic(q) THEN Len(AutoCommands) ELSE 1
Counted(q) ==
  /\ pc[q] # "new" => event[q].repo \in Repos
  /\ pc[q] = "received" => Automatic(q)
  /\ pc[q] \in {"new", "received"} => ran[q] = 0 /\ unbuilt[q] = 0
  /\ pc[q] = "ready" => left[q] # <<>> /\ ran[q] + unbuilt[q] + Len(left[q]) = Total(q)
  /\ pc[q] = "running" => left[q] # <<>> /\ ran[q] + unbuilt[q] + Len(left[q]) = Total(q) + 1
  /\ pc[q] = "done" => ran[q] = 0 \/ ran[q] + unbuilt[q] = Total(q)
TypeInv == TypeOK /\ \A q \in Requests : Counted(q)

LEMMA Constants ==
  /\ Len(AutoCommands) \in Nat \ {0} /\ AutoCommands \in Seq(SUBSET FileKeys) /\ AutoCommands # <<>>
  /\ FileKeys \subseteq Keys /\ Process \notin Requests
  BY SettingsAssumption DEF Keys

LEMMA FilesType ==
  ASSUME NEW s \in [Keys -> Values], NEW q, event[q].repo \in Repos, NEW f
  PROVE  WithFiles(s, q, f) \in [Keys -> Values]
  <1>1. \A k \in Keys : WithFiles(s, q, f)[k] \in Values
    BY FilesBring DEF Values, Value, EnvValue
  <1> QED
    BY <1>1, FilesKeys

LEMMA ExtraBrings ==
  ASSUME NEW s, NEW k \in Keys
  PROVE  WithExtra(s)[k] \in {s[k], EnvValue, Value("extra", Process)}
  BY FileApplied DEF WithExtra

LEMMA ExtraType ==
  ASSUME NEW s \in [Keys -> Values]
  PROVE  WithExtra(s) \in [Keys -> Values]
  <1>1. \A k \in Keys : WithExtra(s)[k] \in Values
    BY ExtraBrings DEF Values, Value, EnvValue
  <1>2. WithExtra(s) = [k \in Keys |-> WithExtra(s)[k]]
    BY DEF WithExtra, WithFile, WithEnv, Over
  <1> QED
    BY <1>1, <1>2

LEMMA OverType ==
  ASSUME NEW s \in [Keys -> Values], NEW keys, NEW v \in Values
  PROVE  Over(s, keys, v) \in [Keys -> Values]
  BY DEF Over

LEMMA ValueTypes ==
  ASSUME NEW q \in Requests
  PROVE  Value("args", q) \in Values /\ Value("server", q) \in Values
  BY DEF Values, Value

LEMMA ScopeType ==
  ASSUME NEW q \in Requests
  PROVE  Scope(q) \in Requests \cup {Process}
  BY DEF Scope

LEMMA OrgTypes ==
  ASSUME TypeOK
  PROVE  OrgKeys \subseteq FileKeys /\ layers.env \subseteq FileKeys /\ layers.extra \subseteq FileKeys
  <1>1. layers \in [env : SUBSET FileKeys, extra : SUBSET FileKeys, org : SUBSET FileKeys]
    BY SettingsAssumption DEF TypeOK
  <1> QED
    BY <1>1 DEF OrgKeys

LEMMA ReadTypes ==
  ASSUME TypeOK, NEW q \in Requests, event[q].repo \in Repos, NEW f \in Reads(q)
  PROVE  f \in Fetched /\ f.read /\ (fetched[q].read => f = fetched[q])
  <1>1. Absent \in Files /\ files[event[q].repo] \in Files /\ OrgKeys \subseteq FileKeys
    BY OrgTypes DEF Files, Absent, TypeOK
  <1>2. CASE fetched[q].read
    BY <1>2 DEF Reads, TypeOK
  <1>3. CASE ~fetched[q].read
    <2>1. f \in [read : {TRUE}, org : {{}, OrgKeys},
                 local : {Absent} \cup {g \in {files[event[q].repo]} : server # "mosaico"}]
      BY <1>3 DEF Reads
    <2> QED
      BY <1>1, <1>3, <2>1 DEF Fetched
  <1> QED
    BY <1>2, <1>3

\* What a request has counted so far are numbers.
LEMMA CountTypes ==
  ASSUME TypeOK, NEW q \in Requests
  PROVE  /\ ran[q] \in Nat /\ unbuilt[q] \in Nat
         /\ Total(q) \in Nat /\ Total(q) =< Len(AutoCommands)
  <1>1. ran[q] \in 0..(Len(AutoCommands) + 1) /\ unbuilt[q] \in 0..Len(AutoCommands)
    BY DEF TypeOK
  <1>2. Len(AutoCommands) \in Nat \ {0}
    BY Constants
  <1> QED
    BY <1>1, <1>2 DEF Total

\* The head of the commands left is one, and the rest is shorter.
LEMMA LeftTypes ==
  ASSUME NEW S, NEW s \in Seq(S), s # <<>>
  PROVE  /\ Head(s) \in S /\ Tail(s) \in Seq(S)
         /\ Len(s) \in Nat \ {0} /\ Len(Tail(s)) = Len(s) - 1
         /\ Len(s) # 1 => Tail(s) # <<>>
  <1>1. Head(s) \in S /\ Tail(s) \in Seq(S) /\ Len(Tail(s)) = Len(s) - 1
    BY HeadTailProperties
  <1>2. Len(s) \in Nat \ {0} /\ Len(<<>>) = 0
    BY EmptySeq
  <1> QED
    BY <1>1, <1>2

LEMMA OneLeft ==
  ASSUME NEW S, NEW a \in S
  PROVE  <<a>> \in Seq(S) /\ <<>> \in Seq(S) /\ <<a>> # <<>> /\ Len(<<a>>) = 1
  OBVIOUS

LEMMA InitTypes == Init => TypeInv
  <1> SUFFICES ASSUME Init PROVE TypeInv
    OBVIOUS
  <1>1. Loaded \in [Keys -> Values]
    BY DEF Loaded, Values, Value
  <1>2. files \in [Repos -> Files]
    BY SettingsAssumption DEF Init, Files
  <1>3. TypeOK
    BY <1>1, <1>2, Constants, SettingsAssumption DEF Init, TypeOK, Idle, Unread, Absent, Files, Fetched
  <1>4. ASSUME NEW q \in Requests PROVE Counted(q)
    BY DEF Init, Counted
  <1> QED
    BY <1>3, <1>4 DEF TypeInv

\* What other requests count is left alone by the step of a request.
LEMMA OthersCounted ==
  ASSUME NEW o \in Requests, Counted(o),
         pc'[o] = pc[o], event'[o] = event[o], ran'[o] = ran[o], left'[o] = left[o],
         unbuilt'[o] = unbuilt[o]
  PROVE  Counted(o)'
  BY DEF Counted, Total, Automatic

LEMMA ReceiveTypes ==
  ASSUME TypeInv, NEW q \in Requests, Receive(q)
  PROVE  TypeInv'
  <1> USE DEF TypeInv, still
  <1>1. PICK r \in Repos, kind \in Kinds, args \in CommentArgs :
          LET a == IF server = "mosaico" THEN {"publish"} ELSE IF kind = "comment" THEN args ELSE {} IN
          /\ event' = [event EXCEPT ![q] = [repo |-> r, kind |-> kind, args |-> a]]
          /\ pc' = [pc EXCEPT ![q] = IF kind \in {"opened", "pushed"} THEN "received" ELSE "ready"]
          /\ left' = [left EXCEPT ![q] = IF kind \in {"opened", "pushed"} THEN <<>> ELSE <<a>>]
    BY DEF Receive
  <1> DEFINE a == IF server = "mosaico" THEN {"publish"} ELSE IF kind = "comment" THEN args ELSE {}
  <1>2. a \in SUBSET FileKeys /\ kind \in {"opened", "pushed", "comment", "api"}
    BY SettingsAssumption DEF Kinds, FileKeys
  <1>3. event' \in [Requests -> [repo : Repos \cup {Process}, kind : {"opened", "pushed", "comment", "api"},
                                 args : SUBSET FileKeys]]
    BY <1>1, <1>2 DEF TypeOK
  <1>4. left' \in [Requests -> Seq(SUBSET FileKeys)]
    <2>1. <<a>> \in Seq(SUBSET FileKeys) /\ <<>> \in Seq(SUBSET FileKeys)
      BY <1>2, OneLeft
    <2>2. left' = [left EXCEPT ![q] = IF kind \in {"opened", "pushed"} THEN <<>> ELSE <<a>>]
      BY <1>1
    <2> HIDE DEF a
    <2> QED
      BY <2>1, <2>2 DEF TypeOK
  <1>5. settings' \in [Requests \cup {Process} -> [Keys -> Values]]
    BY OverType, ValueTypes DEF Receive, Installed, TypeOK
  <1>6. TypeOK'
    BY <1>1, <1>3, <1>4, <1>5 DEF Receive, TypeOK
  <1>7. ASSUME NEW o \in Requests PROVE Counted(o)'
    <2>1. CASE o = q
      BY <1>1, <2>1, Constants DEF Receive, TypeOK, Counted, Total, Automatic
    <2>2. CASE o # q
      BY <1>1, <2>2, OthersCounted DEF Receive, TypeOK
    <2> QED
      BY <2>1, <2>2
  <1> QED
    BY <1>6, <1>7

LEMMA SkipTypes ==
  ASSUME TypeInv, NEW q \in Requests, Skip(q)
  PROVE  TypeInv'
  <1> USE DEF TypeInv, still
  <1>0. event[q].repo \in Repos /\ pc[q] = "received"
    BY DEF Skip, Counted
  <1>1. settings' \in [Requests \cup {Process} -> [Keys -> Values]] /\ fetched' \in [Requests -> Fetched]
    <2>1. PICK f \in Reads(q) :
            \/ UNCHANGED <<settings, fetched>>
            \/ LET s == WithFiles(Current(q), q, f) IN
               /\ fetched' = [fetched EXCEPT ![q] = f]
               /\ settings' = [settings EXCEPT ![Scope(q)] =
                    IF server = "bitbucket_server" /\ ~Refused(q, s) THEN Marked(s, q) ELSE s]
      BY DEF Skip
    <2>2. f \in Fetched
      BY <1>0, ReadTypes
    <2>3. WithFiles(Current(q), q, f) \in [Keys -> Values]
      BY <1>0, FilesType, ScopeType DEF Current, TypeOK
    <2>4. Marked(WithFiles(Current(q), q, f), q) \in [Keys -> Values]
      BY <2>3, OverType, ValueTypes DEF Marked
    <2> DEFINE s == IF server = "bitbucket_server" /\ ~Refused(q, WithFiles(Current(q), q, f))
                    THEN Marked(WithFiles(Current(q), q, f), q) ELSE WithFiles(Current(q), q, f)
    <2>5. s \in [Keys -> Values]
      BY <2>3, <2>4
    <2>6. \/ UNCHANGED <<settings, fetched>>
          \/ /\ fetched' = [fetched EXCEPT ![q] = f]
             /\ settings' = [settings EXCEPT ![Scope(q)] = s]
      BY <2>1
    <2> HIDE DEF s
    <2>7. CASE UNCHANGED <<settings, fetched>>
      BY <2>7 DEF TypeOK
    <2>8. CASE /\ fetched' = [fetched EXCEPT ![q] = f]
               /\ settings' = [settings EXCEPT ![Scope(q)] = s]
      <3>1. settings' \in [Requests \cup {Process} -> [Keys -> Values]]
        BY <2>5, <2>8, ScopeType DEF TypeOK
      <3>2. f \in Fetched
        BY <2>2
      <3> QED
        BY <2>8, <3>1, <3>2 DEF TypeOK
    <2> QED
      BY <2>6, <2>7, <2>8
  <1>2. TypeOK'
    BY <1>1 DEF Skip, TypeOK
  <1>3. ASSUME NEW o \in Requests PROVE Counted(o)'
    <2>1. CASE o = q
      BY <1>0, <2>1 DEF Skip, TypeOK, Counted, Total, Automatic
    <2>2. CASE o # q
      BY <2>2, OthersCounted DEF Skip, TypeOK
    <2> QED
      BY <2>1, <2>2
  <1> QED
    BY <1>2, <1>3

LEMMA AcceptTypes ==
  ASSUME TypeInv, NEW q \in Requests, Accept(q)
  PROVE  TypeInv'
  <1> USE DEF TypeInv, still
  <1>0. event[q].repo \in Repos /\ pc[q] = "received" /\ Automatic(q) /\ ran[q] = 0
    BY DEF Accept, Counted
  <1>1. PICK f \in Reads(q) :
          /\ fetched' = [fetched EXCEPT ![q] = f]
          /\ settings' = [settings EXCEPT ![Scope(q)] = Marked(WithFiles(Current(q), q, f), q)]
    BY DEF Accept
  <1>2. f \in Fetched
    BY <1>0, ReadTypes
  <1>3. Marked(WithFiles(Current(q), q, f), q) \in [Keys -> Values]
    BY <1>0, FilesType, ScopeType, OverType, ValueTypes DEF Current, TypeOK, Marked
  <1>4. settings' \in [Requests \cup {Process} -> [Keys -> Values]]
    BY <1>1, <1>3, ScopeType DEF TypeOK
  <1>5. TypeOK'
    BY <1>1, <1>2, <1>4, Constants DEF Accept, TypeOK
  <1>6. ASSUME NEW o \in Requests PROVE Counted(o)'
    <2>1. CASE o = q
      BY <1>0, <2>1, Constants DEF Accept, TypeOK, Counted, Total, Automatic
    <2>2. CASE o # q
      BY <2>2, OthersCounted DEF Accept, TypeOK
    <2> QED
      BY <2>1, <2>2
  <1> QED
    BY <1>5, <1>6

LEMMA StartTypes ==
  ASSUME TypeInv, NEW q \in Requests, StartCommand(q)
  PROVE  TypeInv'
  <1> USE DEF TypeInv, still
  <1>0. /\ event[q].repo \in Repos /\ pc[q] = "ready"
        /\ left[q] # <<>> /\ ran[q] + unbuilt[q] + Len(left[q]) = Total(q)
    BY DEF StartCommand, Counted
  <1>1. /\ settings' \in [Requests \cup {Process} -> [Keys -> Values]]
        /\ fetched' \in [Requests -> Fetched]
        /\ seen' \in [Requests -> SUBSET Fetched]
    <2>1. CASE server = "kenny"
      BY <2>1 DEF StartCommand, TypeOK
    <2>2. CASE server # "kenny"
      <3>1. PICK f \in Reads(q) :
              /\ fetched' = [fetched EXCEPT ![q] = f]
              /\ settings' = [settings EXCEPT ![Scope(q)] = Prepared(q, f)]
              /\ seen' = [seen EXCEPT ![q] = @ \cup {f}]
        BY <2>2 DEF StartCommand
      <3>2. f \in Fetched
        BY <1>0, ReadTypes
      <3>3. Current(q) \in [Keys -> Values]
        BY ScopeType DEF Current, TypeOK
      <3>4. Prepared(q, f) \in [Keys -> Values]
        <4>1. WithFiles(Current(q), q, f) \in [Keys -> Values]
          BY <1>0, <3>3, FilesType
        <4>2. WithArgs(Current(q), q, Head(left[q])) \in [Keys -> Values]
          BY <3>3, OverType, ValueTypes DEF WithArgs
        <4>3. WithFiles(WithArgs(Current(q), q, Head(left[q])), q, f) \in [Keys -> Values]
          BY <1>0, <4>2, FilesType
        <4>4. WithArgs(WithFiles(Current(q), q, f), q, Head(left[q])) \in [Keys -> Values]
          BY <4>1, OverType, ValueTypes DEF WithArgs
        <4> QED
          BY <4>3, <4>4 DEF Prepared
      <3> QED
        BY <3>1, <3>2, <3>4, ScopeType DEF TypeOK
    <2> QED
      BY <2>1, <2>2
  <1>2. /\ Len(left[q]) \in Nat \ {0} /\ Total(q) =< Len(AutoCommands) /\ Total(q) \in Nat
        /\ ran[q] \in Nat /\ unbuilt[q] \in Nat
    BY <1>0, LeftTypes, CountTypes DEF TypeOK
  <1>3. ran[q] + 1 \in 0 .. (Len(AutoCommands) + 1)
    BY <1>0, <1>2, Constants
  <1>4. TypeOK'
    BY <1>1, <1>3 DEF StartCommand, TypeOK
  <1>5. ASSUME NEW o \in Requests PROVE Counted(o)'
    <2>1. CASE o = q
      <3>1. Total(q)' = Total(q) /\ event'[q].repo = event[q].repo
        BY DEF StartCommand, Total, Automatic
      <3>2. pc'[q] = "running" /\ ran'[q] = ran[q] + 1 /\ left'[q] = left[q] /\ unbuilt'[q] = unbuilt[q]
        BY DEF StartCommand, TypeOK
      <3> QED
        BY <1>0, <1>2, <2>1, <3>1, <3>2 DEF Counted
    <2>2. CASE o # q
      BY <2>2, OthersCounted DEF StartCommand, TypeOK
    <2> QED
      BY <2>1, <2>2
  <1> QED
    BY <1>4, <1>5

LEMMA FinishTypes ==
  ASSUME TypeInv, NEW q \in Requests, FinishCommand(q)
  PROVE  TypeInv'
  <1> USE DEF TypeInv, still
  <1>0. /\ event[q].repo \in Repos /\ pc[q] = "running"
        /\ left[q] # <<>> /\ ran[q] + unbuilt[q] + Len(left[q]) = Total(q) + 1
    BY DEF FinishCommand, Counted
  <1>1. /\ left[q] \in Seq(SUBSET FileKeys) /\ Tail(left[q]) \in Seq(SUBSET FileKeys)
        /\ Len(left[q]) \in Nat \ {0} /\ Len(Tail(left[q])) = Len(left[q]) - 1
        /\ Len(left[q]) # 1 => Tail(left[q]) # <<>>
        /\ ran[q] \in Nat /\ unbuilt[q] \in Nat /\ Total(q) \in Nat
    BY <1>0, LeftTypes, CountTypes DEF TypeOK
  <1>2. TypeOK'
    BY <1>1 DEF FinishCommand, TypeOK
  <1>3. ASSUME NEW o \in Requests PROVE Counted(o)'
    <2>1. CASE o = q
      <3>1. Total(q)' = Total(q) /\ event'[q].repo = event[q].repo /\ ran'[q] = ran[q]
            /\ unbuilt'[q] = unbuilt[q]
        BY DEF FinishCommand, Total, Automatic
      <3>2. /\ pc'[q] = IF Len(left[q]) = 1 THEN "done" ELSE "ready"
            /\ left'[q] = Tail(left[q])
        BY DEF FinishCommand, TypeOK
      <3>3. CASE Len(left[q]) = 1
        <4>1. ran[q] + unbuilt[q] = Total(q)
          BY <1>0, <1>1, <3>3
        <4> QED
          BY <1>0, <2>1, <3>1, <3>2, <3>3, <4>1 DEF Counted
      <3>4. CASE Len(left[q]) # 1
        <4>1. Tail(left[q]) # <<>> /\ ran[q] + unbuilt[q] + Len(Tail(left[q])) = Total(q)
          <5>1. Tail(left[q]) # <<>> /\ Len(Tail(left[q])) = Len(left[q]) - 1
            BY <1>1, <3>4
          <5> DEFINE a == ran[q]
                     b == unbuilt[q]
                     n == Len(left[q])
                     t == Total(q)
          <5>2. a \in Nat /\ b \in Nat /\ n \in Nat \ {0} /\ t \in Nat /\ a + b + n = t + 1
            BY <1>0, <1>1
          <5> HIDE DEF a, b, n, t
          <5>3. a + b + (n - 1) = t
            BY <5>2
          <5> USE DEF a, b, n, t
          <5> QED
            BY <5>1, <5>3
        <4> QED
          BY <1>0, <2>1, <3>1, <3>2, <3>4, <4>1 DEF Counted
      <3> QED
        BY <3>3, <3>4
    <2>2. CASE o # q
      BY <2>2, OthersCounted DEF FinishCommand, TypeOK
    <2> QED
      BY <2>1, <2>2
  <1> QED
    BY <1>2, <1>3

LEMMA EventFailsTypes ==
  ASSUME TypeInv, NEW q \in Requests, EventFails(q)
  PROVE  TypeInv'
  <1> USE DEF TypeInv, still
  <1>0. pc[q] = "received" /\ event[q].repo \in Repos /\ ran[q] = 0 /\ unbuilt[q] = 0
    BY DEF EventFails, Counted
  <1>1. settings' \in [Requests \cup {Process} -> [Keys -> Values]]
    BY ExtraType, ScopeType DEF EventFails, Current, TypeOK
  <1>2. unbuilt' \in [Requests -> 0..Len(AutoCommands)]
    BY <1>0, Constants DEF EventFails, TypeOK
  <1>3. TypeOK'
    BY <1>1, <1>2 DEF EventFails, TypeOK
  <1>4. ASSUME NEW o \in Requests PROVE Counted(o)'
    <2>1. CASE o = q
      BY <1>0, <2>1 DEF EventFails, TypeOK, Counted
    <2>2. CASE o # q
      BY <2>2, OthersCounted DEF EventFails, TypeOK
    <2> QED
      BY <2>1, <2>2
  <1> QED
    BY <1>3, <1>4

\* Where building fails, settings are written as elsewhere.
LEMMA UnpreparedTypes ==
  ASSUME TypeInv, NEW q \in Requests, event[q].repo \in Repos, left[q] # <<>>, Unprepared(q)
  PROVE  /\ settings' \in [Requests \cup {Process} -> [Keys -> Values]]
         /\ fetched' \in [Requests -> Fetched]
  <1>0. TypeOK /\ Current(q) \in [Keys -> Values] /\ Scope(q) \in Requests \cup {Process}
    BY ScopeType DEF TypeInv, TypeOK, Current
  <1>1. \A s \in [Keys -> Values] : WithArgs(s, q, Head(left[q])) \in [Keys -> Values]
    BY OverType, ValueTypes DEF WithArgs
  <1>2. CASE UNCHANGED <<settings, fetched>>
    BY <1>0, <1>2 DEF TypeOK
  <1>3. ASSUME NEW s \in [Keys -> Values], settings' = [settings EXCEPT ![Scope(q)] = WithExtra(s)]
        PROVE  settings' \in [Requests \cup {Process} -> [Keys -> Values]]
    BY <1>0, <1>3, ExtraType DEF TypeOK
  <1>4. ASSUME UNCHANGED fetched, NEW s \in {Current(q), WithArgs(Current(q), q, Head(left[q]))},
               settings' = [settings EXCEPT ![Scope(q)] = WithExtra(s)]
        PROVE  /\ settings' \in [Requests \cup {Process} -> [Keys -> Values]]
               /\ fetched' \in [Requests -> Fetched]
    BY <1>0, <1>1, <1>3, <1>4 DEF TypeOK
  <1>5. ASSUME NEW f \in Reads(q), fetched' = [fetched EXCEPT ![q] = f],
               settings' = [settings EXCEPT ![Scope(q)] =
                 WithExtra(WithArgs(WithFiles(Current(q), q, f), q, Head(left[q])))]
        PROVE  /\ settings' \in [Requests \cup {Process} -> [Keys -> Values]]
               /\ fetched' \in [Requests -> Fetched]
    <2>1. f \in Fetched
      BY <1>0, ReadTypes
    <2>2. WithArgs(WithFiles(Current(q), q, f), q, Head(left[q])) \in [Keys -> Values]
      BY <1>0, <1>1, FilesType
    <2>3. fetched' \in [Requests -> Fetched]
      BY <1>0, <1>5, <2>1 DEF TypeOK
    <2> QED
      BY <1>3, <1>5, <2>2, <2>3
  <1> QED
    BY <1>2, <1>4, <1>5 DEF Unprepared

LEMMA CommandFailsTypes ==
  ASSUME TypeInv, NEW q \in Requests, CommandFails(q)
  PROVE  TypeInv'
  <1> USE DEF TypeInv, still
  <1>0. /\ event[q].repo \in Repos /\ pc[q] = "ready"
        /\ left[q] # <<>> /\ ran[q] + unbuilt[q] + Len(left[q]) = Total(q)
    BY DEF CommandFails, Counted
  <1>1. /\ left[q] \in Seq(SUBSET FileKeys) /\ Tail(left[q]) \in Seq(SUBSET FileKeys)
        /\ Len(left[q]) \in Nat \ {0} /\ Len(Tail(left[q])) = Len(left[q]) - 1
        /\ Len(left[q]) # 1 => Tail(left[q]) # <<>>
        /\ ran[q] \in Nat /\ unbuilt[q] \in Nat /\ Total(q) \in Nat /\ Total(q) =< Len(AutoCommands)
    BY <1>0, LeftTypes, CountTypes DEF TypeOK
  <1>2. /\ settings' \in [Requests \cup {Process} -> [Keys -> Values]]
        /\ fetched' \in [Requests -> Fetched]
    BY <1>0, UnpreparedTypes DEF CommandFails
  <1>3. unbuilt[q] + 1 \in 0..Len(AutoCommands)
    BY <1>0, <1>1, Constants
  <1>4. TypeOK'
    BY <1>1, <1>2, <1>3 DEF CommandFails, TypeOK
  <1>5. ASSUME NEW o \in Requests PROVE Counted(o)'
    <2>1. CASE o = q
      <3>1. Total(q)' = Total(q) /\ event'[q].repo = event[q].repo /\ ran'[q] = ran[q]
        BY DEF CommandFails, Total, Automatic
      <3>2. /\ pc'[q] = IF Len(left[q]) = 1 THEN "done" ELSE "ready"
            /\ left'[q] = Tail(left[q]) /\ unbuilt'[q] = unbuilt[q] + 1
        BY DEF CommandFails, TypeOK
      <3>3. CASE Len(left[q]) = 1
        <4>1. ran[q] + (unbuilt[q] + 1) = Total(q)
          BY <1>0, <1>1, <3>3
        <4> QED
          BY <1>0, <2>1, <3>1, <3>2, <3>3, <4>1 DEF Counted
      <3>4. CASE Len(left[q]) # 1
        <4>1. Tail(left[q]) # <<>> /\ ran[q] + (unbuilt[q] + 1) + Len(Tail(left[q])) = Total(q)
          <5>1. Tail(left[q]) # <<>> /\ Len(Tail(left[q])) = Len(left[q]) - 1
            BY <1>1, <3>4
          <5> DEFINE a == ran[q]
                     b == unbuilt[q]
                     n == Len(left[q])
                     t == Total(q)
          <5>2. a \in Nat /\ b \in Nat /\ n \in Nat \ {0} /\ t \in Nat /\ a + b + n = t
            BY <1>0, <1>1
          <5> HIDE DEF a, b, n, t
          <5>3. a + (b + 1) + (n - 1) = t
            BY <5>2
          <5> USE DEF a, b, n, t
          <5> QED
            BY <5>1, <5>3
        <4> QED
          BY <1>0, <2>1, <3>1, <3>2, <3>4, <4>1 DEF Counted
      <3> QED
        BY <3>3, <3>4
    <2>2. CASE o # q
      BY <2>2, OthersCounted DEF CommandFails, TypeOK
    <2> QED
      BY <2>1, <2>2
  <1> QED
    BY <1>4, <1>5

LEMMA EditTypes ==
  ASSUME TypeInv, NEW r \in Repos, EditFile(r)
  PROVE  TypeInv'
  <1> USE DEF TypeInv, still
  <1>1. files' \in [Repos -> Files]
    BY SettingsAssumption DEF EditFile, TypeOK, Files
  <1>2. TypeOK'
    BY <1>1, SettingsAssumption DEF EditFile, TypeOK
  <1>3. ASSUME NEW o \in Requests PROVE Counted(o)'
    BY OthersCounted DEF EditFile
  <1> QED
    BY <1>2, <1>3

LEMMA NextTypes == TypeInv /\ [Next]_vars => TypeInv'
  <1> SUFFICES ASSUME TypeInv, [Next]_vars PROVE TypeInv'
    OBVIOUS
  <1>1. CASE UNCHANGED vars
    BY <1>1 DEF vars, TypeInv, TypeOK, Counted, Total, Automatic
  <1>2. CASE Next
    BY <1>2, ReceiveTypes, SkipTypes, AcceptTypes, StartTypes, FinishTypes, EventFailsTypes,
       CommandFailsTypes, EditTypes DEF Next
  <1> QED
    BY <1>1, <1>2

\* Types, in every server, and the commands of every request counted: none is
\* run twice, and none is left out of a request that runs any but those whose
\* provider could not be built, whatever requests overlap.
THEOREM TypeCorrect == Spec => [](TypeOK /\ \A q \in Requests : Counted(q))
  <1>1. TypeInv => TypeOK /\ \A q \in Requests : Counted(q)
    BY DEF TypeInv
  <1>2. Spec => []TypeInv
    BY InitTypes, NextTypes, PTL DEF Spec
  <1> QED
    BY <1>1, <1>2, PTL

(***************************************************************************)
(* In the servers that copy: a request's settings are its own.             *)
(***************************************************************************)
Own(q) == pc[q] # "new" => \A k \in Keys : settings[q][k].who \in {Process, q, event[q].repo}
OwnInv == /\ TypeInv /\ server \in Copying /\ settings[Process] = Loaded
          /\ \A q \in Requests : Own(q)

LEMMA LoadedIsOwn ==
  ASSUME NEW k \in Keys
  PROVE  Loaded[k] \in {EnvValue, Value("default", Process)} /\ Loaded[k].who = Process
  BY DEF Loaded, EnvValue, Value

LEMMA CopiedScope ==
  ASSUME server \in Copying, NEW q \in Requests
  PROVE  Scope(q) = q /\ Current(q) = settings[q] /\ q # Process
  BY Constants DEF Scope, Current

LEMMA FilesOwn ==
  ASSUME NEW q, NEW s, NEW f, NEW k \in Keys, s[k].who \in {Process, q, event[q].repo}
  PROVE  WithFiles(s, q, f)[k].who \in {Process, q, event[q].repo}
  BY FilesBring DEF EnvValue, Value

LEMMA OverOwn ==
  ASSUME NEW q, NEW s, NEW keys, NEW from, NEW k \in Keys, s[k].who \in {Process, q, event[q].repo}
  PROVE  Over(s, keys, Value(from, q))[k].who \in {Process, q, event[q].repo}
  BY DEF Over, Value

\* A step of a request that changes no settings but its own, and these to its
\* own values, keeps everything apart.
LEMMA OwnStep ==
  ASSUME OwnInv, TypeInv', NEW q \in Requests, UNCHANGED still,
         NEW s, settings' = [settings EXCEPT ![q] = s],
         \A o \in Requests \ {q} : pc'[o] = pc[o] /\ event'[o] = event[o],
         \A k \in Keys : s[k].who \in {Process, q, event'[q].repo}
  PROVE  OwnInv'
  <1>1. settings'[Process] = Loaded'
    BY Constants DEF OwnInv, still, Loaded, TypeInv, TypeOK
  <1>2. ASSUME NEW o \in Requests PROVE Own(o)'
    <2>1. CASE o = q
      BY <2>1 DEF OwnInv, TypeInv, TypeOK, Own
    <2>2. CASE o # q
      BY <2>2 DEF OwnInv, TypeInv, TypeOK, Own
    <2> QED
      BY <2>1, <2>2
  <1> QED
    BY <1>1, <1>2 DEF OwnInv, still

\* A step that changes no settings and no pull request.
LEMMA OwnUntouched ==
  ASSUME OwnInv, TypeInv', UNCHANGED <<still, settings>>,
         \A o \in Requests : event'[o] = event[o] /\ (pc[o] = "new" => pc'[o] = "new")
  PROVE  OwnInv'
  BY DEF OwnInv, Own, still, Loaded

LEMMA OwnNext == OwnInv /\ [Next]_vars => OwnInv'
  <1> SUFFICES ASSUME OwnInv, [Next]_vars PROVE OwnInv'
    OBVIOUS
  <1>0. TypeInv' /\ TypeOK
    BY NextTypes DEF OwnInv, TypeInv
  <1>1. CASE UNCHANGED vars
    BY <1>0, <1>1, OwnUntouched DEF vars, still
  <1>2. ASSUME NEW q \in Requests, Receive(q) PROVE OwnInv'
    <2>1. settings' = [settings EXCEPT ![q] = Installed(q)] /\ UNCHANGED still
      BY <1>2, CopiedScope DEF Receive, OwnInv
    <2>2. \A k \in Keys : Installed(q)[k].who \in {Process, q, event'[q].repo}
      BY LoadedIsOwn DEF Installed, OwnInv, Over, Value
    <2>3. \A o \in Requests \ {q} : pc'[o] = pc[o] /\ event'[o] = event[o]
      BY <1>0, <1>2 DEF Receive, TypeOK
    <2> QED
      BY <1>0, <2>1, <2>2, <2>3, OwnStep
  <1>3. ASSUME NEW q \in Requests, Skip(q) PROVE OwnInv'
    <2>0. /\ UNCHANGED still /\ event' = event /\ pc' = [pc EXCEPT ![q] = "done"]
          /\ Own(q) /\ pc[q] # "new"
      BY <1>3 DEF Skip, OwnInv
    <2>1. CASE UNCHANGED <<settings, fetched>>
      BY <1>0, <2>0, <2>1, OwnUntouched DEF TypeOK
    <2>2. ASSUME NEW f \in Reads(q), NEW s \in {WithFiles(settings[q], q, f), Marked(WithFiles(settings[q], q, f), q)},
                 settings' = [settings EXCEPT ![q] = s]
          PROVE  OwnInv'
      <3>1. \A k \in Keys : WithFiles(settings[q], q, f)[k].who \in {Process, q, event[q].repo}
        BY <2>0, FilesOwn DEF Own
      <3>2. \A k \in Keys : s[k].who \in {Process, q, event'[q].repo}
        BY <2>0, <2>2, <3>1, OverOwn DEF Marked
      <3>3. \A o \in Requests \ {q} : pc'[o] = pc[o] /\ event'[o] = event[o]
        BY <1>0, <2>0 DEF TypeOK
      <3> QED
        BY <1>0, <2>0, <2>2, <3>2, <3>3, OwnStep
    <2> QED
      BY <1>3, <2>1, <2>2, CopiedScope DEF Skip, OwnInv
  <1>4. ASSUME NEW q \in Requests, Accept(q) PROVE OwnInv'
    <2>0. /\ UNCHANGED still /\ event' = event /\ pc' = [pc EXCEPT ![q] = "ready"]
          /\ Own(q) /\ pc[q] # "new"
      BY <1>4 DEF Accept, OwnInv
    <2>1. PICK f \in Reads(q) : settings' = [settings EXCEPT ![q] = Marked(WithFiles(settings[q], q, f), q)]
      BY <1>4, CopiedScope DEF Accept, OwnInv
    <2>2. \A k \in Keys : WithFiles(settings[q], q, f)[k].who \in {Process, q, event[q].repo}
      BY <2>0, FilesOwn DEF Own
    <2>3. \A k \in Keys : Marked(WithFiles(settings[q], q, f), q)[k].who \in {Process, q, event'[q].repo}
      BY <2>0, <2>2, OverOwn DEF Marked
    <2>4. \A o \in Requests \ {q} : pc'[o] = pc[o] /\ event'[o] = event[o]
      BY <1>0, <2>0 DEF TypeOK
    <2> QED
      BY <1>0, <2>0, <2>1, <2>3, <2>4, OwnStep
  <1>5. ASSUME NEW q \in Requests, StartCommand(q) PROVE OwnInv'
    <2>0. /\ UNCHANGED still /\ event' = event /\ pc' = [pc EXCEPT ![q] = "running"]
          /\ Own(q) /\ pc[q] # "new"
      BY <1>5 DEF StartCommand, OwnInv
    <2>1. CASE server = "kenny"
      BY <1>0, <1>5, <2>0, <2>1, OwnUntouched DEF StartCommand, TypeOK
    <2>2. CASE server # "kenny"
      <3>1. PICK f \in Reads(q) : settings' = [settings EXCEPT ![q] = Prepared(q, f)]
        BY <1>5, <2>2, CopiedScope DEF StartCommand, OwnInv
      <3>2. \A k \in Keys : WithArgs(settings[q], q, Head(left[q]))[k].who \in {Process, q, event[q].repo}
        BY <2>0, OverOwn DEF WithArgs, Own
      <3>3. \A k \in Keys : WithFiles(settings[q], q, f)[k].who \in {Process, q, event[q].repo}
        BY <2>0, FilesOwn DEF Own
      <3>4. \A k \in Keys : Prepared(q, f)[k].who \in {Process, q, event'[q].repo}
        <4>1. \A k \in Keys : WithFiles(WithArgs(settings[q], q, Head(left[q])), q, f)[k].who
                                \in {Process, q, event[q].repo}
          BY <3>2, FilesOwn
        <4>2. \A k \in Keys : WithArgs(WithFiles(settings[q], q, f), q, Head(left[q]))[k].who
                                \in {Process, q, event[q].repo}
          BY <3>3, OverOwn DEF WithArgs
        <4> QED
          BY <2>0, <4>1, <4>2, CopiedScope DEF Prepared, ArgsFirst, OwnInv
      <3>5. \A o \in Requests \ {q} : pc'[o] = pc[o] /\ event'[o] = event[o]
        BY <1>0, <2>0 DEF TypeOK
      <3> QED
        BY <1>0, <2>0, <3>1, <3>4, <3>5, OwnStep
    <2> QED
      BY <2>1, <2>2
  <1>6. ASSUME NEW q \in Requests, FinishCommand(q) PROVE OwnInv'
    BY <1>0, <1>6, OwnUntouched DEF FinishCommand, TypeOK, still
  <1>7. ASSUME NEW r \in Repos, EditFile(r) PROVE OwnInv'
    <2>1. UNCHANGED <<server, layers, settings, event, pc>>
      BY <1>7 DEF EditFile
    <2> QED
      BY <1>0, <2>1 DEF OwnInv, Own, Loaded
  <1>8. ASSUME NEW q \in Requests, EventFails(q) PROVE OwnInv'
    <2>0. /\ UNCHANGED still /\ event' = event /\ pc' = [pc EXCEPT ![q] = "done"]
          /\ Own(q) /\ pc[q] # "new"
      BY <1>8 DEF EventFails, OwnInv
    <2>1. settings' = [settings EXCEPT ![q] = WithExtra(settings[q])]
      BY <1>8, CopiedScope DEF EventFails, OwnInv
    <2>2. \A k \in Keys : WithExtra(settings[q])[k].who \in {Process, q, event'[q].repo}
      BY <2>0, ExtraBrings DEF Own, EnvValue, Value
    <2>3. \A o \in Requests \ {q} : pc'[o] = pc[o] /\ event'[o] = event[o]
      BY <1>0, <2>0 DEF TypeOK
    <2> QED
      BY <1>0, <2>0, <2>1, <2>2, <2>3, OwnStep
  <1>9. ASSUME NEW q \in Requests, CommandFails(q) PROVE OwnInv'
    <2>0. /\ UNCHANGED still /\ event' = event /\ Own(q) /\ pc[q] = "ready"
          /\ pc' = [pc EXCEPT ![q] = IF Len(left[q]) = 1 THEN "done" ELSE "ready"]
          /\ server # "bitbucket_server" /\ Unprepared(q)
      BY <1>9 DEF CommandFails, OwnInv, Copying
    <2>1. CASE UNCHANGED <<settings, fetched>>
      BY <1>0, <2>0, <2>1, OwnUntouched DEF TypeOK
    <2>2. ASSUME NEW s \in {settings[q], WithArgs(settings[q], q, Head(left[q]))},
                 settings' = [settings EXCEPT ![q] = WithExtra(s)]
          PROVE  OwnInv'
      <3>1. \A k \in Keys : s[k].who \in {Process, q, event[q].repo}
        BY <2>0, OverOwn DEF WithArgs, Own
      <3>2. \A k \in Keys : WithExtra(s)[k].who \in {Process, q, event'[q].repo}
        BY <2>0, <3>1, ExtraBrings DEF EnvValue, Value
      <3>3. \A o \in Requests \ {q} : pc'[o] = pc[o] /\ event'[o] = event[o]
        BY <1>0, <2>0 DEF TypeOK
      <3> QED
        BY <1>0, <2>0, <2>2, <3>2, <3>3, OwnStep
    <2> QED
      BY <2>0, <2>1, <2>2, CopiedScope, SMTT(30) DEF Unprepared, OwnInv
  <1> QED
    BY <1>1, <1>2, <1>3, <1>4, <1>5, <1>6, <1>7, <1>8, <1>9 DEF Next

LEMMA OwnInit == Servers \subseteq Copying /\ Init => OwnInv
  BY InitTypes DEF Init, OwnInv, Own

\* No tool runs under the settings of another request or another repository,
\* and no request leaves any in the process, in every server that installs a
\* copy: however requests overlap, whatever their files and arguments set.
THEOREM Isolation ==
  ASSUME Servers \subseteq Copying
  PROVE  Spec => []OwnSettings
  <1>1. OwnInv => OwnSettings
    BY CopiedScope DEF OwnInv, Own, OwnSettings, Running
  <1> QED
    BY <1>1, OwnInit, OwnNext, PTL DEF Spec

(***************************************************************************)
(* In the same servers: the order of the layers, one version of the file,  *)
(* and automatic commands as the layers ask.                               *)
(***************************************************************************)

\* What a key comes from after the files, if not from the arguments.
FileLayer(k, f) ==
  IF k \in layers.env THEN "env"
  ELSE IF f.local.valid /\ k \in f.local.sets THEN "repo"
  ELSE IF k \in f.org THEN "org"
  ELSE IF k \in layers.extra THEN "extra"
  ELSE "default"

\* Settings to which files may be applied: the environment is over them, and
\* what no layer sets is the default.
Appliable(s, k, f) ==
  /\ k \in layers.env => s[k] = EnvValue
  /\ FileLayer(k, f) = "default" => s[k].from = "default"
Applied(s, k, f) ==
  /\ s[k].from = FileLayer(k, f)
  /\ k \in layers.env => s[k] = EnvValue

LEMMA FilesFollow ==
  ASSUME NEW s, NEW q, NEW f, NEW k \in Keys, Appliable(s, k, f)
  PROVE  Applied(WithFiles(s, q, f), k, f)
  <1>1. k \in layers.env => s[k] = EnvValue
    BY DEF Appliable
  <1>2. WithFiles(s, q, f)[k] =
           IF k \in layers.env THEN EnvValue
           ELSE IF f.local.valid /\ k \in f.local.sets THEN Value("repo", event[q].repo)
           ELSE IF k \in f.org THEN Value("org", Process)
           ELSE IF k \in layers.extra THEN Value("extra", Process)
           ELSE s[k]
    BY <1>1, FilesApplied
  <1> QED
    BY <1>2 DEF Applied, Appliable, FileLayer, EnvValue, Value

LEMMA LoadedAppliable ==
  ASSUME NEW k \in Keys, NEW f
  PROVE  Appliable(Loaded, k, f)
  BY DEF Appliable, Loaded, FileLayer, EnvValue, Value

LEMMA AppliedAppliable ==
  ASSUME NEW s, NEW k, NEW f, Applied(s, k, f)
  PROVE  Appliable(s, k, f)
  BY DEF Applied, Appliable

LEMMA OverOther ==
  ASSUME NEW s, NEW keys, NEW v, NEW k \in Keys, k \notin keys
  PROVE  Over(s, keys, v)[k] = s[k]
  BY DEF Over

\* The keys the layers set do not contain the mark of an automatic command.
LEMMA LayerKeys ==
  ASSUME TypeOK
  PROVE  /\ layers.env \subseteq FileKeys /\ layers.extra \subseteq FileKeys
         /\ "auto" \notin FileKeys /\ "auto" \in Keys
         /\ \A f \in Fetched : f.org \subseteq FileKeys /\ f.local.sets \subseteq FileKeys
  <1>1. "auto" \notin FileKeys /\ "auto" \in Keys
    BY DEF FileKeys, Keys
  <1>2. \A f \in Fetched : f.org \subseteq FileKeys /\ f.local.sets \subseteq FileKeys
    BY DEF Fetched, Files
  <1> QED
    BY <1>1, <1>2, OrgTypes

LEMMA FilesKeepMark ==
  ASSUME TypeOK, NEW s, NEW q, NEW f \in Fetched
  PROVE  WithFiles(s, q, f)["auto"] = s["auto"]
  <1>1. /\ "auto" \notin layers.env /\ "auto" \notin layers.extra /\ "auto" \notin f.org
        /\ "auto" \notin f.local.sets /\ "auto" \in Keys
    BY LayerKeys
  <1> QED
    BY <1>1, FilesApplied

\* What the layers ask with what was read of the files.
AskedWith(f) ==
  layers.env \cup layers.extra \cup f.org \cup (IF f.local.valid THEN f.local.sets ELSE {})

LEMMA OnAsked ==
  ASSUME NEW s, NEW k, NEW f, Applied(s, k, f)
  PROVE  On(s, k) <=> k \in AskedWith(f)
  BY DEF On, Applied, AskedWith, FileLayer

PlainKeys == {k \in FileKeys : \A i \in DOMAIN AutoCommands : k \notin AutoCommands[i]}
Commands == {AutoCommands[i] : i \in DOMAIN AutoCommands}

\* The invariant of one request, by how far it has come.
Base(q) == IF server = "kenny" THEN Over(Loaded, {"publish"}, Value("server", q)) ELSE Loaded
Begun(q) ==
  /\ fetched[q].read = FALSE
  /\ settings[q] = Base(q)
  /\ Automatic(q) \/ left[q] = <<event[q].args>>
Admitted(q) ==
  /\ fetched[q].read
  /\ \A i \in DOMAIN left[q] : left[q][i] \in Commands
  /\ \A k \in PlainKeys : Applied(settings[q], k, fetched[q])
  /\ On(settings[q], "auto")
  /\ event[q].kind = "opened" => {"disabled", "ignored"} \cap AskedWith(fetched[q]) = {}
RunsPlainly(q) ==
  /\ Len(left[q]) = 1
  /\ ~On(settings[q], "auto")
  /\ IF event[q].kind = "api" THEN settings[q]["publish"].who = q
     ELSE \A k \in FileKeys : settings[q][k].from =
            IF k \in event[q].args THEN "args" ELSE FileLayer(k, fetched[q])
Excused(q) ==
  LET asked == AskedWith(fetched[q]) IN
  \/ "disabled" \in asked \/ "ignored" \in asked
  \/ /\ event[q].kind = "pushed" /\ server # "github"
     /\ "push" \notin asked \/ server \in {"gitea", "bitbucket"}
Ended(q) ==
  Automatic(q) =>
    /\ ran[q] # Len(AutoCommands) => ran[q] = 0 /\ (unbuilt[q] # 0 \/ Excused(q))
    /\ event[q].kind = "opened" /\ ran[q] > 0 => {"disabled", "ignored"} \cap AskedWith(fetched[q]) = {}
Stage(q) ==
  /\ seen[q] \subseteq IF fetched[q].read THEN {fetched[q]} ELSE {}
  /\ pc[q] = "new" => fetched[q].read = FALSE
  /\ pc[q] # "new" => (event[q].kind = "api" <=> server \in {"mosaico", "kenny"})
  /\ event[q].kind = "api" /\ server = "mosaico" => event[q].args = {"publish"}
  /\ Automatic(q) => event[q].args = {}
  /\ pc[q] = "received" \/ (pc[q] = "ready" /\ ~Automatic(q)) => Begun(q)
  /\ pc[q] \in {"ready", "running"} /\ Automatic(q) => Admitted(q)
  /\ pc[q] = "running" /\ ~Automatic(q) => RunsPlainly(q)
  /\ pc[q] = "done" => Ended(q)
  /\ pc[q] \in {"ready", "running"} => unbuilt[q] = 0
LayerInv == OwnInv /\ \A q \in Requests : Stage(q)

LEMMA OthersStaged ==
  ASSUME UNCHANGED <<server, layers>>, NEW o \in Requests, Stage(o),
         settings'[o] = settings[o], event'[o] = event[o], pc'[o] = pc[o], fetched'[o] = fetched[o],
         left'[o] = left[o], ran'[o] = ran[o], seen'[o] = seen[o], unbuilt'[o] = unbuilt[o]
  PROVE  Stage(o)'
  BY DEF Stage, Begun, Admitted, RunsPlainly, Ended, Excused, Base, Loaded, Applied, AskedWith,
         FileLayer, Automatic

LEMMA StageInit == Servers \subseteq Copying /\ Init => LayerInv
  <1> SUFFICES ASSUME Servers \subseteq Copying, Init PROVE LayerInv
    OBVIOUS
  <1>1. ASSUME NEW q \in Requests PROVE Stage(q)
    BY DEF Init, Stage, Idle, Unread, Automatic
  <1> QED
    BY <1>1, OwnInit DEF LayerInv

\* The properties of a running request follow.
LEMMA StageShows == LayerInv => Layered /\ AsAsked
  <1> SUFFICES ASSUME LayerInv PROVE Layered /\ AsAsked
    OBVIOUS
  <1>0. TypeOK /\ server \in Copying /\ \A q \in Requests : Counted(q) /\ Stage(q) /\ Current(q) = settings[q]
    BY CopiedScope DEF LayerInv, OwnInv, TypeInv
  <1>a. \A q : Asked(q) = AskedWith(fetched[q])
    BY DEF Asked, AskedWith
  <1>1. Precedence
    <2> SUFFICES ASSUME NEW q \in Requests, pc[q] = "running"
                 PROVE  IF event[q].kind = "api" THEN settings[q]["publish"].who = q
                        ELSE \A k \in FileKeys :
                               (Automatic(q) => \A i \in DOMAIN AutoCommands : k \notin AutoCommands[i])
                                 => settings[q][k].from = Layer(q, k)
      BY <1>0 DEF Precedence, Running
    <2>1. CASE Automatic(q)
      BY <1>0, <2>1 DEF Stage, Admitted, Applied, PlainKeys, Layer, FileLayer, Automatic
    <2>2. CASE ~Automatic(q)
      BY <1>0, <2>2 DEF Stage, RunsPlainly, Layer, FileLayer
    <2> QED
      BY <2>1, <2>2
  <1>2. OneFile
    <2> SUFFICES ASSUME NEW q \in Requests PROVE Cardinality(seen[q]) <= 1
      BY DEF OneFile
    <2>1. seen[q] = {} \/ seen[q] = {fetched[q]}
      BY <1>0 DEF Stage
    <2>2. Cardinality({}) = 0 /\ Cardinality({fetched[q]}) = 1
      BY FS_EmptySet, FS_Singleton
    <2> QED
      BY <2>1, <2>2
  <1>3. AutoMarked
    BY <1>0 DEF AutoMarked, Running, Stage, Admitted, RunsPlainly
  <1>4. OptedOut
    <2> SUFFICES ASSUME NEW q \in Requests, event[q].kind = "opened", ran[q] > 0
                 PROVE  {"disabled", "ignored"} \cap AskedWith(fetched[q]) = {}
      BY <1>a DEF OptedOut
    <2>1. Automatic(q)
      BY DEF Automatic
    <2>2. pc[q] \in {"new", "received"} => ran[q] = 0
      BY <1>0 DEF Counted
    <2>3. pc[q] \in {"ready", "running", "done"}
      BY <1>0, <2>2 DEF TypeOK
    <2> QED
      BY <1>0, <2>1, <2>3 DEF Stage, Admitted, Ended
  <1>5. Served
    BY <1>0, <1>a DEF Served, Stage, Ended, Excused
  <1> QED
    BY <1>1, <1>2, <1>3, <1>4, <1>5 DEF Layered, AsAsked

LEMMA StageStep ==
  ASSUME LayerInv, OwnInv', UNCHANGED still, NEW q \in Requests, Stage(q)',
         \A o \in Requests \ {q} :
           /\ settings'[o] = settings[o] /\ event'[o] = event[o] /\ pc'[o] = pc[o]
           /\ fetched'[o] = fetched[o] /\ left'[o] = left[o] /\ ran'[o] = ran[o] /\ seen'[o] = seen[o]
           /\ unbuilt'[o] = unbuilt[o]
  PROVE  LayerInv'
  BY OthersStaged DEF LayerInv, still

LEMMA ReceiveStages ==
  ASSUME LayerInv, OwnInv', NEW q \in Requests, Receive(q)
  PROVE  LayerInv'
  <1>0. /\ TypeOK /\ server \in Copying /\ Stage(q) /\ settings[Process] = Loaded /\ pc[q] = "new"
        /\ unbuilt[q] = 0
    BY DEF LayerInv, OwnInv, TypeInv, Counted, Receive
  <1>1. PICK r \in Repos, kind \in Kinds, args \in CommentArgs :
          LET a == IF server = "mosaico" THEN {"publish"} ELSE IF kind = "comment" THEN args ELSE {} IN
          /\ event' = [event EXCEPT ![q] = [repo |-> r, kind |-> kind, args |-> a]]
          /\ pc' = [pc EXCEPT ![q] = IF kind \in {"opened", "pushed"} THEN "received" ELSE "ready"]
          /\ left' = [left EXCEPT ![q] = IF kind \in {"opened", "pushed"} THEN <<>> ELSE <<a>>]
    BY DEF Receive
  <1> DEFINE a == IF server = "mosaico" THEN {"publish"} ELSE IF kind = "comment" THEN args ELSE {}
  <1>2. /\ event'[q] = [repo |-> r, kind |-> kind, args |-> a]
        /\ pc'[q] = IF kind \in {"opened", "pushed"} THEN "received" ELSE "ready"
        /\ left'[q] = IF kind \in {"opened", "pushed"} THEN <<>> ELSE <<a>>
    BY <1>0, <1>1 DEF TypeOK
  <1>3. kind = "api" <=> server \in {"mosaico", "kenny"}
    BY <1>0 DEF Kinds, Copying
  <1>4. settings' = [settings EXCEPT ![q] = Base(q)] /\ settings'[q] = Base(q) /\ Base(q)' = Base(q)
    BY <1>0, CopiedScope DEF Receive, Installed, Base, Loaded, still, TypeOK
  <1>5. fetched' = fetched /\ seen' = seen /\ fetched[q].read = FALSE /\ seen[q] = {}
        /\ UNCHANGED still /\ ran' = ran /\ unbuilt' = unbuilt /\ unbuilt[q] = 0
    BY <1>0 DEF Receive, Stage
  <1>6. Automatic(q)' <=> kind \in {"opened", "pushed"}
    BY <1>2 DEF Automatic
  <1>7. Stage(q)'
    <2>1. Begun(q)'
      <3>1. fetched'[q].read = FALSE /\ settings'[q] = Base(q)'
        BY <1>4, <1>5
      <3>2. CASE kind \in {"opened", "pushed"}
        BY <1>6, <3>1, <3>2 DEF Begun
      <3>3. CASE kind \notin {"opened", "pushed"}
        <4>1. event'[q].args = a /\ left'[q] = <<a>>
          BY <1>2, <3>3
        <4> QED
          BY <3>1, <4>1 DEF Begun
      <3> QED
        BY <3>2, <3>3
    <2> QED
      BY <1>2, <1>3, <1>5, <1>6, <2>1 DEF Stage, still
  <1> QED
    BY <1>0, <1>1, <1>4, <1>5, <1>7, StageStep DEF TypeOK

\* Where a request begins, all files apply to what was loaded.
LEMMA BegunFollows ==
  ASSUME LayerInv, NEW q \in Requests, Begun(q), server # "kenny", NEW f
  PROVE  /\ Current(q) = Loaded
         /\ \A k \in Keys : Applied(WithFiles(Current(q), q, f), k, f)
  <1>1. Current(q) = Loaded
    BY CopiedScope DEF LayerInv, OwnInv, Begun, Base
  <1> QED
    BY <1>1, LoadedAppliable, FilesFollow

LEMMA ReceivedBegun ==
  ASSUME LayerInv, NEW q \in Requests, pc[q] = "received"
  PROVE  /\ TypeOK /\ server \in Copying \ {"mosaico", "kenny"}
         /\ Stage(q) /\ Begun(q) /\ Automatic(q) /\ ran[q] = 0 /\ unbuilt[q] = 0 /\ event[q].repo \in Repos
  <1>1. /\ TypeOK /\ server \in Copying /\ Stage(q) /\ Automatic(q)
        /\ ran[q] = 0 /\ unbuilt[q] = 0 /\ event[q].repo \in Repos
    BY DEF LayerInv, OwnInv, TypeInv, Counted
  <1>2. Begun(q) /\ server \notin {"mosaico", "kenny"}
    BY <1>1 DEF Stage, Automatic
  <1> QED
    BY <1>1, <1>2

LEMMA SkipStages ==
  ASSUME LayerInv, OwnInv', NEW q \in Requests, Skip(q)
  PROVE  LayerInv'
  <1>0. /\ TypeOK /\ server \in Copying \ {"mosaico", "kenny"} /\ Stage(q) /\ Begun(q) /\ Automatic(q)
        /\ ran[q] = 0 /\ fetched[q].read = FALSE /\ seen[q] = {}
    BY ReceivedBegun DEF Skip, Stage, Begun
  <1>1. /\ UNCHANGED <<still, event, left, ran, unbuilt, seen>> /\ pc' = [pc EXCEPT ![q] = "done"]
        /\ pc'[q] = "done" /\ event' = event
    BY <1>0 DEF Skip, TypeOK
  <1>2. PICK f \in Reads(q) :
          \/ /\ Early(q)
             /\ UNCHANGED <<settings, fetched>>
          \/ LET s == WithFiles(Current(q), q, f) IN
             /\ Refused(q, s) \/ NoPush(q, s) \/ MayBeNoPush(q)
             /\ fetched' = [fetched EXCEPT ![q] = f]
             /\ settings' = [settings EXCEPT ![q] =
                  IF server = "bitbucket_server" /\ ~Refused(q, s) THEN Marked(s, q) ELSE s]
    BY <1>0, CopiedScope DEF Skip
  <1>3. CASE Early(q) /\ UNCHANGED <<settings, fetched>>
    <2>1. Current(q) = Loaded
      BY <1>0, BegunFollows
    <2>2. Excused(q)
      <3>1. CASE IgnoredFor(q, Current(q))
        <4>1. "ignored" \in Keys
          BY DEF Keys, FileKeys
        <4>2. "ignored" \in layers.env
          BY <2>1, <3>1, <4>1 DEF IgnoredFor, On, Loaded, Value
        <4> QED
          BY <4>2 DEF Excused, AskedWith
      <3>2. CASE server \in {"gitea", "bitbucket"} /\ NoPush(q, Current(q))
        BY <3>2 DEF NoPush, Excused
      <3> QED
        BY <1>3, <3>1, <3>2 DEF Early
    <2>3. Excused(q)'
      BY <1>1, <1>3, <2>2 DEF Excused, AskedWith, still
    <2>4. Ended(q)'
      BY <1>0, <1>1, <2>3 DEF Ended
    <2>5. Stage(q)'
      BY <1>0, <1>1, <1>3, <2>4 DEF Stage, still, Automatic
    <2> QED
      BY <1>0, <1>1, <1>3, <2>5, StageStep DEF TypeOK
  <1>4. ASSUME LET s == WithFiles(Current(q), q, f) IN
               /\ Refused(q, s) \/ NoPush(q, s) \/ MayBeNoPush(q)
               /\ fetched' = [fetched EXCEPT ![q] = f]
               /\ settings' = [settings EXCEPT ![q] =
                    IF server = "bitbucket_server" /\ ~Refused(q, s) THEN Marked(s, q) ELSE s]
        PROVE  LayerInv'
    <2> DEFINE s == WithFiles(Current(q), q, f)
    <2>1. \A k \in Keys : On(s, k) <=> k \in AskedWith(f)
      BY <1>0, BegunFollows, OnAsked
    <2>2. fetched'[q] = f /\ AskedWith(f)' = AskedWith(f)
      BY <1>0, <1>1, <1>4 DEF TypeOK, AskedWith, still
    <2>3. {"disabled", "ignored", "push"} \subseteq Keys
      BY DEF Keys, FileKeys
    <2>4. \/ "disabled" \in AskedWith(f) \/ "ignored" \in AskedWith(f)
          \/ /\ event[q].kind = "pushed" /\ server # "github"
             /\ "push" \notin AskedWith(f) \/ server \in {"gitea", "bitbucket"}
      <3>1. CASE Refused(q, s)
        BY <2>1, <2>3, <3>1 DEF Refused, DisabledFor, IgnoredFor
      <3>2. CASE NoPush(q, s)
        BY <2>1, <2>3, <3>2 DEF NoPush, PushOn
      <3>3. CASE MayBeNoPush(q)
        BY <3>3 DEF MayBeNoPush
      <3> QED
        BY <1>4, <3>1, <3>2, <3>3
    <2>5. Ended(q)'
      BY <1>0, <1>1, <2>2, <2>4 DEF Ended, Excused, still
    <2>6. Stage(q)'
      BY <1>0, <1>1, <2>2, <2>5 DEF Stage, still, Automatic
    <2> QED
      BY <1>0, <1>1, <1>4, <2>6, StageStep DEF TypeOK
  <1> QED
    BY <1>2, <1>3, <1>4

LEMMA AcceptStages ==
  ASSUME LayerInv, OwnInv', NEW q \in Requests, Accept(q)
  PROVE  LayerInv'
  <1>0. /\ TypeOK /\ server \in Copying \ {"mosaico", "kenny"} /\ Stage(q) /\ Begun(q) /\ Automatic(q)
        /\ fetched[q].read = FALSE /\ seen[q] = {} /\ unbuilt[q] = 0 /\ event[q].repo \in Repos
    BY ReceivedBegun DEF Accept, Stage, Begun
  <1>1. /\ UNCHANGED <<still, event, ran, unbuilt, seen>> /\ pc' = [pc EXCEPT ![q] = "ready"]
        /\ left' = [left EXCEPT ![q] = AutoCommands] /\ pc'[q] = "ready" /\ left'[q] = AutoCommands
    BY <1>0 DEF Accept, TypeOK
  <1>2. PICK f \in Reads(q) :
          LET s == WithFiles(Current(q), q, f) IN
          /\ ~Refused(q, s)
          /\ fetched' = [fetched EXCEPT ![q] = f]
          /\ settings' = [settings EXCEPT ![q] = Marked(s, q)]
    BY <1>0, CopiedScope DEF Accept
  <1> DEFINE s == WithFiles(Current(q), q, f)
  <1>3. \A k \in Keys : Applied(s, k, f)
    BY <1>0, BegunFollows
  <1>4. fetched'[q] = f /\ settings'[q] = Marked(s, q) /\ f.read
    BY <1>0, <1>2, Constants, ReadTypes DEF TypeOK
  <1>5. /\ AskedWith(f)' = AskedWith(f)
        /\ \A x, k : Applied(x, k, f)' <=> Applied(x, k, f)
    BY <1>1 DEF AskedWith, still, Applied, FileLayer
  <1>6. \A i \in DOMAIN left'[q] : left'[q][i] \in Commands
    BY <1>1 DEF Commands
  <1>7. \A k \in PlainKeys : Applied(settings[q], k, fetched[q])'
    <2> SUFFICES ASSUME NEW k \in PlainKeys PROVE Applied(settings[q], k, fetched[q])'
      OBVIOUS
    <2>1. k \in Keys /\ k # "auto"
      BY <1>0, Constants, LayerKeys DEF PlainKeys
    <2>2. Marked(s, q)[k] = s[k]
      BY <2>1, OverOther DEF Marked
    <2>3. Applied(Marked(s, q), k, f)
      BY <1>3, <2>1, <2>2 DEF Applied
    <2> QED
      BY <1>1, <1>4, <2>3 DEF Applied, FileLayer, still
  <1>8. On(settings'[q], "auto")
    BY <1>4 DEF On, Marked, Over, Value, Keys
  <1>9. event[q].kind = "opened" => {"disabled", "ignored"} \cap AskedWith(f) = {}
    <2>1. {"disabled", "ignored"} \subseteq Keys
      BY DEF Keys, FileKeys
    <2>2. \A k \in Keys : On(s, k) <=> k \in AskedWith(f)
      BY <1>3, OnAsked
    <2>3. event[q].kind = "opened" => ~On(s, "disabled") /\ ~On(s, "ignored")
      BY <1>0, <1>2 DEF Refused, DisabledFor, IgnoredFor, Copying
    <2> QED
      BY <2>1, <2>2, <2>3
  <1>10. Admitted(q)'
    BY <1>1, <1>4, <1>5, <1>6, <1>7, <1>8, <1>9 DEF Admitted, Commands, PlainKeys, On
  <1>11. Stage(q)'
    BY <1>0, <1>1, <1>4, <1>10 DEF Stage, still, Automatic
  <1> QED
    BY <1>0, <1>1, <1>2, <1>11, StageStep DEF TypeOK

LEMMA StartStages ==
  ASSUME LayerInv, OwnInv', NEW q \in Requests, StartCommand(q)
  PROVE  LayerInv'
  <1>0. /\ TypeOK /\ server \in Copying /\ Stage(q) /\ Counted(q) /\ left[q] # <<>> /\ pc[q] = "ready"
    BY DEF LayerInv, OwnInv, TypeInv, StartCommand, Counted
  <1>1. /\ UNCHANGED <<still, event, left, unbuilt>> /\ pc' = [pc EXCEPT ![q] = "running"]
        /\ ran' = [ran EXCEPT ![q] = @ + 1] /\ pc'[q] = "running"
    BY <1>0 DEF StartCommand, TypeOK
  <1>2. CASE server = "kenny"
    <2>1. UNCHANGED <<settings, fetched, seen>>
      BY <1>2 DEF StartCommand
    <2>2. ~Automatic(q) /\ event[q].kind = "api" /\ Begun(q)
      BY <1>0, <1>2 DEF Stage, Automatic
    <2>3. settings[q] = Over(Loaded, {"publish"}, Value("server", q)) /\ left[q] = <<event[q].args>>
      BY <1>2, <2>2 DEF Begun, Base
    <2>4. settings[q]["publish"].who = q
      BY <2>3 DEF Over, Value, Keys, FileKeys
    <2>5. settings[q]["auto"] = Loaded["auto"]
      BY <2>3, LayerKeys, <1>0, OverOther DEF FileKeys
    <2>6. ~On(settings[q], "auto")
      BY <2>5, LayerKeys, <1>0 DEF On, Loaded, Value
    <2>7. RunsPlainly(q)'
      BY <1>1, <2>1, <2>2, <2>3, <2>4, <2>6 DEF RunsPlainly, On
    <2>8. Stage(q)'
      BY <1>0, <1>1, <2>1, <2>2, <2>7 DEF Stage, still, Automatic
    <2> QED
      BY <1>0, <1>1, <2>1, <2>8, StageStep DEF TypeOK
  <1>3. CASE server # "kenny"
    <2>1. PICK f \in Reads(q) :
            /\ fetched' = [fetched EXCEPT ![q] = f]
            /\ settings' = [settings EXCEPT ![q] = Prepared(q, f)]
            /\ seen' = [seen EXCEPT ![q] = @ \cup {f}]
      BY <1>0, <1>3, CopiedScope DEF StartCommand
    <2>2. /\ fetched'[q] = f /\ settings'[q] = Prepared(q, f)
          /\ seen'[q] = seen[q] \cup {f}
      BY <1>0, <2>1, Constants DEF TypeOK
    <2>3. /\ AskedWith(f)' = AskedWith(f)
          /\ \A k : FileLayer(k, f)' = FileLayer(k, f)
          /\ \A k, x : Applied(x, k, f)' <=> Applied(x, k, f)
      BY <1>1 DEF AskedWith, still, Applied, FileLayer
    <2>4. f \in Fetched /\ f.read /\ (fetched[q].read => f = fetched[q])
      BY <1>0, <2>1, ReadTypes DEF Counted
    <2>5. CASE Automatic(q)
      <3>1. Admitted(q) /\ f = fetched[q]
        BY <1>0, <2>1, <2>5 DEF Stage, Admitted, Reads
      <3>2. settings'[q] = WithFiles(WithArgs(settings[q], q, Head(left[q])), q, f)
        BY <1>0, <2>2, <2>5, CopiedScope DEF Prepared, ArgsFirst
      <3>3. Head(left[q]) \in Commands
        <4>1. 1 \in DOMAIN left[q] /\ Head(left[q]) = left[q][1]
          BY <1>0 DEF TypeOK
        <4> QED
          BY <3>1, <4>1 DEF Admitted
      <3>4. Head(left[q]) \subseteq FileKeys
        BY <3>3, Constants DEF Commands
      <3>5. \A k \in PlainKeys : Applied(settings'[q], k, f)
        <4> SUFFICES ASSUME NEW k \in PlainKeys PROVE Applied(settings'[q], k, f)
          OBVIOUS
        <4>1. k \in Keys /\ k \notin Head(left[q]) /\ Applied(settings[q], k, f)
          BY <3>1, <3>3, Constants DEF PlainKeys, Commands, Admitted
        <4>2. WithArgs(settings[q], q, Head(left[q]))[k] = settings[q][k]
          BY <4>1, OverOther DEF WithArgs
        <4>3. Appliable(WithArgs(settings[q], q, Head(left[q])), k, f)
          BY <4>1, <4>2 DEF Applied, Appliable
        <4> QED
          BY <3>2, <4>1, <4>3, FilesFollow
      <3>6. On(settings'[q], "auto")
        <4>1. settings'[q]["auto"] = WithArgs(settings[q], q, Head(left[q]))["auto"]
          BY <1>0, <2>4, <3>2, FilesKeepMark
        <4>2. WithArgs(settings[q], q, Head(left[q]))["auto"] = settings[q]["auto"]
          BY <1>0, <3>4, LayerKeys, OverOther DEF WithArgs
        <4> QED
          BY <3>1, <4>1, <4>2 DEF Admitted, On
      <3>7. Admitted(q)'
        <4>1. \A i \in DOMAIN left'[q] : left'[q][i] \in Commands
          BY <1>1, <3>1 DEF Admitted
        <4>2. \A k \in PlainKeys : Applied(settings[q], k, fetched[q])'
          BY <1>1, <2>2, <3>5 DEF Applied, FileLayer, still
        <4> QED
          BY <1>1, <2>2, <2>3, <3>1, <3>6, <4>1, <4>2 DEF Admitted, Commands, PlainKeys, On
      <3>8. Stage(q)'
        BY <1>0, <1>1, <2>2, <2>5, <3>1, <3>7 DEF Stage, still, Automatic, Admitted
      <3> QED
        BY <1>0, <1>1, <2>1, <3>8, StageStep DEF TypeOK
    <2>6. CASE ~Automatic(q)
      <3>1. Begun(q) /\ left[q] = <<event[q].args>> /\ fetched[q].read = FALSE /\ seen[q] = {}
        BY <1>0, <2>6 DEF Stage, Begun
      <3>2. settings'[q] = WithArgs(WithFiles(Current(q), q, f), q, event[q].args)
        BY <1>0, <2>2, <2>6, <3>1, CopiedScope DEF Prepared, ArgsFirst, Copying
      <3>3. \A k \in Keys : Applied(WithFiles(Current(q), q, f), k, f)
        BY <1>3, <3>1, BegunFollows
      <3>4. "auto" \in Keys /\ "auto" \notin event[q].args /\ event[q].args \subseteq FileKeys
        BY <1>0, LayerKeys DEF TypeOK
      <3>5. ~On(settings'[q], "auto")
        <4>1. settings'[q]["auto"] = Loaded["auto"]
          BY <1>0, <1>3, <2>4, <3>1, <3>2, <3>4, OverOther, FilesKeepMark, BegunFollows DEF WithArgs
        <4> QED
          BY <1>0, <4>1, LayerKeys DEF On, Loaded, Value
      <3>6. CASE event[q].kind = "api"
        <4>1. event[q].args = {"publish"}
          BY <1>0, <1>3, <3>6 DEF Stage
        <4>2. settings'[q]["publish"].who = q
          BY <3>2, <4>1 DEF WithArgs, Over, Value, Keys, FileKeys
        <4>3. RunsPlainly(q)'
          BY <1>1, <3>1, <3>5, <3>6, <4>2 DEF RunsPlainly, On
        <4> QED
          <5>1. Stage(q)'
            BY <1>0, <1>1, <2>2, <2>4, <2>6, <3>1, <4>3 DEF Stage, still, Automatic
          <5> QED
            BY <1>0, <1>1, <2>1, <5>1, StageStep DEF TypeOK
      <3>7. CASE event[q].kind # "api"
        <4>1. \A k \in FileKeys : settings'[q][k].from =
                 IF k \in event[q].args THEN "args" ELSE FileLayer(k, f)
          BY <3>2, <3>3, Constants DEF WithArgs, Over, Value, Applied
        <4>2. RunsPlainly(q)'
          BY <1>1, <2>2, <2>3, <3>1, <3>5, <3>7, <4>1 DEF RunsPlainly, On
        <4> QED
          <5>1. Stage(q)'
            BY <1>0, <1>1, <2>2, <2>4, <2>6, <3>1, <4>2 DEF Stage, still, Automatic
          <5> QED
            BY <1>0, <1>1, <2>1, <5>1, StageStep DEF TypeOK
      <3> QED
        BY <3>6, <3>7
    <2> QED
      BY <2>5, <2>6
  <1> QED
    BY <1>2, <1>3

LEMMA FinishStages ==
  ASSUME LayerInv, OwnInv', NEW q \in Requests, FinishCommand(q)
  PROVE  LayerInv'
  <1>0. /\ TypeOK /\ Stage(q) /\ Counted(q) /\ left[q] # <<>> /\ pc[q] = "running"
        /\ ran[q] + Len(left[q]) = Total(q) + 1
    BY CountTypes DEF LayerInv, Stage, OwnInv, TypeInv, FinishCommand, Counted
  <1>1. /\ UNCHANGED <<still, event, settings, fetched, ran, unbuilt, seen>>
        /\ left' = [left EXCEPT ![q] = Tail(@)] /\ left'[q] = Tail(left[q])
        /\ pc' = [pc EXCEPT ![q] = IF Len(left[q]) = 1 THEN "done" ELSE "ready"]
        /\ pc'[q] = IF Len(left[q]) = 1 THEN "done" ELSE "ready"
    BY <1>0 DEF FinishCommand, TypeOK
  <1>2. CASE Automatic(q)
    <2>1. Admitted(q)
      BY <1>0, <1>2 DEF Stage
    <2>2. Admitted(q)'
      <3>1. \A i \in DOMAIN left'[q] : left'[q][i] \in Commands
        <4>1. left[q] \in Seq(SUBSET FileKeys) /\ Len(left[q]) \in Nat
          BY <1>0 DEF TypeOK
        <4>2. \A i \in DOMAIN Tail(left[q]) : Tail(left[q])[i] = left[q][i + 1] /\ i + 1 \in DOMAIN left[q]
          BY <1>0, <4>1
        <4> QED
          BY <1>1, <2>1, <4>2 DEF Admitted
      <3>2. \A k \in PlainKeys : Applied(settings[q], k, fetched[q])'
        BY <1>1, <2>1 DEF Admitted, Applied, FileLayer, still
      <3>3. AskedWith(fetched[q])' = AskedWith(fetched[q])
        BY <1>1 DEF AskedWith, still
      <3> QED
        BY <1>1, <2>1, <3>1, <3>2, <3>3 DEF Admitted, Commands, PlainKeys, On
    <2>3. Len(left[q]) = 1 => Ended(q)'
      <3>1. Len(left[q]) = 1 => ran[q] = Len(AutoCommands)
        BY <1>0, <1>2, Constants DEF Total, TypeOK
      <3> QED
        BY <1>1, <2>2, <3>1 DEF Ended, Admitted
    <2>4. Stage(q)'
      BY <1>0, <1>1, <1>2, <2>2, <2>3 DEF Stage, still, Automatic
    <2> QED
      BY <1>0, <1>1, <2>4, StageStep DEF TypeOK
  <1>3. CASE ~Automatic(q)
    <2>1. Len(left[q]) = 1
      BY <1>0, <1>3 DEF Stage, RunsPlainly
    <2>2. Stage(q)'
      BY <1>0, <1>1, <1>3, <2>1 DEF Stage, Ended, still, Automatic
    <2> QED
      BY <1>0, <1>1, <2>2, StageStep DEF TypeOK
  <1> QED
    BY <1>2, <1>3

\* A request that has read its files has its provider: what is begun may fail.
LEMMA EventFailsStages ==
  ASSUME LayerInv, OwnInv', NEW q \in Requests, EventFails(q)
  PROVE  LayerInv'
  <1>0. /\ TypeOK /\ server \in Copying \ {"mosaico", "kenny"} /\ Stage(q) /\ Begun(q) /\ Automatic(q)
        /\ ran[q] = 0 /\ seen[q] = {} /\ fetched[q].read = FALSE /\ unbuilt[q] = 0
    BY ReceivedBegun DEF EventFails, Stage, Begun, LayerInv, OwnInv, TypeInv, Counted
  <1>1. /\ UNCHANGED <<still, event, fetched, left, ran, seen>> /\ pc' = [pc EXCEPT ![q] = "done"]
        /\ pc'[q] = "done" /\ unbuilt' = [unbuilt EXCEPT ![q] = @ + 1] /\ unbuilt'[q] = 1
        /\ settings' = [settings EXCEPT ![q] = WithExtra(settings[q])]
    <2>1. server \in Copying /\ Scope(q) = q /\ Current(q) = settings[q]
      BY <1>0, CopiedScope
    <2>2. /\ UNCHANGED <<still, event, fetched, left, ran, seen>> /\ pc' = [pc EXCEPT ![q] = "done"]
          /\ unbuilt' = [unbuilt EXCEPT ![q] = @ + 1]
          /\ settings' = [settings EXCEPT ![q] = WithExtra(settings[q])]
      BY <2>1 DEF EventFails
    <2>3. q \in DOMAIN pc /\ q \in DOMAIN unbuilt
      BY <1>0 DEF TypeOK
    <2> QED
      BY <1>0, <2>2, <2>3
  <1>2. Ended(q)'
    BY <1>0, <1>1 DEF Ended
  <1>3. Stage(q)'
    <2>1. /\ server' = server /\ event' = event /\ seen'[q] = {}
          /\ event[q].kind \in {"opened", "pushed"} /\ event[q].args = {}
      BY <1>0, <1>1 DEF still, Automatic, Stage
    <2> QED
      BY <1>0, <1>1, <1>2, <2>1 DEF Stage
  <1> QED
    BY <1>0, <1>1, <1>3, StageStep DEF TypeOK

LEMMA CommandFailsStages ==
  ASSUME LayerInv, OwnInv', NEW q \in Requests, CommandFails(q)
  PROVE  LayerInv'
  <1>0. /\ TypeOK /\ server \in Copying /\ Stage(q) /\ pc[q] = "ready" /\ server \notin Sharing
    BY DEF LayerInv, OwnInv, TypeInv, CommandFails, Copying, Sharing
  <1>1. ~Automatic(q) /\ Begun(q)
    BY <1>0 DEF Stage, Admitted, CommandFails, MayFail
  <1>2. Len(left[q]) = 1 /\ seen[q] = {}
    BY <1>0, <1>1 DEF Begun, Stage
  <1>3. /\ UNCHANGED <<still, event, fetched, ran, seen>> /\ pc' = [pc EXCEPT ![q] = "done"]
        /\ pc'[q] = "done" /\ left' = [left EXCEPT ![q] = Tail(@)]
        /\ unbuilt' = [unbuilt EXCEPT ![q] = @ + 1]
    BY <1>0, <1>2 DEF CommandFails, Unprepared, Copying, TypeOK
  <1>4. \A o \in Requests \ {q} : settings'[o] = settings[o]
    BY <1>0, CopiedScope DEF CommandFails, Unprepared, Copying, TypeOK
  <1>5. Stage(q)'
    BY <1>0, <1>1, <1>2, <1>3 DEF Stage, Ended, still, Automatic
  <1> QED
    BY <1>0, <1>3, <1>4, <1>5, StageStep DEF TypeOK

LEMMA LayerNext == LayerInv /\ [Next]_vars => LayerInv'
  <1> SUFFICES ASSUME LayerInv, [Next]_vars PROVE LayerInv'
    OBVIOUS
  <1>0. OwnInv /\ OwnInv'
    BY OwnNext DEF LayerInv
  <1>1. CASE UNCHANGED <<server, layers, settings, event, pc, fetched, left, ran, unbuilt, seen>>
    BY <1>0, <1>1, OthersStaged DEF LayerInv
  <1>2. CASE \E r \in Repos : EditFile(r)
    BY <1>1, <1>2 DEF EditFile
  <1> QED
    BY <1>0, <1>1, <1>2, ReceiveStages, SkipStages, AcceptStages, StartStages, FinishStages,
       EventFailsStages, CommandFailsStages DEF Next, vars

\* Every command of a request runs under the same layers in the same order,
\* whatever other requests do and although the repository's file may change
\* between its commands, in every server that installs a copy.
THEOREM LayersRespected ==
  ASSUME Servers \subseteq Copying
  PROVE  Spec => []Layered
  BY StageInit, StageShows, LayerNext, PTL DEF Spec

\* In the same servers, automatic commands run exactly when the layers ask for
\* them and the event's provider could be built (git_providers/utils.py:271), and
\* no other command runs as one of them.
THEOREM AutomationAsAsked ==
  ASSUME Servers \subseteq Copying
  PROVE  Spec => []AsAsked
  BY StageInit, StageShows, LayerNext, PTL DEF Spec

-----------------------------------------------------------------------------
(* The commit a review is dated by.                                        *)

Before == {p \in Nat \X Nat : p[1] < p[2]}

LEMMA BeforeIsWellFounded == IsWellFoundedOn(Before, Nat)
  BY NatLessThanWellFounded DEF OpToRel, Before

\* A bounded set of naturals has a maximum.
LEMMA MaxIsMember ==
  ASSUME NEW n \in Nat, NEW S \in SUBSET (0 .. n), S # {}
  PROVE  Max(S) \in S
  <1> DEFINE T == {k \in Nat : n - k \in S}
  <1>1. T \subseteq Nat /\ T # {}
    <2>1. PICK x \in S : TRUE
      OBVIOUS
    <2>2. n - x \in T
      BY <2>1
    <2> QED
      BY <2>2
  <1>2. PICK m \in T : \A k \in T : <<k, m>> \notin Before
    <2> HIDE DEF T
    <2> QED
      BY <1>1, BeforeIsWellFounded, WFMin
  <1>3. \A y \in S : n - m >= y
    <2> SUFFICES ASSUME NEW y \in S PROVE n - m >= y
      OBVIOUS
    <2>1. n - y \in T
      OBVIOUS
    <2>2. ~(n - y < m)
      BY <1>2, <2>1 DEF Before
    <2> QED
      BY <2>2
  <1>4. \E x \in S : \A y \in S : x >= y
    BY <1>2, <1>3
  <1> QED
    BY <1>4 DEF Max

Commit == [pushed : Nat, date : {NoDate} \cup Nat, merge : BOOLEAN]
Review == [created : Nat, full : BOOLEAN]
RunOf == [st : {"idle", "full", "incremental"}, number : Nat, last : Nat,
          range : SUBSET Nat, shows : SUBSET Nat, unread : SUBSET Nat, skips : SUBSET Nat]

\* A commit that a review is dated by has a date, which is not after the review.
LEMMA LastIs ==
  ASSUME NEW n \in Nat, NEW t \in Nat
  PROVE  /\ LastSeen(n, t) \in 0 .. n
         /\ LastSeen(n, t) # 0 => /\ commits[LastSeen(n, t)].date =< t
                                  /\ host # "github" => commits[LastSeen(n, t)].date # NoDate
  <1> DEFINE G == {i \in 1 .. n : commits[i].date <= t}
             A == {i \in 1 .. n : commits[i].date # NoDate /\ commits[i].date <= t}
  <1>1. /\ G \cup {0} \in SUBSET (0 .. n) /\ A \cup {0} \in SUBSET (0 .. n)
    OBVIOUS
  <1>2. /\ GithubLast(n, t) = Max(G \cup {0}) /\ AzureLast(n, t) = Max(A \cup {0})
    BY DEF GithubLast, AzureLast, None
  <1>3. Max(G \cup {0}) \in G \cup {0} /\ Max(A \cup {0}) \in A \cup {0}
    <2> HIDE DEF G, A
    <2> QED
      BY <1>1, MaxIsMember
  <1>4. LastSeen(n, t) \in G \cup {0} /\ (host # "github" => LastSeen(n, t) \in A \cup {0})
    BY <1>2, <1>3 DEF LastSeen
  <1> QED
    BY <1>1, <1>4

-----------------------------------------------------------------------------
(* What a run reads.                                                       *)

Types == ReviewTypeOK

LEMMA TypesAre ==
  Types <=> /\ host \in {"github", "azure"} /\ config \in Config /\ now \in Nat
            /\ commits \in Seq(Commit) /\ reviews \in Seq(Review)
            /\ run \in [Runs -> RunOf] /\ covered \subseteq Nat
  BY DEF Types, ReviewTypeOK, Commit, Review, RunOf

LEMMA IdleType == NoRun \in RunOf
  BY DEF NoRun, RunOf, None

LEMMA Latest ==
  ASSUME Types, reviews # <<>>
  PROVE  Len(reviews) \in DOMAIN reviews /\ reviews[Len(reviews)].created \in Nat
  <1>1. reviews \in Seq(Review)
    BY TypesAre
  <1>2. Len(reviews) \in DOMAIN reviews
    BY <1>1
  <1>3. reviews[Len(reviews)] \in Review
    BY <1>1, <1>2
  <1> QED
    BY <1>2, <1>3 DEF Review

LEMMA Entries ==
  ASSUME Types
  PROVE  /\ \A i \in DOMAIN commits : commits[i].pushed \in Nat
         /\ \A k \in DOMAIN reviews : reviews[k].created \in Nat
  <1>1. commits \in Seq(Commit) /\ reviews \in Seq(Review)
    BY TypesAre
  <1>2. ASSUME NEW i \in DOMAIN commits PROVE commits[i].pushed \in Nat
    <2>1. commits[i] \in Commit
      BY <1>1
    <2> QED
      BY <2>1 DEF Commit
  <1>3. ASSUME NEW k \in DOMAIN reviews PROVE reviews[k].created \in Nat
    <2>1. reviews[k] \in Review
      BY <1>1
    <2> QED
      BY <2>1 DEF Review
  <1> QED
    BY <1>2, <1>3

LEMMA Skipping ==
  ASSUME NEW s \in RunOf, NEW X \in SUBSET Nat
  PROVE  /\ [s EXCEPT !.skips = X] \in RunOf
         /\ [s EXCEPT !.skips = X].skips = X
         /\ [s EXCEPT !.skips = X].st = s.st
         /\ [s EXCEPT !.skips = X].number = s.number
         /\ [s EXCEPT !.skips = X].shows = s.shows
         /\ [s EXCEPT !.skips = X].unread = s.unread
  BY DEF RunOf

LEMMA PlainIs == ASSUME NEW S, NEW i PROVE i \in Plain(S) <=> i \in S /\ ~commits[i].merge
  BY DEF Plain

\* A run that is not a full review was preceded by one, and starts after the
\* commit that one is dated by.
LEMMA ReadingIs ==
  ASSUME Types, NEW asked \in BOOLEAN, NEW unread \in SUBSET (DOMAIN commits)
  PROVE  /\ Reading(asked, unread) \in RunOf
         /\ Reading(asked, unread).number = Len(commits)
         /\ Reading(asked, unread).unread = unread
         /\ \/ /\ Reading(asked, unread).st = "full"
               /\ Reading(asked, unread).shows = 1 .. Len(commits)
            \/ /\ Reading(asked, unread).st = "incremental" /\ reviews # <<>>
               /\ LET last == LastSeen(Len(commits), reviews[Len(reviews)].created)
                  IN Reading(asked, unread).shows = Plain(last + 1 .. Len(commits)) \ unread
  <1> DEFINE n == Len(commits)
             last == LastSeen(n, reviews[Len(reviews)].created)
             range == last + 1 .. n
             full == ~asked \/ reviews = <<>> \/ BackToFull(n, last, range, unread)
             s == Reading(asked, unread)
  <1>1. n \in Nat /\ DOMAIN commits = 1 .. n
    BY TypesAre
  <1>2. full \in BOOLEAN
    OBVIOUS
  <1>3. s = [st |-> IF full THEN "full" ELSE "incremental", number |-> n,
             last |-> IF full THEN None ELSE last, range |-> IF full THEN {} ELSE range,
             shows |-> IF full THEN 1 .. n ELSE Plain(range) \ unread, unread |-> unread,
             skips |-> {}]
    BY DEF Reading
  <1>4. full \/ (last \in 0 .. n /\ reviews # <<>>)
    <2>1. ASSUME reviews # <<>> PROVE reviews[Len(reviews)].created \in Nat
      BY <2>1, Latest
    <2>2. ASSUME reviews # <<>> PROVE last \in 0 .. n
      <3> DEFINE t == reviews[Len(reviews)].created
      <3>1. t \in Nat
        BY <2>1, <2>2
      <3> HIDE DEF t, n
      <3>2. LastSeen(n, t) \in 0 .. n
        BY <1>1, <3>1, LastIs
      <3> QED
        BY <3>2 DEF t
    <2> QED
      BY <2>2
  <1> HIDE DEF full, last, n, s
  <1>5. CASE full
    BY <1>1, <1>3, <1>5 DEF RunOf, None, n, s
  <1>6. CASE ~full
    <2>1. last \in 0 .. n /\ reviews # <<>>
      BY <1>4, <1>6
    <2>2. Plain(range) \ unread \subseteq Nat /\ range \subseteq Nat
      BY <1>1, <2>1 DEF Plain
    <2>3. s = [st |-> "incremental", number |-> n, last |-> last, range |-> range,
               shows |-> Plain(range) \ unread, unread |-> unread, skips |-> {}]
      BY <1>3, <1>6
    <2>4. s \in RunOf
      BY <1>1, <2>1, <2>2, <2>3 DEF RunOf
    <2>5. s.st = "incremental" /\ s.number = n /\ s.unread = unread /\ s.shows = Plain(range) \ unread
      BY <2>3
    <2> QED
      BY <2>1, <2>4, <2>5 DEF n, s, last
  <1> QED
    BY <1>5, <1>6

-----------------------------------------------------------------------------
(* Types.                                                                  *)

LEMMA ReviewInitTypes == ReviewInit => Types
  <1> SUFFICES ASSUME ReviewInit PROVE Types
    OBVIOUS
  <1>1. host \in {"github", "azure"} /\ config \in Config
    BY ReviewAssumption DEF ReviewInit
  <1>2. run \in [Runs -> RunOf]
    BY IdleType DEF ReviewInit
  <1> QED
    BY <1>1, <1>2, TypesAre DEF ReviewInit

\* The steps, each by the action it is of.
LEMMA Steps ==
  ASSUME ReviewNext
  PROVE  \/ \E r \in Runs : \E asked \in BOOLEAN, unread \in SUBSET (DOMAIN commits) :
              Start(r, asked, unread)
         \/ \E r \in Runs : Leave(r) \/ Fail(r)
         \/ \E r \in Runs : Publish(r)
         \/ \E date \in {NoDate} \cup 1 .. now, merge \in BOOLEAN : Push(date, merge)
         \/ Tick
  BY DEF ReviewNext, Plain

LEMMA StartDoes ==
  ASSUME Types, NEW r \in Runs, NEW asked \in BOOLEAN, NEW unread \in SUBSET (DOMAIN commits),
         Start(r, asked, unread)
  PROVE  LET s == Reading(asked, unread)
             skips == Plain(1 .. Len(commits)) \ (s.shows \cup unread \cup covered)
         IN /\ run' \in [Runs -> RunOf]
            /\ \A q \in Runs \ {r} : run'[q] = run[q]
            /\ run'[r].st = s.st /\ run'[r].number = Len(commits) /\ run'[r].shows = s.shows
            /\ run'[r].unread = unread /\ run'[r].skips = skips
            /\ UNCHANGED <<host, config, now, commits, reviews, covered>>
  <1> DEFINE s == Reading(asked, unread)
             skips == Plain(1 .. Len(commits)) \ (s.shows \cup unread \cup covered)
             w == [s EXCEPT !.skips = skips]
  <1>1. s \in RunOf /\ s.number = Len(commits) /\ s.unread = unread
    BY ReadingIs
  <1>2. skips \in SUBSET Nat
    BY DEF Plain
  <1>3. run' = [run EXCEPT ![r] = w]
    BY <1>1 DEF Start
  <1>4. UNCHANGED <<host, config, now, commits, reviews, covered>>
    BY DEF Start
  <1> HIDE DEF s, skips
  <1>5. /\ w \in RunOf /\ w.st = s.st /\ w.number = Len(commits) /\ w.shows = s.shows
        /\ w.unread = unread /\ w.skips = skips
    BY <1>1, <1>2, Skipping
  <1> HIDE DEF w
  <1>6. /\ run' \in [Runs -> RunOf] /\ run'[r] = w /\ \A q \in Runs \ {r} : run'[q] = run[q]
    BY <1>3, <1>5, TypesAre
  <1> QED
    BY <1>4, <1>5, <1>6 DEF s, skips

LEMMA EndsDoes ==
  ASSUME Types, NEW r \in Runs, Leave(r) \/ Fail(r)
  PROVE  /\ run' = [run EXCEPT ![r] = NoRun]
         /\ UNCHANGED <<host, config, now, commits, reviews, covered>>
  BY DEF Leave, Fail

\* A run that publishes adds the review it is, or writes over an earlier one.
Covers(r) == covered \cup run[r].shows \cup run[r].unread
LEMMA PublishDoes ==
  ASSUME Types, NEW r \in Runs, Publish(r)
  PROVE  /\ run' = [run EXCEPT ![r] = NoRun] /\ run[r].st # "idle"
         /\ Covers(r) \subseteq covered'
         /\ covered' \subseteq Covers(r) \cup DOMAIN commits
         /\ \/ reviews' = reviews
            \/ /\ \E full \in BOOLEAN : reviews' = Append(reviews, [created |-> now, full |-> full])
               /\ run[r].number + 1 .. Len(commits) \subseteq covered'
         /\ UNCHANGED <<host, config, now, commits>>
  <1> DEFINE over == run[r].st = "full" /\ config.persistent /\ \E i \in DOMAIN reviews : reviews[i].full
             late == run[r].number + 1 .. Len(commits)
  <1>1. /\ run' = [run EXCEPT ![r] = NoRun] /\ run[r].st \in {"full", "incremental"}
        /\ reviews' = IF over THEN reviews
                      ELSE Append(reviews, [created |-> now, full |-> run[r].st = "full"])
        /\ covered' = Covers(r) \cup (IF over THEN {} ELSE late)
        /\ UNCHANGED <<host, config, now, commits>>
    BY DEF Publish, Covers
  <1>2. late \subseteq DOMAIN commits
    <2>1. run[r].number \in Nat /\ DOMAIN commits = 1 .. Len(commits)
      BY TypesAre DEF RunOf
    <2> QED
      BY <2>1
  <1> HIDE DEF over, late
  <1>3. CASE over
    BY <1>1, <1>2, <1>3
  <1>4. CASE ~over
    <2>1. (run[r].st = "full") \in BOOLEAN
      OBVIOUS
    <2> QED
      BY <1>1, <1>2, <1>4, <2>1 DEF late
  <1> QED
    BY <1>3, <1>4

LEMMA TypeStep ==
  ASSUME Types, [ReviewNext]_reviewVars
  PROVE  Types'
  <1>0. /\ host \in {"github", "azure"} /\ config \in Config /\ now \in Nat
        /\ commits \in Seq(Commit) /\ reviews \in Seq(Review)
        /\ run \in [Runs -> RunOf] /\ covered \subseteq Nat
    BY TypesAre
  <1>t. ASSUME /\ host' = host /\ config' = config /\ now' \in Nat
               /\ commits' \in Seq(Commit) /\ reviews' \in Seq(Review)
               /\ run' \in [Runs -> RunOf] /\ covered' \subseteq Nat
        PROVE  Types'
    BY <1>0, <1>t DEF Types, ReviewTypeOK, Commit, Review, RunOf
  <1>1. ASSUME NEW r \in Runs, NEW asked \in BOOLEAN, NEW unread \in SUBSET (DOMAIN commits),
               Start(r, asked, unread)
        PROVE  Types'
    BY <1>0, <1>1, <1>t, StartDoes
  <1>2. ASSUME NEW r \in Runs, Leave(r) \/ Fail(r) PROVE Types'
    BY <1>0, <1>2, <1>t, EndsDoes, IdleType
  <1>3. ASSUME NEW r \in Runs, Publish(r) PROVE Types'
    <2>1. run' \in [Runs -> RunOf] /\ UNCHANGED <<host, config, now, commits>>
      BY <1>0, <1>3, PublishDoes, IdleType
    <2>2. reviews' \in Seq(Review)
      <3>1. \A full \in BOOLEAN : [created |-> now, full |-> full] \in Review
        BY <1>0 DEF Review
      <3>2. \/ reviews' = reviews
            \/ \E full \in BOOLEAN : reviews' = Append(reviews, [created |-> now, full |-> full])
        BY <1>3, PublishDoes
      <3>3. ASSUME NEW v \in Review, reviews' = Append(reviews, v) PROVE reviews' \in Seq(Review)
        BY <1>0, <3>3
      <3> QED
        BY <1>0, <3>1, <3>2, <3>3
    <2>3. covered' \subseteq Nat
      <3>1. Covers(r) \subseteq Nat
        BY <1>0 DEF Covers, RunOf
      <3>2. DOMAIN commits \subseteq Nat
        BY <1>0
      <3> QED
        BY <1>3, <3>1, <3>2, PublishDoes
    <2> QED
      BY <1>0, <1>t, <2>1, <2>2, <2>3
  <1>4. ASSUME NEW date \in {NoDate} \cup 1 .. now, NEW merge \in BOOLEAN, Push(date, merge)
        PROVE  Types'
    <2>1. [pushed |-> now, date |-> date, merge |-> merge] \in Commit
      BY <1>0 DEF Commit
    <2> QED
      BY <1>0, <1>4, <1>t, <2>1 DEF Push
  <1>5. CASE Tick
    BY <1>0, <1>5, <1>t DEF Tick
  <1>6. CASE UNCHANGED reviewVars
    BY <1>0, <1>6, <1>t DEF reviewVars
  <1> QED
    BY <1>1, <1>2, <1>3, <1>4, <1>5, <1>6, Steps

\* Types, for any number of runs, commits and reviews.
THEOREM ReviewTypeCorrect == ReviewSpec => []ReviewTypeOK
  <1>1. Types /\ [ReviewNext]_reviewVars => Types'
    BY TypeStep
  <1>2. Types => ReviewTypeOK
    BY DEF Types
  <1> QED
    BY <1>1, <1>2, ReviewInitTypes, PTL DEF ReviewSpec

-----------------------------------------------------------------------------
(* What stays settled.                                                     *)

\* Commits are only added, reviews too, and what is covered stays so.
Grows ==
  /\ Len(commits) =< Len(commits') /\ \A i \in DOMAIN commits : commits'[i] = commits[i]
  /\ DOMAIN reviews \subseteq DOMAIN reviews' /\ \A k \in DOMAIN reviews : reviews'[k] = reviews[k]
  /\ covered \subseteq covered'

LEMMA Grow == ASSUME Types, [ReviewNext]_reviewVars PROVE Grows
  <1>0. commits \in Seq(Commit) /\ reviews \in Seq(Review)
    BY TypesAre
  <1>1. ASSUME UNCHANGED <<commits, reviews, covered>> PROVE Grows
    BY <1>0, <1>1 DEF Grows
  <1>2. ASSUME NEW r \in Runs, NEW asked \in BOOLEAN, NEW unread \in SUBSET (DOMAIN commits),
               Start(r, asked, unread)
        PROVE  Grows
    BY <1>1, <1>2 DEF Start
  <1>3. ASSUME NEW r \in Runs, Leave(r) \/ Fail(r) PROVE Grows
    BY <1>1, <1>3, EndsDoes
  <1>4. ASSUME NEW r \in Runs, Publish(r) PROVE Grows
    <2>1. covered \subseteq covered' /\ commits' = commits
      BY <1>4, PublishDoes DEF Covers
    <2>2. \/ reviews' = reviews
          \/ \E full \in BOOLEAN : reviews' = Append(reviews, [created |-> now, full |-> full])
      BY <1>4, PublishDoes
    <2>3. DOMAIN reviews \subseteq DOMAIN reviews' /\ \A k \in DOMAIN reviews : reviews'[k] = reviews[k]
      <3>1. ASSUME NEW v, reviews' = Append(reviews, v)
            PROVE  DOMAIN reviews \subseteq DOMAIN reviews' /\ \A k \in DOMAIN reviews : reviews'[k] = reviews[k]
        BY <1>0, <3>1
      <3> QED
        BY <2>2, <3>1
    <2> QED
      BY <1>0, <2>1, <2>3 DEF Grows
  <1>5. ASSUME NEW date \in {NoDate} \cup 1 .. now, NEW merge \in BOOLEAN, Push(date, merge)
        PROVE  Grows
    <2>1. /\ commits' = Append(commits, [pushed |-> now, date |-> date, merge |-> merge])
          /\ UNCHANGED <<reviews, covered>>
      BY <1>5 DEF Push
    <2> QED
      BY <1>0, <2>1 DEF Grows
  <1>6. CASE Tick
    BY <1>1, <1>6 DEF Tick
  <1>7. CASE UNCHANGED reviewVars
    BY <1>1, <1>7 DEF reviewVars
  <1> QED
    BY <1>2, <1>3, <1>4, <1>5, <1>6, <1>7, Steps

\* A date that was never right stays wrong, and so does a time.
LEMMA ExceptionsStay ==
  ASSUME Types, Grows, NEW i \in DOMAIN commits
  PROVE  /\ ~Dated(i) => ~Dated(i)'
         /\ ~InTime(i) => ~InTime(i)'
         /\ Settled(i) => Settled(i)'
  <1>0. commits \in Seq(Commit) /\ DOMAIN commits = 1 .. Len(commits)
    BY TypesAre
  <1>1. ASSUME ~Dated(i) PROVE ~Dated(i)'
    <2>1. PICK j \in i .. Len(commits) : commits[j].date \notin {commits[j].pushed, NoDate}
      BY <1>1 DEF Dated
    <2>2. j \in i .. Len(commits') /\ commits'[j] = commits[j]
      BY <1>0, <2>1 DEF Grows
    <2> QED
      BY <2>1, <2>2 DEF Dated
  <1>2. ASSUME ~InTime(i) PROVE ~InTime(i)'
    BY <1>2 DEF InTime, Grows
  <1>3. ASSUME Settled(i) PROVE Settled(i)'
    BY <1>1, <1>2, <1>3 DEF Settled, Grows
  <1> QED
    BY <1>1, <1>2, <1>3

-----------------------------------------------------------------------------
(* The clock.                                                              *)

LEMMA ClockStep ==
  ASSUME Types, ClockInv, [ReviewNext]_reviewVars
  PROVE  ClockInv'
  <1>0. /\ now \in Nat /\ commits \in Seq(Commit) /\ reviews \in Seq(Review)
        /\ \A i \in DOMAIN commits : commits[i].pushed \in Nat
        /\ \A k \in DOMAIN reviews : reviews[k].created \in Nat
    BY TypesAre, Entries
  <1>s. ASSUME UNCHANGED <<host, now, commits, reviews>> PROVE ClockInv'
    BY <1>s DEF ClockInv
  <1>1. ASSUME NEW r \in Runs, NEW asked \in BOOLEAN, NEW unread \in SUBSET (DOMAIN commits),
               Start(r, asked, unread)
        PROVE  ClockInv'
    BY <1>1, <1>s DEF Start
  <1>2. ASSUME NEW r \in Runs, Leave(r) \/ Fail(r) PROVE ClockInv'
    BY <1>2, <1>s, EndsDoes
  <1>3. ASSUME NEW r \in Runs, Publish(r) PROVE ClockInv'
    <2>1. UNCHANGED <<host, now, commits>>
      BY <1>3, PublishDoes
    <2>2. \/ reviews' = reviews
          \/ \E full \in BOOLEAN : reviews' = Append(reviews, [created |-> now, full |-> full])
      BY <1>3, PublishDoes
    <2>3. ASSUME NEW full \in BOOLEAN, reviews' = Append(reviews, [created |-> now, full |-> full]),
                 NEW k \in DOMAIN reviews'
          PROVE  reviews'[k].created =< now
      <3>1. k \in DOMAIN reviews \/ k = Len(reviews) + 1
        BY <1>0, <2>3
      <3>2. CASE k \in DOMAIN reviews
        BY <1>0, <2>3, <3>2 DEF ClockInv
      <3>3. CASE k = Len(reviews) + 1
        BY <1>0, <2>3, <3>3
      <3> QED
        BY <3>1, <3>2, <3>3
    <2> QED
      BY <1>s, <2>1, <2>2, <2>3 DEF ClockInv
  <1>4. ASSUME NEW date \in {NoDate} \cup 1 .. now, NEW merge \in BOOLEAN, Push(date, merge)
        PROVE  ClockInv'
    <2> DEFINE c == [pushed |-> now, date |-> date, merge |-> merge]
    <2>1. /\ commits' = Append(commits, c) /\ UNCHANGED <<host, now, reviews>>
          /\ date = NoDate => host = "azure"
      BY <1>4 DEF Push
    <2>2. c.pushed = now /\ (host = "github" => c.date # NoDate)
      BY <2>1
    <2> HIDE DEF c
    <2>3. ASSUME NEW i \in DOMAIN commits'
          PROVE  \/ i \in DOMAIN commits /\ commits'[i] = commits[i]
                 \/ i = Len(commits) + 1 /\ commits'[i] = c
      BY <1>0, <2>1
    <2>4. ASSUME NEW i \in DOMAIN commits'
          PROVE  commits'[i].pushed =< now /\ (host = "github" => commits'[i].date # NoDate)
      BY <1>0, <2>2, <2>3 DEF ClockInv
    <2>5. ASSUME NEW i \in DOMAIN commits', NEW j \in DOMAIN commits', i =< j
          PROVE  commits'[i].pushed =< commits'[j].pushed
      <3>1. CASE j \in DOMAIN commits /\ commits'[j] = commits[j]
        <4>1. i \in DOMAIN commits
          BY <1>0, <2>3, <2>5, <3>1
        <4>2. commits'[i] = commits[i]
          BY <1>0, <2>3, <4>1
        <4> QED
          BY <2>5, <3>1, <4>1, <4>2 DEF ClockInv
      <3>2. CASE commits'[j] = c
        BY <1>0, <2>2, <2>4, <3>2
      <3> QED
        BY <2>3, <3>1, <3>2
    <2> QED
      BY <2>1, <2>4, <2>5 DEF ClockInv
  <1>5. CASE Tick
    <2>1. now' = now + 1 /\ UNCHANGED <<host, commits, reviews>>
      BY <1>5 DEF Tick
    <2> QED
      BY <1>0, <2>1 DEF ClockInv
  <1>6. CASE UNCHANGED reviewVars
    BY <1>6, <1>s DEF reviewVars
  <1> QED
    BY <1>1, <1>2, <1>3, <1>4, <1>5, <1>6, Steps

-----------------------------------------------------------------------------
(* What a review leaves out.                                               *)

\* A commit that is not newer than the one the latest review is dated by was
\* pushed before that review, or one of the exceptions holds.
LEMMA Behind ==
  ASSUME Types, ClockInv, ReviewedInv, reviews # <<>>, NEW i \in Plain(DOMAIN commits),
         i =< LastSeen(Len(commits), reviews[Len(reviews)].created)
  PROVE  Settled(i)
  <1> DEFINE n == Len(commits)
             k == Len(reviews)
             t == reviews[k].created
             last == LastSeen(n, t)
  <1>0. /\ n \in Nat /\ DOMAIN commits = 1 .. n /\ i \in DOMAIN commits
        /\ k \in DOMAIN reviews /\ t \in Nat /\ host \in {"github", "azure"}
    <2>1. n \in Nat /\ DOMAIN commits = 1 .. n /\ host \in {"github", "azure"}
      BY TypesAre
    <2>2. i \in DOMAIN commits
      BY PlainIs
    <2>3. k \in DOMAIN reviews /\ t \in Nat
      BY Latest
    <2> QED
      BY <2>1, <2>2, <2>3
  <1>t. \A j \in DOMAIN commits : commits[j].pushed \in Nat
    BY Entries
  <1>1. SUFFICES ASSUME Dated(i), InTime(i) PROVE Settled(i)
    BY DEF Settled
  <1>2. i =< last
    OBVIOUS
  <1> HIDE DEF n, t, last
  <1>3. last \in 0 .. n /\ (last # 0 => commits[last].date =< t /\ (host # "github" => commits[last].date # NoDate))
    BY <1>0, LastIs DEF last
  <1>4. last \in i .. n /\ last \in DOMAIN commits /\ last # 0
    BY <1>0, <1>2, <1>3
  <1>5. commits[last].date = commits[last].pushed
    <2>1. commits[last].date \in {commits[last].pushed, NoDate}
      BY <1>1, <1>4 DEF Dated, n
    <2>2. commits[last].date # NoDate
      BY <1>3, <1>4 DEF ClockInv
    <2> QED
      BY <2>1, <2>2
  <1>6. commits[i].pushed =< commits[last].pushed
    BY <1>0, <1>2, <1>4 DEF ClockInv
  <1>7. commits[i].pushed # t
    BY <1>0, <1>1 DEF InTime, t
  <1>8. commits[i].pushed < t
    BY <1>0, <1>t, <1>3, <1>4, <1>5, <1>6, <1>7
  <1> QED
    BY <1>0, <1>8 DEF ReviewedInv, t

\* What a run does not show when it starts is settled, so what it leaves out
\* falls under the exceptions.
LEMMA Starting ==
  ASSUME Types, ClockInv, ReviewedInv,
         NEW r \in Runs, NEW asked \in BOOLEAN, NEW unread \in SUBSET (DOMAIN commits),
         Start(r, asked, unread)
  PROVE  /\ \A i \in Plain(1 .. Len(commits)) : i \in run'[r].shows \cup run'[r].unread \/ Settled(i)
         /\ \A i \in run'[r].skips : i \in DOMAIN commits /\ (~Dated(i) \/ ~InTime(i))
  <1> DEFINE s == Reading(asked, unread)
             last == LastSeen(Len(commits), reviews[Len(reviews)].created)
  <1>0. DOMAIN commits = 1 .. Len(commits) /\ Len(commits) \in Nat
    BY TypesAre
  <1>1. /\ run'[r].shows = s.shows /\ run'[r].unread = unread
        /\ run'[r].skips = Plain(1 .. Len(commits)) \ (s.shows \cup unread \cup covered)
    BY StartDoes
  <1>2. \/ s.shows = 1 .. Len(commits)
        \/ reviews # <<>> /\ s.shows = Plain(last + 1 .. Len(commits)) \ unread
    BY ReadingIs
  <1>l. ASSUME reviews # <<>> PROVE last \in Nat
    <2> DEFINE n == Len(commits)
               t == reviews[Len(reviews)].created
    <2>1. n \in Nat /\ t \in Nat
      BY <1>0, <1>l, Latest
    <2> HIDE DEF n, t
    <2>2. LastSeen(n, t) \in 0 .. n
      BY <2>1, LastIs
    <2>3. LastSeen(n, t) \in Nat
      BY <2>1, <2>2
    <2> QED
      BY <2>3 DEF n, t
  <1>3. ASSUME NEW i \in Plain(1 .. Len(commits)), i \notin s.shows \cup unread PROVE Settled(i)
    <2>1. i \in 1 .. Len(commits) /\ ~commits[i].merge
      BY PlainIs
    <2>2. reviews # <<>> /\ s.shows = Plain(last + 1 .. Len(commits)) \ unread
      BY <1>2, <1>3, <2>1
    <2>3. i \notin last + 1 .. Len(commits)
      BY <1>3, <2>1, <2>2, PlainIs
    <2>4. i =< last
      <3> HIDE DEF last
      <3> QED
        BY <1>0, <1>l, <2>1, <2>2, <2>3
    <2>5. i \in Plain(DOMAIN commits)
      BY <1>0
    <2> QED
      BY <2>2, <2>4, <2>5, Behind
  <1> HIDE DEF s, last
  <1>4. ASSUME NEW i \in run'[r].skips PROVE i \in DOMAIN commits /\ (~Dated(i) \/ ~InTime(i))
    <2>1. i \in Plain(1 .. Len(commits)) /\ i \notin s.shows \cup unread /\ i \notin covered
      BY <1>1, <1>4
    <2>2. Settled(i) /\ i \in DOMAIN commits
      BY <1>0, <1>3, <2>1, PlainIs
    <2> QED
      BY <2>1, <2>2 DEF Settled
  <1> QED
    BY <1>1, <1>3, <1>4

\* By the time a review is published that was created after a commit was pushed,
\* the commit is settled.
LEMMA ReviewedStep ==
  ASSUME Types, ClockInv, ReviewedInv, RunInv, [ReviewNext]_reviewVars
  PROVE  ReviewedInv'
  <1>0. /\ commits \in Seq(Commit) /\ reviews \in Seq(Review) /\ now \in Nat
        /\ DOMAIN commits = 1 .. Len(commits)
    BY TypesAre
  <1>g. Grows
    BY Grow
  \* what is old stays as it is
  <1>o. ASSUME NEW k \in DOMAIN reviews, NEW i \in DOMAIN commits, i \in Plain(DOMAIN commits)',
               commits'[i].pushed < reviews'[k].created
        PROVE  Settled(i)'
    <2>1. commits'[i] = commits[i] /\ reviews'[k] = reviews[k]
      BY <1>g DEF Grows
    <2>2. i \in Plain(DOMAIN commits)
      BY <1>o, <2>1 DEF Plain
    <2>3. Settled(i)
      BY <1>o, <2>1, <2>2 DEF ReviewedInv
    <2> QED
      BY <1>g, <2>3, ExceptionsStay
  <1>s. ASSUME DOMAIN commits' = DOMAIN commits, DOMAIN reviews' = DOMAIN reviews PROVE ReviewedInv'
    <2> SUFFICES ASSUME NEW k \in DOMAIN reviews', NEW i \in Plain(DOMAIN commits)',
                        commits'[i].pushed < reviews'[k].created
                 PROVE  Settled(i)'
      BY DEF ReviewedInv
    <2>1. k \in DOMAIN reviews /\ i \in DOMAIN commits
      BY <1>s DEF Plain
    <2> QED
      BY <1>o, <2>1
  <1>1. ASSUME NEW r \in Runs, NEW asked \in BOOLEAN, NEW unread \in SUBSET (DOMAIN commits),
               Start(r, asked, unread)
        PROVE  ReviewedInv'
    BY <1>1, <1>s DEF Start
  <1>2. ASSUME NEW r \in Runs, Leave(r) \/ Fail(r) PROVE ReviewedInv'
    BY <1>2, <1>s, EndsDoes
  <1>3. ASSUME NEW r \in Runs, Publish(r) PROVE ReviewedInv'
    <2>1. commits' = commits /\ Covers(r) \subseteq covered' /\ run[r].st # "idle"
      BY <1>3, PublishDoes
    <2>2. \/ reviews' = reviews
          \/ /\ \E full \in BOOLEAN : reviews' = Append(reviews, [created |-> now, full |-> full])
             /\ run[r].number + 1 .. Len(commits) \subseteq covered'
      BY <1>3, PublishDoes
    <2>3. CASE reviews' = reviews
      BY <1>s, <2>1, <2>3
    <2>4. CASE /\ \E full \in BOOLEAN : reviews' = Append(reviews, [created |-> now, full |-> full])
               /\ run[r].number + 1 .. Len(commits) \subseteq covered'
      <3>1. ASSUME NEW i \in Plain(DOMAIN commits)' PROVE Settled(i)'
        <4>1. i \in 1 .. Len(commits) /\ ~commits[i].merge
          BY <1>0, <2>1, <3>1 DEF Plain
        <4>2. run[r].number \in Nat
          BY TypesAre DEF RunOf
        <4>3. CASE i > run[r].number
          BY <2>4, <4>1, <4>2, <4>3 DEF Settled
        <4>4. CASE ~(i > run[r].number)
          <5>1. i \in Plain(1 .. run[r].number)
            BY <4>1, <4>2, <4>4 DEF Plain
          <5>2. i \in run[r].shows \cup run[r].unread \/ Settled(i)
            BY <2>1, <5>1 DEF RunInv
          <5>3. CASE i \in run[r].shows \cup run[r].unread
            BY <2>1, <5>3 DEF Settled, Covers
          <5>4. CASE Settled(i)
            BY <1>0, <1>g, <4>1, <5>4, ExceptionsStay
          <5> QED
            BY <5>2, <5>3, <5>4
        <4> QED
          BY <4>3, <4>4
      <3> QED
        BY <3>1 DEF ReviewedInv
    <2> QED
      BY <2>2, <2>3, <2>4
  <1>4. ASSUME NEW date \in {NoDate} \cup 1 .. now, NEW merge \in BOOLEAN, Push(date, merge)
        PROVE  ReviewedInv'
    <2> DEFINE c == [pushed |-> now, date |-> date, merge |-> merge]
    <2>1. commits' = Append(commits, c) /\ UNCHANGED <<now, reviews>> /\ c.pushed = now
      BY <1>4 DEF Push
    <2> HIDE DEF c
    <2> SUFFICES ASSUME NEW k \in DOMAIN reviews', NEW i \in Plain(DOMAIN commits)',
                        commits'[i].pushed < reviews'[k].created
                 PROVE  Settled(i)'
      BY DEF ReviewedInv
    <2>2. k \in DOMAIN reviews /\ i \in DOMAIN commits'
      BY <2>1 DEF Plain
    <2>3. i \in DOMAIN commits \/ commits'[i] = c
      BY <1>0, <2>1, <2>2
    <2>4. reviews'[k].created =< now /\ reviews'[k].created \in Nat
      BY <2>1, <2>2, Entries DEF ClockInv
    <2>5. ASSUME commits'[i] = c PROVE FALSE
      <3>1. commits'[i].pushed = now
        BY <2>1, <2>5
      <3>2. now < reviews'[k].created
        BY <3>1
      <3> QED
        BY <1>0, <2>4, <3>2
    <2> QED
      BY <1>o, <2>2, <2>3, <2>5
  <1>5. CASE Tick
    BY <1>5, <1>s DEF Tick
  <1>6. CASE UNCHANGED reviewVars
    BY <1>6, <1>s DEF reviewVars
  <1> QED
    BY <1>1, <1>2, <1>3, <1>4, <1>5, <1>6, Steps

-----------------------------------------------------------------------------
(* The runs under way.                                                     *)

\* What RunInv and NoneSkipped say of one run.
Accounts(r) ==
  /\ run[r].number =< Len(commits) /\ run[r].skips \subseteq DOMAIN commits
  /\ run[r].st # "idle" =>
       \A i \in Plain(1 .. run[r].number) : i \in run[r].shows \cup run[r].unread \/ Settled(i)
  /\ \A i \in run[r].skips : ~Dated(i) \/ ~InTime(i)

Accounted == \A r \in Runs : Accounts(r)

LEMMA AccountedIs == Accounted <=> RunInv /\ NoneSkipped
  BY DEF Accounted, RunInv, NoneSkipped, Accounts

\* A run that is not under way has nothing to account for.
LEMMA NoRunAccounts ==
  ASSUME Types, NEW q \in Runs, run[q] = NoRun
  PROVE  Accounts(q)
  <1>1. run[q].number = 0 /\ run[q].st = "idle" /\ run[q].skips = {}
    BY DEF NoRun
  <1>2. Len(commits) \in Nat
    BY TypesAre
  <1> QED
    BY <1>1, <1>2 DEF Accounts

\* What a run accounts for it goes on accounting for while it is as it was.
LEMMA AccountsStay ==
  ASSUME Types, Grows, NEW q \in Runs, Accounts(q), run'[q] = run[q], Types'
  PROVE  Accounts(q)'
  <1>0. /\ commits \in Seq(Commit) /\ DOMAIN commits = 1 .. Len(commits) /\ run[q].number \in Nat
        /\ commits' \in Seq(Commit) /\ DOMAIN commits' = 1 .. Len(commits') /\ Len(commits) \in Nat
        /\ Len(commits') \in Nat
    <2>1. commits \in Seq(Commit) /\ run[q].number \in Nat
      BY TypesAre DEF RunOf
    <2>2. commits' \in Seq(Commit)
      BY DEF Types, ReviewTypeOK, Commit
    <2> QED
      BY <2>1, <2>2
  <1>a. run[q].skips \subseteq DOMAIN commits /\ run[q].number =< Len(commits)
    BY DEF Accounts
  <1>b. Len(commits) =< Len(commits')
    BY DEF Grows
  <1>1. /\ run'[q].number =< Len(commits') /\ run'[q].skips \subseteq DOMAIN commits'
    BY <1>0, <1>a, <1>b
  <1>2. ASSUME run'[q].st # "idle", NEW i \in Plain(1 .. run[q].number)'
        PROVE  i \in run'[q].shows \cup run'[q].unread \/ Settled(i)'
    <2>1. i \in 1 .. run[q].number /\ ~commits'[i].merge
      BY <1>2 DEF Plain
    <2>2. i \in DOMAIN commits
      BY <1>0, <1>a, <2>1
    <2>3. i \in Plain(1 .. run[q].number)
      BY <2>1, <2>2 DEF Plain, Grows
    <2>4. i \in run[q].shows \cup run[q].unread \/ Settled(i)
      BY <1>2, <2>3 DEF Accounts
    <2> QED
      BY <2>2, <2>4, ExceptionsStay
  <1>3. ASSUME NEW i \in run'[q].skips PROVE ~Dated(i)' \/ ~InTime(i)'
    <2>1. i \in run[q].skips /\ i \in DOMAIN commits
      BY <1>3, <1>a
    <2>2. ~Dated(i) \/ ~InTime(i)
      BY <2>1 DEF Accounts
    <2> QED
      BY <2>1, <2>2, ExceptionsStay
  <1> QED
    BY <1>1, <1>2, <1>3 DEF Accounts

LEMMA AccountedStep ==
  ASSUME Types, ClockInv, ReviewedInv, Accounted, [ReviewNext]_reviewVars
  PROVE  Accounted'
  <1>0. Grows /\ Types' /\ run \in [Runs -> RunOf]
    BY Grow, TypeStep, TypesAre
  \* of one run, the others being as they were
  <1>s. ASSUME NEW r \in Runs, Accounts(r)', \A q \in Runs \ {r} : run'[q] = run[q] PROVE Accounted'
    <2>1. ASSUME NEW q \in Runs PROVE Accounts(q)'
      <3>1. CASE q = r
        BY <1>s, <3>1
      <3>2. CASE q # r
        <4>1. Accounts(q) /\ run'[q] = run[q]
          BY <1>s, <3>2 DEF Accounted
        <4> QED
          BY <1>0, <4>1, AccountsStay
      <3> QED
        BY <3>1, <3>2
    <2> QED
      BY <2>1 DEF Accounted
  <1>u. ASSUME run' = run PROVE Accounted'
    <2>1. ASSUME NEW q \in Runs PROVE Accounts(q)'
      <3>1. Accounts(q) /\ run'[q] = run[q]
        BY <1>u DEF Accounted
      <3> QED
        BY <1>0, <3>1, AccountsStay
    <2> QED
      BY <2>1 DEF Accounted
  <1>e. ASSUME NEW r \in Runs, run' = [run EXCEPT ![r] = NoRun] PROVE Accounted'
    <2>1. run'[r] = NoRun /\ \A q \in Runs \ {r} : run'[q] = run[q]
      BY <1>0, <1>e
    <2>2. run'[r].number = 0 /\ run'[r].st = "idle" /\ run'[r].skips = {}
      BY <2>1 DEF NoRun
    <2>3. Len(commits') \in Nat
      BY <1>0 DEF Types, ReviewTypeOK
    <2>4. Accounts(r)'
      BY <2>2, <2>3 DEF Accounts
    <2> QED
      BY <1>s, <2>1, <2>4
  <1>1. ASSUME NEW r \in Runs, NEW asked \in BOOLEAN, NEW unread \in SUBSET (DOMAIN commits),
               Start(r, asked, unread)
        PROVE  Accounted'
    <2>1. /\ run'[r].number = Len(commits) /\ \A q \in Runs \ {r} : run'[q] = run[q]
          /\ UNCHANGED <<commits, reviews, covered>>
      BY <1>1, StartDoes
    <2>2. /\ \A i \in Plain(1 .. Len(commits)) : i \in run'[r].shows \cup run'[r].unread \/ Settled(i)
          /\ \A i \in run'[r].skips : i \in DOMAIN commits /\ (~Dated(i) \/ ~InTime(i))
      BY <1>1, Starting
    <2>3. Len(commits) \in Nat
      BY TypesAre
    <2>4. run'[r].number =< Len(commits') /\ run'[r].skips \subseteq DOMAIN commits'
      BY <2>1, <2>2, <2>3
    <2>5. \A i \in Plain(1 .. run[r].number)' : i \in run'[r].shows \cup run'[r].unread \/ Settled(i)'
      BY <2>1, <2>2 DEF Plain, Settled, Dated, InTime
    <2>6. \A i \in run'[r].skips : ~Dated(i)' \/ ~InTime(i)'
      BY <2>1, <2>2 DEF Dated, InTime
    <2>7. Accounts(r)'
      BY <2>4, <2>5, <2>6 DEF Accounts
    <2> QED
      BY <1>s, <2>1, <2>7
  <1>2. ASSUME NEW r \in Runs, Leave(r) \/ Fail(r) PROVE Accounted'
    BY <1>2, <1>e, EndsDoes
  <1>3. ASSUME NEW r \in Runs, Publish(r) PROVE Accounted'
    BY <1>3, <1>e, PublishDoes
  <1>4. ASSUME NEW date \in {NoDate} \cup 1 .. now, NEW merge \in BOOLEAN, Push(date, merge)
        PROVE  Accounted'
    BY <1>4, <1>u DEF Push
  <1>5. CASE Tick
    BY <1>5, <1>u DEF Tick
  <1>6. CASE UNCHANGED reviewVars
    BY <1>6, <1>u DEF reviewVars
  <1> QED
    BY <1>1, <1>2, <1>3, <1>4, <1>5, <1>6, Steps

-----------------------------------------------------------------------------
(* The theorem.                                                            *)

ReviewInv == Types /\ ClockInv /\ ReviewedInv /\ Accounted

LEMMA InitReviewInv == ReviewInit => ReviewInv
  <1> SUFFICES ASSUME ReviewInit PROVE ReviewInv
    OBVIOUS
  <1>1. Types
    BY ReviewInitTypes
  <1>2. commits = <<>> /\ reviews = <<>> /\ \A q \in Runs : run[q] = NoRun
    BY DEF ReviewInit
  <1>3. DOMAIN commits = {} /\ DOMAIN reviews = {}
    BY <1>2
  <1>4. ClockInv /\ ReviewedInv
    BY <1>3 DEF ClockInv, ReviewedInv
  <1>5. Accounted
    BY <1>1, <1>2, NoRunAccounts DEF Accounted
  <1> QED
    BY <1>1, <1>4, <1>5 DEF ReviewInv

LEMMA ReviewInvStep == ReviewInv /\ [ReviewNext]_reviewVars => ReviewInv'
  <1> SUFFICES ASSUME ReviewInv, [ReviewNext]_reviewVars PROVE ReviewInv'
    OBVIOUS
  <1>1. Types /\ ClockInv /\ ReviewedInv /\ Accounted /\ RunInv
    BY AccountedIs DEF ReviewInv
  <1> QED
    BY <1>1, TypeStep, ClockStep, ReviewedStep, AccountedStep DEF ReviewInv

\* An incremental review leaves out no commit that no review has been shown, but
\* for one pushed in the instant of a comment or dated before its push: for any
\* number of runs, commits and reviews, any thresholds and merges.
THEOREM NoneIsSkipped == ReviewSpec => []NoneSkipped
  <1>1. ReviewInv => NoneSkipped
    BY AccountedIs DEF ReviewInv
  <1> QED
    BY <1>1, InitReviewInv, ReviewInvStep, PTL DEF ReviewSpec

-----------------------------------------------------------------------------
(* HostFiles: versions.                                                    *)

LEMMA VersionsAre ==
  ASSUME HostTypeOK, NEW x \in Places
  PROVE  /\ since[x] \in Seq(Nat) /\ Version(x) = Len(since[x]) /\ Version(x) \in Nat \ {0}
         /\ Version(x) <= MaxHostEdits + 1
         /\ \A t : HeldSince(x, t) \subseteq 0 .. Version(x) /\ Version(x) \in HeldSince(x, t)
  <1>1. since[x] \in Seq(Nat) /\ Version(x) \in 1 .. hostEdits + 1 /\ hostEdits \in 0 .. MaxHostEdits
    BY DEF HostTypeOK
  <1>2. Version(x) \in Nat \ {0} /\ Version(x) <= MaxHostEdits + 1
    BY <1>1, HostAssumption
  <1> QED
    BY <1>1, <1>2 DEF Version, HeldSince

\* What was there at some time after u was there at some time after t.
LEMMA HeldLonger ==
  ASSUME HostTypeOK, NEW x \in Places, NEW t \in Int, NEW u \in Int, t <= u
  PROVE  HeldSince(x, u) \subseteq HeldSince(x, t)
  <1> SUFFICES ASSUME NEW v \in HeldSince(x, u), v # Version(x) PROVE v \in HeldSince(x, t)
    BY VersionsAre
  <1>1. CASE v \in 1 .. Version(x) /\ since[x][v + 1] >= u
    <2>1. since[x][v + 1] \in Nat
      BY <1>1, VersionsAre
    <2>2. since[x][v + 1] >= t
      BY <1>1, <2>1
    <2> QED
      BY <1>1, <2>2 DEF HeldSince
  <1>2. CASE v = 0 /\ \E z \in hidden[x] : z >= u
    <2>1. PICK z \in hidden[x] : z >= u
      BY <1>2
    <2>2. z \in Nat
      BY <2>1 DEF HostTypeOK
    <2>3. z >= t
      BY <2>1, <2>2
    <2> QED
      BY <1>2, <2>1, <2>3 DEF HeldSince
  <1> QED
    BY <1>1, <1>2 DEF HeldSince

\* A step of the host only adds a version, which begins now.
LEMMA Versioned ==
  ASSUME HostTypeOK, [HostNext]_hostVars, NEW x \in Places
  PROVE  since'[x] = since[x] \/ since'[x] = Append(since[x], clock)
  <1>1. since \in [Places -> Seq(Nat)]
    BY DEF HostTypeOK
  <1>2. CASE UNCHANGED since
    BY <1>2
  <1>3. CASE \E y \in Places : Edit(y)
    BY <1>1, <1>3 DEF Edit
  <1> QED
    BY <1>2, <1>3 DEF HostNext, hostVars, Begin, BeginRequest, Fetch, Render, Pass

\* What a lookup that raises nothing gives is there now, or is hidden now.
LEMMA RepliesAre ==
  ASSUME HostTypeOK, NEW x \in Places, NEW answer \in {"read", "raised", "hidden"}, Answered(answer, x),
         UNCHANGED <<clock, since>>
  PROVE  /\ Content(answer, x) \in Nat /\ hidden' \in [Places -> SUBSET Nat] /\ faults' \in Nat
         /\ answer # "raised" => Content(answer, x) \in HeldSince(x, clock)'
  <1>0. clock \in Nat /\ hidden \in [Places -> SUBSET Nat] /\ faults \in Nat
    BY DEF HostTypeOK
  <1>1. Version(x) \in Nat /\ Version(x) \in HeldSince(x, clock)
    BY VersionsAre
  <1>2. hidden' \in [Places -> SUBSET Nat] /\ faults' \in Nat
    BY <1>0 DEF Answered
  <1>3. CASE answer = "read"
    <2>1. hidden' = hidden
      BY <1>3 DEF Answered
    <2>2. HeldSince(x, clock)' = HeldSince(x, clock)
      BY <2>1 DEF HeldSince, Version
    <2> QED
      BY <1>1, <1>2, <1>3, <2>2 DEF Content
  <1>4. CASE answer = "raised"
    BY <1>2, <1>4 DEF Content
  <1>5. CASE answer = "hidden"
    <2>1. clock \in hidden'[x] /\ clock' = clock /\ clock >= clock
      BY <1>0, <1>5 DEF Answered
    <2>2. 0 \in HeldSince(x, clock)'
      BY <2>1 DEF HeldSince
    <2> QED
      BY <1>2, <1>5, <2>2 DEF Content
  <1> QED
    BY <1>3, <1>4, <1>5

LEMMA RepliesIn ==
  /\ \A a \in Replies(FileErrors) : a \in {"read", "raised", "hidden"}
  /\ \A a \in Replies(SettingsErrors) : a \in {"read", "raised", "hidden"}
  <1>1. FileErrors \subseteq {"raised", "hidden"}
    BY DEF FileErrors
  <1> QED
    BY <1>1 DEF Replies, SettingsErrors

\* An error that was hidden stays in its history.
LEMMA HiddenStays ==
  ASSUME HostTypeOK, [HostNext]_hostVars, NEW x \in Places
  PROVE  hidden[x] \subseteq hidden'[x]
  <1>1. hidden \in [Places -> SUBSET Nat]
    BY DEF HostTypeOK
  <1>2. CASE UNCHANGED hidden
    BY <1>2
  <1>3. ASSUME NEW answer, NEW y, Answered(answer, y) PROVE hidden[x] \subseteq hidden'[x]
    BY <1>1, <1>3 DEF Answered
  <1>4. CASE Fetch
    BY <1>3, <1>4 DEF Fetch
  <1>5. ASSUME NEW q \in Readers, NEW p \in PRs, NEW large \in BOOLEAN, BeginRequest(q, p, large)
        PROVE  hidden[x] \subseteq hidden'[x]
    BY <1>2, <1>3, <1>5 DEF BeginRequest
  <1> QED
    BY <1>2, <1>4, <1>5 DEF HostNext, hostVars, Begin, Render, Edit, Pass

LEMMA HeldStays ==
  ASSUME HostTypeOK, [HostNext]_hostVars, NEW x \in Places, NEW t \in Int, t <= clock
  PROVE  HeldSince(x, t) \subseteq HeldSince(x, t)'
  <1>0. since[x] \in Seq(Nat) /\ Version(x) = Len(since[x]) /\ Version(x) \in Nat \ {0} /\ clock \in Nat
    BY VersionsAre DEF HostTypeOK
  <1>1. ASSUME NEW v \in HeldSince(x, t), v = 0 PROVE v \in HeldSince(x, t)'
    <2>1. PICK z \in hidden[x] : z >= t
      BY <1>0, <1>1 DEF HeldSince
    <2>2. z \in hidden'[x]
      BY <2>1, HiddenStays
    <2> QED
      BY <1>1, <2>1, <2>2 DEF HeldSince
  <1>2. ASSUME NEW v \in HeldSince(x, t), v # 0 PROVE v \in HeldSince(x, t)'
    <2>1. v \in 1 .. Len(since[x]) /\ (v = Len(since[x]) \/ since[x][v + 1] >= t)
      BY <1>0, <1>2 DEF HeldSince
    <2>2. CASE since'[x] = since[x]
      BY <2>1, <2>2 DEF HeldSince, Version
    <2>3. CASE since'[x] = Append(since[x], clock)
      <3>1. Len(since'[x]) = Len(since[x]) + 1
        BY <1>0, <2>3
      <3>2. since'[x][v + 1] = IF v = Len(since[x]) THEN clock ELSE since[x][v + 1]
        BY <1>0, <2>1, <2>3
      <3>3. v \in 1 .. Len(since'[x]) /\ since'[x][v + 1] >= t
        BY <1>0, <2>1, <3>1, <3>2
      <3> QED
        BY <3>3 DEF HeldSince, Version
    <2> QED
      BY <2>2, <2>3, Versioned
  <1> QED
    BY <1>1, <1>2

Branches == {"default", "target"}

LEMMA PlaceOf ==
  ASSUME NEW b \in Branches, NEW f \in Seq(Instructions), NEW i \in 1 .. Len(f)
  PROVE  <<b, f[i]>> \in Places
  BY DEF Places, Branches

LEMMA RenderedLonger ==
  ASSUME HostTypeOK, NEW b \in Branches, NEW f \in Seq(Instructions), NEW l, NEW text,
         NEW t \in Int, NEW u \in Int, t <= u, RenderedSince(b, f, l, text, u)
  PROVE  RenderedSince(b, f, l, text, t)
  <1>1. PICK v \in [1 .. Len(f) -> 0 .. MaxHostEdits + 1] :
          /\ \A i \in 1 .. Len(f) : v[i] \in HeldSince(<<b, f[i]>>, u)
          /\ text = Rendered(f, v, l)
    BY DEF RenderedSince
  <1>2. \A i \in 1 .. Len(f) : v[i] \in HeldSince(<<b, f[i]>>, t)
    BY <1>1, PlaceOf, HeldLonger
  <1> QED
    BY <1>1, <1>2 DEF RenderedSince

LEMMA RenderedStays ==
  ASSUME HostTypeOK, [HostNext]_hostVars, NEW b \in Branches, NEW f \in Seq(Instructions), NEW l, NEW text,
         NEW t \in Int, t <= clock, RenderedSince(b, f, l, text, t)
  PROVE  RenderedSince(b, f, l, text, t)'
  <1>1. PICK v \in [1 .. Len(f) -> 0 .. MaxHostEdits + 1] :
          /\ \A i \in 1 .. Len(f) : v[i] \in HeldSince(<<b, f[i]>>, t)
          /\ text = Rendered(f, v, l)
    BY DEF RenderedSince
  <1>2. \A i \in 1 .. Len(f) : v[i] \in HeldSince(<<b, f[i]>>, t)'
    BY <1>1, PlaceOf, HeldStays
  <1> QED
    BY <1>1, <1>2 DEF RenderedSince

LEMMA ClockGoes ==
  ASSUME HostTypeOK, [HostNext]_hostVars
  PROVE  clock \in Nat /\ clock' \in Nat /\ clock <= clock'
  <1>1. clock \in Nat
    BY DEF HostTypeOK
  <1>2. clock' = clock \/ clock' = clock + 1
    BY DEF HostNext, hostVars, Begin, BeginRequest, Fetch, Render, Edit, Pass
  <1> QED
    BY <1>1, <1>2

LEMMA AliveStays ==
  ASSUME HostTypeOK, [HostNext]_hostVars, NEW e, e.until \in Int, NEW k \in KeySet, Alive(e, k)
  PROVE  Alive(e, k)'
  <1>1. PICK b \in Branches : RenderedSince(b, k[1], k[2], e.value, e.until - Ttl)
    BY DEF Alive, Branches
  <1>2. /\ e.until - Ttl \in Int /\ e.until - Ttl <= clock /\ e.until - Ttl <= clock'
        /\ k[1] \in Seq(Instructions)
    BY HostAssumption, ClockGoes DEF Alive, KeySet
  <1>3. RenderedSince(b, k[1], k[2], e.value, e.until - Ttl)'
    BY <1>1, <1>2, RenderedStays
  <1> QED
    BY <1>2, <1>3 DEF Alive, Branches

LEMMA AliveSettingsStay ==
  ASSUME HostTypeOK, [HostNext]_hostVars, NEW e, e.until \in Int, e.key \in Orgs, AliveSettings(e)
  PROVE  AliveSettings(e)'
  <1>1. /\ e.until - Ttl \in Int /\ e.until - Ttl <= clock /\ e.until - Ttl <= clock'
        /\ <<e.key, "settings">> \in Places
    BY HostAssumption, ClockGoes DEF AliveSettings, Places
  <1>2. e.value[1] \in HeldSince(<<e.key, "settings">>, e.until - Ttl)'
    BY <1>1, HeldStays DEF AliveSettings
  <1> QED
    BY <1>1, <1>2 DEF AliveSettings

-----------------------------------------------------------------------------
(* HostFiles: the operations of a cache keep and move entries.             *)

From(s, t) == \A i \in DOMAIN s : \E j \in DOMAIN t : s[i] = t[j]

LEMMA OthersFrom ==
  ASSUME NEW S, NEW s \in Seq(S), NEW k
  PROVE  Others(s, k) \in Seq(S) /\ From(Others(s, k), s)
  <1>1. CASE At(s, k) = {}
    BY <1>1 DEF Others, From
  <1>2. CASE At(s, k) # {}
    <2>1. PICK n \in DOMAIN s : Others(s, k) = SubSeq(s, 1, n - 1) \o SubSeq(s, n + 1, Len(s))
      BY <1>2 DEF Others, At, RemoveAt
    <2>2. /\ SubSeq(s, 1, n - 1) \in Seq(S) /\ Len(SubSeq(s, 1, n - 1)) = n - 1
          /\ \A i \in 1 .. n - 1 : SubSeq(s, 1, n - 1)[i] = s[i]
      <3>1. 1 \in Int /\ n - 1 \in Int /\ \A i \in 1 .. n - 1 : s[i] \in S
        OBVIOUS
      <3> QED
        BY <3>1, SubSeqProperties
    <2>3. /\ SubSeq(s, n + 1, Len(s)) \in Seq(S) /\ Len(SubSeq(s, n + 1, Len(s))) = Len(s) - n
          /\ \A i \in 1 .. Len(s) - n : SubSeq(s, n + 1, Len(s))[i] = s[i + n]
      <3>1. n + 1 \in Int /\ Len(s) \in Int /\ \A i \in n + 1 .. Len(s) : s[i] \in S
        OBVIOUS
      <3>2. /\ SubSeq(s, n + 1, Len(s)) \in Seq(S)
            /\ Len(SubSeq(s, n + 1, Len(s))) = IF n + 1 <= Len(s) THEN Len(s) - (n + 1) + 1 ELSE 0
            /\ \A i \in 1 .. Len(s) - (n + 1) + 1 : SubSeq(s, n + 1, Len(s))[i] = s[n + 1 + i - 1]
        BY <3>1, SubSeqProperties
      <3> QED
        BY <3>2
    <2> DEFINE l == SubSeq(s, 1, n - 1)
               r == SubSeq(s, n + 1, Len(s))
               m == l \o r
    <2> HIDE DEF l, r
    <2>9. l \in Seq(S) /\ r \in Seq(S)
      BY <2>2, <2>3 DEF l, r
    <2>4. /\ m \in Seq(S) /\ Len(m) = Len(l) + Len(r)
          /\ \A i \in 1 .. Len(l) + Len(r) : m[i] = IF i <= Len(l) THEN l[i] ELSE r[i - Len(l)]
      BY <2>9, ConcatProperties
    <2>5. Others(s, k) = m /\ Len(l) = n - 1 /\ Len(r) = Len(s) - n
      BY <2>1, <2>2, <2>3 DEF l, r
    <2> HIDE DEF m
    <2>6. /\ \A i \in 1 .. n - 1 : l[i] = s[i]
          /\ \A i \in 1 .. Len(s) - n : r[i] = s[i + n]
      BY <2>2, <2>3 DEF l, r
    <2>0. n \in 1 .. Len(s) /\ Len(s) \in Nat
      OBVIOUS
    <2>7. ASSUME NEW i \in 1 .. Len(s) - 1 PROVE \E j \in DOMAIN s : m[i] = s[j]
      <3>1. CASE i <= n - 1
        <4>1. i \in 1 .. n - 1 /\ i \in 1 .. Len(l) + Len(r) /\ i <= Len(l) /\ i \in DOMAIN s
          BY <2>0, <2>5, <3>1
        <4>2. m[i] = l[i] /\ l[i] = s[i]
          BY <2>4, <2>6, <4>1
        <4> QED
          BY <4>1, <4>2
      <3>2. CASE i > n - 1
        <4>0. i \in 1 .. Len(l) + Len(r) /\ ~(i <= Len(l)) /\ Len(l) = n - 1
          BY <2>0, <2>5, <3>2
        <4>1. m[i] = r[i - (n - 1)]
          BY <2>4, <4>0
        <4>2. i - (n - 1) \in 1 .. Len(s) - n /\ i - (n - 1) + n = i + 1 /\ i + 1 \in DOMAIN s
          BY <2>0, <3>2
        <4>3. r[i - (n - 1)] = s[i + 1]
          BY <2>6, <4>2
        <4> QED
          BY <4>1, <4>2, <4>3
      <3> QED
        BY <2>0, <3>1, <3>2
    <2>8. DOMAIN Others(s, k) = 1 .. Len(s) - 1 /\ Others(s, k) \in Seq(S)
      BY <2>0, <2>4, <2>5
    <2>10. From(Others(s, k), s)
      BY <2>5, <2>7, <2>8 DEF From
    <2> QED
      BY <2>8, <2>10
  <1> QED
    BY <1>1, <1>2

LEMMA GotFrom ==
  ASSUME NEW S, NEW s \in Seq(S), NEW k
  PROVE  Got(s, k) \in Seq(S) /\ From(Got(s, k), s)
  <1>0. Others(s, k) \in Seq(S) /\ From(Others(s, k), s)
    BY OthersFrom
  <1>1. CASE Found(s, k) = {}
    BY <1>0, <1>1 DEF Got
  <1>2. CASE Found(s, k) # {}
    <2>1. PICK n \in DOMAIN s : Got(s, k) = Append(Others(s, k), s[n])
      BY <1>2 DEF Got, Found, At
    <2>2. s[n] \in S
      OBVIOUS
    <2>3. Got(s, k) \in Seq(S)
      BY <1>0, <2>1, <2>2
    <2>4. ASSUME NEW i \in DOMAIN Got(s, k) PROVE \E j \in DOMAIN s : Got(s, k)[i] = s[j]
      <3>1. CASE i = Len(Others(s, k)) + 1
        BY <1>0, <2>1, <2>2, <3>1
      <3>2. CASE i \in DOMAIN Others(s, k)
        BY <1>0, <2>1, <2>2, <3>2 DEF From
      <3> QED
        BY <1>0, <2>1, <2>2, <3>1, <3>2
    <2> QED
      BY <2>3, <2>4 DEF From
  <1> QED
    BY <1>1, <1>2

LEMMA PutFrom ==
  ASSUME NEW S, NEW s \in Seq(S), NEW k, NEW v, Entry(k, v, clock + Ttl) \in S
  PROVE  /\ Put(s, k, v) \in Seq(S)
         /\ \A i \in DOMAIN Put(s, k, v) :
              Put(s, k, v)[i] = Entry(k, v, clock + Ttl) \/ \E j \in DOMAIN s : Put(s, k, v)[i] = s[j]
  <1> DEFINE o == Others(s, k)
             x == Entry(k, v, clock + Ttl)
  <1>0. o \in Seq(S) /\ From(o, s) /\ x \in S
    BY OthersFrom
  <1>d. Put(s, k, v) = IF Len(Append(o, x)) > MaxSize THEN Tail(Append(o, x)) ELSE Append(o, x)
    BY DEF Put, Newest
  <1> HIDE DEF o, x
  <1>1. /\ Append(o, x) \in Seq(S) /\ Len(Append(o, x)) = Len(o) + 1
        /\ Append(o, x)[Len(o) + 1] = x /\ \A i \in 1 .. Len(o) : Append(o, x)[i] = o[i]
    BY <1>0
  <1>2. \A i \in 1 .. Len(o) + 1 : Append(o, x)[i] = x \/ \E j \in DOMAIN s : Append(o, x)[i] = s[j]
    BY <1>0, <1>1 DEF From
  <1>3. /\ Tail(Append(o, x)) \in Seq(S) /\ Len(Tail(Append(o, x))) = Len(o)
        /\ \A i \in 1 .. Len(o) : Tail(Append(o, x))[i] = Append(o, x)[i + 1]
    BY <1>0, <1>1
  <1>4. CASE Len(Append(o, x)) > MaxSize
    BY <1>0, <1>d, <1>2, <1>3, <1>4 DEF x
  <1>5. CASE ~(Len(Append(o, x)) > MaxSize)
    BY <1>0, <1>d, <1>1, <1>2, <1>5 DEF x
  <1> QED
    BY <1>4, <1>5

-----------------------------------------------------------------------------
(* HostFiles: types.                                                       *)

ProcEntries == CacheEntries(PRs \X KeySet, Contents)
OwnEntries == CacheEntries(KeySet, Contents)

LEMMA KeysAre ==
  ASSUME NEW c \in Configs
  PROVE  /\ Key(c) \in KeySet /\ Key(c)[1] = c.files /\ Key(c)[2] = c.lines
         /\ c.files \in Seq(Instructions) /\ c.lines \in Nat /\ Branch(c) \in Branches
         /\ \A p \in PRs : ProcessKey(p, c) \in PRs \X KeySet /\ ProcessKey(p, c)[2] = Key(c)
         /\ \A v \in Seq(Nat) : Rendered(c.files, v, c.lines) \in Contents
  <1>1. c.files \in Seq(Instructions) /\ c.lines \in Nat
    BY HostAssumption
  <1>2. Key(c) \in KeySet /\ Key(c)[1] = c.files /\ Key(c)[2] = c.lines
    BY <1>1 DEF Key, KeySet
  <1>3. ASSUME NEW v \in Seq(Nat) PROVE Rendered(c.files, v, c.lines) \in Contents
    <2> DEFINE a == <<c.files, v, c.lines>>
    <2>1. a \in Seq(Instructions) \X Seq(Nat) \X Nat /\ a[1] = c.files /\ a[2] = v /\ a[3] = c.lines
      BY <1>1
    <2> HIDE DEF a
    <2>2. Rendered(a[1], a[2], a[3]) \in Contents
      BY <2>1 DEF Contents
    <2> QED
      BY <2>1, <2>2
  <1> QED
    BY <1>1, <1>2, <1>3 DEF Branch, Branches, ProcessKey

LEMMA BuildsAre ==
  ASSUME NEW q \in Readers, NEW c \in Configs, NEW text \in Contents \cup Seq(Nat)
  PROVE  /\ Build(q, c, text) \in Builds
         /\ Build(q, c, text).by = q /\ Build(q, c, text).org = Unset /\ Build(q, c, text).config = c
         /\ Build(q, c, text).versions = <<>> /\ ~Build(q, c, text).failed /\ Build(q, c, text).text = text
  BY DEF Build, Builds

LEMMA NoBuildIs == NoBuild \in Builds
  BY DEF NoBuild, Build, Builds, NoConfig

LEMMA ToldAre ==
  ASSUME NEW q \in Readers, NEW o \in Orgs, NEW text \in Seq(Nat), NEW failed \in BOOLEAN
  PROVE  /\ Told(q, o, text, failed) \in Builds
         /\ Told(q, o, text, failed).org = o /\ Told(q, o, text, failed).failed = failed
         /\ Told(q, o, text, failed).text = text
  BY DEF Told, Builds

LEMMA BuildHas ==
  ASSUME NEW b \in Builds
  PROVE  b.versions \in Seq(Nat) /\ b.config.files \in Seq(Instructions) /\ Branch(b.config) \in Branches
  <1>1. b.versions \in Seq(Nat) /\ b.config \in Configs \cup {NoConfig}
    BY DEF Builds
  <1>2. CASE b.config \in Configs
    BY <1>1, <1>2, KeysAre
  <1>3. CASE b.config = NoConfig
    BY <1>1, <1>3 DEF NoConfig, Branch, Branches
  <1> QED
    BY <1>1, <1>2, <1>3

ReadInto(b, v, fails) == [b EXCEPT !.versions = Append(@, v), !.failed = @ \/ fails]

\* A file read, and the rendering of those that were.
ReadsOn(r, b, v, fails) ==
  /\ r \in Builds /\ r.by = b.by /\ r.org = b.org /\ r.config = b.config
  /\ r.versions = Append(b.versions, v) /\ r.failed = (b.failed \/ fails)

LEMMA ReadOn ==
  ASSUME NEW b \in Builds, NEW v \in Nat, NEW fails \in BOOLEAN, NEW r, r = ReadInto(b, v, fails)
  PROVE  ReadsOn(r, b, v, fails)
  <1> DEFINE w == Append(b.versions, v)
             a == [b EXCEPT !.versions = w]
             g == (b.failed \/ fails)
  <1>1. w \in Seq(Nat) /\ g \in BOOLEAN /\ b.failed \in BOOLEAN
    BY DEF Builds
  <1>2. r = [a EXCEPT !.failed = g]
    BY DEF ReadInto
  <1> HIDE DEF w, g
  <1>3. /\ a \in Builds /\ a.by = b.by /\ a.org = b.org /\ a.config = b.config
        /\ a.versions = w /\ a.failed = b.failed
    BY <1>1 DEF Builds
  <1> HIDE DEF a
  <1>4. /\ r \in Builds /\ r.by = a.by /\ r.org = a.org /\ r.config = a.config
        /\ r.versions = a.versions /\ r.failed = g
    BY <1>1, <1>2, <1>3 DEF Builds
  <1> QED
    BY <1>3, <1>4 DEF w, g, ReadsOn

LEMMA Texted ==
  ASSUME NEW b \in Builds, NEW text \in Contents \cup Seq(Nat), NEW r, r = [b EXCEPT !.text = text]
  PROVE  /\ r \in Builds /\ r.by = b.by /\ r.org = b.org /\ r.config = b.config
         /\ r.versions = b.versions /\ r.failed = b.failed /\ r.text = text
  BY DEF Builds

LEMMA EntryHas ==
  ASSUME HostTypeOK, NEW k, NEW v
  PROVE  /\ Entry(k, v, clock + Ttl).key = k /\ Entry(k, v, clock + Ttl).value = v
         /\ Entry(k, v, clock + Ttl).until \in Int /\ Entry(k, v, clock + Ttl).until - Ttl = clock
  <1>1. clock \in Nat /\ Ttl \in Nat
    BY HostAssumption DEF HostTypeOK
  <1>2. clock + Ttl \in Int /\ (clock + Ttl) - Ttl = clock
    BY <1>1
  <1> QED
    BY <1>2 DEF Entry

LEMMA EntriesAre ==
  ASSUME HostTypeOK, NEW keys, NEW values, NEW k \in keys, NEW v \in values
  PROVE  Entry(k, v, clock + Ttl) \in CacheEntries(keys, values)
  <1>1. clock + Ttl \in Int
    BY HostAssumption DEF HostTypeOK
  <1> QED
    BY <1>1 DEF Entry, CacheEntries

\* What answers a request is a text that some cache has under its key, and
\* that is alive.
LEMMA HitIs ==
  ASSUME HostTypeOK, NEW q \in Readers, NEW c \in Configs, request[q] # Unset,
         NEW text \in Cached(q, c)
  PROVE  /\ text \in Contents
         /\ CachesInv => \E e \in ProcEntries \cup OwnEntries :
                          e.until \in Int /\ e.value = text /\ e.until > clock /\ Alive(e, Key(c))
  <1>0. /\ proc \in Seq(ProcEntries) /\ own[q] \in Seq(OwnEntries) /\ request[q] \in PRs
        /\ ProcessKey(request[q], c)[2] = Key(c)
    BY KeysAre DEF HostTypeOK, ProcEntries, OwnEntries
  <1>1. CASE Found(proc, ProcessKey(request[q], c)) # {}
    <2>1. PICK i \in DOMAIN proc :
            text = proc[i].value /\ proc[i].key = ProcessKey(request[q], c) /\ proc[i].until > clock
      BY <1>1 DEF Cached, Found, At, Fresh
    <2>2. proc[i] \in ProcEntries
      BY <1>0
    <2>3. proc[i].value \in Contents /\ proc[i].until \in Int
      BY <2>2 DEF ProcEntries, CacheEntries
    <2>4. CachesInv => Alive(proc[i], Key(c))
      BY <1>0, <2>1 DEF CachesInv
    <2> QED
      BY <2>1, <2>2, <2>3, <2>4
  <1>2. CASE Found(proc, ProcessKey(request[q], c)) = {}
    <2>1. PICK i \in DOMAIN own[q] :
            text = own[q][i].value /\ own[q][i].key = Key(c) /\ own[q][i].until > clock
      BY <1>2 DEF Cached, Found, At, Fresh
    <2>2. own[q][i] \in OwnEntries
      BY <1>0
    <2>3. own[q][i].value \in Contents /\ own[q][i].until \in Int
      BY <2>2 DEF OwnEntries, CacheEntries
    <2>4. CachesInv => Alive(own[q][i], Key(c))
      BY <2>1 DEF CachesInv
    <2> QED
      BY <2>1, <2>2, <2>3, <2>4
  <1> QED
    BY <1>1, <1>2

LEMMA HostTypeStep == HostTypeOK /\ ReadingInv /\ [HostNext]_hostVars => HostTypeOK'
  <1> SUFFICES ASSUME HostTypeOK, ReadingInv, [HostNext]_hostVars PROVE HostTypeOK'
    OBVIOUS
  <1>0. /\ clock \in Nat /\ hostEdits \in 0 .. MaxHostEdits /\ reads \in Nat /\ faults \in Nat
        /\ since \in [Places -> Seq(Nat)] /\ \A x \in Places : Len(since[x]) \in 1 .. hostEdits + 1
        /\ provider \in Providers /\ hidden \in [Places -> SUBSET Nat]
        /\ proc \in Seq(ProcEntries) /\ own \in [Readers -> Seq(OwnEntries)]
        /\ orgs \subseteq CacheEntries(Orgs, Seq(Nat))
        /\ request \in [Readers -> PRs \cup {Unset}] /\ reading \in Builds /\ served \in Builds
    BY DEF HostTypeOK, ProcEntries, OwnEntries, Version
  <1>t. ASSUME clock' \in Nat, hostEdits' \in 0 .. MaxHostEdits, reads' \in Nat, faults' \in Nat,
               since' \in [Places -> Seq(Nat)], \A x \in Places : Len(since'[x]) \in 1 .. hostEdits' + 1,
               proc' \in Seq(ProcEntries), own' \in [Readers -> Seq(OwnEntries)],
               orgs' \subseteq CacheEntries(Orgs, Seq(Nat)),
               request' \in [Readers -> PRs \cup {Unset}], reading' \in Builds, served' \in Builds,
               provider' = provider, hidden' \in [Places -> SUBSET Nat]
        PROVE  HostTypeOK'
    BY <1>0, <1>t DEF HostTypeOK, ProcEntries, OwnEntries, Version
  <1>1. ASSUME NEW q \in Readers, NEW c \in Configs, Begin(q, c)
        PROVE  HostTypeOK'
    <2>1. /\ UNCHANGED <<clock, provider, since, hidden, orgs, request, hostEdits, faults>> /\ request[q] # Unset
          /\ proc' = Got(proc, ProcessKey(request[q], c)) /\ reads' \in Nat
          /\ own' = own \/ own' = [own EXCEPT ![q] = Got(own[q], Key(c))]
      BY <1>0, <1>1 DEF Begin
    <2>2. proc' \in Seq(ProcEntries)
      BY <1>0, <2>1, GotFrom
    <2>3. own' \in [Readers -> Seq(OwnEntries)]
      <3>1. Got(own[q], Key(c)) \in Seq(OwnEntries)
        BY <1>0, GotFrom
      <3> QED
        BY <1>0, <2>1, <3>1
    <2>4. reading' \in Builds /\ served' \in Builds
      <3>1. CASE Cached(q, c) # {}
        <4>1. PICK text \in Cached(q, c) : served' = Build(q, c, text) /\ reading' = reading
          BY <1>1, <3>1 DEF Begin
        <4>2. text \in Contents
          BY <2>1, HitIs
        <4> QED
          BY <1>0, <4>1, <4>2, BuildsAre
      <3>2. CASE Cached(q, c) = {}
        <4>1. reading' = Build(q, c, <<>>) /\ served' = served /\ <<>> \in Seq(Nat)
          BY <1>1, <3>2 DEF Begin
        <4> QED
          BY <1>0, <4>1, BuildsAre
      <3> QED
        BY <3>1, <3>2
    <2> QED
      BY <1>0, <1>t, <2>1, <2>2, <2>3, <2>4
  <1>2. CASE Fetch
    <2>1. PICK answer \in Replies(FileErrors) :
            LET x == <<Branch(reading.config), reading.config.files[Len(reading.versions) + 1]>>
            IN /\ reading' = ReadInto(reading, Content(answer, x), answer = "raised")
               /\ Answered(answer, x)
      BY <1>2 DEF Fetch, ReadInto
    <2>2. /\ UNCHANGED <<clock, provider, since, proc, own, orgs, request, served, hostEdits, reads>>
          /\ Len(reading.versions) < Len(reading.config.files)
      BY <1>2 DEF Fetch, caches
    <2> DEFINE c == reading.config
               n == Len(reading.versions) + 1
    <2>3. n \in 1 .. Len(c.files) /\ c.files \in Seq(Instructions)
      <3>1. reading.versions \in Seq(Nat) /\ c.files \in Seq(Instructions)
        BY <1>0, BuildHas
      <3> QED
        BY <2>2, <3>1
    <2>4. <<Branch(c), c.files[n]>> \in Places
      <3>1. Branch(c) \in Branches
        BY <1>0, BuildHas
      <3> QED
        BY <2>3, <3>1, PlaceOf
    <2>5. PICK x \in Places : x = <<Branch(c), c.files[n]>>
      BY <2>4
    <2>6. reading' = ReadInto(reading, Content(answer, x), answer = "raised") /\ Answered(answer, x)
      BY <2>1, <2>5
    <2>7. Content(answer, x) \in Nat /\ hidden' \in [Places -> SUBSET Nat] /\ faults' \in Nat
      BY <2>2, <2>6, RepliesIn, RepliesAre
    <2>8. reading' \in Builds
      <3>1. PICK v \in Nat : v = Content(answer, x)
        BY <2>7
      <3>2. PICK fails \in BOOLEAN : fails = (answer = "raised")
        OBVIOUS
      <3>3. reading' = ReadInto(reading, v, fails)
        BY <2>6, <3>1, <3>2
      <3> QED
        BY <1>0, <3>3, ReadOn DEF ReadsOn
    <2> QED
      BY <1>0, <1>t, <2>2, <2>7, <2>8
  <1>3. CASE Render
    <2> DEFINE c == reading.config
               q == reading.by
               text == Rendered(c.files, reading.versions, c.lines)
    <2>1. /\ UNCHANGED <<clock, provider, since, hidden, orgs, request, hostEdits, reads, faults>>
          /\ reading # NoBuild /\ reading' = NoBuild /\ served' = [reading EXCEPT !.text = text]
          /\ \/ UNCHANGED <<proc, own>>
             \/ /\ proc' = Put(proc, ProcessKey(request[q], c), text)
                /\ own' = [own EXCEPT ![q] = Put(own[q], Key(c), text)]
      BY <1>3 DEF Render
    <2>2. q \in Readers /\ request[q] \in PRs /\ c \in Configs /\ reading.versions \in Seq(Nat)
      BY <1>0, <2>1 DEF ReadingInv, ReadSoFar, Builds
    <2>3. /\ text \in Contents /\ Key(c) \in KeySet /\ ProcessKey(request[q], c) \in PRs \X KeySet
      BY <2>2, KeysAre
    <2> HIDE DEF c, q, text
    <2>4. /\ Entry(ProcessKey(request[q], c), text, clock + Ttl) \in ProcEntries
          /\ Entry(Key(c), text, clock + Ttl) \in OwnEntries
      BY <2>3, EntriesAre DEF ProcEntries, OwnEntries
    <2>5. proc' \in Seq(ProcEntries)
      BY <1>0, <2>1, <2>4, PutFrom
    <2>6. own' \in [Readers -> Seq(OwnEntries)]
      <3>1. Put(own[q], Key(c), text) \in Seq(OwnEntries)
        BY <1>0, <2>2, <2>4, PutFrom
      <3> QED
        BY <1>0, <2>1, <3>1
    <2>7. served' \in Builds /\ reading' \in Builds
      BY <1>0, <2>1, <2>3, Texted, NoBuildIs
    <2> QED
      BY <1>0, <1>t, <2>1, <2>5, <2>6, <2>7
  <1>4. ASSUME NEW q \in Readers, NEW p \in PRs, NEW large \in BOOLEAN, BeginRequest(q, p, large)
        PROVE  HostTypeOK'
    <2> DEFINE o == Org[p]
               x == <<o, "settings">>
               hits == {e \in orgs : e.key = o /\ Fresh(e)}
    <2>1. /\ UNCHANGED <<clock, provider, since, proc, own, reading, hostEdits, reads>>
          /\ request' = [request EXCEPT ![q] = p]
      BY <1>4 DEF BeginRequest
    <2>2. o \in Orgs /\ x \in Places
      BY DEF Orgs, Places
    <2>3. request' \in [Readers -> PRs \cup {Unset}]
      BY <1>0, <2>1
    <2>n. CASE ~KeepsSettings
      <3>1. UNCHANGED <<orgs, hidden, served, faults>>
        BY <1>4, <2>n DEF BeginRequest
      <3> QED
        BY <1>0, <1>t, <2>1, <2>3, <3>1
    <2>4. CASE KeepsSettings /\ hits # {}
      <3>1. PICK e \in orgs : served' = Told(q, o, e.value, FALSE) /\ UNCHANGED <<orgs, hidden, faults>>
        BY <1>4, <2>4 DEF BeginRequest
      <3>2. e.value \in Seq(Nat)
        BY <1>0 DEF CacheEntries
      <3>3. served' \in Builds
        BY <2>2, <3>1, <3>2, ToldAre
      <3> QED
        BY <1>0, <1>t, <2>1, <2>3, <3>1, <3>3
    <2>5. CASE KeepsSettings /\ hits = {}
      <3>1. PICK answer \in Replies(SettingsErrors) :
              LET b == Told(q, o, <<Content(answer, x)>>, answer = "raised")
              IN /\ served' = b
                 /\ Answered(answer, x)
                 /\ IF IsKept(b) /\ ~large
                    THEN orgs' \in Kept({e \in orgs : e.key # o} \cup {Entry(o, b.text, clock + Ttl)})
                    ELSE UNCHANGED orgs
        BY <1>4, <2>5 DEF BeginRequest
      <3>2. Content(answer, x) \in Nat /\ hidden' \in [Places -> SUBSET Nat] /\ faults' \in Nat
        BY <2>1, <2>2, <3>1, RepliesIn, RepliesAre
      <3>3. PICK v \in Seq(Nat) : v = <<Content(answer, x)>>
        <4>1. <<Content(answer, x)>> \in Seq(Nat)
          BY <3>2
        <4> QED
          BY <4>1
      <3>4. PICK failed \in BOOLEAN : failed = (answer = "raised")
        OBVIOUS
      <3>5. PICK b : b = Told(q, o, v, failed)
        OBVIOUS
      <3>6. orgs' \subseteq orgs \cup {Entry(o, b.text, clock + Ttl)} /\ served' = b
        BY <3>1, <3>3, <3>4, <3>5 DEF Kept
      <3>7. b \in Builds /\ b.text = v
        BY <2>2, <3>5, ToldAre
      <3>8. Entry(o, b.text, clock + Ttl) \in CacheEntries(Orgs, Seq(Nat))
        BY <2>2, <3>7, EntriesAre
      <3> QED
        BY <1>0, <1>t, <2>1, <2>3, <3>2, <3>6, <3>7, <3>8
    <2> QED
      BY <2>n, <2>4, <2>5
  <1>5. ASSUME NEW y \in Places, Edit(y)
        PROVE  HostTypeOK'
    <2>1. /\ UNCHANGED <<clock, provider, hidden, proc, own, orgs, request, reading, served, reads, faults>>
          /\ hostEdits < MaxHostEdits /\ hostEdits' = hostEdits + 1
          /\ since' = [since EXCEPT ![y] = Append(since[y], clock)]
      BY <1>5 DEF Edit, caches
    <2>2. hostEdits' \in 0 .. MaxHostEdits
      BY <1>0, <2>1, HostAssumption
    <2>3. Append(since[y], clock) \in Seq(Nat) /\ Len(Append(since[y], clock)) = Len(since[y]) + 1
      BY <1>0
    <2>4. since' \in [Places -> Seq(Nat)]
      BY <1>0, <2>1, <2>3
    <2>5. ASSUME NEW x \in Places PROVE Len(since'[x]) \in 1 .. hostEdits' + 1
      <3>1. Len(since'[x]) = Len(since[x]) \/ Len(since'[x]) = Len(since[x]) + 1
        BY <1>0, <2>1, <2>3
      <3>2. Len(since[x]) \in 1 .. hostEdits + 1
        BY <1>0
      <3> QED
        BY <1>0, <2>1, <3>1, <3>2
    <2> QED
      BY <1>0, <1>t, <2>1, <2>2, <2>4, <2>5
  <1>6. CASE Pass
    <2>1. UNCHANGED <<provider, since, hidden, proc, own, orgs, request, reading, hostEdits, reads, faults>>
      BY <1>6 DEF Pass, caches
    <2>2. clock' \in Nat /\ served' \in Builds
      BY <1>0, <1>6, NoBuildIs DEF Pass
    <2> QED
      BY <1>0, <1>t, <2>1, <2>2
  <1>7. CASE UNCHANGED hostVars
    BY <1>0, <1>7, <1>t DEF hostVars
  <1> QED
    BY <1>1, <1>2, <1>3, <1>4, <1>5, <1>6, <1>7 DEF HostNext

-----------------------------------------------------------------------------
(* HostFiles: what is read, kept and served.                               *)

LEMMA ReadPlaces ==
  ASSUME NEW b \in Builds, Len(b.versions) <= Len(b.config.files)
  PROVE  \A i \in DOMAIN b.versions : <<Branch(b.config), b.config.files[i]>> \in Places
  <1>1. b.versions \in Seq(Nat) /\ b.config.files \in Seq(Instructions) /\ Branch(b.config) \in Branches
    BY BuildHas
  <1>2. \A i \in DOMAIN b.versions : i \in 1 .. Len(b.config.files)
    BY <1>1
  <1> QED
    BY <1>1, <1>2, PlaceOf

LEMMA ReadStays ==
  ASSUME HostTypeOK, [HostNext]_hostVars, clock' = clock, NEW b \in Builds, ReadSoFar(b),
         request'[b.by] # Unset
  PROVE  ReadSoFar(b)'
  <1>1. ASSUME ~b.failed, NEW i \in DOMAIN b.versions
        PROVE  b.versions[i] \in HeldSince(<<Branch(b.config), b.config.files[i]>>, clock)'
    <2>1. <<Branch(b.config), b.config.files[i]>> \in Places
      BY ReadPlaces DEF ReadSoFar
    <2>2. b.versions[i] \in HeldSince(<<Branch(b.config), b.config.files[i]>>, clock)
      BY <1>1 DEF ReadSoFar
    <2>3. clock \in Int /\ clock <= clock
      BY ClockGoes
    <2>4. PICK t \in Int : t = clock
      BY <2>3
    <2>5. b.versions[i] \in HeldSince(<<Branch(b.config), b.config.files[i]>>, t)'
      BY <2>1, <2>2, <2>3, <2>4, HeldStays
    <2> QED
      BY <2>4, <2>5
  <1> QED
    BY <1>1 DEF ReadSoFar

\* What a request under way is, another request does not change.
LEMMA RequestsStay ==
  ASSUME HostTypeOK, [HostNext]_hostVars, NEW q \in Readers, request[q] # Unset
  PROVE  request'[q] = request[q]
  <1>1. request \in [Readers -> PRs \cup {Unset}]
    BY DEF HostTypeOK
  <1>2. CASE UNCHANGED request
    BY <1>2
  <1>3. ASSUME NEW r \in Readers, NEW p \in PRs, NEW large \in BOOLEAN, BeginRequest(r, p, large)
        PROVE  request'[q] = request[q]
    BY <1>1, <1>3 DEF BeginRequest
  <1> QED
    BY <1>2, <1>3 DEF HostNext, hostVars, Begin, Fetch, Render, Edit, Pass

LEMMA ReadingStep == HostTypeOK /\ ReadingInv /\ HostTypeOK' /\ [HostNext]_hostVars => ReadingInv'
  <1> SUFFICES ASSUME HostTypeOK, ReadingInv, HostTypeOK', [HostNext]_hostVars PROVE ReadingInv'
    OBVIOUS
  <1>0. reading # NoBuild => ReadSoFar(reading)
    BY DEF ReadingInv
  <1>r. ASSUME reading' # NoBuild, ReadSoFar(reading)' PROVE ReadingInv'
    BY <1>r DEF ReadingInv
  <1>n. ASSUME reading' = NoBuild PROVE ReadingInv'
    BY <1>n DEF ReadingInv
  <1>u. ASSUME reading' = reading, clock' = clock PROVE ReadingInv'
    <2>1. CASE reading = NoBuild
      BY <1>n, <1>u, <2>1
    <2>2. CASE reading # NoBuild
      <3>1. PICK b \in Builds : b = reading
        BY DEF HostTypeOK
      <3>2. ReadSoFar(b)
        BY <1>0, <2>2, <3>1
      <3>3. request'[b.by] # Unset
        BY <3>2, RequestsStay DEF ReadSoFar
      <3>4. ReadSoFar(b)'
        BY <1>u, <3>2, <3>3, ReadStays
      <3>5. ReadSoFar(reading)'
        BY <1>u, <3>1, <3>4 DEF ReadSoFar
      <3> QED
        BY <1>r, <1>u, <2>2, <3>5
    <2> QED
      BY <2>1, <2>2
  <1>1. ASSUME NEW q \in Readers, NEW c \in Configs, Begin(q, c)
        PROVE  ReadingInv'
    <2>1. request[q] # Unset /\ request' = request /\ clock' = clock
      BY <1>1 DEF Begin
    <2>2. CASE reading' = reading
      BY <1>u, <2>1, <2>2
    <2>3. CASE reading' = Build(q, c, <<>>)
      <3>1. /\ Build(q, c, <<>>).by = q /\ Build(q, c, <<>>).org = Unset /\ Build(q, c, <<>>).config = c
            /\ Build(q, c, <<>>).versions = <<>>
        BY DEF Build
      <3>2. c.files \in Seq(Instructions) /\ Len(<<>>) = 0 /\ DOMAIN <<>> = {}
        BY KeysAre
      <3>3. 0 <= Len(c.files)
        BY <3>2
      <3>4. ReadSoFar(reading)'
        BY <2>1, <2>3, <3>1, <3>2, <3>3 DEF ReadSoFar
      <3> QED
        BY <1>n, <1>r, <3>4
    <2> QED
      BY <1>1, <2>2, <2>3 DEF Begin
  <1>2. CASE Fetch
    <2> DEFINE c == reading.config
               n == Len(reading.versions) + 1
    <2>2. /\ UNCHANGED <<clock, since, request>> /\ reading # NoBuild
          /\ Len(reading.versions) < Len(c.files)
      BY <1>2 DEF Fetch
    <2>3. reading \in Builds /\ reading.versions \in Seq(Nat) /\ c.files \in Seq(Instructions)
          /\ Branch(c) \in Branches
      BY BuildHas DEF HostTypeOK
    <2>4. n \in 1 .. Len(c.files) /\ n <= Len(c.files)
      BY <2>2, <2>3
    <2>5. PICK x \in Places : x = <<Branch(c), c.files[n]>>
      BY <2>3, <2>4, PlaceOf
    <2>1. PICK answer \in Replies(FileErrors) :
            reading' = ReadInto(reading, Content(answer, x), answer = "raised") /\ Answered(answer, x)
      BY <1>2, <2>5 DEF Fetch, ReadInto
    <2>6. Content(answer, x) \in Nat /\ (answer # "raised" => Content(answer, x) \in HeldSince(x, clock)')
      BY <2>1, <2>2, RepliesIn, RepliesAre
    <2>7. PICK v \in Nat : v = Content(answer, x)
      BY <2>6
    <2>8. PICK fails \in BOOLEAN : fails = (answer = "raised")
      OBVIOUS
    <2>9. /\ reading'.by = reading.by /\ reading'.org = reading.org /\ reading'.config = c
          /\ reading'.versions = Append(reading.versions, v) /\ reading'.failed = (reading.failed \/ fails)
      <3>1. PICK r : r = reading'
        OBVIOUS
      <3>2. r = ReadInto(reading, v, fails)
        BY <2>1, <2>7, <2>8, <3>1
      <3>3. ReadsOn(r, reading, v, fails)
        BY <2>3, <3>2, ReadOn
      <3> QED
        BY <3>1, <3>3 DEF ReadsOn
    <2>10. /\ Len(reading'.versions) = n /\ DOMAIN reading'.versions = 1 .. n
           /\ reading'.versions[n] = v
           /\ \A i \in 1 .. n - 1 : reading'.versions[i] = reading.versions[i]
           /\ DOMAIN reading.versions = 1 .. n - 1 /\ n \in Nat \ {0}
      BY <2>3, <2>7, <2>9
    <2>11. ReadSoFar(reading)
      BY <1>0, <2>2
    <2> HIDE DEF n
    <2>13. ASSUME ~reading'.failed, NEW i \in DOMAIN reading'.versions
           PROVE  (reading.versions[i] \in HeldSince(<<Branch(reading.config), reading.config.files[i]>>, clock))'
      <3>1. PICK y : y = <<Branch(c), c.files[i]>>
        OBVIOUS
      <3>2. PICK w : w = reading'.versions[i]
        OBVIOUS
      <3>3. ~reading.failed /\ ~fails
        BY <2>9, <2>13
      <3>4. CASE i = n
        <4>1. w = v /\ y = x /\ v = Content(answer, x)
          BY <2>5, <2>7, <2>10, <3>1, <3>2, <3>4
        <4>2. answer # "raised"
          BY <2>8, <3>3
        <4>3. w \in HeldSince(y, clock)'
          BY <2>6, <4>1, <4>2
        <4>4. y = <<Branch(reading'.config), reading'.config.files[i]>>
          BY <2>9, <3>1
        <4> QED
          BY <3>2, <4>3, <4>4
      <3>5. CASE i \in 1 .. n - 1
        <4>1. w \in HeldSince(y, clock) /\ i \in DOMAIN reading.versions
          BY <2>10, <2>11, <3>1, <3>2, <3>3, <3>5 DEF ReadSoFar
        <4>2. y \in Places
          <5>1. i \in 1 .. Len(c.files)
            BY <2>3, <2>4, <2>10, <3>5
          <5> QED
            BY <2>3, <3>1, <5>1, PlaceOf
        <4>3. PICK t \in Int : t = clock /\ t <= clock
          BY ClockGoes
        <4>4. w \in HeldSince(y, t)'
          BY <4>1, <4>2, <4>3, HeldStays
        <4>5. t = clock'
          BY <2>2, <4>3
        <4>6. y = <<Branch(reading'.config), reading'.config.files[i]>>
          BY <2>9, <3>1
        <4> QED
          BY <3>2, <4>4, <4>5, <4>6
      <3> QED
        BY <2>10, <2>13, <3>4, <3>5
    <2>14. ReadSoFar(reading)'
      BY <2>2, <2>4, <2>9, <2>10, <2>11, <2>13 DEF ReadSoFar
    <2> QED
      BY <1>n, <1>r, <2>14
  <1>3. CASE Render
    BY <1>3, <1>n DEF Render
  <1>4. ASSUME NEW q \in Readers, NEW p \in PRs, NEW large \in BOOLEAN, BeginRequest(q, p, large)
        PROVE  ReadingInv'
    BY <1>4, <1>u DEF BeginRequest
  <1>5. ASSUME NEW y \in Places, Edit(y)
        PROVE  ReadingInv'
    BY <1>5, <1>u DEF Edit
  <1>6. CASE Pass
    BY <1>6, <1>n DEF Pass
  <1>7. CASE UNCHANGED hostVars
    BY <1>7, <1>u DEF hostVars
  <1> QED
    BY <1>1, <1>2, <1>3, <1>4, <1>5, <1>6, <1>7 DEF HostNext

\* What was read without an error, rendered, is a rendering of what is there now.
LEMMA Rendering ==
  ASSUME HostTypeOK, NEW b \in Builds, ReadSoFar(b), ~b.failed, Len(b.versions) = Len(b.config.files)
  PROVE  RenderedSince(Branch(b.config), b.config.files, b.config.lines,
                       Rendered(b.config.files, b.versions, b.config.lines), clock)
  <1> DEFINE f == b.config.files
             v == b.versions
  <1>1. v \in Seq(Nat) /\ f \in Seq(Instructions) /\ DOMAIN v = 1 .. Len(f)
    BY BuildHas
  <1>2. \A i \in 1 .. Len(f) : v[i] \in HeldSince(<<Branch(b.config), f[i]>>, clock)
    BY <1>1 DEF ReadSoFar
  <1>3. ASSUME NEW i \in 1 .. Len(f) PROVE v[i] \in 0 .. MaxHostEdits + 1
    <2>1. <<Branch(b.config), f[i]>> \in Places
      BY <1>1, BuildHas, PlaceOf
    <2>2. PICK x \in Places : x = <<Branch(b.config), f[i]>>
      BY <2>1
    <2>3. v[i] \in 0 .. Version(x) /\ Version(x) \in Nat /\ Version(x) <= MaxHostEdits + 1
      BY <1>2, <2>2, VersionsAre
    <2> QED
      BY <2>3, HostAssumption
  <1>4. v \in [1 .. Len(f) -> 0 .. MaxHostEdits + 1]
    BY <1>1, <1>3
  <1> QED
    BY <1>2, <1>4 DEF RenderedSince

LEMMA ProcStays ==
  ASSUME HostTypeOK, CachesInv, [HostNext]_hostVars, NEW j \in DOMAIN proc, NEW e, e = proc[j]
  PROVE  Alive(e, e.key[2])'
  <1>1. e \in ProcEntries
    BY DEF HostTypeOK, ProcEntries
  <1>2. e.until \in Int /\ e.key[2] \in KeySet
    BY <1>1 DEF ProcEntries, CacheEntries
  <1>3. Alive(e, e.key[2])
    BY DEF CachesInv
  <1> QED
    BY <1>2, <1>3, AliveStays

LEMMA OwnStays ==
  ASSUME HostTypeOK, CachesInv, [HostNext]_hostVars, NEW q \in Readers, NEW j \in DOMAIN own[q],
         NEW e, e = own[q][j]
  PROVE  Alive(e, e.key)'
  <1>1. e \in OwnEntries
    BY DEF HostTypeOK, OwnEntries
  <1>2. e.until \in Int /\ e.key \in KeySet
    BY <1>1 DEF OwnEntries, CacheEntries
  <1>3. Alive(e, e.key)
    BY DEF CachesInv
  <1> QED
    BY <1>2, <1>3, AliveStays

LEMMA OrgsStay ==
  ASSUME HostTypeOK, CachesInv, [HostNext]_hostVars, NEW e \in orgs
  PROVE  AliveSettings(e)'
  <1>1. e.until \in Int /\ e.key \in Orgs
    BY DEF HostTypeOK, CacheEntries
  <1> QED
    BY <1>1, AliveSettingsStay DEF CachesInv

LEMMA CachesStep == HostTypeOK /\ ReadingInv /\ CachesInv /\ [HostNext]_hostVars => CachesInv'
  <1> SUFFICES ASSUME HostTypeOK, ReadingInv, CachesInv, [HostNext]_hostVars PROVE CachesInv'
    OBVIOUS
  <1>0. /\ proc \in Seq(ProcEntries) /\ own \in [Readers -> Seq(OwnEntries)]
        /\ request \in [Readers -> PRs \cup {Unset}] /\ reading \in Builds
    BY DEF HostTypeOK, ProcEntries, OwnEntries
  <1>p. ASSUME \A i \in DOMAIN proc' : \/ \E j \in DOMAIN proc : proc'[i] = proc[j]
                                       \/ \A e : e = proc'[i] => Alive(e, e.key[2])'
        PROVE  \A i \in DOMAIN proc' : Alive(proc[i], proc[i].key[2])'
    <2> TAKE i \in DOMAIN proc'
    <2>1. PICK e : e = proc'[i]
      OBVIOUS
    <2>2. Alive(e, e.key[2])'
      BY <1>p, <2>1, ProcStays
    <2> QED
      BY <2>1, <2>2 DEF Alive
  <1>o. ASSUME NEW q \in Readers,
               \A i \in DOMAIN own'[q] : \/ \E j \in DOMAIN own[q] : own'[q][i] = own[q][j]
                                         \/ \A e : e = own'[q][i] => Alive(e, e.key)'
        PROVE  \A i \in DOMAIN own'[q] : Alive(own[q][i], own[q][i].key)'
    <2> TAKE i \in DOMAIN own'[q]
    <2>1. PICK e : e = own'[q][i]
      OBVIOUS
    <2>2. Alive(e, e.key)'
      BY <1>o, <2>1, OwnStays
    <2> QED
      BY <2>1, <2>2 DEF Alive
  <1>c. ASSUME \A i \in DOMAIN proc' : Alive(proc[i], proc[i].key[2])',
               \A q \in Readers : \A i \in DOMAIN own'[q] : Alive(own[q][i], own[q][i].key)',
               \A e \in orgs' : AliveSettings(e)'
        PROVE  CachesInv'
    BY <1>c DEF CachesInv
  <1>u. /\ UNCHANGED proc => \A i \in DOMAIN proc' : Alive(proc[i], proc[i].key[2])'
        /\ \A q \in Readers : own'[q] = own[q] => \A i \in DOMAIN own'[q] : Alive(own[q][i], own[q][i].key)'
        /\ UNCHANGED orgs => \A e \in orgs' : AliveSettings(e)'
    BY <1>p, <1>o, OrgsStay
  <1>1. ASSUME NEW q \in Readers, NEW c \in Configs, Begin(q, c)
        PROVE  CachesInv'
    <2> DEFINE k == ProcessKey(request[q], c)
    <2>1. proc' = Got(proc, k) /\ UNCHANGED orgs
      BY <1>1 DEF Begin
    <2>2. own' = own \/ own' = [own EXCEPT ![q] = Got(own[q], Key(c))]
      BY <1>1 DEF Begin
    <2>3. From(proc', proc)
      BY <1>0, <2>1, GotFrom
    <2>4. \A i \in DOMAIN proc' : Alive(proc[i], proc[i].key[2])'
      BY <1>p, <2>3 DEF From
    <2>5. ASSUME NEW r \in Readers PROVE \A i \in DOMAIN own'[r] : Alive(own[r][i], own[r][i].key)'
      <3>1. From(Got(own[q], Key(c)), own[q])
        BY <1>0, GotFrom
      <3>2. own'[r] = own[r] \/ (r = q /\ own'[r] = Got(own[q], Key(c)))
        BY <1>0, <2>2
      <3> QED
        BY <1>o, <1>u, <3>1, <3>2 DEF From
    <2> QED
      BY <1>c, <1>u, <2>1, <2>4, <2>5
  <1>2. CASE Fetch
    BY <1>2, <1>c, <1>u DEF Fetch, caches
  <1>3. CASE Render
    <2> DEFINE c == reading.config
               q == reading.by
               text == Rendered(c.files, reading.versions, c.lines)
               k == ProcessKey(request[q], c)
    <2>1. UNCHANGED orgs /\ UNCHANGED <<clock, since>> /\ reading # NoBuild
          /\ Len(reading.versions) = Len(c.files)
      BY <1>3 DEF Render
    <2>2. CASE UNCHANGED <<proc, own>>
      BY <1>c, <1>u, <2>1, <2>2
    <2>3. CASE /\ ~reading.failed
               /\ proc' = Put(proc, k, text) /\ own' = [own EXCEPT ![q] = Put(own[q], Key(c), text)]
      <3>1. q \in Readers /\ request[q] \in PRs /\ c \in Configs /\ reading.versions \in Seq(Nat) /\ ReadSoFar(reading)
        BY <1>0, <2>1 DEF ReadingInv, ReadSoFar, Builds
      <3>2. RenderedSince(Branch(c), c.files, c.lines, text, clock)
        BY <1>0, <2>1, <2>3, <3>1, Rendering
      <3>3. /\ text \in Contents /\ Key(c) \in KeySet /\ k \in PRs \X KeySet /\ k[2] = Key(c)
            /\ Key(c)[1] = c.files /\ Key(c)[2] = c.lines /\ Branch(c) \in Branches
        BY <3>1, KeysAre
      <3>4. ASSUME NEW e, e.until - Ttl = clock, e.value = text PROVE Alive(e, Key(c))
        <4>1. clock <= clock
          BY DEF HostTypeOK
        <4> QED
          BY <3>2, <3>3, <3>4, <4>1 DEF Alive, Branches
      <3> HIDE DEF c, q, text, k
      <3>5. PICK x \in KeySet : x = Key(c)
        BY <3>3
      <3>6. ASSUME NEW e, e.until \in Int, e.until - Ttl = clock, e.value = text PROVE Alive(e, x)'
        BY <3>4, <3>5, <3>6, AliveStays
      <3> DEFINE a == Entry(k, text, clock + Ttl)
                 b == Entry(Key(c), text, clock + Ttl)
      <3>7. /\ a \in ProcEntries /\ a.key = k /\ a.value = text /\ a.until - Ttl = clock /\ a.until \in Int
            /\ b \in OwnEntries /\ b.key = Key(c) /\ b.value = text /\ b.until - Ttl = clock /\ b.until \in Int
        <4>1. a \in ProcEntries /\ b \in OwnEntries
          BY <3>3, EntriesAre DEF ProcEntries, OwnEntries
        <4> QED
          BY <4>1, EntryHas
      <3>8. /\ \A i \in DOMAIN Put(proc, k, text) :
                 Put(proc, k, text)[i] = a \/ \E j \in DOMAIN proc : Put(proc, k, text)[i] = proc[j]
            /\ \A i \in DOMAIN Put(own[q], Key(c), text) :
                 \/ Put(own[q], Key(c), text)[i] = b
                 \/ \E j \in DOMAIN own[q] : Put(own[q], Key(c), text)[i] = own[q][j]
        BY <1>0, <3>1, <3>7, PutFrom
      <3> HIDE DEF a, b
      <3>9. \A e : (e = a => Alive(e, e.key[2])') /\ (e = b => Alive(e, e.key)')
        <4> TAKE e
        <4>1. e = a => e.key[2] = x /\ Alive(e, x)'
          BY <3>3, <3>5, <3>6, <3>7
        <4>2. e = b => e.key = x /\ Alive(e, x)'
          BY <3>3, <3>5, <3>6, <3>7
        <4> QED
          BY <4>1, <4>2
      <3>10. \A i \in DOMAIN proc' : Alive(proc[i], proc[i].key[2])'
        BY <1>p, <2>3, <3>8, <3>9
      <3>11. ASSUME NEW r \in Readers PROVE \A i \in DOMAIN own'[r] : Alive(own[r][i], own[r][i].key)'
        <4>1. own'[r] = own[r] \/ (r = q /\ own'[r] = Put(own[q], Key(c), text))
          BY <1>0, <2>3
        <4> QED
          BY <1>o, <1>u, <3>8, <3>9, <4>1
      <3> QED
        BY <1>c, <1>u, <2>1, <3>10, <3>11
    <2> QED
      BY <1>3, <2>2, <2>3 DEF Render, IsKept
  <1>4. ASSUME NEW q \in Readers, NEW p \in PRs, NEW large \in BOOLEAN, BeginRequest(q, p, large)
        PROVE  CachesInv'
    <2> DEFINE o == Org[p]
               x == <<o, "settings">>
               hits == {e \in orgs : e.key = o /\ Fresh(e)}
    <2>1. UNCHANGED <<clock, since, proc, own>>
      BY <1>4 DEF BeginRequest
    <2>2. CASE UNCHANGED orgs
      BY <1>c, <1>u, <2>1, <2>2
    <2>3. CASE ~UNCHANGED orgs
      <3>1. PICK answer \in Replies(SettingsErrors) :
              LET b == Told(q, o, <<Content(answer, x)>>, answer = "raised")
              IN /\ IsKept(b) /\ Answered(answer, x)
                 /\ orgs' \in Kept({e \in orgs : e.key # o} \cup {Entry(o, b.text, clock + Ttl)})
        BY <1>4, <2>3 DEF BeginRequest
      <3>2. o \in Orgs /\ x \in Places
        BY DEF Orgs, Places
      <3>3. Content(answer, x) \in Nat /\ (answer # "raised" => Content(answer, x) \in HeldSince(x, clock)')
        BY <2>1, <3>1, <3>2, RepliesIn, RepliesAre
      <3> DEFINE n == Entry(o, <<Content(answer, x)>>, clock + Ttl)
      <3>4. answer # "raised" /\ orgs' \subseteq orgs \cup {n}
        BY <3>1 DEF Told, IsKept, Kept
      <3>5. /\ n.key = o /\ n.value = <<Content(answer, x)>> /\ n.until - Ttl = clock
            /\ n.until \in Int
        BY EntryHas
      <3> HIDE DEF n
      <3>7. ASSUME NEW e, e = n PROVE AliveSettings(e)'
        <4>1. e.value[1] \in HeldSince(<<e.key, "settings">>, e.until - Ttl)'
          BY <2>1, <3>3, <3>4, <3>5, <3>7
        <4>2. e.until - Ttl <= clock'
          BY <2>1, <3>5, <3>7 DEF HostTypeOK
        <4> QED
          BY <4>1, <4>2 DEF AliveSettings
      <3>8. \A e \in orgs' : AliveSettings(e)'
        BY <3>4, <3>7, OrgsStay
      <3> QED
        BY <1>c, <1>u, <2>1, <3>8
    <2> QED
      BY <2>2, <2>3
  <1>5. ASSUME NEW y \in Places, Edit(y)
        PROVE  CachesInv'
    BY <1>5, <1>c, <1>u DEF Edit, caches
  <1>6. CASE Pass
    BY <1>6, <1>c, <1>u DEF Pass, caches
  <1>7. CASE UNCHANGED hostVars
    BY <1>7, <1>c, <1>u DEF hostVars
  <1> QED
    BY <1>1, <1>2, <1>3, <1>4, <1>5, <1>6, <1>7 DEF HostNext

-----------------------------------------------------------------------------
(* HostFiles: HeldLately, of what a request may be given.                  *)

Rendition(s) ==
  \E b \in Branches : RenderedSince(b, s.config.files, s.config.lines, s.text, clock - Ttl + 1)
Held(s) ==
  s # NoBuild /\ ~s.failed =>
    IF s.org # Unset THEN s.text[1] \in Lately(<<s.org, "settings">>) ELSE Rendition(s)

LEMMA HeldIs == HeldLately <=> Held(served)
  BY DEF HeldLately, Held, Settings, FromBranch, Rendition, Branches

LEMMA LatelyIs ==
  ASSUME HostTypeOK
  PROVE  clock - Ttl + 1 \in Int /\ clock - Ttl + 1 <= clock /\ clock \in Int
  <1>1. clock \in Nat /\ Ttl \in Nat \ {0}
    BY HostAssumption DEF HostTypeOK
  <1> QED
    BY <1>1

LEMMA HeldStill ==
  ASSUME HostTypeOK, [HostNext]_hostVars, clock' = clock, NEW s \in Builds, Held(s)
  PROVE  Held(s)'
  <1> SUFFICES ASSUME s # NoBuild, ~s.failed
               PROVE  IF s.org # Unset THEN (s.text[1] \in Lately(<<s.org, "settings">>))' ELSE Rendition(s)'
    BY DEF Held, NoBuild
  <1>0. PICK t \in Int : t = clock - Ttl + 1 /\ t <= clock
    BY LatelyIs
  <1>1. CASE s.org # Unset
    <2>1. s.org \in Orgs
      BY <1>1 DEF Builds
    <2>2. <<s.org, "settings">> \in Places
      BY <2>1 DEF Places
    <2>3. s.text[1] \in HeldSince(<<s.org, "settings">>, t)
      BY <1>0, <1>1 DEF Held, Lately
    <2>4. s.text[1] \in HeldSince(<<s.org, "settings">>, t)'
      BY <1>0, <2>2, <2>3, HeldStays
    <2> QED
      BY <1>0, <1>1, <2>4 DEF Lately
  <1>2. CASE s.org = Unset
    <2>1. PICK b \in Branches : RenderedSince(b, s.config.files, s.config.lines, s.text, t)
      BY <1>0, <1>2 DEF Held, Rendition
    <2>2. RenderedSince(b, s.config.files, s.config.lines, s.text, t)'
      BY <1>0, <2>1, BuildHas, RenderedStays
    <2> QED
      BY <1>0, <1>2, <2>2 DEF Rendition
  <1> QED
    BY <1>1, <1>2

LEMMA HeldLongerThen ==
  ASSUME HostTypeOK', NEW x \in Places, NEW t \in Int, NEW u \in Int, t <= u
  PROVE  HeldSince(x, u)' \subseteq HeldSince(x, t)'
  <1>1. \A v \in 1 .. Version(x)' : v # Version(x)' => since'[x][v + 1] \in Nat
    BY DEF HostTypeOK, Version
  <1>2. hidden'[x] \subseteq Nat
    BY DEF HostTypeOK
  <1> SUFFICES ASSUME NEW v \in HeldSince(x, u)' PROVE v \in HeldSince(x, t)'
    OBVIOUS
  <1>3. CASE v \in 1 .. Version(x)' /\ v = Version(x)'
    BY <1>3 DEF HeldSince
  <1>4. CASE v \in 1 .. Version(x)' /\ v # Version(x)' /\ since'[x][v + 1] >= u
    <2>1. since'[x][v + 1] >= t
      BY <1>1, <1>4
    <2> QED
      BY <1>4, <2>1 DEF HeldSince
  <1>5. CASE v = 0 /\ \E z \in hidden'[x] : z >= u
    <2>1. PICK z \in hidden'[x] : z >= u
      BY <1>5
    <2>2. z >= t
      BY <1>2, <2>1
    <2> QED
      BY <1>5, <2>1, <2>2 DEF HeldSince
  <1> QED
    BY <1>3, <1>4, <1>5 DEF HeldSince

LEMMA HeldStep ==
  HostTypeOK /\ ReadingInv /\ CachesInv /\ HeldLately /\ HostTypeOK' /\ [HostNext]_hostVars => HeldLately'
  <1> SUFFICES ASSUME HostTypeOK, ReadingInv, CachesInv, HeldLately, HostTypeOK', [HostNext]_hostVars
               PROVE  HeldLately'
    OBVIOUS
  <1>0. reading \in Builds /\ served \in Builds /\ served' \in Builds /\ Held(served)
    BY HeldIs DEF HostTypeOK
  <1>n. ASSUME NEW s \in Builds, served' = s, Held(s)' PROVE HeldLately'
    BY <1>n DEF HeldLately, Held, Settings, FromBranch, Rendition, Branches
  <1>s. ASSUME clock' = clock, NEW s \in Builds, served' = s, Held(s) PROVE HeldLately'
    BY <1>n, <1>s, HeldStill
  <1>u. ASSUME clock' = clock, served' = served PROVE HeldLately'
    <2>1. PICK s \in Builds : s = served
      BY <1>0
    <2> QED
      BY <1>0, <1>s, <1>u, <2>1
  <1>t. clock - Ttl + 1 \in Int /\ clock - Ttl + 1 <= clock /\ clock \in Int /\ Ttl \in Nat
    BY LatelyIs, HostAssumption
  <1>1. ASSUME NEW q \in Readers, NEW c \in Configs, Begin(q, c)
        PROVE  HeldLately'
    <2>1. clock' = clock /\ request[q] # Unset
      BY <1>1 DEF Begin
    <2>2. CASE UNCHANGED served
      BY <1>u, <2>1, <2>2
    <2>3. CASE \E text \in Cached(q, c) : served' = Build(q, c, text)
      <3>1. PICK text \in Cached(q, c) : served' = Build(q, c, text)
        BY <2>3
      <3>2. text \in Contents
        BY <2>1, HitIs
      <3>3. PICK e \in ProcEntries \cup OwnEntries :
              e.until \in Int /\ e.value = text /\ e.until > clock /\ Alive(e, Key(c))
        BY <2>1, HitIs
      <3>4. PICK b \in Branches : RenderedSince(b, c.files, c.lines, text, e.until - Ttl)
        BY <3>3, KeysAre DEF Alive, Branches
      <3>5. e.until - Ttl \in Int /\ clock - Ttl + 1 <= e.until - Ttl
        BY <1>t, <3>3
      <3>6. RenderedSince(b, c.files, c.lines, text, clock - Ttl + 1)
        BY <1>t, <3>4, <3>5, KeysAre, RenderedLonger
      <3>7. PICK s : s = Build(q, c, text)
        OBVIOUS
      <3>8. s \in Builds /\ s.org = Unset /\ s.config = c /\ s.text = text
        BY <3>2, <3>7, BuildsAre
      <3>9. Held(s)
        BY <3>6, <3>8 DEF Held, Rendition
      <3> QED
        BY <1>s, <2>1, <3>1, <3>7, <3>8, <3>9
    <2> QED
      BY <1>1, <2>2, <2>3 DEF Begin
  <1>2. CASE Fetch
    BY <1>2, <1>u DEF Fetch
  <1>3. CASE Render
    <2> DEFINE c == reading.config
               text == Rendered(c.files, reading.versions, c.lines)
    <2>1. /\ clock' = clock /\ reading # NoBuild /\ served' = [reading EXCEPT !.text = text]
          /\ Len(reading.versions) = Len(c.files)
      BY <1>3 DEF Render
    <2>2. ReadSoFar(reading)
      BY <2>1 DEF ReadingInv
    <2>3. reading.org = Unset /\ c \in Configs /\ reading.versions \in Seq(Nat) /\ reading \in Builds
      BY <1>0, <2>2 DEF ReadSoFar, Builds
    <2>4. c.files \in Seq(Instructions) /\ Branch(c) \in Branches /\ text \in Contents
      BY <2>3, KeysAre
    <2>5. ~reading.failed => RenderedSince(Branch(c), c.files, c.lines, text, clock)
      BY <2>1, <2>2, <2>3, Rendering
    <2>6. ~reading.failed => RenderedSince(Branch(c), c.files, c.lines, text, clock - Ttl + 1)
      BY <1>t, <2>4, <2>5, RenderedLonger
    <2> HIDE DEF text
    <2>7. PICK s : s = [reading EXCEPT !.text = text]
      OBVIOUS
    <2>8. s \in Builds /\ s.org = Unset /\ s.config = c /\ s.text = text /\ s.failed = reading.failed
      BY <2>3, <2>4, <2>7, Texted
    <2>9. Held(s)
      BY <2>4, <2>6, <2>8 DEF Held, Rendition
    <2> QED
      BY <1>s, <2>1, <2>7, <2>8, <2>9
  <1>4. ASSUME NEW q \in Readers, NEW p \in PRs, NEW large \in BOOLEAN, BeginRequest(q, p, large)
        PROVE  HeldLately'
    <2> DEFINE o == Org[p]
               x == <<o, "settings">>
               hits == {e \in orgs : e.key = o /\ Fresh(e)}
    <2>1. clock' = clock
      BY <1>4 DEF BeginRequest
    <2>2. o \in Orgs /\ x \in Places /\ o # Unset
      BY HostAssumption DEF Orgs, Places
    <2>r. ASSUME NEW text \in Seq(Nat), NEW failed \in BOOLEAN, served' = Told(q, o, text, failed),
                 failed \/ text[1] \in Lately(x)'
          PROVE  HeldLately'
      <3>1. PICK s : s = Told(q, o, text, failed)
        OBVIOUS
      <3>2. s \in Builds /\ s.org = o /\ s.failed = failed /\ s.text = text
        BY <2>2, <3>1, ToldAre
      <3>3. Held(s)'
        BY <2>2, <2>r, <3>2 DEF Held
      <3> QED
        BY <1>n, <2>r, <3>1, <3>2, <3>3
    <2>n. CASE ~KeepsSettings
      BY <1>4, <1>u, <2>1, <2>n DEF BeginRequest
    <2>3. CASE KeepsSettings /\ hits # {}
      <3>1. PICK e \in orgs : served' = Told(q, o, e.value, FALSE) /\ e.key = o /\ e.until > clock
        BY <1>4, <2>3 DEF BeginRequest, Fresh
      <3>2. e.value \in Seq(Nat) /\ e.until \in Int
        BY DEF HostTypeOK, CacheEntries
      <3>3. e.value[1] \in HeldSince(x, e.until - Ttl)
        BY <3>1 DEF CachesInv, AliveSettings
      <3>4. e.until - Ttl \in Int /\ clock - Ttl + 1 <= e.until - Ttl
        BY <1>t, <3>1, <3>2
      <3>5. PICK t \in Int : t = clock - Ttl + 1 /\ t <= clock
        BY <1>t
      <3>6. e.value[1] \in HeldSince(x, t)
        BY <2>2, <3>3, <3>4, <3>5, HeldLonger
      <3>7. e.value[1] \in HeldSince(x, t)'
        BY <2>2, <3>5, <3>6, HeldStays
      <3>8. e.value[1] \in Lately(x)'
        BY <2>1, <3>5, <3>7 DEF Lately
      <3> QED
        BY <2>r, <3>1, <3>2, <3>8
    <2>4. CASE KeepsSettings /\ hits = {}
      <3>1. PICK answer \in Replies(SettingsErrors) :
              served' = Told(q, o, <<Content(answer, x)>>, answer = "raised") /\ Answered(answer, x)
        BY <1>4, <2>4 DEF BeginRequest
      <3>2. UNCHANGED <<clock, since>>
        BY <1>4 DEF BeginRequest
      <3>3. Content(answer, x) \in Nat /\ (answer # "raised" => Content(answer, x) \in HeldSince(x, clock)')
        BY <2>2, <3>1, <3>2, RepliesIn, RepliesAre
      <3>4. PICK v \in Nat : v = Content(answer, x)
        BY <3>3
      <3>5. PICK text \in Seq(Nat) : text = <<v>>
        <4>1. <<v>> \in Seq(Nat)
          OBVIOUS
        <4> QED
          BY <4>1
      <3>6. PICK failed \in BOOLEAN : failed = (answer = "raised")
        OBVIOUS
      <3>7. served' = Told(q, o, text, failed) /\ text[1] = v
        BY <3>1, <3>4, <3>5, <3>6
      <3>8. ~failed => v \in Lately(x)'
        <4>1. PICK t \in Int : t = clock - Ttl + 1 /\ t <= clock
          BY <1>t
        <4>2. ~failed => v \in HeldSince(x, clock)'
          BY <3>3, <3>4, <3>6
        <4>3. PICK u \in Int : u = clock'
          BY <2>1, <1>t
        <4>4. ~failed => v \in HeldSince(x, u)'
          BY <4>2, <4>3
        <4>5. HeldSince(x, u)' \subseteq HeldSince(x, t)'
          <5>1. t <= u
            BY <2>1, <4>1, <4>3
          <5> QED
            BY <2>2, <5>1, HeldLongerThen
        <4> QED
          BY <2>1, <4>1, <4>4, <4>5 DEF Lately
      <3> QED
        BY <2>r, <3>7, <3>8
    <2> QED
      BY <2>n, <2>3, <2>4
  <1>5. ASSUME NEW y \in Places, Edit(y)
        PROVE  HeldLately'
    BY <1>5, <1>u DEF Edit
  <1>6. CASE Pass
    BY <1>6 DEF Pass, HeldLately
  <1>7. CASE UNCHANGED hostVars
    BY <1>7, <1>u DEF hostVars
  <1> QED
    BY <1>1, <1>2, <1>3, <1>4, <1>5, <1>6, <1>7 DEF HostNext

-----------------------------------------------------------------------------
(* HostFiles: the theorems.                                                *)

HostInv == HostTypeOK /\ ReadingInv /\ CachesInv /\ HeldLately

LEMMA InitHostInv == HostInit => HostInv
  <1> SUFFICES ASSUME HostInit PROVE HostInv
    OBVIOUS
  <1>1. /\ clock = 0 /\ since = [x \in Places |-> <<0>>]
        /\ provider \in Providers /\ hidden = [x \in Places |-> {}]
        /\ proc = <<>> /\ own = [q \in Readers |-> <<>>] /\ orgs = {}
        /\ request = [q \in Readers |-> Unset]
        /\ reading = NoBuild /\ served = NoBuild
        /\ hostEdits = 0 /\ reads = 0 /\ faults = 0
    BY DEF HostInit
  <1>2. /\ since \in [Places -> Seq(Nat)] /\ hidden \in [Places -> SUBSET Nat]
        /\ \A x \in Places : Version(x) \in 1 .. hostEdits + 1
    BY <1>1 DEF Version
  <1>3. /\ proc \in Seq(ProcEntries) /\ own \in [Readers -> Seq(OwnEntries)]
        /\ request \in [Readers -> PRs \cup {Unset}] /\ hostEdits \in 0 .. MaxHostEdits
    BY <1>1, HostAssumption
  <1>4. HostTypeOK
    BY <1>1, <1>2, <1>3, NoBuildIs DEF HostTypeOK, ProcEntries, OwnEntries
  <1>5. ReadingInv /\ CachesInv /\ HeldLately
    BY <1>1 DEF ReadingInv, CachesInv, HeldLately
  <1> QED
    BY <1>4, <1>5 DEF HostInv

LEMMA HostInvStep == HostInv /\ [HostNext]_hostVars => HostInv'
  BY HostTypeStep, ReadingStep, CachesStep, HeldStep DEF HostInv

\* The versions of the host's files, the entries of the three caches, the read
\* under way and what was served keep their types; in particular what a cache
\* holds of instruction files is always a rendering of some of them
\* (src/pr_agent/algo/repo_context.py).
THEOREM HostTypeCorrect == HostSpec => []HostTypeOK
  <1>1. HostInv => HostTypeOK
    BY DEF HostInv
  <1> QED
    BY <1>1, InitHostInv, HostInvStep, PTL DEF HostSpec

\* Whatever the host, the sizes of the caches, the time an entry lives, and
\* however the requests, their configurations, the host's errors and its edits
\* interleave: a request that met no error that was raised is given settings, or
\* the rendering of its instruction files, as the host answered less than an
\* entry's life ago, where an error that the provider hides is an answer that
\* there is no file (src/pr_agent/git_providers/github_provider.py:983-1006,
\* azuredevops_provider.py:357-379).
THEOREM LatelyHeld == HostSpec => []HeldLately
  <1>1. HostInv => HeldLately
    BY DEF HostInv
  <1> QED
    BY <1>1, InitHostInv, HostInvStep, PTL DEF HostSpec

(***************************************************************************)
(* SimilarIssues.                                                          *)

ExampleId(r) == <<"example", r>>
ListedLines == [issue : Nat, repo : Repositories, comment : Nat]
Moments == {"idle", "scan", "update", "query"}

\* A record is its repository's marker, or one of its issues' or comments'.
IsRecord(s) ==
  /\ s.repo \in Repositories
  /\ \/ s.id = ExampleId(s.repo)
     \/ \E n \in 1 .. opened[s.repo] : s.id = IssueId(n)
     \/ \E n \in 1 .. opened[s.repo] : \E j \in 1 .. MaxIssues : s.id = CommentId(n, j)

IndexTypes ==
  /\ opened \in [Repositories -> Nat]
  /\ at \in [Repositories -> Moments]
  /\ list \in [Repositories -> SUBSET Nat]
  /\ published \in [Repositories -> Seq(ListedLines)]
  /\ \A r \in Repositories : list[r] \subseteq 1 .. opened[r]
  /\ \A s \in stored : IsRecord(s)

Alone(r) == opened[r] < MaxScan /\ \A s \in stored : s.repo = r

\* A repository that has records has its marker, which no other replaces.
EachMarked == \A s \in stored : \E m \in stored : m.id = ExampleId(s.repo) /\ m.repo = s.repo

\* What a run is about to store leaves no gaps either.
Continues ==
  \A r \in Repositories : at[r] = "update" /\ Alone(r) =>
    \A n \in list[r] : 1 .. n \subseteq Indexed(r) \cup list[r] \cup TooLong

IndexInv == IndexTypes /\ EachMarked /\ Continues /\ NoGaps /\ OwnIssues

LEMMA Ids ==
  /\ \A n : IssueId(n)[1] = "issue" /\ IssueId(n)[2] = n
  /\ \A n, j : CommentId(n, j)[1] = "comment" /\ CommentId(n, j)[2] = n /\ CommentId(n, j)[3] = j
  /\ \A r : ExampleId(r)[1] = "example" /\ ExampleId(r)[2] = r
  BY DEF IssueId, CommentId, ExampleId

LEMMA InitIndex == IssuesInit => IndexInv
  <1> SUFFICES ASSUME IssuesInit
               PROVE  IndexInv
    OBVIOUS
  <1>1. stored = {} /\ at = [r \in Repositories |-> "idle"] /\ opened = [r \in Repositories |-> 0]
        /\ list = [r \in Repositories |-> {}] /\ published = [r \in Repositories |-> <<>>]
    BY DEF IssuesInit
  <1>2. <<>> \in Seq(ListedLines)
    OBVIOUS
  <1>3. IndexTypes
    BY <1>1, <1>2 DEF IndexTypes, Moments
  <1>4. EachMarked
    BY <1>1 DEF EachMarked
  <1>5. Continues
    BY <1>1 DEF Continues
  <1>6. NoGaps
    BY <1>1 DEF NoGaps, Indexed
  <1>7. \A r \in Repositories : published[r] = <<>>
    BY <1>1
  <1>8. OwnIssues
    BY <1>7 DEF OwnIssues
  <1> QED
    BY <1>3, <1>4, <1>5, <1>6, <1>8 DEF IndexInv

\* Steps that change neither the records nor the issues.
LEMMA IndexKept ==
  ASSUME IndexInv, UNCHANGED <<opened, stored, published>>,
         at' \in [Repositories -> Moments],
         list' \in [Repositories -> SUBSET Nat], \A r \in Repositories : list'[r] \subseteq 1 .. opened[r],
         \A r \in Repositories : at'[r] = "update" /\ Alone(r) =>
           \A n \in list'[r] : 1 .. n \subseteq Indexed(r) \cup list'[r] \cup TooLong
  PROVE  IndexInv'
  <1>1. \A r : Indexed(r)' = Indexed(r) /\ (Alone(r)' <=> Alone(r))
    BY DEF Indexed, Alone
  <1>2. IndexTypes'
    BY DEF IndexInv, IndexTypes, IsRecord
  <1>3. EachMarked'
    BY DEF IndexInv, EachMarked
  <1>4. Continues'
    BY <1>1 DEF Continues
  <1>5. NoGaps'
    BY <1>1 DEF IndexInv, NoGaps
  <1>6. OwnIssues'
    BY DEF IndexInv, OwnIssues
  <1> QED
    BY <1>2, <1>3, <1>4, <1>5, <1>6 DEF IndexInv

LEMMA ConnectIndexes == ASSUME IndexInv, NEW r \in Repositories, Connect(r) PROVE IndexInv'
  <1>1. UNCHANGED <<opened, stored, published, list>>
    BY DEF Connect
  <1>2. at' \in [Repositories -> Moments] /\ at'[r] # "update"
        /\ \A q \in Repositories \ {r} : at'[q] = at[q]
    <2>1. PICK force \in BOOLEAN : at' = [at EXCEPT ![r] = IF Mode(r, force) = "raises" THEN "idle" ELSE "scan"]
      BY DEF Connect
    <2> QED
      BY <2>1 DEF IndexInv, IndexTypes, Moments
  <1> QED
    BY <1>1, <1>2, IndexKept DEF IndexInv, IndexTypes, Continues

LEMMA ScanIndexes == ASSUME IndexInv, NEW r \in Repositories, Scan(r) PROVE IndexInv'
  <1> DEFINE full == 1 .. opened[r]
  <1>1. UNCHANGED <<opened, stored, published>> /\ opened[r] \in Nat
    BY DEF Scan, IndexInv, IndexTypes
  <1>2. Unknown(r) = {n \in full : \A k \in Indexed(r) : k < n}
    BY DEF Unknown, Indexed
  <1>3. /\ at' \in [Repositories -> Moments]
        /\ \A q \in Repositories \ {r} : at'[q] = at[q]
    BY DEF Scan, IndexInv, IndexTypes, Moments
  <1>4. /\ list' = [list EXCEPT ![r] = IF mode[r] = "full" THEN 1 .. opened[r] ELSE Unknown(r)]
        /\ list \in [Repositories -> SUBSET Nat]
    BY DEF Scan, IndexInv, IndexTypes
  <1>5. list'[r] = full \/ list'[r] = Unknown(r)
    BY <1>4
  <1>6. \A q \in Repositories \ {r} : list'[q] = list[q]
    BY <1>4
  <1>7. list' \in [Repositories -> SUBSET Nat]
    BY <1>1, <1>2, <1>4
  <1>8. \A q \in Repositories : list'[q] \subseteq 1 .. opened[q]
    BY <1>2, <1>5, <1>6 DEF IndexInv, IndexTypes
  <1>9. ASSUME Alone(r), NEW n \in list'[r], NEW m \in 1 .. n
        PROVE  m \in Indexed(r) \cup list'[r] \cup TooLong
    <2>1. n \in full /\ m \in full /\ n \in Nat /\ m \in Nat /\ m <= n
      BY <1>1, <1>2, <1>5
    <2>2. CASE list'[r] = full
      BY <2>1, <2>2
    <2>3. CASE list'[r] = Unknown(r)
      <3>1. CASE m \in Unknown(r)
        BY <2>3, <3>1
      <3>2. CASE m \notin Unknown(r)
        <4>1. PICK k \in Indexed(r) : ~(k < m)
          BY <1>2, <2>1, <3>2
        <4>2. k \in full
          BY <4>1 DEF Indexed
        <4>3. m \in 1 .. k
          BY <1>1, <2>1, <4>1, <4>2
        <4>4. 1 .. k \subseteq Indexed(r) \cup TooLong
          BY <1>9, <4>1 DEF IndexInv, NoGaps, Alone
        <4> QED
          BY <4>3, <4>4
      <3> QED
        BY <3>1, <3>2
    <2> QED
      BY <1>5, <2>2, <2>3
  <1>10. \A q \in Repositories : at'[q] = "update" /\ Alone(q) =>
           \A n \in list'[q] : 1 .. n \subseteq Indexed(q) \cup list'[q] \cup TooLong
    <2> SUFFICES ASSUME NEW q \in Repositories, at'[q] = "update", Alone(q), NEW n \in list'[q]
                 PROVE  1 .. n \subseteq Indexed(q) \cup list'[q] \cup TooLong
      OBVIOUS
    <2>1. CASE q = r
      BY <1>9, <2>1
    <2>2. CASE q # r
      BY <1>3, <1>6, <2>2 DEF IndexInv, Continues
    <2> QED
      BY <2>1, <2>2
  <1> QED
    BY <1>1, <1>3, <1>7, <1>8, <1>10, IndexKept

LEMMA RunFailsIndexes == ASSUME IndexInv, NEW r \in Repositories, RunFails(r) PROVE IndexInv'
  <1>1. UNCHANGED <<opened, stored, published, list>>
    BY DEF RunFails
  <1>2. at' \in [Repositories -> Moments] /\ at'[r] # "update"
        /\ \A q \in Repositories \ {r} : at'[q] = at[q]
    BY DEF RunFails, IndexInv, IndexTypes, Moments
  <1> QED
    BY <1>1, <1>2, IndexKept DEF IndexInv, IndexTypes, Continues

\* An issue is opened: no record is of it yet.
LEMMA OpenIndexes == ASSUME IndexInv, NEW r \in Repositories, Open(r) PROVE IndexInv'
  <1>1. UNCHANGED <<at, stored, published, list>> /\ opened' = [opened EXCEPT ![r] = @ + 1]
    BY DEF Open
  <1>2. opened \in [Repositories -> Nat]
    BY DEF IndexInv, IndexTypes
  <1>3. /\ opened' \in [Repositories -> Nat]
        /\ \A q \in Repositories : opened[q] <= opened'[q]
    BY <1>1, <1>2
  <1>4. \A q \in Repositories : 1 .. opened[q] \subseteq 1 .. opened'[q]
    BY <1>2, <1>3
  <1>5. \A q \in Repositories : Alone(q)' => Alone(q)
    BY <1>1, <1>2, <1>3, IndexBounds DEF Alone
  <1>6. \A q \in Repositories : Indexed(q)' = Indexed(q)
    <2> SUFFICES ASSUME NEW q \in Repositories
                 PROVE  Indexed(q)' = Indexed(q)
      OBVIOUS
    <2>1. Indexed(q) \subseteq Indexed(q)'
      BY <1>1, <1>4 DEF Indexed
    <2>2. ASSUME NEW n \in Indexed(q)'
          PROVE  n \in Indexed(q)
      <3>1. PICK s \in stored : s.id = IssueId(n) /\ s.repo = q
        BY <1>1 DEF Indexed
      <3>2. IsRecord(s)
        BY DEF IndexInv, IndexTypes
      <3>3. s.id[1] = "issue" /\ s.id[2] = n
        BY <3>1, Ids
      <3>4. n \in 1 .. opened[q]
        <4>1. s.id # ExampleId(q) /\ \A k, j : s.id # CommentId(k, j)
          BY <3>3, Ids
        <4>2. PICK k \in 1 .. opened[q] : s.id = IssueId(k)
          BY <3>1, <3>2, <4>1 DEF IsRecord
        <4>3. s.id[2] = k
          BY <4>2, Ids
        <4> QED
          BY <3>3, <4>2, <4>3
      <3> QED
        BY <3>1, <3>4 DEF Indexed
    <2> QED
      BY <2>1, <2>2
  <1>7. IndexTypes'
    <2>1. \A q \in Repositories : list'[q] \subseteq 1 .. opened'[q]
      BY <1>1, <1>4 DEF IndexInv, IndexTypes
    <2>2. ASSUME NEW s \in stored
          PROVE  IsRecord(s)'
      <3>1. IsRecord(s)
        BY DEF IndexInv, IndexTypes
      <3> QED
        BY <1>4, <3>1 DEF IsRecord
    <2> QED
      BY <1>1, <1>3, <2>1, <2>2 DEF IndexInv, IndexTypes
  <1>8. EachMarked'
    BY <1>1 DEF IndexInv, EachMarked
  <1>9. Continues'
    BY <1>1, <1>5, <1>6 DEF IndexInv, Continues
  <1>10. NoGaps'
    <2> SUFFICES ASSUME NEW q \in Repositories, Alone(q)', NEW n \in Indexed(q)'
                 PROVE  1 .. n \subseteq Indexed(q)' \cup TooLong
      BY DEF NoGaps, Alone
    <2>1. Alone(q) /\ n \in Indexed(q)
      BY <1>5, <1>6
    <2>2. 1 .. n \subseteq Indexed(q) \cup TooLong
      BY <2>1 DEF IndexInv, NoGaps, Alone
    <2> QED
      BY <1>6, <2>2
  <1>11. OwnIssues'
    BY <1>1, <1>4 DEF IndexInv, OwnIssues
  <1> QED
    BY <1>7, <1>8, <1>9, <1>10, <1>11 DEF IndexInv
\* What an update stores: the marker and the issues that are not too long, all
\* of them while they are fewer than the scan takes.
LEMMA CorpusIs ==
  ASSUME IndexTypes, NEW r \in Repositories, NEW embedded
  PROVE  LET X == Real(Corpus(r, list[r], embedded))
         IN /\ \A x \in X : x.repo = r /\ IsRecord(x)
            /\ \A x \in X : \A q : x.id = ExampleId(q) => q = r
            /\ \A x \in X : \A n : x.id = IssueId(n) => n \in list[r]
            /\ \E m \in X : m.id = ExampleId(r) /\ m.repo = r
            /\ opened[r] < MaxScan => \A n \in list[r] \ TooLong : \E x \in X : x.id = IssueId(n) /\ x.repo = r
  <1> DEFINE issues == list[r]
             taken == {n \in issues : Cardinality({m \in issues : m >= n}) < MaxScan}
             fits == taken \ TooLong
             A == {[id |-> IssueId(n), repo |-> r, embedded |-> embedded] : n \in fits}
             B == {[id |-> CommentId(n, j), repo |-> r, embedded |-> embedded] : n \in fits, j \in 1 .. MaxIssues}
             X == Real(Corpus(r, issues, embedded))
  <1>1. issues \subseteq 1 .. opened[r] /\ opened[r] \in Nat /\ fits \subseteq issues
    BY DEF IndexTypes
  <1>2. X = {s \in {Marker(r)} \cup A \cup B : s.id[1] = "comment" => s.id[3] <= Comments[s.id[2]]}
    BY DEF Real, Corpus
  <1>3. Marker(r).id = ExampleId(r) /\ Marker(r).repo = r
    BY DEF Marker, ExampleId
  <1> HIDE DEF X, fits, taken, issues
  <1>4. ASSUME NEW a \in A
        PROVE  a.repo = r /\ \E n \in fits : a.id = IssueId(n)
    <2>1. PICK n \in fits : a = [id |-> IssueId(n), repo |-> r, embedded |-> embedded]
      OBVIOUS
    <2> QED
      BY <2>1
  <1>5. ASSUME NEW b \in B
        PROVE  b.repo = r /\ \E n \in fits : \E j \in 1 .. MaxIssues : b.id = CommentId(n, j)
    <2>1. PICK n \in fits, j \in 1 .. MaxIssues : b = [id |-> CommentId(n, j), repo |-> r, embedded |-> embedded]
      OBVIOUS
    <2> QED
      BY <2>1
  <1>6. ASSUME NEW n \in fits
        PROVE  \E a \in A : a.id = IssueId(n) /\ a.repo = r
    <2> DEFINE a == [id |-> IssueId(n), repo |-> r, embedded |-> embedded]
    <2>1. a \in A /\ a.id = IssueId(n) /\ a.repo = r
      OBVIOUS
    <2> QED
      BY <2>1
  <1>7. opened[r] < MaxScan => fits = issues \ TooLong
    <2>1. ASSUME opened[r] < MaxScan, NEW n \in issues
          PROVE  n \in taken
      <3> DEFINE U == {m \in issues : m >= n}
                 top == opened[r]
      <3>1. IsFiniteSet(1 .. top) /\ Cardinality(1 .. top) = top
        <4>1. top \in Nat
          BY <1>1
        <4> HIDE DEF top
        <4> QED
          BY <4>1, FS_Interval
      <3>2. U \in SUBSET (1 .. opened[r])
        BY <1>1
      <3> HIDE DEF U
      <3>3. IsFiniteSet(U) /\ Cardinality(U) <= opened[r]
        BY <3>1, <3>2, FS_Subset
      <3>4. Cardinality(U) \in Nat
        BY <3>3, FS_CardinalityType
      <3>5. Cardinality(U) < MaxScan
        BY <1>1, <2>1, <3>3, <3>4, IndexBounds
      <3> QED
        BY <3>5 DEF U, taken
    <2> QED
      BY <2>1 DEF fits, taken
  <1> HIDE DEF A, B
  <1>8. \A x \in X : x = Marker(r) \/ x \in A \/ x \in B
    BY <1>2
  <1>9. \A x \in X : x.repo = r
    BY <1>3, <1>4, <1>5, <1>8
  <1>10. ASSUME NEW x \in X
         PROVE  IsRecord(x)
    BY <1>1, <1>3, <1>4, <1>5, <1>8 DEF IsRecord
  <1>11. ASSUME NEW x \in X, NEW q, x.id = ExampleId(q)
         PROVE  q = r
    <2>1. x.id[1] = "example" /\ x.id[2] = q
      BY <1>11, Ids
    <2>2. x \notin A /\ x \notin B
      BY <1>4, <1>5, <2>1, Ids
    <2>3. x.id = ExampleId(r)
      BY <1>3, <1>8, <2>2
    <2> QED
      BY <2>1, <2>3, Ids
  <1>12. ASSUME NEW x \in X, NEW n, x.id = IssueId(n)
         PROVE  n \in issues
    <2>1. x.id[1] = "issue" /\ x.id[2] = n
      BY <1>12, Ids
    <2>2. x # Marker(r) /\ x \notin B
      BY <1>3, <1>5, <2>1, Ids
    <2>3. PICK k \in fits : x.id = IssueId(k)
      BY <1>4, <1>8, <2>2
    <2> QED
      BY <1>1, <2>1, <2>3, Ids
  <1>13. Marker(r) \in X
    BY <1>2, <1>3, Ids
  <1>14. ASSUME NEW a \in A
         PROVE  a \in X
    <2>1. a.id[1] = "issue"
      BY <1>4, Ids
    <2> QED
      BY <1>2, <2>1
  <1>15. \A n \in fits : \E x \in X : x.id = IssueId(n) /\ x.repo = r
    BY <1>6, <1>14
  <1>16. /\ \A x \in X : x.repo = r /\ IsRecord(x)
         /\ \A x \in X : \A q : x.id = ExampleId(q) => q = r
         /\ \A x \in X : \A n : x.id = IssueId(n) => n \in issues
         /\ \E m \in X : m.id = ExampleId(r) /\ m.repo = r
         /\ opened[r] < MaxScan => \A n \in issues \ TooLong : \E x \in X : x.id = IssueId(n) /\ x.repo = r
    BY <1>3, <1>7, <1>9, <1>10, <1>11, <1>12, <1>13, <1>15
  <1> QED
    BY <1>16 DEF X, issues

LEMMA StoreIndexes == ASSUME IndexInv, NEW r \in Repositories, Store(r) PROVE IndexInv'
  <1>1. UNCHANGED <<opened, published, list>>
    BY DEF Store
  <1>2. at' \in [Repositories -> Moments] /\ at'[r] # "update"
        /\ \A q \in Repositories \ {r} : at'[q] = at[q]
    BY DEF Store, IndexInv, IndexTypes, Moments
  <1>3. CASE UNCHANGED stored
    BY <1>1, <1>2, <1>3, IndexKept DEF IndexInv, IndexTypes, Continues
  <1>4. CASE ~UNCHANGED stored
    <2>1. PICK embedded \in BOOLEAN : stored' = Upsert(Real(Corpus(r, list[r], embedded)))
      BY <1>4 DEF Store
    <2> DEFINE X == Real(Corpus(r, list[r], embedded))
    <2>2. /\ \A x \in X : x.repo = r /\ IsRecord(x)
          /\ \A x \in X : \A q : x.id = ExampleId(q) => q = r
          /\ \A x \in X : \A n : x.id = IssueId(n) => n \in list[r]
          /\ \E m \in X : m.id = ExampleId(r) /\ m.repo = r
          /\ opened[r] < MaxScan => \A n \in list[r] \ TooLong : \E x \in X : x.id = IssueId(n) /\ x.repo = r
      BY CorpusIs DEF IndexInv
    <2>3. stored' = {s \in stored : \A x \in X : x.id # s.id} \cup X
      BY <2>1 DEF Upsert
    <2> HIDE DEF X
    <2>4. /\ X \subseteq stored'
          /\ \A s \in stored' : s \in stored \/ s \in X
          /\ \A s \in stored : s \in stored' \/ \E x \in X : x.id = s.id
      BY <2>3
    <2>5. IndexTypes'
      <3>1. \A s : IsRecord(s)' <=> IsRecord(s)
        BY <1>1 DEF IsRecord
      <3> QED
        BY <1>1, <1>2, <2>2, <2>4, <3>1 DEF IndexInv, IndexTypes
    <2>6. EachMarked'
      <3> SUFFICES ASSUME NEW s \in stored'
                   PROVE  \E m \in stored' : m.id = ExampleId(s.repo) /\ m.repo = s.repo
        BY DEF EachMarked
      <3>1. CASE s \in X
        BY <2>2, <2>4, <3>1
      <3>2. CASE s \in stored
        <4>1. PICK m \in stored : m.id = ExampleId(s.repo) /\ m.repo = s.repo
          BY <3>2 DEF IndexInv, EachMarked
        <4>2. CASE m \in stored'
          BY <4>1, <4>2
        <4>3. CASE m \notin stored'
          <5>1. PICK x \in X : x.id = m.id
            BY <2>4, <4>3
          <5>2. s.repo = r
            BY <2>2, <4>1, <5>1
          <5> QED
            BY <2>2, <2>4, <5>2
        <4> QED
          BY <4>2, <4>3
      <3> QED
        BY <2>4, <3>1, <3>2
    <2>7. ASSUME NEW q \in Repositories, Alone(q)'
          PROVE  q = r /\ Alone(r)
      <3>1. q = r
        BY <2>2, <2>4, <2>7 DEF Alone
      <3>2. ASSUME NEW s \in stored
            PROVE  s.repo = r
        <4>1. PICK m \in stored : m.id = ExampleId(s.repo) /\ m.repo = s.repo
          BY DEF IndexInv, EachMarked
        <4>2. CASE m \in stored'
          BY <2>7, <3>1, <4>1, <4>2 DEF Alone
        <4>3. CASE m \notin stored'
          <5>1. PICK x \in X : x.id = m.id
            BY <2>4, <4>3
          <5> QED
            BY <2>2, <4>1, <5>1
        <4> QED
          BY <4>2, <4>3
      <3> QED
        BY <1>1, <2>7, <3>1, <3>2 DEF Alone
    <2>8. Continues'
      <3> SUFFICES ASSUME NEW q \in Repositories, at'[q] = "update", Alone(q)'
                   PROVE  FALSE
        BY DEF Continues
      <3> QED
        BY <1>2, <2>7
    <2>9. Indexed(r) \subseteq Indexed(r)'
      <3> SUFFICES ASSUME NEW n \in Indexed(r)
                   PROVE  n \in Indexed(r)'
        OBVIOUS
      <3>1. PICK s \in stored : s.id = IssueId(n) /\ s.repo = r
        BY DEF Indexed
      <3>2. n \in 1 .. opened'[r]
        BY <1>1 DEF Indexed
      <3>3. \E t \in stored' : t.id = IssueId(n) /\ t.repo = r
        BY <2>2, <2>4, <3>1
      <3> QED
        BY <3>2, <3>3 DEF Indexed
    <2>10. Alone(r) => list[r] \ TooLong \subseteq Indexed(r)'
      <3> SUFFICES ASSUME Alone(r), NEW n \in list[r] \ TooLong
                   PROVE  n \in Indexed(r)'
        OBVIOUS
      <3>1. \E x \in X : x.id = IssueId(n) /\ x.repo = r
        BY <2>2 DEF Alone
      <3>2. n \in 1 .. opened'[r]
        BY <1>1 DEF IndexInv, IndexTypes
      <3> QED
        BY <2>4, <3>1, <3>2 DEF Indexed
    <2>11. Indexed(r)' \subseteq Indexed(r) \cup list[r]
      <3> SUFFICES ASSUME NEW n \in Indexed(r)'
                   PROVE  n \in Indexed(r) \cup list[r]
        OBVIOUS
      <3>1. PICK s \in stored' : s.id = IssueId(n) /\ s.repo = r
        BY DEF Indexed
      <3>2. n \in 1 .. opened[r]
        BY <1>1 DEF Indexed
      <3> QED
        BY <2>2, <2>4, <3>1, <3>2 DEF Indexed
    <2>12. NoGaps'
      <3> SUFFICES ASSUME NEW q \in Repositories, Alone(q)', NEW n \in Indexed(q)'
                   PROVE  1 .. n \subseteq Indexed(q)' \cup TooLong
        BY DEF NoGaps, Alone
      <3>1. q = r /\ Alone(r)
        BY <2>7
      <3>2. 1 .. n \subseteq Indexed(r) \cup list[r] \cup TooLong
        <4>1. CASE n \in Indexed(r)
          BY <3>1, <4>1 DEF IndexInv, NoGaps, Alone
        <4>2. CASE n \in list[r]
          <5>1. at[r] = "update"
            BY DEF Store
          <5> QED
            BY <3>1, <4>2, <5>1 DEF IndexInv, Continues
        <4> QED
          BY <2>11, <3>1, <4>1, <4>2
      <3> QED
        BY <2>9, <2>10, <3>1, <3>2
    <2>13. OwnIssues'
      BY <1>1 DEF IndexInv, OwnIssues
    <2> QED
      BY <2>5, <2>6, <2>8, <2>12, <2>13 DEF IndexInv
  <1> QED
    BY <1>3, <1>4

\* A list of similar issues names issues of the repository, each of them once.
LEMMA ListedIs ==
  ASSUME IndexTypes, NEW r \in Repositories, NEW itself, NEW hits \in Answers(r, itself)
  PROVE  /\ Listed(r, hits) \in Seq(ListedLines)
         /\ \A i, j \in DOMAIN Listed(r, hits) :
              /\ Listed(r, hits)[i].issue \in 1 .. opened[r]
              /\ i # j => Listed(r, hits)[i].issue # Listed(r, hits)[j].issue
  <1> DEFINE N == Nearest(r, itself)
             fresh == {i \in DOMAIN hits : \A j \in DOMAIN hits : j < i => hits[j].id[2] # hits[i].id[2]}
             issues == Picked(hits, fresh)
             c == Cardinality(fresh)
             up == Ascending(fresh)
             line(i) == [issue |-> issues[i].id[2], repo |-> r,
                         comment |-> IF hits[i].id[1] = "comment" THEN hits[i].id[3] ELSE 0]
  <1>1. PICK k \in 0 .. TopK : hits \in [1 .. k -> N]
    BY DEF Answers
  <1>2. k \in Nat
    BY <1>1, IndexBounds
  <1>3. \A s \in N : /\ s.id[2] \in 1 .. opened[r] /\ s.id[2] \in Nat
                     /\ s.id[1] = "comment" => s.id[3] \in Nat
    <2> SUFFICES ASSUME NEW s \in N
                 PROVE  /\ s.id[2] \in 1 .. opened[r] /\ s.id[2] \in Nat
                        /\ s.id[1] = "comment" => s.id[3] \in Nat
      OBVIOUS
    <2>1. s \in stored /\ s.repo = r /\ s.id[1] # "example"
      BY DEF Nearest, Mine
    <2>2. IsRecord(s) /\ opened[r] \in Nat
      BY <2>1 DEF IndexTypes
    <2>3. s.id # ExampleId(r)
      BY <2>1, Ids
    <2>4. CASE \E n \in 1 .. opened[r] : s.id = IssueId(n)
      BY <2>2, <2>4, Ids
    <2>5. CASE \E n \in 1 .. opened[r] : \E j \in 1 .. MaxIssues : s.id = CommentId(n, j)
      BY <2>2, <2>5, Ids
    <2> QED
      BY <2>1, <2>2, <2>3, <2>4, <2>5 DEF IsRecord
  <1>4. hits \in Seq(N) /\ DOMAIN hits = 1 .. k
    BY <1>1, <1>2
  <1>5. fresh \in SUBSET DOMAIN hits
    OBVIOUS
  <1>6. \A i, j \in fresh : i < j => hits[i].id[2] # hits[j].id[2]
    OBVIOUS
  <1> HIDE DEF N, fresh
  <1>7. /\ c \in Nat /\ issues \in Seq(N) /\ DOMAIN issues = 1 .. c
        /\ \A n \in 1 .. c : up[n] \in fresh /\ issues[n] = hits[up[n]]
    BY <1>4, <1>5, PickedType
  <1>8. fresh \in SUBSET Int /\ IsFiniteSet(fresh)
    BY <1>4, <1>5, PositionsType
  <1>9. /\ up \in [1 .. c -> fresh]
        /\ \A m, n \in 1 .. c : m < n => up[m] < up[n]
    BY <1>8, Ascends
  <1>10. Listed(r, hits) = [i \in 1 .. c |-> line(i)]
    BY <1>7 DEF Listed, fresh
  <1> HIDE DEF issues, c, up
  <1>11. \A i \in 1 .. c : issues[i] \in N
    BY <1>7
  <1>12. \A i \in 1 .. c : i \in 1 .. k
    <2> SUFFICES ASSUME NEW i \in 1 .. c
                 PROVE  i \in 1 .. k
      OBVIOUS
    <2>1. c <= k
      <3>1. IsFiniteSet(1 .. k) /\ Cardinality(1 .. k) = k
        BY <1>2, FS_Interval
      <3>2. fresh \in SUBSET (1 .. k)
        BY <1>4, <1>5
      <3> QED
        BY <3>1, <3>2, FS_Subset DEF c
    <2> QED
      BY <1>2, <1>7, <2>1
  <1>13. \A i \in 1 .. c : hits[i] \in N
    BY <1>1, <1>12
  <1>14. ASSUME NEW i \in 1 .. c
         PROVE  line(i) \in ListedLines /\ line(i).issue = issues[i].id[2] /\ line(i).issue \in 1 .. opened[r]
    <2> DEFINE p == issues[i]
               h == hits[i]
    <2>a. p \in N /\ h \in N
      BY <1>11, <1>13
    <2> HIDE DEF p, h
    <2>b. p.id[2] \in Nat /\ p.id[2] \in 1 .. opened[r]
      BY <1>3, <2>a
    <2>c. (IF h.id[1] = "comment" THEN h.id[3] ELSE 0) \in Nat
      BY <1>3, <2>a
    <2>1. issues[i].id[2] \in Nat /\ issues[i].id[2] \in 1 .. opened[r]
      BY <2>b DEF p
    <2>2. (IF hits[i].id[1] = "comment" THEN hits[i].id[3] ELSE 0) \in Nat
      BY <2>c DEF h
    <2>3. line(i).issue = issues[i].id[2]
      OBVIOUS
    <2> QED
      BY <2>1, <2>2, <2>3 DEF ListedLines
  <1> HIDE DEF line
  <1> DEFINE l == Listed(r, hits)
  <1>15. l \in Seq(ListedLines) /\ DOMAIN l = 1 .. c /\ \A i \in 1 .. c : l[i] = line(i)
    <2>1. l = [i \in 1 .. c |-> line(i)]
      BY <1>10
    <2> HIDE DEF l
    <2> QED
      BY <1>7, <1>14, <2>1
  <1>16. ASSUME NEW i \in 1 .. c, NEW j \in 1 .. c, i # j
         PROVE  issues[i].id[2] # issues[j].id[2]
    <2>1. i < j \/ j < i
      BY <1>7, <1>16
    <2>2. up[i] < up[j] \/ up[j] < up[i]
      BY <1>9, <2>1
    <2>3. hits[up[i]].id[2] # hits[up[j]].id[2]
      BY <1>6, <1>7, <2>2
    <2> QED
      BY <1>7, <2>3
  <1> HIDE DEF l
  <1>17. \A i, j \in DOMAIN l : l[i].issue \in 1 .. opened[r] /\ (i # j => l[i].issue # l[j].issue)
    BY <1>14, <1>15, <1>16
  <1> QED
    BY <1>15, <1>17 DEF l

LEMMA QueryIndexes == ASSUME IndexInv, NEW r \in Repositories, Query(r) PROVE IndexInv'
  <1>1. UNCHANGED <<opened, stored, list>>
    BY DEF Query
  <1>2. at' \in [Repositories -> Moments] /\ at'[r] # "update"
        /\ \A q \in Repositories \ {r} : at'[q] = at[q]
    BY DEF Query, IndexInv, IndexTypes, Moments
  <1>a. PICK itself \in 1 .. opened[r] : \E hits \in Answers(r, itself) :
          published' = [published EXCEPT ![r] = IF Linkable(Listed(r, hits)) THEN Listed(r, hits) ELSE @]
    BY DEF Query
  <1>3. PICK hits \in Answers(r, itself) :
          published' = [published EXCEPT ![r] = IF Linkable(Listed(r, hits)) THEN Listed(r, hits) ELSE @]
    BY <1>a
  <1> DEFINE l == Listed(r, hits)
  <1>4. /\ l \in Seq(ListedLines)
        /\ \A i, j \in DOMAIN l : l[i].issue \in 1 .. opened[r] /\ (i # j => l[i].issue # l[j].issue)
    BY ListedIs DEF IndexInv
  <1>5. published' = [published EXCEPT ![r] = IF Linkable(l) THEN l ELSE published[r]]
    BY <1>3
  <1> HIDE DEF l
  <1>6. published \in [Repositories -> Seq(ListedLines)]
    BY DEF IndexInv, IndexTypes
  <1>7. published' \in [Repositories -> Seq(ListedLines)]
    BY <1>4, <1>5, <1>6
  <1>8. /\ \A q \in Repositories \ {r} : published'[q] = published[q]
        /\ published'[r] = l \/ published'[r] = published[r]
    BY <1>5, <1>6
  <1>9. OwnIssues'
    <2>1. ASSUME NEW q \in Repositories, NEW i \in DOMAIN published'[q], NEW j \in DOMAIN published'[q]
          PROVE  /\ published'[q][i].issue \in 1 .. opened'[q]
                 /\ i # j => published'[q][i].issue # published'[q][j].issue
      <3>1. CASE published'[q] = published[q]
        BY <1>1, <3>1 DEF IndexInv, OwnIssues
      <3>2. CASE q = r /\ published'[q] = l
        BY <1>1, <1>4, <3>2
      <3> QED
        BY <1>8, <3>1, <3>2
    <2> QED
      BY <2>1 DEF OwnIssues
  <1>10. \A q : Indexed(q)' = Indexed(q) /\ (Alone(q)' <=> Alone(q))
    BY <1>1 DEF Indexed, Alone
  <1>11. IndexTypes'
    BY <1>1, <1>2, <1>7 DEF IndexInv, IndexTypes, IsRecord
  <1>12. EachMarked'
    BY <1>1 DEF IndexInv, EachMarked
  <1>13. Continues'
    BY <1>1, <1>2, <1>10 DEF IndexInv, Continues
  <1>14. NoGaps'
    BY <1>1, <1>10 DEF IndexInv, NoGaps, Alone
  <1> QED
    BY <1>9, <1>11, <1>12, <1>13, <1>14 DEF IndexInv

\* For any repositories, issues, stores, overlapping runs and failures: the index
\* of a repository that has a store of its own, and fewer issues than a scan
\* takes, has no gaps, and a list of similar issues names the repository's own
\* and none twice.
THEOREM TheIndexIsSound == IssuesSpec => []IndexIsSound
  <1>1. IndexInv /\ [IssuesNext]_issueVars => IndexInv'
    <2> SUFFICES ASSUME IndexInv, [IssuesNext]_issueVars
                 PROVE  IndexInv'
      OBVIOUS
    <2>1. ASSUME NEW r \in Repositories,
                 Connect(r) \/ Scan(r) \/ Store(r) \/ Query(r) \/ RunFails(r) \/ Open(r)
          PROVE  IndexInv'
      BY <2>1, ConnectIndexes, ScanIndexes, StoreIndexes, QueryIndexes, RunFailsIndexes, OpenIndexes
    <2>2. CASE UNCHANGED issueVars
      <3>1. UNCHANGED <<opened, stored, published, at, list>>
        BY <2>2 DEF issueVars
      <3> QED
        BY <3>1, IndexKept DEF IndexInv, IndexTypes, Continues
    <2> QED
      BY <2>1, <2>2 DEF IssuesNext
  <1>2. IndexInv => IndexIsSound
    BY DEF IndexInv, IndexIsSound
  <1> QED
    BY <1>1, <1>2, InitIndex, PTL DEF IssuesSpec
=============================================================================
