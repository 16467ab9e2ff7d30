---------------------------- MODULE HandlerProofs ----------------------------
(***************************************************************************)
(* Proofs about what the handler of litellm leaves in the process, for any *)
(* number of requests, calls and tasks, any settings, retries and times:   *)
(* whose keys a call is made with (ProviderKeys), what arguments it has,   *)
(* whatever the model (CallParams), and what is lost of the callbacks at   *)
(* exit (CallbackDrain); and about what a request was told of the          *)
(* dashboard before (DashboardStore), for any edits, outages and times.    *)
(***************************************************************************)
EXTENDS DashboardStore, ProviderKeys, CallParams, CallbackDrain, FiniteSetTheorems, TLAPS

-----------------------------------------------------------------------------
(* Types, and what an action does to the call it is of.                    *)

LEMMA OverType == Unsent \in Sent /\ Over \in CallRecords
  BY DEF Over, Unsent, CallRecords, Sent, Keys, Bases, Credentials

LEMMA InitTypes == Init => TypeOK
  BY OverType DEF Init, TypeOK, Keys, Bases, Credentials, Handlers

\* The settings of a request are among those there may be.
LEMMA ConfigOf ==
  ASSUME TypeOK, NEW q \in Requests
  PROVE  /\ config[q] \in Configs
         /\ config[q].openai \in Keys /\ config[q].branch \in Keys /\ config[q].base \in Bases
         /\ config[q].ambient \in BOOLEAN /\ config[q].static \in BOOLEAN
  BY ConfigTypes DEF TypeOK, Keys, Bases

\* An action of call i changes that call, and no other one.
Touches(i, r) == call' = [call EXCEPT ![i] = r]

LEMMA TouchedTypes ==
  ASSUME TypeOK, NEW i \in Ids, NEW r \in CallRecords, Touches(i, r)
  PROVE  /\ call' \in [Ids -> CallRecords] /\ call'[i] = r
         /\ \A j \in Ids : j # i => call'[j] = call[j]
  BY DEF TypeOK, Touches

LEMMA TouchedCall ==
  ASSUME TypeOK, NEW q \in Requests, NEW c \in Calls, NEW r \in CallRecords, Touches(<<q, c>>, r)
  PROVE  /\ call'[<<q, c>>] = r
         /\ \A p \in Requests, d \in Calls : p # q \/ d # c => call'[<<p, d>>] = call[<<p, d>>]
  BY DEF TypeOK, Touches, Ids

LEMMA BuildTypes ==
  ASSUME TypeOK, NEW q \in Requests, Build(q)
  PROVE  TypeOK'
  <1>1. OpenAiKey(q) \in Keys /\ BranchKey(q) \in Keys /\ Aws(q) \in Credentials
    BY ConfigOf DEF OpenAiKey, BranchKey, Dropped, Aws, TypeOK, Keys, Credentials
  <1>2. handler' \in [Requests -> Handlers]
    BY ConfigOf DEF Build, TypeOK, Handlers
  <1> QED
    BY <1>1, <1>2, ConfigOf DEF Build, TypeOK

Prepared(r, aws, key) ==
  [st |-> "prepared", tries |-> r.tries + 1, prepared |-> aws, sent |-> r.sent, key |-> key]

LEMMA PreparedType ==
  ASSUME NEW r \in CallRecords, NEW aws \in Credentials, NEW key \in Keys
  PROVE  Prepared(r, aws, key) \in CallRecords
  BY DEF Prepared, CallRecords

\* What is prepared: credentials that are those of the environment then, and
\* the key that litellm holds.
PreparedWith(q, c, aws, key) ==
  /\ env' = aws /\ (aws # env => wrote' = q) /\ wrote' \in {q, wrote}
  /\ key \in {None, apiKey}
  /\ Touches(<<q, c>>, Prepared(call[<<q, c>>], aws, key))

LEMMA PrepareEffect ==
  ASSUME TypeOK, NEW q \in Requests, NEW c \in Calls, NEW refreshed \in BOOLEAN, Prepare(q, c, refreshed)
  PROVE  /\ \E aws \in Credentials, key \in Keys : PreparedWith(q, c, aws, key)
         /\ ~Ambient(q) => env' = env
         /\ handler' \in [Requests -> Handlers]
         /\ \A p \in Requests : /\ handler'[p].built = handler[p].built
                                /\ handler'[p].imds = handler[p].imds
         /\ handler[q].built /\ call[<<q, c>>].st = "ready"
         /\ Ambient(q) => Free(q) /\ lock' = [lock EXCEPT ![q] = c]
         /\ ~Ambient(q) => lock' = lock
         /\ UNCHANGED <<config, apiKey, openaiKey, globalBase, last>>
  <1> DEFINE i == <<q, c>>
             refresh == Ambient(q) /\ ~handler[q].fellBack
             back == refresh /\ ~refreshed /\ config[q].static
             aws == IF ~refresh THEN env ELSE IF refreshed THEN "ambient" ELSE IF back THEN "static" ELSE env
             key == IF config[q].model = "databricks" THEN None ELSE apiKey
  <1>1. aws \in Credentials /\ key \in Keys /\ key \in {None, apiKey}
    BY DEF TypeOK, Credentials, Keys
  <1>2. /\ env' = aws
        /\ wrote' = IF aws # env \/ (refresh /\ refreshed) THEN q ELSE wrote
        /\ call' = [call EXCEPT ![i] = Prepared(call[i], aws, key)]
        /\ handler' = [handler EXCEPT ![q].fellBack = @ \/ back]
    BY DEF Prepare, Prepared
  <1>3. ~Ambient(q) => env' = env
    BY <1>2
  <1>4. handler' \in [Requests -> Handlers] /\ \A p \in Requests : /\ handler'[p].built = handler[p].built
                                                                  /\ handler'[p].imds = handler[p].imds
    <2>1. back \in BOOLEAN
      BY ConfigOf
    <2> HIDE DEF back
    <2> QED
      BY <1>2, <2>1 DEF TypeOK, Handlers
  <1>5. PreparedWith(q, c, aws, key)
    <2> HIDE DEF aws, key, refresh
    <2> QED
      BY <1>1, <1>2 DEF PreparedWith, Touches
  <1>6. \E n \in Credentials, k \in Keys : PreparedWith(q, c, n, k)
    <2> HIDE DEF aws, key
    <2> QED
      BY <1>1, <1>5
  <1> HIDE DEF aws, key, back, refresh
  <1> QED
    BY <1>3, <1>4, <1>6 DEF Prepare

LEMMA PrepareTypes ==
  ASSUME TypeOK, NEW q \in Requests, NEW c \in Calls, NEW refreshed \in BOOLEAN, Prepare(q, c, refreshed)
  PROVE  TypeOK'
  <1>1. PICK aws \in Credentials, key \in Keys : PreparedWith(q, c, aws, key)
    BY PrepareEffect
  <1>2. call[<<q, c>>] \in CallRecords /\ <<q, c>> \in Ids
    BY DEF TypeOK, Ids
  <1>3. call' \in [Ids -> CallRecords]
    BY <1>1, <1>2, PreparedType, TouchedTypes DEF PreparedWith
  <1>4. wrote' \in Requests \cup {None} /\ env' \in Credentials
    BY <1>1 DEF PreparedWith, TypeOK
  <1>5. lock' \in [Requests -> Calls \cup {None}] /\ UNCHANGED <<config, apiKey, openaiKey, globalBase, last>>
    BY DEF Prepare, TypeOK
  <1>6. handler' \in [Requests -> Handlers]
    BY PrepareEffect
  <1> QED
    BY <1>3, <1>4, <1>5, <1>6 DEF TypeOK

LEMMA SendEffect ==
  ASSUME TypeOK, NEW q \in Requests, NEW c \in Calls, Send(q, c)
  PROVE  LET i == <<q, c>>
         IN \E r \in CallRecords :
              /\ Touches(i, r) /\ r.st = "sent" /\ r.prepared = call[i].prepared
              /\ r.sent.latest = (last = q) /\ r.sent.signed = Signature(q) /\ r.sent.alone = (wrote = q)
              /\ r.sent.key \in {call[i].key, openaiKey, None}
              /\ r.key = call[i].key
              /\ r.sent.key = call[i].key \/ call[i].key = None
  <1> DEFINE i == <<q, c>>
             key == IF call[i].key # None THEN call[i].key
                    ELSE IF config[q].model = "openai" THEN openaiKey ELSE None
             base == IF handler[q].base # None THEN handler[q].base ELSE globalBase
             out == [key |-> key, base |-> base, latest |-> last = q, signed |-> Signature(q), alone |-> wrote = q]
             r == [call[i] EXCEPT !.st = "sent", !.sent = out]
  <1>1. i \in Ids /\ call[i] \in CallRecords
    BY DEF TypeOK, Ids
  <1>2. key \in Keys /\ base \in Bases /\ Signature(q) \in Credentials
    BY <1>1 DEF TypeOK, Signature, Keys, Credentials, CallRecords, Handlers
  <1>3. out \in Sent
    <2> HIDE DEF key, base
    <2> QED
      BY <1>2 DEF Sent
  <1>4. r \in CallRecords /\ r.st = "sent" /\ r.sent = out /\ r.key = call[i].key /\ r.prepared = call[i].prepared
    <2> HIDE DEF out
    <2> QED
      BY <1>1, <1>3 DEF CallRecords
  <1>5. Touches(i, r)
    BY DEF Send, Touches
  <1>6. key \in {call[i].key, openaiKey, None} /\ (key = call[i].key \/ call[i].key = None)
    OBVIOUS
  <1>7. r.sent.key = key /\ r.sent.latest = (last = q) /\ r.sent.signed = Signature(q) /\ r.sent.alone = (wrote = q)
    <2> HIDE DEF key, base, r
    <2> QED
      BY <1>4
  <1> HIDE DEF r, out, key, base
  <1> QED
    BY <1>4, <1>5, <1>6, <1>7

LEMMA FallBackEffect ==
  ASSUME TypeOK, NEW q \in Requests, NEW c \in Calls, FallBack(q, c)
  PROVE  LET i == <<q, c>>
         IN \E r \in CallRecords :
              Touches(i, r) /\ r.st = "again" /\ r.prepared = "static" /\ r.sent = call[i].sent /\ r.key = call[i].key
  <1> DEFINE i == <<q, c>>
             r == [call[i] EXCEPT !.st = "again", !.prepared = "static"]
  <1>1. i \in Ids /\ call[i] \in CallRecords
    BY DEF TypeOK, Ids
  <1>2. r \in CallRecords /\ r.st = "again" /\ r.prepared = "static" /\ r.sent = call[i].sent /\ r.key = call[i].key
    BY <1>1 DEF CallRecords, Credentials
  <1>3. Touches(i, r)
    BY DEF FallBack, Touches
  <1> QED
    BY <1>2, <1>3

LEMMA SendAgainEffect ==
  ASSUME TypeOK, NEW q \in Requests, NEW c \in Calls, SendAgain(q, c)
  PROVE  LET i == <<q, c>>
         IN \E r \in CallRecords :
              /\ Touches(i, r) /\ r.st = "resent" /\ r.prepared = call[i].prepared /\ r.key = call[i].key
              /\ r.sent.signed = Signature(q) /\ r.sent.alone = (wrote = q)
              /\ r.sent.key = call[i].sent.key /\ r.sent.latest = call[i].sent.latest
  <1> DEFINE i == <<q, c>>
             out == [call[i].sent EXCEPT !.signed = Signature(q), !.alone = (wrote = q)]
             r == [call[i] EXCEPT !.st = "resent", !.sent = out]
  <1>1. i \in Ids /\ call[i] \in CallRecords /\ call[i].sent \in Sent
    BY DEF TypeOK, Ids, CallRecords
  <1>2. Signature(q) \in Credentials
    BY DEF Signature, TypeOK, Credentials
  <1>3. /\ out \in Sent /\ out.signed = Signature(q) /\ out.alone = (wrote = q)
        /\ out.key = call[i].sent.key /\ out.latest = call[i].sent.latest
    BY <1>1, <1>2 DEF Sent
  <1>4. r \in CallRecords /\ r.st = "resent" /\ r.sent = out /\ r.key = call[i].key /\ r.prepared = call[i].prepared
    <2> HIDE DEF out
    <2> QED
      BY <1>1, <1>3 DEF CallRecords
  <1>5. Touches(i, r)
    BY DEF SendAgain, Touches
  <1> HIDE DEF r, out
  <1> QED
    BY <1>3, <1>4, <1>5

\* A call that ends, or starts anew, is under way no longer and has out nothing.
CallEnds(q, c) == Answer(q, c) \/ RateLimit(q, c) \/ Fail(q, c)

LEMMA EndsEffect ==
  ASSUME TypeOK, NEW q \in Requests, NEW c \in Calls, CallEnds(q, c)
  PROVE  /\ UnderWay(q, c)
         /\ \E r \in CallRecords :
              Touches(<<q, c>>, r) /\ r.st \in {"ready", "answered", "failed"} /\ r.sent = Unsent
         /\ lock' = Released(q) /\ UNCHANGED <<config, process, handler, last, wrote>>
  <1> DEFINE i == <<q, c>>
  <1>1. i \in Ids /\ call[i] \in CallRecords /\ call[i].tries \in Nat
    BY DEF TypeOK, Ids, CallRecords
  <1>2. /\ [Over EXCEPT !.st = "answered"] \in CallRecords /\ [Over EXCEPT !.st = "failed"] \in CallRecords
        /\ [Over EXCEPT !.st = "answered"].st = "answered" /\ [Over EXCEPT !.st = "failed"].st = "failed"
        /\ [Over EXCEPT !.st = "answered"].sent = Unsent /\ [Over EXCEPT !.st = "failed"].sent = Unsent
    BY OverType DEF Over, CallRecords
  <1>3. ASSUME NEW n \in Nat
        PROVE  LET r == [Over EXCEPT !.tries = @ + n]
               IN r \in CallRecords /\ r.st = "ready" /\ r.sent = Unsent
    BY OverType DEF Over, CallRecords
  <1>4. CASE Answer(q, c)
    BY <1>2, <1>4 DEF Answer, Touches, UnderWay
  <1>5. CASE RateLimit(q, c)
    BY <1>2, <1>5 DEF RateLimit, Touches, UnderWay
  <1>6. CASE Fail(q, c)
    <2>1. call' = [call EXCEPT ![i] = IF call[i].tries < Retries THEN [Over EXCEPT !.tries = @ + call[i].tries]
                                      ELSE [Over EXCEPT !.st = "failed"]]
      BY <1>6 DEF Fail
    <2>2. /\ UnderWay(q, c) /\ lock' = Released(q) /\ UNCHANGED <<config, process, handler, last, wrote>>
      BY <1>6 DEF Fail, UnderWay
    <2>3. \E r \in CallRecords : Touches(i, r) /\ r.st \in {"ready", "answered", "failed"} /\ r.sent = Unsent
      BY <1>1, <1>2, <1>3, <2>1 DEF Touches
    <2> QED
      BY <2>2, <2>3
  <1> QED
    BY <1>4, <1>5, <1>6 DEF CallEnds

LEMMA NextTypes == TypeOK /\ [Next]_vars => TypeOK'
  <1> SUFFICES ASSUME TypeOK, [Next]_vars PROVE TypeOK'
    OBVIOUS
  <1>1. CASE UNCHANGED vars
    BY <1>1 DEF vars, process, TypeOK
  <1>2. ASSUME NEW q \in Requests, Build(q) PROVE TypeOK'
    BY <1>2, BuildTypes
  <1>3. ASSUME NEW q \in Requests, NEW c \in Calls, NEW refreshed \in BOOLEAN, Prepare(q, c, refreshed)
        PROVE  TypeOK'
    BY <1>3, PrepareTypes
  <1>4. ASSUME NEW q \in Requests, NEW c \in Calls,
               Send(q, c) \/ FallBack(q, c) \/ SendAgain(q, c) \/ CallEnds(q, c)
        PROVE  TypeOK'
    <2>1. <<q, c>> \in Ids
      BY DEF Ids
    <2>2. \E r \in CallRecords : Touches(<<q, c>>, r)
      BY <1>4, SendEffect, FallBackEffect, SendAgainEffect, EndsEffect
    <2>3. call' \in [Ids -> CallRecords]
      BY <2>1, <2>2, TouchedTypes
    <2>4. CASE Send(q, c) \/ SendAgain(q, c)
      BY <2>3, <2>4 DEF Send, SendAgain, process, TypeOK
    <2>5. CASE FallBack(q, c)
      <3>1. handler' \in [Requests -> Handlers]
        BY <2>5 DEF FallBack, Immediately, TypeOK, Handlers
      <3> QED
        BY <2>3, <2>5, <3>1 DEF FallBack, TypeOK, Credentials
    <2>6. CASE CallEnds(q, c)
      <3>1. lock' = Released(q) /\ UNCHANGED <<config, process, handler, last, wrote>>
        BY <2>6, EndsEffect
      <3>2. lock' \in [Requests -> Calls \cup {None}]
        BY <3>1 DEF Released, TypeOK
      <3> QED
        BY <2>3, <3>1, <3>2 DEF process, TypeOK
    <2> QED
      BY <1>4, <2>4, <2>5, <2>6
  <1> QED
    BY <1>1, <1>2, <1>3, <1>4 DEF Next, CallEnds

\* Types, for any requests, calls and settings: keys and bases come from the
\* settings of some request.
THEOREM TypeCorrect == Spec => []TypeOK
  BY InitTypes, NextTypes, PTL DEF Spec

-----------------------------------------------------------------------------
(* Signing: the lock keeps the environment for the calls of one request.   *)

LEMMA LockedAt ==
  ASSUME SigningInv, NEW p \in Requests, NEW d \in Calls, UnderWay(p, d)
  PROVE  handler[p].built /\ (Ambient(p) => lock[p] = d)
  BY DEF SigningInv, Locked

LEMMA SigningBuild ==
  ASSUME TypeOK, SigningInv, NEW q \in Requests, Build(q)
  PROVE  SigningInv'
  <1>1. UNCHANGED <<config, lock, call>> /\ ~handler[q].built
    BY DEF Build
  <1>2. \A p \in Requests \ {q} : handler'[p] = handler[p]
    BY DEF Build, TypeOK
  <1>3. \A p \in Requests, d \in Calls : (UnderWay(p, d)' <=> UnderWay(p, d)) /\ (UnderWay(p, d) => p # q)
    BY <1>1, LockedAt DEF UnderWay
  <1>4. Locked'
    <2> SUFFICES ASSUME NEW p \in Requests, NEW d \in Calls, UnderWay(p, d)
                 PROVE  handler'[p].built /\ (Ambient(p)' => lock'[p] = d)
      BY <1>3 DEF Locked
    <2>1. handler'[p] = handler[p]
      BY <1>2, <1>3
    <2>2. Ambient(p)' <=> Ambient(p)
      BY <1>1, <2>1 DEF Ambient
    <2> QED
      BY <1>1, <2>1, <2>2, LockedAt
  <1>5. StillChosen'
    <2> SUFFICES ASSUME NEW p \in Requests, NEW d \in Calls, call[<<p, d>>].st \in {"prepared", "again"},
                        config[p].model = "bedrock", wrote' = p
                 PROVE  env' = call[<<p, d>>].prepared
      BY <1>1 DEF StillChosen
    <2>1. p # q
      BY <1>3 DEF UnderWay
    <2>2. wrote' = wrote /\ env' = env
      BY <2>1 DEF Build, Aws
    <2> QED
      BY <2>2 DEF SigningInv, StillChosen
  <1>6. SignedAsChosen'
    BY <1>1 DEF SigningInv, SignedAsChosen
  <1> QED
    BY <1>4, <1>5, <1>6 DEF SigningInv

LEMMA SigningPrepare ==
  ASSUME TypeOK, SigningInv,
         NEW q \in Requests, NEW c \in Calls, NEW refreshed \in BOOLEAN, Prepare(q, c, refreshed)
  PROVE  SigningInv'
  <1>1. PICK aws \in Credentials, key \in Keys : PreparedWith(q, c, aws, key)
    BY PrepareEffect
  <1>2. /\ ~Ambient(q) => env' = env
        /\ \A p \in Requests : /\ handler'[p].built = handler[p].built
                               /\ handler'[p].imds = handler[p].imds
        /\ handler[q].built
        /\ Ambient(q) => Free(q) /\ lock' = [lock EXCEPT ![q] = c]
        /\ ~Ambient(q) => lock' = lock
        /\ UNCHANGED config
    BY PrepareEffect
  <1>3. /\ call'[<<q, c>>].st = "prepared" /\ call'[<<q, c>>].prepared = env'
        /\ \A p \in Requests, d \in Calls : p # q \/ d # c => call'[<<p, d>>] = call[<<p, d>>]
    <2>1. call[<<q, c>>] \in CallRecords
      BY DEF TypeOK, Ids
    <2>2. Prepared(call[<<q, c>>], aws, key) \in CallRecords
      BY <2>1, PreparedType
    <2>3. call'[<<q, c>>] = Prepared(call[<<q, c>>], aws, key)
      BY <1>1, <2>2, TouchedCall DEF PreparedWith
    <2>4. \A p \in Requests, d \in Calls : p # q \/ d # c => call'[<<p, d>>] = call[<<p, d>>]
      BY <1>1, <2>2, TouchedCall DEF PreparedWith
    <2> QED
      BY <1>1, <2>3, <2>4 DEF PreparedWith, Prepared
  <1>4. \A p \in Requests : Ambient(p)' <=> Ambient(p)
    BY <1>2 DEF Ambient
  <1>5. \A d \in Calls : UnderWay(q, d) => ~Ambient(q)
    <2> SUFFICES ASSUME NEW d \in Calls, UnderWay(q, d), Ambient(q) PROVE FALSE
      OBVIOUS
    <2>1. lock[q] = d
      BY LockedAt
    <2>2. lock[q] = None
      BY <1>2 DEF Free
    <2> QED
      BY <2>1, <2>2, ConfigTypes
  <1>6. Locked'
    <2> SUFFICES ASSUME NEW p \in Requests, NEW d \in Calls, UnderWay(p, d)'
                 PROVE  handler'[p].built /\ (Ambient(p)' => lock'[p] = d)
      BY DEF Locked
    <2>1. CASE p = q /\ d = c
      BY <1>2, <1>4, <2>1 DEF TypeOK
    <2>2. CASE p # q \/ d # c
      <3>1. UnderWay(p, d)
        BY <1>3, <2>2 DEF UnderWay
      <3>2. handler[p].built /\ (Ambient(p) => lock[p] = d)
        BY <3>1, LockedAt
      <3>3. CASE p = q
        BY <1>2, <1>4, <1>5, <3>1, <3>2, <3>3
      <3>4. CASE p # q
        BY <1>2, <1>4, <3>2, <3>4 DEF TypeOK
      <3> QED
        BY <3>3, <3>4
    <2> QED
      BY <2>1, <2>2
  <1>7. StillChosen'
    <2> SUFFICES ASSUME NEW p \in Requests, NEW d \in Calls, p # q \/ d # c,
                        call[<<p, d>>].st \in {"prepared", "again"},
                        config[p].model = "bedrock", wrote' = p
                 PROVE  env' = call[<<p, d>>].prepared
      BY <1>2, <1>3 DEF StillChosen
    <2>1. p = q => ~Ambient(q)
      BY <1>5 DEF UnderWay
    <2>2. env' = env
      BY <1>1, <1>2, <2>1 DEF PreparedWith
    <2>3. wrote = p
      <3>1. CASE p # q
        BY <1>1, <3>1 DEF PreparedWith
      <3>2. CASE p = q
        BY <2>1, <3>2 DEF Prepare
      <3> QED
        BY <3>1, <3>2
    <2> QED
      BY <2>2, <2>3 DEF SigningInv, StillChosen
  <1>8. SignedAsChosen'
    BY <1>2, <1>3 DEF SigningInv, SignedAsChosen
  <1> QED
    BY <1>6, <1>7, <1>8 DEF SigningInv

LEMMA SigningSend ==
  ASSUME TypeOK, SigningInv, NEW q \in Requests, NEW c \in Calls, Send(q, c) \/ SendAgain(q, c)
  PROVE  SigningInv'
  <1>1. /\ UNCHANGED <<config, process, handler, lock, last, wrote>>
        /\ call[<<q, c>>].st \in {"prepared", "again"}
    BY DEF Send, SendAgain
  <1>2. PICK r \in CallRecords :
          /\ Touches(<<q, c>>, r) /\ r.st \in {"sent", "resent"} /\ r.prepared = call[<<q, c>>].prepared
          /\ r.sent.signed = Signature(q) /\ r.sent.alone = (wrote = q)
    BY SendEffect, SendAgainEffect
  <1>3. /\ call'[<<q, c>>] = r
        /\ \A p \in Requests, d \in Calls : p # q \/ d # c => call'[<<p, d>>] = call[<<p, d>>]
    BY <1>2, TouchedCall
  <1>4. Locked'
    <2>1. \A p \in Requests, d \in Calls : UnderWay(p, d)' => UnderWay(p, d)
      BY <1>1, <1>3 DEF UnderWay
    <2>2. \A p \in Requests : Ambient(p)' <=> Ambient(p)
      BY <1>1 DEF Ambient
    <2> QED
      BY <1>1, <2>1, <2>2, LockedAt DEF Locked
  <1>5. StillChosen'
    BY <1>1, <1>2, <1>3 DEF SigningInv, StillChosen, process
  <1>6. SignedAsChosen'
    <2> SUFFICES ASSUME NEW p \in Requests, NEW d \in Calls, call'[<<p, d>>].st \in {"sent", "resent"},
                        call'[<<p, d>>].sent.alone, config[p].model = "bedrock"
                 PROVE  call'[<<p, d>>].sent.signed = call'[<<p, d>>].prepared
      BY <1>1 DEF SignedAsChosen
    <2>1. CASE p = q /\ d = c
      <3>1. r.sent.signed = env /\ wrote = q
        BY <1>2, <1>3, <2>1 DEF Signature
      <3>2. env = call[<<q, c>>].prepared
        BY <1>1, <2>1, <3>1 DEF SigningInv, StillChosen
      <3> QED
        BY <1>2, <1>3, <2>1, <3>1, <3>2
    <2>2. CASE p # q \/ d # c
      BY <1>3, <2>2 DEF SigningInv, SignedAsChosen
    <2> QED
      BY <2>1, <2>2
  <1> QED
    BY <1>4, <1>5, <1>6 DEF SigningInv

LEMMA SigningFallBack ==
  ASSUME TypeOK, SigningInv, NEW q \in Requests, NEW c \in Calls, FallBack(q, c)
  PROVE  SigningInv'
  <1>1. /\ UNCHANGED <<config, lock>> /\ env' = "static" /\ wrote' = q
        /\ call[<<q, c>>].st = "sent" /\ Ambient(q) /\ handler' = [handler EXCEPT ![q].fellBack = TRUE]
    BY DEF FallBack, CanFallBack, Immediately
  <1>2. PICK r \in CallRecords :
          Touches(<<q, c>>, r) /\ r.st = "again" /\ r.prepared = "static"
    BY FallBackEffect
  <1>3. /\ call'[<<q, c>>] = r
        /\ \A p \in Requests, d \in Calls : p # q \/ d # c => call'[<<p, d>>] = call[<<p, d>>]
    BY <1>2, TouchedCall
  <1>4. \A p \in Requests : handler'[p].built = handler[p].built /\ handler'[p].imds = handler[p].imds
    BY <1>1 DEF TypeOK, Handlers
  <1>5. \A d \in Calls : UnderWay(q, d) => d = c
    <2>1. lock[q] = c
      BY <1>1, LockedAt DEF UnderWay
    <2> QED
      BY <1>1, <2>1, LockedAt
  <1>6. Locked'
    <2>1. \A p \in Requests, d \in Calls : UnderWay(p, d)' => UnderWay(p, d)
      BY <1>1, <1>2, <1>3 DEF UnderWay
    <2>2. \A p \in Requests : Ambient(p)' <=> Ambient(p)
      BY <1>1, <1>4 DEF Ambient
    <2> QED
      BY <1>1, <1>4, <2>1, <2>2, LockedAt DEF Locked
  <1>7. StillChosen'
    <2> SUFFICES ASSUME NEW p \in Requests, NEW d \in Calls, call'[<<p, d>>].st \in {"prepared", "again"}, p = q
                 PROVE  "static" = call'[<<p, d>>].prepared
      BY <1>1 DEF StillChosen
    <2>1. d = c
      BY <1>3, <1>5 DEF UnderWay
    <2> QED
      BY <1>2, <1>3, <2>1
  <1>8. SignedAsChosen'
    BY <1>1, <1>2, <1>3 DEF SigningInv, SignedAsChosen
  <1> QED
    BY <1>6, <1>7, <1>8 DEF SigningInv

LEMMA SigningEnds ==
  ASSUME TypeOK, SigningInv, NEW q \in Requests, NEW c \in Calls, CallEnds(q, c)
  PROVE  SigningInv'
  <1>1. UnderWay(q, c) /\ lock' = Released(q) /\ UNCHANGED <<config, process, handler, last, wrote>>
    BY EndsEffect
  <1>2. PICK r \in CallRecords :
          Touches(<<q, c>>, r) /\ r.st \in {"ready", "answered", "failed"}
    BY EndsEffect
  <1>3. /\ call'[<<q, c>>] = r
        /\ \A p \in Requests, d \in Calls : p # q \/ d # c => call'[<<p, d>>] = call[<<p, d>>]
    BY <1>2, TouchedCall
  <1>4. Locked'
    <2> SUFFICES ASSUME NEW p \in Requests, NEW d \in Calls, UnderWay(p, d)'
                 PROVE  handler'[p].built /\ (Ambient(p)' => lock'[p] = d)
      BY DEF Locked
    <2>1. (p # q \/ d # c) /\ UnderWay(p, d)
      BY <1>2, <1>3 DEF UnderWay
    <2>2. Ambient(p)' <=> Ambient(p)
      BY <1>1 DEF Ambient
    <2>3. handler[p].built /\ (Ambient(p) => lock[p] = d)
      BY <2>1, LockedAt
    <2>4. CASE p = q
      <3>1. Ambient(q) => lock[q] = c
        BY <1>1, LockedAt
      <3>2. ~Ambient(q)
        BY <2>1, <2>3, <2>4, <3>1
      <3> QED
        BY <1>1, <2>2, <2>3, <2>4, <3>2
    <2>5. CASE p # q
      BY <1>1, <2>2, <2>3, <2>5 DEF Released, TypeOK
    <2> QED
      BY <2>4, <2>5
  <1>5. StillChosen'
    BY <1>1, <1>2, <1>3 DEF SigningInv, StillChosen, process
  <1>6. SignedAsChosen'
    BY <1>1, <1>2, <1>3 DEF SigningInv, SignedAsChosen
  <1> QED
    BY <1>4, <1>5, <1>6 DEF SigningInv

LEMMA SigningNext == TypeOK /\ SigningInv /\ [Next]_vars => SigningInv'
  <1> SUFFICES ASSUME TypeOK, SigningInv, [Next]_vars PROVE SigningInv'
    OBVIOUS
  <1>1. CASE UNCHANGED vars
    BY <1>1 DEF vars, process, SigningInv, Locked, StillChosen, SignedAsChosen, UnderWay, Ambient
  <1> QED
    BY <1>1, SigningBuild, SigningPrepare, SigningSend, SigningFallBack, SigningEnds DEF Next, CallEnds

\* Whatever requests and calls there are, a call of bedrock is signed with the
\* credentials chosen for it, unless another request's handler has written the
\* environment since: the calls of one request that share its lock do not.
THEOREM Signing == Spec => []SignedAsChosen
  <1>1. Init => SigningInv
    BY DEF Init, Over, Ids, SigningInv, Locked, StillChosen, SignedAsChosen, UnderWay
  <1>2. SigningInv => SignedAsChosen
    BY DEF SigningInv
  <1> QED
    BY <1>1, <1>2, TypeCorrect, SigningNext, PTL DEF Spec

-----------------------------------------------------------------------------
(* Keys: what the last handler to be built has left is of its own request. *)

KeysOf(q) == Own(q) \cup Left(q)

LEMMA OwnAt ==
  ASSUME OwnInv, NEW p \in Requests
  PROVE  /\ last = p => handler[p].built /\ openaiKey \in Own(p) /\ apiKey \in KeysOf(p)
         /\ \A d \in Calls :
              /\ UnderWay(p, d) => handler[p].built /\ (last = p => call[<<p, d>>].key \in KeysOf(p))
              /\ call[<<p, d>>].sent.latest => call[<<p, d>>].sent.key \in KeysOf(p)
  BY DEF OwnInv, OwnKey, KeysOf

LEMMA KeysUnchanged ==
  ASSUME UNCHANGED config, NEW p \in Requests
  PROVE  Own(p)' = Own(p) /\ Left(p)' = Left(p) /\ KeysOf(p)' = KeysOf(p)
  BY DEF Own, Left, KeysOf

LEMMA OwnBuild ==
  ASSUME TypeOK, OwnInv, NEW q \in Requests, Build(q)
  PROVE  OwnInv'
  <1>1. UNCHANGED <<config, lock, call>> /\ ~handler[q].built /\ last' = q
    BY DEF Build
  <1>2. handler'[q].built /\ \A p \in Requests \ {q} : handler'[p] = handler[p]
    BY DEF Build, TypeOK
  <1>3. apiKey' \in {None} \cup {config'[o].branch : o \in Requests}
    BY <1>1 DEF Build, BranchKey, Dropped, OwnInv
  <1>4. openaiKey' \in Own(q) /\ apiKey' \in KeysOf(q)
    BY DEF Build, OpenAiKey, BranchKey, Dropped, OwnInv, Own, Left, KeysOf
  <1>5. \A p \in Requests : last' = p => handler'[p].built /\ openaiKey' \in Own(p)' /\ apiKey' \in KeysOf(p)'
    BY <1>1, <1>2, <1>4, KeysUnchanged
  <1>6. \A p \in Requests, d \in Calls : UnderWay(p, d)' =>
          handler'[p].built /\ (last' = p => call'[<<p, d>>].key \in KeysOf(p)')
    <2> SUFFICES ASSUME NEW p \in Requests, NEW d \in Calls, UnderWay(p, d)
                 PROVE  handler'[p].built /\ last' # p
      BY <1>1 DEF UnderWay
    <2>1. p # q
      BY <1>1, OwnAt
    <2> QED
      BY <1>1, <1>2, <2>1, OwnAt
  <1>7. OwnKey'
    BY <1>1, KeysUnchanged DEF OwnInv, OwnKey
  <1> QED
    BY <1>3, <1>5, <1>6, <1>7 DEF OwnInv, KeysOf

\* The actions of a call: what the process holds and who came last stay, and
\* what the call keeps and sends is of its own request.
LEMMA OwnCall ==
  ASSUME TypeOK, OwnInv, NEW q \in Requests, NEW c \in Calls, NEW r \in CallRecords,
         Touches(<<q, c>>, r), UNCHANGED <<config, apiKey, openaiKey, last>>,
         \A p \in Requests : handler'[p].built = handler[p].built,
         r.st \in {"prepared", "sent", "again", "resent"} =>
           handler[q].built /\ (last = q => r.key \in KeysOf(q)),
         r.sent.latest => r.sent.key \in KeysOf(q)
  PROVE  OwnInv'
  <1>1. /\ call'[<<q, c>>] = r
        /\ \A p \in Requests, d \in Calls : p # q \/ d # c => call'[<<p, d>>] = call[<<p, d>>]
    BY TouchedCall
  <1>2. apiKey' \in {None} \cup {config'[o].branch : o \in Requests}
    BY DEF OwnInv
  <1>3. \A p \in Requests : last' = p => handler'[p].built /\ openaiKey' \in Own(p)' /\ apiKey' \in KeysOf(p)'
    BY OwnAt, KeysUnchanged
  <1>4. ASSUME NEW p \in Requests, NEW d \in Calls
        PROVE  /\ UnderWay(p, d)' => handler'[p].built /\ (last' = p => call'[<<p, d>>].key \in KeysOf(p)')
               /\ call'[<<p, d>>].sent.latest => call'[<<p, d>>].sent.key \in KeysOf(p)'
    <2>1. KeysOf(p)' = KeysOf(p)
      BY KeysUnchanged
    <2>2. CASE p = q /\ d = c
      BY <1>1, <2>1, <2>2 DEF UnderWay
    <2>3. CASE p # q \/ d # c
      <3>1. call'[<<p, d>>] = call[<<p, d>>] /\ (UnderWay(p, d)' <=> UnderWay(p, d))
        BY <1>1, <2>3 DEF UnderWay
      <3> QED
        BY <2>1, <3>1, OwnAt
    <2> QED
      BY <2>2, <2>3
  <1>5. OwnKey'
    BY <1>4 DEF OwnKey, KeysOf
  <1> QED
    BY <1>2, <1>3, <1>4, <1>5 DEF OwnInv, KeysOf

LEMMA OwnPrepare ==
  ASSUME TypeOK, OwnInv,
         NEW q \in Requests, NEW c \in Calls, NEW refreshed \in BOOLEAN, Prepare(q, c, refreshed)
  PROVE  OwnInv'
  <1>1. PICK aws \in Credentials, key \in Keys : PreparedWith(q, c, aws, key)
    BY PrepareEffect
  <1>2. /\ \A p \in Requests : handler'[p].built = handler[p].built
        /\ handler[q].built /\ UNCHANGED <<config, apiKey, openaiKey, last>>
    BY PrepareEffect
  <1> DEFINE r == Prepared(call[<<q, c>>], aws, key)
  <1>3. r \in CallRecords
    BY PreparedType DEF TypeOK, Ids
  <1>4. r.st = "prepared" /\ r.key = key /\ r.sent = call[<<q, c>>].sent
    BY DEF Prepared
  <1>5. Touches(<<q, c>>, r) /\ key \in {None, apiKey}
    BY <1>1 DEF PreparedWith
  <1>6. last = q => r.key \in KeysOf(q)
    BY <1>4, <1>5, OwnAt DEF KeysOf, Own
  <1>7. r.sent.latest => r.sent.key \in KeysOf(q)
    BY <1>4, OwnAt
  <1> HIDE DEF r
  <1> QED
    BY <1>2, <1>3, <1>4, <1>5, <1>6, <1>7, OwnCall

LEMMA OwnSend ==
  ASSUME TypeOK, OwnInv, NEW q \in Requests, NEW c \in Calls, Send(q, c)
  PROVE  OwnInv'
  <1>1. PICK r \in CallRecords :
          /\ Touches(<<q, c>>, r) /\ r.st = "sent" /\ r.sent.latest = (last = q)
          /\ r.sent.key \in {call[<<q, c>>].key, openaiKey, None} /\ r.key = call[<<q, c>>].key
    BY SendEffect
  <1>2. UnderWay(q, c) /\ UNCHANGED <<config, apiKey, openaiKey, last, handler>>
    BY DEF Send, UnderWay, process
  <1>3. handler[q].built /\ (last = q => r.key \in KeysOf(q))
    BY <1>1, <1>2, OwnAt
  <1>4. r.sent.latest => r.sent.key \in KeysOf(q)
    <2>1. None \in KeysOf(q) /\ Own(q) \subseteq KeysOf(q)
      BY DEF KeysOf, Own
    <2> QED
      BY <1>1, <1>3, <2>1, OwnAt
  <1> QED
    BY <1>1, <1>2, <1>3, <1>4, OwnCall

LEMMA OwnAgain ==
  ASSUME TypeOK, OwnInv, NEW q \in Requests, NEW c \in Calls, FallBack(q, c) \/ SendAgain(q, c)
  PROVE  OwnInv'
  <1>1. PICK r \in CallRecords :
          /\ Touches(<<q, c>>, r) /\ r.key = call[<<q, c>>].key
          /\ r.sent.key = call[<<q, c>>].sent.key /\ r.sent.latest = call[<<q, c>>].sent.latest
    BY FallBackEffect, SendAgainEffect
  <1>2. UnderWay(q, c) /\ UNCHANGED <<config, apiKey, openaiKey, last>>
    BY DEF FallBack, SendAgain, UnderWay, process
  <1>3. \A p \in Requests : handler'[p].built = handler[p].built
    BY DEF FallBack, Immediately, SendAgain, TypeOK, Handlers
  <1>4. handler[q].built /\ (last = q => r.key \in KeysOf(q))
    BY <1>1, <1>2, OwnAt
  <1>5. r.sent.latest => r.sent.key \in KeysOf(q)
    BY <1>1, OwnAt
  <1> QED
    BY <1>1, <1>2, <1>3, <1>4, <1>5, OwnCall

LEMMA OwnEnds ==
  ASSUME TypeOK, OwnInv, NEW q \in Requests, NEW c \in Calls, CallEnds(q, c)
  PROVE  OwnInv'
  <1>1. UNCHANGED <<config, process, handler, last, wrote>>
    BY EndsEffect
  <1>2. PICK r \in CallRecords :
          Touches(<<q, c>>, r) /\ r.st \in {"ready", "answered", "failed"} /\ r.sent = Unsent
    BY EndsEffect
  <1>3. ~r.sent.latest
    BY <1>2 DEF Unsent
  <1> QED
    BY <1>1, <1>2, <1>3, OwnCall DEF process

LEMMA OwnNext == TypeOK /\ OwnInv /\ [Next]_vars => OwnInv'
  <1> SUFFICES ASSUME TypeOK, OwnInv, [Next]_vars PROVE OwnInv'
    OBVIOUS
  <1>1. CASE UNCHANGED vars
    BY <1>1 DEF vars, process, OwnInv, OwnKey, Own, Left, UnderWay
  <1> QED
    BY <1>1, OwnBuild, OwnPrepare, OwnSend, OwnAgain, OwnEnds DEF Next, CallEnds

\* Whatever requests there are, a call authenticates with a key of its own
\* request's settings while no other request has built a handler; a request
\* with OPENAI.KEY may still meet a key left by another provider's section.
THEOREM KeysOwn == Spec => []OwnKey
  <1>1. Init => OwnInv
    <2>1. ASSUME Init, NEW p \in Requests, NEW d \in Calls
          PROVE  call[<<p, d>>].st = "ready" /\ ~call[<<p, d>>].sent.latest /\ last # p
      <3>1. <<p, d>> \in Ids
        BY DEF Ids
      <3>2. call[<<p, d>>] = Over
        BY <2>1, <3>1 DEF Init
      <3> QED
        BY <2>1, <3>2, ConfigTypes DEF Init, Over, Unsent
    <2>2. \A p \in Requests : Init => last # p
      BY ConfigTypes DEF Init
    <2> QED
      BY <2>1, <2>2 DEF Init, OwnInv, OwnKey, UnderWay
  <1>2. OwnInv => OwnKey
    BY DEF OwnInv
  <1> QED
    BY <1>1, <1>2, TypeCorrect, OwnNext, PTL DEF Spec

-----------------------------------------------------------------------------
(* The drain of callbacks at exit.                                         *)

\* The deadline of the tasks lies within the timeout, and before its end by as
\* much as the flush is owed.
LEMMA Deadline ==
  ASSUME timeout \in Nat
  PROVE  TaskDeadline \in Nat /\ timeout - TaskDeadline = Smaller(Reserve, Half(timeout))
  <1>1. Half(timeout) \in Nat /\ Half(timeout) =< timeout
    BY DEF Half
  <1>2. Smaller(Reserve, Half(timeout)) \in Nat /\ Smaller(Reserve, Half(timeout)) =< timeout
    BY <1>1 DEF Smaller, Reserve
  <1> QED
    BY <1>2 DEF TaskDeadline

LEMMA DrainTypesBegin == DrainInit => DrainTypeOK
  <1> SUFFICES ASSUME DrainInit PROVE DrainTypeOK
    OBVIOUS
  <1>1. timeout \in Nat /\ worker \in BOOLEAN
    BY DrainAssumption DEF DrainInit
  <1>2. task \in [Tasks -> {"unborn", "pending", "done"}]
    BY DEF DrainInit
  <1> QED
    BY <1>1, <1>2 DEF DrainInit, DrainTypeOK, MaxRounds

LEMMA DrainTypesStay ==
  ASSUME DrainTypeOK, [DrainNext]_drainVars
  PROVE  DrainTypeOK'
  <1>0. /\ now \in Nat /\ queue \in Nat /\ round \in 0 .. MaxRounds
        /\ task \in [Tasks -> {"unborn", "pending", "done"}]
    BY DEF DrainTypeOK
  <1>1. CASE Start
    BY <1>1 DEF Start, DrainTypeOK
  <1>2. CASE Begin
    <2>1. round' \in 0 .. MaxRounds /\ st' = "waiting" /\ waited' \subseteq Tasks
      BY <1>0, <1>2 DEF Begin, Pending, MaxRounds
    <2> QED
      BY <1>2, <2>1 DEF Begin, DrainTypeOK
  <1>3. CASE NoMore
    BY <1>3 DEF NoMore, Stop, DrainTypeOK
  <1>4. CASE AllDone
    BY <1>4 DEF AllDone, AfterRound, DrainTypeOK
  <1>5. CASE TasksLate
    BY <1>5 DEF TasksLate, Stop, DrainTypeOK
  <1>6. CASE Flush
    BY <1>6 DEF Flush, Stop, DrainTypeOK
  <1>7. CASE Flushed
    BY <1>7 DEF Flushed, DrainTypeOK
  <1>8. CASE QueueLate
    BY <1>8 DEF QueueLate, Stop, DrainTypeOK
  <1>9. ASSUME NEW t \in Tasks, NEW puts \in BOOLEAN, NEW creates \in SUBSET Tasks,
               TaskDone(t, puts, creates)
        PROVE  DrainTypeOK'
    <2>1. task' \in [Tasks -> {"unborn", "pending", "done"}]
      BY <1>0, <1>9 DEF TaskDone
    <2>2. queue' \in Nat
      BY <1>0, <1>9 DEF TaskDone
    <2> QED
      BY <1>9, <2>1, <2>2 DEF TaskDone, DrainTypeOK
  <1>10. CASE CallbackDone
    <2>1. queue' \in Nat
      BY <1>0, <1>10 DEF CallbackDone
    <2> QED
      BY <1>10, <2>1 DEF CallbackDone, DrainTypeOK
  <1>11. CASE Tick
    <2>1. now' \in Nat
      BY <1>0, <1>11 DEF Tick
    <2> QED
      BY <1>11, <2>1 DEF Tick, DrainTypeOK
  <1>12. CASE UNCHANGED drainVars
    BY <1>12 DEF drainVars, DrainTypeOK
  <1> QED
    BY <1>1, <1>2, <1>3, <1>4, <1>5, <1>6, <1>7, <1>8, <1>9, <1>10, <1>11, <1>12
    DEF DrainNext, Drain, Environment

LEMMA DrainInvStays ==
  ASSUME DrainTypeOK, DrainInv, [DrainNext]_drainVars
  PROVE  DrainInv'
  <1>0. /\ timeout \in Nat /\ now \in Nat /\ queue \in Nat /\ TaskDeadline \in Nat
        /\ st \in {"before", "round", "waiting", "flush", "flushing", "done"}
    BY Deadline DEF DrainTypeOK
  <1>d. UNCHANGED timeout => TaskDeadline' = TaskDeadline
    BY DEF TaskDeadline
  <1>p. UNCHANGED task => Pending' = Pending
    BY DEF Pending
  <1>1. CASE Start
    BY <1>0, <1>1, <1>d, <1>p DEF Start, DrainInv
  <1>2. CASE Begin
    BY <1>0, <1>2, <1>d, <1>p DEF Begin, DrainInv
  <1>3. CASE NoMore
    <2>1. st = "round" /\ st' = "flush" /\ UNCHANGED <<timeout, now, task, queue>>
      BY <1>3 DEF NoMore
    <2>2. Pending = {} \/ why' \cap {"rounds", "tasks late"} # {}
      BY <1>3 DEF NoMore, Stop
    <2> QED
      BY <1>0, <2>1, <2>2, <1>d, <1>p DEF DrainInv
  <1>4. CASE AllDone
    BY <1>0, <1>4, <1>d, <1>p DEF AllDone, AfterRound, DrainInv
  <1>5. CASE TasksLate
    BY <1>0, <1>5, <1>d, <1>p DEF TasksLate, Stop, DrainInv
  <1>6. CASE Flush
    <2>1. /\ st = "flush" /\ st' \in {"flushing", "done"} /\ UNCHANGED <<task, queue>>
          /\ why \subseteq why' /\ (st' = "done" => why' # {})
      BY <1>6 DEF Flush, Stop
    <2> QED
      BY <1>0, <2>1, <1>p DEF DrainInv
  <1>7. CASE Flushed
    BY <1>0, <1>7, <1>p DEF Flushed, DrainInv
  <1>8. CASE QueueLate
    BY <1>0, <1>8, <1>p DEF QueueLate, Stop, DrainInv
  <1>9. ASSUME NEW t \in Tasks, NEW puts \in BOOLEAN, NEW creates \in SUBSET Tasks,
               TaskDone(t, puts, creates)
        PROVE  DrainInv'
    <2>1. /\ Pending # {} /\ st # "done" /\ UNCHANGED <<timeout, now, st, why>>
      BY <1>9 DEF TaskDone, Pending
    <2> QED
      BY <1>0, <2>1, <1>d DEF DrainInv
  <1>10. CASE CallbackDone
    BY <1>0, <1>10, <1>d, <1>p DEF CallbackDone, DrainInv
  <1>11. CASE Tick
    <2>1. st \in {"waiting", "flushing"} /\ now' = now + 1 /\ UNCHANGED <<timeout, task, queue, st, why>>
      BY <1>11 DEF Tick
    <2>2. st = "waiting" => now < TaskDeadline
      BY <1>11 DEF Tick
    <2>3. st' \notin {"flush", "done"} /\ Pending' = Pending
      BY <2>1, <1>p
    <2>4. st' = "waiting" => now' =< TaskDeadline'
      BY <1>0, <2>1, <2>2, <1>d
    <2>5. st' \in {"waiting", "flushing"} /\ why' = why
      BY <2>1
    <2> QED
      BY <2>1, <2>3, <2>4, <2>5 DEF DrainInv
  <1>12. CASE UNCHANGED drainVars
    BY <1>12, <1>d, <1>p DEF drainVars, DrainInv
  <1> QED
    BY <1>1, <1>2, <1>3, <1>4, <1>5, <1>6, <1>7, <1>8, <1>9, <1>10, <1>11, <1>12
    DEF DrainNext, Drain, Environment

\* Types of the drain, whatever the tasks of litellm create.
THEOREM DrainTypeCorrect == DrainSpec => []DrainTypeOK
  <1>1. DrainTypeOK /\ [DrainNext]_drainVars => DrainTypeOK'
    BY DrainTypesStay
  <1> QED
    BY <1>1, DrainTypesBegin, PTL DEF DrainSpec

\* Whatever litellm's tasks create and however long they take, a drain that loses
\* callbacks does so because the time or the rounds were used up, or litellm has no
\* worker; and the queue is always left its reserve.
THEOREM DrainsWhatItCan == DrainSpec => []Drained
  <1>1. DrainInit => DrainTypeOK /\ DrainInv
    <2> SUFFICES ASSUME DrainInit PROVE DrainTypeOK /\ DrainInv
      OBVIOUS
    <2>1. DrainTypeOK /\ TaskDeadline \in Nat /\ now = 0 /\ st = "before"
      BY DrainTypesBegin, Deadline DEF DrainTypeOK, DrainInit
    <2> QED
      BY <2>1 DEF DrainInv
  <1>2. DrainTypeOK /\ DrainInv /\ [DrainNext]_drainVars => (DrainTypeOK /\ DrainInv)'
    BY DrainTypesStay, DrainInvStays
  <1>3. DrainTypeOK /\ DrainInv => Drained
    <2> SUFFICES ASSUME DrainTypeOK, DrainInv PROVE Drained
      OBVIOUS
    <2>1. LostForCause
      <3>1. queue \in Nat
        BY DEF DrainTypeOK
      <3>2. ASSUME st = "done", why \subseteq {"queue late"} PROVE Pending = {}
        BY <3>2 DEF DrainInv
      <3>3. ASSUME st = "done", queue > 0 \/ Pending # {} PROVE why # {}
        <4>1. queue = 0 \/ why # {}
          BY <3>3 DEF DrainInv
        <4>2. Pending = {} \/ why # {}
          BY <3>3 DEF DrainInv
        <4> QED
          BY <3>1, <3>3, <4>1, <4>2
      <3> QED
        BY <3>2, <3>3 DEF LostForCause
    <2>2. FlushHasItsTurn
      <3>1. TaskDeadline \in Nat /\ timeout - TaskDeadline = Smaller(Reserve, Half(timeout))
        BY Deadline DEF DrainTypeOK
      <3>2. timeout \in Nat /\ now \in Nat /\ (st = "flush" => now =< TaskDeadline)
        BY DEF DrainTypeOK, DrainInv
      <3> QED
        BY <3>1, <3>2 DEF FlushHasItsTurn
    <2> QED
      BY <2>1, <2>2 DEF Drained
  <1> QED
    BY <1>1, <1>2, <1>3, PTL DEF DrainSpec

-----------------------------------------------------------------------------
(* The arguments of a call.                                                *)

Names == [prefix : Seq(STRING), family : STRING]

LEMMA SettingTypes ==
  ASSUME NEW s \in CallSettings
  PROVE  /\ {s.azure, s.custom, s.thinks, s.parses, s.attribute, s.only, s.order} \subseteq BOOLEAN
         /\ {s.base, s.key, s.effort, s.effortOR} \subseteq STRING
         /\ {s.budget, s.output, s.seed, s.temperature, s.tokensOR, s.capOR} \subseteq Int
  BY CallAssumption

LEMMA PrefixIs ==
  ASSUME NEW S, NEW x, NEW q \in Seq(S)
  PROVE  <<x>> \o q # <<>> /\ (<<x>> \o q)[1] = x
  <1> DEFINE T == S \cup {x}
  <1>1. q \in Seq(T)
    OBVIOUS
  <1>2. x \in T
    OBVIOUS
  <1> HIDE DEF T
  <1> QED
    BY <1>1, <1>2

\* Routing changes the first prefix only, so a model stays of its family and
\* generation, and comes first where it was meant to go.
LEMMA RoutedTo ==
  ASSUME NEW m \in ModelNames, NEW s \in CallSettings
  PROVE  LET r == Routed(m, s)
         IN /\ r.family = m.family
            /\ IsGpt(m) => IsGpt(r) /\ Len(r.prefix) = 1
            /\ Meant(m, s) = IF r.prefix = <<>> THEN "unnamed" ELSE r.prefix[1]
            /\ Explicit(r, "databricks") => Databricks(m)
  <1> DEFINE r == Routed(m, s)
             service == IF s.azure \/ Explicit(m, "azure") THEN "azure" ELSE "openai"
             longer == <<"azure">> \o m.prefix
  <1>0. /\ m \in Names /\ m.prefix \in Seq(STRING)
        /\ m = [prefix |-> m.prefix, family |-> m.family]
    BY CallAssumption DEF Names
  <1>1. CASE IsGpt(m)
    <2>1. r.prefix = <<service>> /\ r.family = m.family
      BY <1>0, <1>1 DEF Routed, Names
    <2>2. <<service>> # <<>> /\ <<service>>[1] = service /\ Len(<<service>>) = 1 /\ DOMAIN <<service>> = {1}
      OBVIOUS
    <2>3. service \in {"openai", "azure"}
      OBVIOUS
    <2>4. m.prefix # <<>> => m.prefix[1] \in {"openai", "azure"}
      BY <1>0, <1>1 DEF IsGpt
    <2>5. Meant(m, s) = service
      BY <1>1, <2>4 DEF Meant, Explicit
    <2> HIDE DEF r, service
    <2>6. IsGpt(r)
      BY <1>1, <2>1, <2>2, <2>3 DEF IsGpt
    <2> QED
      BY <2>1, <2>2, <2>3, <2>5, <2>6 DEF Explicit, r
  <1>2. CASE ~IsGpt(m) /\ s.azure /\ ~Keeps(m)
    <2>1. r.prefix = longer /\ r.family = m.family
      BY <1>0, <1>2 DEF Routed, Names
    <2>2. longer # <<>> /\ longer[1] = "azure"
      BY <1>0, PrefixIs
    <2>3. Meant(m, s) = "azure"
      BY <1>2 DEF Meant, Keeps
    <2> HIDE DEF r, longer
    <2> QED
      BY <1>2, <2>1, <2>2, <2>3 DEF Explicit, r
  <1>3. CASE ~IsGpt(m) /\ ~(s.azure /\ ~Keeps(m))
    <2>1. r = m
      BY <1>3 DEF Routed
    <2>2. Meant(m, s) = IF m.prefix = <<>> THEN "unnamed" ELSE m.prefix[1]
      BY <1>3 DEF Meant, Keeps, Explicit
    <2> QED
      BY <1>3, <2>1, <2>2 DEF Databricks
  <1> QED
    BY <1>1, <1>2, <1>3

\* What is composed.
LEMMA KwargsAre ==
  ASSUME NEW m, NEW s
  PROVE  LET k == Kwargs(m, s)
             r == Routed(m, s)
         IN /\ k.st = "called" /\ k.model = r /\ k.base = Base(m, s) /\ k.key = Key(m, s)
            /\ k.temperature = Temperature(r, s) /\ k.effort = EffortSent(r, s) /\ k.seed = s.seed
            /\ k.thinking = IF Thinks(r, s) THEN s.budget ELSE 0
            /\ k.max = MaxTokens(r, s)
            /\ k.reasoning = IF OpenRouter(r) THEN Reasoning(s) ELSE Reasoning([effortOR |-> "unset", tokensOR |-> 0])
  BY DEF Kwargs

LEMMA CallInitial == ComposeInit => CallInv
  BY DEF ComposeInit, CallInv

LEMMA CallStep == CallInv /\ [Compose]_callVars => CallInv'
  <1> SUFFICES ASSUME CallInv, [Compose]_callVars
               PROVE  CallInv'
    OBVIOUS
  <1>1. CASE Compose
    BY <1>1 DEF Compose, CallInv
  <1>2. CASE UNCHANGED callVars
    BY <1>2 DEF callVars, CallInv
  <1> QED
    BY <1>1, <1>2

LEMMA CalledIs ==
  ASSUME CallInv, Called
  PROVE  /\ asked \in ModelNames /\ settings \in CallSettings
         /\ sent = Kwargs(asked, settings) /\ ~Raises(Routed(asked, settings), settings)
  BY DEF CallInv, Called

\* The service.
LEMMA ServiceIsRight == CallInv => RightService
  <1> SUFFICES ASSUME CallInv, Called
               PROVE  LET p == sent.model.prefix
                      IN /\ Meant(asked, settings) = IF p = <<>> THEN "unnamed" ELSE p[1]
                         /\ IsGpt(asked) => Len(p) = 1
                         /\ p # <<>> /\ p[1] = "databricks" => sent.base = "databricks" /\ sent.key = NoKey
    BY DEF RightService
  <1> DEFINE r == Routed(asked, settings)
  <1>1. asked \in ModelNames /\ settings \in CallSettings /\ sent = Kwargs(asked, settings)
    BY CalledIs
  <1>2. sent.model = r /\ sent.base = Base(asked, settings) /\ sent.key = Key(asked, settings)
    BY <1>1, KwargsAre
  <1>3. /\ IsGpt(asked) => Len(r.prefix) = 1
        /\ Meant(asked, settings) = IF r.prefix = <<>> THEN "unnamed" ELSE r.prefix[1]
        /\ Explicit(r, "databricks") => Databricks(asked)
    BY <1>1, RoutedTo
  <1>4. Databricks(asked) => Base(asked, settings) = "databricks" /\ Key(asked, settings) = NoKey
    BY DEF Base, Key
  <1> QED
    BY <1>2, <1>3, <1>4 DEF Explicit

\* The limits.
LEMMA CapsAreKept == CallInv => WithinCaps
  <1> SUFFICES ASSUME CallInv, Called
               PROVE  /\ Explicit(sent.model, "openrouter") /\ settings.capOR > 0 => sent.max \in 1 .. settings.capOR
                      /\ sent.thinking > 0 =>
                           /\ sent.max \in 1 .. settings.output
                           /\ sent.max >= sent.thinking \/ settings.capOR \in 1 .. sent.thinking - 1
                           /\ sent.temperature = 1
    BY DEF WithinCaps, Explicit
  <1> DEFINE r == Routed(asked, settings)
             thinking == IF Thinks(r, settings) THEN settings.output ELSE 0
  <1>1. /\ settings \in CallSettings /\ sent = Kwargs(asked, settings) /\ ~Raises(r, settings)
        /\ settings.output \in Int /\ settings.budget \in Int /\ settings.capOR \in Int
    BY CalledIs, SettingTypes
  <1>2. /\ sent.model = r /\ sent.max = MaxTokens(r, settings) /\ sent.temperature = Temperature(r, settings)
        /\ sent.thinking = IF Thinks(r, settings) THEN settings.budget ELSE 0
    BY <1>1, KwargsAre
  <1>3. Thinks(r, settings) => settings.budget > 0 /\ settings.output > 0 /\ settings.output >= settings.budget
    BY <1>1 DEF Raises, ThinkingIsValid
  <1>4. sent.max = IF Explicit(r, "openrouter") THEN Capped(thinking, settings) ELSE thinking
    BY <1>2 DEF MaxTokens, OpenRouter
  <1>5. thinking \in Nat
    BY <1>1, <1>3
  <1>6. settings.capOR > 0 => Capped(thinking, settings) \in 1 .. settings.capOR
    BY <1>1, <1>5 DEF Capped
  <1>7. sent.thinking > 0 => Thinks(r, settings) /\ thinking = settings.output /\ sent.thinking = settings.budget
    BY <1>2
  <1>8. ASSUME Thinks(r, settings)
        PROVE  /\ Capped(thinking, settings) \in 1 .. settings.output
               /\ Capped(thinking, settings) >= settings.budget \/ settings.capOR \in 1 .. settings.budget - 1
    BY <1>1, <1>3, <1>8 DEF Capped
  <1>9. Thinks(r, settings) => Temperature(r, settings) = 1
    BY DEF Temperature
  <1> HIDE DEF thinking, r
  <1>10. ASSUME sent.thinking > 0
         PROVE  /\ sent.max \in 1 .. settings.output
                /\ sent.max >= sent.thinking \/ settings.capOR \in 1 .. sent.thinking - 1
    BY <1>1, <1>3, <1>4, <1>7, <1>8, <1>10
  <1> QED
    BY <1>2, <1>4, <1>6, <1>7, <1>9, <1>10

\* The parameters.
LEMMA NoneIsRejected == CallInv => NoRejectedParameter
  <1> SUFFICES ASSUME CallInv, Called
               PROVE  /\ sent.model.family = "gpt-6-sol" /\ IsGpt(sent.model) =>
                           sent.effort \in ReasoningEfforts \ {"minimal", "none"}
                      /\ IsGpt(sent.model) => sent.temperature = -1 \/ sent.model \in Thinking
                      /\ sent.seed >= 0 => sent.temperature =< 0 \/ sent.thinking > 0
                      /\ ~sent.reasoning.enabled => sent.reasoning.tokens = 0 /\ sent.reasoning.effort = "unset"
    BY DEF NoRejectedParameter
  <1> DEFINE r == Routed(asked, settings)
  <1>1. /\ settings \in CallSettings /\ sent = Kwargs(asked, settings) /\ ~Raises(r, settings)
        /\ settings.temperature \in Int /\ settings.seed \in Int
    BY CalledIs, SettingTypes
  <1>2. /\ sent.model = r /\ sent.temperature = Temperature(r, settings) /\ sent.effort = EffortSent(r, settings)
        /\ sent.seed = settings.seed /\ sent.thinking = IF Thinks(r, settings) THEN settings.budget ELSE 0
        /\ sent.reasoning = IF OpenRouter(r) THEN Reasoning(settings)
                                             ELSE Reasoning([effortOR |-> "unset", tokensOR |-> 0])
    BY <1>1, KwargsAre
  <1>3. r.family = "gpt-6-sol" /\ IsGpt(r) => EffortSent(r, settings) \in ReasoningEfforts \ {"minimal", "none"}
    BY DEF EffortSent, EffortFor, Effort, ReasoningEfforts
  <1>4. IsGpt(r) => Temperature(r, settings) = -1 \/ r \in Thinking
    BY DEF Temperature, Thinks
  <1>5. Thinks(r, settings) => settings.budget > 0
    BY <1>1 DEF Raises, ThinkingIsValid
  <1>6. settings.seed >= 0 => settings.temperature =< 0
    BY <1>1 DEF Raises
  <1>7. ~Thinks(r, settings) => Temperature(r, settings) \in {-1, settings.temperature}
    BY DEF Temperature
  <1>8. \A s : ~Reasoning(s).enabled => Reasoning(s).tokens = 0 /\ Reasoning(s).effort = "unset"
    BY DEF Reasoning
  <1> HIDE DEF r
  <1>9. sent.seed >= 0 => sent.temperature =< 0 \/ sent.thinking > 0
    BY <1>1, <1>2, <1>5, <1>6, <1>7
  <1> QED
    BY <1>2, <1>3, <1>4, <1>8, <1>9

\* For every model and every settings, a call goes to the service that was
\* meant, within every cap, and without what its model rejects.
THEOREM CallsAreMeant == ComposeSpec => []CallAsMeant
  <1>1. CallInv => CallAsMeant
    BY ServiceIsRight, CapsAreKept, NoneIsRejected DEF CallAsMeant
  <1> QED
    BY <1>1, CallInitial, CallStep, PTL DEF ComposeSpec
-----------------------------------------------------------------------------
(* The dashboard: what a request is told.                                  *)

\* The first row of the three scopes is the one of the narrowest.
LEMMA SettingsInForce ==
  ASSUME NEW t, NEW repo
  PROVE  SettingsFor(t, repo) = InForce(t, repo)
  <1> DEFINE three == {<<1, repo>>, <<2, "org">>, <<3, "instance">>}
             given == {s \in three : t[s[2]] # NoRow}
             First(s) == s \in given /\ \A o \in given : s[1] =< o[1]
             first == CHOOSE s \in given : \A o \in given : s[1] =< o[1]
  <1>1. InForce(t, repo) = IF given = {} THEN Defaults ELSE t[first[2]]
    BY DEF InForce
  <1>2. \A s \in given : \/ s = <<1, repo>> /\ s[1] = 1 /\ s[2] = repo
                         \/ s = <<2, "org">> /\ s[1] = 2 /\ s[2] = "org"
                         \/ s = <<3, "instance">> /\ s[1] = 3 /\ s[2] = "instance"
    OBVIOUS
  <1>3. /\ t[repo] # NoRow <=> <<1, repo>> \in given
        /\ t["org"] # NoRow <=> <<2, "org">> \in given
        /\ t["instance"] # NoRow <=> <<3, "instance">> \in given
    OBVIOUS
  <1>4. ASSUME NEW s \in given, \A o \in given : s[1] =< o[1]
        PROVE  first = s
    <2>1. first \in given /\ \A o \in given : first[1] =< o[1]
      BY <1>4
    <2> HIDE DEF first, given
    <2>2. first[1] =< s[1] /\ s[1] =< first[1]
      BY <1>4, <2>1
    <2> QED
      BY <1>2, <1>4, <2>1, <2>2
  <1> HIDE DEF first, given
  <1>5. CASE t[repo] # NoRow
    <2>1. <<1, repo>> \in given /\ \A o \in given : <<1, repo>>[1] =< o[1]
      BY <1>2, <1>3, <1>5
    <2>2. first = <<1, repo>> /\ given # {}
      BY <1>4, <2>1
    <2> QED
      BY <1>1, <1>5, <2>2 DEF SettingsFor
  <1>6. CASE t[repo] = NoRow /\ t["org"] # NoRow
    <2>1. \A o \in given : o # <<1, repo>>
      BY <1>3, <1>6
    <2>2. <<2, "org">> \in given /\ \A o \in given : <<2, "org">>[1] =< o[1]
      BY <1>2, <1>3, <1>6, <2>1
    <2>3. first = <<2, "org">> /\ given # {}
      BY <1>4, <2>2
    <2> QED
      BY <1>1, <1>6, <2>3 DEF SettingsFor
  <1>7. CASE t[repo] = NoRow /\ t["org"] = NoRow /\ t["instance"] # NoRow
    <2>1. \A o \in given : o # <<1, repo>> /\ o # <<2, "org">>
      BY <1>3, <1>7
    <2>2. <<3, "instance">> \in given /\ \A o \in given : <<3, "instance">>[1] =< o[1]
      BY <1>2, <1>3, <1>7, <2>1
    <2>3. first = <<3, "instance">> /\ given # {}
      BY <1>4, <2>2
    <2> QED
      BY <1>1, <1>7, <2>3 DEF SettingsFor, Or
  <1>8. CASE t[repo] = NoRow /\ t["org"] = NoRow /\ t["instance"] = NoRow
    <2>1. given = {}
      BY <1>2, <1>3, <1>8
    <2> QED
      BY <1>1, <1>8, <2>1 DEF SettingsFor, Or
  <1> QED
    BY <1>5, <1>6, <1>7, <1>8

LEMMA HeldHas ==
  ASSUME NEW t, NEW a, NEW s, NEW d
  PROVE  /\ \A r \in Repos : <<"row", r, InForce(t, r)>> \in Held(t, a, s, d)
         /\ <<"active", a>> \in Held(t, a, s, d)
         /\ \A p \in Providers : Known(p, s) \in Held(t, a, s, d)
         /\ d => /\ \A r \in Repos : <<"row", r, Defaults>> \in Held(t, a, s, d)
                 /\ <<"active", Absent>> \in Held(t, a, s, d)
                 /\ \A p \in Providers : <<"unknown", p>> \in Held(t, a, s, d)
  <1>1. \A r \in Repos : <<"row", r, InForce(t, r)>> \in Held(t, a, s, d)
    BY DEF Held
  <1>2. <<"active", a>> \in Held(t, a, s, d)
    BY DEF Held
  <1>3. \A p \in Providers : Known(p, s) \in Held(t, a, s, d)
    <2>1. ASSUME NEW p \in Providers, p \in s
          PROVE  Known(p, s) \in Held(t, a, s, d)
      BY <2>1 DEF Held, Known
    <2>2. ASSUME NEW p \in Providers, p \notin s
          PROVE  Known(p, s) \in Held(t, a, s, d)
      BY <2>2 DEF Held, Known
    <2> QED
      BY <2>1, <2>2
  <1>4. ASSUME d
        PROVE  /\ \A r \in Repos : <<"row", r, Defaults>> \in Held(t, a, s, d)
               /\ <<"active", Absent>> \in Held(t, a, s, d)
               /\ \A p \in Providers : <<"unknown", p>> \in Held(t, a, s, d)
    BY <1>4 DEF Held
  <1> QED
    BY <1>1, <1>2, <1>3, <1>4

\* What a load returns holds now.
LEMMA LoadedHolds ==
  ASSUME StoreInv
  PROVE  /\ LoadRows \in Settings
         /\ LoadProviders \in [active : Providers \cup {Absent}, known : SUBSET Providers]
         /\ \A r \in Repos : <<"row", r, SettingsFor(LoadRows, r)>> \in recent[0]
         /\ <<"active", LoadProviders.active>> \in recent[0]
         /\ \A p \in Providers : Known(p, LoadProviders.known) \in recent[0]
  <1> DEFINE held == Held(table, active, stored, down)
  <1>1. held \subseteq recent[0]
    BY DEF StoreInv, CachesBacked
  <1>2. /\ table \in Settings /\ active \in Providers \cup {Absent} /\ stored \subseteq Providers
    BY DEF StoreInv, StoreTypeOK
  <1>3. CASE ~down
    <2>1. LoadRows = table /\ LoadProviders = [active |-> active, known |-> stored]
      BY <1>3 DEF LoadRows, LoadProviders
    <2>2. /\ \A r \in Repos : <<"row", r, InForce(table, r)>> \in held
          /\ <<"active", active>> \in held
          /\ \A p \in Providers : Known(p, stored) \in held
      BY HeldHas
    <2>3. \A r \in Repos : <<"row", r, SettingsFor(table, r)>> \in held
      BY <2>2, SettingsInForce
    <2> HIDE DEF held
    <2> QED
      BY <1>1, <1>2, <2>1, <2>2, <2>3
  <1>4. CASE down
    <2>1. LoadRows = Empty /\ LoadProviders = [active |-> Absent, known |-> {}]
      BY <1>4 DEF LoadRows, LoadProviders
    <2>2. /\ \A r \in Repos : <<"row", r, Defaults>> \in held
          /\ <<"active", Absent>> \in held
          /\ \A p \in Providers : <<"unknown", p>> \in held
      BY <1>4, HeldHas
    <2>3. \A r \in Repos : SettingsFor(Empty, r) = Defaults
      BY DEF SettingsFor, Empty, Or, Scopes
    <2>4. Empty \in Settings
      BY DEF Empty, Settings
    <2>5. \A p \in Providers : Known(p, {}) = <<"unknown", p>>
      BY DEF Known
    <2> HIDE DEF held
    <2> QED
      BY <1>1, <2>1, <2>2, <2>3, <2>4, <2>5
  <1> QED
    BY <1>3, <1>4

RowsSince(rs, age) == \A r \in Repos : <<"row", r, SettingsFor(rs, r)>> \in recent[age]
ProvsSince(ps, age) ==
  <<"active", ps.active>> \in recent[age] /\ \A p \in Providers : Known(p, ps.known) \in recent[age]

LEMMA Recent ==
  ASSUME NEW age \in 0 .. Ttl
  PROVE  recent[age] \subseteq Lately
  BY DEF Lately

\* What a reader is told, and how old it is when it has been read.
LEMMA RowsRead ==
  ASSUME StoreInv
  PROVE  LET age == IF Expired(rowsAge) THEN 0 ELSE rowsAge
         IN /\ Rows \in Settings /\ age \in 0 .. Ttl /\ RowsSince(Rows, age)
            /\ \A r \in Repos : <<"row", r, SettingsFor(Rows, r)>> \in Lately
  <1> DEFINE age == IF Expired(rowsAge) THEN 0 ELSE rowsAge
  <1>1. rows \in Settings /\ rowsAge \in 0 .. Ttl + 1 /\ Ttl \in Nat
    BY StoreAssumption DEF StoreInv, StoreTypeOK
  <1>2. age \in 0 .. Ttl
    BY <1>1 DEF Expired
  <1>3. Rows \in Settings /\ RowsSince(Rows, age)
    <2>1. CASE Expired(rowsAge)
      BY <2>1, LoadedHolds DEF Rows, RowsSince
    <2>2. CASE ~Expired(rowsAge)
      BY <1>1, <2>2 DEF Rows, RowsSince, StoreInv, CachesBacked
    <2> QED
      BY <2>1, <2>2
  <1> HIDE DEF age
  <1>4. recent[age] \subseteq Lately
    BY <1>2, Recent
  <1>5. \A r \in Repos : <<"row", r, SettingsFor(Rows, r)>> \in Lately
    BY <1>3, <1>4 DEF RowsSince
  <1> QED
    BY <1>2, <1>3, <1>5 DEF age

LEMMA ProvsRead ==
  ASSUME StoreInv
  PROVE  LET age == IF Expired(provsAge) THEN 0 ELSE provsAge
         IN /\ Provs \in [active : Providers \cup {Absent}, known : SUBSET Providers]
            /\ age \in 0 .. Ttl /\ ProvsSince(Provs, age)
            /\ <<"active", Provs.active>> \in Lately
            /\ \A p \in Providers : Known(p, Provs.known) \in Lately
  <1> DEFINE age == IF Expired(provsAge) THEN 0 ELSE provsAge
  <1>1. /\ provs \in [active : Providers \cup {Absent}, known : SUBSET Providers]
        /\ provsAge \in 0 .. Ttl + 1 /\ Ttl \in Nat
    BY StoreAssumption DEF StoreInv, StoreTypeOK
  <1>2. age \in 0 .. Ttl
    BY <1>1 DEF Expired
  <1>3. /\ Provs \in [active : Providers \cup {Absent}, known : SUBSET Providers]
        /\ ProvsSince(Provs, age)
    <2>1. CASE Expired(provsAge)
      BY <2>1, LoadedHolds DEF Provs, ProvsSince
    <2>2. CASE ~Expired(provsAge)
      BY <1>1, <2>2 DEF Provs, ProvsSince, StoreInv, CachesBacked
    <2> QED
      BY <2>1, <2>2
  <1> HIDE DEF age
  <1>4. recent[age] \subseteq Lately
    BY <1>2, Recent
  <1>5. <<"active", Provs.active>> \in Lately /\ \A p \in Providers : Known(p, Provs.known) \in Lately
    BY <1>3, <1>4 DEF ProvsSince
  <1> QED
    BY <1>2, <1>3, <1>5 DEF age

Once(ms) == \A i \in DOMAIN ms : i > 1 => ms[i] # ms[1]

\* The models of a provider: those of its followers are not its own.
LEMMA ModelsGood ==
  ASSUME NEW ps, ps \subseteq Providers, NEW p, NEW ms \in Models(ps, p)
  PROVE  Once(ms)
  <1>1. CASE p = Absent
    <2>1. ms = <<>>
      BY <1>1 DEF Models
    <2> QED
      BY <2>1 DEF Once
  <1>2. CASE p # Absent
    <2> DEFINE after == Followers(ps, p)
               n == Cardinality(after)
    <2>1. after \subseteq ps /\ \A o \in after : Model[o] # Model[p]
      BY DEF Followers
    <2>2. IsFiniteSet(after)
      <3>1. after \subseteq Providers
        BY <2>1
      <3> HIDE DEF after
      <3> QED
        BY <3>1, StoreAssumption, FS_Subset
    <2>3. n \in Nat
      BY <2>2, FS_CardinalityType
    <2>4. PICK f \in InOrder(after) : ms = <<Model[p]>> \o [i \in DOMAIN f |-> Model[f[i]]]
      BY <1>2 DEF Models
    <2> HIDE DEF after
    <2>5. f \in [1 .. n -> after]
      BY <2>4 DEF InOrder
    <2> HIDE DEF n
    <2> DEFINE rest == [i \in 1 .. n |-> Model[f[i]]]
    <2>6. ms = <<Model[p]>> \o rest
      BY <2>4, <2>5
    <2>7. \A i \in 1 .. n : rest[i] # Model[p]
      BY <2>1, <2>5
    <2>8. rest \in Seq({Model[f[i]] : i \in 1 .. n}) /\ Len(rest) = n
      BY <2>3
    <2> HIDE DEF rest
    <2>9. /\ DOMAIN ms = 1 .. n + 1 /\ ms[1] = Model[p]
          /\ \A i \in 2 .. n + 1 : ms[i] = rest[i - 1]
      BY <2>3, <2>6, <2>8
    <2> QED
      BY <2>3, <2>7, <2>9 DEF Once
  <1> QED
    BY <1>1, <1>2

\* The four parts of StoreInv: the tables, the two caches, the requests.
TablesOK ==
  /\ table \in Settings /\ active \in Providers \cup {Absent} /\ stored \subseteq Providers /\ down \in BOOLEAN
  /\ inst \in {Absent, "id"} /\ edits \in Nat /\ DOMAIN recent = 0 .. Ttl
  /\ Held(table, active, stored, down) \subseteq recent[0]
RowsOK ==
  rows \in Settings /\ rowsAge \in 0 .. Ttl + 1 /\ (~Expired(rowsAge) => RowsSince(rows, rowsAge))
ProvsOK ==
  /\ provs \in [active : Providers \cup {Absent}, known : SUBSET Providers] /\ provsAge \in 0 .. Ttl + 1
  /\ ~Expired(provsAge) => ProvsSince(provs, provsAge)
RequestsOK ==
  /\ DOMAIN req = Arrivals
  /\ \A q \in Arrivals : /\ req[q].st \in States /\ req[q].repo \in Repos \cup {Absent}
                         /\ req[q].st \in {"queued", "running"} => req[q].repo \in Repos
                         /\ req[q].backed /\ Once(req[q].models)

LEMMA StoreParts ==
  ASSUME StoreInv
  PROVE  TablesOK /\ RowsOK /\ ProvsOK /\ RequestsOK
  <1>1. TablesOK
    BY DEF StoreInv, StoreTypeOK, CachesBacked, TablesOK
  <1>2. RowsOK
    BY DEF StoreInv, StoreTypeOK, CachesBacked, RowsOK, RowsSince
  <1>3. ProvsOK
    BY DEF StoreInv, StoreTypeOK, CachesBacked, ProvsOK, ProvsSince
  <1>4. RequestsOK
    BY DEF StoreInv, StoreTypeOK, AsConfigured, Backed, PrimaryOnce, RequestsOK, Once
  <1> QED
    BY <1>1, <1>2, <1>3, <1>4

LEMMA StoreWhole ==
  TablesOK /\ RowsOK /\ ProvsOK /\ RequestsOK => StoreInv
  <1> SUFFICES ASSUME TablesOK, RowsOK, ProvsOK, RequestsOK
               PROVE  StoreInv
    OBVIOUS
  <1>1. StoreTypeOK
    BY DEF StoreTypeOK, TablesOK, RowsOK, ProvsOK, RequestsOK
  <1>2. CachesBacked
    BY DEF CachesBacked, TablesOK, RowsOK, ProvsOK, RowsSince, ProvsSince
  <1>3. AsConfigured
    BY DEF AsConfigured, Backed, PrimaryOnce, RequestsOK, Once
  <1> QED
    BY <1>1, <1>2, <1>3 DEF StoreInv

LEMMA StoreWholeNext ==
  TablesOK' /\ RowsOK' /\ ProvsOK' /\ RequestsOK' => StoreInv'
  BY StoreWhole, PTL

\* The caches after a reader, and after a step that leaves them alone.
LEMMA RowsAfter ==
  ASSUME StoreInv, ReadRows \/ UNCHANGED <<rows, rowsAge>>, UNCHANGED recent
  PROVE  RowsOK'
  <1>1. CASE ReadRows
    <2> DEFINE age == IF Expired(rowsAge) THEN 0 ELSE rowsAge
    <2>1. Rows \in Settings /\ age \in 0 .. Ttl /\ RowsSince(Rows, age)
      BY RowsRead
    <2>2. rows' = Rows /\ rowsAge' = age
      BY <1>1 DEF ReadRows
    <2> HIDE DEF age
    <2>3. RowsSince(rows, rowsAge)'
      BY <2>1, <2>2 DEF RowsSince
    <2> QED
      BY <2>1, <2>2, <2>3, StoreAssumption DEF RowsOK
  <1>2. CASE UNCHANGED <<rows, rowsAge>>
    BY <1>2, StoreParts DEF RowsOK, RowsSince
  <1> QED
    BY <1>1, <1>2

LEMMA ProvsAfter ==
  ASSUME StoreInv, ReadProviders \/ UNCHANGED <<provs, provsAge>>, UNCHANGED recent
  PROVE  ProvsOK'
  <1>1. CASE ReadProviders
    <2> DEFINE age == IF Expired(provsAge) THEN 0 ELSE provsAge
    <2>1. /\ Provs \in [active : Providers \cup {Absent}, known : SUBSET Providers]
          /\ age \in 0 .. Ttl /\ ProvsSince(Provs, age)
      BY ProvsRead
    <2>2. provs' = Provs /\ provsAge' = age
      BY <1>1 DEF ReadProviders
    <2> HIDE DEF age
    <2>3. ProvsSince(provs, provsAge)'
      BY <2>1, <2>2 DEF ProvsSince
    <2> QED
      BY <2>1, <2>2, <2>3, StoreAssumption DEF ProvsOK
  <1>2. CASE UNCHANGED <<provs, provsAge>>
    BY <1>2, StoreParts DEF ProvsOK, ProvsSince
  <1> QED
    BY <1>1, <1>2

\* A step that leaves the dashboard alone, but may look up the installation.
LEMMA TablesAfter ==
  ASSUME StoreInv, UNCHANGED <<database, edits, recent>>, inst' \in {Absent, "id"}
  PROVE  TablesOK'
  BY StoreParts DEF TablesOK, database

\* A request that is told of what held lately.
LEMMA Told ==
  ASSUME StoreInv, NEW q \in Arrivals, NEW next \in States, NEW kind, NEW repo \in Repos \cup {Absent},
         next \in {"queued", "running"} => repo \in Repos, NEW models, Once(models), NEW commands, NEW facts, facts \subseteq Lately,
         req' = [req EXCEPT ![q] = Request(q, next, kind, repo, models, commands, facts)]
  PROVE  RequestsOK'
  <1> DEFINE one == Request(q, next, kind, repo, models, commands, facts)
  <1>1. one.st = next /\ one.repo = repo /\ one.models = models
    BY DEF Request
  <1>2. one.backed
    BY StoreParts DEF Request, RequestsOK
  <1>3. req' = [req EXCEPT ![q] = one]
    OBVIOUS
  <1> HIDE DEF one
  <1> QED
    BY <1>1, <1>2, <1>3, StoreParts DEF RequestsOK

LEMMA RunsTold ==
  ASSUME StoreInv, NEW q \in Arrivals, req[q].repo \in Repos, NEW facts, facts \subseteq Lately, Runs(q, facts)
  PROVE  RequestsOK'
  <1>1. req' = [req EXCEPT ![q] =
                  Request(q, "running", req[q].kind, req[q].repo, req[q].models, req[q].commands, facts)]
    BY DEF Runs
  <1>2. req[q].repo \in Repos \cup {Absent} /\ Once(req[q].models) /\ "running" \in States
    BY StoreParts DEF RequestsOK, States
  <1> QED
    BY <1>1, <1>2, Told

LEMMA EndsTold ==
  ASSUME StoreInv, NEW q \in Arrivals, NEW next \in {"ignored", "refused", "done"}, NEW facts, facts \subseteq Lately,
         Ends(q, next, facts)
  PROVE  RequestsOK'
  <1>1. req' = [req EXCEPT ![q] = Request(q, next, Absent, Absent, <<>>, <<>>, facts)]
    BY DEF Ends
  <1>2. Once(<<>>)
    BY DEF Once
  <1>3. next \in States /\ next \notin {"queued", "running"}
    BY DEF States
  <1> QED
    BY <1>1, <1>2, <1>3, Told

\* One lemma per operation.
LEMMA WebhookKeeps ==
  ASSUME StoreInv, NEW q \in Arrivals, NEW kind, NEW repo \in Repos, Webhook(q, kind, repo)
  PROVE  StoreInv'
  <1> DEFINE cfg == SettingsFor(Rows, repo)
             facts == {<<"row", repo, cfg>>, <<"active", Provs.active>>}
  <1>1. /\ ReadRows /\ ReadProviders
        /\ \/ /\ "enabled" \in cfg
              /\ \E models \in Models(Provs.known, Provs.active) :
                   req' = [req EXCEPT ![q] = Request(q, "queued", kind, repo, models, Commands(kind, cfg), facts)]
           \/ Ends(q, "ignored", facts)
        /\ UNCHANGED <<database, inst, edits, recent>>
    BY DEF Webhook
  <1>2. facts \subseteq Lately
    BY RowsRead, ProvsRead
  <1> HIDE DEF facts
  <1>3. Provs.known \subseteq Providers
    BY ProvsRead
  <1>4. RequestsOK'
    <2>1. CASE Ends(q, "ignored", facts)
      BY <1>2, <2>1, EndsTold
    <2>2. ASSUME NEW models \in Models(Provs.known, Provs.active),
                 req' = [req EXCEPT ![q] = Request(q, "queued", kind, repo, models, Commands(kind, cfg), facts)]
          PROVE  RequestsOK'
      <3>1. Once(models)
        BY <1>3, ModelsGood
      <3>2. "queued" \in States /\ repo \in Repos \cup {Absent}
        BY DEF States
      <3> DEFINE commands == Commands(kind, cfg)
      <3>3. req' = [req EXCEPT ![q] = Request(q, "queued", kind, repo, models, commands, facts)]
        BY <2>2
      <3> HIDE DEF commands
      <3> QED
        BY <1>2, <3>1, <3>2, <3>3, Told
    <2> QED
      BY <1>1, <2>1, <2>2
  <1>5. TablesOK'
    BY <1>1, TablesAfter, StoreParts DEF TablesOK
  <1>6. RowsOK' /\ ProvsOK'
    BY <1>1, RowsAfter, ProvsAfter
  <1> QED
    BY <1>4, <1>5, <1>6, StoreWholeNext

LEMMA AutomaticKeeps ==
  ASSUME StoreInv, NEW q \in Arrivals, Automatic(q)
  PROVE  StoreInv'
  <1>1. RequestsOK'
    <2>1. {} \subseteq Lately /\ req[q].repo \in Repos
      BY StoreParts DEF Automatic, RequestsOK
    <2>2. Ends(q, "ignored", {}) \/ Runs(q, {})
      BY DEF Automatic
    <2> QED
      BY <2>1, <2>2, EndsTold, RunsTold
  <1>2. TablesOK' /\ RowsOK' /\ ProvsOK'
    BY TablesAfter, RowsAfter, ProvsAfter, StoreParts DEF Automatic, caches, TablesOK
  <1> QED
    BY <1>1, <1>2, StoreWholeNext

LEMMA CommentKeeps ==
  ASSUME StoreInv, NEW q \in Arrivals, Comment(q)
  PROVE  StoreInv'
  <1> DEFINE facts == {<<"row", req[q].repo, SettingsFor(Rows, req[q].repo)>>}
  <1>0. req[q].repo \in Repos
    BY StoreParts DEF Comment, RequestsOK
  <1>1. facts \subseteq Lately
    BY <1>0, RowsRead
  <1>2. Runs(q, facts) \/ Ends(q, "ignored", facts)
    BY DEF Comment
  <1> HIDE DEF facts
  <1>3. RequestsOK'
    BY <1>0, <1>1, <1>2, EndsTold, RunsTold
  <1>4. TablesOK' /\ RowsOK' /\ ProvsOK'
    BY TablesAfter, RowsAfter, ProvsAfter, StoreParts DEF Comment, TablesOK
  <1> QED
    BY <1>3, <1>4, StoreWholeNext

LEMMA EndpointKeeps ==
  ASSUME StoreInv, NEW q \in Arrivals, NEW gated \in BOOLEAN, NEW repo \in Repos,
         NEW choice \in Providers \cup {Absent}, Endpoint(q, gated, repo, choice)
  PROVE  StoreInv'
  <1> DEFINE cfg == SettingsFor(Rows, repo)
             open == gated => "publish" \in cfg
             p == IF choice = Absent THEN Provs.active ELSE choice
             gate == IF gated THEN {<<"row", repo, cfg>>} ELSE {}
             chosen == IF ~open THEN {} ELSE IF choice = Absent THEN {<<"active", p>>} ELSE {Known(p, Provs.known)}
             facts == gate \cup chosen
  <1>1. /\ IF gated THEN ReadRows ELSE UNCHANGED <<rows, rowsAge>>
        /\ IF open THEN Installed /\ ReadProviders ELSE UNCHANGED <<inst, provs, provsAge>>
        /\ \/ \E models \in Models(Provs.known, p) :
                req' = [req EXCEPT ![q] = Request(q, "running", Absent, repo, models, <<>>, facts)]
           \/ Ends(q, "refused", facts)
        /\ UNCHANGED <<database, edits, recent>>
    BY DEF Endpoint
  <1>2. facts \subseteq Lately
    <2>1. gate \subseteq Lately
      BY RowsRead
    <2>2. chosen \subseteq Lately
      <3>1. CASE choice = Absent
        BY <3>1, ProvsRead
      <3>2. CASE choice # Absent
        BY <3>2, ProvsRead
      <3> QED
        BY <3>1, <3>2
    <2> QED
      BY <2>1, <2>2
  <1> HIDE DEF facts
  <1>3. Provs.known \subseteq Providers
    BY ProvsRead
  <1>4. RequestsOK'
    <2>1. CASE Ends(q, "refused", facts)
      BY <1>2, <2>1, EndsTold
    <2>2. ASSUME NEW models \in Models(Provs.known, p),
                 req' = [req EXCEPT ![q] = Request(q, "running", Absent, repo, models, <<>>, facts)]
          PROVE  RequestsOK'
      <3> HIDE DEF p
      <3>1. Once(models)
        BY <1>3, ModelsGood
      <3>2. "running" \in States /\ repo \in Repos \cup {Absent}
        BY DEF States
      <3> QED
        BY <1>2, <2>2, <3>1, <3>2, Told
    <2> QED
      BY <1>1, <2>1, <2>2
  <1>5. TablesOK'
    <2>1. inst' \in {Absent, "id"}
      BY <1>1, StoreParts DEF TablesOK, Installed
    <2> QED
      BY <1>1, <2>1, TablesAfter
  <1>6. RowsOK'
    <2>1. ReadRows \/ UNCHANGED <<rows, rowsAge>>
      BY <1>1
    <2> QED
      BY <1>1, <2>1, RowsAfter
  <1>7. ProvsOK'
    <2>1. ReadProviders \/ UNCHANGED <<provs, provsAge>>
      BY <1>1
    <2> QED
      BY <1>1, <2>1, ProvsAfter
  <1> QED
    BY <1>4, <1>5, <1>6, <1>7, StoreWholeNext

LEMMA TestProviderKeeps ==
  ASSUME StoreInv, NEW q \in Arrivals, NEW choice \in Providers, TestProvider(q, choice)
  PROVE  StoreInv'
  <1> DEFINE facts == {Known(choice, LoadProviders.known)}
             next == IF choice \in LoadProviders.known THEN "done" ELSE "refused"
  <1>1. provs' = LoadProviders /\ provsAge' = 0 /\ Ends(q, next, facts)
    BY DEF TestProvider
  <1>2. facts \subseteq Lately
    <2>1. Known(choice, LoadProviders.known) \in recent[0]
      BY LoadedHolds
    <2>2. 0 \in 0 .. Ttl
      BY StoreAssumption
    <2> QED
      BY <2>1, <2>2, Recent
  <1>3. next \in {"ignored", "refused", "done"}
    OBVIOUS
  <1> HIDE DEF facts, next
  <1>4. RequestsOK'
    BY <1>1, <1>2, <1>3, EndsTold
  <1>5. ProvsOK'
    BY <1>1, LoadedHolds, StoreAssumption DEF ProvsOK, ProvsSince, TestProvider
  <1>6. TablesOK' /\ RowsOK'
    BY TablesAfter, RowsAfter, StoreParts DEF TestProvider, TablesOK
  <1> QED
    BY <1>4, <1>5, <1>6, StoreWholeNext

LEMMA FinishKeeps ==
  ASSUME StoreInv, NEW q \in Arrivals, Finish(q)
  PROVE  StoreInv'
  <1>1. RequestsOK'
    <2>1. {} \subseteq Lately
      OBVIOUS
    <2> QED
      BY <2>1, EndsTold DEF Finish
  <1>2. TablesOK' /\ RowsOK' /\ ProvsOK'
    BY TablesAfter, RowsAfter, ProvsAfter, StoreParts DEF Finish, caches, TablesOK
  <1> QED
    BY <1>1, <1>2, StoreWholeNext

\* What is noted adds to what held lately, and takes nothing away.
LEMMA NotedAdds ==
  ASSUME StoreInv, NEW held, recent' = [recent EXCEPT ![0] = @ \cup held], UNCHANGED <<caches, req>>
  PROVE  /\ DOMAIN recent' = 0 .. Ttl /\ held \subseteq recent'[0]
         /\ RowsOK' /\ ProvsOK' /\ RequestsOK'
  <1>1. DOMAIN recent = 0 .. Ttl /\ 0 \in 0 .. Ttl
    BY StoreParts, StoreAssumption DEF TablesOK
  <1>2. DOMAIN recent' = 0 .. Ttl /\ held \subseteq recent'[0]
    BY <1>1
  <1>3. \A age \in 0 .. Ttl : recent[age] \subseteq recent'[age]
    BY <1>1
  <1>4. RowsOK'
    <2>1. rowsAge \in 0 .. Ttl + 1 /\ (~Expired(rowsAge) => rowsAge \in 0 .. Ttl)
      BY StoreParts, StoreAssumption DEF RowsOK, Expired
    <2> QED
      BY <1>3, <2>1, StoreParts DEF RowsOK, RowsSince, Expired, caches
  <1>5. ProvsOK'
    <2>1. provsAge \in 0 .. Ttl + 1 /\ (~Expired(provsAge) => provsAge \in 0 .. Ttl)
      BY StoreParts, StoreAssumption DEF ProvsOK, Expired
    <2> QED
      BY <1>3, <2>1, StoreParts DEF ProvsOK, ProvsSince, Expired, caches
  <1>6. RequestsOK'
    BY StoreParts DEF RequestsOK
  <1> QED
    BY <1>2, <1>4, <1>5, <1>6

LEMMA EditRowKeeps ==
  ASSUME StoreInv, NEW scope \in Scopes, NEW row \in RowChoices \cup {NoRow}, EditRow(scope, row)
  PROVE  StoreInv'
  <1> DEFINE held == Held(table', active, stored, down)
  <1>1. recent' = [recent EXCEPT ![0] = @ \cup held] /\ UNCHANGED <<active, stored, down, caches, req>>
    BY DEF EditRow, Noted
  <1>2. held = Held(table, active, stored, down)'
    BY <1>1 DEF Held
  <1>3. table' = [table EXCEPT ![scope] = row] /\ edits' = edits + 1
    BY DEF EditRow
  <1> HIDE DEF held
  <1>4. DOMAIN recent' = 0 .. Ttl /\ held \subseteq recent'[0] /\ RowsOK' /\ ProvsOK' /\ RequestsOK'
    BY <1>1, NotedAdds
  <1>5. table' \in Settings
    BY <1>3, StoreParts, StoreAssumption DEF TablesOK, Settings
  <1>6. /\ active' \in Providers \cup {Absent} /\ stored' \subseteq Providers /\ down' \in BOOLEAN
        /\ inst' \in {Absent, "id"} /\ edits' \in Nat
    BY <1>1, <1>3, StoreParts DEF TablesOK, caches
  <1>7. TablesOK'
    BY <1>2, <1>4, <1>5, <1>6 DEF TablesOK
  <1> QED
    BY <1>4, <1>7, StoreWholeNext

LEMMA EditProvidersKeeps ==
  ASSUME StoreInv, NEW a \in Providers \cup {Absent}, NEW s \in SUBSET Providers, EditProviders(a, s)
  PROVE  StoreInv'
  <1> DEFINE held == Held(table, a, s, down)
  <1>1. recent' = [recent EXCEPT ![0] = @ \cup held] /\ UNCHANGED <<table, down, caches, req>>
    BY DEF EditProviders, Noted
  <1>2. active' = a /\ stored' = s /\ edits' = edits + 1
    BY DEF EditProviders
  <1>3. held = Held(table, active, stored, down)'
    BY <1>1, <1>2 DEF Held
  <1> HIDE DEF held
  <1>4. DOMAIN recent' = 0 .. Ttl /\ held \subseteq recent'[0] /\ RowsOK' /\ ProvsOK' /\ RequestsOK'
    BY <1>1, NotedAdds
  <1>5. TablesOK'
    BY <1>1, <1>2, <1>3, <1>4, StoreParts DEF TablesOK, caches
  <1> QED
    BY <1>4, <1>5, StoreWholeNext

LEMMA OutageKeeps ==
  ASSUME StoreInv, Outage
  PROVE  StoreInv'
  <1> DEFINE held == Held(table, active, stored, down')
  <1>1. recent' = [recent EXCEPT ![0] = @ \cup held] /\ UNCHANGED <<table, active, stored, caches, req>>
    BY DEF Outage, Noted
  <1>2. down' = ~down /\ edits' = edits + 1
    BY DEF Outage
  <1>3. held = Held(table, active, stored, down)'
    BY <1>1 DEF Held
  <1> HIDE DEF held
  <1>4. DOMAIN recent' = 0 .. Ttl /\ held \subseteq recent'[0] /\ RowsOK' /\ ProvsOK' /\ RequestsOK'
    BY <1>1, NotedAdds
  <1>5. down' \in BOOLEAN
    BY <1>2
  <1>6. TablesOK'
    BY <1>1, <1>2, <1>3, <1>4, <1>5, StoreParts DEF TablesOK, caches
  <1> QED
    BY <1>4, <1>6, StoreWholeNext

\* The caches and what is remembered age together.
LEMMA TimePassesKeeps ==
  ASSUME StoreInv, TimePasses
  PROVE  StoreInv'
  <1> DEFINE held == Held(table, active, stored, down)
  <1>1. /\ rowsAge' = Older(rowsAge) /\ provsAge' = Older(provsAge)
        /\ recent' = [age \in 0 .. Ttl |-> IF age = 0 THEN held ELSE recent[age - 1]]
        /\ UNCHANGED <<database, rows, provs, inst, req, edits>>
    BY DEF TimePasses
  <1>2. held = Held(table, active, stored, down)'
    BY <1>1 DEF Held, database
  <1> HIDE DEF held
  <1>3. 0 \in 0 .. Ttl /\ \A age \in 0 .. Ttl : age + 1 \in 0 .. Ttl => recent'[age + 1] = recent[age]
    BY <1>1, StoreAssumption
  <1>4. TablesOK'
    BY <1>1, <1>2, <1>3, StoreParts DEF TablesOK, database
  <1>5. RowsOK'
    <2>1. rowsAge \in 0 .. Ttl + 1 /\ rowsAge' \in 0 .. Ttl + 1
      BY <1>1, StoreParts, StoreAssumption DEF RowsOK, Older
    <2>2. ASSUME ~Expired(rowsAge')
          PROVE  /\ rowsAge \in 0 .. Ttl /\ rowsAge' = rowsAge + 1 /\ rowsAge + 1 \in 0 .. Ttl
                 /\ ~Expired(rowsAge)
      BY <1>1, <2>1, <2>2, StoreAssumption DEF Older, Expired
    <2>3. ~Expired(rowsAge') => recent'[rowsAge'] = recent[rowsAge] /\ ~Expired(rowsAge)
      BY <1>3, <2>2
    <2> QED
      BY <1>1, <2>1, <2>3, StoreParts DEF RowsOK, RowsSince, Expired
  <1>6. ProvsOK'
    <2>1. provsAge \in 0 .. Ttl + 1 /\ provsAge' \in 0 .. Ttl + 1
      BY <1>1, StoreParts, StoreAssumption DEF ProvsOK, Older
    <2>2. ASSUME ~Expired(provsAge')
          PROVE  /\ provsAge \in 0 .. Ttl /\ provsAge' = provsAge + 1 /\ provsAge + 1 \in 0 .. Ttl
                 /\ ~Expired(provsAge)
      BY <1>1, <2>1, <2>2, StoreAssumption DEF Older, Expired
    <2>3. ~Expired(provsAge') => recent'[provsAge'] = recent[provsAge] /\ ~Expired(provsAge)
      BY <1>3, <2>2
    <2> QED
      BY <1>1, <2>1, <2>3, StoreParts DEF ProvsOK, ProvsSince, Expired
  <1>7. RequestsOK'
    BY <1>1, StoreParts DEF RequestsOK
  <1> QED
    BY <1>4, <1>5, <1>6, <1>7, StoreWholeNext

LEMMA StoreInitially ==
  ASSUME StoreInit
  PROVE  StoreInv
  <1>1. Ttl \in Nat /\ 0 \in 0 .. Ttl /\ Ttl + 1 \in 0 .. Ttl + 1 /\ Expired(Ttl + 1)
    BY StoreAssumption DEF Expired
  <1>2. TablesOK
    <2>1. table \in Settings /\ active \in Providers \cup {Absent} /\ stored \subseteq Providers /\ down \in BOOLEAN
      BY StoreAssumption DEF StoreInit, Settings
    <2>2. DOMAIN recent = 0 .. Ttl /\ recent[0] = Held(table, active, stored, down)
      BY <1>1 DEF StoreInit
    <2> QED
      BY <2>1, <2>2 DEF StoreInit, TablesOK
  <1>3. RowsOK
    <2>1. Empty \in Settings
      BY DEF Empty, Settings
    <2> QED
      BY <1>1, <2>1 DEF StoreInit, RowsOK
  <1>4. ProvsOK
    BY <1>1 DEF StoreInit, ProvsOK
  <1>5. RequestsOK
    BY DEF StoreInit, RequestsOK, States, Once
  <1> QED
    BY <1>2, <1>3, <1>4, <1>5, StoreWhole

LEMMA StoreStep ==
  StoreInv /\ [StoreNext]_storeVars => StoreInv'
  <1> SUFFICES ASSUME StoreInv, [StoreNext]_storeVars
               PROVE  StoreInv'
    OBVIOUS
  <1>1. ASSUME NEW q \in Arrivals, NEW repo \in Repos, NEW kind \in {"opened", "push", "comment"},
               Webhook(q, kind, repo)
        PROVE  StoreInv'
    BY <1>1, WebhookKeeps
  <1>2. ASSUME NEW q \in Arrivals, NEW repo \in Repos, NEW p \in Providers \cup {Absent},
               Publishing(q, repo, p) \/ Reading(q, repo, p)
        PROVE  StoreInv'
    BY <1>2, EndpointKeeps DEF Publishing, Reading
  <1>3. ASSUME NEW q \in Arrivals, Automatic(q)
        PROVE  StoreInv'
    BY <1>3, AutomaticKeeps
  <1>4. ASSUME NEW q \in Arrivals, Comment(q)
        PROVE  StoreInv'
    BY <1>4, CommentKeeps
  <1>5. ASSUME NEW q \in Arrivals, Finish(q)
        PROVE  StoreInv'
    BY <1>5, FinishKeeps
  <1>6. ASSUME NEW q \in Arrivals, NEW p \in Providers, TestProvider(q, p)
        PROVE  StoreInv'
    BY <1>6, TestProviderKeeps
  <1>7. ASSUME NEW s \in Scopes, NEW row \in RowChoices \cup {NoRow}, EditRow(s, row)
        PROVE  StoreInv'
    BY <1>7, EditRowKeeps
  <1>8. ASSUME NEW s \in SUBSET Providers, NEW a \in Providers \cup {Absent}, EditProviders(a, s)
        PROVE  StoreInv'
    BY <1>8, EditProvidersKeeps
  <1>9. CASE Outage
    BY <1>9, OutageKeeps
  <1>10. CASE TimePasses
    BY <1>10, TimePassesKeeps
  <1>11. CASE UNCHANGED storeVars
    <2>1. UNCHANGED <<database, caches, req, edits, recent>>
      BY <1>11 DEF storeVars
    <2> QED
      BY <2>1, StoreParts, TablesAfter, RowsAfter, ProvsAfter, StoreWholeNext DEF TablesOK, RequestsOK, caches
  <1> QED
    BY <1>1, <1>2, <1>3, <1>4, <1>5, <1>6, <1>7, <1>8, <1>9, <1>10, <1>11 DEF StoreNext

LEMMA StoreInvariant ==
  StoreSpec => []StoreInv
  BY StoreInitially, StoreStep, PTL DEF StoreSpec

\* The tables, the caches and the requests of the dashboard keep their values'
\* sets, whatever is edited and whichever loads fail.
THEOREM StoreTypeCorrect ==
  StoreSpec => []StoreTypeOK
  <1>1. StoreInv => StoreTypeOK
    BY DEF StoreInv
  <1> QED
    BY <1>1, StoreInvariant, PTL

\* Webhooks and calls of the Kenny API: what a request was told of the
\* dashboard held no longer ago than the caches live, and the model it asks
\* first is not among its fallbacks.
THEOREM ConfiguredLately ==
  StoreSpec => []AsConfigured
  <1>1. StoreInv => AsConfigured
    BY DEF StoreInv
  <1> QED
    BY <1>1, StoreInvariant, PTL
=============================================================================
