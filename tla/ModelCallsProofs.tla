--------------------------- MODULE ModelCallsProofs ---------------------------
(***************************************************************************)
(* Proofs about ModelCalls, for any commands, chunks and configurations: a *)
(* command fails only when each of its models has, each asked in its turn, *)
(* and the fallback loop takes the steps of ModelFallbackAbs.              *)
(***************************************************************************)
EXTENDS ModelCalls, TLAPS

-----------------------------------------------------------------------------
(* The operators.                                                          *)

LEMMA CallIds ==
  /\ \A c \in Cmds, i \in Tries : \A k \in 1 .. LastCall(c) : <<c, i, k>> \in Calls
  /\ \A t \in Calls : /\ t = <<t[1], t[2], t[3]>>
                      /\ t[1] \in Cmds /\ t[2] \in Tries /\ t[3] \in 1 .. LastCall(t[1])
  BY DEF Calls

LEMMA LastCallIs ==
  ASSUME NEW c \in Cmds
  PROVE  /\ LastCall(c) \in Nat /\ Commands[c].chunks \in 1 .. LastCall(c)
         /\ LastCall(c) = Commands[c].chunks + IF Commands[c].final THEN 1 ELSE 0
         /\ c \in Nat /\ c >= 1
  BY CommandTypes DEF LastCall, Cmds

LEMMA LongestList == MaxModels \in Nat /\ \A f \in Configs : 1 + Len(f.fallbacks) \in 1 .. MaxModels
  <1> DEFINE lengths == {Len(f.fallbacks) : f \in Configs}
             longest(n) == \A f \in Configs : Len(f.fallbacks) =< n
  <1>1. \A f \in Configs : Len(f.fallbacks) \in Nat
    BY ConfigTypes
  <1>2. \E n \in lengths : longest(n)
    BY ConfigTypes
  <1>3. (CHOOSE n \in lengths : longest(n)) \in lengths /\ longest(CHOOSE n \in lengths : longest(n))
    BY <1>2
  <1> QED
    BY <1>1, <1>3 DEF MaxModels

\* Every command has as many models as there are fallbacks, and one.
Count == Len(config.fallbacks) + 1

LEMMA ModelsAre ==
  ASSUME config \in Configs, NEW c \in Cmds
  PROVE  /\ Count \in Nat \ {0} /\ Count \in Tries /\ MaxModels \in Nat
         /\ Len(ModelsOf(c)) = Count /\ DOMAIN ModelsOf(c) = 1 .. Count
         /\ \A i \in 1 .. Count : ModelsOf(c)[i] \in AllModels
  <1>1. config.fallbacks \in Seq(ToSet(config.fallbacks)) /\ ToSet(config.fallbacks) \subseteq AllModels
    BY ConfigTypes DEF AllModels
  <1>2. Commands[c].model \in AllModels
    BY DEF AllModels
  <1>3. config.fallbacks \in Seq(AllModels) /\ <<Commands[c].model>> \in Seq(AllModels)
    BY <1>1, <1>2
  <1>4. ModelsOf(c) \in Seq(AllModels) /\ Len(ModelsOf(c)) = Count
    BY <1>3 DEF ModelsOf, Count
  <1>5. Count \in Nat \ {0}
    BY <1>1 DEF Count
  <1>6. Count \in Tries /\ MaxModels \in Nat
    BY <1>5, LongestList DEF Tries, Count
  <1> QED
    BY <1>4, <1>5, <1>6

LEMMA DeploymentsAre ==
  ASSUME config \in Configs, deployment \in AllDeployments, NEW c \in Cmds, ~TooFew(c)
  PROVE  /\ 1 .. Count \subseteq DOMAIN DeploymentsOf(c)
         /\ \A i \in 1 .. Count : /\ DeploymentsOf(c)[i] \in AllDeployments
                                  /\ deployment = Deployment => DeploymentsOf(c)[i] = ConfiguredFor(i)
         /\ DeploymentsOf(c)[1] = deployment
  <1>1. CASE config.deployments = <<>>
    BY <1>1, ModelsAre DEF DeploymentsOf, ConfiguredFor
  <1>2. CASE config.deployments # <<>>
    <2>1. config.deployments \in Seq(AllDeployments)
      <3>1. ToSet(config.deployments) \subseteq AllDeployments
        BY DEF AllDeployments
      <3> QED
        BY <3>1, ConfigTypes
    <2>2. DeploymentsOf(c) = <<deployment>> \o config.deployments
      BY <1>2 DEF DeploymentsOf
    <2>3. Len(DeploymentsOf(c)) = 1 + Len(config.deployments) /\ DeploymentsOf(c) \in Seq(AllDeployments)
      BY <2>1, <2>2
    <2>4. \A i \in 1 .. Len(DeploymentsOf(c)) :
            DeploymentsOf(c)[i] = IF i = 1 THEN deployment ELSE config.deployments[i - 1]
      BY <2>1, <2>2, <2>3
    <2>5. Len(DeploymentsOf(c)) >= Count
      BY <2>3, ModelsAre DEF TooFew
    <2>6. \A i \in 1 .. Count : i \in 1 .. Len(DeploymentsOf(c))
      BY <2>1, <2>3, <2>5, ModelsAre
    <2>7. DOMAIN DeploymentsOf(c) = 1 .. Len(DeploymentsOf(c))
      BY <2>3
    <2>8. 1 \in 1 .. Count
      BY ModelsAre
    <2> QED
      BY <1>2, <2>3, <2>4, <2>6, <2>7, <2>8 DEF ConfiguredFor
  <1> QED
    BY <1>1, <1>2

LEMMA PairsAre ==
  ASSUME config \in Configs, deployment \in AllDeployments, NEW c \in Cmds, ~TooFew(c)
  PROVE  /\ PairsOf(c) \in Seq(AllModels \X AllDeployments)
         /\ Len(PairsOf(c)) = Count /\ DOMAIN PairsOf(c) = 1 .. Count
         /\ PairsOf(c)[1][2] = deployment
         /\ deployment = Deployment => \A i \in 1 .. Count : PairsOf(c)[i][2] = ConfiguredFor(i)
  <1>1. DOMAIN ModelsOf(c) \cap DOMAIN DeploymentsOf(c) = 1 .. Count /\ Count \in Nat \ {0}
    BY ModelsAre, DeploymentsAre
  <1>2. PairsOf(c) = [i \in 1 .. Count |-> <<ModelsOf(c)[i], DeploymentsOf(c)[i]>>]
    BY <1>1 DEF PairsOf
  <1>3. \A i \in 1 .. Count : ModelsOf(c)[i] \in AllModels /\ DeploymentsOf(c)[i] \in AllDeployments
    BY ModelsAre, DeploymentsAre
  <1>4. PairsOf(c) \in Seq(AllModels \X AllDeployments) /\ Len(PairsOf(c)) = Count
    BY <1>1, <1>2, <1>3
  <1> QED
    BY <1>1, <1>2, <1>4, DeploymentsAre

-----------------------------------------------------------------------------
(* Types.                                                                  *)

LEMMA FreshType ==
  ASSUME NEW st \in {"none", "ready", "flight", "ok", "error"}, NEW phase \in {"predict", "reflect"}
  PROVE  /\ Fresh(st, phase) \in CallRecords
         /\ Fresh(st, phase).st = st /\ Fresh(st, phase).phase = phase
  BY DEF Fresh, CallRecords, AllDeployments, MayRetry, MODEL_RETRIES

LEMMA InitTypes == Init => TypeOK
  <1>1. NoCall \in CallRecords
    BY FreshType DEF NoCall
  <1>2. Init => 0 \in 0 .. MaxModels
    BY LongestList
  <1> QED
    BY <1>1, <1>2 DEF Init, TypeOK, AllDeployments

\* The calls of a try that is begun: those of all chunks, or of the first.
Chunks(c) == IF config.parallel THEN 1 .. Commands[c].chunks ELSE {1}

LEMMA LaunchedIs ==
  ASSUME NEW c \in Cmds, NEW i \in Tries, NEW calls \in [Calls -> CallRecords]
  PROVE  /\ Launched(c, i, calls) \in [Calls -> CallRecords]
         /\ \A d \in Cmds, j \in Tries : \A k \in 1 .. LastCall(d) :
              Launched(c, i, calls)[<<d, j, k>>] =
                IF d = c /\ j = i /\ k \in Chunks(c) THEN Fresh("ready", "predict") ELSE calls[<<d, j, k>>]
         /\ 1 \in Chunks(c) /\ Chunks(c) \subseteq 1 .. LastCall(c)
  <1>1. Fresh("ready", "predict") \in CallRecords
    BY FreshType
  <1>2. Launched(c, i, calls) = [t \in Calls |-> IF t \in {<<c, i, k>> : k \in Chunks(c)}
                                                THEN Fresh("ready", "predict") ELSE calls[t]]
    BY DEF Launched, Chunks
  <1>3. Launched(c, i, calls) \in [Calls -> CallRecords]
    BY <1>1, <1>2
  <1>4. \A d \in Cmds, j \in Tries : \A k \in 1 .. LastCall(d) :
          <<d, j, k>> \in {<<c, i, l>> : l \in Chunks(c)} <=> d = c /\ j = i /\ k \in Chunks(c)
    OBVIOUS
  <1>5. 1 \in Chunks(c) /\ Chunks(c) \subseteq 1 .. LastCall(c)
    BY LastCallIs DEF Chunks
  <1> QED
    BY <1>2, <1>3, <1>4, <1>5, CallIds

LEMMA StartTypes ==
  ASSUME TypeOK, NEW c \in Cmds, Start(c)
  PROVE  TypeOK'
  <1>1. pairs' \in Seq(AllModels \X AllDeployments) /\ deployment' \in AllDeployments
    BY PairsAre DEF Start, TypeOK
  <1>2. 1 \in 0 .. MaxModels /\ 1 \in Tries
    BY ModelsAre DEF TypeOK, Tries
  <1>3. call' \in [Calls -> CallRecords]
    BY <1>2, LaunchedIs DEF Start, TypeOK
  <1> QED
    BY <1>1, <1>2, <1>3 DEF Start, TypeOK

\* Attempts, retries and reflections: one call goes on, and nothing else.
Goes(t) == Attempt(t) \/ Retry(t) \/ Predicted(t)

LEMMA GoesEffect ==
  ASSUME TypeOK, NEW t \in Calls, Goes(t)
  PROVE  /\ call' \in [Calls -> CallRecords]
         /\ \A u \in Calls : u # t => call'[u] = call[u]
         /\ call[t].st \in {"ready", "flight"} /\ call'[t].st \in {"ready", "flight"}
         /\ call'[t].st = "flight" => call'[t].dep = deployment
         /\ UNCHANGED <<config, deployment, pairs, at, outcome>>
  <1>1. /\ call[t] \in CallRecords /\ call[t].attempts \in Nat
        /\ call[t].phase \in {"predict", "reflect"} /\ call[t].attempts \in 0 .. MODEL_RETRIES
        /\ call[t].st = "ready" => call[t].attempts < MODEL_RETRIES
    BY DEF TypeOK, CallRecords, MayRetry, MODEL_RETRIES
  <1>2. CASE Attempt(t)
    <2> DEFINE r == [st |-> "flight", phase |-> call[t].phase,
                     attempts |-> call[t].attempts + 1, dep |-> deployment]
    <2>1. r \in CallRecords /\ r.st = "flight" /\ r.dep = deployment
      BY <1>1, <1>2 DEF Attempt, CallRecords, TypeOK, MODEL_RETRIES
    <2>2. call' = [call EXCEPT ![t] = r]
      BY <1>2 DEF Attempt
    <2> HIDE DEF r
    <2> QED
      BY <1>2, <2>1, <2>2 DEF Attempt, TypeOK
  <1>3. CASE Retry(t)
    <2> DEFINE r == [st |-> "ready", phase |-> call[t].phase,
                     attempts |-> call[t].attempts, dep |-> Deployment]
    <2>1. r \in CallRecords /\ r.st = "ready"
      BY <1>1, <1>3 DEF Retry, CallRecords, AllDeployments
    <2>2. call' = [call EXCEPT ![t] = r]
      BY <1>3 DEF Retry
    <2> HIDE DEF r
    <2> QED
      BY <1>3, <2>1, <2>2 DEF Retry, TypeOK
  <1>4. CASE Predicted(t)
    BY <1>4, FreshType DEF Predicted, TypeOK
  <1> QED
    BY <1>2, <1>3, <1>4 DEF Goes

Enabled(t) == Follow(t[1], t[2], t[3], [call EXCEPT ![t] = Fresh("ok", "predict")])

LEMMA DoneEffect ==
  ASSUME TypeOK, NEW t \in Calls, CallDone(t)
  PROVE  /\ call' \in [Calls -> CallRecords]
         /\ \A u \in Calls : call'[u] = IF u \in Enabled(t) THEN Fresh("ready", "predict")
                                        ELSE IF u = t THEN Fresh("ok", "predict") ELSE call[u]
         /\ call[t].st = "flight"
         /\ \/ outcome' = outcome
            \/ /\ Current(t) /\ outcome' = [outcome EXCEPT ![t[1]] = "ok"]
         /\ UNCHANGED <<config, deployment, pairs, at>>
  <1> DEFINE done == [call EXCEPT ![t] = Fresh("ok", "predict")]
  <1>1. done \in [Calls -> CallRecords] /\ \A u \in Calls : done[u] = IF u = t THEN Fresh("ok", "predict") ELSE call[u]
    BY FreshType DEF TypeOK
  <1>2. call' = [u \in Calls |-> IF u \in Enabled(t) THEN Fresh("ready", "predict") ELSE done[u]]
    BY DEF CallDone, Enabled
  <1>3. Fresh("ready", "predict") \in CallRecords
    BY FreshType
  <1>4. /\ call[t].st = "flight" /\ UNCHANGED <<config, deployment, pairs, at>>
        /\ outcome' = outcome \/ (Current(t) /\ outcome' = [outcome EXCEPT ![t[1]] = "ok"])
    BY DEF CallDone
  <1> HIDE DEF done
  <1> QED
    BY <1>1, <1>2, <1>3, <1>4

LEMMA FailEffect ==
  ASSUME TypeOK, NEW t \in Calls, Fail(t)
  PROVE  LET failed == [call EXCEPT ![t] = Fresh("error", "predict")]
         IN /\ failed \in [Calls -> CallRecords]
            /\ \A u \in Calls : failed[u] = IF u = t THEN Fresh("error", "predict") ELSE call[u]
            /\ call[t].st = "flight" /\ UNCHANGED <<config, pairs>>
            /\ \/ /\ Current(t) /\ ~IsLast(at)
                  /\ at' = at + 1 /\ deployment' = pairs[at + 1][2]
                  /\ call' = Launched(t[1], at + 1, failed) /\ outcome' = outcome
               \/ /\ Current(t) /\ IsLast(at) /\ UNCHANGED <<deployment, at>>
                  /\ call' = failed /\ outcome' = [outcome EXCEPT ![t[1]] = "failed"]
               \/ /\ ~Current(t) /\ UNCHANGED <<deployment, at, outcome>>
                  /\ call' = failed
  <1>1. Fresh("error", "predict") \in CallRecords
    BY FreshType
  <1> QED
    BY <1>1 DEF Fail, NextTry, TypeOK

-----------------------------------------------------------------------------
(* How calls advance: nothing that is over comes back, and what is begun   *)
(* belongs to one try, after the calls that it waits for.                  *)

Advance(c, i) ==
  \A d \in Cmds, j \in Tries : \A k \in 1 .. LastCall(d) :
    LET old == call[<<d, j, k>>].st
        new == call'[<<d, j, k>>].st
    IN /\ old \in {"ok", "error"} => new = old
       /\ old # "none" => new # "none"
       /\ old = "none" /\ new # "none" =>
            d = c /\ j = i /\ \A l \in Before(c, k) : call'[<<c, i, l>>].st = "ok"

LEMMA BeforeIs ==
  ASSUME NEW c \in Cmds, NEW k \in 1 .. LastCall(c)
  PROVE  /\ Before(c, k) \subseteq 1 .. LastCall(c) /\ k \notin Before(c, k)
         /\ k \in Chunks(c) => Before(c, k) = {}
  BY LastCallIs DEF Before, Chunks

LEMMA EnabledAre ==
  ASSUME TypeOK, OrderInv, NEW t \in Calls, call[t].st = "flight", NEW u \in Enabled(t)
  PROVE  /\ u \in Calls /\ call[u].st = "none" /\ u[1] = t[1] /\ u[2] = t[2] /\ u # t
         /\ \A l \in Before(u[1], u[3]) : l = t[3] \/ call[<<t[1], t[2], l>>].st = "ok"
  <1> DEFINE c == t[1]
             i == t[2]
             k == t[3]
             done == [call EXCEPT ![t] = Fresh("ok", "predict")]
  <1>1. c \in Cmds /\ i \in Tries /\ k \in 1 .. LastCall(c) /\ t = <<c, i, k>>
    BY CallIds
  <1> HIDE DEF c, i, k
  <1>2. \A v \in Calls : v # t => done[v] = call[v]
    BY DEF TypeOK
  <1>3. \A j \in 1 .. LastCall(c) : j # k => done[<<c, i, j>>] = call[<<c, i, j>>] /\ <<c, i, j>> \in Calls
    BY <1>1, <1>2, CallIds
  <1>4. u \in Follow(c, i, k, done)
    BY DEF Enabled, c, i, k
  <1> HIDE DEF done
  <1>5. PICK m \in 1 .. LastCall(c) : u = <<c, i, m>> /\ m # k /\ k \in Before(c, m)
                                      /\ \A l \in Before(c, m) : l = k \/ call[<<c, i, l>>].st = "ok"
    <2>1. CASE config.parallel
      <3> DEFINE m == Commands[c].chunks + 1
      <3>1. /\ Commands[c].final /\ k =< Commands[c].chunks
            /\ \A j \in 1 .. Commands[c].chunks : done[<<c, i, j>>].st = "ok"
            /\ u = <<c, i, m>>
        BY <1>4, <2>1 DEF Follow
      <3>2. m \in 1 .. LastCall(c) /\ m # k /\ Before(c, m) = 1 .. Commands[c].chunks
        BY <1>1, <2>1, <3>1, LastCallIs DEF Before
      <3>3. k \in 1 .. Commands[c].chunks
        BY <1>1, <3>1, LastCallIs
      <3>4. \A j \in 1 .. Commands[c].chunks : j \in 1 .. LastCall(c)
        BY <1>1, LastCallIs
      <3> QED
        BY <1>3, <3>1, <3>2, <3>3, <3>4
    <2>2. CASE ~config.parallel
      <3>1. k + 1 \in 1 .. LastCall(c) /\ u = <<c, i, k + 1>>
        BY <1>1, <1>4, <2>2 DEF Follow
      <3>2. Before(c, k + 1) = 1 .. k /\ Before(c, k) = 1 .. k - 1
        BY <1>1, <2>2, LastCallIs DEF Before
      <3>3. \A l \in Before(c, k) : call[<<c, i, l>>].st = "ok"
        BY <1>1 DEF OrderInv
      <3>4. k \in Before(c, k + 1) /\ k + 1 # k /\ \A l \in Before(c, k + 1) : l = k \/ l \in Before(c, k)
        BY <1>1, <3>2, LastCallIs
      <3> QED
        BY <3>1, <3>3, <3>4
    <2> QED
      BY <2>1, <2>2
  <1>6. call[u].st = "none"
    <2>1. SUFFICES ASSUME call[u].st # "none" PROVE FALSE
      OBVIOUS
    <2>2. call[<<c, i, k>>].st = "ok"
      BY <1>1, <1>5, <2>1 DEF OrderInv
    <2> QED
      BY <1>1, <2>2
  <1>7. u \in Calls
    BY <1>1, <1>5, CallIds
  <1>8. u[1] = c /\ u[2] = i /\ u[3] = m /\ u # t
    BY <1>1, <1>5
  <1> QED
    BY <1>5, <1>6, <1>7, <1>8 DEF c, i, k

\* Beginning a try none of whose calls had been made.
LEMMA LaunchAdvances ==
  ASSUME NEW c \in Cmds, NEW i \in Tries, Untouched(c, i),
         Chunks(c) \subseteq 1 .. LastCall(c),
         \A d \in Cmds, j \in Tries : \A k \in 1 .. LastCall(d) :
           IF d = c /\ j = i /\ k \in Chunks(c)
           THEN call'[<<d, j, k>>].st = "ready"
           ELSE \/ call'[<<d, j, k>>].st = call[<<d, j, k>>].st
                \/ call[<<d, j, k>>].st = "flight" /\ call'[<<d, j, k>>].st = "error"
  PROVE  Advance(c, i)
  <1> SUFFICES ASSUME NEW d \in Cmds, NEW j \in Tries, NEW k \in 1 .. LastCall(d)
               PROVE  LET old == call[<<d, j, k>>].st
                          new == call'[<<d, j, k>>].st
                      IN /\ old \in {"ok", "error"} => new = old
                         /\ old # "none" => new # "none"
                         /\ old = "none" /\ new # "none" =>
                              /\ d = c /\ j = i
                              /\ \A l \in Before(c, k) : call'[<<c, i, l>>].st = "ok"
    BY DEF Advance
  <1>1. CASE d = c /\ j = i /\ k \in Chunks(c)
    <2>1. call[<<d, j, k>>].st = "none" /\ Before(c, k) = {}
      BY <1>1, BeforeIs DEF Untouched
    <2> QED
      BY <1>1, <2>1
  <1>2. CASE ~(d = c /\ j = i /\ k \in Chunks(c))
    <2>1. \/ call'[<<d, j, k>>].st = call[<<d, j, k>>].st
          \/ call[<<d, j, k>>].st = "flight" /\ call'[<<d, j, k>>].st = "error"
      BY <1>2
    <2> QED
      BY <2>1
  <1> QED
    BY <1>1, <1>2

LEMMA StartAdvances ==
  ASSUME TypeOK, FallbackInv, NEW c \in Cmds, Start(c)
  PROVE  call' \in [Calls -> CallRecords] /\ Advance(c, 1) /\ call'[<<c, 1, 1>>].st # "none"
  <1>1. 1 \in Tries
    BY ModelsAre DEF TypeOK, Tries
  <1>2. /\ call' \in [Calls -> CallRecords]
        /\ \A d \in Cmds, j \in Tries : \A k \in 1 .. LastCall(d) :
             call'[<<d, j, k>>] = IF d = c /\ j = 1 /\ k \in Chunks(c) THEN Fresh("ready", "predict")
                                  ELSE call[<<d, j, k>>]
        /\ 1 \in Chunks(c) /\ Chunks(c) \subseteq 1 .. LastCall(c)
    BY <1>1, LaunchedIs DEF Start, TypeOK
  <1>3. Fresh("ready", "predict").st = "ready"
    BY FreshType
  <1>4. \A j \in Tries : Untouched(c, j)
    BY DEF FallbackInv, TurnsInv, Start
  <1>6. Advance(c, 1)
    BY <1>1, <1>2, <1>3, <1>4, LaunchAdvances
  <1>7. call'[<<c, 1, 1>>].st = "ready"
    BY <1>1, <1>2, <1>3
  <1> QED
    BY <1>2, <1>6, <1>7

LEMMA GoesAdvances ==
  ASSUME TypeOK, NEW t \in Calls, Goes(t)
  PROVE  Advance(t[1], t[2])
  BY GoesEffect, CallIds DEF Advance

LEMMA DoneAdvances ==
  ASSUME TypeOK, FallbackInv, NEW t \in Calls, CallDone(t)
  PROVE  Advance(t[1], t[2])
  <1>1. /\ \A u \in Calls : call'[u] = IF u \in Enabled(t) THEN Fresh("ready", "predict")
                                        ELSE IF u = t THEN Fresh("ok", "predict") ELSE call[u]
        /\ call[t].st = "flight"
    BY DoneEffect
  <1>2. Fresh("ready", "predict").st = "ready" /\ Fresh("ok", "predict").st = "ok"
    BY FreshType
  <1>3. ASSUME NEW u \in Enabled(t)
        PROVE  /\ u \in Calls /\ call[u].st = "none" /\ u[1] = t[1] /\ u[2] = t[2]
               /\ \A l \in Before(u[1], u[3]) : l = t[3] \/ call[<<t[1], t[2], l>>].st = "ok"
    BY <1>1, EnabledAre DEF FallbackInv
  <1>4. t \notin Enabled(t)
    BY <1>1, <1>3
  <1>5. t = <<t[1], t[2], t[3]>> /\ t[1] \in Cmds /\ t[2] \in Tries /\ t[3] \in 1 .. LastCall(t[1])
    BY CallIds
  <1>6. ASSUME NEW l \in 1 .. LastCall(t[1]), l = t[3] \/ call[<<t[1], t[2], l>>].st = "ok"
        PROVE  call'[<<t[1], t[2], l>>].st = "ok"
    <2>1. <<t[1], t[2], l>> \in Calls
      BY <1>5, CallIds
    <2>2. CASE l = t[3]
      BY <1>1, <1>2, <1>4, <1>5, <2>1, <2>2
    <2>3. CASE l # t[3]
      <3>1. <<t[1], t[2], l>> # t /\ <<t[1], t[2], l>> \notin Enabled(t)
        BY <1>3, <1>5, <1>6, <2>3
      <3> QED
        BY <1>1, <1>6, <2>1, <2>3, <3>1
    <2> QED
      BY <2>2, <2>3
  <1>7. ASSUME NEW u \in Enabled(t)
        PROVE  \A l \in Before(t[1], u[3]) : call'[<<t[1], t[2], l>>].st = "ok"
    <2>1. u[3] \in 1 .. LastCall(t[1])
      BY <1>3, CallIds
    <2> QED
      BY <1>3, <1>5, <1>6, <2>1, BeforeIs
  <1>8. SUFFICES ASSUME NEW d \in Cmds, NEW j \in Tries, NEW k \in 1 .. LastCall(d)
                 PROVE  LET old == call[<<d, j, k>>].st
                            new == call'[<<d, j, k>>].st
                        IN /\ old \in {"ok", "error"} => new = old
                           /\ old # "none" => new # "none"
                           /\ old = "none" /\ new # "none" =>
                                /\ d = t[1] /\ j = t[2]
                                /\ \A l \in Before(t[1], k) : call'[<<t[1], t[2], l>>].st = "ok"
    BY DEF Advance
  <1> DEFINE u == <<d, j, k>>
  <1>9. u \in Calls /\ u[1] = d /\ u[2] = j /\ u[3] = k
    BY CallIds
  <1> HIDE DEF u
  <1>10. CASE u \in Enabled(t)
    BY <1>1, <1>2, <1>3, <1>7, <1>9, <1>10 DEF u
  <1>11. CASE u \notin Enabled(t)
    BY <1>1, <1>2, <1>9, <1>11 DEF u
  <1> QED
    BY <1>10, <1>11

\* What a failure ends: its call, and with the next try none of the others.
LEMMA FailAdvances ==
  ASSUME TypeOK, FallbackInv, NEW t \in Calls, Fail(t)
  PROVE  /\ call' \in [Calls -> CallRecords] /\ call'[t].st = "error" /\ call[t].st = "flight"
         /\ UNCHANGED <<config, pairs>>
         /\ \/ /\ Current(t) /\ at + 1 \in DOMAIN pairs /\ at + 1 \in Tries /\ at \in Nat
               /\ at' = at + 1 /\ deployment' = pairs[at + 1][2] /\ outcome' = outcome
               /\ Advance(t[1], at + 1) /\ call'[<<t[1], at + 1, 1>>].st = "ready"
               /\ \A k \in 1 .. LastCall(t[1]) : call'[<<t[1], at + 1, k>>].st # "flight"
               /\ \A u \in Calls : u # t => call'[u] = call[u] \/ call'[u].st = "ready"
            \/ /\ Advance(t[1], t[2]) /\ UNCHANGED <<deployment, at>>
               /\ \A u \in Calls : u # t => call'[u] = call[u]
               /\ \/ Current(t) /\ at = Len(pairs) /\ outcome' = [outcome EXCEPT ![t[1]] = "failed"]
                  \/ ~Current(t) /\ outcome' = outcome
  <1> DEFINE failed == [call EXCEPT ![t] = Fresh("error", "predict")]
  <1>1. /\ failed \in [Calls -> CallRecords]
        /\ \A u \in Calls : failed[u] = IF u = t THEN Fresh("error", "predict") ELSE call[u]
        /\ call[t].st = "flight" /\ UNCHANGED <<config, pairs>>
    BY FailEffect
  <1>2. \/ /\ Current(t) /\ ~IsLast(at)
           /\ at' = at + 1 /\ deployment' = pairs[at + 1][2]
           /\ call' = Launched(t[1], at + 1, failed) /\ outcome' = outcome
        \/ /\ Current(t) /\ IsLast(at) /\ UNCHANGED <<deployment, at>>
           /\ call' = failed /\ outcome' = [outcome EXCEPT ![t[1]] = "failed"]
        \/ /\ ~Current(t) /\ UNCHANGED <<deployment, at, outcome>>
           /\ call' = failed
    BY FailEffect
  <1> HIDE DEF failed
  <1>3. /\ t = <<t[1], t[2], t[3]>> /\ t[1] \in Cmds /\ t[2] \in Tries /\ t[3] \in 1 .. LastCall(t[1])
        /\ Fresh("error", "predict").st = "error" /\ Fresh("ready", "predict").st = "ready"
    BY CallIds, FreshType
  <1>4. CASE call' = failed /\ at' = at
    <2>1. Advance(t[1], t[2])
      BY <1>1, <1>3, <1>4, CallIds DEF Advance
    <2>2. at \in Nat /\ at' # at + 1
      BY <1>4, LongestList DEF TypeOK
    <2> QED
      BY <1>1, <1>2, <1>3, <1>4, <2>1, <2>2 DEF IsLast
  <1>5. CASE /\ Current(t) /\ ~IsLast(at)
             /\ at' = at + 1 /\ deployment' = pairs[at + 1][2]
             /\ call' = Launched(t[1], at + 1, failed) /\ outcome' = outcome
    <2> DEFINE c == t[1]
    <2>1. at \in DOMAIN pairs /\ Len(pairs) = Len(ModelsOf(c)) /\ \A i \in Tries : i > at => Untouched(c, i)
      BY <1>3, <1>5 DEF Current, FallbackInv, RunningInv
    <2>2. /\ at + 1 \in Tries /\ 1 \in 1 .. LastCall(c) /\ at \in Nat
          /\ at + 1 \in DOMAIN pairs /\ at + 1 > at
      BY <1>3, <1>5, <2>1, ModelsAre, LastCallIs DEF TypeOK, IsLast, Tries
    <2>3. Untouched(c, at + 1) /\ t[2] # at + 1
      BY <1>5, <2>1, <2>2 DEF Current
    <2>4. /\ call' \in [Calls -> CallRecords]
          /\ \A d \in Cmds, j \in Tries : \A k \in 1 .. LastCall(d) :
               call'[<<d, j, k>>] = IF d = c /\ j = at + 1 /\ k \in Chunks(c) THEN Fresh("ready", "predict")
                                    ELSE failed[<<d, j, k>>]
          /\ 1 \in Chunks(c) /\ Chunks(c) \subseteq 1 .. LastCall(c)
      BY <1>1, <1>3, <1>5, <2>2, LaunchedIs
    <2>5. call'[t].st = "error"
      BY <1>1, <1>3, <2>3, <2>4
    <2>6. \A k \in 1 .. LastCall(c) : failed[<<c, at + 1, k>>] = call[<<c, at + 1, k>>]
      BY <1>1, <1>3, <2>2, <2>3, CallIds
    <2>7. \A k \in 1 .. LastCall(c) : call'[<<c, at + 1, k>>].st \in {"none", "ready"}
      BY <1>3, <2>2, <2>3, <2>4, <2>6 DEF Untouched
    <2>8. call'[<<c, at + 1, 1>>].st = "ready"
      BY <1>3, <2>2, <2>4
    <2>10. \A d \in Cmds, j \in Tries : \A k \in 1 .. LastCall(d) :
             failed[<<d, j, k>>] = IF <<d, j, k>> = t THEN Fresh("error", "predict") ELSE call[<<d, j, k>>]
      BY <1>1, CallIds
    <2>11. Advance(c, at + 1)
      BY <1>1, <1>3, <2>2, <2>3, <2>4, <2>10, LaunchAdvances
    <2>12. \A u \in Calls : u # t => call'[u] = call[u] \/ call'[u].st = "ready"
      BY <1>1, <1>3, <2>4, <2>10, CallIds
    <2> QED
      BY <1>1, <1>5, <2>2, <2>4, <2>5, <2>7, <2>8, <2>11, <2>12
  <1> QED
    BY <1>2, <1>4, <1>5

-----------------------------------------------------------------------------
(* A step of a call: what all of them do, and what follows of it.          *)

\* The call of a step belongs to a command that has had its turn, and to a try
\* that the command has come to.
CallStep(t) == Goes(t) \/ CallDone(t) \/ Fail(t)

LEMMA StepCall ==
  ASSUME TypeOK, FallbackInv, NEW t \in Calls, CallStep(t)
  PROVE  /\ call' \in [Calls -> CallRecords] /\ call[t].st \in {"ready", "flight"}
         /\ UNCHANGED <<config, pairs>>
         /\ \E i \in Tries :
              /\ Advance(t[1], i)
              /\ \/ i = t[2] /\ UNCHANGED <<at, deployment>>
                 \/ /\ Current(t) /\ i = at + 1 /\ at' = i /\ i \in DOMAIN pairs
                    /\ deployment' = pairs[i][2] /\ call'[<<t[1], i, 1>>].st = "ready"
                    /\ call'[t].st = "error" /\ outcome' = outcome
         /\ \/ outcome' = outcome
            \/ Current(t) /\ outcome' = [outcome EXCEPT ![t[1]] = "ok"]
            \/ /\ Current(t) /\ at = Len(pairs) /\ outcome' = [outcome EXCEPT ![t[1]] = "failed"]
               /\ call'[t].st = "error"
  <1>1. t[2] \in Tries
    BY CallIds
  <1>2. CASE Goes(t)
    BY <1>1, <1>2, GoesEffect, GoesAdvances
  <1>3. CASE CallDone(t)
    BY <1>1, <1>3, DoneEffect, DoneAdvances
  <1>4. CASE Fail(t)
    BY <1>1, <1>4, FailAdvances
  <1> QED
    BY <1>2, <1>3, <1>4 DEF CallStep

\* Only one command runs.
LEMMA OneRuns ==
  ASSUME TypeOK, TurnsInv, NEW c \in Cmds, NEW d \in Cmds, outcome[c] \in {"waiting", "running"}
  PROVE  /\ outcome[d] = "running" => c >= d
         /\ outcome[c] = "running" /\ outcome[d] = "running" => c = d
         /\ outcome[c] = "running" /\ d # c => outcome[d] # "running"
  <1>1. c \in Nat /\ d \in Nat /\ c >= 1 /\ d >= 1
    BY LastCallIs
  <1>2. ASSUME NEW a \in Cmds, NEW b \in Cmds, b < a, a >= 1, b >= 1, a \in Nat, b \in Nat, outcome[a] # "waiting"
        PROVE  outcome[b] \in {"ok", "failed", "refused"}
    BY <1>2 DEF TurnsInv, Ended
  <1> QED
    BY <1>1, <1>2

\* Calls that are over stay so, and a try that has begun stays begun.
LEMMA AdvanceKeeps ==
  ASSUME NEW c \in Cmds, NEW i \in Tries, Advance(c, i), NEW d \in Cmds, NEW j \in Tries
  PROVE  /\ Errors(d, j) => Errors(d, j)'
         /\ Untouched(d, j)' => Untouched(d, j)
         /\ Untouched(d, j) /\ (d # c \/ j # i) => Untouched(d, j)'
  BY DEF Advance, Errors, Untouched

\* The command of a call that is under way has begun, and the try as well.
LEMMA BegunCall ==
  ASSUME TypeOK, FallbackInv, NEW t \in Calls, call[t].st \in {"ready", "flight"}
  PROVE  /\ t = <<t[1], t[2], t[3]>> /\ t[1] \in Cmds /\ t[2] \in Tries /\ t[3] \in 1 .. LastCall(t[1])
         /\ ~Untouched(t[1], t[2]) /\ outcome[t[1]] # "waiting"
         /\ outcome[t[1]] = "running" => t[2] =< at
  <1>1. t = <<t[1], t[2], t[3]>> /\ t[1] \in Cmds /\ t[2] \in Tries /\ t[3] \in 1 .. LastCall(t[1])
    BY CallIds
  <1>2. ~Untouched(t[1], t[2])
    BY <1>1 DEF Untouched
  <1>3. outcome[t[1]] # "waiting"
    BY <1>1, <1>2 DEF FallbackInv, TurnsInv
  <1>4. outcome[t[1]] = "running" => ~(t[2] > at)
    BY <1>1, <1>2 DEF FallbackInv, RunningInv
  <1> QED
    BY <1>1, <1>2, <1>3, <1>4, LongestList DEF TypeOK, Tries

LEMMA StepTypes ==
  ASSUME TypeOK, FallbackInv, NEW t \in Calls, CallStep(t)
  PROVE  TypeOK'
  <1>1. /\ call' \in [Calls -> CallRecords] /\ UNCHANGED <<config, pairs>>
        /\ outcome' \in [Cmds -> {"waiting", "running", "ok", "failed", "refused"}]
    BY StepCall DEF TypeOK
  <1>2. \A i \in DOMAIN pairs : pairs[i][2] \in AllDeployments
    <2>1. ASSUME NEW i \in DOMAIN pairs PROVE pairs[i] \in AllModels \X AllDeployments
      BY DEF TypeOK
    <2> QED
      BY <2>1
  <1>3. PICK i \in Tries :
           \/ UNCHANGED <<at, deployment>>
           \/ at' = i /\ i \in DOMAIN pairs /\ deployment' = pairs[i][2]
    BY StepCall
  <1>4. deployment' \in AllDeployments /\ at' \in 0 .. MaxModels
    BY <1>2, <1>3, LongestList DEF TypeOK, Tries
  <1> QED
    BY <1>1, <1>4 DEF TypeOK

LEMMA StepTurns ==
  ASSUME TypeOK, FallbackInv, NEW t \in Calls, CallStep(t)
  PROVE  TurnsInv'
  <1>1. PICK i \in Tries : Advance(t[1], i)
    BY StepCall
  <1>2. t[1] \in Cmds /\ outcome[t[1]] # "waiting"
    BY StepCall, BegunCall
  <1>3. \A c \in Cmds : /\ outcome'[c] = "waiting" <=> outcome[c] = "waiting"
                        /\ Ended(c) => Ended(c)'
    BY <1>2, StepCall DEF TypeOK, Ended, Current
  <1>4. \A c \in Cmds : outcome'[c] # "waiting" => \A b \in 1 .. c - 1 : Ended(b)'
    <2> SUFFICES ASSUME NEW c \in Cmds, outcome'[c] # "waiting", NEW b \in 1 .. c - 1
                 PROVE  Ended(b)'
      OBVIOUS
    <2>1. Ended(b)
      BY <1>3 DEF FallbackInv, TurnsInv
    <2>2. b \in Cmds
      BY CommandTypes DEF Cmds
    <2> QED
      BY <1>3, <2>1, <2>2
  <1>5. \A c \in Cmds : outcome'[c] = "waiting" => \A j \in Tries : Untouched(c, j)'
    BY <1>1, <1>2, <1>3, AdvanceKeeps DEF FallbackInv, TurnsInv
  <1> QED
    BY <1>4, <1>5 DEF TurnsInv

LEMMA StepRunning ==
  ASSUME TypeOK, FallbackInv, NEW t \in Calls, CallStep(t)
  PROVE  RunningInv'
  <1>1. /\ UNCHANGED <<config, pairs>> /\ call[t].st \in {"ready", "flight"}
    BY StepCall
  <1>2. PICK i \in Tries :
              /\ Advance(t[1], i)
              /\ \/ i = t[2] /\ UNCHANGED <<at, deployment>>
                 \/ /\ Current(t) /\ i = at + 1 /\ at' = i /\ i \in DOMAIN pairs
                    /\ call'[<<t[1], i, 1>>].st = "ready" /\ call'[t].st = "error"
    BY StepCall
  <1>3. /\ t = <<t[1], t[2], t[3]>> /\ t[1] \in Cmds /\ t[2] \in Tries /\ t[3] \in 1 .. LastCall(t[1])
        /\ outcome[t[1]] = "running" => t[2] =< at
    BY <1>1, BegunCall
  <1> SUFFICES ASSUME NEW c \in Cmds, outcome'[c] = "running"
               PROVE  /\ Len(pairs) = Len(ModelsOf(c))' /\ at' \in DOMAIN pairs
                      /\ ~Untouched(c, at)'
                      /\ \A j \in 1 .. at' - 1 : Errors(c, j)'
                      /\ \A j \in Tries : j > at' => Untouched(c, j)'
    BY <1>1 DEF RunningInv
  <1>4. outcome[c] = "running"
    BY StepCall DEF TypeOK
  <1>5. /\ Len(pairs) = Len(ModelsOf(c)) /\ at \in DOMAIN pairs
        /\ ~Untouched(c, at)
        /\ \A j \in 1 .. at - 1 : Errors(c, j)
        /\ \A j \in Tries : j > at => Untouched(c, j)
    BY <1>4 DEF FallbackInv, RunningInv
  <1>6. ModelsOf(c)' = ModelsOf(c)
    BY <1>1 DEF ModelsOf
  <1>7. at \in Tries /\ \A j \in Tries : j \in Nat /\ (1 .. j) \subseteq Tries
    <2>1. at >= 1 /\ at \in Nat
      BY <1>5 DEF TypeOK
    <2> QED
      BY <2>1, LongestList DEF TypeOK, Tries
  <1>8. CASE at' = at /\ i = t[2]
    <2>1. ~Untouched(c, at)'
      BY <1>2, <1>3, <1>5, <1>7, <1>8, AdvanceKeeps
    <2>2. \A j \in 1 .. at - 1 : Errors(c, j)'
      BY <1>2, <1>3, <1>5, <1>7, AdvanceKeeps
    <2>3. ASSUME NEW j \in Tries, j > at PROVE Untouched(c, j)'
      <3>1. c # t[1] \/ j # i
        BY <1>3, <1>4, <1>7, <1>8, <2>3
      <3> QED
        BY <1>2, <1>3, <1>5, <2>3, <3>1, AdvanceKeeps
    <2> QED
      BY <1>5, <1>6, <1>8, <2>1, <2>2, <2>3
  <1>9. CASE /\ Current(t) /\ i = at + 1 /\ at' = i /\ i \in DOMAIN pairs
             /\ call'[<<t[1], i, 1>>].st = "ready" /\ call'[t].st = "error"
    <2>1. c = t[1] /\ t[2] = at
      BY <1>3, <1>4, <1>9, OneRuns DEF Current, FallbackInv
    <2>2. 1 \in 1 .. LastCall(c)
      BY LastCallIs
    <2>3. ~Untouched(c, i)'
      BY <1>9, <2>1, <2>2 DEF Untouched
    <2>4. ASSUME NEW j \in 1 .. at PROVE Errors(c, j)'
      <3>1. CASE j = at
        BY <1>3, <1>9, <2>1, <3>1 DEF Errors
      <3>2. CASE j # at
        BY <1>2, <1>3, <1>5, <1>7, <2>4, <3>2, AdvanceKeeps
      <3> QED
        BY <3>1, <3>2
    <2>5. ASSUME NEW j \in Tries, j > i PROVE Untouched(c, j)'
      BY <1>2, <1>3, <1>5, <1>7, <1>9, <2>5, AdvanceKeeps
    <2>6. at + 1 - 1 = at
      BY <1>7
    <2>7. Untouched(c, at)' <=> Untouched(c, i)'
      BY <1>9 DEF Untouched
    <2>8. \A j \in 1 .. at' - 1 : Errors(c, j)'
      <3>1. \A j \in 1 .. at : Errors(c, j)'
        BY <2>4
      <3>2. at' - 1 = at
        <4>1. at \in Nat /\ at' = at + 1
          BY <1>7, <1>9
        <4> QED
          BY <4>1
      <3> QED
        BY <3>1, <3>2
    <2> QED
      BY <1>5, <1>6, <1>9, <2>3, <2>5, <2>7, <2>8
  <1> QED
    BY <1>2, <1>8, <1>9

LEMMA StepOrder ==
  ASSUME TypeOK, FallbackInv, NEW t \in Calls, CallStep(t)
  PROVE  OrderInv'
  <1>1. PICK i \in Tries : Advance(t[1], i)
    BY StepCall
  <1>2. UNCHANGED config /\ t[1] \in Cmds
    BY StepCall, CallIds
  <1> SUFFICES ASSUME NEW d \in Cmds, NEW j \in Tries, NEW k \in 1 .. LastCall(d),
                      call'[<<d, j, k>>].st # "none", NEW l \in Before(d, k)
               PROVE  call'[<<d, j, l>>].st = "ok"
    BY <1>2 DEF OrderInv, Before
  <1>3. l \in 1 .. LastCall(d)
    BY BeforeIs
  <1>4. CASE call[<<d, j, k>>].st # "none"
    <2>1. call[<<d, j, l>>].st = "ok"
      BY <1>4 DEF FallbackInv, OrderInv
    <2> QED
      BY <1>1, <1>3, <2>1 DEF Advance
  <1>5. CASE call[<<d, j, k>>].st = "none"
    BY <1>1, <1>3, <1>5 DEF Advance
  <1> QED
    BY <1>4, <1>5

LEMMA StepDeployment ==
  ASSUME TypeOK, FallbackInv, NEW t \in Calls, CallStep(t)
  PROVE  DeploymentInv'
  <1> SUFFICES ASSUME 1 \in Cmds
               PROVE  /\ outcome'[1] = "waiting" => deployment' = Deployment
                      /\ outcome'[1] = "running" =>
                           /\ deployment' = ConfiguredFor(at)'
                           /\ \A i \in DOMAIN pairs' : pairs'[i][2] = ConfiguredFor(i)'
    BY DEF DeploymentInv
  <1>2. UNCHANGED <<config, pairs>> /\ t[1] \in Cmds
    BY StepCall, CallIds
  <1>3. /\ outcome'[1] = "waiting" => outcome[1] = "waiting"
        /\ outcome'[1] = "running" => outcome[1] = "running"
    BY StepCall DEF TypeOK
  <1>4. \/ UNCHANGED <<at, deployment>>
        \/ Current(t) /\ at' \in DOMAIN pairs /\ deployment' = pairs[at'][2]
    <2>1. PICK i \in Tries :
             \/ UNCHANGED <<at, deployment>>
             \/ Current(t) /\ at' = i /\ i \in DOMAIN pairs /\ deployment' = pairs[i][2]
      BY StepCall
    <2> QED
      BY <2>1
  <1>5. Current(t) => outcome[1] # "waiting"
    BY <1>2, OneRuns, LastCallIs DEF Current, FallbackInv, TurnsInv, Ended
  <1>6. outcome'[1] = "running" => \A i \in DOMAIN pairs' : pairs'[i][2] = ConfiguredFor(i)'
    BY <1>2, <1>3 DEF FallbackInv, DeploymentInv, ConfiguredFor
  <1>7. outcome'[1] = "running" => deployment' = ConfiguredFor(at)'
    BY <1>2, <1>3, <1>4 DEF FallbackInv, DeploymentInv, ConfiguredFor
  <1>8. outcome'[1] = "waiting" => deployment' = Deployment
    BY <1>3, <1>4, <1>5 DEF FallbackInv, DeploymentInv
  <1> QED
    BY <1>6, <1>7, <1>8

\* A call in flight that a command waits for was sent with the deployment of
\* the try it belongs to.
LEMMA StepOwn ==
  ASSUME TypeOK, FallbackInv, NEW t \in Calls, CallStep(t)
  PROVE  FirstOwnDeployment'
  <1>1. UNCHANGED <<config, pairs>> /\ t[1] \in Cmds
    BY StepCall, CallIds
  <1> SUFFICES ASSUME NEW u \in Calls, u[1] = 1, call'[u].st = "flight", call'[u].phase = "predict", Current(u)'
               PROVE  call'[u].dep = ConfiguredFor(u[2])'
    BY DEF FirstOwnDeployment, OnItsOwn
  <1>2. /\ u = <<u[1], u[2], u[3]>> /\ u[1] \in Cmds /\ u[2] \in Tries /\ u[3] \in 1 .. LastCall(u[1])
        /\ outcome[1] = "running" /\ u[2] = at'
    <2>1. u = <<u[1], u[2], u[3]>> /\ u[1] \in Cmds /\ u[2] \in Tries /\ u[3] \in 1 .. LastCall(u[1])
      BY CallIds
    <2>2. outcome'[1] = "running" /\ u[2] = at'
      BY DEF Current
    <2> QED
      BY <2>1, <2>2, StepCall DEF TypeOK
  <1>3. ConfiguredFor(u[2])' = ConfiguredFor(u[2])
    BY <1>1 DEF ConfiguredFor
  <1>4. deployment = ConfiguredFor(at)
    BY <1>2 DEF FallbackInv, DeploymentInv
  <1>5. ASSUME call'[u] = call[u], at' = at PROVE call'[u].dep = ConfiguredFor(u[2])
    <2>1. Current(u)
      BY <1>2, <1>5 DEF Current
    <2> QED
      BY <1>5, <2>1 DEF FallbackInv, AllModelsAsked, FirstOwnDeployment, OnItsOwn
  <1>6. CASE Goes(t)
    <2>1. /\ \A v \in Calls : v # t => call'[v] = call[v]
          /\ call'[t].st = "flight" => call'[t].dep = deployment
          /\ at' = at
      BY <1>6, GoesEffect
    <2> QED
      BY <1>2, <1>3, <1>4, <1>5, <2>1
  <1>7. CASE CallDone(t)
    <2>1. /\ call'[u] = IF u \in Enabled(t) THEN Fresh("ready", "predict")
                        ELSE IF u = t THEN Fresh("ok", "predict") ELSE call[u]
          /\ at' = at
      BY <1>7, DoneEffect
    <2>2. Fresh("ready", "predict").st = "ready" /\ Fresh("ok", "predict").st = "ok"
      BY FreshType
    <2> QED
      BY <1>3, <1>5, <2>1, <2>2
  <1>8. CASE Fail(t)
    <2>1. CASE at' = at /\ \A v \in Calls : v # t => call'[v] = call[v]
      <3>1. call'[t].st = "error"
        BY <1>8, FailAdvances
      <3> QED
        BY <1>3, <1>5, <2>1, <3>1
    <2>2. CASE /\ Current(t) /\ at' = at + 1
               /\ \A k \in 1 .. LastCall(t[1]) : call'[<<t[1], at + 1, k>>].st # "flight"
      <3>1. t[1] = 1
        BY <1>1, <1>2, <2>2, OneRuns DEF Current, FallbackInv
      <3> QED
        BY <1>2, <2>2, <3>1
    <2> QED
      BY <1>8, <2>1, <2>2, FailAdvances
  <1> QED
    BY <1>6, <1>7, <1>8 DEF CallStep

LEMMA StepExhausted ==
  ASSUME TypeOK, FallbackInv, NEW t \in Calls, CallStep(t)
  PROVE  FailsOnlyExhausted'
  <1>1. UNCHANGED <<config, pairs>> /\ t[1] \in Cmds /\ config \in Configs
    BY StepCall, CallIds DEF TypeOK
  <1>2. PICK i \in Tries : Advance(t[1], i)
    BY StepCall
  <1> SUFFICES ASSUME NEW c \in Cmds, outcome'[c] = "failed", NEW j \in DOMAIN ModelsOf(c)
               PROVE  Errors(c, j)'
    BY <1>1 DEF FailsOnlyExhausted, Errors, ModelsOf
  <1>3. j \in 1 .. Count /\ Count \in Tries /\ j \in Tries
    BY <1>1, ModelsAre DEF Tries
  <1>4. CASE outcome[c] = "failed"
    <2>1. Errors(c, j)
      BY <1>4 DEF FallbackInv, AllModelsAsked, FailsOnlyExhausted, Errors
    <2> QED
      BY <1>1, <1>2, <1>3, <2>1, AdvanceKeeps
  <1>5. CASE outcome[c] # "failed"
    <2>1. Current(t) /\ at = Len(pairs) /\ c = t[1] /\ call'[t].st = "error"
      BY <1>5, StepCall DEF TypeOK
    <2>2. Len(pairs) = Count /\ \A l \in 1 .. at - 1 : Errors(c, l)
      BY <1>1, <2>1, ModelsAre DEF Current, FallbackInv, RunningInv
    <2>3. t = <<t[1], t[2], t[3]>> /\ t[3] \in 1 .. LastCall(t[1]) /\ t[2] = at
      BY <2>1, CallIds DEF Current
    <2>4. CASE j = at
      BY <2>1, <2>3, <2>4 DEF Errors
    <2>5. CASE j # at
      <3>1. j \in 1 .. at - 1
        BY <1>1, <1>3, <2>1, <2>2, <2>5, ModelsAre
      <3> QED
        BY <1>1, <1>2, <1>3, <2>2, <3>1, AdvanceKeeps
    <2> QED
      BY <2>4, <2>5
  <1> QED
    BY <1>4, <1>5

-----------------------------------------------------------------------------
(* A command begins, or is refused.                                        *)

LEMMA StartKeeps ==
  ASSUME TypeOK, FallbackInv, NEW c \in Cmds, Start(c)
  PROVE  FallbackInv'
  <1>1. /\ outcome[c] = "waiting" /\ ~TooFew(c) /\ UNCHANGED config
        /\ pairs' = PairsOf(c) /\ at' = 1 /\ deployment' = PairsOf(c)[1][2]
        /\ outcome' = [outcome EXCEPT ![c] = "running"]
        /\ \A b \in 1 .. c - 1 : Ended(b)
    BY DEF Start
  <1>2. call' \in [Calls -> CallRecords] /\ Advance(c, 1) /\ call'[<<c, 1, 1>>].st # "none"
    BY StartAdvances
  <1>3. /\ PairsOf(c) \in Seq(AllModels \X AllDeployments)
        /\ Len(PairsOf(c)) = Count /\ DOMAIN PairsOf(c) = 1 .. Count
        /\ PairsOf(c)[1][2] = deployment
        /\ deployment = Deployment => \A i \in 1 .. Count : PairsOf(c)[i][2] = ConfiguredFor(i)
    BY <1>1, PairsAre DEF TypeOK
  <1>4. Count \in Nat \ {0} /\ 1 \in 1 .. Count /\ 1 \in Tries /\ \A i \in Tries : i \in Nat /\ ~(i < 1)
    BY ModelsAre DEF TypeOK, Tries
  <1>5. \A d \in Cmds : d # c => outcome'[d] = outcome[d] /\ outcome[d] # "running"
    <2> SUFFICES ASSUME NEW d \in Cmds, d # c, outcome[d] = "running" PROVE FALSE
      BY <1>1 DEF TypeOK
    <2>1. c > d
      BY <1>1, OneRuns, LastCallIs DEF FallbackInv
    <2>2. Ended(d)
      BY <1>1, <2>1, LastCallIs
    <2> QED
      BY <2>2 DEF Ended
  <1>6. outcome'[c] = "running" /\ \A d \in Cmds : Ended(d) => Ended(d)'
    BY <1>1 DEF TypeOK, Ended
  <1>7. TurnsInv'
    <2>1. ASSUME NEW d \in Cmds, outcome'[d] # "waiting", NEW b \in 1 .. d - 1 PROVE Ended(b)'
      <3>1. Ended(b)
        BY <1>1, <1>5, <2>1 DEF FallbackInv, TurnsInv
      <3>2. b \in Cmds
        BY CommandTypes DEF Cmds
      <3> QED
        BY <1>6, <3>1, <3>2
    <2>2. ASSUME NEW d \in Cmds, outcome'[d] = "waiting", NEW j \in Tries PROVE Untouched(d, j)'
      BY <1>2, <1>4, <1>5, <1>6, <2>2, AdvanceKeeps DEF FallbackInv, TurnsInv
    <2> QED
      BY <2>1, <2>2 DEF TurnsInv
  <1>8. RunningInv'
    <2> SUFFICES ASSUME NEW d \in Cmds, outcome'[d] = "running"
                 PROVE  /\ Len(pairs') = Len(ModelsOf(d)') /\ at' \in DOMAIN pairs'
                        /\ ~Untouched(d, at)'
                        /\ \A j \in 1 .. at' - 1 : Errors(d, j)'
                        /\ \A j \in Tries : j > at' => Untouched(d, j)'
      BY DEF RunningInv
    <2>1. d = c
      BY <1>5
    <2>2. Len(pairs') = Len(ModelsOf(c)') /\ at' \in DOMAIN pairs'
      BY <1>1, <1>3, <1>4, ModelsAre DEF TypeOK, ModelsOf
    <2>3. ~Untouched(c, at)'
      BY <1>1, <1>2, LastCallIs DEF Untouched
    <2>4. \A j \in 1 .. at' - 1 : Errors(c, j)'
      BY <1>1
    <2>5. \A j \in Tries : Untouched(c, j)
      BY <1>1 DEF FallbackInv, TurnsInv
    <2>6. \A j \in Tries : j > at' => Untouched(c, j)'
      BY <1>1, <1>2, <1>4, <2>5, AdvanceKeeps
    <2> QED
      BY <2>1, <2>2, <2>3, <2>4, <2>6
  <1>9. DeploymentInv'
    <2> SUFFICES ASSUME 1 \in Cmds
                 PROVE  /\ outcome'[1] = "waiting" => deployment' = Deployment
                        /\ outcome'[1] = "running" =>
                             /\ deployment' = ConfiguredFor(at)'
                             /\ \A i \in DOMAIN pairs' : pairs'[i][2] = ConfiguredFor(i)'
      BY DEF DeploymentInv
    <2>1. outcome'[1] = "waiting" => deployment' = Deployment
      BY <1>1, <1>3, <1>5, <1>6 DEF FallbackInv, DeploymentInv
    <2>2. ASSUME outcome'[1] = "running"
          PROVE  /\ deployment' = ConfiguredFor(at)'
                 /\ \A i \in DOMAIN pairs' : pairs'[i][2] = ConfiguredFor(i)'
      <3>1. deployment = Deployment
        BY <1>1, <1>5, <2>2 DEF FallbackInv, DeploymentInv
      <3>2. \A i \in DOMAIN pairs' : pairs'[i][2] = ConfiguredFor(i)
        BY <1>1, <1>3, <3>1
      <3>3. \A i \in DOMAIN pairs' : ConfiguredFor(i)' = ConfiguredFor(i)
        BY <1>1 DEF ConfiguredFor
      <3>4. ConfiguredFor(at)' = Deployment
        BY <1>1 DEF ConfiguredFor
      <3> QED
        BY <1>1, <1>3, <3>1, <3>2, <3>3, <3>4
    <2> QED
      BY <2>1, <2>2
  <1>10. OrderInv'
    <2> SUFFICES ASSUME NEW d \in Cmds, NEW j \in Tries, NEW k \in 1 .. LastCall(d),
                        call'[<<d, j, k>>].st # "none", NEW l \in Before(d, k)
                 PROVE  call'[<<d, j, l>>].st = "ok"
      BY <1>1 DEF OrderInv, Before
    <2>1. l \in 1 .. LastCall(d)
      BY BeforeIs
    <2>2. CASE call[<<d, j, k>>].st # "none"
      <3>1. call[<<d, j, l>>].st = "ok"
        BY <2>2 DEF FallbackInv, OrderInv
      <3> QED
        BY <1>2, <2>1, <3>1 DEF Advance
    <2>3. CASE call[<<d, j, k>>].st = "none"
      BY <1>2, <2>1, <2>3 DEF Advance
    <2> QED
      BY <2>2, <2>3
  <1>11. FirstOwnDeployment'
    <2> SUFFICES ASSUME NEW u \in Calls, u[1] = 1, call'[u].st = "flight", Current(u)'
                 PROVE  FALSE
      BY DEF FirstOwnDeployment, OnItsOwn
    <2>1. u = <<u[1], u[2], u[3]>> /\ u[1] \in Cmds /\ u[2] \in Tries /\ u[3] \in 1 .. LastCall(u[1])
      BY CallIds
    <2>2. u[1] = c
      BY <1>5, <2>1 DEF Current
    <2>3. call[u].st = "none"
      BY <1>1, <2>1, <2>2 DEF FallbackInv, TurnsInv, Untouched
    <2>4. call'[u] = IF u[2] = 1 /\ u[3] \in Chunks(c) THEN Fresh("ready", "predict") ELSE call[u]
      BY <1>4, <2>1, <2>2, LaunchedIs DEF Start, TypeOK
    <2>5. Fresh("ready", "predict").st = "ready"
      BY FreshType
    <2> QED
      BY <2>3, <2>4, <2>5
  <1>12. FailsOnlyExhausted'
    <2> SUFFICES ASSUME NEW d \in Cmds, outcome'[d] = "failed", NEW j \in DOMAIN ModelsOf(d)
                 PROVE  Errors(d, j)'
      BY <1>1 DEF FailsOnlyExhausted, Errors, ModelsOf
    <2>1. outcome[d] = "failed"
      BY <1>5, <1>6
    <2>2. Errors(d, j)
      BY <2>1 DEF FallbackInv, AllModelsAsked, FailsOnlyExhausted, Errors
    <2>3. j \in Tries
      BY ModelsAre DEF TypeOK, Tries
    <2> QED
      BY <1>2, <1>4, <2>2, <2>3, AdvanceKeeps
  <1> QED
    BY <1>7, <1>8, <1>9, <1>10, <1>11, <1>12 DEF FallbackInv, AllModelsAsked

LEMMA RefuseKeeps ==
  ASSUME TypeOK, FallbackInv, NEW c \in Cmds, Refuse(c)
  PROVE  TypeOK' /\ FallbackInv'
  <1>1. /\ outcome[c] = "waiting" /\ outcome' = [outcome EXCEPT ![c] = "refused"]
        /\ UNCHANGED <<config, deployment, pairs, at, call>>
        /\ \A b \in 1 .. c - 1 : Ended(b)
    BY DEF Refuse
  <1>2. TypeOK'
    BY <1>1 DEF TypeOK
  <1>3. /\ \A d \in Cmds : d # c => outcome'[d] = outcome[d]
        /\ outcome'[c] = "refused" /\ \A d \in Cmds : Ended(d) => Ended(d)'
    BY <1>1 DEF TypeOK, Ended
  <1>5. \A d \in Cmds, i \in Tries : (Errors(d, i)' <=> Errors(d, i)) /\ (Untouched(d, i)' <=> Untouched(d, i))
    BY <1>1 DEF Errors, Untouched
  <1>6. TurnsInv'
    <2>1. ASSUME NEW d \in Cmds, outcome'[d] # "waiting", NEW b \in 1 .. d - 1 PROVE Ended(b)'
      <3>1. Ended(b)
        BY <1>1, <1>3, <2>1 DEF FallbackInv, TurnsInv
      <3>2. b \in Cmds
        BY CommandTypes DEF Cmds
      <3> QED
        BY <1>3, <3>1, <3>2
    <2> QED
      BY <1>3, <1>5, <2>1 DEF FallbackInv, TurnsInv
  <1>7. RunningInv'
    <2>1. ASSUME NEW d \in Cmds, outcome'[d] = "running" PROVE outcome[d] = "running"
      BY <1>3, <2>1
    <2> QED
      BY <1>1, <2>1 DEF FallbackInv, RunningInv, Errors, Untouched, ModelsOf
  <1>8. DeploymentInv'
    BY <1>1, <1>3 DEF FallbackInv, DeploymentInv, ConfiguredFor
  <1>9. OrderInv'
    BY <1>1 DEF FallbackInv, OrderInv, Before
  <1>10. FirstOwnDeployment'
    <2> SUFFICES ASSUME NEW u \in Calls, u[1] = 1, call[u].st = "flight", call[u].phase = "predict", Current(u)'
                 PROVE  call[u].dep = ConfiguredFor(u[2])
      BY <1>1 DEF FirstOwnDeployment, OnItsOwn, ConfiguredFor
    <2>1. u[1] \in Cmds
      BY CallIds
    <2>2. Current(u)
      BY <1>1, <1>3, <2>1 DEF Current
    <2> QED
      BY <2>2 DEF FallbackInv, AllModelsAsked, FirstOwnDeployment, OnItsOwn
  <1>11. FailsOnlyExhausted'
    <2>1. ASSUME NEW d \in Cmds, outcome'[d] = "failed" PROVE outcome[d] = "failed"
      BY <1>3, <2>1
    <2> QED
      BY <1>1, <2>1 DEF FallbackInv, AllModelsAsked, FailsOnlyExhausted, ModelsOf
  <1> QED
    BY <1>2, <1>6, <1>7, <1>8, <1>9, <1>10, <1>11 DEF FallbackInv, AllModelsAsked

-----------------------------------------------------------------------------
(* The theorems.                                                           *)

LEMMA InitInv == Init => TypeOK /\ FallbackInv
  <1> SUFFICES ASSUME Init PROVE FallbackInv
    BY InitTypes
  <1>1. \A t \in Calls : call[t].st = "none"
    BY FreshType DEF Init, NoCall
  <1>2. \A c \in Cmds : outcome[c] = "waiting" /\ \A i \in Tries : Untouched(c, i)
    BY <1>1, CallIds DEF Init, Untouched
  <1>3. TurnsInv /\ RunningInv /\ DeploymentInv
    BY <1>2 DEF Init, TurnsInv, RunningInv, DeploymentInv
  <1>4. OrderInv
    BY <1>1, CallIds DEF OrderInv
  <1>5. AllModelsAsked
    BY <1>1, <1>2 DEF AllModelsAsked, FirstOwnDeployment, OnItsOwn, FailsOnlyExhausted
  <1> QED
    BY <1>3, <1>4, <1>5 DEF FallbackInv

LEMMA NextInv == TypeOK /\ FallbackInv /\ [Next]_vars => TypeOK' /\ FallbackInv'
  <1> SUFFICES ASSUME TypeOK, FallbackInv, [Next]_vars PROVE TypeOK' /\ FallbackInv'
    OBVIOUS
  <1>1. CASE UNCHANGED vars
    <2>1. TypeOK'
      BY <1>1 DEF vars, TypeOK
    <2>2. TurnsInv' /\ RunningInv'
      BY <1>1 DEF vars, FallbackInv, TurnsInv, RunningInv, Ended, Untouched, Errors, ModelsOf
    <2>3. DeploymentInv' /\ OrderInv'
      BY <1>1 DEF vars, FallbackInv, DeploymentInv, ConfiguredFor, OrderInv, Before
    <2>4. AllModelsAsked'
      BY <1>1 DEF vars, FallbackInv, AllModelsAsked, FirstOwnDeployment, OnItsOwn, Current, ConfiguredFor,
                  FailsOnlyExhausted, ModelsOf
    <2> QED
      BY <2>1, <2>2, <2>3, <2>4 DEF FallbackInv
  <1>2. ASSUME NEW c \in Cmds, Start(c) \/ Refuse(c) PROVE TypeOK' /\ FallbackInv'
    BY <1>2, StartTypes, StartKeeps, RefuseKeeps
  <1>3. ASSUME NEW t \in Calls, CallStep(t) PROVE TypeOK' /\ FallbackInv'
    BY <1>3, StepTypes, StepTurns, StepRunning, StepDeployment, StepOrder, StepOwn, StepExhausted
       DEF FallbackInv, AllModelsAsked
  <1> QED
    BY <1>1, <1>2, <1>3 DEF Next, CallStep, Goes

\* Types, for any commands and configurations.
THEOREM TypeCorrect == Spec => []TypeOK
  BY InitInv, NextInv, PTL DEF Spec

\* Whatever commands a request has and however its calls overlap, a command
\* fails only when each of its models has, and the first one asks each of its
\* models on the deployment configured for it.
THEOREM ModelsAsked == Spec => []AllModelsAsked
  <1>1. FallbackInv => AllModelsAsked
    BY DEF FallbackInv
  <1> QED
    BY <1>1, InitInv, NextInv, PTL DEF Spec

-----------------------------------------------------------------------------
(* The fallback loop takes the steps of ModelFallbackAbs.                  *)

tried == [c \in Cmds |-> LastTry(c)]

LEMMA LastOf ==
  ASSUME NEW used, NEW i \in used, used \subseteq Tries, \A j \in used : j =< i
  PROVE  (IF used = {} THEN 0 ELSE CHOOSE m \in used : \A j \in used : j =< m) = i
  <1>1. \A j \in used : j \in Nat
    BY LongestList DEF Tries
  <1>2. \A m \in used : (\A j \in used : j =< m) => m = i
    BY <1>1
  <1> QED
    BY <1>2

LEMMA UsedIs ==
  ASSUME NEW c \in Cmds
  PROVE  /\ Used(c) = {i \in Tries : ~Untouched(c, i)}
         /\ Used(c)' = {i \in Tries : ~Untouched(c, i)'}
         /\ \A j \in Tries : j \in Nat
  <1>1. Used(c) = {i \in Tries : ~Untouched(c, i)} /\ Used(c)' = {i \in Tries : ~Untouched(c, i)'}
    BY Zenon DEF Used, Untouched, Tries
  <1>2. \A j \in Tries : j \in Nat
    BY LongestList DEF Tries
  <1> QED
    BY <1>1, <1>2

LEMMA LastTryIs ==
  ASSUME NEW c \in Cmds, NEW i \in Tries
  PROVE  /\ ~Untouched(c, i) /\ (\A j \in Tries : j > i => Untouched(c, j)) => LastTry(c) = i
         /\ ~Untouched(c, i)' /\ (\A j \in Tries : j > i => Untouched(c, j)') => LastTry(c)' = i
  <1>1. ASSUME ~Untouched(c, i), \A j \in Tries : j > i => Untouched(c, j) PROVE LastTry(c) = i
    <2>1. i \in Used(c) /\ Used(c) \subseteq Tries /\ \A j \in Used(c) : j =< i
      BY <1>1, UsedIs
    <2> QED
      BY <2>1, LastOf DEF LastTry
  <1>2. ASSUME ~Untouched(c, i)', \A j \in Tries : j > i => Untouched(c, j)' PROVE LastTry(c)' = i
    <2>1. i \in Used(c)' /\ Used(c)' \subseteq Tries /\ \A j \in Used(c)' : j =< i
      BY <1>2, UsedIs
    <2> QED
      BY <2>1, LastOf DEF LastTry
  <1> QED
    BY <1>1, <1>2

LEMMA RunningTried ==
  ASSUME TypeOK, FallbackInv, NEW c \in Cmds, outcome[c] = "running"
  PROVE  tried[c] = at /\ at \in Tries /\ Len(pairs) = Count /\ at \in 1 .. Count
  <1>1. /\ Len(pairs) = Len(ModelsOf(c)) /\ at \in DOMAIN pairs
        /\ ~Untouched(c, at) /\ \A i \in Tries : i > at => Untouched(c, i)
    BY DEF FallbackInv, RunningInv
  <1>2. Len(pairs) = Count /\ at \in 1 .. Count /\ at \in Tries
    BY <1>1, ModelsAre DEF TypeOK, Tries
  <1> QED
    BY <1>1, <1>2, LastTryIs DEF tried

LEMMA SameTry ==
  ASSUME NEW c \in Cmds, \A j \in Tries : Untouched(c, j)' <=> Untouched(c, j)
  PROVE  LastTry(c)' = LastTry(c)
  <1>1. Used(c)' = Used(c)
    BY DEF Used, Untouched
  <1> QED
    BY <1>1 DEF LastTry

LEMMA StepTried ==
  ASSUME NEW c \in Cmds, NEW i \in Tries, Advance(c, i), NEW d \in Cmds, d # c \/ ~Untouched(c, i)
  PROVE  tried'[d] = tried[d]
  <1>1. \A j \in Tries : Untouched(d, j)' <=> Untouched(d, j)
    BY AdvanceKeeps
  <1> QED
    BY <1>1, SameTry DEF tried

CmdsAre == Cmds = 1 .. Len(Commands) /\ Len(Commands) \in Nat

LEMMA CmdsNumbered == CmdsAre
  BY CommandTypes DEF CmdsAre, Cmds

LEMMA InitPromise == Init => Promise!Init
  <1> SUFFICES ASSUME Init PROVE Promise!Init
    OBVIOUS
  <1>1. config \in Configs /\ outcome = [c \in 1 .. Len(Commands) |-> "waiting"]
    BY CmdsNumbered DEF Init, CmdsAre
  <1>2. Len(config.fallbacks) + 1 \in 1 .. MaxModels
    <2>1. 1 + Len(config.fallbacks) \in 1 .. MaxModels /\ Len(config.fallbacks) \in Nat
      BY <1>1, LongestList, ConfigTypes
    <2> QED
      BY <2>1
  <1>3. \A c \in Cmds : LastTry(c) = 0
    <2>1. \A c \in Cmds, i \in Tries : Untouched(c, i)
      BY InitInv DEF Init, FallbackInv, TurnsInv
    <2>2. \A c \in Cmds : Used(c) = {}
      BY <2>1 DEF Used, Untouched
    <2> QED
      BY <2>2 DEF LastTry
  <1>4. [c \in Cmds |-> LastTry(c)] = [c \in 1 .. Len(Commands) |-> 0]
    BY <1>3, CmdsNumbered DEF CmdsAre
  <1> QED
    BY <1>1, <1>2, <1>4 DEF Promise!Init

LEMMA StartPromise ==
  ASSUME TypeOK, FallbackInv, NEW c \in Cmds, Start(c)
  PROVE  Promise!Next
  <1>1. /\ outcome[c] = "waiting" /\ UNCHANGED config /\ at' = 1
        /\ outcome' = [outcome EXCEPT ![c] = "running"]
        /\ \A b \in 1 .. c - 1 : Ended(b)
    BY DEF Start
  <1>2. Advance(c, 1) /\ 1 \in Tries
    <2>1. 1 \in Tries
      BY ModelsAre DEF TypeOK, Tries
    <2> QED
      BY <2>1, StartAdvances
  <1>3. tried'[c] = 1
    <2>1. TypeOK' /\ FallbackInv' /\ outcome'[c] = "running"
      BY <1>1, StartTypes, StartKeeps DEF TypeOK
    <2>2. ~Untouched(c, 1)' /\ \A i \in Tries : i > 1 => Untouched(c, i)'
      BY <1>1, <2>1 DEF FallbackInv, RunningInv, Untouched
    <2>3. LastTry(c)' = 1
      BY <1>2, <2>2, LastTryIs
    <2> QED
      BY <2>3 DEF tried
  <1>4. \A d \in Cmds : d # c => tried'[d] = tried[d]
    BY <1>2, StepTried
  <1>5. tried' = [tried EXCEPT ![c] = 1]
    BY <1>3, <1>4 DEF tried
  <1>6. Promise!Start(c)
    BY <1>1, <1>5 DEF Promise!Start, Promise!Turn, Promise!Ended, Ended, tried
  <1> QED
    BY <1>1, <1>6, CmdsNumbered DEF Promise!Next, CmdsAre

LEMMA RefusePromise ==
  ASSUME TypeOK, NEW c \in Cmds, Refuse(c)
  PROVE  Promise!Next
  <1>1. /\ outcome[c] = "waiting" /\ UNCHANGED <<config, call>>
        /\ outcome' = [outcome EXCEPT ![c] = "refused"]
        /\ \A b \in 1 .. c - 1 : Ended(b)
    BY DEF Refuse
  <1>2. tried' = tried
    BY <1>1 DEF tried, LastTry, Used
  <1>3. Promise!Refuse(c)
    BY <1>1, <1>2 DEF Promise!Refuse, Promise!Turn, Promise!Ended, Ended, tried
  <1> QED
    BY <1>1, <1>3, CmdsNumbered DEF Promise!Next, CmdsAre

LEMMA StepPromise ==
  ASSUME TypeOK, FallbackInv, NEW t \in Calls, CallStep(t)
  PROVE  Promise!Next \/ UNCHANGED Promise!vars
  <1> DEFINE c == t[1]
  <1>1. /\ UNCHANGED config /\ c \in Cmds /\ ~Untouched(c, t[2])
        /\ TypeOK' /\ FallbackInv'
    BY StepCall, BegunCall, NextInv DEF Next, CallStep, Goes
  <1>2. PICK i \in Tries :
              /\ Advance(c, i)
              /\ \/ i = t[2] /\ at' = at
                 \/ Current(t) /\ i = at + 1 /\ at' = i /\ i \in DOMAIN pairs /\ outcome' = outcome
    BY StepCall
  <1>3. \A d \in Cmds : d # c => tried'[d] = tried[d]
    BY <1>1, <1>2, StepTried
  <1>4. \/ outcome' = outcome
        \/ Current(t) /\ outcome' = [outcome EXCEPT ![c] = "ok"]
        \/ Current(t) /\ at = Len(pairs) /\ outcome' = [outcome EXCEPT ![c] = "failed"]
    BY StepCall
  <1>5. c \in 1 .. Len(Commands) /\ tried = [d \in Cmds |-> tried[d]] /\ tried' = [d \in Cmds |-> tried'[d]]
    BY <1>1, CmdsNumbered DEF CmdsAre, tried
  <1>6. CASE i = t[2] /\ at' = at
    <2>1. tried' = tried
      <3>1. \A d \in Cmds : tried'[d] = tried[d]
        BY <1>1, <1>2, <1>6, StepTried
      <3> QED
        BY <1>5, <3>1
    <2>2. CASE outcome' = outcome
      BY <1>1, <2>1, <2>2 DEF Promise!vars, tried
    <2>3. CASE Current(t) /\ outcome' = [outcome EXCEPT ![c] = "ok"]
      <3>1. Promise!Answer(c)
        BY <2>1, <2>3 DEF Promise!Answer, Current, tried
      <3> QED
        BY <1>1, <1>5, <3>1 DEF Promise!Next
    <2>4. CASE Current(t) /\ at = Len(pairs) /\ outcome' = [outcome EXCEPT ![c] = "failed"]
      <3>1. tried[c] = Len(config.fallbacks) + 1
        BY <1>1, <2>4, RunningTried DEF Current, Count
      <3>2. Promise!GiveUp(c)
        BY <2>1, <2>4, <3>1 DEF Promise!GiveUp, Current, tried
      <3> QED
        BY <1>1, <1>5, <3>2 DEF Promise!Next
    <2> QED
      BY <1>4, <2>2, <2>3, <2>4
  <1>7. CASE Current(t) /\ i = at + 1 /\ at' = i /\ i \in DOMAIN pairs /\ outcome' = outcome
    <2>1. outcome[c] = "running" /\ tried[c] = at /\ Len(pairs) = Count /\ at \in 1 .. Count /\ at \in Tries
      BY <1>1, <1>7, RunningTried DEF Current
    <2>2. at < Count
      BY <1>7, <2>1, ModelsAre DEF TypeOK
    <2>3. outcome' = outcome
      BY <1>7
    <2>4. tried'[c] = at + 1
      <3>1. outcome'[c] = "running"
        BY <2>1, <2>3
      <3>2. ~Untouched(c, i)' /\ \A j \in Tries : j > i => Untouched(c, j)'
        BY <1>1, <1>7, <3>1 DEF FallbackInv, RunningInv, Untouched
      <3>6. LastTry(c)' = i
        BY <1>1, <3>2, LastTryIs
      <3> QED
        BY <1>1, <1>7, <3>6 DEF tried
    <2>5. tried' = [tried EXCEPT ![c] = tried[c] + 1]
      BY <1>3, <1>5, <2>1, <2>4
    <2>6. Promise!NextModel(c)
      BY <2>1, <2>2, <2>3, <2>5 DEF Promise!NextModel, tried, Count
    <2> QED
      BY <1>1, <1>5, <2>6 DEF Promise!Next
  <1> QED
    BY <1>2, <1>6, <1>7

\* The fallback loop keeps the safety part of what ModelFallbackAbs promises,
\* step by step; that every command ends is left to the run.
THEOREM Implements == Spec => Promise!Safety
  <1>1. TypeOK /\ FallbackInv /\ [Next]_vars => [Promise!Next]_(Promise!vars)
    <2> SUFFICES ASSUME TypeOK, FallbackInv, [Next]_vars PROVE Promise!Next \/ UNCHANGED Promise!vars
      OBVIOUS
    <2>1. CASE UNCHANGED vars
      BY <2>1 DEF vars, Promise!vars, LastTry, Used
    <2>2. ASSUME NEW c \in Cmds, Start(c) \/ Refuse(c) PROVE Promise!Next
      BY <2>2, StartPromise, RefusePromise
    <2> QED
      BY <2>1, <2>2, StepPromise DEF Next, CallStep, Goes
  <1> QED
    BY <1>1, InitPromise, InitInv, NextInv, PTL DEF Spec, Promise!Safety
=============================================================================
