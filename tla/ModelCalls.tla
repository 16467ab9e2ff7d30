----------------------------- MODULE ModelCalls -----------------------------
(***************************************************************************)
(* The model calls of the commands of one request: the fallback loop of    *)
(* retry_with_fallback_models, the retries of chat_completion, the chunks  *)
(* a tool gathers, the self-reflection call that follows each of them, and *)
(* the setting openai.deployment_id that all of them share.                *)
(*                                                                         *)
(* The commands of a request run one after the other on one event loop.  A *)
(* call is a task; it suspends only while its request is in flight.        *)
(***************************************************************************)
EXTENDS Integers, Sequences

CONSTANTS
  Commands,            \* <<[model, chunks, reflect, final], ...>>
  Deployment,          \* openai.deployment_id as configured
  Configs              \* configurations to check: fallback_models, the
                       \* fallback_deployments, parallel_calls/async_ai_calls

ToSet(s) == {s[i] : i \in DOMAIN s}

ASSUME CommandTypes ==
  /\ Commands \in Seq(ToSet(Commands))
  /\ \A c \in DOMAIN Commands : /\ Commands[c].chunks \in Nat \ {0}
                                /\ Commands[c].reflect \in BOOLEAN
                                /\ Commands[c].final \in BOOLEAN

\* One of the configurations has the longest list of fallbacks.
ASSUME ConfigTypes ==
  /\ \A f \in Configs : /\ f.fallbacks \in Seq(ToSet(f.fallbacks))
                        /\ f.deployments \in Seq(ToSet(f.deployments))
                        /\ f.parallel \in BOOLEAN
  /\ \E f \in Configs : \A g \in Configs : Len(g.fallbacks) =< Len(f.fallbacks)

VARIABLES
  config,              \* the configuration, never written
  deployment,          \* settings.openai.deployment_id, written by every try
  pairs,               \* the (model, deployment) pairs of the running command
  at,                  \* the pair it is trying
  call,                \* the call of each chunk, by command, pair and chunk
  outcome              \* what became of each command

vars == <<config, deployment, pairs, at, call, outcome>>

MODEL_RETRIES == 2
Cmds == DOMAIN Commands
MaxModels == 1 + CHOOSE n \in {Len(f.fallbacks) : f \in Configs} :
                   \A f \in Configs : Len(f.fallbacks) =< n
Tries == 1 .. MaxModels

\* A try makes one call per chunk and, if final, one more over their answers.
LastCall(c) == Commands[c].chunks + IF Commands[c].final THEN 1 ELSE 0
Calls == UNION {{c} \X Tries \X (1 .. LastCall(c)) : c \in Cmds}

\* A call that has not been attempted in this phase, or is over.
Fresh(st, phase) == [st |-> st, phase |-> phase, attempts |-> 0, dep |-> Deployment]
NoCall == Fresh("none", "predict")
Ended(c) == outcome[c] \in {"ok", "failed", "refused"}
FaultCurrent(t) == outcome[t[1]] = "running"

\* The command waits for this call: it belongs to the try it is at.
Current(t) == outcome[t[1]] = "running" /\ t[2] = at

-----------------------------------------------------------------------------
(* Deliberate faults: each replaces the operator it is named after.        *)

FaultNextTry(i) == IF i + 2 =< Len(pairs) THEN i + 2 ELSE i + 1

-----------------------------------------------------------------------------
(* The models and deployments a command may use.                           *)

\* _get_all_models
ModelsOf(c) == <<Commands[c].model>> \o config.fallbacks

\* _get_all_deployments, which reads what an earlier try has left
DeploymentsOf(c) ==
  IF config.deployments = <<>> THEN [i \in DOMAIN ModelsOf(c) |-> deployment]
                                ELSE <<deployment>> \o config.deployments

TooFew(c) == Len(DeploymentsOf(c)) < Len(ModelsOf(c))

\* zip
PairsOf(c) == [i \in DOMAIN ModelsOf(c) \cap DOMAIN DeploymentsOf(c) |->
                 <<ModelsOf(c)[i], DeploymentsOf(c)[i]>>]

-----------------------------------------------------------------------------
(* The fallback loop.                                                      *)

\* gather creates the calls of every chunk, the sequential loop the first.
Launched(c, i, calls) ==
  LET ks == IF config.parallel THEN 1 .. Commands[c].chunks ELSE {1}
  IN [t \in Calls |-> IF t \in {<<c, i, k>> : k \in ks}
                      THEN Fresh("ready", "predict") ELSE calls[t]]

IsLast(i)  == i = Len(pairs)
NextTry(i) == i + 1

Start(c) ==
  /\ outcome[c] = "waiting" /\ \A b \in 1 .. c - 1 : Ended(b)
  /\ ~TooFew(c)
  /\ pairs' = PairsOf(c)
  /\ at' = 1
  /\ deployment' = PairsOf(c)[1][2]
  /\ call' = Launched(c, 1, call)
  /\ outcome' = [outcome EXCEPT ![c] = "running"]
  /\ UNCHANGED config

\* ValueError; PRAgent.handle_request swallows it and the next command runs.
Refuse(c) ==
  /\ outcome[c] = "waiting" /\ \A b \in 1 .. c - 1 : Ended(b)
  /\ TooFew(c)
  /\ outcome' = [outcome EXCEPT ![c] = "refused"]
  /\ UNCHANGED <<config, deployment, pairs, at, call>>

-----------------------------------------------------------------------------
(* chat_completion.                                                        *)

\* Every attempt reads the deployment anew.
Attempt(t) ==
  /\ call[t].st = "ready"
  /\ call' = [call EXCEPT ![t] = [st |-> "flight", phase |-> @.phase,
                                      attempts |-> @.attempts + 1, dep |-> deployment]]
  /\ UNCHANGED <<config, deployment, pairs, at, outcome>>

MayRetry(n) == n < MODEL_RETRIES

Retry(t) ==
  /\ call[t].st = "flight" /\ MayRetry(call[t].attempts)
  /\ call' = [call EXCEPT ![t] = [st |-> "ready", phase |-> @.phase,
                                      attempts |-> @.attempts, dep |-> Deployment]]
  /\ UNCHANGED <<config, deployment, pairs, at, outcome>>

\* The prediction has arrived; a tool that reflects makes its second call.
Predicted(t) ==
  /\ call[t].st = "flight" /\ call[t].phase = "predict" /\ Commands[t[1]].reflect
  /\ call' = [call EXCEPT ![t] = Fresh("ready", "reflect")]
  /\ UNCHANGED <<config, deployment, pairs, at, outcome>>

\* The calls that call k of a try enables when it is done.
Follow(c, i, k, done) ==
  LET chunks == Commands[c].chunks
  IN IF config.parallel
     THEN IF /\ Commands[c].final /\ k =< chunks
             /\ \A j \in 1 .. chunks : done[<<c, i, j>>].st = "ok"
          THEN {<<c, i, chunks + 1>>} ELSE {}
     ELSE {<<c, i, j>> : j \in {k + 1} \cap (1 .. LastCall(c))}

\* The call is done: its prediction has nothing to reflect on, or reflection
\* has answered or failed, which self_reflect_on_suggestions swallows.
CallDone(t) ==
  LET c == t[1]
      done == [call EXCEPT ![t] = Fresh("ok", "predict")]
      next == Follow(c, t[2], t[3], done)
  IN /\ call[t].st = "flight"
     /\ call' = [u \in Calls |-> IF u \in next THEN Fresh("ready", "predict") ELSE done[u]]
     /\ outcome' = IF Current(t) /\ \A k \in 1 .. LastCall(c) :
                                       done[<<c, t[2], k>>].st = "ok"
                   THEN [outcome EXCEPT ![c] = "ok"] ELSE outcome
     /\ UNCHANGED <<config, deployment, pairs, at>>

\* A rate limit, or an error after the last attempt.  The first failure of a
\* chunk ends the try; gather leaves its other calls running.
Fail(t) ==
  LET c == t[1]
      failed == [call EXCEPT ![t] = Fresh("error", "predict")]
  IN /\ call[t].st = "flight" /\ call[t].phase = "predict"
     /\ IF Current(t) /\ ~IsLast(at)
        THEN /\ at' = NextTry(at)
             /\ deployment' = pairs[NextTry(at)][2]
             /\ call' = Launched(c, NextTry(at), failed)
             /\ UNCHANGED outcome
        ELSE /\ call' = failed
             /\ outcome' = IF Current(t) THEN [outcome EXCEPT ![c] = "failed"]
                           ELSE outcome
             /\ UNCHANGED <<deployment, at>>
     /\ UNCHANGED <<config, pairs>>

-----------------------------------------------------------------------------
Init ==
  /\ config \in Configs
  /\ deployment = Deployment
  /\ pairs = <<>> /\ at = 0
  /\ call = [t \in Calls |-> NoCall]
  /\ outcome = [c \in Cmds |-> "waiting"]

Next == \/ \E c \in Cmds : Start(c) \/ Refuse(c)
        \/ \E t \in Calls : \/ Attempt(t) \/ Retry(t) \/ Predicted(t)
                            \/ CallDone(t) \/ Fail(t)

Spec == Init /\ [][Next]_vars /\ WF_vars(Next)

-----------------------------------------------------------------------------
(* Properties.                                                             *)

AllModels == {Commands[c].model : c \in Cmds} \cup UNION {ToSet(f.fallbacks) : f \in Configs}
AllDeployments == {Deployment} \cup UNION {ToSet(f.deployments) : f \in Configs}
CallRecords == {r \in [st : {"none", "ready", "flight", "ok", "error"}, phase : {"predict", "reflect"},
                       attempts : 0 .. MODEL_RETRIES, dep : AllDeployments] :
                  r.st = "ready" => MayRetry(r.attempts)}

\* Types: which call states, attempts and outcomes there are.
TypeOK ==
  /\ config \in Configs
  /\ deployment \in AllDeployments
  /\ pairs \in Seq(AllModels \X AllDeployments)
  /\ at \in 0 .. MaxModels
  /\ call \in [Calls -> CallRecords]
  /\ outcome \in [Cmds -> {"waiting", "running", "ok", "failed", "refused"}]

\* The deployment configured for the i-th model of a command: deployment_id for
\* its own model, the entry of fallback_deployments for a fallback, if any.
ConfiguredFor(i) ==
  IF i = 1 \/ config.deployments = <<>> THEN Deployment ELSE config.deployments[i - 1]

OnItsOwn(t) ==
  call[t].st = "flight" /\ call[t].phase = "predict" /\ Current(t) => call[t].dep = ConfiguredFor(t[2])

\* Every prediction a command waits for is requested with the deployment
\* configured for its model (chat_completion, litellm_ai_handler.py:494, 598).
OwnDeployment == \A t \in Calls : OnItsOwn(t)

\* The same for the first command of a request, which no earlier command's
\* tries precede.
FirstOwnDeployment == \A t \in Calls : t[1] = 1 => OnItsOwn(t)

\* A command fails only when a call of every one of its models has failed.
FailsOnlyExhausted ==
  \A c \in Cmds : outcome[c] = "failed" =>
    \A i \in DOMAIN ModelsOf(c) :
      \E k \in 1 .. LastCall(c) : call[<<c, i, k>>].st = "error"

\* A command has not failed before each of its models was asked, whatever
\* becomes of the calls an abandoned try has left in flight (gather,
\* pr_code_suggestions.py:712), and the first command asks each of its models
\* on the deployment configured for it.
AllModelsAsked == FirstOwnDeployment /\ FailsOnlyExhausted

\* The last pair of which a command has made calls.
Used(c) == {i \in Tries : \E k \in 1 .. LastCall(c) : call[<<c, i, k>>].st # "none"}
LastTry(c) == IF Used(c) = {} THEN 0 ELSE CHOOSE i \in Used(c) : \A j \in Used(c) : j =< i

\* The fallback loop keeps the promise of ModelFallbackAbs.
Promise == INSTANCE ModelFallbackAbs WITH
             N <- Len(Commands), MaxModels <- MaxModels,
             models <- Len(config.fallbacks) + 1,
             tried <- [c \in Cmds |-> LastTry(c)]
KeepsPromise == Promise!Spec

-----------------------------------------------------------------------------
(* The inductive invariant of the proofs.                                  *)

Errors(c, i) == \E k \in 1 .. LastCall(c) : call[<<c, i, k>>].st = "error"
Untouched(c, i) == \A k \in 1 .. LastCall(c) : call[<<c, i, k>>].st = "none"

\* Commands take turns, and none has made a call before its turn.
TurnsInv ==
  /\ \A c \in Cmds : outcome[c] # "waiting" => \A b \in 1 .. c - 1 : Ended(b)
  /\ \A c \in Cmds : outcome[c] = "waiting" => \A i \in Tries : Untouched(c, i)

\* The running command has asked the models before the one it is at, in vain,
\* and none after it.
RunningInv ==
  \A c \in Cmds : outcome[c] = "running" =>
    /\ Len(pairs) = Len(ModelsOf(c)) /\ at \in DOMAIN pairs
    /\ ~Untouched(c, at)
    /\ \A i \in 1 .. at - 1 : Errors(c, i)
    /\ \A i \in Tries : i > at => Untouched(c, i)

\* The deployments of the first command are the configured ones.
DeploymentInv ==
  1 \in Cmds =>
    /\ outcome[1] = "waiting" => deployment = Deployment
    /\ outcome[1] = "running" => /\ deployment = ConfiguredFor(at)
                                 /\ \A i \in DOMAIN pairs : pairs[i][2] = ConfiguredFor(i)

\* The calls that must be done before call k of a try is made.
Before(c, k) ==
  LET chunks == Commands[c].chunks
  IN IF ~config.parallel THEN 1 .. k - 1 ELSE IF k > chunks THEN 1 .. chunks ELSE {}
OrderInv ==
  \A c \in Cmds : \A i \in Tries, k \in 1 .. LastCall(c) :
    call[<<c, i, k>>].st # "none" => \A j \in Before(c, k) : call[<<c, i, j>>].st = "ok"

FallbackInv == TurnsInv /\ RunningInv /\ DeploymentInv /\ OrderInv /\ AllModelsAsked
=============================================================================
