---------------------------- MODULE ProviderKeys ----------------------------
(***************************************************************************)
(* Keys of language models: each request builds a LiteLLMAIHandler from    *)
(* its own settings, the handler leaves keys in variables of the process,  *)
(* and litellm looks keys up there while it sends a call.  Requests share  *)
(* the process; the calls of one request share its handler and its lock.   *)
(***************************************************************************)
EXTENDS Integers

CONSTANTS
  Requests,  \* requests, each building one handler
  Configs,   \* settings a request may have: see ConfigTypes
  Calls,     \* the calls a request may make at the same time
  Retries    \* MODEL_RETRIES

None == "none"
Dummy == "dummy_key"

ASSUME ConfigTypes ==
  /\ None \notin Requests \cup Calls
  /\ \A s \in Configs : s.ambient \in BOOLEAN /\ s.static \in BOOLEAN

(* openai: OPENAI.KEY; branch: the key of another provider's section (GROQ,
   XAI, OPENROUTER, ...), which goes to litellm.api_key; base: the API base, of
   either; model: "databricks" models keep to their own variables, "bedrock"
   ones authenticate with the AWS credentials of the environment; ambient and
   static: which AWS credentials there are (AWS_USE_IMDS, aws.AWS_...).  *)
VARIABLES
  config,    \* config[q]: the settings of a request
  apiKey, openaiKey, globalBase,  \* litellm.api_key, openai_key, api_base
  env,       \* the AWS credentials in os.environ
  handler,   \* handler[q]: [built, base, imds, fellBack]
  lock,      \* lock[q]: the call that holds _aws_bedrock_lock, or None
  call,      \* call[q, c]: [st, tries, prepared, key, sent], see Unsent
  last,      \* the last request to build a handler (not in the code)
  wrote      \* the last request to write AWS credentials (not in the code)

process == <<apiKey, openaiKey, globalBase, env>>
vars == <<config, process, handler, lock, call, last, wrote>>

Ids == Requests \X Calls

-----------------------------------------------------------------------------
(* Deliberate faults: each replaces the operator it is named after.        *)

FaultFree(q) == TRUE
FaultDropped(q) == apiKey

-----------------------------------------------------------------------------
(* Building a handler.                                                     *)

\* A request without OPENAI.KEY drops the key another one has left.
Dropped(q) == IF config[q].openai # None THEN apiKey ELSE None

OpenAiKey(q) == IF config[q].openai # None THEN config[q].openai ELSE Dummy

\* The sections of other providers, looked at after that.
BranchKey(q) == IF config[q].branch # None THEN config[q].branch ELSE Dropped(q)

\* Ambient credentials are taken over; static ones only if there are none.
Aws(q) == IF config[q].ambient THEN "ambient" ELSE IF config[q].static THEN "static" ELSE env

Build(q) ==
  /\ ~handler[q].built
  /\ openaiKey' = OpenAiKey(q) /\ apiKey' = BranchKey(q) /\ env' = Aws(q)
  /\ globalBase' = IF config[q].base # None THEN config[q].base ELSE globalBase
  /\ handler' = [handler EXCEPT ![q] = [built |-> TRUE, base |-> config[q].base,
                                        imds |-> config[q].ambient, fellBack |-> FALSE]]
  /\ last' = q
  /\ wrote' = IF config[q].ambient \/ config[q].static THEN q ELSE wrote
  /\ UNCHANGED <<config, lock, call>>

-----------------------------------------------------------------------------
(* chat_completion.                                                        *)

Ambient(q) == handler[q].imds /\ config[q].model = "bedrock"
Free(q) == lock[q] = None

\* The code before the call is sent: the lock, a refresh of the ambient
\* credentials (which may fail, and falls back to static ones if there are
\* any), and the arguments, with the key litellm holds then.
Prepare(q, c, refreshed) ==
  LET i == <<q, c>>
      refresh == Ambient(q) /\ ~handler[q].fellBack
      back == refresh /\ ~refreshed /\ config[q].static
      now == IF ~refresh THEN env ELSE IF refreshed THEN "ambient" ELSE IF back THEN "static" ELSE env
  IN /\ handler[q].built /\ call[i].st = "ready"
     /\ Ambient(q) => Free(q)
     /\ lock' = IF Ambient(q) THEN [lock EXCEPT ![q] = c] ELSE lock
     /\ env' = now
     /\ wrote' = IF now # env \/ (refresh /\ refreshed) THEN q ELSE wrote
     /\ handler' = [handler EXCEPT ![q].fellBack = @ \/ back]
     /\ call' = [call EXCEPT ![i] =
          [st |-> "prepared", tries |-> @.tries + 1, prepared |-> now, sent |-> @.sent,
           key |-> IF config[q].model = "databricks" THEN None ELSE apiKey]]
     /\ UNCHANGED <<config, apiKey, openaiKey, globalBase, last>>

\* litellm composes the request in a thread of its own (external): the key and
\* the base of the call come first, those of the process after them; bedrock
\* signs with the environment.
Signature(q) == IF config[q].model = "bedrock" THEN env ELSE None

Send(q, c) ==
  LET i == <<q, c>>
  IN /\ call[i].st = "prepared"
     /\ call' = [call EXCEPT
          ![i].st = "sent",
          ![i].sent = [key |-> IF call[i].key # None THEN call[i].key
                               ELSE IF config[q].model = "openai" THEN openaiKey ELSE None,
                       base |-> IF handler[q].base # None THEN handler[q].base ELSE globalBase,
                       latest |-> last = q, signed |-> Signature(q), alone |-> wrote = q]]
     /\ UNCHANGED <<config, process, handler, lock, last, wrote>>

\* What a call leaves of itself when it is over, or before it is tried again.
Unsent == [key |-> None, base |-> None, latest |-> FALSE, signed |-> None, alone |-> FALSE]
Over == [st |-> "ready", tries |-> 0, key |-> None, prepared |-> None, sent |-> Unsent]

Released(q) == IF Ambient(q) THEN [lock EXCEPT ![q] = None] ELSE lock

Answer(q, c) ==
  /\ call[<<q, c>>].st \in {"sent", "resent"}
  /\ call' = [call EXCEPT ![<<q, c>>] = [Over EXCEPT !.st = "answered"]]
  /\ lock' = Released(q)
  /\ UNCHANGED <<config, process, handler, last, wrote>>

\* A rate limit is not retried.
RateLimit(q, c) ==
  /\ call[<<q, c>>].st \in {"sent", "resent"}
  /\ call' = [call EXCEPT ![<<q, c>>] = [Over EXCEPT !.st = "failed"]]
  /\ lock' = Released(q)
  /\ UNCHANGED <<config, process, handler, last, wrote>>

CanFallBack(q) == Ambient(q) /\ ~handler[q].fellBack /\ config[q].static

\* _activate_static_aws_fallback, and the call again without giving up the lock.
Immediately(q) == [handler EXCEPT ![q].fellBack = TRUE]
FallBack(q, c) ==
  /\ call[<<q, c>>].st = "sent" /\ CanFallBack(q)
  /\ env' = "static" /\ wrote' = q
  /\ handler' = Immediately(q)
  /\ call' = [call EXCEPT ![<<q, c>>].st = "again", ![<<q, c>>].prepared = "static"]
  /\ UNCHANGED <<config, apiKey, openaiKey, globalBase, lock, last>>

SendAgain(q, c) ==
  LET i == <<q, c>>
  IN /\ call[i].st = "again"
     /\ call' = [call EXCEPT ![i].st = "resent", ![i].sent.signed = Signature(q),
                             ![i].sent.alone = wrote = q]
     /\ UNCHANGED <<config, process, handler, lock, last, wrote>>

\* Any other error leaves the lock and is retried from the beginning, once.
Fail(q, c) ==
  LET i == <<q, c>>
  IN /\ \/ call[i].st = "sent" /\ ~CanFallBack(q)
        \/ call[i].st = "resent"
     /\ call' = [call EXCEPT ![i] = IF @.tries < Retries THEN [Over EXCEPT !.tries = @ + call[i].tries]
                                    ELSE [Over EXCEPT !.st = "failed"]]
     /\ lock' = Released(q)
     /\ UNCHANGED <<config, process, handler, last, wrote>>

-----------------------------------------------------------------------------
Init ==
  /\ config \in [Requests -> Configs]
  /\ apiKey = None /\ openaiKey = None /\ globalBase = None /\ env = None
  /\ handler = [q \in Requests |-> [built |-> FALSE, base |-> None, imds |-> FALSE, fellBack |-> FALSE]]
  /\ lock = [q \in Requests |-> None]
  /\ call = [i \in Ids |-> Over]
  /\ last = None /\ wrote = None

Next == \E q \in Requests :
  \/ Build(q)
  \/ \E c \in Calls :
       \/ \E refreshed \in BOOLEAN : Prepare(q, c, refreshed)
       \/ Send(q, c) \/ Answer(q, c) \/ RateLimit(q, c) \/ FallBack(q, c) \/ SendAgain(q, c) \/ Fail(q, c)

Spec == Init /\ [][Next]_vars

-----------------------------------------------------------------------------
(* Properties.                                                             *)

Keys == {None, Dummy} \cup {s.openai : s \in Configs} \cup {s.branch : s \in Configs}
Bases == {None} \cup {s.base : s \in Configs}
Credentials == {None, "ambient", "static"}
Sent == [key : Keys, base : Bases, latest : BOOLEAN, signed : Credentials, alone : BOOLEAN]
Handlers == [built : BOOLEAN, base : Bases, imds : BOOLEAN, fellBack : BOOLEAN]
CallRecords == [st : {"ready", "prepared", "sent", "again", "resent", "answered", "failed"},
                tries : Nat, key : Keys, prepared : Credentials, sent : Sent]

\* Types; every key and base is one of the settings of some request.
TypeOK ==
  /\ config \in [Requests -> Configs]
  /\ {apiKey, openaiKey} \subseteq Keys /\ globalBase \in Bases /\ env \in Credentials
  /\ handler \in [Requests -> Handlers]
  /\ lock \in [Requests -> Calls \cup {None}]
  /\ call \in [Ids -> CallRecords]
  /\ {last, wrote} \subseteq Requests \cup {None}

Own(q) == {config[q].openai, config[q].branch, Dummy, None}
Left(q) == IF config[q].openai # None THEN {config[o].branch : o \in Requests} ELSE {}

\* A call authenticates with a key of its own request's settings, if no other
\* request has built its handler meanwhile; only a request with OPENAI.KEY may
\* meet a key that was left by the section of another provider
\* (litellm_ai_handler.py:57-61).
OwnKey == \A q \in Requests, c \in Calls :
  call[<<q, c>>].sent.latest => call[<<q, c>>].sent.key \in Own(q) \cup Left(q)

\* A call is signed with the AWS credentials that were chosen for it, and after
\* the ambient ones have failed with the static ones, although the calls of a
\* request share one environment (litellm_ai_handler.py:796: "Retry immediately
\* while still holding the lock"), unless another request's handler has written
\* the environment since: the lock belongs to a handler.
SignedAsChosen == \A q \in Requests, c \in Calls :
  call[<<q, c>>].st \in {"sent", "resent"} /\ call[<<q, c>>].sent.alone /\ config[q].model = "bedrock" =>
    call[<<q, c>>].sent.signed = call[<<q, c>>].prepared

-----------------------------------------------------------------------------
(* The inductive invariants of the proofs.                                 *)

UnderWay(q, c) == call[<<q, c>>].st \in {"prepared", "sent", "again", "resent"}

\* A call under way has a handler, and its lock if the handler takes one.
Locked == \A q \in Requests, c \in Calls :
  UnderWay(q, c) => handler[q].built /\ (Ambient(q) => lock[q] = c)

\* What was chosen for a call is still there when it is sent.
StillChosen == \A q \in Requests, c \in Calls :
  call[<<q, c>>].st \in {"prepared", "again"} /\ config[q].model = "bedrock" /\ wrote = q
    => env = call[<<q, c>>].prepared

SigningInv == Locked /\ StillChosen /\ SignedAsChosen

\* The keys that the last request to build a handler has left, in the process
\* and in the calls it has under way.
OwnInv ==
  /\ apiKey \in {None} \cup {config[o].branch : o \in Requests}
  /\ \A q \in Requests :
       last = q => handler[q].built /\ openaiKey \in Own(q) /\ apiKey \in Own(q) \cup Left(q)
  /\ \A q \in Requests, c \in Calls : UnderWay(q, c) =>
       handler[q].built /\ (last = q => call[<<q, c>>].key \in Own(q) \cup Left(q))
  /\ OwnKey
=============================================================================
