----------------------------- MODULE CallParams -----------------------------
(***************************************************************************)
(* The arguments chat_completion composes for a call of litellm: to which  *)
(* service the model is routed, the limits on what it may write and think, *)
(* and the parameters a family of models refuses.  One step of the machine *)
(* composes one call; nothing is kept from call to call.                   *)
(***************************************************************************)
EXTENDS Integers, Sequences

CONSTANTS
  ModelNames,   \* [prefix: a sequence of services, family], e.g. azure/openai/gpt-5
  CallSettings, \* the settings and arguments a call may be made with
  Thinking,     \* CLAUDE_EXTENDED_THINKING_MODELS, or what overrides it
  TakesUser     \* families that accept the field "user"

ASSUME CallAssumption ==
  /\ ModelNames \subseteq [prefix : Seq(STRING), family : STRING]
  /\ CallSettings \subseteq
       [azure : BOOLEAN, base : STRING, key : STRING, effort : STRING, custom : BOOLEAN, thinks : BOOLEAN,
        budget : Int, output : Int, seed : Int, temperature : Int, parses : BOOLEAN, attribute : BOOLEAN,
        only : BOOLEAN, order : BOOLEAN, effortOR : STRING, tokensOR : Int, capOR : Int]

NoKey == "none"
DummyKey == "dummy_key"

VARIABLES
  asked,     \* the model asked for
  settings,  \* [azure, base, key, effort, custom, thinks, budget, output, seed,
             \*  temperature, parses, attribute, only, order, effortOR, tokensOR, capOR]
  sent       \* the arguments of the call, or how composing them ended

callVars == <<asked, settings, sent>>

-----------------------------------------------------------------------------
(* Deliberate faults: each replaces the operator it is named after.        *)

FaultKeeps(m) == m.prefix # <<>> /\ m.prefix[1] = "openrouter"

-----------------------------------------------------------------------------
(* Routing.                                                                *)

Explicit(m, service) == m.prefix # <<>> /\ m.prefix[1] = service

\* Prefixes that Azure mode leaves alone.
Keeps(m) == Explicit(m, "databricks") \/ Explicit(m, "openrouter")

\* GPT-5 and later, whatever openai/ and azure/ stand before them.
IsGpt(m) == m.family \in {"gpt-5", "gpt-6", "gpt-6-sol"} /\ (\A i \in DOMAIN m.prefix : m.prefix[i] \in {"openai", "azure"})

Routed(m, s) ==
  IF IsGpt(m)
  THEN [m EXCEPT !.prefix = <<IF s.azure \/ Explicit(m, "azure") THEN "azure" ELSE "openai">>]
  ELSE IF s.azure /\ ~Keeps(m) THEN [m EXCEPT !.prefix = <<"azure">> \o @] ELSE m

Databricks(m) == Explicit(m, "databricks")

Base(m, s) == IF Databricks(m) THEN "databricks" ELSE s.base

\* The key other code has left in litellm, but for models that have their own.
Key(m, s) == IF s.key \notin {NoKey, DummyKey} /\ ~Databricks(m) THEN s.key ELSE NoKey

-----------------------------------------------------------------------------
(* Parameters.                                                             *)

ReasoningEfforts == {"none", "minimal", "low", "medium", "high", "xhigh"}
Effort(s) == IF s.effort \in ReasoningEfforts THEN s.effort ELSE "medium"

\* Efforts that a model of the GPT-6 generation rejects are raised to low.
EffortFor(m, s) ==
  IF \/ m.family \in {"gpt-6", "gpt-6-sol"} /\ Effort(s) = "minimal"
     \/ m.family = "gpt-6-sol" /\ Effort(s) = "none"
  THEN "low" ELSE Effort(s)

\* Models that take an effort are matched behind any prefix, those that take no
\* temperature or no system message exactly as they are routed.
TakesEffort(m) == m.family \in {"o3", "gemini"}
Reasoner(m) == m = [prefix |-> <<"deepseek">>, family |-> "reasoner"]
NoTemperature(m) == Reasoner(m) \/ m = [prefix |-> <<>>, family |-> "o3"]
Messages(m, s) == IF Reasoner(m) \/ s.custom THEN "user" ELSE "system and user"

Thinks(m, s) == m \in Thinking /\ s.thinks
ThinkingIsValid(s) == s.budget > 0 /\ s.output > 0 /\ s.output >= s.budget

Temperature(m, s) ==
  IF Thinks(m, s) THEN 1
  ELSE IF IsGpt(m) \/ NoTemperature(m) \/ s.custom THEN -1 ELSE s.temperature

EffortSent(m, s) == IF IsGpt(m) THEN EffortFor(m, s) ELSE IF TakesEffort(m) THEN Effort(s) ELSE "unset"

\* The output cap of [openrouter] lowers the one of extended thinking; 0 is unset.
Capped(max, s) ==
  IF s.capOR <= 0 THEN max ELSE IF max > 0 /\ max < s.capOR THEN max ELSE s.capOR

OpenRouter(m) == Explicit(m, "openrouter")
MaxTokens(m, s) ==
  LET thinking == IF Thinks(m, s) THEN s.output ELSE 0
  IN IF OpenRouter(m) THEN Capped(thinking, s) ELSE thinking

\* provider_only is a hard list; an order may allow others.
Provider(s) == IF s.only THEN "only" ELSE IF s.order THEN "ordered" ELSE "unset"

Reasoning(s) ==
  LET enabled == s.effortOR # "none"
  IN [enabled |-> enabled,
      effort |-> IF s.effortOR \in {"low", "medium", "high"} THEN s.effortOR ELSE "unset",
      tokens |-> IF enabled /\ s.tokensOR > 0 THEN s.tokensOR ELSE 0]

\* Attribution goes into a field of the call, or into OpenRouter's body.
User(m, s) ==
  IF ~s.attribute THEN "no" ELSE IF m.family \in TakesUser THEN "field"
  ELSE IF OpenRouter(m) THEN "body" ELSE "no"

\* ValueErrors on the way; the handler turns them into errors that are retried.
Raises(m, s) ==
  \/ Thinks(m, s) /\ ~ThinkingIsValid(s)
  \/ s.temperature > 0 /\ s.seed >= 0
  \/ ~s.parses

Kwargs(m, s) ==
  LET r == Routed(m, s)
  IN [st |-> "called", model |-> r, base |-> Base(m, s), key |-> Key(m, s), messages |-> Messages(r, s),
      temperature |-> Temperature(r, s), effort |-> EffortSent(r, s), seed |-> s.seed,
      thinking |-> IF Thinks(r, s) THEN s.budget ELSE 0, max |-> MaxTokens(r, s),
      provider |-> IF OpenRouter(r) THEN Provider(s) ELSE "unset",
      reasoning |-> IF OpenRouter(r) THEN Reasoning(s) ELSE Reasoning([effortOR |-> "unset", tokensOR |-> 0]),
      user |-> User(r, s)]

ComposeInit == asked \in ModelNames /\ settings \in CallSettings /\ sent = [st |-> "unsent"]

Compose ==
  /\ sent.st = "unsent"
  /\ sent' = IF Raises(Routed(asked, settings), settings) THEN [st |-> "raises"] ELSE Kwargs(asked, settings)
  /\ UNCHANGED <<asked, settings>>

ComposeSpec == ComposeInit /\ [][Compose]_callVars

-----------------------------------------------------------------------------
(* Properties.                                                             *)

Called == sent.st = "called"

\* The service the user means: one named before the model, else Azure in Azure
\* mode, else OpenAI for its own families (litellm_ai_handler.py:573-575).
Meant(m, s) ==
  IF Explicit(m, "databricks") \/ Explicit(m, "openrouter") THEN m.prefix[1]
  ELSE IF s.azure \/ Explicit(m, "azure") THEN "azure"
  ELSE IF m.prefix # <<>> THEN m.prefix[1]
  ELSE IF IsGpt(m) THEN "openai" ELSE "unnamed"

\* A call reaches the service that was meant, once routed through two prefixes
\* of Microsoft and OpenAI at the most as the user wrote them, and Databricks is
\* called with neither the base nor the key of another provider of the same
\* settings (litellm_ai_handler.py:592-594, 781-782).
RightService ==
  Called => LET p == sent.model.prefix
            IN /\ Meant(asked, settings) = IF p = <<>> THEN "unnamed" ELSE p[1]
               /\ IsGpt(asked) => Len(p) = 1
               /\ p # <<>> /\ p[1] = "databricks" => sent.base = "databricks" /\ sent.key = NoKey

\* No setting raises the output above a cap: neither OpenRouter's (a "hard cap",
\* configuration.toml:377) nor that of extended thinking; a budget for thinking
\* fits into the output unless OpenRouter's cap is lower than the budget.
WithinCaps ==
  Called =>
    /\ sent.model.prefix # <<>> /\ sent.model.prefix[1] = "openrouter" /\ settings.capOR > 0 =>
         sent.max \in 1 .. settings.capOR
    /\ sent.thinking > 0 => /\ sent.max \in 1 .. settings.output
                            /\ sent.max >= sent.thinking \/ settings.capOR \in 1 .. sent.thinking - 1
                            /\ sent.temperature = 1

\* A call carries no parameter its model is known to reject: an effort of
\* another generation, a temperature beside an effort of GPT-5 and later or
\* beside a fixed seed, or tokens for a reasoning that is switched off.
NoRejectedParameter ==
  Called =>
    /\ sent.model.family = "gpt-6-sol" /\ IsGpt(sent.model) => sent.effort \in ReasoningEfforts \ {"minimal", "none"}
    /\ IsGpt(sent.model) => sent.temperature = -1 \/ sent.model \in Thinking
    /\ sent.seed >= 0 => sent.temperature =< 0 \/ sent.thinking > 0
    /\ ~sent.reasoning.enabled => sent.reasoning.tokens = 0 /\ sent.reasoning.effort = "unset"

\* A call is made as its settings mean it, and as its model takes it.
CallAsMeant == RightService /\ WithinCaps /\ NoRejectedParameter

-----------------------------------------------------------------------------
(* What makes them hold.                                                   *)

\* What has been sent is what its settings make of it.
CallInv ==
  /\ asked \in ModelNames /\ settings \in CallSettings
  /\ \/ sent \in {[st |-> "unsent"], [st |-> "raises"]}
     \/ sent = Kwargs(asked, settings) /\ ~Raises(Routed(asked, settings), settings)
=============================================================================
