--------------------------- MODULE MCModelService ---------------------------
(***************************************************************************)
(* From the dashboard to the service of a model: the providers and rows a  *)
(* request is told of, its keys, the arguments of its calls, and what they *)
(* leave to run after them.  A behaviour is that of one part, chosen at    *)
(* the start: the variables of the others do not change.                   *)
(***************************************************************************)
EXTENDS DashboardStore, ProviderKeys, CallParams, CallbackDrain, TLC

VARIABLE part

dashboard == storeVars
keys == vars
arguments == callVars
drain == drainVars

-----------------------------------------------------------------------------
(* DashboardStore: two of the providers serve the same model.              *)
MCFeatures == Defaults \cup {"push", "improve"}
MCRows == {{}, {"enabled", "open", "improve"}}
MCModel == [p \in Providers |-> IF p = "p3" THEN "n" ELSE "m"]
MCOrder == [p \in Providers |-> IF p = "p1" THEN 0 ELSE 1]

Config(o, b, base, m, a, s) ==
  [openai |-> o, branch |-> b, base |-> base, model |-> m, ambient |-> a, static |-> s]

\* A provider of the dashboard, a keyless endpoint, a section of the settings
\* with a key, the same beside Databricks, and three kinds of AWS access.
MCConfigs ==
  {Config("k1", "none", "b1", "openai", FALSE, FALSE), Config("none", "none", "none", "openai", FALSE, FALSE),
   Config("none", "g1", "none", "openai", FALSE, FALSE), Config("none", "g1", "none", "databricks", FALSE, FALSE),
   Config("none", "none", "none", "bedrock", TRUE, TRUE), Config("none", "none", "none", "bedrock", TRUE, FALSE),
   Config("none", "none", "none", "bedrock", FALSE, TRUE)}

M(prefix, family) == [prefix |-> prefix, family |-> family]

MCModels ==
  {M(<<>>, "gpt-5"), M(<<"openai">>, "gpt-5"), M(<<"azure", "openai">>, "gpt-6"), M(<<>>, "gpt-6-sol"),
   M(<<"openrouter", "openai">>, "gpt-6-sol"), M(<<>>, "o3"), M(<<"azure">>, "o3"), M(<<"deepseek">>, "reasoner"),
   M(<<"anthropic">>, "claude"), M(<<"openrouter", "anthropic">>, "claude"), M(<<"databricks">>, "claude"),
   M(<<"openrouter", "google">>, "gemini")}
ThinkingModels == {m \in MCModels : m.family = "claude"}

\* Routing needs no limits, and limits no routing.
Routing == [azure : BOOLEAN, base : {"none", "b1"}, key : {"none", "dummy_key", "k1"}]
Limits ==
  [effort : {"none", "minimal", "high", "wrong"}, custom : BOOLEAN, thinks : BOOLEAN,
   budget : {0, 2}, output : {1, 4}, seed : {-1, 7}, temperature : {0, 2},
   capOR : {0, 1, 3, 5}, effortOR : {"unset", "none", "low"}, tokensOR : {0, 1}]
MCSettings ==
  {[parses |-> TRUE, attribute |-> TRUE, only |-> l.custom, order |-> TRUE] @@ r @@ l :
     r \in {[azure |-> a, base |-> "b1", key |-> "k1"] : a \in BOOLEAN}, l \in Limits}
  \cup {[parses |-> p, attribute |-> u, only |-> FALSE, order |-> FALSE] @@ r @@ l :
     p \in BOOLEAN, u \in BOOLEAN, r \in Routing,
     l \in {x \in Limits : x.effort = "high" /\ ~x.custom /\ x.output = 4 /\ x.seed = -1 /\ x.capOR = 3 /\ x.effortOR = "unset"}}

-----------------------------------------------------------------------------
NoDashboard == StoreInit /\ active = Absent /\ ~down
NoKeys == Init /\ config = [q \in Requests |-> Config("none", "none", "none", "openai", FALSE, FALSE)]
NoArguments == asked = 0 /\ settings = 0 /\ sent = [st |-> "unsent"]
NoDrain == DrainInit /\ timeout = 0 /\ worker /\ queue = 0 /\ Pending = {}

MCInit ==
  /\ part \in {"dashboard", "keys", "arguments", "drain"}
  /\ IF part = "dashboard" THEN StoreInit ELSE NoDashboard
  /\ IF part = "keys" THEN Init ELSE NoKeys
  /\ IF part = "arguments" THEN ComposeInit ELSE NoArguments
  /\ IF part = "drain" THEN DrainInit ELSE NoDrain

MCNext ==
  /\ UNCHANGED part
  /\ \/ part = "dashboard" /\ StoreNext /\ UNCHANGED <<keys, arguments, drain>>
     \/ part = "keys" /\ Next /\ UNCHANGED <<dashboard, arguments, drain>>
     \/ part = "arguments" /\ Compose /\ UNCHANGED <<dashboard, keys, drain>>
     \/ part = "drain" /\ DrainNext /\ UNCHANGED <<dashboard, keys, arguments>>

MCSpec == MCInit /\ [][MCNext]_<<part, dashboard, keys, arguments, drain>>

MCSymmetry == Permutations(Requests) \cup Permutations(Calls)
=============================================================================
