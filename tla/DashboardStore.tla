--------------------------- MODULE DashboardStore ---------------------------
(***************************************************************************)
(* The tables of the dashboard as the engine sees them: providers and      *)
(* review settings, each read through a cache of the process that lives    *)
(* for Ttl ticks, a load that fails being cached as an empty table; and    *)
(* the requests that read them: webhooks of GitHub, whose event is handled *)
(* after the answer to the webhook, and calls of the Kenny API.            *)
(***************************************************************************)
EXTENDS Integers, Sequences, FiniteSets

CONSTANTS
  Repos,      \* repositories, all of one owner
  Arrivals,   \* the requests that may arrive
  Features,   \* what a row of review_settings may switch on
  RowChoices, \* the rows the dashboard may write, subsets of Features
  Providers,  \* identities of providers
  Model,      \* function: the model of each provider
  Order,      \* function: fallback_order of each provider, 0 if NULL
  Ttl,        \* _CACHE_TTL_SECONDS, in ticks
  MaxEdits    \* bound on what is edited in the dashboard

\* A row per repository, one for the owner, one for the instance (NULL).
Scopes == Repos \cup {"org", "instance"}
Absent == "none"
NoRow == {Absent}

\* ReviewSettings(), if no row says otherwise.
Defaults == {"enabled", "open", "describe", "comments", "publish"}

ASSUME StoreAssumption ==
  /\ Ttl \in Nat /\ IsFiniteSet(Providers) /\ Absent \notin Features \cup Providers
  /\ Defaults \subseteq Features /\ RowChoices \subseteq SUBSET Features

VARIABLES
  table,      \* review_settings: a row or NoRow for each scope
  active,     \* the active row of providers, or Absent
  stored,     \* the rows of providers
  down,       \* the database cannot be reached
  rows, rowsAge,     \* _cache of settings_store
  provs, provsAge,   \* _cache of provider_store
  inst,       \* the installation id that has been looked up, or Absent
  req,        \* req[q]: a request
  edits,
  recent      \* recent[a]: what held at some moment a ticks ago (not in the code)

database == <<table, active, stored, down>>
caches == <<rows, rowsAge, provs, provsAge, inst>>
storeVars == <<database, caches, req, edits, recent>>

Empty == [s \in Scopes |-> NoRow]

-----------------------------------------------------------------------------
(* Deliberate faults: each replaces the operator it is named after.        *)

FaultExpired(age) == FALSE

-----------------------------------------------------------------------------
(* The stores.                                                             *)

Expired(age) == age > Ttl

\* What a load returns: an empty table if there is none or it cannot be read.
LoadRows == IF down THEN Empty ELSE table
LoadProviders == IF down THEN [active |-> Absent, known |-> {}]
                 ELSE [active |-> active, known |-> stored]

\* The cached value a reader gets; a reader that finds it old loads it first.
Rows == IF Expired(rowsAge) THEN LoadRows ELSE rows
Provs == IF Expired(provsAge) THEN LoadProviders ELSE provs
ReadRows == /\ rows' = Rows
            /\ rowsAge' = IF Expired(rowsAge) THEN 0 ELSE rowsAge
ReadProviders == /\ provs' = Provs
                 /\ provsAge' = IF Expired(provsAge) THEN 0 ELSE provsAge

Or(row) == IF row = NoRow THEN Defaults ELSE row

\* get_settings_for_repo: the repository's row, its owner's, the instance's.
SettingsFor(t, repo) ==
  IF t[repo] # NoRow THEN t[repo] ELSE IF t["org"] # NoRow THEN t["org"] ELSE Or(t["instance"])

AutoCommands(cfg) ==
  IF ~ {"enabled", "open"} \subseteq cfg THEN <<>>
  ELSE (IF "describe" \in cfg THEN <<"describe">> ELSE <<>>) \o <<"review">>
       \o (IF "improve" \in cfg THEN <<"improve">> ELSE <<>>)

\* What the dashboard lets an event run without being asked.
Commands(kind, cfg) ==
  CASE kind = "opened" -> AutoCommands(cfg)
    [] kind = "push" -> IF "push" \in cfg THEN <<"push_commands">> ELSE <<>>
    [] OTHER -> <<>>

\* apply_provider_to_settings: the model of provider p, then those of the
\* providers that follow it; of two of the same fallback_order, the older
\* first, and which of them that is stays open.
Followers(ps, p) == {o \in ps \ {p} : Order[o] # 0 /\ Model[o] # Model[p]}
InOrder(ps) ==
  {f \in [1 .. Cardinality(ps) -> ps] : \A i, j \in DOMAIN f : i < j => f[i] # f[j] /\ Order[f[i]] =< Order[f[j]]}

Models(ps, p) ==
  IF p = Absent THEN {<<>>}
  ELSE {<<Model[p]>> \o [i \in DOMAIN f |-> Model[f[i]]] : f \in InOrder(Followers(ps, p))}

-----------------------------------------------------------------------------
(* What held lately.                                                       *)

\* The settings in force are those of the narrowest scope that has a row.
InForce(t, repo) ==
  LET given == {s \in {<<1, repo>>, <<2, "org">>, <<3, "instance">>} : t[s[2]] # NoRow}
  IN IF given = {} THEN Defaults ELSE t[(CHOOSE s \in given : \A o \in given : s[1] =< o[1])[2]]

Held(t, a, s, d) ==
  {<<"row", r, InForce(t, r)>> : r \in Repos} \cup {<<"active", a>>}
  \cup {<<"known", p>> : p \in s} \cup {<<"unknown", p>> : p \in Providers \ s}
  \cup IF d THEN {<<"row", r, Defaults>> : r \in Repos} \cup {<<"active", Absent>>}
                \cup {<<"unknown", p>> : p \in Providers}
       ELSE {}
Lately == UNION {recent[a] : a \in 0 .. Ttl}
Known(p, ps) == IF p \in ps THEN <<"known", p>> ELSE <<"unknown", p>>

-----------------------------------------------------------------------------
(* Requests.                                                               *)

\* A request keeps the settings of its own, and whether what it was told of
\* the dashboard held lately; a request that is over has no settings.
Request(q, st, kind, repo, models, commands, facts) ==
  [st |-> st, kind |-> kind, repo |-> repo, models |-> models, commands |-> commands,
   backed |-> req[q].backed /\ facts \subseteq Lately]
Runs(q, facts) ==
  req' = [req EXCEPT ![q] = Request(q, "running", @.kind, @.repo, @.models, @.commands, facts)]
Ends(q, st, facts) == req' = [req EXCEPT ![q] = Request(q, st, Absent, Absent, <<>>, <<>>, facts)]

\* handle_github_webhooks: one step, from the body to the background task.
Webhook(q, kind, repo) ==
  LET cfg == SettingsFor(Rows, repo)
      facts == {<<"row", repo, cfg>>, <<"active", Provs.active>>}
  IN /\ req[q].st = "new"
     /\ ReadRows /\ ReadProviders
     /\ IF "enabled" \in cfg
        THEN \E models \in Models(Provs.known, Provs.active) :
               req' = [req EXCEPT ![q] = Request(q, "queued", kind, repo, models, Commands(kind, cfg), facts)]
        ELSE Ends(q, "ignored", facts)
     /\ UNCHANGED <<database, inst, edits, recent>>

\* The background task of an opened pull request, or of a push.
Automatic(q) ==
  /\ req[q].st = "queued" /\ req[q].kind \in {"opened", "push"}
  /\ IF req[q].commands = <<>> THEN Ends(q, "ignored", {})
     ELSE Runs(q, {})
  /\ UNCHANGED <<database, caches, edits, recent>>

\* handle_comments_on_pr reads the settings again.
Comment(q) ==
  LET cfg == SettingsFor(Rows, req[q].repo)
      facts == {<<"row", req[q].repo, cfg>>}
  IN /\ req[q].st = "queued" /\ req[q].kind = "comment"
     /\ ReadRows
     /\ IF "comments" \in cfg THEN Runs(q, facts) ELSE Ends(q, "ignored", facts)
     /\ UNCHANGED <<database, provs, provsAge, inst, edits, recent>>

\* get_installation_id: what is found is kept, a failure is not.
Installed == inst' = inst \/ (inst = Absent /\ inst' = "id")

\* _setup: kenny_request_settings with a provider of the caller's choice or the
\* active one, behind the gate of the repository if there is one.
Endpoint(q, gated, repo, asked) ==
  LET cfg == SettingsFor(Rows, repo)
      open == gated => "publish" \in cfg
      p == IF asked = Absent THEN Provs.active ELSE asked
      facts == (IF gated THEN {<<"row", repo, cfg>>} ELSE {})
               \cup (IF ~open THEN {} ELSE IF asked = Absent THEN {<<"active", p>>}
                     ELSE {Known(p, Provs.known)})
  IN /\ req[q].st = "new"
     /\ IF gated THEN ReadRows ELSE UNCHANGED <<rows, rowsAge>>
     /\ IF open THEN Installed /\ ReadProviders ELSE UNCHANGED <<inst, provs, provsAge>>
     /\ IF open /\ asked \in Provs.known \cup {Absent}
        THEN \E models \in Models(Provs.known, p) :
               req' = [req EXCEPT ![q] = Request(q, "running", Absent, repo, models, <<>>, facts)]
        ELSE Ends(q, "refused", facts)
     /\ UNCHANGED <<database, edits, recent>>

\* A review that is to be published is gated; one that is not, improvements,
\* labels and questions are not.
Publishing(q, repo, asked) == Endpoint(q, TRUE, repo, asked)
Reading(q, repo, asked) == Endpoint(q, FALSE, repo, asked)

\* providers_test of a stored provider loads the providers whatever their age.
TestProvider(q, asked) ==
  /\ req[q].st = "new"
  /\ provs' = LoadProviders /\ provsAge' = 0
  /\ Ends(q, IF asked \in LoadProviders.known THEN "done" ELSE "refused",
          {Known(asked, LoadProviders.known)})
  /\ UNCHANGED <<database, rows, rowsAge, inst, edits, recent>>

Finish(q) ==
  /\ req[q].st = "running"
  /\ Ends(q, "done", {})
  /\ UNCHANGED <<database, caches, edits, recent>>

-----------------------------------------------------------------------------
(* The dashboard, the database and time (external).                        *)

Noted(t, a, s, d) == recent' = [recent EXCEPT ![0] = @ \cup Held(t, a, s, d)]

EditRow(scope, row) ==
  /\ edits < MaxEdits /\ table[scope] # row
  /\ table' = [table EXCEPT ![scope] = row] /\ edits' = edits + 1
  /\ Noted(table', active, stored, down)
  /\ UNCHANGED <<active, stored, down, caches, req>>

EditProviders(a, s) ==
  /\ edits < MaxEdits /\ <<a, s>> # <<active, stored>> /\ a \in s \cup {Absent}
  /\ active' = a /\ stored' = s /\ edits' = edits + 1
  /\ Noted(table, a, s, down)
  /\ UNCHANGED <<table, down, caches, req>>

Outage ==
  /\ edits < MaxEdits /\ down' = ~down /\ edits' = edits + 1
  /\ Noted(table, active, stored, down')
  /\ UNCHANGED <<table, active, stored, caches, req>>

Older(age) == IF age > Ttl THEN age ELSE age + 1

TimePasses ==
  /\ rowsAge' = Older(rowsAge) /\ provsAge' = Older(provsAge)
  /\ recent' = [a \in 0 .. Ttl |-> IF a = 0 THEN Held(table, active, stored, down) ELSE recent[a - 1]]
  /\ UNCHANGED <<database, rows, provs, inst, req, edits>>

-----------------------------------------------------------------------------
StoreInit ==
  /\ table = [s \in Scopes |-> IF s = "instance" THEN Defaults ELSE NoRow]
  /\ stored = Providers /\ active \in Providers \cup {Absent} /\ down \in BOOLEAN
  /\ rows = Empty /\ provs = [active |-> Absent, known |-> {}]
  /\ rowsAge = Ttl + 1 /\ provsAge = Ttl + 1 /\ inst = Absent
  /\ req = [q \in Arrivals |-> [st |-> "new", kind |-> Absent, repo |-> Absent, models |-> <<>>,
                                commands |-> <<>>, backed |-> TRUE]]
  /\ edits = 0
  /\ recent = [a \in 0 .. Ttl |-> Held(table, active, stored, down)]

StoreNext ==
  \/ \E q \in Arrivals, repo \in Repos :
       \/ \E kind \in {"opened", "push", "comment"} : Webhook(q, kind, repo)
       \/ \E p \in Providers \cup {Absent} : Publishing(q, repo, p) \/ Reading(q, repo, p)
  \/ \E q \in Arrivals :
       \/ Automatic(q) \/ Comment(q) \/ Finish(q)
       \/ \E p \in Providers : TestProvider(q, p)
  \/ \E s \in Scopes, row \in RowChoices \cup {NoRow} : EditRow(s, row)
  \/ \E s \in SUBSET Providers, a \in Providers \cup {Absent} : EditProviders(a, s)
  \/ Outage \/ TimePasses

StoreSpec == StoreInit /\ [][StoreNext]_storeVars

-----------------------------------------------------------------------------
(* Properties.                                                             *)

\* Whatever a request was told of the dashboard, a repository's settings, the
\* active provider, a provider asked for, held at some moment no longer ago
\* than the life of the caches; defaults and no provider stand in for a
\* database that could not be reached then, and for no longer.
Backed == \A q \in Arrivals : req[q].backed

\* The primary model is not repeated among the fallbacks
\* (provider_store.py:117: every failure would be attempted twice against the
\* same endpoint).
PrimaryOnce ==
  \A q \in Arrivals : \A i \in DOMAIN req[q].models : i > 1 => req[q].models[i] # req[q].models[1]

\* Requests run as the dashboard was configured lately.
AsConfigured == Backed /\ PrimaryOnce

-----------------------------------------------------------------------------
(* What makes them hold.                                                   *)

Settings == [Scopes -> (SUBSET Features) \cup {NoRow}]
States == {"new", "queued", "running", "ignored", "refused", "done"}

\* The values the variables take.
StoreTypeOK ==
  /\ table \in Settings /\ active \in Providers \cup {Absent} /\ stored \subseteq Providers /\ down \in BOOLEAN
  /\ rows \in Settings /\ rowsAge \in 0 .. Ttl + 1
  /\ provs \in [active : Providers \cup {Absent}, known : SUBSET Providers] /\ provsAge \in 0 .. Ttl + 1
  /\ inst \in {Absent, "id"} /\ edits \in Nat /\ DOMAIN recent = 0 .. Ttl
  /\ DOMAIN req = Arrivals
  /\ \A q \in Arrivals : /\ req[q].st \in States /\ req[q].repo \in Repos \cup {Absent}
                         /\ req[q].st \in {"queued", "running"} => req[q].repo \in Repos

\* What holds is noted as of this tick; and what is in a cache that has not
\* expired was noted when it was loaded, which is as old as the cache.
CachesBacked ==
  /\ Held(table, active, stored, down) \subseteq recent[0]
  /\ ~Expired(rowsAge) => \A r \in Repos : <<"row", r, SettingsFor(rows, r)>> \in recent[rowsAge]
  /\ ~Expired(provsAge) =>
       /\ <<"active", provs.active>> \in recent[provsAge]
       /\ \A p \in Providers : Known(p, provs.known) \in recent[provsAge]

StoreInv == StoreTypeOK /\ CachesBacked /\ AsConfigured
=============================================================================
