--------------------------- MODULE RequestSettings ---------------------------
(***************************************************************************)
(* The settings a request runs under, in every server: the settings of the *)
(* process, read at start from the defaults and the environment; the copy  *)
(* most servers install for a request; and the layers written over them,   *)
(* again before every command: the external file, the organisation's and   *)
(* the repository's .pr_agent.toml, the environment, and the arguments.    *)
(*                                                                         *)
(* A setting is abstracted to the layer its value comes from: what is "on" *)
(* is what some layer has set. Handlers are coroutines of one event loop,  *)
(* and only the model calls and the answers to a webhook suspend them.     *)
(***************************************************************************)
EXTENDS Integers, SequencesExt, FiniteSets

CONSTANTS
  Requests, Repos,
  Process,       \* the settings of the process: global_settings
  Servers,       \* the servers considered; one of them runs
  FileChoices,   \* what a .pr_agent.toml may set: sets of keys, {} is no file
  LayerChoices,  \* what the other layers set: [env, extra, org |-> sets of keys]
  AutoCommands,  \* pr_commands, push_commands: the keys the arguments of each set
  CommentArgs,   \* the keys the arguments of a comment set
  MaxEdits       \* bound on the changes of the repositories' files

Copying == {"github", "gitlab", "bitbucket", "gitea", "gerrit", "mosaico", "kenny"}
Sharing == {"bitbucket_server", "azure"}
FileKeys == {"tool", "disabled", "ignored", "push", "publish"}
Keys == FileKeys \cup {"auto"}

ASSUME SettingsAssumption ==
  /\ Process \notin Requests \cup Repos
  /\ Servers \subseteq Copying \cup Sharing
  /\ FileChoices \subseteq SUBSET FileKeys
  /\ LayerChoices \subseteq [env : SUBSET FileKeys, extra : SUBSET FileKeys, org : SUBSET FileKeys]
  /\ AutoCommands \in Seq(SUBSET FileKeys) \ {<<>>} /\ CommentArgs \subseteq SUBSET FileKeys
  /\ MaxEdits \in Nat

VARIABLES
  server, layers, \* what runs, and what its process and its organisation set
  files,     \* the .pr_agent.toml of each repository: [sets, valid]
  settings,  \* of the process and of each request: where each value comes from
  event,     \* what each request is: [repo, kind, args]
  pc,        \* "new", "received", "ready", "running", "done"
  fetched,   \* context["repo_settings"]: what was read of the organisation's
             \* file and of the repository's, [read, org, local]
  left, ran, \* the commands a request has still to run; how many it has started
  unbuilt,   \* how often its provider could not be built: the host did not answer
  seen,      \* the files its commands were started under
  loop,      \* the request that holds the event loop, or Process
  edits

vars == <<server, layers, files, settings, event, pc, fetched, left, ran, unbuilt, seen, loop, edits>>
still == <<server, layers, edits>>

Value(from, who) == [from |-> from, who |-> who]
Absent == [sets |-> {}, valid |-> TRUE]
Unread == [read |-> FALSE, org |-> {}, local |-> Absent]
Idle == [repo |-> Process, kind |-> "comment", args |-> {}]

Kinds == CASE server = "azure" -> {"opened", "comment"}
           [] server = "gerrit" -> {"comment"}
           [] server \in {"mosaico", "kenny"} -> {"api"}
           [] OTHER -> {"opened", "pushed", "comment"}
Automatic(q) == event[q].kind \in {"opened", "pushed"}

-----------------------------------------------------------------------------
(* Layers.                                                                 *)

Over(s, keys, v) == [k \in Keys |-> IF k \in keys THEN v ELSE s[k]]

\* _reapply_env_overrides
WithEnv(s) == Over(s, layers.env, Value("env", Process))

\* Deliberate fault: the environment is not applied again.
FaultWithFile(s, f, v) == IF f.valid THEN Over(s, f.sets, v) ELSE s

\* A file that is not there, or not valid, leaves everything as it is.
WithFile(s, f, v) ==
  IF f.valid /\ f.sets # {} THEN WithEnv(Over(s, f.sets, v)) ELSE s

\* Three providers look for an organisation's file.
OrgKeys == IF server \in {"github", "gitlab", "bitbucket"} THEN layers.org ELSE {}

LayerFile(keys) == [sets |-> keys, valid |-> TRUE]

\* The external file is applied before the provider is built.
WithExtra(s) == WithFile(s, LayerFile(layers.extra), Value("extra", Process))

\* apply_repo_settings, for a request that has read f.
WithFiles(s, q, f) ==
  WithFile(WithFile(WithExtra(s), LayerFile(f.org), Value("org", Process)),
           f.local, Value("repo", event[q].repo))

\* A provider that cannot read one of the files has none, and MOSAICO's never
\* has; what was read is kept.
Reads(q) ==
  IF fetched[q].read THEN {fetched[q]}
  ELSE [read : {TRUE}, org : {{}, OrgKeys},
        local : {Absent} \cup {f \in {files[event[q].repo]} : server # "mosaico"}]

WithArgs(s, q, keys) == Over(s, keys, Value("args", q))

\* Deliberate fault: no server installs a copy.
FaultScope(q) == Process

\* Where a request's settings are.
Scope(q) == IF server \in Copying THEN q ELSE Process
Current(q) == settings[Scope(q)]

On(s, key) == s[key].from # "default"
PushOn(s) == server = "github" \/ On(s, "push")

\* Servers that copy keep the provider with the settings, and a request that
\* has read its files has one; the others build one again for every command.
MayFail(q) == server # "kenny" /\ (fetched[q].read => server \in Sharing)

-----------------------------------------------------------------------------
(* Handlers.                                                               *)

\* Settings a request starts with: the Kenny API publishes nothing.
Installed(q) ==
  IF server = "kenny" THEN Over(settings[Process], {"publish"}, Value("server", q))
  ELSE settings[Process]

\* The request's copy is installed, and its work is queued behind the answer.
Receive(q) ==
  /\ pc[q] = "new" /\ loop = Process
  /\ \E r \in Repos, kind \in Kinds, args \in CommentArgs :
       LET a == IF server = "mosaico" THEN {"publish"}
                ELSE IF kind = "comment" THEN args ELSE {} IN
       /\ event' = [event EXCEPT ![q] = [repo |-> r, kind |-> kind, args |-> a]]
       /\ pc' = [pc EXCEPT ![q] = IF kind \in {"opened", "pushed"} THEN "received" ELSE "ready"]
       /\ left' = [left EXCEPT ![q] = IF kind \in {"opened", "pushed"} THEN <<>> ELSE <<a>>]
  /\ settings' = IF Scope(q) = q THEN [settings EXCEPT ![q] = Installed(q)] ELSE settings
  /\ UNCHANGED <<still, files, fetched, ran, unbuilt, seen, loop>>

\* disable_auto_feedback: only Bitbucket Server looks at it for a push too.
DisabledFor(q, s) ==
  On(s, "disabled") /\ (event[q].kind = "opened" \/ server = "bitbucket_server")

\* should_process_pr_logic
IgnoredFor(q, s) ==
  /\ On(s, "ignored") /\ server # "azure"
  /\ server = "bitbucket" => event[q].kind = "opened"

\* Deliberate fault: the guards look at the settings as they were before the files.
FaultRefused(q, s) == DisabledFor(q, Current(q)) \/ IgnoredFor(q, Current(q))

Refused(q, s) == DisabledFor(q, s) \/ IgnoredFor(q, s)
NoPush(q, s) == event[q].kind = "pushed" /\ ~PushOn(s)

Marked(s, q) == Over(s, {"auto"}, Value("server", q))

\* What is refused before any file is read: four servers apply the filters then
\* and again later; Gitea looks at handle_push_trigger, and Bitbucket at
\* push_commands, which configuration.toml does not have.
Early(q) ==
  \/ server \in {"github", "gitlab", "bitbucket", "gitea"} /\ IgnoredFor(q, Current(q))
  \/ server \in {"gitea", "bitbucket"} /\ NoPush(q, Current(q))

\* Bitbucket tells pushes from other updates by the time of the last commit.
MayBeNoPush(q) == server = "bitbucket" /\ event[q].kind = "pushed"

\* Bitbucket Server has marked the settings when it finds pushes disabled.
Skip(q) ==
  /\ pc[q] = "received" /\ loop = Process
  /\ \E f \in Reads(q) :
       LET s == WithFiles(Current(q), q, f) IN
       \/ /\ Early(q)
          /\ UNCHANGED <<settings, fetched>>
       \/ /\ ~Early(q)
          /\ Refused(q, s) \/ NoPush(q, s) \/ MayBeNoPush(q)
          /\ fetched' = [fetched EXCEPT ![q] = f]
          /\ settings' = [settings EXCEPT ![Scope(q)] =
               IF server = "bitbucket_server" /\ ~Refused(q, s) THEN Marked(s, q) ELSE s]
  /\ pc' = [pc EXCEPT ![q] = "done"]
  /\ UNCHANGED <<still, files, event, left, ran, unbuilt, seen, loop>>

\* Bitbucket Server runs the commands behind its answer, the others at once.
Accept(q) ==
  /\ pc[q] = "received" /\ loop = Process
  /\ ~Early(q)
  /\ \E f \in Reads(q) :
       LET s == WithFiles(Current(q), q, f) IN
       /\ ~Refused(q, s) /\ ~NoPush(q, s)
       /\ fetched' = [fetched EXCEPT ![q] = f]
       /\ settings' = [settings EXCEPT ![Scope(q)] = Marked(s, q)]
  /\ left' = [left EXCEPT ![q] = AutoCommands]
  /\ pc' = [pc EXCEPT ![q] = "ready"]
  /\ loop' = IF server = "bitbucket_server" THEN Process ELSE q
  /\ UNCHANGED <<still, files, event, ran, unbuilt, seen>>

\* The provider of an automatic event cannot be built, outside any try: the
\* handler raises, and none of the event's commands runs.
EventFails(q) ==
  /\ pc[q] = "received" /\ loop = Process
  /\ ~Early(q) /\ MayFail(q)
  /\ settings' = [settings EXCEPT ![Scope(q)] = WithExtra(Current(q))]
  /\ unbuilt' = [unbuilt EXCEPT ![q] = @ + 1]
  /\ pc' = [pc EXCEPT ![q] = "done"]
  /\ UNCHANGED <<still, files, event, fetched, left, ran, seen, loop>>

\* The arguments of automatic commands are set before the files are applied
\* once more, those of comments after, except on Bitbucket Server.
ArgsFirst(q) == Automatic(q) \/ server = "bitbucket_server"
Prepared(q, f) ==
  IF ArgsFirst(q)
  THEN WithFiles(WithArgs(Current(q), q, Head(left[q])), q, f)
  ELSE WithArgs(WithFiles(Current(q), q, f), q, Head(left[q]))

\* Three servers build the provider of a comment before they handle it.
BuildsFirst(q) == event[q].kind = "comment" /\ server \in {"github", "gitlab", "azure"}

\* Where the provider of a command cannot be built: before the command is
\* handled; by handle_request; or, on Bitbucket Server, just before its
\* arguments are set or just after.
Unprepared(q) ==
  \/ BuildsFirst(q) /\ UNCHANGED <<settings, fetched>>
  \/ /\ BuildsFirst(q) => server \in Sharing
     /\ settings' = [settings EXCEPT ![Scope(q)] = WithExtra(
          IF Automatic(q) /\ server # "bitbucket_server"
          THEN WithArgs(Current(q), q, Head(left[q])) ELSE Current(q))]
     /\ UNCHANGED fetched
  \/ /\ server = "bitbucket_server"
     /\ \E f \in Reads(q) :
          /\ fetched' = [fetched EXCEPT ![q] = f]
          /\ settings' = [settings EXCEPT ![Scope(q)] =
               WithExtra(WithArgs(WithFiles(Current(q), q, f), q, Head(left[q])))]

\* Such a command does not run, which is logged, and the next one is taken up.
CommandFails(q) ==
  /\ pc[q] = "ready" /\ loop \in {q, Process}
  /\ MayFail(q) /\ Unprepared(q)
  /\ unbuilt' = [unbuilt EXCEPT ![q] = @ + 1]
  /\ left' = [left EXCEPT ![q] = Tail(@)]
  /\ LET last == Len(left[q]) = 1 IN
     /\ pc' = [pc EXCEPT ![q] = IF last THEN "done" ELSE "ready"]
     /\ loop' = IF last THEN Process ELSE q
  /\ UNCHANGED <<still, files, event, ran, seen>>

\* handle_request, up to the tool's first call of a model.
StartCommand(q) ==
  /\ pc[q] = "ready" /\ loop \in {q, Process}
  /\ IF server = "kenny" THEN UNCHANGED <<settings, fetched, seen>>
     ELSE \E f \in Reads(q) :
            /\ fetched' = [fetched EXCEPT ![q] = f]
            /\ settings' = [settings EXCEPT ![Scope(q)] = Prepared(q, f)]
            /\ seen' = [seen EXCEPT ![q] = @ \cup {f}]
  /\ ran' = [ran EXCEPT ![q] = @ + 1]
  /\ pc' = [pc EXCEPT ![q] = "running"]
  /\ loop' = Process
  /\ UNCHANGED <<still, files, event, left, unbuilt>>

\* The tool returns, or raises what handle_request logs, and the loop goes on.
FinishCommand(q) ==
  /\ pc[q] = "running" /\ loop = Process
  /\ left' = [left EXCEPT ![q] = Tail(@)]
  /\ LET last == Len(left[q]) = 1 IN
     /\ pc' = [pc EXCEPT ![q] = IF last THEN "done" ELSE "ready"]
     /\ loop' = IF last THEN Process ELSE q
  /\ UNCHANGED <<still, files, settings, event, fetched, ran, unbuilt, seen>>

EditFile(r) ==
  /\ edits < MaxEdits /\ loop = Process
  /\ \E keys \in FileChoices, valid \in BOOLEAN :
       files' = [files EXCEPT ![r] = [sets |-> keys, valid |-> valid]]
  /\ edits' = edits + 1
  /\ UNCHANGED <<server, layers, settings, event, pc, fetched, left, ran, unbuilt, seen, loop>>

-----------------------------------------------------------------------------
(* Specification.                                                          *)

\* Settings at start: configuration.toml, under the environment.
Loaded == [k \in Keys |-> IF k \in layers.env THEN Value("env", Process)
                                              ELSE Value("default", Process)]

Init ==
  /\ server \in Servers /\ layers \in LayerChoices
  /\ files \in [Repos -> [sets : FileChoices, valid : {TRUE}]]
  /\ settings = [q \in Requests \cup {Process} |-> Loaded]
  /\ event = [q \in Requests |-> Idle]
  /\ pc = [q \in Requests |-> "new"]
  /\ fetched = [q \in Requests |-> Unread]
  /\ left = [q \in Requests |-> <<>>]
  /\ ran = [q \in Requests |-> 0] /\ unbuilt = [q \in Requests |-> 0]
  /\ seen = [q \in Requests |-> {}]
  /\ loop = Process /\ edits = 0

Next ==
  \/ \E q \in Requests : Receive(q) \/ Skip(q) \/ Accept(q) \/ EventFails(q)
                          \/ StartCommand(q) \/ CommandFails(q) \/ FinishCommand(q)
  \/ \E r \in Repos : EditFile(r)

Spec == Init /\ [][Next]_vars

-----------------------------------------------------------------------------
(* Properties.                                                             *)

Running(q) == pc[q] = "running"

\* Types of the variables: a value comes from a layer, and of a request or a
\* repository if the layer has one each.
Values == [from : {"default", "env", "extra", "org"}, who : {Process}]
          \cup [from : {"repo"}, who : Repos]
          \cup [from : {"args", "server"}, who : Requests]
Files == [sets : SUBSET FileKeys, valid : BOOLEAN]
Fetched == [read : BOOLEAN, org : SUBSET FileKeys, local : Files]
TypeOK ==
  /\ server \in Servers /\ layers \in LayerChoices
  /\ files \in [Repos -> Files]
  /\ settings \in [Requests \cup {Process} -> [Keys -> Values]]
  /\ event \in [Requests -> [repo : Repos \cup {Process}, kind : {"opened", "pushed", "comment", "api"},
                           args : SUBSET FileKeys]]
  /\ pc \in [Requests -> {"new", "received", "ready", "running", "done"}]
  /\ fetched \in [Requests -> Fetched]
  /\ left \in [Requests -> Seq(SUBSET FileKeys)]
  /\ ran \in [Requests -> 0..(Len(AutoCommands) + 1)]
  /\ unbuilt \in [Requests -> 0..Len(AutoCommands)]
  /\ seen \in [Requests -> SUBSET Fetched]
  /\ loop \in Requests \cup {Process} /\ edits \in 0..MaxEdits

\* While a tool runs, none of its settings comes from another repository or
\* another request, and nothing a request sets stays in the process.
OwnSettings ==
  /\ \A q \in Requests, k \in Keys :
       Running(q) => Current(q)[k].who \in {Process, q, event[q].repo}
  /\ settings[Process] = Loaded

\* A command is marked as automatic exactly if an automation triggered it.
AutoMarked == \A q \in Requests : Running(q) => (On(Current(q), "auto") <=> Automatic(q))

\* What the layers a request has read ask for, whatever the order they were
\* applied in.
Asked(q) == layers.env \cup layers.extra \cup fetched[q].org
            \cup (IF fetched[q].local.valid THEN fetched[q].local.sets ELSE {})

\* A pull request that a layer opts out of automatic feedback, or has filtered
\* out, gets none when it is opened.
OptedOut == \A q \in Requests :
  event[q].kind = "opened" /\ fetched[q].read /\ ran[q] > 0 =>
    "disabled" \notin Asked(q) /\ ("ignored" \in Asked(q) => server = "azure")

\* A request ends with all its automatic commands or with none, and with none
\* only if a layer it has read, and no other repository's, has asked for that,
\* or no such layer has asked for pushes to be handled (Gitea and Bitbucket do
\* not ask the files), or the host did not answer when the event's provider was
\* built.
Served == \A q \in Requests :
  pc[q] = "done" /\ Automatic(q) /\ ran[q] # Len(AutoCommands) =>
    /\ ran[q] = 0
    /\ \/ "disabled" \in Asked(q) \/ "ignored" \in Asked(q)
       \/ /\ event[q].kind = "pushed" /\ server # "github"
          /\ "push" \notin Asked(q) \/ server \in {"gitea", "bitbucket"}
       \/ unbuilt[q] # 0

\* Automatic commands run exactly when the layers ask for them and the host lets
\* the event begin, although their guards are looked at in several places,
\* before and after the files are read, and building the provider may fail in
\* every one; and no other command runs as one of them.
AsAsked == OptedOut /\ Served /\ AutoMarked

\* The layer that counts: docs/docs/usage-guide/configuration_options.md:186.
Layer(q, k) ==
  IF k \in event[q].args THEN "args"
  ELSE IF k \in layers.env THEN "env"
  ELSE IF fetched[q].local.valid /\ k \in fetched[q].local.sets THEN "repo"
  ELSE IF k \in fetched[q].org THEN "org"
  ELSE IF k \in layers.extra THEN "extra"
  ELSE "default"

\* The settings of a running tool come from the highest layer that has them,
\* and the arguments of a comment are above all layers. (The arguments of
\* automatic commands are not: files set the same keys again.) A request of the
\* Kenny API or of MOSAICO publishes nothing, whatever the layers say.
Precedence == \A q \in Requests : Running(q) =>
  IF event[q].kind = "api" THEN Current(q)["publish"].who = q
  ELSE \A k \in FileKeys :
         (Automatic(q) => \A i \in DOMAIN AutoCommands : k \notin AutoCommands[i])
           => Current(q)[k].from = Layer(q, k)

\* All commands of a request run under one version of the organisation's and
\* the repository's file, although these are applied for every command, may
\* change between them and may have failed to be read.
OneFile == \A q \in Requests : Cardinality(seen[q]) <= 1

\* Every command of a request runs under the same layers, in the same order.
Layered == Precedence /\ OneFile
=============================================================================
