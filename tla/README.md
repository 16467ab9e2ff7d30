# Specifications of kenny-engine

TLA+ specifications of kenny-engine (a fork of PR-Agent): webhook and polling
servers that run tools (`/review`, `/improve`, `/describe`, ...) on pull
requests, tools that call language models and publish what they answer, and a
dashboard's API. The specifications cover the parts where the order of events
decides whether the program is right. Each module is translated from the code
under `src/pr_agent`; `PROJECT.json` maps every definition to the lines it stands
for, lists the runs of the model checker, the faults each property catches, the
hazards of the code, and the theorems.

## 1. The system

One process serves webhooks on one asyncio event loop (gunicorn may run several
such processes, which share nothing). A handler is a coroutine; it is suspended
only where it awaits a model, a condition variable or an HTTP body. Calls to the
git providers are synchronous: they block the loop, and nothing else of the
process runs meanwhile. The polling server is a loop that starts operating-system
processes. What survives a restart is what is on the git provider (comments,
files, notifications) and in the dashboard's database.

| Component | State it keeps | Operations | What is hard | Correct if |
|---|---|---|---|---|
| Push trigger of the GitHub app (`servers/github_app.py`, `servers/utils.py`) | a counter and a condition variable per pull request, in dictionaries whose entries expire | a delivery of a push arrives, waits, resumes, reviews, ends | counter read before the wait, expiry under active deliveries, a refresh that raises | one review at a time; every pushed commit is covered by a later review |
| Request settings (`config_loader.py`, `git_providers/utils.py`, all servers, `agent/pr_agent.py`) | settings of the process, a copy per request, a cached file per request | receive, guard automatic commands, apply layers, run commands | servers that install no copy; layers written again before every command; guards before and after the file is read; providers that cannot be built | a tool runs under its own request's settings, in the documented order |
| Model calls (`algo/pr_processing.py`, `litellm_ai_handler.py`, tools) | the pairs of model and deployment, the deployment in the settings | try a model, retry a call, gather chunks, reflect, fall back | stragglers of a failed try; a shared setting rewritten by each try | fails only when every model has; each model gets its deployment |
| Diff packing (`algo/pr_processing.py`) | token total, open chunk, files left, call number | extend, pack a file, close a chunk, list what is left | budgets checked before titles are counted; state carried between rounds | within the limit; no file lost or shown twice |
| Inline suggestions (`github_provider.py`, `inline_comment_dedup.py`) | fingerprints found on the pull request and posted | publish a batch, verify one by one, fix, retry | a request fails after part was posted, or takes effect without an answer; two fingerprints per comment; restarts | nothing twice unless it was overlooked, nothing acceptable lost |
| Persistent comments (`git_provider.py`, `pr_code_suggestions.py`, `pr_reviewer.py`, `kenny/publish.py`) | comments of a pull request, recognised by their first line | announce, publish, fold history, trim, remove | overlapping runs rewrite each other's comments; edits that fail silently | one comment per tool, a bounded history, no suggestion forgotten |
| Polling server (`servers/github_polling.py`) | `last_modified`, handled ids, a queue of tasks | list, mark as read, judge, scan the thread, start processes | comments posted between any two steps; notifications listed again; its own answers | a comment is served if it asks, and again only for a later comment it is found behind |
| Kenny stores and API (`kenny/*.py`, `servers/kenny_api.py`) | providers and review settings, cached for 30 seconds | refresh, override a request's settings, gate publishing | a failed load cached as empty; a gate read long before it is used | what a request is told has held within the life of the caches |
| LLM credentials (`litellm_ai_handler.py`) | process-wide keys of litellm, AWS credentials in the environment, a lock per handler | build a handler, sign, call, fall back, release | globals shared by concurrent requests | a call uses a key of its own request and the credentials chosen for it |
| Arguments of a call (`litellm_ai_handler.py`, `algo/__init__.py`) | none | route, choose key and base, effort, temperature, limits | settings that exclude each other, for a dozen families of models | the service that was meant, nothing its model rejects |
| Callbacks at exit (`litellm_helpers.py`, `cli.py`) | tasks, a queue, two deadlines | wait for tasks, flush the queue | tasks put callbacks on the queue while the time runs | what is lost is lost for want of time |
| Files of a pull request (eight providers) | a cached list, the loop over the files | ask, read, compute a patch, keep | failures in the middle, limits on what is read, loop variables | the whole list or an error; each file with its own contents |
| Patches (`algo/git_patch_processing.py`, `algo/utils.py`) | hunks read and written | extend, drop, number, find again | headers recomputed apart from the lines they count | a number is that of its line |
| Suggestions on other hosts (seven providers) | what is left of a list, a working copy | publish, collect, note instead, hand over singly | one failure in a list; a falsy answer that has everything offered again | suggestions stand alone |
| `/describe` (`tools/pr_description.py`) | answers of chunks, a table of files | predict in chunks, extend, render, place | files of failed chunks, and of none | every file described or named |
| Traces of the tools (all of `tools/`) | comments, labels, a changelog, the artifact of a run | announce, answer, take back, label, push, raise | a run may stop between any two of them | only answers stay; failures are told |
| Similar issues (`tools/pr_similar_issue.py`) | an index in Qdrant, LanceDB or Pinecone | connect, scan, store, query | an update that is interrupted, and is continued from its newest issue | no gaps; its own issues |
| Incremental reviews (`github_provider.py`, `azuredevops_provider.py`, `pr_reviewer.py`) | commits, the times of reviews | find the range, gate, publish | dates of authors against times of comments, pushes meanwhile | no commit skipped |
| Files of the host (`algo/repo_context.py`, `git_provider.py`) | a cache per provider over one per process, one of organisations' files | fetch, render, keep, expire | two keys for one thing; fetches that fail, or whose error is taken for an empty file | what the host answered lately, on the branch asked for |
| MOSAICO agent (`mosaico/*.py`) | a conversation, a task's events | find command and target, run, report | exceptions on every path to the events | one artifact, then one true status |
| Providers' other calls, secrets, entry points, log | little or none | adapters and text transformations | formats | mostly beyond a state machine |

Interactions: a server gives a request its settings and calls
`PRAgent.handle_request` for each command; this applies the layers again and runs
a tool; the tool packs the diff, calls models through
`retry_with_fallback_models`, and publishes through a git provider. All of them
read `get_settings()`. The push trigger decides whether a push's commands run at
all. The polling server runs the same tools in other processes, which meet the
servers' tools only in the comments of a pull request.

## 2. Modules

| Module | Models | Composition |
|---|---|---|
| `PushTriggerAbs` | what the push trigger promises for each pull request | abstract specification of `PushTrigger` |
| `PushTrigger` | `handle_push_trigger_for_new_commits` with both expiring dictionaries | refines `PushTriggerAbs` (`KeepsPromise`) |
| `PushTriggerProofs` | theorems | extends `PushTrigger`, TLAPS |
| `ModelFallbackAbs` | what the fallback loop promises to a request's commands | abstract specification of `ModelCalls` |
| `ModelCalls` | fallback, retries, gathered chunks, reflection, deployments | refines `ModelFallbackAbs` (`KeepsPromise`) |
| `ModelCallsProofs` | theorems | extends `ModelCalls`, TLAPS |
| `DiffChunks` | the four packers of a diff | |
| `Subsequences` | the elements of a list that a loop keeps, in their order | used by `Mosaico`, `SimilarIssues`, `Patches` |
| `SubsequenceProofs` | lemmas on it | extends `Subsequences`, TLAPS |
| `DiffProofs` | theorems | extends `DiffChunks`, `DiffFiles`, `Describe` and `Patches`, `SubsequenceProofs`, TLAPS |
| `InlinePublish` | inline suggestions with cross-run deduplication | |
| `PublishProofs` | theorems | extends `InlinePublish`, `Mosaico`, `ToolRuns`, `ProviderSuggestions` and `PullRequestComments`, `SubsequenceProofs`, TLAPS |
| `PullRequestComments` | the comments tools keep on a pull request | |
| `Polling` | the polling server | |
| `PollingProofs` | theorems | extends `Polling`, TLAPS |
| `RequestSettings` | the settings of requests in all nine servers | |
| `DashboardStore` | the dashboard's tables, caches and what a request takes from them | |
| `ProviderKeys` | litellm's process-wide keys and AWS credentials | |
| `CallParams` | the arguments of one call | |
| `CallbackDrain` | the drain of callbacks at exit | |
| `HandlerProofs` | theorems | extends `DashboardStore`, `ProviderKeys`, `CallParams` and `CallbackDrain`, TLAPS |
| `HostFiles` | instruction files and organisations' settings with their caches | |
| `SimilarIssues` | the three indexes of issues | |
| `IncrementalReview` | `/review -i` on GitHub and Azure DevOps | |
| `ServicesProofs` | theorems | extends `RequestSettings`, `IncrementalReview`, `HostFiles` and `SimilarIssues`, `SubsequenceProofs`, TLAPS |
| `DiffFiles` | how eight providers list the files of a pull request | |
| `Patches` | extending, dropping, numbering hunks; finding a line | |
| `Describe` | the walkthrough of `/describe` | |
| `ProviderSuggestions` | code suggestions on the hosts other than GitHub | |
| `ToolRuns` | what every tool writes and takes back | |
| `Mosaico` | from a conversation to the events of a task | |
| `MCPullRequest` | instance: `DiffChunks`, `DiffFiles`, `Patches`, `Describe`, `InlinePublish`, `ProviderSuggestions`, `PullRequestComments`, `ToolRuns`, `Mosaico` | extends all nine; one part per behaviour |
| `MCModelService` | instance: `DashboardStore`, `ProviderKeys`, `CallParams`, `CallbackDrain` | extends the four; one part per behaviour |
| `MCServices` | instance: `RequestSettings`, `HostFiles`, `SimilarIssues`, `IncrementalReview` | extends the four; one part per behaviour |
| `MCPushTrigger` | instance: `PushTrigger` twice, with prompt runs and with runs of any length | one of the two per behaviour |
| other `MC...` | instances of one module | |

Four instances put several parts into one state machine. A behaviour
chooses its part at the start, and the variables of the other parts stay what they
are: the parts share no state in the code either, but for the pull request they
write to, and are put together so that one run explores all of them.

Every module names its deliberate faults (`Fault...`): each is a plausible slip in
the operator it is named after, and replacing the operator by it breaks the
property that `PROJECT.json` names. They take no part in the specification.

### How state and actions correspond to the code

**PushTrigger.** All deliveries are tasks of one loop, so an action is the code
between two awaits that really suspend: `Condition.wait()` and the review. `Push`
is the code from the reading of the counter (`github_app.py:208`) to the first
await: `Skip`, `Enter` and `Wait` are its three outcomes, and a refresh that
raises `KeyError` is another. `Resume` is the return from `wait`, `End` the code
after the review, including the decrement and the `notify`, and every access of a
`DefaultDictWithTimeout` refreshes it first. `Tick` is the passing of time; ages
saturate above `Ttl`. The variable `uncovered` is not in the code: it records that
commits were pushed which no review has started after.

**RequestSettings.** A setting is abstracted to the layer its value comes from:
defaults, environment, extra file, organisation's file, repository's file,
arguments, or the server. A key stands for the settings that decide something:
`tool` (any setting of a tool), `disabled` (`disable_auto_feedback`), `ignored`
(all filters of `should_process_pr_logic`), `push` (`handle_push_trigger` and
`push_commands`), `publish` and `auto` (`is_auto_command`). `Receive` installs the
request's copy, if the server has one; `Skip` and `Accept` are the code from the
guards of automatic commands to the first command; `StartCommand` is
`handle_request` up to the tool's first await, `FinishCommand` what follows it.
Building the provider may raise wherever the code builds one: for an automatic event
outside any `try`, so that its handler ends with no command run (`EventFails`), for a
command inside one (`CommandFails`); `Unprepared` says how far the settings have been
written by then. `unbuilt` counts this for the properties and is not in the code. A file
of the organisation or of the repository that cannot be read is none (`Reads`).
`loop` is the request that goes on without suspending between two commands.
`EditFile` changes a repository's file between any two of them. `Scope` is where
the servers differ most: seven copy `global_settings` for a request, Bitbucket
Server and Azure DevOps write to the process's own.

**ModelCalls.** A call is a task with a state, a phase (prediction, reflection), a
number of attempts and the deployment it was made with. A try starts one call for
each chunk, together or one after another; an error of one ends the try while
others may be in flight. A reflection uses the deployment the settings then hold.

**DiffChunks.** A file is four token counts; a step handles one file. `packer`
selects the code: `get_pr_diff`, `get_pr_multi_diffs`, and the two ways
`/describe` packs a large pull request in rounds.

**InlinePublish.** A comment is a suggestion as it is or "fixed" (cut before its
code block). Its fingerprints are of its prose and of its code. Every request to
GitHub may be accepted, rejected or fail, or be carried out while its answer is lost, a
listing may end part-way, and the process may stop between two requests. `overlooked` is
not in the code: it counts, for each fingerprint, how often it was posted without being
recorded or present without being listed. A fingerprint is on the pull request once, and
once more for each of these: what one run overlooks, the next ones do not repeat.

**PullRequestComments.** A comment has a kind, an owner and tables: its latest
answer and its history. The conversation is a set; a comment's `at`, the step that
created it, is its place in what the host lists, so "the first found" is the `Oldest`.
What a run does at its end is one step, because it awaits
nothing there. Runs overlap; listing, editing and removing may fail.
`HistoryAssumption` leaves out a history of length 0, for which the code looks for no
earlier comment at all (`pr_code_suggestions.py:281`).

**Polling.** A step is the handling of one notification or a request to GitHub in
it; users and started processes comment between any two steps. `handled` holds
ids of comments as the code does: of the latest comment of each notification, and
not of a command found behind it. A task records both, the command and its `news`.

**DashboardStore.** A row is the set of features it switches on; a row may be there
for a repository and for all. `rows` and `provs` are the caches with their ages;
`LoadRows` and `LoadProviders` fail during an `Outage`, and what they then keep is
what the code keeps. `Webhook`, `Endpoint` and `TestProvider` are the three ways a
request is told. `req[q].backed` is not in the code: it records that what a request
took had held within the life of a cache. Rows of `providers` are read in the order of
`fallback_order` and of their creation; the second is not modelled, so `Models`
is the set of the lists there may be (`InOrder`).

**ProviderKeys.** `Build` is the constructor of the handler, in the order of its
branches, with what it writes into litellm and drops from it; `Prepare`, `Send`,
`FallBack`, `SendAgain` and `Released` are a call under the handler's lock. Two
requests build handlers and call in any order.

**CallParams.** One action composes a call; a model is a sequence of prefixes and a
family. The operators follow the order of the code, each with its condition.

**CallbackDrain.** The code between two awaits of `drain_litellm_callbacks`. Tasks
end and put callbacks on the queue at any time, timers fire when they are due.

**DiffFiles.** `Ask` is the listing, which fails by raising or, on Gitea and Azure
DevOps, by an empty list; `OneFile` is one turn of the loop of each provider,
`Complete` its end. An entry names the file whose contents it holds, which makes a
variable left over from the turn before visible.

**Patches.** A file is a sequence of lines; the hunks are made as git makes them: a count of
one is omitted from the header (`omits`), and git's remark that a file does not end with a
newline stands below its last line on either side (`ends`). A
step extends or drops one hunk. A side of a diff is what is picked from its lines by their
signs, and so are the lines left when those that look like git's remark are passed over
(`Subsequences`). Numbering and finding are operators the properties apply to what the
steps have written.

**Describe.** The calls of a try, each answering for the files of its chunk, some of
them or none, with entries that may lack a summary, be incomplete, or be cut off before a
filename's value; `Extend` counts such a file as covered, and `FileLabels` skips its entry. Then the extension, the table and the place of the body.

**ProviderSuggestions.** One call of `publish_code_suggestions` per host, and the
caller that offers every suggestion again after a falsy answer. A call to a host is
done, refused, or done without an answer.

**ToolRuns.** A tool is the list of what it does at its end (`Closing`), which may
raise after any part of it, and what it announced at its beginning. Reading labels,
setting them and deleting the announcement may fail without a word, at any end of a run:
`swallowed` records which did and is not in the code. What the end of a run reads and
writes is one step, since it awaits nothing there; `/generate_labels` and
`/update_changelog` write at their end what their constructor has read.

**SimilarIssues.** The store answers a query by any of its records of the repository, in
any order, up to `TopK`: how near an issue's text is to another's is not modelled. What a
run lists are the issues of these records, each where it comes first (`Listed`).

**HostFiles.** A behaviour has one host. A lookup is answered, or ends in an error that is
raised, or in one its provider takes for an empty file (`FileErrors`, `SettingsErrors`);
`hidden` records when the last happened and is not in the code. Only what was fetched
without an exception is kept.

**SimilarIssues, IncrementalReview, HostFiles.** The host's side (issues opened,
commits pushed, files edited) moves between any two steps of the code. `skips` and
`covered` in `IncrementalReview` are not in the code: they record which commits a
review leaves out that no review has been shown.

**Mosaico.** `Identify` to `Regret` are the awaits and the exception paths of
`PRAgentExecutor.execute` with the dispatch and the tracing span around the run.

## 3. What is checked

Runs that pass:

| Run | Instance | Shows |
|---|---|---|
| `push_prompt` | 2 pull requests; 4 deliveries with reviews shorter than the time to live, or 3 with reviews of any length | of the first: one review per pull request; under fairness every pushed commit is covered, every waiting delivery reviews, and the trigger implements `PushTriggerAbs`. Of the second: `NoneImmortal`, the expiry of `NoImmortalEntry` whatever raises |
| `models_request` | `/describe` in two chunks with a final call, then `/improve` with reflection; six configurations | a command fails only when every model has, each asked under its own deployment, whatever calls an abandoned try has left in flight; the loop implements `ModelFallbackAbs`, so every command ends |
| `polling` | 3 pull requests, 3 comments, one failing request | a latest comment sets off one process at most, for itself or for a command found behind it (which each later comment may set off again); answers set off none; a request not overtaken is served |
| `pull_request` | nine parts, from listing files to a task's outcome | `WithinLimit`, `NothingDropped`, `CallsFilled` of the packers; `WholeOrFailed`, `OwnFile` of the lists; `NumbersAreTrue`, `LinesAreFound` of patches; `WalkthroughIsTrue` of `/describe`; `NothingRepeated`, `NothingLost` of inline suggestions, `StandAlone` of those on other hosts; `Tidy`, `NothingForgotten` of comments; `OnlyAnswersStay`, `LabelsStay`, `FailuresAreTold` of the tools; `OneOutcome`, `FailuresAreReported`, `LatestWins` of MOSAICO |
| `model_service` | four parts, two requests | `AsConfigured` of the dashboard, `OwnKey` and `SignedAsChosen` of the keys, `CallAsMeant` of the arguments, `Drained` of the callbacks |
| `services` | four parts, two requests | `OwnSettings`, `AsAsked`, `Layered` of the settings, whichever provider cannot be built; `HeldLately` of the host's files, with errors raised or hidden; `IndexIsSound` of the issues; `NoneSkipped` of incremental reviews |

Runs that find a violation, each of something the repository says:

| Run | Property | What the code does |
|---|---|---|
| `push_expiry_keyerror` | `IdleIsCovered` | after an expiry a decrement leaves a key with a time and no value; the refresh that meets it raises in another pull request's handler, whose push runs nothing |
| `models_leaked_deployment` | `OwnDeployment` | a fallback's deployment stays in the settings and becomes the next command's primary |
| `inline_fixed_repeated` | `PostedOnce` | a fixed comment with short prose carries other fingerprints than its suggestion and is posted again |
| `settings_shared` | `AutoMarked` | in Bitbucket Server an opened pull request marks the process's settings, and comments' commands then run as automatic ones |
| `host_branch` | `FromTheBranchAsked` | the branch is not part of the caches' keys: instructions of the target branch are served to a request that asked for the default branch |
| `patches_deletions` | `DeletionsOmitted` | a hunk that only deletes is kept if a later one adds |

Properties state their exceptions where the code makes them. What excuses a
property is named in it: a host, a failed call, a run without suggestions. Section 6
lists what these exceptions mean.

### Bounds, and why they are enough

* `PushTrigger`: a hazard needs a running delivery, a waiting one, and one that
  arrives; the fourth arrives after a handover. Two pull requests are needed
  because accesses for one refresh the entries of the other. `Ttl` and
  `RefreshInterval` are ticks: what matters is which comes first, and both orders
  occur with 1 and 2. The late half of
  `push_prompt` and `push_expiry_keyerror` run without `Prompt`.
* `ModelCalls`: two chunks are the smallest number where one fails and another is
  in flight; two commands the smallest where one leaves something to the next; two
  fallbacks the smallest where a middle model exists.
* `DiffChunks`: kinds of files on each side of every threshold; four files whose patches show
  something fill two chunks with one left, three of any kinds do the rest; `MaxCalls` 2 is met exactly and exceeded.
* `InlinePublish`: four runs are a first, one after a failure, one that repeats it and
  one that finds the copies; two suggestions share code, two share prose, one needs
  fixing, one is never accepted, and one goes with others in a batch that is accepted.
* `PullRequestComments`: a history of 1 with 3 runs (`MaxCommands`) overflows and is trimmed.
* `Polling`: `MaxParallel` 0 (the code's test admits two) and three requests reach
  the limit of a batch; a page of 2 comments with 3 posted reaches the limit of a
  page. `MaxComments` and `MaxFaults` bound the exploration.
* `RequestSettings`: two requests show interference, two repositories show foreign
  files, two automatic commands show what the first leaves to the second.
  `MaxEdits` bounds the edits. Every repository has a file, which any request may find
  absent. In this model Gitea takes the same branches as Bitbucket, and
  Gerrit has comments only, so that the run leaves both out and the theorems do not.
* `DashboardStore`: an age of `Ttl` 1 is fresh or expired; one edit shows what a
  cache hides, and an outage may be under way at the start and end. Of three providers two
  serve the same model, and one is not among the fallbacks of the others.
* `ProviderKeys`: two requests with two calls each: those of one share a lock, those of
  two do not. The configurations are the kinds of section a key may come from.
* `CallParams`: a model of every branch, every value of the settings a condition looks at.
* `CallbackDrain`: three tasks need three rounds; timeouts of 0 to 6 lie on both sides of
  twice the reserve.
* `DiffFiles`: four files with limits at four and at two; two failures and two calls
  reach a cache filled by a call that failed.
* `Patches`: all diffs of up to four lines and those of seven with two changes
  apart, which make two hunks with one line of context; contents repeat or do not. None
  or three lines before a hunk, none or two after it, which is the most that
  `NumbersAreTrue` allows with this context, and none or four looked through for the function.
  Where a file ends, it does so with a newline or without, on each side.
* `Describe`: three files in two chunks, a table of one before the ellipsis, a threshold of one.
* `ProviderSuggestions`: three suggestions, the middle one failing leaves some on both
  sides; two failures (`MaxAccidents`) reach a refused discussion with a refused note.
* `ToolRuns`: two runs of any tools overlap; an error is asked for by
  MOSAICO only, with publishing off. `Mosaico`: three turns with a verb in each of the older
  two, the first of them the user's, five redirects.
* `HostFiles`: GitHub, which raises errors and keeps an organisation's file, and Gitea, which
  also hides them and keeps none, have between them the cases of the five hosts; one error
  (`MaxFaults`); two pull requests with one place in a cache evict each other; `MaxHostEdits` and
  `MaxReads` bound the exploration. `SimilarIssues`: three issues, one with a comment, one too long, two
  repositories, two records to an answer; a scan of four (`MaxScan`) never ends early. `IncrementalReview`: two commits, two reviews and a clock of three ticks.
  Two reviews may overlap, and a commit be pushed before, between and after them.

### Fairness

* `PushTrigger`: weak fairness of `Resume` (asyncio resumes a notified task) and of
  `End` (model and provider calls have timeouts, so a review ends).
* `ModelCalls`: weak fairness of the next step (a request in flight is answered or
  times out, and the loop goes on).
* `Polling`: weak fairness of the loop's own step (`while True` with every exception
  caught); nothing is assumed of users, GitHub or started processes.
* The others have safety properties only and assume nothing.

Deadlock is not checked where the system may stop: all events may have been
handled, and a bounded instance runs out of them.

## 4. What is proved

Theorems hold for every value of the constants.

`PushTriggerProofs`, from `ConstantTypes`:

* `TypeCorrect`: types, whatever expires or raises.
* `NoImmortal`: every entry of the counter dictionary has a time, so a counter that
  a `KeyError` has left wrong does not stay wrong for ever.
* `Invariance`: `IndInv`, assuming `Prompt` (no entry in use is left untouched for
  the time to live). The properties alone are not inductive: that the counter
  equals the number of active tasks survives a refresh only because the entries in
  use are fresh (`EntriesInUseFresh`), a refresh raises nothing only because no key
  is stale (`NoStaleKey`), and a handover is safe only because one task holds the
  pull request with at most one waiter behind it (`OneHolder`). `IndInv` is
  inductive with exactly these. The proof splits it by pull request: a step
  changes the tasks of one (`TouchKeepsInv`) and leaves the others' entries
  (`UntouchedKept`).
* `PromptSafety`: from it, one review per pull request, an exact counter, a delegate
  for every uncovered commit.
* `Implements`: initial states and steps of the trigger are those of
  `PushTriggerAbs` or stutter, under the refinement of `Abs`.

Without `Prompt` these properties fail (`push_expiry_keyerror`): the assumption is
what the code relies on without saying so.

`DiffProofs`: of the packers, from `Sizes`, for every number of files, every size and every
limit:

* `ChunkTypes`: types.
* `Packing`: `PackInv`, which says where each file is while the loops run: before the
  position and shown, or left, or too large, or still pending; that the open chunk
  is within budget and disjoint from the finished ones; and that no more calls have
  been counted than are allowed.
* `ChunksSound`: budgets are kept, no file is in two calls, no more calls than
  allowed.
* `FilesAccounted`: no file with a patch disappears. Part of it needs that a title is
  no longer than what lies between the two thresholds (`Moderate`), which
  the property states as its condition.
* `CallsAreFilled`: `CallsFilled`. While the loops run, the open chunk of `/improve`
  begins with a patch that the chunk before it had no room for (`MultiFirst`), and a
  round of `/describe` that leaves a file which fits alone has packed others
  (`RoundsFull`); what the property says of the end follows.

and of the lists of files, from `ListAssumption`, for any changed files, limits and
retries, whichever reads of the host fail:

* `ListTypeCorrect`: types.
* `ListsWhole`: `WholeOrFailed`. In the loop, a file that counts is still to come or in the
  list (`LoopInv`), and what is cached covers all of them (`Covers`): the second is what a
  later call relies on, and the first what the cache is filled by. It speaks of the hosts
  where a failure is not taken for a list (`Failing`); CodeCommit, Azure DevOps, Bitbucket
  and Gitea are not among them.
* `FilesOwn`: `OwnFile`. Every entry of the list under way, of the cached and of the
  returned one is proper (`EntriesInv`). That the entry a host's loop makes is so is
  proved host by host (`ListedTells`); of a file whose contents are spared, because
  enough have been loaded, the host has given the patch.

and of the walkthrough of `/describe`, from `DescribeBounds`, for any packing of the files into
chunks, any models, answers and failures:

* `TheWalkthroughIsTrue`: `WalkthroughIsTrue`. What the table will be is decided by the labels
  of the files, before it is rendered, so its invariant, `DescribeInv`, says of them already what the
  property says of the table (`TrueOf`). The files of incomplete entries are excused, and so is
  an answer that is cut off in a filename, because the code loses them (section 6). The extension adds the first of the files that no
  answer has covered, up to `MaxExtra`, and the ellipsis if some are left (`FirstsOf`); that
  the table is full then is a fact about the size of such a first part (`FirstOf`).

and of patches, from `PatchAssumption`, for any diffs, any context but none, any lines before
and after, whichever of the files were loaded:

* `TheNumbersAreTrue`: `NumbersAreTrue`. Its invariant, `PatchInv`, says of the hunks left and
  of those kept that they are parts of the diff with the places these have (`IsHunk`), and of
  the shown ones that, the files being loaded, they follow the new file: their lines on the new
  side are its lines from the header's start on (`Follows`). An extension keeps
  that, because the lines put above stand in both files at the same distance from the hunk,
  whichever way the function was looked for (`SameAbove`, `EnclosingIs`, `ExtendedIs`), and
  because the `Context + 1` lines below a hunk are unchanged (`HunkBounds`, `BelowIs`): it ends
  where the context of its last change does, and no change follows at the next line. A header
  that omits the count of the old file has the extension begin with a line the hunk has already,
  so the last lines of such a hunk are not claimed (`Unsure`).
* `TheLinesAreFound`: `LinesAreFound`, a fact about every diff, of the lines the scan reaches
  before a header that omits a count or git's remark (`Reached`), and of all questions about ranges. The hunks are apart
  (`HunksApart`), so that of all positions with a line's number the first is that of
  the line (`PositionIs`) and neither a header nor a removed line before it; and what is selected
  from a hunk by the count of lines is the part of the file of these numbers (`SelectedIs`).

`ServicesProofs`: of the settings of requests, from `SettingsAssumption`, for any number of requests and
repositories, any files, layers, arguments and automatic commands:

* `TypeCorrect`: types in all servers, with `Counted`: the commands a request has
  left and those it has run add up, so a request is done only when none or all of
  them have run.
* `Isolation`, for the servers that install a copy (`Servers \subseteq Copying`):
  `OwnSettings`. It is inductive once it is said of every request that has begun, and
  not only of those whose tool runs (`Own`), since the layers are written over what a
  request is left with between two commands.
* `LayersRespected` and `AutomationAsAsked`, for the same servers: `Layered` and
  `AsAsked`. Their invariant, `LayerInv`, says of a request by how far it has come what
  its settings are: the loaded ones before any file is read (`Begun`); under the files,
  with the mark, and with none of the layers against it, once it is admitted
  (`Admitted`); that the host did not answer, if no provider was built; under its own arguments while a comment's command runs (`RunsPlainly`);
  and why no command has run if it ends without any (`Excused`): the layers, or the provider. The lemma about the
  layers is `FilesFollow`: files leave every key to the highest layer that has it
  wherever the environment already is above the rest (`Appliable`), and what they leave
  may have them applied again (`AppliedAppliable`). That is what makes applying
  the same files before every command harmless.

The two servers that write to the process's settings are outside the assumption:
`settings_shared` shows that `AutoMarked`, a part of `AsAsked`, fails in one of them.

`PollingProofs`, from `Lengths`, for any pull requests, comments posted by users and by
the server, scan lengths and limits:

* `TypeCorrect`: types; what is listed, handled, queued and started exists. A scan
  ends at the greatest position of a command (`MaxIsMember`: that a bounded set has
  one follows from the well-foundedness of the order, since nothing in the library
  says it).
* `OnceForNews`: `OncePerNews`, however many requests to GitHub fail. It is inductive
  once the notification of every task is known to be handled (`OnceInv`) and no comment in
  hand to be older than a handled one of its pull request (`HandInv`): a notification listed
  again then adds nothing, and what is added comes after what is there. `WorkSteps` says that a step adds the
  one task a notification asks for or none, and that starting or giving up a batch only
  cuts the end of what was set off. The theorem counts by the latest comment, as the code
  does: one command may be set off again for each later comment that is none.
* `ServedForAll`: `ServedPerComment`. The tasks of a pull request are fewer than
  its users' comments by one for each notification still pending, unread or in hand
  (`Covered`), which needs that a batch holds unread notifications only and one of a
  pull request (`BatchUnread`). Both fail with the first request that fails, as the
  condition of the property says.

`ModelCallsProofs`, from `CommandTypes` and `ConfigTypes`, for any commands, chunks,
models, attempts and kinds of configuration:

* `TypeCorrect`: types.
* `ModelsAsked`: `AllModelsAsked`. Its invariant, `FallbackInv`, says of every command
  where in its list of models it is (`TurnsInv`), what a running try has started
  and what of it is still to come (`RunningInv`), which deployment is in the settings
  while a try runs (`DeploymentInv`), and that tries follow the list (`OrderInv`). That
  a model is asked under its own deployment is a property of the first command
  only: what it leaves to the second is `models_leaked_deployment`.
* `Implements`: initial states and steps of the loop are those of `ModelFallbackAbs` or
  stutter. This is the safety part of `KeepsPromise`; that every command ends is
  left to the run.

`HandlerProofs`, from `ConfigTypes`, for any requests, calls and kinds of configuration:

* `TypeCorrect`: types; keys and bases are those of the settings of some request.
* `Signing`: `SignedAsChosen`. What the environment holds, and what the handler will
  put back, has to be known between all the steps of a call and not only when
  it is sent (`SigningInv`): the call that holds a handler's lock is the only one of its
  request that has written, so what it meets at its second attempt is what it left.
* `KeysOwn`: `OwnKey`. The key of a call is read from the process where the handler
  holds none, so the invariant (`OwnInv`) says what the process holds since the last
  handler was built.
* `CallsAreMeant`: `CallAsMeant`, from `CallAssumption`, for any model names, with any number of
  prefixes, any settings, and any models with extended thinking. Routing changes the first
  prefix only (`RoutedTo`); what a call is limited to follows from the settings that would
  have raised an error (`CallInv`). The proof showed that two guards of `Temperature`
  overlapped, which TLC resolves by their order and TLA+ does not; the order is now explicit.
* `DrainTypeCorrect`, `DrainsWhatItCan`: from `DrainAssumption`, types and `Drained`. `DrainInv`
  says that up to the flush the reserve is untouched, that tasks which are left when it
  begins are left for a reason, and that no task is born without one that is left.

and of what a request was told before, from `StoreAssumption`, for any repositories, rows,
providers, edits and outages, whatever the life of the caches:

* `StoreTypeCorrect`: types; a request that is queued or runs is of a repository.
* `ConfiguredLately`: `AsConfigured`. What is in a cache was noted when it was loaded, and
  what was noted ages with the cache (`CachesBacked`), so a reader, who takes no cache older
  than `Ttl`, takes what held within `Ttl`; a load that fails gives the defaults, which
  `Held` admits while the database cannot be reached and no longer. The settings found scope
  by scope are those of the narrowest scope with a row (`SettingsInForce`), and a
  follower of a provider has another model (`ModelsGood`).

`PublishProofs`: of inline suggestions, from `PublishAssumption`, for any suggestions, prose, code and
lists, any number of runs, whatever GitHub rejects, loses or fails to list:

* `TypeCorrect`: types.
* `RepeatedNever`: `NothingRepeated`, if `Short = {} \/ ~TryFix`: no suggestion's prose is so
  short that the fingerprint of its body reaches its code, or nothing is fixed.
  Without this condition the property is false in the program:
  `inline_fixed_repeated` is the counterexample. The batch of a run is free of
  repetitions and of what the store knows (`BatchInv`), so is a single retry (`SingleInv`),
  and for each fingerprint the copies are counted by what was overlooked (`CountInv`,
  `Spare`). That the filter keeps no two suggestions with a common fingerprint
  (`Kept`, a recursive function over the list) is proved on a smallest position
  where it would.
* `LostNever`: `NothingLost`, without that condition. What a list offers is
  on the pull request already, is in the batch or one of its remainders, or was dropped
  for something that is (`OfferInv`).

and of MOSAICO's tasks, from `TaskAssumption`, for any conversations and redirects, whatever
the tool, the span and the queue refuse:

* `TaskTypeCorrect`: types; a diff is asked for at most once more than it may be redirected.
* `OutcomeOnce`, `FailuresReported`: `OneOutcome` and `FailuresAreReported`. Nothing is
  reported before the span around the run has ended, nor at a step that comes before
  the report (`Reported`), and what failed by then is known: by the result that was
  returned, or by the task being in its exception handler (`Known`).
* `TheLatestWins`: `LatestWins`. The code turns the user's turns round and takes the first that
  names a command; the property speaks of the greatest position in the conversation that does.
  That the two are the same turn, for every conversation, rests on the lemmas about picked
  positions (`NewestIsLast`, `TargetIsLast`, `VerbIsLast`), and that a set of positions has a
  least and a greatest on the well-foundedness of the order.

of the runs of the tools, from `ToolAssumption`, for any number of runs of any tools, any requests and labels:

* `ToolTypeCorrect`: types.
* `AnswersStay`, `FailuresTold`: `OnlyAnswersStay` and `FailuresAreTold`. Only a run that
  announces itself is ever announced (`Announced`), and every such tool asks for the removal of
  its announcement before it has answered (`ClosingRemoves`), so what stays is what the host
  has refused to delete (`swallowed`). That a run which may not publish
  is in no changelog needs to be known of what every other run has read of it too, since
  a push writes back what was read (`PublishersRead`). The ways a run may end are
  brought to one form first (`AnswerEnds`, `NothingEnds`, `RaiseEnds`), and the invariant is preserved by that.
* `LabelsStayForAll`: `LabelsStay`, an action property. A step that takes labels away is the
  end of a run that may set them, and what it takes away is its own, or was not known to it:
  because the read failed, or because `/generate_labels` had read before.

and of suggestions on the other hosts, from `SuggestAssumption`, for any list, any sorts of suggestions and
any number of calls that go wrong:

* `SuggestTypeCorrect`: types; a call for one suggestion has no other.
* `EachAlone`: `StandAlone`. Until a call goes wrong, what waits to be published is without
  repetitions and has not been published, wherever it waits (`Orderly`, `InOrder`), so
  nothing is published twice. On the hosts that go on, a suggestion that had no trouble is
  published or waits, in this call or to be handed over alone (`GoingOn`). Between two
  suggestions Gerrit's working copy is empty unless the call has ended in an exception
  (`HostsOwn`), so a patch holds its own suggestion only.

and of the conversation of a pull request, from `HistoryAssumption`, for any number of commands and
any length of history:

* `TalkTypeCorrect`, `StaysTidy`: types and `Tidy`. `TalkInv` adds to it that two comments differ by
  their time, that a run announces itself once and as its tool does (`OneAnnouncement`),
  and that every table is dated while each run had something to suggest (`Dated`): what
  trims a history finds its entries by their dates. What is good of one set of comments
  (`Sound`) survives an edit, an addition and a removal (`SoundEdit`, `SoundAdd`,
  `SoundLess`), whichever a run strings together at its end; all twelve ways to end come to
  one form (`EndsRun`), and that form preserves the invariant (`EndedTidy`).
* `ForgetsNothing`: `NothingForgotten`. A comment with tables stays as it is (`TablesStay`) but for the
  one that is folded into its successor, and folding keeps every table until the history
  is full, and then all but the last if all are dated (`FoldedIs`, `FoldingRemembers`).

`ServicesProofs`, further: of incremental reviews, from `ReviewAssumption`, for any number of runs, commits and
reviews, any dates, merges and thresholds, on either host:

* `ReviewTypeCorrect`: types.
* `NoneIsSkipped`: `NoneSkipped`. Neither a push nor a review lies ahead of the clock, and
  pushes are in order (`ClockInv`). A commit that was pushed before some
  review was published is settled: shown to a review, or misleading by its date or
  the instant of its push, which it then is for ever (`ReviewedInv`, `ExceptionsStay`).
  What a run under way has read and does not show is settled too (`RunInv`), since the
  range it reads starts after the commit the last review is dated by (`Behind`), and
  `Covers` what it shows when it publishes. The property alone is not inductive: it says
  nothing of commits that no run has in hand.

and of the files of the host, from `HostAssumption`, for any of five hosts, any requests, configurations,
sizes and lives of the caches, any edits and errors of the host:

* `HostTypeCorrect`: types. What the caches hold of instruction files is a rendering.
* `LatelyHeld`: `HeldLately`. An error that a provider takes for an empty file counts as an
  answer of the host at that time (`hidden`), and stays one (`HiddenStays`); what a lookup may be
  told is a version there was (`RepliesAre`). The property speaks of what was served last; what makes it
  inductive speaks of what can be served next. An entry of either cache of instruction files
  renders what one branch held when the entry was made, and so does an entry of the
  settings (`CachesInv`): it stays true as versions are added, as `HeldStays`, `RenderedStays`
  say, and an entry that answers is too young for the difference to exceed its life
  (`HeldLonger`, `RenderedLonger`). Since no time passes while files are read, what was
  read so far is what was there at this instant (`ReadingInv`), whatever is edited
  between two of them. That getting, putting and evicting only move entries or drop
  them is proved of the sequences themselves (`OthersFrom`, `GotFrom`, `PutFrom`). Keys
  enter where an answer is found under them (`HitIs`): they hold the files and the lines,
  which is enough for this property and not for `FromTheBranchAsked` (`host_branch`).

and of the index of issues, from `IndexBounds`, for any repositories, comments and issues
too long, any stores, and runs that overlap and may end at any call:

* `TheIndexIsSound`: `IndexIsSound`. That the index has no gaps is not inductive: what a run
  under way will store was chosen when it had read the index, and other runs store
  meanwhile. `IndexInv` adds that what is listed for storage continues what is stored
  (`Continues`): it holds every issue that precedes its greatest and is not indexed. What is
  stored stays stored in an index of one's own, since an upsert of issues replaces
  records of the same issue only. The list that is published is a pick from the
  store's answer: its positions are in their order, so that two of one issue would
  be two first ones (`SubsequenceProofs`).

Only model-checked:

* liveness (`PushIsCovered`, `WaiterReviews`, `RequestServed`, and what `KeepsPromise` of
  `ModelCalls` says of termination): the prover has no support for fairness here;
* `NoneImmortal`, which a run checks of a second copy of `PushTrigger`: it is
  `NoImmortalEntry` of that copy, and `NoImmortal` proves this for all constants.

`SubsequenceProofs` is what several of these rest on: a filter is modelled not by a
recursive function but by the set of positions it keeps (`Picked`), put in order by how many members precede each
(`Rank`). That the ranks of a finite set are `0 .. Cardinality(S) - 1`, each taken once, follows
from the pigeonhole principle of the library's cardinality theorems, without induction
(`RankType` to `PickedAll`). What is picked twice, a part of a pick, and a pick from two lists in
a row are picks again (`PickedTwice`, `PickedSlice`, `PickedJoin`): that is how the sides of a diff,
of its hunks and of what precedes them fit together.

## 5. What is not modelled

* Several worker processes: each has its own push trigger, caches and settings.
* PushTrigger: eligibility of the sender, and gates that return before the counter
  is read, which change nothing.
* ModelCalls: a prompt that cannot be built is a failed call; the text of answers.
* InlinePublish: clamping of lines to hunks, a pending review that the verification
  could not remove, and runs without `persistent_inline_comments`.
* PullRequestComments: publication as a check run, ticks in history titles,
  non-persistent comments.
* DiffChunks: separators between patches, the clipping of name lists, and files
  whose edit type is unknown.
* Polling: a restart of the server, and a process that cannot be started.
* RequestSettings: unknown and forbidden arguments, an extra file that cannot be
  fetched, the response language, authentication and eligibility, drafts and bots
  (they only drop events).
* HostFiles: Bitbucket Cloud, whose lookup takes the page of an error for the file; on
  Bitbucket Server, which of the host's errors are raised.
* ProviderKeys, CallParams: streaming, the custom logger, the langchain and OpenAI
  handlers, which pass a prompt on.
* DiffFiles: parsing of diffs, encodings, and the plain diff, which reads no host.
  ProviderSuggestions: how a position is found in a diff, wording and links.
* ToolRuns: `/help_docs`, which the command table has disabled, and the tickets of a
  pull request. Describe: wording, the diagram and the title.
* Patches: the left side of a question about lines, a line looked for by its text, and
  repairs of malformed YAML.
* Mosaico: the card, the routes of the server, the bridge to the environment.
* The skills loader, which reads files of the image at start and keeps nothing that
  changes; secret and identity providers, which are thin adapters; logging.

## 6. Divergences without a run

Met in the code while modelling; the modules follow the code.

* `kenny/publish.py:116` replaces the previous verdict, looking for a comment that
  starts with a header; `summary_comment` (line 33) puts a marker before it, so none
  is ever found and each publication adds one (`FoundKenny` in
  `PullRequestComments`).
* `pr_code_suggestions.py:322`, "enforce max_previous_comments": a history entry made
  after a run without suggestions lacks "up to commit", the trimming does not find
  it, and the history outgrows its length (`HistoryBounded` is stated without such
  runs).
* `docs/docs/usage-guide/automations_and_usage.md:89`: `disable_auto_feedback` stops
  automatic feedback; GitHub, GitLab, Bitbucket and Gitea look at it for
  `pr_commands` only (`DisabledFor`).
* Arguments of automatic commands are set before the repository's file is applied
  again, which overrides them when it sets the same key (`Prepared`).
* Gitea looks at `handle_push_trigger` before any file is read, and Bitbucket at
  `push_commands`, which `configuration.toml` does not have (`Early`).

* `apply_repo_settings` builds the provider outside any `try` (`git_providers/utils.py:271`) and
  is called so by the handlers of automatic events (`github_app.py:172`, `189`, `430`,
  `gitlab_webhook.py:62`, `278`, `gitea_app.py:131`, `bitbucket_app.py:140`,
  `bitbucket_server_webhook.py:159`, `azuredevops_server_webhook.py:95`): if the host does not
  answer there, none of the event's commands runs, and only a log says so. `Served` names
  this case (`unbuilt`).
* With `CONFIG_BRANCH` set, GitHub raises again what is not a 404
  (`github_provider.py:927-930`), so that nothing is kept, the organisation's file
  neither, and the next command asks once more; the model keeps what it has read.
* The polling server puts the latest comment of a notification into `handled_ids` and not the
  command found behind it (`github_polling.py:140-151`). A command is therefore set off again
  behind each later comment that is none, and twice if such a comment is posted between
  the listing and the scan of its thread (`ForItself` says what is left of "once").

Keys and calls:

* A request with `OPENAI.KEY` does not reset `litellm.api_key`, so a key that another
  provider's section has left there is injected into its calls
  (`litellm_ai_handler.py:57-61`; the second set of `OwnKey`). A call without a base of
  its own uses the process-wide one, which another request may have set.
* A cap of OpenRouter below the budget for thinking leaves `max_tokens` below the budget.
  "azure/o3" is given a temperature, because the list of models without one is compared
  exactly, while efforts are matched by suffix. A seed beside a temperature raises
  `ValueError`, which is retried like an error of the service.
* Two fallback providers that serve the same model are both listed, and called alike.
* `cli.py` drains callbacks only after a request that did not raise; the polling server
  and the action do so in a `finally`.

Files and patches:

* CodeCommit fills its cache file by file, so a list that failed in the middle is served
  as the whole to the next caller (`codecommit_provider.py:113-157`). Azure DevOps answers
  `[]` to any exception, Bitbucket when the diff cannot be split. Gitea's listing swallows its
  errors and returns `[]` (`gitea_provider.py:955-960`), which the constructor keeps as the list
  of files for the provider's life (84-90): a pull request without files, and no error
  (`WholeOrFailed` leaves these four out).
* Bitbucket Server gives a renamed file the contents of the file before it (`OwnContents`).
* `filter_ignored` (`file_filter.py:15-31`) and `is_valid_file` (`language_handler.py:19-21`)
  extend the lists of the settings in place.
* Numbers are wrong when more lines are put after a hunk than one beyond the host's context
  and the next hunk is near (`patch_extra_lines_after` may be greater than the three lines
  of git), when the new file was not loaded, and for a line of a file that says "no newline at
  end of file" (`git_patch_processing.py:352`; the conditions of `NumbersAreTrue`). The range of a
  hunk includes the line after it (`git_patch_processing.py:443`).
* Git omits a count of one ("@@ -1 +1,2 @@"), and `extract_hunk_headers` reads an omitted count as
  0 (`git_patch_processing.py:217-228`): the extension below a hunk then begins with the hunk's
  own line (182), which is shown twice and numbered as a line of the new file (`Unsure`).
* `find_line_number_of_relevant_line_in_file` applies `int` to an omitted count and raises
  `TypeError` (`algo/utils.py:1165`): nothing is found in or behind such a hunk, as of any new
  file of one line ("@@ -0,0 +1 @@"). It counts git's remark "\ No newline at end of
  file" as a line of the new file (1166-1167), so what stands below a remark is found one
  line too early (`Reached`).
* `_prepare_file_labels` skips a file whose entry lacks a field
  (`pr_description.py:634-643`), and `extend_uncovered_files` has counted it as predicted
  (337-350): the table names neither the file nor that there are more (`LeftOut`). One filename
  without a value makes the extension raise, and none is added (`CutOff`).

Suggestions, comments and tools:

* Gitea's `publish_code_suggestions` returns nothing, so all suggestions are published a
  second time (`gitea_provider.py:360-377`, against `codecommit_provider.py:213-215`).
* CodeCommit and Gitea lose the suggestions after the first that fails; GitLab raises for
  a file without contents and only logs it; a lost answer makes GitLab post a note beside
  the discussion; an upload to Gerrit that fails ends the list, leaves its change in the working copy,
  and what was uploaded before it is listed in no comment (`RestPublished` names the hosts
  that publish the rest).
* `remove_initial_comment` and `remove_comment` (`github_provider.py:850-862`) swallow a deletion
  that fails: "Preparing ..." stays beside the answer. A read of the labels that fails is taken
  for no labels (1187-1189), and the run then writes its own over the user's. `/generate_labels`
  writes what it knew when it was built, over what was set since (`LabelsStay` names both). Between
  the reading and the writing of labels at the end of a run another process may write
  them; the model has the two in one step, as one event loop has.
* `/update_changelog` removes its announcement before a push that may raise, and of two
  overlapping pushes the second overwrites the first's entry. A review kept back, and tools
  with nothing to say, leave their announcement. `/help` posts that it cannot help although
  publishing is off (`pr_help_message.py:193`).
* Of a pull request smaller than the threshold a walkthrough may be incomplete
  (`pr_description.py:646` against `:226`); an answer without any file is not extended.
* A tracing span that fails when it closes fails a task that has answered
  (`mosaico/observability.py:59`: "degrade to untraced"; the exception in
  `FailuresAreReported`).

Issues, reviews and files of the host:

* `pr_similar_issue.py` imports pandas and pinecone in the constructor only, so later
  updates of LanceDB and Pinecone raise `NameError`; the condition of an ingest into
  LanceDB is inverted (579-582); a scan stops one short of `max_issues_to_scan`; comments are
  numbered from 1 and read from 0 (383, 448); zero vectors of failed embeddings are never
  repaired; two repositories overwrite each other's issues in one index
  (`docs/docs/tools/similar_issues.md:18`). `IndexIsSound` covers an index of one's own.
* An error of the host is taken for an empty file, and kept as one for an entry's life, on
  Azure DevOps (`azuredevops_provider.py:376-379`), Gitea (`gitea_provider.py:1027-1032`),
  GitLab (`gitlab_provider.py:863-865`, `880-881`) and, for errors of HTTP, Bitbucket Server
  (`bitbucket_server_provider.py:214-223`); and a 403 for an organisation's file on GitHub and
  Bitbucket. Requests that met no error are then served without instructions, against
  `repo_context.py:277-278` and `github_provider.py:1001-1003`, which keep only what was read.
  Bitbucket takes the page of an error for the file (`bitbucket_provider.py:597-611`).
  `HeldLately` counts an error so hidden as the host's answer.
* A commit pushed while a review runs is older than its comment and is never reviewed
  incrementally; on GitHub a commit dated back hides newer ones below it, and the
  `[ignore]` filter is not applied; Azure DevOps drops commits whose changes cannot be
  fetched if others can. Thresholds compare local time with UTC dates
  (`pr_reviewer.py:366`). These are the exceptions of `NoneSkipped`: the commit pushed during
  a review, which is the likeliest of them, is excused and not excluded.
* What properties do not reach, though their hazards would: `OwnKey` assumes that no other
  request builds a handler between a request's own and its call; `IndexIsSound` assumes that a scan
  takes all issues, and that what one call stores is stored at once.

## 7. Plan

All modules of the plan are written. What would add most next:

1. Abstract specifications of `CallbackDrain` and `IncrementalReview`.
2. Routing of each server's events to handlers, with drafts, bots and edits.

## 8. Running

In this directory:

    tlc -config push_prompt.cfg MCPushTrigger.tla
    tlapm PushTriggerProofs.tla

Each run of `PROJECT.json` names its module and configuration. The longest,
`pull_request`, `model_service` and `services`, take one to four minutes with two
workers; `PublishProofs`, `ServicesProofs`, `ModelCallsProofs`,
`PushTriggerProofs` and `DiffProofs` a few minutes each, the other modules of proofs one
or two.
