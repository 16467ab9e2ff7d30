------------------------------ MODULE HostFiles ------------------------------
(***************************************************************************)
(* Files of the host that guide a request, and the caches of the process   *)
(* they are served from: instruction files (repository context), kept per  *)
(* pull request and once more in the provider object of the request, and   *)
(* the settings file of the organisation. Nothing else of the process runs *)
(* while a request reads them, but the host changes. What an error of the  *)
(* host becomes is up to its provider: an exception, or an empty file.     *)
(***************************************************************************)
EXTENDS Integers, Sequences, FiniteSets, SequencesExt

CONSTANTS
  Providers,  \* of KnownProviders
  PRs, Readers,
  Org,        \* function: the organisation of a pull request
  Configs,    \* [files, lines, fromDefault]: repo_context_files, _max_lines, _from_default_branch
  Length,     \* function: the lines of an instruction file
  Ttl,        \* seconds an entry lives, in ticks
  MaxSize,    \* entries of a cache
  MaxTicks, MaxHostEdits, MaxReads, MaxFaults  \* bounds

Unset == "none"
Orgs == {Org[p] : p \in PRs}
Instructions == DOMAIN Length

\* The hosts whose providers look files up. (Bitbucket's takes the page of an
\* error for the file and is left out.)
KnownProviders == {"github", "gitlab", "gitea", "azure", "bitbucket_server"}

ASSUME HostAssumption ==
  /\ Providers \subseteq KnownProviders
  /\ Unset \notin PRs \cup Orgs
  /\ Configs \subseteq [files : Seq(Instructions), lines : Nat, fromDefault : BOOLEAN]
  /\ Ttl \in Nat \ {0} /\ MaxSize \in Nat
  /\ MaxTicks \in Nat /\ MaxHostEdits \in Nat /\ MaxReads \in Nat /\ MaxFaults \in Nat

\* What the host keeps: instruction files on two branches, a file per organisation.
Places == ({"default", "target"} \X Instructions) \cup (Orgs \X {"settings"})

VARIABLES
  clock,
  provider,     \* the host, throughout
  since,    \* since[x]: when each version of the file began
  hidden,   \* hidden[x]: when an error was taken for the absence of the file
  proc,     \* _repo_context_process_cache, least recently used first
  own,      \* own[q]: the cache in the provider of request q
  orgs,     \* _GLOBAL_SETTINGS_CACHE
  request,  \* request[q]: the pull request of q, or Unset before it begins
  reading,  \* the build under way, or NoBuild
  served,   \* what the last build was given, or NoBuild
  hostEdits, reads, faults

hostVars ==
  <<clock, provider, since, hidden, proc, own, orgs, request, reading, served, hostEdits, reads, faults>>
caches == <<proc, own, orgs>>

-----------------------------------------------------------------------------
(* Deliberate faults: each replaces the operator it is named after.        *)

FaultKey(c) == c.files

-----------------------------------------------------------------------------
(* The host. Every other version of a file is its absence.                 *)

Version(x) == Len(since[x])
There(v) == v % 2 = 1

\* The versions there have been since a time, and none where an error hid them.
HeldSince(x, t) ==
  {v \in 1 .. Version(x) : v = Version(x) \/ since[x][v + 1] >= t}
  \cup {v \in {0} : \E s \in hidden[x] : s >= t}

\* What an error of the host can become: of an instruction file, and of an
\* organisation's settings, where 403 counts as their absence (GitHub) or
\* every error that GitLab answers with does. Only GitHub and GitLab.com have
\* such settings.
FileErrors ==
  CASE provider = "github" -> {"raised"}
    [] provider = "azure" -> {"hidden"}
    [] OTHER -> {"raised", "hidden"}
SettingsErrors == {"raised", "hidden"}
KeepsSettings == provider \in {"github", "gitlab"}

Replies(errors) == {"read"} \cup IF faults < MaxFaults THEN errors ELSE {}
Content(answer, x) == IF answer = "read" THEN Version(x) ELSE 0

\* A lookup at x has had this answer.
Answered(answer, x) ==
  /\ hidden' = IF answer = "hidden" THEN [hidden EXCEPT ![x] = @ \cup {clock}] ELSE hidden
  /\ faults' = faults + IF answer = "read" THEN 0 ELSE 1

-----------------------------------------------------------------------------
(* The caches.                                                             *)

Entry(k, v, until) == [key |-> k, value |-> v, until |-> until]
Fresh(e) == e.until > clock
At(cache, k) == {i \in DOMAIN cache : cache[i].key = k}
Found(cache, k) == {i \in At(cache, k) : Fresh(cache[i])}
Others(cache, k) == IF At(cache, k) = {} THEN cache ELSE RemoveAt(cache, CHOOSE i \in At(cache, k) : TRUE)
Newest(cache) == IF Len(cache) > MaxSize THEN Tail(cache) ELSE cache

\* get: a hit becomes the most recently used, an old entry goes.
Got(cache, k) ==
  IF Found(cache, k) = {} THEN Others(cache, k)
  ELSE Append(Others(cache, k), cache[CHOOSE i \in Found(cache, k) : TRUE])
Put(cache, k, v) == Newest(Append(Others(cache, k), Entry(k, v, clock + Ttl)))

\* The key of a provider's cache; that of the process's has the pull request
\* too. The branch the files are read from is not part of either.
Key(c) == <<c.files, c.lines>>
ProcessKey(p, c) == <<p, Key(c)>>

-----------------------------------------------------------------------------
(* Rendering.                                                              *)

Wrapper == 3       \* the introduction and two tags
FileWrapper == 5   \* of each file: tag, fence; fence, tag, empty line

\* render_instruction_files_with_line_budget: files, in whole, up to the one
\* that has to be cut; versions[i] is that of the i-th file.
Rendered(files, versions, lines) ==
  LET shown == SelectSeq([i \in DOMAIN files |-> <<files[i], versions[i]>>], LAMBDA f : There(f[2]))
      used(n) == Wrapper + n * FileWrapper
                 + FoldLeft(LAMBDA sum, f : sum + Length[f[1]], 0, SubSeq(shown, 1, n))
      room(n) == lines - used(n - 1) - FileWrapper
      fits(n) == \A m \in 1 .. n : room(m) >= Length[shown[m][1]]
      n == Cardinality({m \in DOMAIN shown : fits(m)})
  IN IF lines < Wrapper THEN <<>>
     ELSE [m \in 1 .. n |-> <<shown[m], Length[shown[m][1]]>>]
          \o IF n < Len(shown) /\ room(n + 1) > 0 THEN <<<<shown[n + 1], room(n + 1) - 1>>>> ELSE <<>>

-----------------------------------------------------------------------------
(* build_repo_context.                                                     *)

Build(q, c, text) ==
  [by |-> q, org |-> Unset, config |-> c, versions |-> <<>>, failed |-> FALSE, text |-> text]
NoConfig == [files |-> <<>>, lines |-> 0, fromDefault |-> TRUE]
NoBuild == Build(Unset, NoConfig, <<>>)

Branch(c) == IF c.fromDefault THEN "default" ELSE "target"

\* The process's cache answers before the provider's.
Cached(q, c) ==
  LET k == ProcessKey(request[q], c)
  IN IF Found(proc, k) # {} THEN {proc[i].value : i \in Found(proc, k)}
     ELSE {own[q][i].value : i \in Found(own[q], Key(c))}

Begin(q, c) ==
  /\ reading = NoBuild /\ request[q] # Unset /\ reads < MaxReads
  /\ reads' = reads + 1
  /\ LET k == ProcessKey(request[q], c)
     IN /\ proc' = Got(proc, k)
        /\ own' = IF Found(proc, k) # {} THEN own ELSE [own EXCEPT ![q] = Got(@, Key(c))]
  /\ IF Cached(q, c) # {}
     THEN /\ \E text \in Cached(q, c) : served' = Build(q, c, text)
          /\ UNCHANGED reading
     ELSE reading' = Build(q, c, <<>>) /\ UNCHANGED served
  /\ UNCHANGED <<clock, provider, since, hidden, orgs, request, hostEdits, faults>>

\* One file: its text, nothing, or an error, after which the others are read.
Fetch ==
  /\ reading # NoBuild /\ Len(reading.versions) < Len(reading.config.files)
  /\ LET c == reading.config
         x == <<Branch(c), c.files[Len(reading.versions) + 1]>>
     IN \E answer \in Replies(FileErrors) :
          /\ reading' = [reading EXCEPT !.versions = Append(@, Content(answer, x)),
                                        !.failed = @ \/ answer = "raised"]
          /\ Answered(answer, x)
  /\ UNCHANGED <<clock, provider, since, caches, request, served, hostEdits, reads>>

\* Only what was fetched without an exception is kept, in both caches.
IsKept(b) == ~b.failed
Render ==
  /\ reading # NoBuild /\ Len(reading.versions) = Len(reading.config.files)
  /\ LET c == reading.config
         q == reading.by
         text == Rendered(c.files, reading.versions, c.lines)
     IN /\ served' = [reading EXCEPT !.text = text]
        /\ IF IsKept(reading)
           THEN /\ proc' = Put(proc, ProcessKey(request[q], c), text)
                /\ own' = [own EXCEPT ![q] = Put(@, Key(c), text)]
           ELSE UNCHANGED <<proc, own>>
  /\ reading' = NoBuild
  /\ UNCHANGED <<clock, provider, since, hidden, orgs, request, hostEdits, reads, faults>>

-----------------------------------------------------------------------------
(* get_cached_global_settings.                                             *)

\* The entry that would have expired first makes room.
Kept(cache) ==
  IF Cardinality(cache) =< MaxSize THEN {cache}
  ELSE {cache \ {e} : e \in {x \in cache : \A y \in cache : x.until =< y.until}}

Told(q, o, text, failed) ==
  [by |-> q, org |-> o, config |-> NoConfig, versions |-> <<>>, failed |-> failed, text |-> text]

\* A request begins by applying its settings, its organisation's among them on
\* the hosts that keep such a file. What is too large is returned and not kept,
\* and leaves the old entry where it is.
BeginRequest(q, p, large) ==
  LET o == Org[p]
      x == <<o, "settings">>
      hits == {e \in orgs : e.key = o /\ Fresh(e)}
  IN /\ reading = NoBuild /\ request[q] = Unset
     /\ request' = [request EXCEPT ![q] = p]
     /\ IF ~KeepsSettings THEN UNCHANGED <<orgs, hidden, served, faults>>
        ELSE IF hits # {}
        THEN /\ served' = Told(q, o, (CHOOSE e \in hits : TRUE).value, FALSE)
             /\ UNCHANGED <<orgs, hidden, faults>>
        ELSE \E answer \in Replies(SettingsErrors) :
          LET b == Told(q, o, <<Content(answer, x)>>, answer = "raised")
          IN /\ served' = b
             /\ Answered(answer, x)
             /\ IF IsKept(b) /\ ~large
                THEN orgs' \in Kept({e \in orgs : e.key # o} \cup {Entry(o, b.text, clock + Ttl)})
                ELSE UNCHANGED orgs
     /\ UNCHANGED <<clock, provider, since, proc, own, reading, hostEdits, reads>>

-----------------------------------------------------------------------------
(* The host and time (external).                                           *)

Edit(x) ==
  /\ hostEdits < MaxHostEdits
  /\ since' = [since EXCEPT ![x] = Append(@, clock)] /\ hostEdits' = hostEdits + 1
  /\ UNCHANGED <<clock, provider, hidden, caches, request, reading, served, reads, faults>>

Pass ==
  /\ clock < MaxTicks /\ reading = NoBuild
  /\ clock' = clock + 1 /\ served' = NoBuild
  /\ UNCHANGED <<provider, since, hidden, caches, request, reading, hostEdits, reads, faults>>

HostInit ==
  /\ clock = 0 /\ provider \in Providers
  /\ since = [x \in Places |-> <<0>>] /\ hidden = [x \in Places |-> {}]
  /\ proc = <<>> /\ own = [q \in Readers |-> <<>>] /\ orgs = {}
  /\ request = [q \in Readers |-> Unset]
  /\ reading = NoBuild /\ served = NoBuild
  /\ hostEdits = 0 /\ reads = 0 /\ faults = 0

HostNext ==
  \/ \E q \in Readers :
       \/ \E c \in Configs : Begin(q, c)
       \/ \E p \in PRs, large \in BOOLEAN : BeginRequest(q, p, large)
  \/ Fetch \/ Render
  \/ \E x \in Places : Edit(x)
  \/ Pass

HostSpec == HostInit /\ [][HostNext]_hostVars

-----------------------------------------------------------------------------
(* Properties.                                                             *)

\* Types. What is cached of instruction files is a rendering of them.
Contents == {Rendered(v[1], v[2], v[3]) : v \in Seq(Instructions) \X Seq(Nat) \X Nat}
CacheEntries(keys, values) == [key : keys, value : values, until : Int]
KeySet == Seq(Instructions) \X Nat
Builds == [by : Readers \cup {Unset}, org : Orgs \cup {Unset}, config : Configs \cup {NoConfig},
           versions : Seq(Nat), failed : BOOLEAN, text : Contents \cup Seq(Nat)]
HostTypeOK ==
  /\ clock \in Nat /\ hostEdits \in 0 .. MaxHostEdits /\ reads \in Nat /\ faults \in Nat
  /\ provider \in Providers
  /\ since \in [Places -> Seq(Nat)] /\ hidden \in [Places -> SUBSET Nat]
  /\ \A x \in Places : Version(x) \in 1 .. hostEdits + 1
  /\ proc \in Seq(CacheEntries(PRs \X KeySet, Contents))
  /\ own \in [Readers -> Seq(CacheEntries(KeySet, Contents))]
  /\ orgs \subseteq CacheEntries(Orgs, Seq(Nat))
  /\ request \in [Readers -> PRs \cup {Unset}]
  /\ reading \in Builds /\ served \in Builds

\* A text is the rendering of what these files held on a branch since a time.
RenderedSince(b, files, lines, text, t) ==
  \E v \in [1 .. Len(files) -> 0 .. MaxHostEdits + 1] :
    /\ \A i \in 1 .. Len(files) : v[i] \in HeldSince(<<b, files[i]>>, t)
    /\ text = Rendered(files, v, lines)

\* What a file held while an entry made of it could be alive.
Lately(x) == HeldSince(x, clock - Ttl + 1)
FromBranch(b) == RenderedSince(b, served.config.files, served.config.lines, served.text, clock - Ttl + 1)

Settings == served.org # Unset
Instructed == served # NoBuild /\ ~Settings

\* A request is told of the host what was answered there no longer ago than an
\* entry lives: its organisation's settings, and the files it asked for rendered
\* within the lines it asked for, whichever cache has answered. An error that is
\* raised excuses the request that meets it, and none after it. One that the
\* provider takes for an empty file misleads the requests of one entry's life.
HeldLately ==
  served # NoBuild /\ ~served.failed =>
    IF Settings THEN served.text[1] \in Lately(<<served.org, "settings">>)
    ELSE \E b \in {"default", "target"} : FromBranch(b)

\* Instruction files are read from the default branch unless the setting says
\* otherwise (docs/docs/usage-guide/additional_configurations.md:215).
FromTheBranchAsked == Instructed /\ ~served.failed => FromBranch(Branch(served.config))

-----------------------------------------------------------------------------
(* Why HeldLately holds: the inductive invariant.                          *)

\* An entry renders what was there when it was made, and was not made after now.
Alive(e, k) ==
  /\ e.until - Ttl <= clock
  /\ \E b \in {"default", "target"} : RenderedSince(b, k[1], k[2], e.value, e.until - Ttl)
AliveSettings(e) ==
  e.until - Ttl <= clock /\ e.value[1] \in HeldSince(<<e.key, "settings">>, e.until - Ttl)

CachesInv ==
  /\ \A i \in DOMAIN proc : Alive(proc[i], proc[i].key[2])
  /\ \A q \in Readers : \A i \in DOMAIN own[q] : Alive(own[q][i], own[q][i].key)
  /\ \A e \in orgs : AliveSettings(e)

\* No time passes while files are read: what was read is still what was there now.
ReadSoFar(b) ==
  /\ b.by \in Readers /\ request[b.by] # Unset /\ b.config \in Configs /\ b.org = Unset
  /\ Len(b.versions) <= Len(b.config.files)
  /\ ~b.failed => \A i \in DOMAIN b.versions :
                    b.versions[i] \in HeldSince(<<Branch(b.config), b.config.files[i]>>, clock)
ReadingInv == reading # NoBuild => ReadSoFar(reading)
=============================================================================
