----------------------------- MODULE DiffFiles -----------------------------
(***************************************************************************)
(* get_diff_files of each provider: what the host says has changed becomes *)
(* the list of files, with their contents before and after and a patch,    *)
(* that the tools of a request work on. A tool asks again for every model  *)
(* it tries.                                                               *)
(***************************************************************************)
EXTENDS Integers, Sequences, FiniteSets

CONSTANTS
  Changed,     \* the changed files, a sequence of distinct values
  Kinds,       \* what can have happened to a file, records
               \* [type, given, kept]: whether the host gives a patch, and
               \* whether the file passes [ignore] and its extension
  Hosts,
  MaxFull,     \* MAX_FILES_ALLOWED_FULL
  Tries,       \* ratelimit_retries
  MaxTrouble,  \* bound on calls to the host that fail
  MaxAsked     \* bound on how often the list is asked for

None == "none"
Names == {Changed[i] : i \in DOMAIN Changed}

ASSUME ListAssumption ==
  /\ Changed \in Seq(Names) /\ None \notin Names
  /\ Kinds \subseteq [type : {"edit", "add", "delete", "rename"}, given : BOOLEAN, kept : BOOLEAN]
  /\ Hosts \subseteq {"github", "gitlab", "gitea", "azure", "bitbucket", "bitbucket_server",
                      "codecommit", "local"}
  /\ MaxFull \in Nat /\ Tries \in Nat /\ MaxTrouble \in Nat /\ MaxAsked \in Nat

VARIABLES
  host, change,   \* change[f]: a member of Kinds
  cache,          \* self.diff_files
  todo, out,      \* the files left, and the list being built
  stale,          \* Bitbucket Server: the contents the last iteration has set
  tries,          \* attempts left
  served,         \* what the last call returned: a sequence, or None
  step, asked, trouble

listVars == <<host, change, cache, todo, out, stale, tries, served, step, asked, trouble>>

\* before and after: the file whose contents the entry holds, or None;
\* patch: given by the host, computed from the contents, or None.
Entry(f, before, after, patch) == [name |-> f, before |-> before, after |-> after, patch |-> patch]
\* No list: nothing cached, or an exception.
NoList == <<Entry(None, None, None, None)>>

-----------------------------------------------------------------------------
(* Deliberate faults: each replaces the operator it is named after.        *)

FaultKeeps(f) == change[f].kept /\ change[f].type # "delete"
FaultWas(f, ok) == IF ok /\ change[f].type # "add" THEN f ELSE stale[1]

-----------------------------------------------------------------------------
(* The host: each read may fail.                                           *)

May == IF trouble < MaxTrouble THEN BOOLEAN ELSE {TRUE}
Trouble(ok) == trouble' = trouble + IF ok THEN 0 ELSE 1

Existed(f) == change[f].type # "add"    \* the file is there before,
Exists(f) == change[f].type # "delete"  \* and after
Was(f, ok) == IF ok /\ Existed(f) THEN f ELSE None
Is(f, ok) == IF ok /\ Exists(f) THEN f ELSE None
\* Looked for by the name after the change, under which a renamed file was not.
WasNamed(f, ok) == IF change[f].type = "rename" THEN None ELSE Was(f, ok)

\* load_large_diff
Computed(f, before, after) == IF before = None /\ after = None THEN None ELSE "computed"
Given(f) == IF change[f].given THEN "given" ELSE None
GivenOr(f, before, after) == IF change[f].given THEN "given" ELSE Computed(f, before, after)

-----------------------------------------------------------------------------
(* One file, in the loop of each provider.                                 *)

\* Past the limit, contents are not loaded if there is a patch without them.
Spares(f) == Len(out) + 1 >= MaxFull /\ change[f].given
Tight(f) == Len(out) + 1 >= MaxFull \div 2

Github(f, ok) == LET b == WasNamed(f, ok /\ ~Spares(f)) a == Is(f, ok /\ ~Spares(f))
                 IN Entry(f, b, a, GivenOr(f, b, a))
Gitlab(f, ok) == LET b == Was(f, ok /\ ~Spares(f)) a == Is(f, ok /\ ~Spares(f))
                 IN Entry(f, b, a, GivenOr(f, b, a))
\* Gitea: a patch the host does not give is not computed.
Gitea(f, ok) == Entry(f, WasNamed(f, ok /\ ~Spares(f)), Is(f, ok /\ ~Spares(f)), Given(f))
\* Azure DevOps: what was there before a rename is not looked for.
Azure(f, ok) == LET b == WasNamed(f, ok) a == Is(f, ok) IN Entry(f, b, a, Computed(f, b, a))
Bitbucket(f, ok) == Entry(f, Was(f, ok /\ ~Tight(f)), Is(f, ok /\ ~Tight(f)), Given(f))
\* Bitbucket Server: nothing is read for a rename.
BitbucketServer(f, ok) ==
  LET b == IF change[f].type = "rename" THEN stale[1] ELSE Was(f, ok)
      a == IF change[f].type = "rename" THEN stale[2] ELSE Is(f, ok)
  IN Entry(f, b, a, Computed(f, b, a))
CodeCommit(f) == Entry(f, Was(f, TRUE), Is(f, TRUE), "computed")
\* The working copies of Gerrit and of a local branch.
Local(f) == Entry(f, Was(f, TRUE), Is(f, TRUE), "given")

Listed(f, ok) ==
  CASE host = "github" -> Github(f, ok)
    [] host = "gitlab" -> Gitlab(f, ok)
    [] host = "gitea" -> Gitea(f, ok)
    [] host = "azure" -> Azure(f, ok)
    [] host = "bitbucket" -> Bitbucket(f, ok)
    [] host = "bitbucket_server" -> BitbucketServer(f, ok)
    [] host = "codecommit" -> CodeCommit(f)
    [] host = "local" -> Local(f)

\* A read that fails leaves the contents empty; CodeCommit and the working
\* copies let it out, and Bitbucket Server all but a status of the host.
Strict == host \in {"codecommit", "local"}

\* Files of no name after the change are left out on CodeCommit.
Keeps(f) == host = "local" \/ (change[f].kept /\ (host = "codecommit" => Exists(f)))

-----------------------------------------------------------------------------
(* A call.                                                                 *)

\* A cached list is served if it is not empty; Azure's even if it is. Gitea goes
\* again over the changes it was built with, and makes an empty list of none.
Cached == /\ cache # NoList /\ host # "local"
          /\ cache # <<>> \/ host \in {"azure", "gitea"}

Serve(list) == /\ served' = list /\ step' = "idle" /\ asked' = asked + 1
               /\ todo' = <<>> /\ out' = <<>> /\ stale' = <<None, None>> /\ tries' = Tries

\* The list of changes, and the diff of the pull request that Bitbucket has to
\* split into as many parts. Gitea's list is had when the provider is built, and
\* is empty, for good, if it cannot be had.
Ask ==
  /\ step = "idle" /\ asked < MaxAsked
  /\ IF Cached THEN Serve(cache) /\ UNCHANGED <<cache, trouble>>
     ELSE \E ok \in May, split \in BOOLEAN :
       /\ Trouble(ok)
       /\ ok => split
       /\ IF ok
          THEN /\ step' = "loop" /\ todo' = Changed /\ out' = <<>> /\ stale' = <<None, None>>
               /\ cache' = IF host = "codecommit" THEN <<>> ELSE cache
               /\ UNCHANGED <<served, asked, tries>>
          ELSE /\ cache' = IF host = "gitea" THEN <<>> ELSE cache
               /\ IF host \in {"azure", "gitea"} \/ (host = "bitbucket" /\ ~split) THEN Serve(<<>>)
                  ELSE IF host = "github" /\ tries > 1
                       THEN tries' = tries - 1 /\ UNCHANGED <<served, step, asked, todo, out, stale>>
                       ELSE Serve(NoList)
  /\ UNCHANGED <<host, change>>

\* CodeCommit fills the cache itself, one file after the other.
Appended(e) == cache' = IF host = "codecommit" THEN Append(cache, e) ELSE cache

OneFile ==
  /\ step = "loop" /\ todo # <<>>
  /\ LET f == Head(todo)
     IN IF ~ Keeps(f)
        THEN /\ todo' = Tail(todo)
             /\ UNCHANGED <<cache, out, stale, tries, served, step, asked, trouble>>
        ELSE \E ok \in May :
          /\ Trouble(ok)
          /\ IF ~ok /\ Strict
             THEN Serve(NoList) /\ cache' = cache
             ELSE LET e == Listed(f, ok)
                  IN /\ todo' = Tail(todo) /\ out' = Append(out, e)
                     /\ stale' = IF host = "bitbucket_server" THEN <<e.before, e.after>> ELSE stale
                     /\ Appended(e)
                     /\ UNCHANGED <<tries, served, step, asked>>
  /\ UNCHANGED <<host, change>>

\* All files are there: the list is kept, and returned.
Complete ==
  /\ step = "loop" /\ todo = <<>>
  /\ Serve(out)
  /\ cache' = out
  /\ UNCHANGED <<host, change, trouble>>

-----------------------------------------------------------------------------
ListInit ==
  /\ host \in Hosts /\ change \in [Names -> Kinds]
  /\ cache = NoList /\ todo = <<>> /\ out = <<>> /\ stale = <<None, None>>
  /\ tries = Tries /\ served = NoList /\ step = "idle" /\ asked = 0 /\ trouble = 0

ListNext == Ask \/ OneFile \/ Complete

ListSpec == ListInit /\ [][ListNext]_listVars

-----------------------------------------------------------------------------
(* Properties.                                                             *)

\* Types.
Contents == Names \cup {None}
Entries == [name : Contents, before : Contents, after : Contents, patch : {"given", "computed", None}]
ListTypeOK ==
  /\ host \in Hosts /\ change \in [Names -> Kinds]
  /\ cache \in Seq(Entries) /\ out \in Seq(Entries) /\ served \in Seq(Entries)
  /\ todo \in Seq(Names) /\ stale \in Contents \X Contents
  /\ tries \in 0 .. Tries /\ step \in {"idle", "loop"}
  /\ asked \in Nat /\ trouble \in 0 .. MaxTrouble

\* The hosts a failure of which is never taken for a list.
Failing == {"github", "gitlab", "bitbucket_server", "local"}

Got == IF served = NoList THEN {} ELSE {served[i] : i \in DOMAIN served}

\* A list is that of the files modified, added, deleted or renamed in the pull
\* request (codecommit_provider.py:106), whatever failed before.
WholeList == served # NoList => {f \in Names : change[f].kept} \subseteq {e.name : e \in Got}

\* On the hosts where a failure is an error; on CodeCommit, Azure DevOps,
\* Bitbucket and Gitea (gitea_provider.py:955) it can leave part of the list, or
\* none of it, to be taken for the whole.
WholeOrFailed == host \in Failing => WholeList

\* The contents an entry holds are those of its own file; but for renamed files
\* on Bitbucket Server, whose contents are what the loop has read before.
OwnContents ==
  \A e \in Got : \/ host = "bitbucket_server" /\ change[e.name].type = "rename"
                 \/ {e.before, e.after} \subseteq {e.name, None}

\* On the hosts that may leave a patch out, a file is shown to the model by the
\* patch given or by one computed, however far down the list it stands; unless
\* reading it has failed.
HasPatch ==
  host \in {"github", "gitlab"} /\ trouble = 0 =>
    \A e \in Got : e.patch # None

\* A file is shown with what is its own, and with what there is of it.
OwnFile == OwnContents /\ HasPatch

-----------------------------------------------------------------------------
(* Why they hold: the inductive invariant.                                 *)

Sound == host \in Failing
NamesIn(list, f) == \E i \in DOMAIN list : list[i].name = f

\* In the loop, a file that counts is still to come or in the list.
LoopInv ==
  step = "loop" =>
    \A f \in Names : change[f].kept => NamesIn(out, f) \/ \E i \in DOMAIN todo : todo[i] = f

\* A list that can be served names every file that counts.
Covers(list) == list # NoList => \A f \in Names : change[f].kept => NamesIn(list, f)
WholeInv == Sound => LoopInv /\ Covers(cache) /\ Covers(served)

\* An entry shows what is its own, and if nothing has failed yet, what there is.
Proper(e) ==
  /\ \/ host = "bitbucket_server" /\ change[e.name].type = "rename"
     \/ {e.before, e.after} \subseteq {e.name, None}
  /\ host \in {"github", "gitlab"} /\ trouble = 0 => e.patch # None
Properly(list) == \A i \in DOMAIN list : Proper(list[i])
EntriesInv ==
  Properly(out) /\ (cache # NoList => Properly(cache)) /\ (served # NoList => Properly(served))
=============================================================================
