------------------------- MODULE IncrementalReview --------------------------
(***************************************************************************)
(* /review -i: a review of the commits since the newest comment that is a  *)
(* review, by the dates of both, on GitHub and Azure DevOps.  Commits are  *)
(* pushed while reviews run; each changes a file of its own.               *)
(***************************************************************************)
EXTENDS Integers, Sequences, FiniteSets, FiniteSetsExt

CONSTANTS
  Hosts,       \* among "github", "azure"
  Runs,        \* runs of /review on one pull request
  Config,      \* [auto, persistent, commits, minutes, all]: see Gated
  MaxCommits,  \* bound on the commits of the pull request
  MaxTime,     \* bound on the clock
  MaxReviews,  \* bound on the comments
  MaxUnread    \* bound on the commits whose changes cannot be read

ASSUME ReviewAssumption ==
  /\ Hosts \subseteq {"github", "azure"}
  /\ MaxCommits \in Nat /\ MaxTime \in Nat /\ MaxReviews \in Nat /\ MaxUnread \in Nat

NoDate == -1
None == 0

VARIABLES
  host, config,
  now,
  commits,   \* [pushed, date, merge], the oldest first; a date is the author's
  reviews,   \* the comments that are reviews: [created, full], the oldest first
  run,       \* run[r]: see Reading; skips are the commits it
             \* leaves out (not in the code)
  covered    \* commits a published review has been shown, could not read, or was
             \* running past (not in the code)

reviewVars == <<host, config, now, commits, reviews, run, covered>>

NoRun == [st |-> "idle", number |-> 0, last |-> None, range |-> {}, shows |-> {}, unread |-> {}, skips |-> {}]

-----------------------------------------------------------------------------
(* Deliberate faults: each replaces the operator it is named after.        *)

FaultGithubLast(n, t) == Max({i \in 1 .. n : i = 1 \/ commits[i - 1].date <= t} \cup {None})

-----------------------------------------------------------------------------
(* What is new, of the n commits the provider has read, since time t.      *)

\* get_commit_range: the newest commit that is not younger than the review.
GithubLast(n, t) == Max({i \in 1 .. n : commits[i].date <= t} \cup {None})

\* _get_commit_range passes over commits without a date.
AzureLast(n, t) ==
  Max({i \in 1 .. n : commits[i].date # NoDate /\ commits[i].date <= t} \cup {None})

LastSeen(n, t) == IF host = "github" THEN GithubLast(n, t) ELSE AzureLast(n, t)

Plain(range) == {i \in range : ~commits[i].merge}

\* Azure DevOps reviews everything if it has nothing to go by: no date, no
\* commit before the review, only merges, or no changes it could read.
FallsBack(range, unread) ==
  range # {} /\ Plain(range) \subseteq unread
BackToFull(n, last, range, unread) == host = "azure" /\ (last = None \/ FallsBack(range, unread))

\* What a run reads when its tool is built; unread are the commits whose
\* changes Azure DevOps does not return.
Reading(asked, unread) ==
  LET n == Len(commits)
      last == LastSeen(n, reviews[Len(reviews)].created)
      range == last + 1 .. n
      full == ~asked \/ reviews = <<>> \/ BackToFull(n, last, range, unread)
  IN [st |-> IF full THEN "full" ELSE "incremental", number |-> n,
      last |-> IF full THEN None ELSE last, range |-> IF full THEN {} ELSE range,
      shows |-> IF full THEN 1 .. n ELSE Plain(range) \ unread, unread |-> unread,
      skips |-> {}]

-----------------------------------------------------------------------------
(* A run.                                                                  *)

Start(r, asked, unread) ==
  /\ run[r].st = "idle" /\ commits # <<>>
  /\ unread # {} => asked /\ host = "azure" /\ reviews # <<>>
  /\ LET s == Reading(asked, unread)
     IN run' = [run EXCEPT ![r] = [s EXCEPT !.skips = Plain(1 .. s.number) \ (s.shows \cup unread \cup covered)]]
  /\ UNCHANGED <<host, config, now, commits, reviews, covered>>

\* _can_run_incremental_review: too few commits, or the newest one that has
\* been seen is too young.
TooFew(s) == Cardinality(s.range) < config.commits
TooYoung(s) == s.last # None /\ commits[s.last].date > now - config.minutes
Gated(s) ==
  /\ s.st = "incremental"
  /\ \/ config.auto /\ s.range = {}
     \/ IF config.all THEN TooFew(s) \/ TooYoung(s) ELSE TooFew(s) /\ TooYoung(s)

NothingNew(s) == s.st = "incremental" /\ s.shows = {}

\* The run ends without a review.
Leave(r) ==
  /\ run[r].st \in {"full", "incremental"} /\ (Gated(run[r]) \/ NothingNew(run[r]))
  /\ run' = [run EXCEPT ![r] = NoRun]
  /\ UNCHANGED <<host, config, now, commits, reviews, covered>>

\* The model answers: a full review may be written over an earlier one, which
\* keeps the time it was created at.
Publish(r) ==
  LET s == run[r]
      over == s.st = "full" /\ config.persistent /\ \E i \in DOMAIN reviews : reviews[i].full
  IN /\ s.st \in {"full", "incremental"} /\ ~Gated(s) /\ ~NothingNew(s)
     /\ over \/ Len(reviews) < MaxReviews
     /\ reviews' = IF over THEN reviews ELSE Append(reviews, [created |-> now, full |-> s.st = "full"])
     /\ covered' = covered \cup s.shows \cup s.unread \cup (IF over THEN {} ELSE s.number + 1 .. Len(commits))
     /\ run' = [run EXCEPT ![r] = NoRun]
     /\ UNCHANGED <<host, config, now, commits>>

\* The model or the host fails: the run leaves nothing.
Fail(r) ==
  /\ run[r].st \in {"full", "incremental"}
  /\ run' = [run EXCEPT ![r] = NoRun]
  /\ UNCHANGED <<host, config, now, commits, reviews, covered>>

-----------------------------------------------------------------------------
(* The author (external): commits are as old as their author made them.    *)

Push(date, merge) ==
  /\ Len(commits) < MaxCommits
  /\ date = NoDate => host = "azure"
  /\ commits' = Append(commits, [pushed |-> now, date |-> date, merge |-> merge])
  /\ UNCHANGED <<host, config, now, reviews, run, covered>>

Tick == now < MaxTime /\ now' = now + 1 /\ UNCHANGED <<host, config, commits, reviews, run, covered>>

ReviewInit ==
  /\ host \in Hosts /\ config \in Config
  /\ now = 1 /\ commits = <<>> /\ reviews = <<>>
  /\ run = [r \in Runs |-> NoRun] /\ covered = {}

ReviewNext ==
  \/ \E r \in Runs :
       \/ \E asked \in BOOLEAN, unread \in {u \in SUBSET Plain(DOMAIN commits) : Cardinality(u) <= MaxUnread} :
            Start(r, asked, unread)
       \/ Leave(r) \/ Publish(r) \/ Fail(r)
  \/ \E date \in {NoDate} \cup 1 .. now, merge \in BOOLEAN : Push(date, merge)
  \/ Tick

ReviewSpec == ReviewInit /\ [][ReviewNext]_reviewVars

-----------------------------------------------------------------------------
(* Properties.                                                             *)

\* Types.
ReviewTypeOK ==
  /\ host \in {"github", "azure"} /\ config \in Config /\ now \in Nat
  /\ commits \in Seq([pushed : Nat, date : {NoDate} \cup Nat, merge : BOOLEAN])
  /\ reviews \in Seq([created : Nat, full : BOOLEAN])
  /\ run \in [Runs -> [st : {"idle", "full", "incremental"}, number : Nat, last : Nat,
                       range : SUBSET Nat, shows : SUBSET Nat, unread : SUBSET Nat, skips : SUBSET Nat]]
  /\ covered \subseteq Nat

\* A commit is not skipped that no review has been shown: none has failed to
\* read it, and none was running when it was pushed whose comment is younger;
\* but for one pushed in the instant of a comment, or dated before its push,
\* itself or a later one.
Dated(i) == \A j \in i .. Len(commits) : commits[j].date \in {commits[j].pushed, NoDate}
InTime(i) == commits[i].pushed \notin {reviews[k].created : k \in DOMAIN reviews}
NoneSkipped == \A r \in Runs : \A i \in run[r].skips : ~Dated(i) \/ ~InTime(i)

-----------------------------------------------------------------------------
(* Why it holds: the inductive invariant.                                  *)

\* What need not be shown again: it has been, or one of the exceptions holds,
\* which is then for ever.
Settled(i) == i \in covered \/ ~Dated(i) \/ ~InTime(i)

\* Neither a push nor a review lies ahead of the clock, and pushes are in order.
ClockInv ==
  /\ \A i \in DOMAIN commits :
       commits[i].pushed =< now /\ (host = "github" => commits[i].date # NoDate)
  /\ \A i, j \in DOMAIN commits : i =< j => commits[i].pushed =< commits[j].pushed
  /\ \A k \in DOMAIN reviews : reviews[k].created =< now

\* A commit pushed before some review was published is settled, though that
\* review may have been shown others only.
ReviewedInv ==
  \A k \in DOMAIN reviews, i \in Plain(DOMAIN commits) :
    commits[i].pushed < reviews[k].created => Settled(i)

\* So is what a run under way has read and does not show.
RunInv ==
  \A r \in Runs :
    /\ run[r].number =< Len(commits) /\ run[r].skips \subseteq DOMAIN commits
    /\ run[r].st # "idle" =>
         \A i \in Plain(1 .. run[r].number) : i \in run[r].shows \cup run[r].unread \/ Settled(i)
=============================================================================
