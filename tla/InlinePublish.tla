---------------------------- MODULE InlinePublish ----------------------------
(***************************************************************************)
(* Publication of committable suggestions on GitHub with                   *)
(* persistent_inline_comments: push_inline_code_suggestions,               *)
(* publish_inline_comments, its fallback with verification, and the store  *)
(* of fingerprints.  One run publishes one list of suggestions; the runs   *)
(* of a pull request follow one another, because every call is synchronous *)
(* and blocks the event loop.  Each request to GitHub may succeed, be      *)
(* rejected, fail, or succeed without an answer, and the process may stop  *)
(* between two of them.                                                    *)
(***************************************************************************)
EXTENDS Integers, Sequences, FiniteSets

CONSTANTS
  Suggestions,  \* suggestions the model may make, at fixed lines
  Prose, Code,  \* functions: the prose and the proposed code of each
  Short,        \* those whose prose leaves room for code in 80 characters
  Valid,        \* those GitHub accepts as they are
  Fixable,      \* those it accepts without the suggestion, on one line
  TryFix,       \* github.try_fix_invalid_inline_comments
  Lists,        \* lists of suggestions a run may publish
  MaxRuns,      \* bound on the number of runs
  MaxOverlooked \* bound on how often one fingerprint is overlooked

ASSUME PublishAssumption ==
  /\ Lists \subseteq Seq(Suggestions)
  /\ MaxRuns \in Nat /\ MaxOverlooked \in Nat

VARIABLES
  posted,       \* posted[c]: copies of comment c on the pull request
  keys, loaded, \* InlineCommentStore of the run
  pc,           \* "idle", "filter", "review", "verify", "group" or "fix"
  batch,        \* comments of the publish_inline_comments call in progress
  rest,         \* suggestions still to be published one by one
  single,       \* whether the call is one of those
  queue, verified, invalid,  \* of _verify_code_comments
  runs, offered, faulty,     \* runs so far; list and mishaps of the last one
  overlooked    \* how often a posted fingerprint did not reach the store

store == <<keys, loaded>>
fallback == <<queue, verified, invalid>>
run == <<runs, offered, faulty, overlooked>>
publishVars == <<posted, store, pc, batch, rest, single, fallback, run>>

\* A comment is a suggestion as it is, or fixed: cut before its code block.
Comments == Suggestions \X {"full", "fixed"}
Full(s)  == <<s, "full">>
Fixed(s) == <<s, "fixed">>
Elements(q) == {q[i] : i \in DOMAIN q}

-----------------------------------------------------------------------------
(* Fingerprints.                                                           *)

\* Over the first 80 characters of the body, code included if they reach it.
BodyFp(c) == IF c[1] \in Short /\ c[2] = "full"
             THEN <<"body", Prose[c[1]], Code[c[1]]>>
             ELSE <<"body", Prose[c[1]], "">>

\* A fixed body has no suggestion block, hence no code fingerprint.
Fingerprints(c) ==
  {BodyFp(c)} \cup (IF c[2] = "full" THEN {<<"code", Code[c[1]], "">>} ELSE {})

\* The markers in the bodies of comments, and in those on the pull request.
MarkersOf(cs) == UNION {Fingerprints(c) : c \in cs}
Present == {c \in Comments : posted[c] > 0}
Markers == MarkersOf(Present)

\* The markers of suggestions posted as they are.
Marked(q) == MarkersOf({Full(s) : s \in Elements(q)})

Overlook(fps) ==
  /\ \A f \in fps : overlooked[f] < MaxOverlooked
  /\ overlooked' = [f \in DOMAIN overlooked |-> overlooked[f] + (IF f \in fps THEN 1 ELSE 0)]

-----------------------------------------------------------------------------
(* Deliberate faults: each replaces the operator it is named after.        *)

FaultKept(known, list) ==
  SelectSeq(list, LAMBDA s : Fingerprints(Full(s)) \cap known = {})
FaultRecorded(known, kept) ==
  known \cup Marked(kept)

-----------------------------------------------------------------------------
(* The filter of publish_inline_comments.                                  *)

\* What load() finds: every marker on the pull request, or those listed before
\* a request failed, which is only logged.
Scans == {MarkersOf(listed) : listed \in SUBSET Present}

\* The suggestions that share no fingerprint with a known one or with an
\* earlier kept one.
KeepNext(known, kept, s) ==
  IF Fingerprints(Full(s)) \cap (known \cup Marked(kept)) = {} THEN Append(kept, s) ELSE kept

Kept(known, list) ==
  LET keep[i \in 0 .. Len(list)] ==
        IF i = 0 THEN <<>> ELSE KeepNext(known, keep[i - 1], list[i])
  IN keep[Len(list)]

\* What the store holds after the filter: nothing is recorded before it posts.
Recorded(known, kept) == known

\* The next of the calls that publish one suggestion each, or the end.
Continue(q) ==
  IF q = <<>>
  THEN /\ pc' = "idle" /\ batch' = <<>> /\ rest' = <<>> /\ single' = FALSE
  ELSE /\ pc' = "filter" /\ batch' = <<Head(q)>> /\ rest' = Tail(q) /\ single' = TRUE

NoFallback == queue' = <<>> /\ verified' = <<>> /\ invalid' = <<>>

\* push_inline_code_suggestions: a new provider, hence an empty store.
StartRun(list) ==
  /\ pc = "idle" /\ runs < MaxRuns
  /\ pc' = "filter" /\ batch' = list /\ rest' = list /\ single' = FALSE
  /\ keys' = {} /\ loaded' = FALSE
  /\ runs' = runs + 1 /\ offered' = list /\ faulty' = FALSE
  /\ UNCHANGED <<posted, fallback, overlooked>>

Filter ==
  /\ pc = "filter"
  /\ \E known \in IF loaded THEN {keys} ELSE Scans :
       LET kept == Kept(known, batch) IN
       /\ keys' = Recorded(known, kept)
       /\ IF kept = <<>>
          THEN Continue(IF single THEN rest ELSE <<>>)
          ELSE pc' = "review" /\ batch' = kept /\ UNCHANGED <<rest, single>>
       /\ IF loaded THEN UNCHANGED overlooked ELSE Overlook(Markers \ known)
  /\ loaded' = TRUE
  /\ UNCHANGED <<posted, fallback, runs, offered, faulty>>

-----------------------------------------------------------------------------
(* create_review of the whole batch.                                       *)

Post(cs) == posted' = [c \in Comments |-> IF c \in cs THEN posted[c] + 1 ELSE posted[c]]

ReviewPosted ==
  /\ pc = "review" /\ Elements(batch) \subseteq Valid
  /\ Post({Full(s) : s \in Elements(batch)})
  /\ keys' = keys \cup Marked(batch)
  /\ Continue(IF single THEN rest ELSE <<>>)
  /\ UNCHANGED <<loaded, fallback, run>>

\* Status 422 starts the fallback.
ReviewRejected ==
  /\ pc = "review" /\ ~ Elements(batch) \subseteq Valid
  /\ pc' = "verify" /\ queue' = batch
  /\ UNCHANGED <<posted, store, batch, rest, single, verified, invalid, run>>

\* Any other error reaches publish_code_suggestions, which returns False:
\* every suggestion is then published separately, and once only.
ReviewFails ==
  /\ pc = "review"
  /\ faulty' = TRUE
  /\ Continue(rest)
  /\ UNCHANGED <<posted, store, fallback, runs, offered, overlooked>>

\* GitHub creates the review, its answer is lost, and nothing is recorded.
ReviewLost ==
  /\ pc = "review" /\ Elements(batch) \subseteq Valid
  /\ Post({Full(s) : s \in Elements(batch)})
  /\ Overlook(Marked(batch))
  /\ Continue(rest)
  /\ UNCHANGED <<store, fallback, runs, offered, faulty>>

-----------------------------------------------------------------------------
(* _publish_inline_comments_fallback_with_verification.                    *)

Remaining(q) == Tail(q)

\* One pending review per comment; a request that fails makes it invalid.
Verify ==
  /\ pc = "verify" /\ queue # <<>>
  /\ LET s == Head(queue)
     IN \/ /\ s \in Valid
           /\ verified' = Append(verified, s) /\ UNCHANGED <<invalid, faulty>>
        \/ /\ invalid' = Append(invalid, s)
           /\ faulty' = (faulty \/ s \in Valid) /\ UNCHANGED verified
  /\ queue' = Remaining(queue)
  /\ UNCHANGED <<posted, store, pc, batch, rest, single, runs, offered, overlooked>>

ToFix(bad) == IF TryFix THEN bad ELSE <<>>

\* The verified comments are posted as one review, unrecorded, with or without
\* an answer; its failure is swallowed.
Group ==
  /\ pc = "verify" /\ queue = <<>>
  /\ \/ /\ Post({Full(s) : s \in Elements(verified)}) /\ UNCHANGED faulty
     \/ verified # <<>> /\ faulty' = TRUE /\ UNCHANGED posted
  /\ pc' = "fix" /\ invalid' = ToFix(invalid) /\ verified' = <<>>
  /\ UNCHANGED <<store, batch, rest, single, queue, runs, offered, overlooked>>

\* A fixed comment is marked anew, posted with fallbacks disabled, recorded
\* when there is an answer.
Fix ==
  /\ pc = "fix" /\ invalid # <<>>
  /\ LET s == Head(invalid)
     IN \/ /\ s \in Fixable \cup Valid
           /\ Post({Fixed(s)})
           /\ \/ keys' = keys \cup Fingerprints(Fixed(s)) /\ UNCHANGED overlooked
              \/ Overlook(Fingerprints(Fixed(s))) /\ UNCHANGED keys
           /\ UNCHANGED faulty
        \/ /\ faulty' = (faulty \/ s \in Fixable \cup Valid)
           /\ UNCHANGED <<posted, keys, overlooked>>
  /\ invalid' = Remaining(invalid)
  /\ UNCHANGED <<loaded, pc, batch, rest, single, queue, verified, runs, offered>>

FallbackDone ==
  /\ pc = "fix" /\ invalid = <<>>
  /\ Continue(IF single THEN rest ELSE <<>>)
  /\ UNCHANGED <<posted, store, fallback, run>>

\* The process stops; what GitHub holds remains.
Crash ==
  /\ pc # "idle"
  /\ Continue(<<>>) /\ NoFallback
  /\ faulty' = TRUE
  /\ UNCHANGED <<posted, store, runs, offered, overlooked>>

-----------------------------------------------------------------------------
PublishInit ==
  /\ posted = [c \in Comments |-> 0]
  /\ keys = {} /\ loaded = FALSE
  /\ pc = "idle" /\ batch = <<>> /\ rest = <<>> /\ single = FALSE
  /\ queue = <<>> /\ verified = <<>> /\ invalid = <<>>
  /\ runs = 0 /\ offered = <<>> /\ faulty = FALSE
  /\ overlooked = [f \in MarkersOf(Comments) |-> 0]

PublishNext ==
  \/ \E list \in Lists : StartRun(list)
  \/ Filter \/ ReviewPosted \/ ReviewRejected \/ ReviewFails \/ ReviewLost
  \/ Verify \/ Group \/ Fix \/ FallbackDone \/ Crash

PublishSpec == PublishInit /\ [][PublishNext]_publishVars

-----------------------------------------------------------------------------
(* Properties.                                                             *)

\* Types.
PublishTypeOK ==
  /\ posted \in [Comments -> Nat]
  /\ pc \in {"idle", "filter", "review", "verify", "fix"}
  /\ \A q \in {batch, rest, queue, verified, invalid, offered} : q \in Seq(Suggestions)
  /\ keys \subseteq MarkersOf(Comments) /\ runs \in 0 .. MaxRuns
  /\ loaded \in BOOLEAN /\ single \in BOOLEAN /\ faulty \in BOOLEAN
  /\ overlooked \in [MarkersOf(Comments) -> Nat]

\* The comments on the pull request that carry a fingerprint, copies apart.
CopiesOf(f, p) == UNION {{c} \X (1 .. p[c]) : c \in {d \in Comments : f \in Fingerprints(d)}}
Copies(f) == Cardinality(CopiesOf(f, posted))

\* No fingerprint is on the pull request twice, over any number of runs,
\* failures and restarts (publish_inline_comments drops duplicates), but once
\* more for each time it was posted without an answer or missed in a listing:
\* what one run overlooks, the next does not repeat.
UniqueMarkers == \A f \in Markers : Copies(f) =< 1 + overlooked[f]

\* A suggestion is posted once, whether as it is or fixed (improve.md:217:
\* "skipping the re-posting of comments that are already present").
PostedOnce ==
  \A s \in Suggestions : posted[Full(s)] + posted[Fixed(s)] =< 1

\* However often a suggestion is offered, the pull request holds it once, as it
\* is or fixed, and once more only for each time it was overlooked.
NothingRepeated ==
  /\ UniqueMarkers
  /\ \A s \in Suggestions :
       posted[Full(s)] + posted[Fixed(s)] =< 1 + overlooked[BodyFp(Full(s))]

\* The store holds only fingerprints of comments that are posted: what was
\* dropped can be retried (github_provider.py:574-577).
StoreSound == keys \subseteq Markers

\* A suggestion is represented if one of its fingerprints is on the pull
\* request, or it is there fixed, or another one that shares a fingerprint was
\* kept, which GitHub rejects as it is: that one is there fixed, or cannot be.
Acceptable(s) == s \in Valid \cup (IF TryFix THEN Fixable ELSE {})
Replaces(u, s) ==
  /\ u # s /\ Fingerprints(Full(u)) \cap Fingerprints(Full(s)) # {}
  /\ u \notin Valid /\ (Acceptable(u) => posted[Fixed(u)] > 0)
Represented(s) ==
  \/ Fingerprints(Full(s)) \cap Markers # {}
  \/ posted[Fixed(s)] > 0
  \/ \E u \in Elements(offered) : Replaces(u, s)
AllRepresented == \A s \in Elements(offered) : Acceptable(s) => Represented(s)

\* After a run in which no request failed, every suggestion GitHub can accept
\* is represented.
AcceptedArrive == pc = "idle" /\ ~faulty => AllRepresented

\* No suggestion is kept back for good: what was not posted may be offered
\* again, and what GitHub accepts arrives.
NothingLost == StoreSound /\ AcceptedArrive

-----------------------------------------------------------------------------
(* Why they hold: the inductive invariants.                                *)

Apart(q) == \A s, u \in Elements(q) :
              s # u => Fingerprints(Full(s)) \cap Fingerprints(Full(u)) = {}
Once(q) == \A i, j \in DOMAIN q : q[i] = q[j] => i = j
Falling == pc \in {"verify", "fix"}

\* A batch that has passed the filter shares no fingerprint within itself, and
\* the fallback puts each of its comments in one place.
BatchInv ==
  /\ pc \in {"review", "verify", "fix"} => loaded /\ Apart(batch) /\ Once(batch)
  /\ ~Falling => queue = <<>> /\ verified = <<>> /\ invalid = <<>>
  /\ Falling =>
       /\ Elements(queue) \cup Elements(verified) \cup Elements(invalid) \subseteq Elements(batch)
       /\ Once(queue) /\ Once(invalid)
       /\ Elements(queue) \cap (Elements(verified) \cup Elements(invalid)) = {}
       /\ Elements(verified) \cap Elements(invalid) = {}
       /\ Elements(verified) \subseteq Valid
  /\ pc = "fix" => queue = <<>> /\ verified = <<>>

\* A suggestion published alone leaves nothing to the group.
SingleInv ==
  /\ single /\ pc # "idle" => loaded /\ \E s \in Suggestions : Elements(batch) \subseteq {s}
  /\ single /\ Falling => Elements(batch) \cap Valid = {}
  /\ ~TryFix =>
       /\ \A s \in Suggestions : posted[Fixed(s)] = 0
       /\ pc = "fix" => invalid = <<>>

\* A fingerprint that may be posted again is one that was overlooked each time.
Spare(f) == f \notin keys => Copies(f) =< overlooked[f]
CountInv ==
  /\ \A f \in MarkersOf(Comments) : Copies(f) =< 1 + overlooked[f]
  /\ loaded /\ pc \in {"filter", "review", "verify"} =>
       \A f \in MarkersOf(Comments) : Spare(f)
  /\ single /\ pc = "fix" => \A f \in MarkersOf(Comments) : Spare(f)
  /\ pc \in {"review", "verify"} => Marked(batch) \cap keys = {}
  /\ pc = "fix" =>
       /\ Marked(invalid) \cap keys = {}
       /\ \A f \in Marked(invalid) : Spare(f)

\* What a run without failures still owes each suggestion it was offered.
Settled(u) == \/ posted[Full(u)] > 0
              \/ u \notin Valid /\ (Acceptable(u) => posted[Fixed(u)] > 0)
Standing == \A s \in Elements(offered) :
              \/ Fingerprints(Full(s)) \cap Markers # {}
              \/ \E u \in Elements(batch) : Fingerprints(Full(u)) \cap Fingerprints(Full(s)) # {}
OfferInv ==
  ~faulty =>
    /\ single \/ pc = "idle" => AllRepresented
    /\ ~single /\ pc = "filter" => batch = offered
    /\ ~single /\ pc \in {"review", "verify", "fix"} =>
         Elements(batch) \subseteq Elements(offered) /\ Standing
    /\ ~single /\ Falling =>
         \A u \in Elements(batch) :
           \/ Settled(u)
           \/ u \in Elements(queue) \cup Elements(verified)
           \/ u \in Elements(invalid) /\ u \notin Valid
=============================================================================
