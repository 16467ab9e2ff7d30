--------------------------- MODULE SimilarIssues ----------------------------
(***************************************************************************)
(* /similar_issue (tools/pr_similar_issue.py): the index of issues that    *)
(* repositories share in a vector store, its first filling and its         *)
(* updates, and the list of similar issues a run publishes.  Runs in       *)
(* different processes overlap; each call of the store is atomic and may   *)
(* be the last one of its run.                                             *)
(***************************************************************************)
EXTENDS Integers, Sequences, FiniteSets, Subsequences

CONSTANTS
  Repositories,
  Stores,     \* vectordb: among "qdrant", "lancedb", "pinecone"
  MaxIssues,  \* bound on the issues of a repository
  MaxScan,    \* pr_similar_issue.max_issues_to_scan
  TopK,       \* how many records the store returns
  TooLong,    \* numbers of issues that exceed the embedding model's tokens
  Comments    \* Comments[n]: the number of comments of issue n

ASSUME IndexBounds == MaxIssues \in Nat /\ MaxScan \in Nat /\ TopK \in Nat

VARIABLES
  db,         \* the store that is configured
  opened,     \* opened[r]: issues of a repository, numbered in order
  created,    \* the collection exists
  stored,     \* records of the collection: [id, repo, embedded]
  at,         \* at[r]: idle, scan, update, query
  mode,       \* mode[r]: full or incremental
  list,       \* list[r]: issues the run will store
  published   \* published[r]: the last list of similar issues

issueVars == <<db, opened, created, stored, at, mode, list, published>>

-----------------------------------------------------------------------------
(* Deliberate faults: each replaces the operator it is named after.        *)

FaultMine(r) == stored

-----------------------------------------------------------------------------
(* Records.  The id of an issue does not name its repository: the same     *)
(* number of another repository replaces it.                               *)

Marker(r) == [id |-> <<"example", r>>, repo |-> r, embedded |-> TRUE]
IssueId(n) == <<"issue", n>>
CommentId(n, j) == <<"comment", n, j>>

Upsert(records) == {s \in stored : \A x \in records : x.id # s.id} \cup records

\* max_issues_to_scan ends the scan when it is reached, so one issue fewer is
\* stored; the issue's text decides for its comments too.
Corpus(r, issues, embedded) ==
  LET scanned == {n \in issues : Cardinality({m \in issues : m >= n}) < MaxScan}
      fits == scanned \ TooLong
  IN {Marker(r)}
     \cup {[id |-> IssueId(n), repo |-> r, embedded |-> embedded] : n \in fits}
     \cup {[id |-> CommentId(n, j), repo |-> r, embedded |-> embedded] : n \in fits, j \in 1 .. MaxIssues}

\* Comments exist up to Comments[n].
Real(records) == {s \in records : s.id[1] = "comment" => s.id[3] <= Comments[s.id[2]]}

-----------------------------------------------------------------------------
(* What a store makes of the run.                                          *)

HasMarker(r) == \E s \in stored : s.id = <<"example", r>>

\* Each constructor: all issues, only new ones, or an exception.
QdrantMode(r, force) == IF ~created \/ force \/ ~HasMarker(r) THEN "full" ELSE "incremental"
LanceMode(r, force) ==
  IF ~created \/ force THEN "full" ELSE IF HasMarker(r) THEN "incremental" ELSE "raises"
PineconeMode(r, force) == IF ~created \/ force \/ ~HasMarker(r) THEN "full" ELSE "incremental"
Mode(r, force) ==
  CASE db = "qdrant" -> QdrantMode(r, force)
    [] db = "lancedb" -> LanceMode(r, force)
    [] db = "pinecone" -> PineconeMode(r, force)

\* pandas is imported in the constructor and in the update for Qdrant only.
PineconeUpdate == "raises"
LanceUpdate == "raises"
QdrantUpdate == "upserts"
Update == CASE db = "qdrant" -> QdrantUpdate [] db = "lancedb" -> LanceUpdate [] db = "pinecone" -> PineconeUpdate

\* The issues that precede the newest one the store knows.
Unknown(r) ==
  LET known == {n \in 1 .. opened[r] : \E s \in stored : s.id = IssueId(n) /\ s.repo = r}
  IN {n \in 1 .. opened[r] : \A k \in known : k < n}

\* The nearest records of the repository, whichever they are, the best first,
\* without its marker and those of the issue itself.
Mine(r) == {s \in stored : s.repo = r}
Nearest(r, itself) == {s \in Mine(r) : s.id[1] # "example" /\ s.id[2] # itself}
Answers(r, itself) ==
  UNION {{h \in [1 .. k -> Nearest(r, itself)] : \A i, j \in 1 .. k : i # j => h[i] # h[j]} : k \in 0 .. TopK}

\* What a run lists: an issue once, but a comment and a score for each record,
\* so that a later issue has those of an earlier one's second record.
Listed(r, hits) ==
  LET fresh == {i \in DOMAIN hits : \A j \in DOMAIN hits : j < i => hits[j].id[2] # hits[i].id[2]}
      issues == Picked(hits, fresh)
  IN [i \in DOMAIN issues |->
        [issue |-> issues[i].id[2], repo |-> r,
         comment |-> IF hits[i].id[1] = "comment" THEN hits[i].id[3] ELSE 0]]

\* A comment's record is numbered from one and looked up from zero: the link is
\* to the comment after it, and there is none after the last.
Linkable(listed) == \A i \in DOMAIN listed : listed[i].comment < Comments[listed[i].issue] \/ listed[i].comment = 0

-----------------------------------------------------------------------------
(* Runs.                                                                   *)

Connect(r) ==
  /\ at[r] = "idle"
  /\ \E force \in BOOLEAN :
       /\ mode' = [mode EXCEPT ![r] = Mode(r, force)]
       /\ at' = [at EXCEPT ![r] = IF Mode(r, force) = "raises" THEN "idle" ELSE "scan"]
  /\ created' = (created \/ db = "qdrant")
  /\ UNCHANGED <<db, opened, stored, list, published>>

\* Reads the issues and what the store knows of them.
Scan(r) ==
  /\ at[r] = "scan"
  /\ list' = [list EXCEPT ![r] = IF mode[r] = "full" THEN 1 .. opened[r] ELSE Unknown(r)]
  /\ at' = [at EXCEPT ![r] = IF mode[r] = "incremental" /\ Unknown(r) = {} THEN "query" ELSE "update"]
  /\ UNCHANGED <<db, opened, created, stored, mode, published>>

\* All texts are embedded at once, or one by one with zeros for those that fail.
Store(r) ==
  /\ at[r] = "update"
  /\ IF Update = "raises" THEN at' = [at EXCEPT ![r] = "idle"] /\ UNCHANGED stored
     ELSE /\ \E embedded \in BOOLEAN : stored' = Upsert(Real(Corpus(r, list[r], embedded)))
          /\ at' = [at EXCEPT ![r] = "query"]
  /\ UNCHANGED <<db, opened, created, mode, list, published>>

\* The run of an issue: it is not similar to itself, the others may be.
Query(r) ==
  /\ at[r] = "query" /\ db # "pinecone"
  /\ \E itself \in 1 .. opened[r] : \E hits \in Answers(r, itself) :
       published' = [published EXCEPT ![r] = IF Linkable(Listed(r, hits)) THEN Listed(r, hits) ELSE @]
  /\ at' = [at EXCEPT ![r] = "idle"]
  /\ UNCHANGED <<db, opened, created, stored, mode, list>>

\* Any call raises, or the process stops.
RunFails(r) ==
  /\ at[r] # "idle"
  /\ at' = [at EXCEPT ![r] = "idle"]
  /\ UNCHANGED <<db, opened, created, stored, mode, list, published>>

Open(r) ==
  /\ opened[r] < MaxIssues
  /\ opened' = [opened EXCEPT ![r] = @ + 1]
  /\ UNCHANGED <<db, created, stored, at, mode, list, published>>

IssuesInit ==
  /\ db \in Stores
  /\ opened = [r \in Repositories |-> 0] /\ created = FALSE /\ stored = {}
  /\ at = [r \in Repositories |-> "idle"] /\ mode = [r \in Repositories |-> "full"]
  /\ list = [r \in Repositories |-> {}] /\ published = [r \in Repositories |-> <<>>]

IssuesNext == \E r \in Repositories : Connect(r) \/ Scan(r) \/ Store(r) \/ Query(r) \/ RunFails(r) \/ Open(r)

IssuesSpec == IssuesInit /\ [][IssuesNext]_issueVars

-----------------------------------------------------------------------------
(* Properties.                                                             *)

Indexed(r) == {n \in 1 .. opened[r] : \E s \in stored : s.id = IssueId(n) /\ s.repo = r}

\* An update stops at the newest issue it knows, which is right only while the
\* index has no gaps below it, whatever has failed in between; it has none in a
\* store of its own, of a repository with fewer than max_issues_to_scan issues.
NoGaps ==
  \A r \in Repositories : opened[r] < MaxScan /\ (\A s \in stored : s.repo = r) =>
    \A n \in Indexed(r) : 1 .. n \subseteq Indexed(r) \cup TooLong

\* A repository's list names its own issues, and names none twice.
OwnIssues ==
  \A r \in Repositories : \A i, j \in DOMAIN published[r] :
    /\ published[r][i].issue \in 1 .. opened[r]
    /\ i # j => published[r][i].issue # published[r][j].issue

\* What a repository is told of comes from an index that can be continued, and
\* from its own part of it.
IndexIsSound == NoGaps /\ OwnIssues
=============================================================================
