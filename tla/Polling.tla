------------------------------- MODULE Polling -------------------------------
(***************************************************************************)
(* The polling server of GitHub user deployments: it lists the unread      *)
(* notifications every five seconds, marks each as read, looks for a       *)
(* command in the comments of its pull request, and at the end of the      *)
(* batch starts a process for each command found, which it never joins.    *)
(* Comments are posted at any time; a pull request has one notification.   *)
(***************************************************************************)
EXTENDS Integers, SequencesExt, FiniteSetsExt

CONSTANTS
  PRs,          \* the pull requests
  MaxComments,  \* bound on the comments posted while the server runs
  MaxFaults,    \* bound on the requests to GitHub that fail
  MaxParallel,  \* max_allowed_parallel_tasks
  ScanLength,   \* max_comment_to_scan
  PageLength    \* comments GitHub returns, oldest first, to a list request

ASSUME Lengths == /\ MaxParallel \in Nat
                  /\ ScanLength \in Nat \ {0} /\ PageLength \in Nat \ {0}

VARIABLES
  thread,     \* comments of each pull request: [user: not the bot, tag: mentions it]
  unread, old,    \* GitHub: unread notifications, those from before the start
  changes,    \* GitHub: counts what Last-Modified tells apart
  modified,   \* last_modified; -1 is None, and then "since" is the start
  batch, current, \* the rest of the listed notifications; the one in hand, or {}
  step,       \* where the loop is: "sleep", "mark", "check"
  handled,    \* handled_ids: of comments, those of threads are never looked up
  queue,      \* task_queue: [comment, news], the command and the latest comment
  started,    \* the processes, in the order they were started
  running,    \* those that have not ended
  faults, dropped \* requests that failed; whether a batch was too long

vars == <<thread, unread, old, changes, modified, batch, current, step, handled, queue,
          started, running, faults, dropped>>
github == <<thread, unread, old, changes>>
world == <<thread, unread, old, changes, started, running, dropped>>

Id(p, i) == <<p, i>>
Latest(p) == Id(p, Len(thread[p]))
The(c) == thread[c[1]][c[2]]
Posted == UNION {{Id(p, i) : i \in DOMAIN thread[p]} : p \in PRs}

-----------------------------------------------------------------------------
(* Deliberate faults: each replaces the operator it is named after.        *)

FaultKnown(c) == FALSE
FaultKnownThread(c) == \E d \in handled : d[1] = c[1]
FaultMarked(p) == unread

-----------------------------------------------------------------------------
(* GitHub.                                                                 *)

Comment(user, tag) == [user |-> user, tag |-> tag]

\* A thread's reason stays "mention" from its first mention on; before, its
\* notifications are none of the server's business.
Mentioned(p) == \E i \in DOMAIN thread[p] : thread[p][i].tag

UserComments ==
  \E p \in PRs, tag \in BOOLEAN :
    /\ Cardinality(Posted) < MaxComments
    /\ thread' = [thread EXCEPT ![p] = Append(@, Comment(TRUE, tag))]
    /\ IF tag \/ Mentioned(p)
       THEN unread' = unread \cup {p} /\ old' = old \ {p} /\ changes' = changes + 1
       ELSE UNCHANGED <<unread, old, changes>>
    /\ UNCHANGED <<modified, batch, current, step, handled, queue, started, running, faults,
                 dropped>>

-----------------------------------------------------------------------------
(* polling_loop.                                                           *)

News == modified # changes
Listed == IF modified = -1 THEN unread \ old ELSE unread

\* A response 304, or with no notification, changes nothing but Last-Modified.
List ==
  /\ step = "sleep" /\ News
  /\ modified' = changes
  /\ batch' = {Latest(p) : p \in Listed}
  /\ step' = IF Listed = {} THEN "sleep" ELSE "mark"
  /\ UNCHANGED <<world, current, handled, queue, faults>>

\* The response breaks off after its headers: last_modified has been taken.
ListFails ==
  /\ step = "sleep" /\ News /\ faults < MaxFaults
  /\ modified' = changes /\ faults' = faults + 1
  /\ UNCHANGED <<world, batch, current, step, handled, queue>>

Take(p) == \E c \in batch : /\ c[1] = p /\ batch' = batch \ {c} /\ current' = {c}
                            /\ step' = "check"

Marked(p) == unread \ {p}

\* What has been posted to the thread since it was listed is marked as well.
MarkRead ==
  /\ step = "mark"
  /\ \E p \in PRs : Take(p) /\ unread' = Marked(p)
  /\ UNCHANGED <<thread, old, changes, modified, handled, queue, started, running, faults,
                 dropped>>

\* A response other than 205 is only logged.
MarkRefused ==
  /\ step = "mark" /\ faults < MaxFaults
  /\ \E p \in PRs : Take(p)
  /\ faults' = faults + 1
  /\ UNCHANGED <<world, modified, handled, queue>>

\* No response at all abandons the batch, with the commands it has queued.
MarkFails ==
  /\ step = "mark" /\ faults < MaxFaults
  /\ faults' = faults + 1
  /\ batch' = {} /\ queue' = <<>> /\ step' = "sleep"
  /\ UNCHANGED <<world, modified, current, handled>>

(* is_valid_notification.                                                  *)

Command(c) == The(c).tag /\ The(c).user
Known(c) == c \in handled

\* The last comments of the first page, newest first; 0 if none is a command.
Scanned(p) ==
  LET n == Min({Len(thread[p]), PageLength})
  IN {i \in 1 .. n : i > n - ScanLength /\ Command(Id(p, i))}
Found(p) == IF Scanned(p) = {} THEN 0 ELSE Max(Scanned(p))

Checked == current' = {} /\ step' = IF batch = {} THEN "start" ELSE "mark"
Task(c, news) == [comment |-> c, news |-> news]

KnownComment ==
  /\ step = "check" /\ \E c \in current : Known(c)
  /\ Checked /\ UNCHANGED <<world, modified, batch, handled, queue, faults>>

NewCommand ==
  /\ step = "check"
  /\ \E c \in current : /\ ~Known(c) /\ Command(c)
                        /\ handled' = handled \cup {c}
                        /\ queue' = Append(queue, Task(c, c))
  /\ Checked /\ UNCHANGED <<world, modified, batch, faults>>

\* The latest comment is no command: the ones before it may be.
ScanThread ==
  /\ step = "check"
  /\ \E c \in current :
       /\ ~Known(c) /\ ~Command(c)
       /\ handled' = handled \cup {c}
       /\ queue' = IF Found(c[1]) = 0 THEN queue
                   ELSE Append(queue, Task(Id(c[1], Found(c[1])), c))
  /\ Checked /\ UNCHANGED <<world, modified, batch, faults>>

\* The latest comment, or the list of comments, cannot be had.
CheckFails ==
  /\ step = "check" /\ faults < MaxFaults
  /\ faults' = faults + 1
  /\ \E c \in current : handled' \in {handled} \cup
                          (IF Known(c) \/ Command(c) THEN {} ELSE {handled \cup {c}})
  /\ Checked /\ UNCHANGED <<world, modified, batch, queue>>

(* The processes.                                                          *)

\* The loop stops after the process whose index exceeds the maximum.
Startable == Min({Len(queue), MaxParallel + 2})

StartProcesses ==
  /\ step = "start"
  /\ started' = started \o SubSeq(queue, 1, Startable)
  /\ running' = running \cup (Len(started) + 1 .. Len(started) + Startable)
  /\ dropped' = (dropped \/ Startable < Len(queue))
  /\ queue' = <<>> /\ step' = "sleep"
  /\ UNCHANGED <<github, modified, batch, current, handled, faults>>

\* handle_request ends, and may have answered; it may quote a mention.
ProcessEnds ==
  \E r \in running :
    /\ running' = running \ {r}
    /\ \/ UNCHANGED thread
       \/ /\ Cardinality(Posted) < MaxComments
          /\ \E tag \in BOOLEAN : 
               thread' = [thread EXCEPT ![started[r].comment[1]] = Append(@, Comment(FALSE, tag))]
    /\ UNCHANGED <<unread, old, changes, modified, batch, current, step, handled, queue,
                   started, faults, dropped>>

-----------------------------------------------------------------------------
\* A pull request may have an unread mention when the server starts.
Init ==
  /\ thread \in [PRs -> {<<>>, <<Comment(TRUE, TRUE)>>}]
  /\ unread = {p \in PRs : thread[p] # <<>>} /\ old = unread
  /\ changes = 0 /\ modified = -1
  /\ batch = {} /\ current = {} /\ step = "sleep"
  /\ handled = {} /\ queue = <<>> /\ started = <<>> /\ running = {}
  /\ faults = 0 /\ dropped = FALSE

Loop == \/ List \/ MarkRead \/ KnownComment \/ NewCommand \/ ScanThread \/ StartProcesses

Next == \/ Loop \/ ListFails \/ MarkRefused \/ MarkFails \/ CheckFails
        \/ UserComments \/ ProcessEnds

Spec == Init /\ [][Next]_vars
FairSpec == Spec /\ WF_vars(Loop)

-----------------------------------------------------------------------------
(* Properties.                                                             *)

Tasks == [comment : Posted, news : Posted]

\* Types; what is queued and started are comments that exist.
TypeOK ==
  /\ unread \subseteq PRs /\ old \subseteq PRs /\ modified \in -1 .. changes
  /\ batch \subseteq Posted /\ current \subseteq Posted /\ handled \subseteq Posted
  /\ step \in {"sleep", "mark", "check", "start"}
  /\ \A t \in Range(queue) \cup Range(started) : t \in Tasks
  /\ running \subseteq DOMAIN started

Work == started \o queue

\* Only what a user asked the bot is carried out, however its own answers quote
\* a mention (github_polling.py:117, :142).
OnlyRequests ==
  \A k \in DOMAIN Work : LET c == Work[k].comment
                         IN thread[c[1]][c[2]].user /\ thread[c[1]][c[2]].tag

\* A pull request's commands are set off for ever later comments: nothing is
\* set off twice for one latest comment, even if its notification is listed
\* again because it could not be marked as read (github_polling.py:111).
InTurn ==
  \A j, k \in DOMAIN Work : j < k /\ Work[j].news[1] = Work[k].news[1] =>
    Work[j].news[2] < Work[k].news[2]

\* A command that is the latest comment is what its notification sets off; one
\* found behind another comment is set off for a comment that is none.  Found
\* ones are not looked up in handled_ids (github_polling.py:140), so a command
\* is set off again for each later comment that is none.
ForItself ==
  \A k \in DOMAIN Work : /\ Work[k].comment[1] = Work[k].news[1]
                         /\ Command(Work[k].news) => Work[k].comment = Work[k].news

\* What the server sets off was asked for, once for itself and once for each
\* comment without a command that it is found behind.
OncePerNews == OnlyRequests /\ InTurn /\ ForItself

\* While no request fails, a pull request is served no more often than its
\* users have commented: the answers do not set off more work.
ServedPerComment ==
  faults = 0 => \A p \in PRs :
    Cardinality({k \in DOMAIN Work : Work[k].comment[1] = p})
      =< Cardinality({i \in DOMAIN thread[p] : thread[p][i].user})

\* A request that is the latest comment of its unread thread while the server
\* sleeps is carried out, unless it is overtaken by a comment, a request to
\* GitHub fails, or there are more threads than a batch may serve.
RequestServed ==
  \A p \in PRs, i \in 1 .. MaxComments :
    (/\ step = "sleep" /\ p \in unread \ old /\ i = Len(thread[p])
     /\ thread[p][i].user /\ thread[p][i].tag)
    ~> (\/ \E k \in DOMAIN started : started[k].comment = <<p, i>>
        \/ i # Len(thread[p]) \/ faults > 0 \/ dropped)
=============================================================================
