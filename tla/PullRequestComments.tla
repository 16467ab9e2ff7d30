------------------------- MODULE PullRequestComments -------------------------
(***************************************************************************)
(* The conversation of one pull request: the comments that /review,        *)
(* /improve and the review endpoint of the Kenny API create, rewrite and   *)
(* remove.  A run suspends only while it waits for its model, so what it   *)
(* publishes at the end is one step; runs of one pull request overlap.     *)
(* A comment is found again by the header its body starts with.            *)
(***************************************************************************)
EXTENDS Integers, SequencesExt

CONSTANTS MaxCommands, \* bound on the number of runs
          MaxHistory   \* pr_code_suggestions.max_history_len

\* Where it is 0, earlier comments are not looked for.
ASSUME HistoryAssumption == MaxHistory \in Nat \ {0}

VARIABLES
  conversation, \* comments: [at, owner, kind, tables], in the order of "at"
  commands,     \* commands[r]: [tool, auto, st], the run of a command
  mishaps,      \* what has gone wrong: "api", a request to the git provider;
                \* "empty", a run that had nothing to suggest
  clock         \* steps so far; each creates one comment at most

talkVars == <<conversation, commands, mishaps, clock>>

(* A table is the answer of a run; tables[1] is the latest of the comment,
   the rest its history, newest first.  A table is dated if its comment names
   the commit it was made for: the title of a history entry that was not dated
   lacks "up to commit".  No table holds the tick that also changes a title. *)
Table(r, dated) == [by |-> r, dated |-> dated]
Comment(r, kind, tables) == [at |-> clock, owner |-> r, kind |-> kind, tables |-> tables]

Commenting == {"review", "improve", "kenny"}

-----------------------------------------------------------------------------
(* Deliberate faults: each replaces the operator it is named after.        *)

FaultFoundReview == {}
FaultFolded(r, c) == <<Table(r, TRUE)>> \o Tail(c.tables)

-----------------------------------------------------------------------------
(* The primitives of the git provider.                                     *)

Rewritten(c, kind, tables) == [c EXCEPT !.kind = kind, !.tables = tables]
Edited(cs, which, kind, tables) == {IF c \in which THEN Rewritten(c, kind, tables) ELSE c : c \in cs}

Oldest(cs) == {c \in cs : \A d \in cs : c.at =< d.at}

\* What a run has announced itself with: remove_comment, remove_initial_comment.
Announcement(r, kind) == {c \in conversation : c.owner = r /\ c.kind = kind}
Progress(r) == Announcement(r, "progress")

\* What the body of a comment starts with: summary_comment puts KENNY_MARKER
\* before the header that its comment is looked for by.
Starts(c) == CASE c.kind = "review" -> "ReviewerGuide"
               [] c.kind = "suggestions" -> "CodeSuggestions"
               [] c.kind = "kenny" -> "KENNY_MARKER"
               [] OTHER -> "text"

Found(header) == {c \in conversation : Starts(c) = header}
FoundReview == Found("ReviewerGuide")
FoundSuggestions == Found("CodeSuggestions")
FoundKenny == Found("KennyReviewerGuide")
WithTable == {c \in FoundSuggestions : c.tables # <<>>}

Concluded(r) == commands' = [commands EXCEPT ![r].st = "ended"] /\ clock' = clock + 1
Running(r, tool) == r \in DOMAIN commands /\ commands[r].tool = tool /\ commands[r].st = "running"

-----------------------------------------------------------------------------
(* Starting a run.                                                         *)

Placeholder(tool) == IF tool = "review" THEN "temporary" ELSE "progress"

\* A command that was not triggered automatically announces itself.
Command(tool, auto) ==
  LET r == Len(commands) + 1
  IN /\ Len(commands) < MaxCommands /\ (tool = "kenny" => ~auto)
     /\ commands' = Append(commands, [tool |-> tool, auto |-> auto, st |-> "running"])
     /\ conversation' = IF auto \/ tool = "kenny" THEN conversation
                        ELSE conversation \cup {Comment(r, Placeholder(tool), <<>>)}
     /\ clock' = clock + 1 /\ UNCHANGED mishaps

-----------------------------------------------------------------------------
(* /review: publish_persistent_comment_full.                               *)

\* Rewrites the first comment found, or creates one.
Persisted(r, found) ==
  IF found = {} THEN conversation \cup {Comment(r, "review", <<Table(r, TRUE)>>)}
  ELSE Edited(conversation, Oldest(found), "review", <<Table(r, TRUE)>>) \cup {Comment(r, "notice", <<>>)}

ReviewDone(r) ==
  /\ Running(r, "review")
  /\ conversation' = Persisted(r, FoundReview) \ Announcement(r, "temporary")
  /\ Concluded(r) /\ UNCHANGED mishaps

\* The comments cannot be listed: a new one is published.
ReviewListFails(r) ==
  /\ Running(r, "review")
  /\ conversation' = Persisted(r, {}) \ Announcement(r, "temporary")
  /\ mishaps' = mishaps \cup {"api"}
  /\ Concluded(r)

\* edit_comment swallows the failure; the notice is published all the same.
ReviewEditFails(r) ==
  /\ Running(r, "review") /\ FoundReview # {}
  /\ conversation' = (conversation \cup {Comment(r, "notice", <<>>)}) \ Announcement(r, "temporary")
  /\ mishaps' = mishaps \cup {"api"}
  /\ Concluded(r)

\* An empty prediction removes the announcement.
ReviewEmpty(r) ==
  /\ Running(r, "review")
  /\ conversation' = conversation \ Announcement(r, "temporary")
  /\ Concluded(r) /\ UNCHANGED mishaps

\* A failure, or a review without major issues that is not to be published,
\* leaves it.
ReviewAbandoned(r) ==
  /\ Running(r, "review")
  /\ Concluded(r) /\ UNCHANGED <<conversation, mishaps>>

-----------------------------------------------------------------------------
(* /improve: publish_persistent_comment_with_history.                      *)

\* Enforcement of max_previous_comments on the history of a comment: the
\* text is cut at the last title with "up to commit", if there is one.
Trimmed(h) ==
  LET titled == {i \in DOMAIN h : h[i].dated}
  IN IF Len(h) >= MaxHistory /\ titled # {} THEN SubSeq(h, 1, Max(titled) - 1) ELSE h

Folded(r, c) == <<Table(r, TRUE), c.tables[1]>> \o Trimmed(Tail(c.tables))

\* A found comment without a table is given the new one and the search goes
\* on; the first with a table is folded into the new comment and ends it.
Overwritten(r) ==
  Edited(conversation, {c \in FoundSuggestions \ WithTable : \A d \in WithTable : c.at < d.at},
         "suggestions", <<Table(r, FALSE)>>)

Published(cs, r, tables) ==
  IF Progress(r) # {} THEN Edited(cs, Progress(r), "suggestions", tables)
                      ELSE cs \cup {Comment(r, "suggestions", tables)}

ImproveDone(r) ==
  /\ Running(r, "improve")
  /\ \/ WithTable = {} /\ conversation' = Published(Overwritten(r), r, <<Table(r, TRUE)>>)
     \/ \E c \in Oldest(WithTable) :
          conversation' = IF Progress(r) = {} THEN Edited(Overwritten(r), {c}, "suggestions", Folded(r, c))
                          ELSE Published(Overwritten(r), r, Folded(r, c)) \ {c}
  /\ Concluded(r) /\ UNCHANGED mishaps

\* The edit of the progress comment fails unseen; the old comment is removed.
ImproveEditFails(r) ==
  /\ Running(r, "improve") /\ WithTable # {} /\ Progress(r) # {}
  /\ conversation' = Overwritten(r) \ Oldest(WithTable)
  /\ mishaps' = mishaps \cup {"api"}
  /\ Concluded(r)

\* The removal of the old comment fails unseen: its tables are there twice.
ImproveRemoveFails(r) ==
  /\ Running(r, "improve") /\ Progress(r) # {}
  /\ \E c \in Oldest(WithTable) : conversation' = Published(Overwritten(r), r, Folded(r, c))
  /\ mishaps' = mishaps \cup {"api"}
  /\ Concluded(r)

\* The comments cannot be listed: the table is published without history.
ImproveListFails(r) ==
  /\ Running(r, "improve")
  /\ conversation' = Published(conversation, r, <<Table(r, TRUE)>>)
  /\ mishaps' = mishaps \cup {"api"}
  /\ Concluded(r)

\* publish_no_suggestions uses the same header and has no table.
ImproveEmpty(r) ==
  /\ Running(r, "improve")
  /\ conversation' = Published(conversation, r, <<>>)
  /\ mishaps' = mishaps \cup {"empty"}
  /\ Concluded(r)

\* The exception handler.
ImproveFails(r) ==
  /\ Running(r, "improve")
  /\ conversation' = IF Progress(r) # {} THEN conversation \ Progress(r)
                     ELSE conversation \cup {Comment(r, "notice", <<>>)}
  /\ Concluded(r) /\ UNCHANGED mishaps

-----------------------------------------------------------------------------
(* Kenny: publish_review.                                                  *)

KennyDone(r) ==
  /\ Running(r, "kenny")
  /\ conversation' = IF FoundKenny = {} THEN conversation \cup {Comment(r, "kenny", <<Table(r, TRUE)>>)}
                     ELSE Edited(conversation, Oldest(FoundKenny), "kenny", <<Table(r, TRUE)>>)
  /\ Concluded(r) /\ UNCHANGED mishaps

-----------------------------------------------------------------------------
TalkInit == conversation = {} /\ commands = <<>> /\ mishaps = {} /\ clock = 0

TalkNext ==
  \/ \E tool \in Commenting, auto \in BOOLEAN : Command(tool, auto)
  \/ \E r \in DOMAIN commands :
       \/ ReviewDone(r) \/ ReviewListFails(r) \/ ReviewEditFails(r)
       \/ ReviewEmpty(r) \/ ReviewAbandoned(r)
       \/ ImproveDone(r) \/ ImproveEditFails(r) \/ ImproveRemoveFails(r)
       \/ ImproveListFails(r) \/ ImproveEmpty(r) \/ ImproveFails(r)
       \/ KennyDone(r)

TalkSpec == TalkInit /\ [][TalkNext]_talkVars

-----------------------------------------------------------------------------
(* Properties.                                                             *)

Single(kind) == \A c, d \in conversation : c.kind = kind /\ d.kind = kind => c = d

\* While requests succeed there is one reviewer guide, however many reviews
\* overlap; and one suggestions comment, if no run had nothing to suggest
\* (review.md:58, improve.md:317).
OneCommentEach ==
  /\ "api" \notin mishaps => Single("review")
  /\ mishaps = {} => Single("suggestions")

\* No comment keeps more previous tables than max_history_len
\* (pr_code_suggestions.py:322).
HistoryEnforced == \A c \in conversation : Len(c.tables) =< MaxHistory + 1

\* That is so while every run of /improve had something to suggest.
HistoryBounded == "empty" \notin mishaps => HistoryEnforced

Suggested == {t.by : t \in UNION {Range(c.tables) : c \in {d \in conversation : d.kind = "suggestions"}}}
FullHistory == \E c \in conversation : Len(c.tables) >= MaxHistory + 1

\* A suggestion table leaves the conversation only for a full history, or
\* with an edit that failed; and a full history gives up its oldest table only
\* (pr_code_suggestions.py:326), if no run had nothing to suggest and no edit
\* failed.
NothingForgotten ==
  [][/\ Suggested \subseteq Suggested' \/ FullHistory \/ \E r \in DOMAIN commands : ImproveEditFails(r)
     /\ mishaps' = {} =>
          \A c \in WithTable : \A t \in Range(c.tables) : t.by \in Suggested' \/ t = Last(c.tables)]_talkVars

\* The announcement of a run is removed by that run only, and a run of /improve
\* that has ended leaves none, unless a request failed.
Placeholders ==
  /\ \A r \in DOMAIN commands :
       commands[r].st = "running" /\ ~commands[r].auto /\ commands[r].tool # "kenny" =>
         \E c \in conversation : c.owner = r /\ c.kind \in {"temporary", "progress"}
  /\ "api" \notin mishaps =>
       \A c \in conversation : c.kind = "progress" => commands[c.owner].st = "running"

\* However runs overlap, the conversation holds one answer of each tool, with
\* as much of the past as it may, and an announcement for what is under way.
Tidy == OneCommentEach /\ HistoryBounded /\ Placeholders

-----------------------------------------------------------------------------
(* What makes them hold.                                                   *)

CommandRecords == [tool : Commenting, auto : BOOLEAN, st : {"running", "ended"}]
Tables == [by : Nat, dated : BOOLEAN]
CommentRecords ==
  [at : Nat, owner : Nat, kind : {"temporary", "progress", "review", "notice", "suggestions", "kenny"},
   tables : Seq(Tables)]

\* The values the variables take; two comments differ by their time.
TalkTypeOK ==
  /\ commands \in Seq(CommandRecords) /\ mishaps \subseteq {"api", "empty"} /\ clock \in Nat
  /\ conversation \subseteq CommentRecords
  /\ \A c \in conversation : c.at < clock /\ c.owner \in DOMAIN commands
  /\ \A c, d \in conversation : c.at = d.at => c = d

\* A run announces itself once, as its tool does.
OneAnnouncement ==
  /\ \A c \in conversation :
       c.kind \in {"temporary", "progress"} =>
         commands[c.owner].tool # "kenny" /\ c.kind = Placeholder(commands[c.owner].tool)
  /\ \A c, d \in conversation :
       c.owner = d.owner /\ c.kind \in {"temporary", "progress"} /\ d.kind = c.kind => c = d

\* Only suggestions have a history, and while every run had some to make, each
\* of their tables is dated.
Dated ==
  \A c \in conversation :
    /\ c.kind # "suggestions" => Len(c.tables) =< 1
    /\ c.kind = "suggestions" /\ "empty" \notin mishaps =>
         c.tables # <<>> /\ \A i \in DOMAIN c.tables : c.tables[i].dated

TalkInv == TalkTypeOK /\ OneAnnouncement /\ Dated /\ Tidy
=============================================================================
