------------------------------ MODULE Describe ------------------------------
(***************************************************************************)
(* The walkthrough of a pull request's files that /describe writes         *)
(* (tools/pr_description.py): one prediction when the diff fits, or one    *)
(* per chunk, in sequence or at once, and one for the headers; files that  *)
(* no prediction names are added up to a limit; each remaining entry is    *)
(* one row of a table in the description or in place of a marker.          *)
(***************************************************************************)
EXTENDS Integers, FiniteSets

CONSTANTS
  MaxFiles,   \* bound on the files of a pull request
  MaxChunks,  \* bound on the prompts they are packed into
  MaxModels,  \* bound on the models of the fallback list
  MaxExtra,   \* MAX_EXTRA_FILES_TO_OUTPUT
  Threshold   \* pr_description.collapsible_file_list_threshold

ASSUME DescribeBounds ==
  MaxFiles \in Nat /\ MaxChunks \in Nat \ {0} /\ MaxModels \in Nat /\ MaxExtra \in Nat /\ Threshold \in Int

VARIABLES
  number,      \* the files of the diff are 1..number, in its order
  config,      \* [async, semantic, marker]: the settings that matter
  place,       \* place[f]: the chunk of a file; 0 if it has not been packed
  whole,       \* the diff fits in one prompt
  model,       \* the model of the present attempt
  results,     \* results[c]: what the present attempt has of a chunk
  progress,    \* predict, head, render, done, failed
  fileLabels,  \* file_label_dict: entries of the table
  table,       \* files with a row; 0 is "Additional files not shown"
  broken       \* what rendered the table has raised (not in the code)

describeVars == <<number, config, place, whole, model, results, progress, fileLabels, table, broken>>

AllFiles == 1 .. number
Ellipsis == 0

-----------------------------------------------------------------------------
(* Deliberate faults: each replaces the operator it is named after.        *)

FaultExtras(named) == [shown |-> {f \in AllFiles \ named : Cardinality({g \in AllFiles \ named : g <= f}) < MaxExtra},
                       more |-> Cardinality(AllFiles \ named) > MaxExtra]

-----------------------------------------------------------------------------
(* What the predictions say.                                               *)

\* An entry names a file; it may lack its summary, or be incomplete: lack its
\* title or its label, as when the answer is cut off.
FileEntry(f, summary, complete) == [file |-> f, summary |-> summary, complete |-> complete]
\* The chunks a model is asked about; in sequence, one that is empty too.
Asked == {c \in 1 .. MaxChunks : \E f \in AllFiles : place[f] = c}
Of(c) == IF whole THEN AllFiles ELSE {f \in AllFiles : place[f] = c}
Calls == IF whole THEN {1} ELSE Asked

\* What a model may say of a chunk: entries for some of its files, the first of
\* them wanting something, or one more cut off before its filename's value; or
\* nothing that can be loaded.
Says(c) ==
  {[told |-> TRUE, valid |-> FALSE, cut |-> FALSE, entries |-> {}]}
  \cup {[told |-> TRUE, valid |-> TRUE, cut |-> wants = "filename",
         entries |-> {FileEntry(f, f # 1 \/ wants # "summary", f # 1 \/ wants # "title") : f \in named}] :
           named \in SUBSET Of(c), wants \in {"nothing", "summary", "title", "filename"}}

Pending == [told |-> FALSE, valid |-> FALSE, cut |-> FALSE, entries |-> {}]
Answering == {c \in Calls : results[c].valid}
Walkthrough == UNION {results[c].entries : c \in Answering}
CutOff == \E c \in Answering : results[c].cut

-----------------------------------------------------------------------------
(* The entries of a walkthrough.                                           *)

\* Files that the predictions do not name: the first MaxExtra of them, and
\* whether there are more.
Extras(named) ==
  [shown |-> {f \in AllFiles \ named : Cardinality({g \in AllFiles \ named : g <= f}) <= MaxExtra},
   more |-> Cardinality(AllFiles \ named) > MaxExtra]

\* What of the predictions can be loaded: chunks only through their entries.
Loads == IF whole THEN results[1].valid ELSE Walkthrough # {}

\* extend_uncovered_files: entries without a summary; what cannot be loaded is
\* left as it is, and so is all if some filename has no value, which raises. A
\* file counts as covered whatever else its entry lacks.
Extend(entries) ==
  LET extra == Extras({e.file : e \in entries})
  IN IF ~Loads \/ CutOff THEN entries
     ELSE entries \cup {FileEntry(f, FALSE, TRUE) : f \in extra.shown}
            \cup IF extra.more THEN {FileEntry(Ellipsis, FALSE, TRUE)} ELSE {}

\* _prepare_file_labels skips an incomplete entry, and one without a summary when
\* the prompt has asked for summaries, which it does for a small pull request.
AsksForSummaries == number <= Threshold
FileLabels(entries) == {e \in entries : e.complete /\ (e.summary \/ ~AsksForSummaries)}

-----------------------------------------------------------------------------
(* A run.                                                                  *)

\* One call returns; calls made in sequence return in sequence.
Predict(c) ==
  /\ progress = "predict" /\ c \in Calls /\ results[c] = Pending
  /\ whole \/ config.async \/ \A b \in Calls : b < c => results[b] # Pending
  /\ \E says \in Says(c) : results' = [results EXCEPT ![c] = says]
  /\ UNCHANGED <<number, config, place, whole, model, progress, fileLabels, table, broken>>

\* One call raises: the attempt is over, whatever the others say, and the next
\* model starts from nothing.
AttemptFails ==
  /\ progress \in {"predict", "head"}
  /\ IF model < MaxModels THEN model' = model + 1 /\ progress' = "predict" ELSE progress' = "failed" /\ UNCHANGED model
  /\ results' = [c \in 1 .. MaxChunks |-> Pending]
  /\ UNCHANGED <<number, config, place, whole, fileLabels, table, broken>>

\* gather() has everything; a diff in chunks takes one more call for the title
\* and the summary.
Gathered ==
  /\ progress = "predict" /\ \A c \in Calls : results[c] # Pending
  /\ progress' = IF whole THEN "label" ELSE "head"
  /\ UNCHANGED <<number, config, place, whole, model, results, fileLabels, table, broken>>

\* What the headers' call returns is put before the walkthrough; only the
\* headers are kept if the two do not load together.
Headers ==
  /\ progress = "head"
  /\ \E loads \in BOOLEAN : progress' = IF loads THEN "label" ELSE "headers"
  /\ UNCHANGED <<number, config, place, whole, model, results, fileLabels, table, broken>>

\* run() after the prediction: without semantic file types nothing is listed.
LabelFiles ==
  /\ progress \in {"label", "headers"}
  /\ fileLabels' = IF progress = "headers" \/ ~config.semantic THEN {}
               ELSE FileLabels(Extend(Walkthrough))
  /\ progress' = "render"
  /\ UNCHANGED <<number, config, place, whole, model, results, table, broken>>

\* A marker of the description is replaced by the table, one inside a comment
\* stays; without markers the table is appended.
TableReplaces == config.marker = "plain"
TableFollows == config.marker = "none"
Placed == TableReplaces \/ TableFollows

\* Rows are written until one raises, which is logged: the rest is missing.
Render ==
  /\ progress = "render"
  /\ \E rows \in IF Placed THEN {fileLabels} \cup {fileLabels \ {e} : e \in fileLabels} \cup {{}} ELSE {{}} :
       /\ table' = {e.file : e \in rows}
       /\ broken' = (Placed /\ rows # fileLabels)
  /\ progress' = "done"
  /\ UNCHANGED <<number, config, place, whole, model, results, fileLabels>>

DescribeInit ==
  /\ number \in 1 .. MaxFiles
  /\ config \in [async : BOOLEAN, semantic : BOOLEAN, marker : {"none", "plain", "commented"}]
  /\ place \in [1 .. number -> 0 .. MaxChunks]
  /\ \A c \in 2 .. MaxChunks : (\E f \in 1 .. number : place[f] = c) => \E f \in 1 .. number : place[f] = c - 1
  /\ whole \in BOOLEAN /\ (whole => \A f \in 1 .. number : place[f] = 1)
  /\ model = 1 /\ results = [c \in 1 .. MaxChunks |-> Pending]
  /\ progress = "predict" /\ fileLabels = {} /\ table = {} /\ broken = FALSE

DescribeNext == (\E c \in 1 .. MaxChunks : Predict(c)) \/ AttemptFails \/ Gathered \/ Headers \/ LabelFiles \/ Render

DescribeSpec == DescribeInit /\ [][DescribeNext]_describeVars

-----------------------------------------------------------------------------
(* Properties.                                                             *)

\* Files that a prediction names in an entry that is skipped.
LeftOut == {e.file : e \in {x \in Walkthrough : ~x.complete}}

\* A walkthrough names every changed file but those of incomplete entries, or
\* says that there are more, unless some filename had no value: "extend the
\* prediction with additional files not shown" (pr_description.py:226).
NamesAll ==
  progress = "done" /\ table # {} /\ ~broken =>
    AllFiles \subseteq table \cup LeftOut \/ Ellipsis \in table \/ CutOff

\* It does for a pull request with more files than the threshold.
LargeAreComplete == number > Threshold => NamesAll

\* "... and more" is only said when the table is full.
EllipsisIsEarned ==
  Ellipsis \in table /\ ~broken => Cardinality(table \ {Ellipsis}) >= MaxExtra

\* What the table says of its files, or of their being more, is true.
WalkthroughIsTrue == LargeAreComplete /\ EllipsisIsEarned
=============================================================================
