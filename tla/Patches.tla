------------------------------ MODULE Patches ------------------------------
(***************************************************************************)
(* What becomes of the patch of a file on its way to the model and of the  *)
(* model's lines on their way back: hunks are extended with lines of the   *)
(* file, or dropped if they only delete, their lines are numbered, and a   *)
(* line of the new file is looked up in the patch to comment on it or to   *)
(* answer a question about it.                                             *)
(***************************************************************************)
EXTENDS Integers, Sequences, FiniteSets, FiniteSetsExt, Subsequences

CONSTANTS
  Diffs,     \* diffs of a file: sequences of <<sign, content>>
  Context,   \* lines of context the host puts around a change
  Befores,   \* patch_extra_lines_before
  Afters,    \* patch_extra_lines_after
  Dynamics   \* max_extra_lines_before_dynamic_context, 0 if it is not allowed

\* A line that is the same in both files, was removed or was added.
DiffLine == {"=", "-", "+"} \X STRING

ASSUME PatchAssumption ==
  /\ Diffs \subseteq Seq(DiffLine)
  /\ Context \in Nat \ {0} /\ Befores \subseteq Nat /\ Afters \subseteq Nat /\ Dynamics \subseteq Nat

\* A line git names in a hunk's header, and one that says what decouple takes
\* for git's remark on the end of the file.
Heading == "def"
Remark == "no newline at end of file"
NoHeading == ""

VARIABLES
  diff,       \* what has changed
  unended,    \* lines of the diff at which a file ends without a newline
  original, new,  \* base_file and head_file as they were loaded, <<>> if not
  before, after, dynamic,
  path,       \* "extended" or "compressed"
  hunks, shown,  \* hunks left, hunks of the patch the model is shown
  kept        \* compressed: temp_hunk, the hunks not decided on

patchVars == <<diff, unended, original, new, before, after, dynamic, path, hunks, shown, kept>>

-----------------------------------------------------------------------------
(* Deliberate faults: each replaces the operator it is named after.        *)

FaultCommon(o, n) == IF o = <<>> THEN {} ELSE {0}
FaultCounts(line) == TRUE

-----------------------------------------------------------------------------
(* Files and hunks. A hunk [s1, n1, s2, n2, omits, heading, lines, ends] is *)
(* a header "@@ -s1,n1 +s2,n2 @@ heading" that omits some counts, and the  *)
(* lines below it, git's remark standing below those of "ends".            *)

TextOf(lines) == [i \in DOMAIN lines |-> lines[i][2]]
Without(lines, sign) == Picked(lines, {i \in DOMAIN lines : lines[i][1] # sign})
OldSide(lines) == Without(lines, "+")
NewSide(lines) == Without(lines, "-")
OldFile(d) == TextOf(OldSide(d))
NewFile(d) == TextOf(NewSide(d))

\* Lines a to b of a file, as far as there are any.
Slice(file, a, b) == SubSeq(file, a, IF b < Len(file) THEN b ELSE Len(file))
From(s, i) == SubSeq(s, i + 1, Len(s))
Larger(a, b) == IF a > b THEN a ELSE b

\* Where a file may end without a newline: its last line, which is the diff's
\* last, or is followed by changes of the other side only.
LastLines(d) == {i \in DOMAIN d : \A j \in i + 1 .. Len(d) : {d[i][1], d[j][1]} = {"-", "+"}}

\* The hunks of a diff, as git makes them (external): a count of one is omitted.
HunkAt(d, a, b) ==
  LET above == SubSeq(d, 1, a - 1)
      here == SubSeq(d, a, b)
      start(n, m) == IF m = 0 THEN n ELSE n + 1
      headings == {i \in DOMAIN above : above[i] \in {<<"=", Heading>>, <<"-", Heading>>}}
  IN [s1 |-> start(Len(OldSide(above)), Len(OldSide(here))), n1 |-> Len(OldSide(here)),
      s2 |-> start(Len(NewSide(above)), Len(NewSide(here))), n2 |-> Len(NewSide(here)),
      omits |-> {x \in {"old", "new"} : Len(IF x = "old" THEN OldSide(here) ELSE NewSide(here)) = 1},
      heading |-> IF headings = {} THEN NoHeading ELSE Heading, lines |-> here,
      ends |-> IF b = Len(d) THEN {i \in DOMAIN here : a + i - 1 \in unended} ELSE {}]

Near(d, i) == \E c \in DOMAIN d : d[c][1] # "=" /\ i - c \in -Context .. Context
FirstLines(d) == {i \in DOMAIN d : Near(d, i) /\ ~(i > 1 /\ Near(d, i - 1))}
LastLine(d, i) ==
  CHOOSE j \in i .. Len(d) : (\A k \in i .. j : Near(d, k)) /\ (j = Len(d) \/ ~Near(d, j + 1))

Hunks(d) == [n \in 1 .. Cardinality(FirstLines(d)) |->
               LET first == Ascending(FirstLines(d))[n] IN HunkAt(d, first, LastLine(d, first))]

-----------------------------------------------------------------------------
(* extend_patch.                                                           *)

\* extract_hunk_headers: an omitted count is read as 0.
Parsed(h) == [h EXCEPT !.n1 = IF "old" \in h.omits THEN 0 ELSE @, !.n2 = IF "new" \in h.omits THEN 0 ELSE @]

\* check_if_hunk_lines_matches_to_file
Matches(h) ==
  h.lines[1][1] = "=" => h.s1 \in DOMAIN original /\ h.lines[1][2] = original[h.s1]

\* _calc_context_limits
Limits(h, lines) ==
  LET e1 == Larger(1, h.s1 - lines)
      e2 == Larger(1, h.s2 - lines)
      x1 == h.n1 + (h.s1 - e1) + after
      x2 == h.n2 + (h.s2 - e2) + after
      beyond == Larger(0, e1 - 1 + x1 - Len(original))
  IN [h EXCEPT !.s1 = e1, !.n1 = IF beyond > 0 THEN Larger(x1 - beyond, h.n1) ELSE x1,
               !.s2 = e2, !.n2 = IF beyond > 0 THEN Larger(x2 - beyond, h.n2) ELSE x2]

Shifted(x, i) == [x EXCEPT !.s1 = @ + i, !.n1 = @ - i, !.s2 = @ + i, !.n2 = @ - i]

\* What stands above hunk h in either file, from where x begins.
AboveOld(h, x) == Slice(original, x.s1, h.s1 - 1)
AboveNew(h, x) == Slice(new, x.s2, h.s2 - 1)

\* The header's function is looked for above the hunk, and the hunk begins
\* there if the files are the same from there on.
Enclosing(h) ==
  LET x == Limits(h, dynamic)
      o == AboveOld(h, x)
      found == {i \in DOMAIN o : h.heading \in {o[i], NoHeading}}
  IN IF dynamic > 0 /\ new # <<>> /\ found # {}
        /\ From(o, Min(found) - 1) = From(AboveNew(h, x), Min(found) - 1)
     THEN [Shifted(x, Min(found) - 1) EXCEPT !.heading = NoHeading]
     ELSE Limits(h, before)

\* Where the lines above the hunk begin to be the same in both files.
Common(o, n) == {i \in 0 .. Len(o) - 1 : From(o, i) = From(n, i)}

Extended(h) ==
  LET x == Enclosing(h)
      o == AboveOld(h, x)
      n == AboveNew(h, x)
      y == IF new = <<>> \/ o = n THEN x
           ELSE IF Common(o, n) = {} THEN h ELSE Shifted(x, Min(Common(o, n)))
      extra == AboveOld(h, y)
  IN [y EXCEPT !.heading = IF dynamic = 0 /\ \E i \in DOMAIN extra : extra[i] = @ THEN NoHeading ELSE @,
               !.lines = [i \in DOMAIN extra |-> <<"=", extra[i]>>] \o @]

\* The lines below a hunk are put there when it is left.
Below(h) == LET extra == Slice(original, h.s1 + h.n1, h.s1 + h.n1 + after - 1)
            IN [i \in DOMAIN extra |-> <<"=", extra[i]>>]

Extends == original # <<>> /\ (before > 0 \/ after > 0)

ExtendHunk ==
  /\ path = "extended" /\ hunks # <<>>
  /\ LET h == Parsed(Head(hunks))
     IN shown' = Append(shown, IF ~Extends THEN Head(hunks)
                           ELSE IF Matches(h) THEN [Extended(h) EXCEPT !.lines = @ \o Below(h)] ELSE h)
  /\ hunks' = Tail(hunks)
  /\ UNCHANGED <<diff, unended, original, new, before, after, dynamic, path, kept>>

-----------------------------------------------------------------------------
(* omit_deletion_hunks: hunks are collected up to one that adds.           *)

Adds(h) == \E i \in DOMAIN h.lines : h.lines[i][1] = "+"

OmitHunk ==
  /\ path = "compressed" /\ hunks # <<>>
  /\ LET h == Head(hunks)
     IN IF Adds(h) THEN shown' = shown \o Append(kept, h) /\ kept' = <<>>
        ELSE kept' = Append(kept, h) /\ UNCHANGED shown
  /\ hunks' = Tail(hunks)
  /\ UNCHANGED <<diff, unended, original, new, before, after, dynamic, path>>

-----------------------------------------------------------------------------
(* Numbers.                                                                *)

\* Git's remark is passed over, and so is what looks like it.
Unremarked(lines) == Picked(lines, {i \in DOMAIN lines : lines[i][2] # Remark})

\* decouple_and_convert_to_hunks_with_lines_numbers: the lines of __new hunk__;
\* the last hunk is left out if it has none.
NumberedLines(h) ==
  LET lines == NewSide(Unremarked(h.lines))
  IN {<<h.s2 + i - 1, lines[i][2]>> : i \in DOMAIN lines}

\* Lines that move to the next line of the new file.
Counts(line) == line[1] # "-"
Counting(lines) == {j \in DOMAIN lines : Counts(lines[j])}
Counted(lines, i) == Cardinality({j \in Counting(lines) : j <= i})

\* find_line_number_of_relevant_line_in_file, given a line's number: the first
\* line of the patch that has it. <<hunk, 0, 0>> is the hunk's header, and
\* <<hunk, i, 1>> git's remark below line i, which counts; a header that omits
\* a count raises, and no line is found from there on.
Delta(h, i, m) == Counted(h.lines, i) + Cardinality({e \in h.ends : e < i}) + m
Positions(hs, number) ==
  {p \in UNION {{k} \X (0 .. Len(hs[k].lines)) \X {0, 1} : k \in DOMAIN hs} :
     /\ p[3] = 1 => p[2] \in hs[p[1]].ends
     /\ hs[p[1]].s2 + Delta(hs[p[1]], p[2], p[3]) - 1 = number
     /\ \A j \in 1 .. p[1] : hs[j].omits = {}}
Earlier(p, q) == p[1] < q[1] \/ (p[1] = q[1] /\ (p[2] < q[2] \/ (p[2] = q[2] /\ p[3] <= q[3])))
Position(hs, number) ==
  LET all == Positions(hs, number)
  IN IF all = {} THEN <<0, 0, 0>> ELSE CHOOSE p \in all : \A q \in all : Earlier(p, q)

\* extract_hunk_lines_from_patch on the right side: the hunks a range of lines
\* may begin in, and the lines selected from one.
Holds(h, a) == a \in h.s2 .. h.s2 + Parsed(h).n2
Selected(h, a, b) ==
  LET lines == Unremarked(h.lines)
      taken == {i \in DOMAIN lines : h.s2 + Rank(Counting(lines), i) \in a .. b}
  IN IF Holds(h, a) THEN Picked(lines, taken) ELSE <<>>

-----------------------------------------------------------------------------
\* Either content may not have been loaded, and the original may be that of
\* another commit.
PatchInit ==
  /\ diff \in Diffs /\ unended \in SUBSET LastLines(diff)
  /\ original \in {<<>>, OldFile(diff)} \cup IF OldFile(diff) = <<>> THEN {} ELSE {<<Heading>> \o OldFile(diff)}
  /\ new \in {<<>>, NewFile(diff)}
  /\ path \in {"extended", "compressed"}
  /\ IF path = "extended" THEN before \in Befores /\ after \in Afters /\ dynamic \in Dynamics
     ELSE before = 0 /\ after = 0 /\ dynamic = 0
  /\ hunks = Hunks(diff) /\ shown = <<>> /\ kept = <<>>

PatchNext == ExtendHunk \/ OmitHunk

PatchSpec == PatchInit /\ [][PatchNext]_patchVars

-----------------------------------------------------------------------------
(* Properties.                                                             *)

\* What is put below a hunk whose header omits the old file's count begins with
\* the hunk's own line again: so much of its end is not sure.
Unsure(h) == IF "old" \in h.omits THEN after ELSE 0

\* The number before a line the model is shown is that of the line in the new
\* file; suggestions are placed by it. Both files have been loaded, the
\* original from the commit that was compared, no line says what only git
\* should ("no newline at end of file", git_patch_processing.py:343), and no more
\* lines are put after a hunk than are sure to be the same in both files.
NumbersAreTrue ==
  original = OldFile(diff) /\ new = NewFile(diff) /\ (\A i \in DOMAIN new : new[i] # Remark)
  /\ after <= Context + 1 =>
    \A k \in DOMAIN shown : \A l \in NumberedLines(shown[k]) :
      l[1] < shown[k].s2 + Len(NewSide(shown[k].lines)) - Unsure(shown[k]) =>
        l[1] \in DOMAIN new /\ new[l[1]] = l[2]

\* Lines of a hunk above which the scan has met neither a header without a count
\* nor git's remark.
Reached(hs, k, a) ==
  /\ \A j \in 1 .. k : hs[j].omits = {}
  /\ \A e \in hs[k].ends : a < hs[k].s2 + Counted(hs[k].lines, e)

\* A line of the new file that the patch shows is found in it, if the scan gets
\* there, and a question about a range of lines is asked with exactly these,
\* whatever counts the headers omit, if none looks like a remark.
LinesAreFound ==
  LET hs == Hunks(diff)
      file == NewFile(diff)
  IN \A k \in DOMAIN hs : \A a \in hs[k].s2 .. hs[k].s2 + hs[k].n2 - 1 :
       /\ Reached(hs, k, a) =>
            LET p == Position(hs, a)
            IN p[1] = k /\ p[2] > 0 /\ p[3] = 0
               /\ hs[k].lines[p[2]][1] # "-" /\ hs[k].lines[p[2]][2] = file[a]
       /\ (\A i \in DOMAIN file : file[i] # Remark) =>
            \A b \in a .. hs[k].s2 + hs[k].n2 - 1 :
              TextOf(NewSide(Selected(hs[k], a, b))) = SubSeq(file, a, b)

\* Deletion hunks are omitted ("remove deletion hunks from a patch file",
\* tests/unittest/test_delete_hunks.py:9).
DeletionsOmitted == path = "compressed" => \A k \in DOMAIN shown : Adds(shown[k])
=============================================================================
