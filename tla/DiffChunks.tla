----------------------------- MODULE DiffChunks -----------------------------
(***************************************************************************)
(* How the diff of a pull request is split over model calls: the whole     *)
(* extended diff if it fits, else compressed patches packed into chunks    *)
(* within a token budget.  Three packers share the code: get_pr_diff       *)
(* ("single"), get_pr_multi_diffs of /improve ("multi"), and the rounds of *)
(* /describe on a large pull request ("large", and with the prompt for     *)
(* files only, "files").  A step handles one file.                         *)
(***************************************************************************)
EXTENDS Integers, Sequences

CONSTANTS
  PullRequests, \* the files of a pull request, in the order they are packed
  Prompts,      \* tokens of the prompt without the diff
  FilesPrompt,  \* tokens of the prompt for files only
  Limit,        \* get_max_tokens(model)
  Soft, Hard,   \* OUTPUT_BUFFER_TOKENS_SOFT_THRESHOLD, .._HARD_THRESHOLD
  ListTokens,   \* delta_tokens: room asked for to list the other files
  MaxCalls      \* max_number_of_calls; max_ai_calls - 1

(* A file: full, tokens of its extended patch, 0 if there is none; tokens, of
   its compressed patch, 0 if it has none or only deletes; clipped, tokens of
   that patch when clipped, 0 if nothing is left; header, what its title adds. *)
File == [full : Nat, tokens : Nat, clipped : Nat, header : Nat]

ASSUME Sizes ==
  /\ PullRequests \subseteq Seq(File)
  /\ Prompts \subseteq Nat /\ FilesPrompt \in Nat
  /\ Limit \in Nat /\ ListTokens \in Nat /\ MaxCalls \in Nat \ {0}
  /\ Hard \in Nat /\ Soft \in Nat /\ Hard =< Soft

VARIABLES
  pr, packer, policy,  \* what is packed, by which code, large_patch_policy
  prompt,              \* token_handler.prompt_tokens
  phase,               \* "extend", "pack", "done"
  pos,                 \* the file the loop is at
  total, chunk,        \* tokens and files of the chunk being built
  chunks,              \* the finished ones, as [files, tokens]
  pending, left,       \* remaining_files_list, of the round before and of this
  calls,               \* call_number; the round
  named                \* files listed by their name only

vars == <<pr, packer, policy, prompt, phase, pos, total, chunk, chunks, pending, left, calls, named>>
input == <<pr, packer, policy, prompt>>

Files == DOMAIN pr
Text == {f \in Files : pr[f].tokens # 0}
Here == pr[pos]

-----------------------------------------------------------------------------
(* Deliberate faults: each replaces the operator it is named after.        *)

FaultSoftly(n) == n =< Limit - Hard
FaultNoRoom(n) == n > Limit - Soft
FaultNextTotal == total

-----------------------------------------------------------------------------
(* The whole diff, with extra lines of context.                            *)

Softly(n) == n =< Limit - Soft
NoRoom(n) == n > Limit - Hard

ExtendFile ==
  /\ phase = "extend" /\ pos \in Files
  /\ total' = total + Here.full
  /\ pos' = pos + 1
  /\ UNCHANGED <<input, phase, chunk, chunks, pending, left, calls, named>>

Whole == {f \in Files : pr[f].full # 0}
WholeFits == phase = "extend" /\ pos \notin Files /\ total + Soft < Limit

\* get_pr_multi_diffs returns no diff at all rather than an empty one.
ReturnWhole ==
  /\ WholeFits /\ (packer = "large" => Whole # {})
  /\ chunks' = IF packer = "multi" /\ Whole = {} THEN <<>>
               ELSE <<[files |-> Whole, tokens |-> total]>>
  /\ phase' = "done"
  /\ UNCHANGED <<input, pos, total, chunk, pending, left, calls, named>>

StartPacking ==
  /\ phase = "extend" /\ pos \notin Files
  /\ total + Soft >= Limit
  /\ phase' = "pack" /\ pos' = 1 /\ total' = prompt
  /\ UNCHANGED <<input, chunk, chunks, pending, left, calls, named>>

Pass == /\ pos' = pos + 1
        /\ UNCHANGED <<input, phase, chunks, pending, calls, named>>

Closed(c, n) == Append(chunks, [files |-> c, tokens |-> n])

-----------------------------------------------------------------------------
(* get_pr_multi_diffs.                                                     *)

\* Tokens of a patch after the policy for large ones; 0 if it is skipped.
Packed(f) ==
  IF Softly(prompt + f.tokens) THEN f.tokens
  ELSE IF policy = "clip" /\ Softly(prompt + f.clipped) THEN f.clipped ELSE 0

Packs == phase = "pack" /\ packer = "multi" /\ pos \in Files

SkipPatch == /\ Packs /\ Packed(Here) = 0
             /\ Pass /\ UNCHANGED <<total, chunk, left>>

AddPatch ==
  /\ Packs /\ Packed(Here) # 0 /\ Softly(total + Packed(Here))
  /\ total' = total + Packed(Here) /\ chunk' = chunk \cup {pos}
  /\ Pass /\ UNCHANGED left

LastCall(n) == n + 1 > MaxCalls

\* The chunk is closed; the patch opens the next one, if there may be one.
NextChunk ==
  /\ Packs /\ Packed(Here) # 0 /\ ~Softly(total + Packed(Here))
  /\ chunks' = Closed(chunk, total)
  /\ calls' = calls + 1
  /\ IF LastCall(calls)
     THEN phase' = "done" /\ chunk' = {} /\ total' = prompt /\ pos' = pos
     ELSE /\ phase' = phase /\ pos' = pos + 1
          /\ chunk' = {pos} /\ total' = prompt + Packed(Here)
  /\ UNCHANGED <<input, pending, left, named>>

LastChunk ==
  /\ phase = "pack" /\ packer = "multi" /\ pos \notin Files
  /\ chunks' = IF chunk = {} THEN chunks ELSE Closed(chunk, total)
  /\ phase' = "done"
  /\ UNCHANGED <<input, pos, total, chunk, pending, left, calls, named>>

-----------------------------------------------------------------------------
(* pr_generate_compressed_diff: rounds of generate_full_patch.             *)

Rounds == phase = "pack" /\ packer # "multi" /\ pos \in Files
InRound == Rounds /\ pos \in pending \cap Text

NotInRound == /\ Rounds /\ pos \notin pending \cap Text
              /\ Pass /\ UNCHANGED <<total, chunk, left>>

\* The hard stop drops the file: no later round will see it.
HardStop == /\ InRound /\ NoRoom(total)
            /\ Pass /\ UNCHANGED <<total, chunk, left>>

TooLarge == /\ InRound /\ ~NoRoom(total) /\ ~Softly(total + Here.tokens)
            /\ left' = left \cup {pos}
            /\ Pass /\ UNCHANGED <<total, chunk>>

AddFile ==
  /\ InRound /\ ~NoRoom(total) /\ Softly(total + Here.tokens)
  /\ total' = total + Here.tokens + Here.header
  /\ chunk' = chunk \cup {pos}
  /\ Pass /\ UNCHANGED left

\* The first round is kept even if it is empty.
RoundChunks == IF calls = 1 \/ chunk # {} THEN Closed(chunk, total) ELSE chunks

RoundOver == phase = "pack" /\ packer # "multi" /\ pos \notin Files
MoreRounds == packer # "single" /\ calls < MaxCalls /\ left # {}

ToPack(l) == l
NextTotal == prompt

NextRound ==
  /\ RoundOver /\ MoreRounds
  /\ chunks' = RoundChunks
  /\ pending' = ToPack(left) /\ left' = {}
  /\ pos' = 1 /\ total' = NextTotal /\ chunk' = {} /\ calls' = calls + 1
  /\ UNCHANGED <<input, phase, named>>

\* get_pr_diff lists the other files if there is room for it.
Named(tokens, shown) ==
  IF Limit - Hard - tokens > ListTokens THEN Text \ shown ELSE {}

NameOthers == Named(RoundChunks[1].tokens, RoundChunks[1].files)

\* get_pr_diff of a large pull request returns an empty text: on purpose if
\* there are more chunks than one, or because there is nothing to show.
NoText == Len(RoundChunks) > 1 \/ (RoundChunks[1].files = {} /\ NameOthers = {})

EndRounds ==
  /\ RoundOver /\ ~MoreRounds
  /\ packer = "large" => ~NoText
  /\ chunks' = RoundChunks
  /\ named' = IF packer = "files" THEN {} ELSE NameOthers
  /\ phase' = "done"
  /\ UNCHANGED <<input, pos, total, chunk, pending, left, calls>>

\* /describe takes an empty text for a large pull request, and splits again
\* for the prompt on files only.
SplitAgain ==
  /\ packer = "large"
  /\ (WholeFits /\ Whole = {}) \/ (RoundOver /\ ~MoreRounds /\ NoText)
  /\ packer' = "files" /\ prompt' = FilesPrompt /\ phase' = "pack"
  /\ pos' = 1 /\ total' = FilesPrompt /\ chunk' = {} /\ chunks' = <<>>
  /\ pending' = Files /\ left' = {} /\ calls' = 1
  /\ UNCHANGED <<pr, policy, named>>

-----------------------------------------------------------------------------
Init ==
  /\ pr \in PullRequests /\ packer \in {"single", "multi", "large"}
  /\ policy \in {"clip", "skip"} /\ prompt \in Prompts
  /\ phase = "extend" /\ pos = 1 /\ total = prompt
  /\ chunk = {} /\ chunks = <<>> /\ pending = Files /\ left = {}
  /\ calls = 1 /\ named = {}

Next == \/ ExtendFile \/ ReturnWhole \/ StartPacking
        \/ SkipPatch \/ AddPatch \/ NextChunk \/ LastChunk
        \/ NotInRound \/ HardStop \/ TooLarge \/ AddFile
        \/ NextRound \/ EndRounds \/ SplitAgain

Spec == Init /\ [][Next]_vars

-----------------------------------------------------------------------------
(* Properties.                                                             *)

InChunks == UNION {chunks[i].files : i \in DOMAIN chunks}
Shown == chunk \cup InChunks

\* A title never takes more than what lies between the two thresholds, and the
\* prompt alone leaves room.
Moderate == /\ \A f \in Files : pr[f].header =< Soft - Hard
            /\ prompt =< Limit - Hard

Fits(n) == n =< Limit - Soft

\* Types; the prompt is always counted.
TypeOK ==
  /\ pr \in PullRequests /\ packer \in {"single", "multi", "large", "files"}
  /\ policy \in {"clip", "skip"} /\ prompt \in Nat
  /\ phase \in {"extend", "pack", "done"}
  /\ pos \in Nat \ {0} /\ total \in Nat /\ prompt =< total
  /\ chunk \in SUBSET Files /\ pending \in SUBSET Files
  /\ left \in SUBSET Files /\ named \in SUBSET Files
  /\ chunks \in Seq([files : SUBSET Files, tokens : Nat])
  /\ calls \in Nat \ {0}

\* No call takes more of the model's limit than the soft threshold leaves, but
\* for the title of the last file of a compressed diff (pr_processing.py:298, :456).
InBudget(c, n) ==
  c # {} => \/ Fits(n)
            \/ packer # "multi" /\ \E f \in c : Fits(n - pr[f].header)
WithinLimit == \A i \in DOMAIN chunks : InBudget(chunks[i].files, chunks[i].tokens)

Disjoint ==
  \A i, j \in DOMAIN chunks : i # j => chunks[i].files \cap chunks[j].files = {}

\* No file is shown to the model in two calls, or shown and listed as one that
\* is not (pr_processing.py:103, :285).
NoFileTwice == Disjoint /\ Shown \cap named = {}

\* /improve makes no more calls than max_number_of_calls, /describe no more
\* than max_ai_calls (pr_processing.py:262, :482).
CallsBounded == Len(chunks) =< MaxCalls

Room == packer # "files" /\ Limit - Hard - chunks[1].tokens > ListTokens
Dropped(f) ==
  IF packer = "multi" THEN Len(chunks) < MaxCalls /\ Fits(prompt + pr[f].tokens)
                      ELSE Moderate /\ (f \notin left \/ Room)

\* At the end every file with a patch is shown, or left for the caller to name,
\* or named if there is room; /improve leaves out patches that do not fit alone,
\* and others only when it has used up its calls.
NothingDropped ==
  phase = "done" =>
    \A f \in Text : pr[f].full # 0 /\ Dropped(f) => f \in Shown \cup named

\* A round of /describe makes progress while a file that fits alone is left.
RoundsNotWasted ==
  phase = "done" /\ packer \in {"large", "files"} /\ (\E f \in left : Fits(prompt + pr[f].tokens))
  => \A i \in 1 .. MaxCalls : i \in DOMAIN chunks /\ chunks[i].files # {}

\* /improve closes a chunk only if the next patch does not fit into it.
NextFit ==
  \A i \in DOMAIN chunks : i + 1 \in DOMAIN chunks /\ packer = "multi" =>
    \E f \in chunks[i + 1].files :
      /\ \A g \in chunks[i + 1].files : f =< g
      /\ ~Fits(chunks[i].tokens + Packed(pr[f]))

\* No call of a model is wasted on what would have fitted into another.
CallsFilled == RoundsNotWasted /\ NextFit

-----------------------------------------------------------------------------
(* The inductive invariant of the proofs.                                  *)

\* While the whole diff is measured nothing is packed.
Measuring ==
  phase = "extend" => /\ chunks = <<>> /\ chunk = {} /\ left = {} /\ pending = Files
                      /\ calls = 1 /\ packer # "files"

Building ==
  phase = "pack" => /\ chunk = {} => total = prompt
                    /\ InBudget(chunk, total)
                    /\ chunk \cap InChunks = {}
                    /\ \A f \in chunk : f < pos
                    /\ calls =< MaxCalls

MultiPack ==
  phase = "pack" /\ packer = "multi" =>
    /\ Len(chunks) = calls - 1
    /\ \A f \in InChunks : f < pos
    /\ \A f \in Text : f < pos => f \in Shown \/ ~Fits(prompt + pr[f].tokens)

RoundPack ==
  phase = "pack" /\ packer # "multi" =>
    /\ packer = "single" => calls = 1
    /\ calls - 1 >= Len(chunks) /\ (calls > 1 => chunks # <<>>)
    /\ chunk \cup left \subseteq pending /\ chunk \cap left = {}
    /\ pending \cap InChunks = {} /\ \A f \in left : f < pos
    /\ Moderate => \A f \in Text : f \in Shown \cup left \/ (f \in pending /\ f >= pos)

\* A chunk begins with a patch that the chunk before it has no room for.
MultiFirst ==
  phase = "pack" /\ packer = "multi" /\ chunks # <<>> =>
    \E f \in chunk : /\ \A g \in chunk : f =< g
                     /\ ~Fits(chunks[Len(chunks)].tokens + Packed(pr[f]))

\* A file that fits alone is left by a round that packs others, and so no round
\* before it has been empty.
RoundsFull ==
  phase = "pack" /\ packer # "multi" =>
    /\ \A f \in left : Fits(prompt + pr[f].tokens) => chunk # {}
    /\ (\E f \in pending : Fits(prompt + pr[f].tokens)) =>
         Len(chunks) = calls - 1 /\ \A i \in DOMAIN chunks : chunks[i].files # {}

FillInv == MultiFirst /\ RoundsFull /\ CallsFilled

\* Every file is where the loops expect it: the strengthening that makes the
\* properties above inductive.
PackInv == /\ Measuring /\ Building /\ MultiPack /\ RoundPack
           /\ phase # "done" => named = {}
           /\ WithinLimit /\ NoFileTwice /\ CallsBounded /\ NothingDropped
=============================================================================
