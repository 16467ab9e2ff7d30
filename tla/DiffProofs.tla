----------------------------- MODULE DiffProofs -----------------------------
(***************************************************************************)
(* Proofs about DiffChunks, for any pull request, prompt, limit and        *)
(* thresholds: no chunk exceeds its budget, no file is shown twice, the    *)
(* calls are bounded, and no file is dropped silently; about               *)
(* DiffFiles, for any files and failures: a list is whole, and every entry *)
(* is its file's; about Describe, for any predictions and failures: what a *)
(* walkthrough lists is true; and about Patches, for any diff and contexts:*)
(* the numbers before the lines the model sees are true, and a line is     *)
(* found by its number.                                                    *)
(***************************************************************************)
EXTENDS DiffChunks, DiffFiles, Describe, Patches, SubsequenceProofs, TLAPS

\* The files of a pull request are numbered from 1.
LEMMA FileTypes ==
  ASSUME pr \in PullRequests
  PROVE  /\ Files = 1 .. Len(pr) /\ Len(pr) \in Nat
         /\ \A f \in Files : /\ pr[f] \in File
                             /\ pr[f].full \in Nat /\ pr[f].tokens \in Nat
                             /\ pr[f].clipped \in Nat /\ pr[f].header \in Nat
  <1>1. pr \in Seq(File)
    BY Sizes
  <1>2. Files = 1 .. Len(pr) /\ Len(pr) \in Nat
    BY <1>1 DEF Files
  <1>3. \A f \in Files : pr[f] \in File
    BY <1>1, <1>2
  <1> QED
    BY <1>2, <1>3 DEF File

\* The packed size of a patch is one of three.
LEMMA PackedTypes ==
  ASSUME pr \in PullRequests, NEW f \in Files
  PROVE  /\ Packed(pr[f]) \in Nat
         /\ Packed(pr[f]) # 0 => Softly(prompt + Packed(pr[f]))
         /\ Packed(pr[f]) = 0 => pr[f].tokens = 0 \/ ~Softly(prompt + pr[f].tokens)
  <1>1. pr[f].tokens \in Nat /\ pr[f].clipped \in Nat
    BY FileTypes
  <1>2. CASE Softly(prompt + pr[f].tokens)
    BY <1>1, <1>2 DEF Packed
  <1>3. CASE ~Softly(prompt + pr[f].tokens)
    <2>1. CASE policy = "clip" /\ Softly(prompt + pr[f].clipped)
      BY <1>1, <1>3, <2>1 DEF Packed
    <2>2. CASE ~(policy = "clip" /\ Softly(prompt + pr[f].clipped))
      BY <1>1, <1>3, <2>2 DEF Packed
    <2> QED
      BY <2>1, <2>2
  <1> QED
    BY <1>2, <1>3

\* Appending a chunk keeps the others.
LEMMA ClosedTypes ==
  ASSUME TypeOK, NEW c \in SUBSET Files, NEW n \in Nat
  PROVE  /\ Closed(c, n) \in Seq([files : SUBSET Files, tokens : Nat])
         /\ Len(Closed(c, n)) = Len(chunks) + 1 /\ Len(chunks) \in Nat
         /\ DOMAIN Closed(c, n) = DOMAIN chunks \cup {Len(chunks) + 1}
         /\ DOMAIN chunks = 1 .. Len(chunks)
         /\ \A i \in DOMAIN chunks : Closed(c, n)[i] = chunks[i]
         /\ Closed(c, n)[Len(chunks) + 1] = [files |-> c, tokens |-> n]
  <1> DEFINE T == [files : SUBSET Files, tokens : Nat]
  <1>1. chunks \in Seq(T) /\ [files |-> c, tokens |-> n] \in T
    BY DEF TypeOK
  <1>2. chunks \in Seq(T) /\ Len(chunks) \in Nat /\ DOMAIN chunks = 1 .. Len(chunks)
    BY <1>1
  <1> HIDE DEF T
  <1>3. /\ Closed(c, n) \in Seq(T) /\ Len(Closed(c, n)) = Len(chunks) + 1
        /\ \A i \in 1 .. Len(chunks) : Closed(c, n)[i] = chunks[i]
        /\ Closed(c, n)[Len(chunks) + 1] = [files |-> c, tokens |-> n]
    BY <1>1, <1>2 DEF Closed
  <1>4. DOMAIN Closed(c, n) = 1 .. (Len(chunks) + 1)
    BY <1>3
  <1> QED
    BY <1>2, <1>3, <1>4 DEF T

LEMMA InChunksTypes ==
  ASSUME TypeOK
  PROVE  InChunks \subseteq Files
  <1> DEFINE T == [files : SUBSET Files, tokens : Nat]
  <1>1. ASSUME NEW i \in DOMAIN chunks PROVE chunks[i] \in T
    <2>1. chunks \in Seq(T)
      BY DEF TypeOK
    <2> HIDE DEF T
    <2> QED
      BY <2>1, <1>1
  <1> QED
    BY <1>1 DEF InChunks

LEMMA RoundChunksTypes ==
  ASSUME TypeOK
  PROVE  RoundChunks \in Seq([files : SUBSET Files, tokens : Nat])
  <1>1. Closed(chunk, total) \in Seq([files : SUBSET Files, tokens : Nat])
    BY ClosedTypes DEF TypeOK
  <1> QED
    BY <1>1 DEF RoundChunks, TypeOK

(***************************************************************************)
(* Types.                                                                  *)
(***************************************************************************)
LEMMA InitTypes == Init => TypeOK
  BY Sizes DEF Init, TypeOK, Files

LEMMA StepTypes == TypeOK /\ [Next]_vars => TypeOK'
  <1> SUFFICES ASSUME TypeOK, [Next]_vars PROVE TypeOK'
    OBVIOUS
  <1>0. /\ Files = 1 .. Len(pr) /\ Len(pr) \in Nat
        /\ \A f \in Files : /\ pr[f].full \in Nat /\ pr[f].tokens \in Nat /\ pr[f].header \in Nat
                            /\ Packed(pr[f]) \in Nat
    BY FileTypes, PackedTypes DEF TypeOK
  <1>1. pos \in Files => /\ Here.full \in Nat /\ Here.tokens \in Nat
                         /\ Here.header \in Nat /\ Packed(Here) \in Nat
    BY <1>0 DEF Here
  <1> USE Sizes DEF TypeOK, Files
  <1>2. CASE ExtendFile
    BY <1>1, <1>2 DEF ExtendFile, input
  <1>3. CASE ReturnWhole
    <2>1. <<[files |-> Whole, tokens |-> total]>> \in Seq([files : SUBSET Files, tokens : Nat])
      BY DEF Whole
    <2>2. <<>> \in Seq([files : SUBSET Files, tokens : Nat])
      OBVIOUS
    <2> QED
      BY <1>3, <2>1, <2>2 DEF ReturnWhole, input
  <1>4. CASE StartPacking
    BY <1>4 DEF StartPacking, input
  <1>5. CASE SkipPatch
    BY <1>5 DEF SkipPatch, Packs, Pass, input
  <1>6. CASE AddPatch
    <2>1. /\ pos \in Files /\ UNCHANGED <<pr, packer, policy, prompt>>
          /\ chunk' = chunk \cup {pos} /\ pos' = pos + 1
          /\ total' = total + Packed(Here)
          /\ UNCHANGED <<phase, chunks, pending, left, calls, named>>
      BY <1>6 DEF AddPatch, Packs, Pass, input
    <2> QED
      BY <1>1, <2>1
  <1>7. CASE NextChunk
    <2>1. Closed(chunk, total) \in Seq([files : SUBSET Files, tokens : Nat])
      BY ClosedTypes
    <2>2. CASE LastCall(calls)
      BY <1>7, <2>1, <2>2 DEF NextChunk, Packs, input
    <2>3. CASE ~LastCall(calls)
      <3>1. /\ pos \in Files /\ Packed(Here) \in Nat /\ UNCHANGED <<pr, packer, policy, prompt>>
            /\ chunk' = {pos} /\ total' = prompt + Packed(Here) /\ pos' = pos + 1
            /\ chunks' = Closed(chunk, total) /\ calls' = calls + 1 /\ phase' = phase
            /\ UNCHANGED <<pending, left, named>>
        BY <1>1, <1>7, <2>3 DEF NextChunk, Packs, input
      <3> QED
        BY <2>1, <3>1
    <2> QED
      BY <2>2, <2>3
  <1>8. CASE LastChunk
    <2>1. Closed(chunk, total) \in Seq([files : SUBSET Files, tokens : Nat])
      BY ClosedTypes
    <2> QED
      BY <1>8, <2>1 DEF LastChunk, input
  <1>9. CASE NotInRound \/ HardStop
    <2>1. Pass /\ UNCHANGED <<total, chunk, left>>
      BY <1>9 DEF NotInRound, HardStop
    <2> QED
      BY <2>1 DEF Pass, input
  <1>10. CASE TooLarge
    BY <1>10 DEF TooLarge, InRound, Rounds, Pass, input
  <1>11. CASE AddFile
    <2>1. /\ pos \in Files /\ UNCHANGED <<pr, packer, policy, prompt>>
          /\ chunk' = chunk \cup {pos} /\ pos' = pos + 1
          /\ total' = total + Here.tokens + Here.header
          /\ UNCHANGED <<phase, chunks, pending, left, calls, named>>
      BY <1>11 DEF AddFile, InRound, Rounds, Pass, input
    <2>2. /\ Here.tokens \in Nat /\ Here.header \in Nat /\ total \in Nat /\ prompt \in Nat /\ prompt =< total
          /\ pos \in Nat \ {0} /\ chunk \in SUBSET Files
      BY <1>1, <2>1
    <2>3. total' \in Nat /\ prompt =< total'
      <3>1. total' = total + Here.tokens + Here.header
        BY <2>1
      <3> QED
        BY <2>2, <3>1
    <2>4. pos' \in Nat \ {0} /\ chunk' \in SUBSET Files
      <3>1. pos' = pos + 1 /\ chunk' = chunk \cup {pos} /\ pos \in Files
        BY <2>1
      <3> QED
        BY <2>2, <3>1
    <2> QED
      BY <2>1, <2>3, <2>4
  <1>12. CASE NextRound
    BY <1>12, RoundChunksTypes DEF NextRound, ToPack, NextTotal, input
  <1>13. CASE EndRounds
    <2>1. NameOthers \in SUBSET Files
      BY DEF NameOthers, Named, Text
    <2> QED
      BY <1>13, <2>1, RoundChunksTypes DEF EndRounds, input
  <1>14. CASE SplitAgain
    BY <1>14 DEF SplitAgain
  <1>15. CASE UNCHANGED vars
    BY <1>15 DEF vars, input
  <1> QED
    BY <1>2, <1>3, <1>4, <1>5, <1>6, <1>7, <1>8, <1>9, <1>10, <1>11, <1>12, <1>13, <1>14, <1>15 DEF Next

\* Every variable keeps its type, and no chunk forgets to count the prompt.
THEOREM ChunkTypes == Spec => []TypeOK
  BY InitTypes, StepTypes, PTL DEF Spec

(***************************************************************************)
(* The inductive invariant.                                                *)
(***************************************************************************)

\* What closing a chunk does to the finished ones.
LEMMA CloseStep ==
  ASSUME TypeOK, WithinLimit, Disjoint, NEW c \in SUBSET Files, NEW n \in Nat,
         InBudget(c, n), c \cap InChunks = {},
         chunks' = Closed(c, n), pr' = pr, packer' = packer
  PROVE  /\ InChunks' = InChunks \cup c
         /\ WithinLimit' /\ Disjoint'
         /\ Len(chunks') = Len(chunks) + 1 /\ Len(chunks) \in Nat
         /\ chunks'[Len(chunks) + 1] = [files |-> c, tokens |-> n]
  <1> DEFINE next == Len(chunks) + 1
  <1>1. /\ Len(chunks) \in Nat /\ Len(chunks') = next
        /\ DOMAIN chunks' = DOMAIN chunks \cup {next}
        /\ DOMAIN chunks = 1 .. Len(chunks) /\ next \notin DOMAIN chunks
        /\ \A i \in DOMAIN chunks : chunks'[i] = chunks[i]
        /\ chunks'[next] = [files |-> c, tokens |-> n]
    <2>1. chunks' = Closed(c, n)
      OBVIOUS
    <2>2. /\ Len(Closed(c, n)) = Len(chunks) + 1 /\ Len(chunks) \in Nat
          /\ DOMAIN Closed(c, n) = DOMAIN chunks \cup {Len(chunks) + 1}
          /\ DOMAIN chunks = 1 .. Len(chunks)
          /\ \A i \in DOMAIN chunks : Closed(c, n)[i] = chunks[i]
          /\ Closed(c, n)[Len(chunks) + 1] = [files |-> c, tokens |-> n]
      BY ClosedTypes
    <2>3. next \notin DOMAIN chunks
      BY <2>2
    <2> QED
      BY <2>1, <2>2, <2>3
  <1> HIDE DEF next
  <1>2. InChunks' = InChunks \cup c
    BY <1>1 DEF InChunks
  <1>3. WithinLimit'
    <2>1. ASSUME NEW i \in DOMAIN chunks'
          PROVE  InBudget(chunks'[i].files, chunks'[i].tokens)
      <3>1. CASE i = next
        BY <1>1, <3>1
      <3>2. CASE i \in DOMAIN chunks
        BY <1>1, <3>2 DEF WithinLimit
      <3> QED
        BY <1>1, <3>1, <3>2
    <2> QED
      BY <2>1 DEF WithinLimit, InBudget, Fits
  <1>4. Disjoint'
    BY <1>1 DEF Disjoint, InChunks
  <1> QED
    BY <1>1, <1>2, <1>3, <1>4 DEF next

LEMMA CloseChunk ==
  ASSUME TypeOK, PackInv, phase = "pack",
         chunks' = Closed(chunk, total), pr' = pr, packer' = packer
  PROVE  /\ InChunks' = InChunks \cup chunk
         /\ WithinLimit' /\ Disjoint'
         /\ Len(chunks') = Len(chunks) + 1 /\ Len(chunks) \in Nat
         /\ chunks'[Len(chunks) + 1] = [files |-> chunk, tokens |-> total]
  <1>1. /\ WithinLimit /\ Disjoint /\ InBudget(chunk, total)
        /\ chunk \cap InChunks = {} /\ chunk \in SUBSET Files /\ total \in Nat
    BY DEF PackInv, Building, NoFileTwice, TypeOK
  <1> QED
    BY <1>1, CloseStep

\* A step that closes no chunk changes nothing about the finished ones.
LEMMA KeepStep ==
  ASSUME PackInv, UNCHANGED <<pr, packer, chunks>>
  PROVE  InChunks' = InChunks /\ WithinLimit' /\ Disjoint' /\ CallsBounded'
  BY DEF PackInv, InChunks, WithinLimit, InBudget, Fits, NoFileTwice, Disjoint, CallsBounded

LEMMA InitPack == Init => PackInv
  BY Sizes DEF Init, PackInv, Measuring, Building, MultiPack, RoundPack, WithinLimit,
     NoFileTwice, Disjoint, CallsBounded, NothingDropped, Shown, InChunks, Files

LEMMA MeasureSteps ==
  ASSUME TypeOK, PackInv, ExtendFile \/ ReturnWhole \/ StartPacking
  PROVE  PackInv'
  <1>0. /\ Files = 1 .. Len(pr) /\ Len(pr) \in Nat
        /\ phase = "extend" /\ chunks = <<>> /\ chunk = {} /\ left = {} /\ pending = Files
        /\ calls = 1 /\ packer # "files" /\ named = {}
        /\ pr' = pr /\ packer' = packer /\ prompt' = prompt /\ Files' = Files /\ Text' = Text
    BY FileTypes DEF TypeOK, PackInv, Measuring, ExtendFile, ReturnWhole, StartPacking, WholeFits, input, Files, Text
  <1>1. CASE ExtendFile
    <2>1. InChunks' = InChunks /\ WithinLimit' /\ Disjoint' /\ CallsBounded'
      BY <1>0, <1>1, KeepStep DEF ExtendFile
    <2> QED
      BY <1>0, <1>1, <2>1 DEF ExtendFile, PackInv, Measuring, Building, MultiPack, RoundPack,
         NoFileTwice, NothingDropped
  <1>2. CASE StartPacking
    <2>1. InChunks' = InChunks /\ WithinLimit' /\ Disjoint' /\ CallsBounded'
      BY <1>0, <1>2, KeepStep DEF StartPacking
    <2>2. InChunks = {}
      BY <1>0 DEF InChunks
    <2>3. /\ phase' = "pack" /\ pos' = 1 /\ total' = prompt
          /\ UNCHANGED <<chunk, chunks, pending, left, calls, named>>
      BY <1>2 DEF StartPacking
    <2>4. Building'
      BY <1>0, <2>1, <2>2, <2>3, Sizes DEF Building, InBudget
    <2>5. MultiPack'
      BY <1>0, <2>1, <2>2, <2>3 DEF MultiPack, Text
    <2>6. RoundPack'
      BY <1>0, <2>1, <2>2, <2>3 DEF RoundPack, Text
    <2> QED
      BY <1>0, <2>1, <2>3, <2>4, <2>5, <2>6 DEF PackInv, Measuring, NoFileTwice, NothingDropped
  <1>3. CASE ReturnWhole
    <2>1. /\ phase' = "done" /\ total + Soft < Limit
          /\ UNCHANGED <<pos, total, chunk, pending, left, calls, named>>
          /\ chunks' = IF packer = "multi" /\ Whole = {} THEN <<>>
                       ELSE <<[files |-> Whole, tokens |-> total]>>
      BY <1>3 DEF ReturnWhole, WholeFits
    <2>2. CASE chunks' = <<>> /\ Whole = {}
      <3>1. WithinLimit' /\ Disjoint' /\ CallsBounded' /\ InChunks' = {}
        BY <2>2, Sizes DEF WithinLimit, Disjoint, CallsBounded, InChunks
      <3>2. NothingDropped'
        BY <1>0, <2>2 DEF NothingDropped, Text, Whole
      <3> QED
        BY <1>0, <2>1, <3>1, <3>2 DEF PackInv, Measuring, Building, MultiPack, RoundPack, NoFileTwice
    <2>3. CASE chunks' = <<[files |-> Whole, tokens |-> total]>>
      <3>1. Fits(total)
        BY <2>1, Sizes DEF Fits, TypeOK
      <3>2. DOMAIN chunks' = {1} /\ Len(chunks') = 1 /\ chunks'[1] = [files |-> Whole, tokens |-> total]
        BY <2>3
      <3>3. WithinLimit' /\ Disjoint' /\ CallsBounded' /\ InChunks' = Whole
        BY <1>0, <2>1, <3>1, <3>2, Sizes DEF WithinLimit, InBudget, Fits, Disjoint, CallsBounded, InChunks
      <3>4. NothingDropped'
        BY <1>0, <3>3 DEF NothingDropped, Shown, Text, Whole, Files
      <3> QED
        BY <1>0, <2>1, <3>3, <3>4 DEF PackInv, Measuring, Building, MultiPack, RoundPack, NoFileTwice
    <2> QED
      BY <2>1, <2>2, <2>3
  <1> QED
    BY <1>1, <1>2, <1>3

\* /improve: every file before the loop's is in a chunk, or does not fit.
LEMMA MultiSteps ==
  ASSUME TypeOK, PackInv, SkipPatch \/ AddPatch \/ NextChunk \/ LastChunk
  PROVE  PackInv'
  <1>0. /\ Files = 1 .. Len(pr) /\ Len(pr) \in Nat
        /\ phase = "pack" /\ packer = "multi" /\ named = {} /\ named' = {}
        /\ pr' = pr /\ packer' = packer /\ prompt' = prompt /\ Files' = Files /\ Text' = Text
    BY FileTypes DEF TypeOK, PackInv, SkipPatch, AddPatch, NextChunk, LastChunk, Packs, Pass,
       input, Files, Text
  <1>1. /\ chunk = {} => total = prompt
        /\ InBudget(chunk, total) /\ chunk \cap InChunks = {} /\ calls =< MaxCalls
        /\ Len(chunks) = calls - 1
        /\ \A f \in chunk \cup InChunks : f < pos
        /\ \A f \in Text : f < pos => f \in Shown \/ ~Fits(prompt + pr[f].tokens)
        /\ WithinLimit /\ Disjoint
    BY <1>0 DEF PackInv, Building, MultiPack, NoFileTwice
  <1>2. /\ pos \in Nat /\ total \in Nat /\ calls \in Nat /\ prompt \in Nat /\ Limit \in Nat /\ Soft \in Nat
        /\ MaxCalls \in Nat /\ chunk \in SUBSET Files /\ InChunks \in SUBSET Files
        /\ \A f \in Files : pr[f].tokens \in Nat
    BY FileTypes, InChunksTypes, Sizes DEF TypeOK
  <1>3. pos \in Files => /\ Packed(Here) \in Nat
                         /\ Packed(Here) # 0 => Fits(prompt + Packed(Here))
                         /\ Packed(Here) = 0 => pos \notin Text \/ ~Fits(prompt + pr[pos].tokens)
    BY PackedTypes DEF TypeOK, Here, Softly, Fits, Text
  <1>4. \A f \in Text : f < pos + 1 =>
           f = pos \/ f \in Shown \/ ~Fits(prompt + pr[f].tokens)
    <2> SUFFICES ASSUME NEW f \in Text, f < pos + 1
                 PROVE  f = pos \/ f \in Shown \/ ~Fits(prompt + pr[f].tokens)
      OBVIOUS
    <2>1. f \in Nat
      BY <1>0 DEF Text
    <2>2. f = pos \/ f < pos
      BY <1>2, <2>1
    <2> QED
      BY <1>1, <2>2
  <1>5. CASE SkipPatch
    <2>1. /\ pos \in Files /\ Packed(Here) = 0 /\ pos' = pos + 1
          /\ UNCHANGED <<total, chunk, left, phase, chunks, pending, calls>>
      BY <1>5 DEF SkipPatch, Packs, Pass
    <2>2. InChunks' = InChunks /\ WithinLimit' /\ Disjoint' /\ CallsBounded'
      BY <1>0, <2>1, KeepStep
    <2>3. Building'
      BY <1>0, <1>1, <1>2, <2>1, <2>2 DEF Building, InBudget, Fits
    <2>4. \A f \in Text : f < pos + 1 => f \in Shown \/ ~Fits(prompt + pr[f].tokens)
      BY <1>3, <1>4, <2>1
    <2>5. MultiPack'
      <3>1. Len(chunks') = calls' - 1 /\ \A f \in InChunks' : f < pos'
        BY <1>1, <1>2, <1>0, <2>1, <2>2
      <3>2. \A f \in Text' : f < pos' => f \in Shown' \/ ~Fits(prompt' + pr'[f].tokens)
        BY <1>0, <2>1, <2>2, <2>4 DEF Shown
      <3> QED
        BY <3>1, <3>2 DEF MultiPack, Fits
    <2> QED
      BY <1>0, <2>1, <2>2, <2>3, <2>5 DEF PackInv, Measuring, RoundPack, NoFileTwice, NothingDropped
  <1>6. CASE AddPatch
    <2>1. /\ pos \in Files /\ Fits(total + Packed(Here)) /\ pos' = pos + 1
          /\ total' = total + Packed(Here) /\ chunk' = chunk \cup {pos}
          /\ UNCHANGED <<left, phase, chunks, pending, calls>>
      BY <1>6 DEF AddPatch, Packs, Pass, Softly, Fits
    <2>2. InChunks' = InChunks /\ WithinLimit' /\ Disjoint' /\ CallsBounded'
      BY <1>0, <2>1, KeepStep
    <2>3. Building'
      BY <1>0, <1>1, <1>2, <2>1, <2>2 DEF Building, InBudget, Fits
    <2>4. \A f \in Text : f < pos + 1 =>
             f \in chunk \cup {pos} \cup InChunks \/ ~Fits(prompt + pr[f].tokens)
      BY <1>4 DEF Shown
    <2>5. MultiPack'
      <3>1. Len(chunks') = calls' - 1 /\ \A f \in InChunks' : f < pos'
        BY <1>1, <1>2, <1>0, <2>1, <2>2
      <3>2. \A f \in Text' : f < pos' => f \in Shown' \/ ~Fits(prompt' + pr'[f].tokens)
        BY <1>0, <2>1, <2>2, <2>4 DEF Shown
      <3> QED
        BY <3>1, <3>2 DEF MultiPack, Fits
    <2> QED
      BY <1>0, <2>1, <2>2, <2>3, <2>5 DEF PackInv, Measuring, RoundPack, NoFileTwice, NothingDropped
  <1>7. CASE NextChunk
    <2>1. /\ pos \in Files /\ Packed(Here) # 0 /\ chunks' = Closed(chunk, total)
          /\ calls' = calls + 1 /\ UNCHANGED <<left, pending>>
      BY <1>7 DEF NextChunk, Packs
    <2>2. /\ InChunks' = InChunks \cup chunk /\ WithinLimit' /\ Disjoint'
          /\ Len(chunks') = calls
      <3>1. InChunks' = InChunks \cup chunk /\ WithinLimit' /\ Disjoint' /\ Len(chunks') = Len(chunks) + 1
        BY <1>0, <2>1, CloseChunk
      <3> QED
        BY <1>1, <1>2, <3>1
    <2>3. CallsBounded'
      BY <1>1, <1>2, <2>2 DEF CallsBounded
    <2>4. CASE LastCall(calls)
      <3>1. phase' = "done" /\ chunk' = {} /\ calls = MaxCalls
        BY <1>1, <1>2, <1>7, <2>4 DEF NextChunk, LastCall
      <3>2. NothingDropped'
        BY <1>0, <1>2, <2>2, <3>1 DEF NothingDropped, Dropped
      <3> QED
        BY <1>0, <2>2, <2>3, <3>1, <3>2 DEF PackInv, Measuring, Building, MultiPack, RoundPack, NoFileTwice
    <2>5. CASE ~LastCall(calls)
      <3>1. /\ phase' = "pack" /\ pos' = pos + 1 /\ calls' =< MaxCalls
            /\ chunk' = {pos} /\ total' = prompt + Packed(Here)
        BY <1>0, <1>1, <1>2, <1>7, <2>1, <2>5 DEF NextChunk, LastCall
      <3>2. Building'
        <4>1. Fits(prompt + Packed(Here))
          BY <1>3, <2>1
        <4>2. InBudget(chunk, total)'
          BY <1>0, <3>1, <4>1 DEF InBudget, Fits
        <4>3. \A f \in chunk \cup InChunks : f < pos
          BY <1>1
        <4>4. chunk' \cap InChunks' = {} /\ \A f \in chunk' : f < pos'
          BY <1>2, <2>2, <3>1, <4>3
        <4> QED
          BY <3>1, <4>2, <4>4 DEF Building
      <3>3. \A f \in Text : f < pos + 1 =>
               f \in {pos} \cup InChunks \cup chunk \/ ~Fits(prompt + pr[f].tokens)
        BY <1>4 DEF Shown
      <3>4. MultiPack'
        <4>1. Len(chunks') = calls' - 1 /\ \A f \in InChunks' : f < pos'
          BY <1>0, <1>1, <1>2, <2>1, <2>2, <3>1
        <4>2. \A f \in Text' : f < pos' => f \in Shown' \/ ~Fits(prompt' + pr'[f].tokens)
          BY <1>0, <2>2, <3>1, <3>3 DEF Shown
        <4> QED
          BY <4>1, <4>2 DEF MultiPack, Fits
      <3> QED
        BY <1>0, <2>2, <2>3, <3>1, <3>2, <3>4 DEF PackInv, Measuring, RoundPack, NoFileTwice, NothingDropped
    <2> QED
      BY <2>4, <2>5
  <1>8. CASE LastChunk
    <2>1. /\ pos \notin Files /\ phase' = "done"
          /\ chunks' = IF chunk = {} THEN chunks ELSE Closed(chunk, total)
          /\ UNCHANGED <<pos, total, chunk, pending, left, calls>>
      BY <1>8 DEF LastChunk
    <2>2. InChunks' = InChunks \cup chunk /\ WithinLimit' /\ Disjoint' /\ CallsBounded'
      <3>1. CASE chunk = {}
        BY <1>0, <2>1, <3>1, KeepStep
      <3>2. CASE chunk # {}
        <4>1. /\ InChunks' = InChunks \cup chunk /\ WithinLimit' /\ Disjoint'
              /\ Len(chunks') = calls
          <5>1. InChunks' = InChunks \cup chunk /\ WithinLimit' /\ Disjoint' /\ Len(chunks') = Len(chunks) + 1
            BY <1>0, <2>1, <3>2, CloseChunk
          <5> QED
            BY <1>1, <1>2, <5>1
        <4> QED
          BY <1>1, <1>2, <4>1 DEF CallsBounded
      <3> QED
        BY <3>1, <3>2
    <2>3. \A f \in Text : f \in Shown \/ ~Fits(prompt + pr[f].tokens)
      BY <1>0, <1>1, <1>2, <2>1 DEF Text, TypeOK
    <2>4. NothingDropped'
      BY <1>0, <2>1, <2>2, <2>3 DEF NothingDropped, Dropped, Shown, Fits
    <2> QED
      BY <1>0, <2>1, <2>2, <2>4 DEF PackInv, Measuring, Building, MultiPack, RoundPack, NoFileTwice
  <1> QED
    BY <1>5, <1>6, <1>7, <1>8

\* A chunk leaves room above the soft threshold for one moderate title.
LEMMA ModerateTotal ==
  ASSUME TypeOK, InBudget(chunk, total), chunk = {} => total = prompt, Moderate
  PROVE  ~NoRoom(total)
  <1>1. /\ total \in Nat /\ prompt \in Nat /\ Limit \in Nat /\ Soft \in Nat /\ Hard \in Nat /\ Hard =< Soft
        /\ chunk \in SUBSET Files /\ \A f \in Files : pr[f].header \in Nat
    BY FileTypes, Sizes DEF TypeOK
  <1>2. CASE chunk = {} \/ Fits(total)
    BY <1>1, <1>2 DEF Moderate, NoRoom, Fits
  <1>3. CASE \E f \in chunk : Fits(total - pr[f].header)
    BY <1>1, <1>3 DEF Moderate, NoRoom, Fits
  <1> QED
    BY <1>2, <1>3 DEF InBudget

\* One file of a round of /describe, or of the single round of the others.
LEMMA RoundFileSteps ==
  ASSUME TypeOK, PackInv, NotInRound \/ HardStop \/ TooLarge \/ AddFile
  PROVE  PackInv'
  <1>0. /\ pos \in Files /\ pos' = pos + 1
        /\ phase = "pack" /\ phase' = "pack" /\ packer # "multi" /\ named = {} /\ named' = {}
        /\ UNCHANGED <<pr, packer, prompt, chunks, pending, calls>>
        /\ Files' = Files /\ Text' = Text /\ Text \subseteq Files
    BY DEF TypeOK, PackInv, NotInRound, HardStop, TooLarge, AddFile, Rounds, InRound, Pass,
       input, Files, Text
  <1>1. /\ chunk = {} => total = prompt
        /\ InBudget(chunk, total) /\ chunk \cap InChunks = {} /\ calls =< MaxCalls
        /\ \A f \in chunk \cup left : f < pos
        /\ packer = "single" => calls = 1
        /\ calls - 1 >= Len(chunks) /\ (calls > 1 => chunks # <<>>)
        /\ chunk \cup left \subseteq pending /\ chunk \cap left = {}
        /\ pending \cap InChunks = {}
        /\ Moderate => \A f \in Text : f \in Shown \cup left \/ (f \in pending /\ f >= pos)
    BY <1>0 DEF PackInv, Building, RoundPack
  <1>2. /\ Files \subseteq Nat /\ total \in Nat /\ Limit \in Nat /\ Soft \in Nat
        /\ chunk \in SUBSET Files /\ left \in SUBSET Files
        /\ \A f \in Files : pr[f].tokens \in Nat /\ pr[f].header \in Nat
    BY FileTypes, Sizes DEF TypeOK
  <1>3. InChunks' = InChunks /\ WithinLimit' /\ Disjoint' /\ CallsBounded'
    BY <1>0, KeepStep
  <1>10. pos \in Nat /\ pos \notin chunk \cup left /\ \A f \in chunk \cup left \cup {pos} : f < pos + 1
    <2>1. pos \in Nat /\ \A f \in chunk \cup left : f \in Nat /\ f < pos
      BY <1>0, <1>1, <1>2
    <2> QED
      BY <2>1
  <1>4. Moderate' <=> Moderate
    BY <1>0 DEF Moderate
  <1>5. ASSUME NEW C \in SUBSET Files, NEW L \in SUBSET Files, NEW n \in Nat,
               chunk' = C, left' = L, total' = n,
               C = {} => n = prompt, InBudget(C, n),
               C \cup L \subseteq pending, C \cap L = {},
               \A f \in C \cup L : f < pos + 1,
               Moderate => \A f \in Text : f \in C \cup InChunks \cup L \/ (f \in pending /\ f >= pos + 1)
        PROVE  PackInv'
    <2>1. Building'
      BY <1>0, <1>1, <1>3, <1>5 DEF Building, InBudget, Fits
    <2>2. RoundPack'
      <3>1. Moderate' => \A f \in Text' : f \in Shown' \cup left' \/ (f \in pending' /\ f >= pos')
        BY <1>0, <1>3, <1>4, <1>5 DEF Shown
      <3> QED
        BY <1>0, <1>1, <1>3, <1>5, <3>1 DEF RoundPack
    <2> QED
      BY <1>0, <1>3, <2>1, <2>2 DEF PackInv, Measuring, MultiPack, NoFileTwice, NothingDropped
  <1>6. CASE NotInRound
    <2>1. UNCHANGED <<total, chunk, left>> /\ pos \notin pending \cap Text
      BY <1>6 DEF NotInRound
    <2>2. \A f \in chunk \cup left : f < pos + 1
      BY <1>10
    <2>3. Moderate => \A f \in Text : f \in chunk \cup InChunks \cup left \/ (f \in pending /\ f >= pos + 1)
      BY <1>0, <1>1, <1>2, <2>1 DEF Shown
    <2> QED
      BY <1>1, <1>2, <1>5, <2>1, <2>2, <2>3
  <1>7. CASE HardStop
    <2>1. UNCHANGED <<total, chunk, left>> /\ NoRoom(total)
      BY <1>7 DEF HardStop
    <2>2. \A f \in chunk \cup left : f < pos + 1
      BY <1>10
    <2>3. ~Moderate
      BY <1>1, <2>1, ModerateTotal
    <2> QED
      BY <1>1, <1>2, <1>5, <2>1, <2>2, <2>3
  <1>8. CASE TooLarge
    <2>1. UNCHANGED <<total, chunk>> /\ left' = left \cup {pos} /\ pos \in pending
      BY <1>8 DEF TooLarge, InRound
    <2>2. \A f \in chunk \cup (left \cup {pos}) : f < pos + 1
      BY <1>10
    <2>3. Moderate => \A f \in Text : f \in chunk \cup InChunks \cup (left \cup {pos}) \/ (f \in pending /\ f >= pos + 1)
      BY <1>0, <1>1, <1>2 DEF Shown
    <2>4. /\ left \cup {pos} \in SUBSET Files /\ chunk \cup (left \cup {pos}) \subseteq pending
          /\ chunk \cap (left \cup {pos}) = {}
      BY <1>0, <1>1, <1>2, <1>10, <2>1
    <2> QED
      BY <1>1, <1>2, <1>5, <2>1, <2>2, <2>3, <2>4
  <1>9. CASE AddFile
    <2>1. /\ total' = total + pr[pos].tokens + pr[pos].header /\ chunk' = chunk \cup {pos} /\ left' = left
          /\ pos \in pending /\ Fits(total + pr[pos].tokens)
      BY <1>9 DEF AddFile, InRound, Here, Softly, Fits
    <2>2. \A f \in (chunk \cup {pos}) \cup left : f < pos + 1
      BY <1>10
    <2>3. Moderate => \A f \in Text : f \in (chunk \cup {pos}) \cup InChunks \cup left \/ (f \in pending /\ f >= pos + 1)
      BY <1>0, <1>1, <1>2 DEF Shown
    <2>4. /\ chunk \cup {pos} \in SUBSET Files /\ (chunk \cup {pos}) \cup left \subseteq pending
          /\ (chunk \cup {pos}) \cap left = {} /\ chunk \cup {pos} # {}
      BY <1>0, <1>1, <1>2, <1>10, <2>1
    <2>5. InBudget(chunk \cup {pos}, total + pr[pos].tokens + pr[pos].header)
      <3>1. total + pr[pos].tokens + pr[pos].header - pr[pos].header = total + pr[pos].tokens
        BY <1>0, <1>2
      <3>2. Fits((total + pr[pos].tokens + pr[pos].header) - pr[pos].header)
        BY <1>0, <1>2, <2>1 DEF Fits
      <3> QED
        BY <1>0, <3>2 DEF InBudget
    <2>6. total + pr[pos].tokens + pr[pos].header \in Nat
      BY <1>0, <1>2
    <2> QED
      BY <1>2, <1>5, <2>1, <2>2, <2>3, <2>4, <2>5, <2>6
  <1> QED
    BY <1>6, <1>7, <1>8, <1>9

\* The end of a round.
LEMMA RoundEndSteps ==
  ASSUME TypeOK, PackInv, NextRound \/ EndRounds
  PROVE  PackInv'
  <1>0. /\ phase = "pack" /\ packer # "multi" /\ pos \notin Files /\ named = {}
        /\ Files = 1 .. Len(pr) /\ Len(pr) \in Nat /\ pr' = pr /\ Files' = Files /\ Text' = Text
        /\ Text \subseteq Files
    BY FileTypes DEF TypeOK, PackInv, NextRound, EndRounds, RoundOver, input, Files, Text
  <1>1. /\ chunk \cap InChunks = {} /\ calls =< MaxCalls
        /\ packer = "single" => calls = 1
        /\ calls - 1 >= Len(chunks) /\ (calls > 1 => chunks # <<>>)
        /\ chunk \cup left \subseteq pending /\ chunk \cap left = {}
        /\ pending \cap InChunks = {}
        /\ WithinLimit /\ Disjoint
    BY <1>0 DEF PackInv, Building, RoundPack, NoFileTwice
  <1>2. /\ pos \in Nat \ {0} /\ calls \in Nat \ {0} /\ MaxCalls \in Nat \ {0}
        /\ Len(chunks) \in Nat /\ DOMAIN chunks = 1 .. Len(chunks)
        /\ left \in SUBSET Files /\ chunk \in SUBSET Files
    BY Sizes DEF TypeOK
  <1>3. Moderate => \A f \in Text : f \in Shown \cup left
    <2>1. \A f \in Text : ~(f >= pos)
      BY <1>0, <1>2
    <2> QED
      BY <1>0, <2>1 DEF PackInv, RoundPack
  <1>4. ASSUME chunks' = RoundChunks, packer' = packer
        PROVE  /\ InChunks' = InChunks \cup chunk /\ WithinLimit' /\ Disjoint'
               /\ Len(chunks') \in Nat /\ calls >= Len(chunks') /\ chunks' # <<>>
               /\ Len(chunks') = 1 => InChunks' = chunks'[1].files
    <2>1. CASE calls = 1 \/ chunk # {}
      <3>1. chunks' = Closed(chunk, total)
        BY <1>4, <2>1 DEF RoundChunks
      <3>2. /\ InChunks' = InChunks \cup chunk /\ WithinLimit' /\ Disjoint'
            /\ Len(chunks') = Len(chunks) + 1
            /\ chunks'[Len(chunks) + 1] = [files |-> chunk, tokens |-> total]
        BY <1>0, <1>4, <3>1, CloseChunk
      <3>3. chunks' # <<>> /\ Len(chunks') \in Nat /\ calls >= Len(chunks')
        BY <1>1, <1>2, <3>2
      <3>4. Len(chunks') = 1 => InChunks' = chunks'[1].files
        <4>1. ASSUME Len(chunks') = 1
              PROVE  Len(chunks) = 0 /\ chunks'[1].files = chunk
          <5>1. Len(chunks) = 0
            <6>1. \A n \in Nat : n + 1 = 1 => n = 0
              OBVIOUS
            <6>2. Len(chunks) + 1 = 1 /\ Len(chunks) \in Nat
              BY <1>2, <3>2, <4>1
            <6> QED
              BY <6>1, <6>2
          <5>2. Len(chunks) + 1 = 1
            BY <5>1
          <5>3. chunks'[1] = [files |-> chunk, tokens |-> total]
            BY <3>2, <5>2
          <5> QED
            BY <5>1, <5>3
        <4>2. Len(chunks) = 0 => InChunks = {}
          BY <1>2 DEF InChunks
        <4> QED
          BY <3>2, <4>1, <4>2
      <3> QED
        BY <3>2, <3>3, <3>4
    <2>2. CASE calls # 1 /\ chunk = {}
      <3>1. chunks' = chunks /\ chunks # <<>>
        BY <1>1, <1>2, <1>4, <2>2 DEF RoundChunks
      <3>2. InChunks' = InChunks /\ WithinLimit' /\ Disjoint'
        BY <1>0, <1>4, <3>1, KeepStep
      <3>3. Len(chunks') = 1 => InChunks' = chunks'[1].files
        BY <1>2, <3>1 DEF InChunks
      <3> QED
        BY <1>1, <1>2, <2>2, <3>1, <3>2, <3>3
    <2> QED
      BY <2>1, <2>2
  <1>5. CASE NextRound
    <2>1. /\ chunks' = RoundChunks /\ pending' = left /\ left' = {} /\ pos' = 1
          /\ total' = prompt /\ chunk' = {} /\ calls' = calls + 1
          /\ UNCHANGED <<phase, named, packer, prompt>>
          /\ packer # "single" /\ calls < MaxCalls
      BY <1>5 DEF NextRound, MoreRounds, ToPack, NextTotal, input
    <2>2. /\ InChunks' = InChunks \cup chunk /\ WithinLimit' /\ Disjoint'
          /\ Len(chunks') \in Nat /\ calls >= Len(chunks') /\ chunks' # <<>>
      BY <1>4, <2>1
    <2>3. Building'
      BY <1>0, <1>2, <2>1 DEF Building, InBudget
    <2>4. Moderate' => \A f \in Text' : f \in Shown' \cup left' \/ (f \in pending' /\ f >= pos')
      <3>1. Moderate' <=> Moderate
        BY <1>0, <2>1 DEF Moderate
      <3>2. \A f \in Text : f >= 1
        BY <1>0
      <3> QED
        BY <1>0, <1>3, <2>1, <2>2, <3>1, <3>2 DEF Shown
    <2>5. RoundPack'
      <3>1. pending' \cap InChunks' = {} /\ chunk' \cup left' \subseteq pending' /\ chunk' \cap left' = {}
        BY <1>1, <2>1, <2>2
      <3>2. calls' - 1 >= Len(chunks') /\ (calls' > 1 => chunks' # <<>>)
        BY <1>2, <2>1, <2>2
      <3>3. (packer' = "single" => calls' = 1) /\ \A f \in left' : f < pos'
        BY <2>1
      <3> QED
        BY <2>4, <3>1, <3>2, <3>3 DEF RoundPack
    <2> QED
      BY <1>0, <1>1, <1>2, <2>1, <2>2, <2>3, <2>5
      DEF PackInv, Measuring, MultiPack, NoFileTwice, NothingDropped, CallsBounded
  <1>6. CASE EndRounds
    <2>1. /\ chunks' = RoundChunks /\ phase' = "done"
          /\ packer = "large" => Len(chunks') = 1
          /\ named' = IF packer = "files" THEN {} ELSE Named(chunks'[1].tokens, chunks'[1].files)
          /\ UNCHANGED <<packer, prompt, pos, total, chunk, pending, left, calls>>
      <3>1. packer = "large" => ~(Len(RoundChunks) > 1)
        BY <1>6 DEF EndRounds, NoText
      <3>2. chunks' = RoundChunks /\ packer' = packer
        BY <1>6 DEF EndRounds, input
      <3>3. Len(chunks') \in Nat /\ Len(chunks') # 0
        BY <1>4, <3>2
      <3>4. \A n \in Nat : n # 0 /\ ~(n > 1) => n = 1
        OBVIOUS
      <3>5. packer = "large" => Len(chunks') = 1
        BY <3>1, <3>2, <3>3, <3>4
      <3> QED
        BY <1>6, <3>5 DEF EndRounds, NameOthers, input
    <2>2. /\ InChunks' = InChunks \cup chunk /\ WithinLimit' /\ Disjoint'
          /\ Len(chunks') \in Nat /\ calls >= Len(chunks') /\ chunks' # <<>>
          /\ Len(chunks') = 1 => InChunks' = chunks'[1].files
      BY <1>4, <2>1
    <2>3. CallsBounded'
      BY <1>1, <1>2, <2>2 DEF CallsBounded
    <2>4. packer # "files" => InChunks' = chunks'[1].files
      <3>1. packer \in {"single", "large", "files"}
        BY <1>0 DEF TypeOK
      <3>2. Len(chunks') # 0
        BY <2>2
      <3>3. CASE packer = "single"
        <4>1. 1 >= Len(chunks') /\ Len(chunks') \in Nat
          BY <1>1, <2>2, <3>3
        <4>2. Len(chunks') = 1
          <5>1. \A n \in Nat : 1 >= n /\ n # 0 => n = 1
            OBVIOUS
          <5> QED
            BY <3>2, <4>1, <5>1
        <4> QED
          BY <2>2, <4>2
      <3> QED
        BY <2>1, <2>2, <3>1, <3>3
    <2>5. Shown' = InChunks'
      BY <2>1, <2>2 DEF Shown
    <2>6. Shown' \cap named' = {}
      BY <2>1, <2>4, <2>5 DEF Named
    <2>7. NothingDropped'
      <3> SUFFICES ASSUME NEW f \in Text, Dropped(f)'
                   PROVE  f \in Shown' \cup named'
        BY <1>0 DEF NothingDropped
      <3>1. Moderate /\ (f \notin left \/ Room')
        BY <1>0, <2>1 DEF Dropped, Moderate
      <3>2. CASE f \notin left
        BY <1>3, <2>2, <2>5, <3>1, <3>2 DEF Shown
      <3>3. CASE Room'
        BY <2>1, <2>4, <2>5, <3>3 DEF Room, Named
      <3> QED
        BY <3>1, <3>2, <3>3
    <2> QED
      BY <2>1, <2>2, <2>3, <2>6, <2>7 DEF PackInv, Measuring, Building, MultiPack, RoundPack, NoFileTwice
  <1> QED
    BY <1>5, <1>6

\* The second splitting of /describe starts as the first one did.
LEMMA SplitAgainStep ==
  ASSUME TypeOK, PackInv, SplitAgain
  PROVE  PackInv'
  <1>0. /\ Files = 1 .. Len(pr) /\ Len(pr) \in Nat /\ Files' = Files /\ Text' = Text
        /\ MaxCalls \in Nat \ {0} /\ Text \subseteq Files
    BY FileTypes, Sizes DEF TypeOK, SplitAgain, Files, Text
  <1>1. /\ packer' = "files" /\ prompt' = FilesPrompt /\ phase' = "pack"
        /\ pos' = 1 /\ total' = FilesPrompt /\ chunk' = {} /\ chunks' = <<>>
        /\ pending' = Files /\ left' = {} /\ calls' = 1 /\ named' = {}
    BY DEF SplitAgain, PackInv, WholeFits, RoundOver
  <1>2. InChunks' = {} /\ WithinLimit' /\ Disjoint' /\ CallsBounded'
    BY <1>0, <1>1 DEF InChunks, WithinLimit, Disjoint, CallsBounded
  <1>3. Building'
    BY <1>0, <1>1, <1>2 DEF Building, InBudget
  <1>4. RoundPack'
    <2>1. \A f \in Text' : f \in pending' /\ f >= pos'
      BY <1>0, <1>1
    <2> QED
      BY <1>0, <1>1, <1>2, <2>1 DEF RoundPack
  <1> QED
    BY <1>1, <1>2, <1>3, <1>4 DEF PackInv, Measuring, MultiPack, NoFileTwice, NothingDropped

LEMMA StepPack == TypeOK /\ PackInv /\ [Next]_vars => PackInv'
  <1> SUFFICES ASSUME TypeOK, PackInv, [Next]_vars PROVE PackInv'
    OBVIOUS
  <1>1. CASE UNCHANGED vars
    BY <1>1 DEF vars, input, PackInv, Measuring, Building, MultiPack, RoundPack, WithinLimit,
       InBudget, Fits, NoFileTwice, Disjoint, CallsBounded, NothingDropped, Dropped, Room, Moderate,
       Shown, InChunks, Text, Files
  <1>2. CASE Next
    BY <1>2, MeasureSteps, MultiSteps, RoundFileSteps, RoundEndSteps, SplitAgainStep DEF Next
  <1> QED
    BY <1>1, <1>2

(***************************************************************************)
(* The theorems.                                                           *)
(***************************************************************************)

\* The invariant that the loops of the packers keep.
THEOREM Packing == Spec => []PackInv
  <1>1. Init => TypeOK /\ PackInv
    BY InitTypes, InitPack
  <1>2. TypeOK /\ PackInv /\ [Next]_vars => (TypeOK /\ PackInv)'
    BY StepTypes, StepPack
  <1> QED
    BY <1>1, <1>2, PTL DEF Spec

\* No call exceeds its budget, and no file is shown in two calls.
THEOREM ChunksSound == Spec => [](WithinLimit /\ NoFileTwice /\ CallsBounded)
  BY Packing, PTL DEF PackInv

\* No file with a patch disappears without being shown, left or named.
THEOREM FilesAccounted == Spec => []NothingDropped
  BY Packing, PTL DEF PackInv

(***************************************************************************)
(* Calls are filled.                                                       *)
(***************************************************************************)

\* What has been said of the finished chunks holds until one is added.
LEMMA FitKept ==
  ASSUME NextFit, UNCHANGED <<pr, packer, policy, prompt, chunks>>
  PROVE  NextFit'
  BY DEF NextFit, Packed, Softly, Fits

LEMMA MeasureFills ==
  ASSUME TypeOK, PackInv, FillInv, ExtendFile \/ ReturnWhole \/ StartPacking
  PROVE  FillInv'
  <1>1. /\ phase = "extend" /\ chunks = <<>> /\ chunk = {} /\ left = {} /\ left' = {} /\ calls = 1
        /\ UNCHANGED <<pr, packer, policy, prompt>>
    BY DEF PackInv, Measuring, ExtendFile, ReturnWhole, WholeFits, StartPacking, input
  <1>2. RoundsNotWasted'
    BY <1>1 DEF RoundsNotWasted
  <1>3. CASE phase' # "done"
    <2>1. chunks' = <<>> /\ calls' = 1
      BY <1>1, <1>3 DEF ExtendFile, ReturnWhole, StartPacking
    <2>2. NextFit'
      BY <1>1, <2>1, FitKept DEF FillInv, CallsFilled
    <2>3. MultiFirst'
      BY <2>1 DEF MultiFirst
    <2>4. RoundsFull'
      BY <1>1, <2>1 DEF RoundsFull
    <2> QED
      BY <1>2, <2>2, <2>3, <2>4 DEF FillInv, CallsFilled
  <1>4. CASE phase' = "done"
    <2>1. \A i : ~(i \in DOMAIN chunks' /\ i + 1 \in DOMAIN chunks')
      BY <1>1, <1>4 DEF ExtendFile, ReturnWhole, StartPacking
    <2>2. NextFit'
      BY <2>1 DEF NextFit
    <2> QED
      BY <1>2, <1>4, <2>2 DEF FillInv, CallsFilled, MultiFirst, RoundsFull
  <1> QED
    BY <1>3, <1>4

LEMMA ClosedChunk ==
  ASSUME TypeOK, chunks' = Closed(chunk, total)
  PROVE  /\ Len(chunks') = Len(chunks) + 1 /\ Len(chunks) \in Nat
         /\ DOMAIN chunks' = DOMAIN chunks \cup {Len(chunks) + 1} /\ DOMAIN chunks = 1 .. Len(chunks)
         /\ \A i \in DOMAIN chunks : chunks'[i] = chunks[i]
         /\ chunks'[Len(chunks) + 1] = [files |-> chunk, tokens |-> total]
  <1>1. chunk \in SUBSET Files /\ total \in Nat
    BY DEF TypeOK
  <1> QED
    BY <1>1, ClosedTypes

\* A chunk that is closed follows one that had no room for its first patch.
LEMMA FitClosed ==
  ASSUME TypeOK, PackInv, FillInv, phase = "pack", packer = "multi",
         UNCHANGED <<pr, packer, policy, prompt>>, chunks' = Closed(chunk, total)
  PROVE  NextFit' /\ chunks' # <<>> /\ chunks'[Len(chunks')].tokens = total
  <1>1. /\ Len(chunks') = Len(chunks) + 1 /\ Len(chunks) \in Nat
        /\ DOMAIN chunks' = DOMAIN chunks \cup {Len(chunks) + 1} /\ DOMAIN chunks = 1 .. Len(chunks)
        /\ \A i \in DOMAIN chunks : chunks'[i] = chunks[i]
        /\ chunks'[Len(chunks) + 1] = [files |-> chunk, tokens |-> total]
    BY ClosedChunk
  <1>2. \A f : Packed(pr[f])' = Packed(pr[f])
    BY DEF Packed, Softly
  <1>3. SUFFICES ASSUME NEW i \in DOMAIN chunks', i + 1 \in DOMAIN chunks'
                 PROVE  \E f \in chunks'[i + 1].files :
                          /\ \A g \in chunks'[i + 1].files : f =< g
                          /\ ~Fits(chunks'[i].tokens + Packed(pr[f]))
    BY <1>1 DEF NextFit, Packed, Softly, Fits
  <1>4. CASE i + 1 \in DOMAIN chunks
    <2>1. i \in DOMAIN chunks
      BY <1>1, <1>4
    <2> QED
      BY <1>1, <1>4, <2>1 DEF FillInv, CallsFilled, NextFit
  <1>5. CASE i + 1 \notin DOMAIN chunks
    <2>1. i = Len(chunks) /\ i \in DOMAIN chunks /\ chunks # <<>>
      BY <1>1, <1>3, <1>5
    <2>2. PICK f \in chunk : (\A g \in chunk : f =< g) /\ ~Fits(chunks[i].tokens + Packed(pr[f]))
      <3>1. MultiFirst
        BY DEF FillInv
      <3> QED
        BY <2>1, <3>1 DEF MultiFirst
    <2>3. chunks'[i] = chunks[i]
      <3>1. \A j \in DOMAIN chunks : chunks'[j] = chunks[j]
        BY ClosedChunk
      <3> QED
        BY <2>1, <3>1
    <2>4. chunks'[i + 1] = [files |-> chunk, tokens |-> total]
      BY <1>1, <2>1
    <2>5. chunks'[i + 1].files = chunk
      BY <2>4
    <2> QED
      BY <2>2, <2>3, <2>5
  <1> QED
    BY <1>4, <1>5

LEMMA MultiFills ==
  ASSUME TypeOK, PackInv, FillInv, SkipPatch \/ AddPatch \/ NextChunk \/ LastChunk
  PROVE  FillInv'
  <1>1. /\ phase = "pack" /\ packer = "multi" /\ UNCHANGED <<pr, packer, policy, prompt>>
    BY DEF SkipPatch, AddPatch, NextChunk, LastChunk, Packs, Pass, input
  <1>2. RoundsNotWasted' /\ RoundsFull'
    BY <1>1 DEF RoundsNotWasted, RoundsFull
  <1>3. \A f : Packed(pr[f])' = Packed(pr[f])
    BY <1>1 DEF Packed, Softly
  <1>4. CASE SkipPatch \/ AddPatch
    <2>1. chunks' = chunks /\ phase' = phase /\ pos \in Files
          /\ (chunk' = chunk \/ chunk' = chunk \cup {pos})
      BY <1>4 DEF SkipPatch, AddPatch, Packs, Pass
    <2>2. \A f \in chunk : f < pos /\ f \in Nat
      BY <1>1, FileTypes DEF PackInv, Building, TypeOK
    <2>3. pos \in Nat
      BY DEF TypeOK
    <2>4. MultiFirst'
      BY <1>1, <1>3, <2>1, <2>2, <2>3 DEF FillInv, MultiFirst, Fits, Packed, Softly
    <2>5. NextFit'
      BY <1>1, <2>1, FitKept DEF FillInv, CallsFilled
    <2> QED
      BY <1>2, <2>4, <2>5 DEF FillInv, CallsFilled
  <1>5. CASE NextChunk
    <2>1. chunks' = Closed(chunk, total) /\ ~Softly(total + Packed(Here))
      BY <1>5 DEF NextChunk
    <2>2. NextFit' /\ chunks'[Len(chunks')].tokens = total
      BY <1>1, <2>1, FitClosed
    <2>3. phase' = "pack" => chunk' = {pos}
      BY <1>5 DEF NextChunk
    <2>4. ~Fits(total + Packed(pr[pos])) /\ pos =< pos
      BY <2>1 DEF Fits, Softly, Here, TypeOK
    <2>5. MultiFirst'
      BY <1>1, <1>3, <2>2, <2>3, <2>4 DEF MultiFirst, Fits, Packed, Softly
    <2> QED
      BY <1>2, <2>2, <2>5 DEF FillInv, CallsFilled
  <1>6. CASE LastChunk
    <2>1. phase' = "done" /\ (chunks' = chunks \/ chunks' = Closed(chunk, total))
      BY <1>6 DEF LastChunk
    <2>2. NextFit'
      BY <1>1, <2>1, FitClosed, FitKept DEF FillInv, CallsFilled
    <2> QED
      BY <1>2, <2>1, <2>2 DEF FillInv, CallsFilled, MultiFirst
  <1> QED
    BY <1>4, <1>5, <1>6

\* A file that fits alone is left only when others have been packed.
LEMMA RoundFileFills ==
  ASSUME TypeOK, PackInv, FillInv, NotInRound \/ HardStop \/ TooLarge \/ AddFile
  PROVE  FillInv'
  <1>1. /\ phase = "pack" /\ packer # "multi" /\ phase' = phase
        /\ UNCHANGED <<pr, packer, policy, prompt, chunks, pending, calls>>
    BY DEF NotInRound, HardStop, TooLarge, AddFile, Rounds, InRound, Pass, input
  <1>2. NextFit'
    BY <1>1, FitKept DEF FillInv, CallsFilled
  <1>3. ASSUME NEW f \in left', Fits(prompt + pr[f].tokens) PROVE chunk' # {}
    <2>1. CASE f \in left
      <3>1. chunk # {}
        BY <1>1, <1>3, <2>1 DEF FillInv, RoundsFull
      <3> QED
        BY <3>1 DEF NotInRound, HardStop, TooLarge, AddFile
    <2>2. CASE f \notin left
      <3>1. f = pos /\ TooLarge /\ ~Softly(total + pr[pos].tokens) /\ chunk' = chunk
        BY <1>3, <2>2 DEF NotInRound, HardStop, TooLarge, AddFile, Here
      <3>2. total # prompt
        BY <1>3, <3>1 DEF Softly, Fits
      <3> QED
        BY <1>1, <3>1, <3>2 DEF PackInv, Building
    <2> QED
      BY <2>1, <2>2
  <1>4. RoundsFull'
    BY <1>1, <1>3 DEF FillInv, RoundsFull, Fits
  <1> QED
    BY <1>1, <1>2, <1>4 DEF FillInv, CallsFilled, MultiFirst, RoundsNotWasted

\* While a file that fits alone is left, the round that ends has a chunk.
LEMMA RoundClosed ==
  ASSUME TypeOK, PackInv, FillInv, phase = "pack", packer # "multi",
         NEW f \in left, Fits(prompt + pr[f].tokens), chunks' = RoundChunks
  PROVE  Len(chunks') = calls /\ \A i \in DOMAIN chunks' : chunks'[i].files # {}
  <1>1. f \in pending /\ chunk # {}
    BY DEF PackInv, RoundPack, FillInv, RoundsFull
  <1>2. Len(chunks) = calls - 1 /\ \A i \in DOMAIN chunks : chunks[i].files # {}
    BY <1>1 DEF FillInv, RoundsFull
  <1>3. chunks' = Closed(chunk, total)
    BY <1>1 DEF RoundChunks
  <1>4. /\ Len(chunks') = Len(chunks) + 1 /\ Len(chunks) \in Nat
        /\ DOMAIN chunks' = DOMAIN chunks \cup {Len(chunks) + 1}
        /\ \A i \in DOMAIN chunks : chunks'[i] = chunks[i]
        /\ chunks'[Len(chunks) + 1] = [files |-> chunk, tokens |-> total]
    BY <1>3, ClosedChunk
  <1>5. Len(chunks') = calls
    BY <1>2, <1>4 DEF TypeOK
  <1> QED
    BY <1>1, <1>2, <1>4, <1>5

LEMMA RoundEndFills ==
  ASSUME TypeOK, PackInv, FillInv, NextRound \/ EndRounds \/ SplitAgain
  PROVE  FillInv'
  <1>1. packer # "multi" /\ packer' # "multi" /\ chunks \in Seq([files : SUBSET Files, tokens : Nat])
    BY DEF NextRound, EndRounds, SplitAgain, RoundOver, input, TypeOK
  <1>2. NextFit' /\ MultiFirst'
    BY <1>1 DEF NextFit, MultiFirst
  <1>3. CASE NextRound
    <2>1. /\ phase = "pack" /\ chunks' = RoundChunks /\ pending' = left /\ left' = {}
          /\ calls' = calls + 1 /\ calls \in Nat /\ phase' = "pack"
          /\ UNCHANGED <<pr, packer, policy, prompt>>
      BY <1>3 DEF NextRound, RoundOver, ToPack, input, TypeOK
    <2>2. ASSUME NEW f \in pending', Fits(prompt + pr[f].tokens)
          PROVE  Len(chunks') = calls' - 1 /\ \A i \in DOMAIN chunks' : chunks'[i].files # {}
      BY <1>1, <2>1, <2>2, RoundClosed
    <2>3. RoundsFull'
      BY <2>1, <2>2 DEF RoundsFull, Fits
    <2> QED
      BY <1>2, <2>1, <2>3 DEF FillInv, CallsFilled, RoundsNotWasted
  <1>4. CASE EndRounds
    <2>1. /\ phase = "pack" /\ chunks' = RoundChunks /\ left' = left /\ phase' = "done"
          /\ UNCHANGED <<pr, packer, policy, prompt>>
          /\ packer # "single" => calls >= MaxCalls \/ left = {}
      BY <1>4, Sizes DEF EndRounds, RoundOver, MoreRounds, input, TypeOK
    <2>2. calls =< MaxCalls /\ calls \in Nat /\ MaxCalls \in Nat
      BY <2>1, Sizes DEF PackInv, Building, TypeOK
    <2>3. ASSUME NEW f \in left, Fits(prompt + pr[f].tokens), packer # "single", NEW j \in 1 .. MaxCalls
          PROVE  j \in DOMAIN chunks' /\ chunks'[j].files # {}
      <3>1. Len(chunks') = calls /\ \A i \in DOMAIN chunks' : chunks'[i].files # {}
        BY <1>1, <2>1, <2>3, RoundClosed
      <3>2. calls = MaxCalls
        BY <2>1, <2>2, <2>3
      <3>3. DOMAIN chunks' = 1 .. Len(chunks')
        BY <2>1, RoundChunksTypes
      <3> QED
        BY <3>1, <3>2, <3>3
    <2>4. RoundsNotWasted'
      BY <2>1, <2>3 DEF RoundsNotWasted, Fits
    <2> QED
      BY <1>2, <2>1, <2>4 DEF FillInv, CallsFilled, RoundsFull
  <1>5. CASE SplitAgain
    <2>1. phase' = "pack" /\ chunks' = <<>> /\ left' = {} /\ calls' = 1
      BY <1>5 DEF SplitAgain
    <2>2. RoundsFull'
      BY <2>1 DEF RoundsFull
    <2> QED
      BY <1>2, <2>1, <2>2 DEF FillInv, CallsFilled, RoundsNotWasted
  <1> QED
    BY <1>3, <1>4, <1>5

LEMMA StepFills == TypeOK /\ PackInv /\ FillInv /\ [Next]_vars => FillInv'
  <1> SUFFICES ASSUME TypeOK, PackInv, FillInv, [Next]_vars PROVE FillInv'
    OBVIOUS
  <1>1. CASE UNCHANGED vars
    <2>1. MultiFirst' /\ RoundsFull' /\ RoundsNotWasted'
      BY <1>1 DEF vars, input, FillInv, CallsFilled, MultiFirst, RoundsFull, RoundsNotWasted, Packed, Softly, Fits
    <2>2. NextFit'
      BY <1>1, FitKept DEF vars, input, FillInv, CallsFilled
    <2> QED
      BY <2>1, <2>2 DEF FillInv, CallsFilled
  <1> QED
    BY <1>1, MeasureFills, MultiFills, RoundFileFills, RoundEndFills DEF Next

\* Whatever the pull request and the limits, no call of a model is wasted on
\* what would have fitted into another.
THEOREM CallsAreFilled == Spec => []CallsFilled
  <1>1. Init => TypeOK /\ PackInv /\ FillInv
    <2>1. Init => FillInv
      BY DEF Init, FillInv, MultiFirst, RoundsFull, CallsFilled, RoundsNotWasted, NextFit
    <2> QED
      BY <2>1, InitTypes, InitPack
  <1>2. TypeOK /\ PackInv /\ FillInv /\ [Next]_vars => (TypeOK /\ PackInv /\ FillInv)'
    BY StepTypes, StepPack, StepFills
  <1>3. FillInv => CallsFilled
    BY DEF FillInv
  <1> QED
    BY <1>1, <1>2, <1>3, PTL DEF Spec

-----------------------------------------------------------------------------
(* DiffFiles: one entry.                                                   *)

Patchings == {"given", "computed", None}

\* What is said of the entry of a file: its own contents, and a patch on the
\* hosts that may leave one out, if it has been read.
Tells(e, f, ok) ==
  /\ e \in Entries /\ e.name = f
  /\ \/ host = "bitbucket_server" /\ change[f].type = "rename"
     \/ {e.before, e.after} \subseteq {f, None}
  /\ host \in {"github", "gitlab"} /\ ok => e.patch # None

LEMMA EntryTells ==
  ASSUME NEW f \in Names, NEW b \in Contents, NEW a \in Contents, NEW p \in Patchings, NEW ok,
         (host = "bitbucket_server" /\ change[f].type = "rename") \/ {b, a} \subseteq {f, None},
         host \in {"github", "gitlab"} /\ ok => p # None
  PROVE  Tells(Entry(f, b, a, p), f, ok)
  <1>1. /\ Entry(f, b, a, p) \in Entries
        /\ Entry(f, b, a, p).name = f /\ Entry(f, b, a, p).before = b
        /\ Entry(f, b, a, p).after = a /\ Entry(f, b, a, p).patch = p
    BY DEF Entry, Entries, Contents, Patchings
  <1> QED
    BY <1>1 DEF Tells

\* A side is the file's or missing, and a file that was read has one of them.
LEMMA Sides ==
  ASSUME ListTypeOK, NEW f \in Names, NEW ok
  PROVE  /\ Was(f, ok) \in {f, None} /\ Is(f, ok) \in {f, None} /\ WasNamed(f, ok) \in {f, None}
         /\ {f, None} \subseteq Contents /\ f # None
         /\ ok => /\ Was(f, ok) # None \/ Is(f, ok) # None
                  /\ WasNamed(f, ok) # None \/ Is(f, ok) # None
  BY ListAssumption DEF Was, WasNamed, Is, Existed, Exists, Contents

LEMMA Patched ==
  ASSUME NEW f \in Names, NEW b, NEW a
  PROVE  /\ Computed(f, b, a) \in Patchings /\ Given(f) \in Patchings /\ GivenOr(f, b, a) \in Patchings
         /\ change[f].given \/ b # None \/ a # None => GivenOr(f, b, a) # None
  BY DEF Computed, Given, GivenOr, Patchings, None

LEMMA ListedTells ==
  ASSUME ListTypeOK, NEW f \in Names, NEW ok \in BOOLEAN
  PROVE  Tells(Listed(f, ok), f, ok)
  <1> DEFINE x == ok /\ ~Spares(f)
  <1>1. stale[1] \in Contents /\ stale[2] \in Contents /\ None \in Contents
    BY DEF ListTypeOK, Contents
  <1>2. \A y : /\ Was(f, y) \in Contents /\ WasNamed(f, y) \in Contents /\ Is(f, y) \in Contents
               /\ {Was(f, y), WasNamed(f, y), Is(f, y)} \subseteq {f, None}
    BY Sides
  <1>3. \/ change[f].given \/ ~ok
        \/ /\ Was(f, x) # None \/ Is(f, x) # None
           /\ WasNamed(f, x) # None \/ Is(f, x) # None
    BY Sides DEF Spares
  <1> HIDE DEF x
  <1>4. ASSUME NEW b \in {Was(f, x), WasNamed(f, x)}, host \in {"github", "gitlab"},
               Listed(f, ok) = Entry(f, b, Is(f, x), GivenOr(f, b, Is(f, x)))
        PROVE  Tells(Listed(f, ok), f, ok)
    <2>1. b \in Contents /\ {b, Is(f, x)} \subseteq {f, None}
      BY <1>2, <1>4
    <2>2. GivenOr(f, b, Is(f, x)) \in Patchings /\ (ok => GivenOr(f, b, Is(f, x)) # None)
      BY <1>3, <1>4, Patched
    <2> QED
      BY <1>2, <1>4, <2>1, <2>2, EntryTells
  <1>5a. CASE host = "github"
    BY <1>4, <1>5a DEF Listed, Github, x
  <1>5b. CASE host = "gitlab"
    BY <1>4, <1>5b DEF Listed, Gitlab, x
  <1>5. CASE host = "gitea"
    <2>1. Listed(f, ok) = Entry(f, WasNamed(f, x), Is(f, x), Given(f))
      BY <1>5 DEF Listed, Gitea, x
    <2> QED
      BY <1>2, <1>5, <2>1, Patched, EntryTells
  <1>6. CASE host = "azure"
    <2> DEFINE b == WasNamed(f, ok)
    <2>1. Listed(f, ok) = Entry(f, b, Is(f, ok), Computed(f, b, Is(f, ok)))
      BY <1>6 DEF Listed, Azure
    <2>2. b \in Contents /\ {b, Is(f, ok)} \subseteq {f, None}
      BY <1>1, <1>2
    <2> HIDE DEF b
    <2> QED
      BY <1>2, <1>6, <2>1, <2>2, Patched, EntryTells
  <1>7. CASE host = "bitbucket"
    <2> DEFINE y == ok /\ ~Tight(f)
    <2>1. Listed(f, ok) = Entry(f, Was(f, y), Is(f, y), Given(f))
      BY <1>7 DEF Listed, Bitbucket
    <2> HIDE DEF y
    <2> QED
      BY <1>2, <1>7, <2>1, Patched, EntryTells
  <1>8. CASE host = "bitbucket_server"
    <2> DEFINE b == IF change[f].type = "rename" THEN stale[1] ELSE Was(f, ok)
               a == IF change[f].type = "rename" THEN stale[2] ELSE Is(f, ok)
    <2>1. Listed(f, ok) = Entry(f, b, a, Computed(f, b, a))
      BY <1>8 DEF Listed, BitbucketServer
    <2>2. b \in Contents /\ a \in Contents /\ (change[f].type = "rename" \/ {b, a} \subseteq {f, None})
      BY <1>1, <1>2
    <2> HIDE DEF a, b
    <2> QED
      BY <1>8, <2>1, <2>2, Patched, EntryTells
  <1>9. CASE host = "codecommit"
    <2>1. Listed(f, ok) = Entry(f, Was(f, TRUE), Is(f, TRUE), "computed")
      BY <1>9 DEF Listed, CodeCommit
    <2> QED
      BY <1>2, <1>9, <2>1, EntryTells DEF Patchings
  <1>10. CASE host = "local"
    <2>1. Listed(f, ok) = Entry(f, Was(f, TRUE), Is(f, TRUE), "given")
      BY <1>10 DEF Listed, Local
    <2> QED
      BY <1>2, <1>10, <2>1, EntryTells DEF Patchings
  <1> QED
    BY <1>5a, <1>5b, <1>5, <1>6, <1>7, <1>8, <1>9, <1>10, ListAssumption DEF ListTypeOK

-----------------------------------------------------------------------------
(* DiffFiles: types.                                                       *)

LEMMA NoListIs == NoList \in Seq(Entries) /\ <<>> \in Seq(Entries) /\ None \in Contents
  BY DEF NoList, Entry, Entries, Contents

LEMMA TroubleIs ==
  ASSUME ListTypeOK, NEW ok \in May, Trouble(ok)
  PROVE  /\ ok \in BOOLEAN /\ trouble' \in 0 .. MaxTrouble
         /\ ok => trouble' = trouble
         /\ ~ok => trouble' # 0
         /\ trouble' = 0 => trouble = 0
  <1>0. trouble \in 0 .. MaxTrouble /\ MaxTrouble \in Nat
    BY ListAssumption DEF ListTypeOK
  <1>1. CASE ok = TRUE
    BY <1>0, <1>1 DEF Trouble
  <1>2. CASE ok = FALSE
    <2>1. trouble < MaxTrouble
      BY <1>2 DEF May
    <2>2. trouble' = trouble + 1
      BY <1>2 DEF Trouble
    <2>3. trouble + 1 \in 0 .. MaxTrouble /\ trouble + 1 # 0
      BY <1>0, <2>1
    <2> QED
      BY <1>2, <2>2, <2>3
  <1>3. ok \in BOOLEAN
    BY DEF May
  <1> QED
    BY <1>1, <1>2, <1>3

\* What every call of the host has in common, whatever it returns.
Step ==
  /\ UNCHANGED <<host, change>>
  /\ trouble' \in 0 .. MaxTrouble /\ (trouble' = 0 => trouble = 0)

LEMMA StepIs == ASSUME ListTypeOK, [ListNext]_listVars PROVE Step
  <1>0. trouble \in 0 .. MaxTrouble
    BY DEF ListTypeOK
  <1>1. CASE Ask
    <2>1. CASE UNCHANGED trouble
      BY <1>0, <1>1, <2>1 DEF Ask, Step
    <2>2. CASE \E ok \in May : Trouble(ok)
      BY <1>1, <2>2, TroubleIs DEF Ask, Step
    <2> QED
      BY <1>1, <2>1, <2>2 DEF Ask, May
  <1>2. CASE OneFile
    <2>1. CASE UNCHANGED trouble
      BY <1>0, <1>2, <2>1 DEF OneFile, Step
    <2>2. CASE \E ok \in May : Trouble(ok)
      BY <1>2, <2>2, TroubleIs DEF OneFile, Step
    <2> QED
      BY <1>2, <2>1, <2>2 DEF OneFile
  <1>3. CASE Complete
    BY <1>0, <1>3 DEF Complete, Step
  <1>4. CASE UNCHANGED listVars
    BY <1>0, <1>4 DEF listVars, Step
  <1> QED
    BY <1>1, <1>2, <1>3, <1>4 DEF ListNext

LEMMA ListTypeStep == ListTypeOK /\ [ListNext]_listVars => ListTypeOK'
  <1> SUFFICES ASSUME ListTypeOK, [ListNext]_listVars PROVE ListTypeOK'
    OBVIOUS
  <1>0. /\ host \in Hosts /\ change \in [Names -> Kinds]
        /\ cache \in Seq(Entries) /\ out \in Seq(Entries) /\ served \in Seq(Entries)
        /\ todo \in Seq(Names) /\ stale \in Contents \X Contents
        /\ tries \in 0 .. Tries /\ step \in {"idle", "loop"} /\ asked \in Nat
    BY DEF ListTypeOK
  <1>s. host' = host /\ change' = change /\ trouble' \in 0 .. MaxTrouble
    BY StepIs DEF Step
  <1>n. <<None, None>> \in Contents \X Contents /\ Tries \in 0 .. Tries /\ <<>> \in Seq(Names)
        /\ <<>> \in Seq(Entries) /\ NoList \in Seq(Entries) /\ Changed \in Seq(Names)
    BY NoListIs, ListAssumption
  <1>t. ASSUME cache' \in Seq(Entries), out' \in Seq(Entries), served' \in Seq(Entries),
               todo' \in Seq(Names), stale' \in Contents \X Contents, tries' \in 0 .. Tries,
               step' \in {"idle", "loop"}, asked' \in Nat
        PROVE  ListTypeOK'
    BY <1>0, <1>s, <1>t DEF ListTypeOK
  <1>v. ASSUME NEW list \in Seq(Entries), Serve(list), cache' \in Seq(Entries)
        PROVE  ListTypeOK'
    BY <1>0, <1>n, <1>t, <1>v DEF Serve
  <1>1. CASE Ask
    <2>1. CASE Serve(cache) /\ UNCHANGED <<cache, trouble>>
      BY <1>0, <1>v, <2>1
    <2>2. CASE /\ step' = "loop" /\ todo' = Changed /\ out' = <<>> /\ stale' = <<None, None>>
               /\ cache' = (IF host = "codecommit" THEN <<>> ELSE cache)
               /\ UNCHANGED <<served, asked, tries>>
      BY <1>0, <1>n, <1>t, <2>2
    <2>3. CASE cache' \in {cache, <<>>} /\ (Serve(<<>>) \/ Serve(NoList))
      BY <1>0, <1>n, <1>v, <2>3
    <2>4. CASE /\ cache' = cache /\ tries > 1 /\ tries' = tries - 1
               /\ UNCHANGED <<served, step, asked, todo, out, stale>>
      <3>1. tries' \in 0 .. Tries
        BY <1>0, <2>4, ListAssumption
      <3> QED
        BY <1>0, <1>t, <2>4, <3>1
    <2> QED
      BY <1>1, <2>1, <2>2, <2>3, <2>4 DEF Ask
  <1>2. CASE OneFile
    <2> DEFINE f == Head(todo)
    <2>1. f \in Names /\ Tail(todo) \in Seq(Names)
      BY <1>0, <1>2 DEF OneFile
    <2>2. CASE todo' = Tail(todo) /\ UNCHANGED <<cache, out, stale, tries, served, step, asked, trouble>>
      BY <1>0, <1>t, <2>1, <2>2
    <2>3. CASE Serve(NoList) /\ cache' = cache
      BY <1>0, <1>n, <1>v, <2>3
    <2>4. ASSUME NEW ok \in May, Trouble(ok),
                 todo' = Tail(todo), out' = Append(out, Listed(f, ok)),
                 stale' = (IF host = "bitbucket_server"
                           THEN <<Listed(f, ok).before, Listed(f, ok).after>> ELSE stale),
                 Appended(Listed(f, ok)), UNCHANGED <<tries, served, step, asked>>
          PROVE  ListTypeOK'
      <3>1. ok \in BOOLEAN
        BY <2>4, TroubleIs
      <3>2. PICK e : e = Listed(f, ok)
        OBVIOUS
      <3>3. e \in Entries
        BY <2>1, <3>1, <3>2, ListedTells DEF Tells
      <3>4. e.before \in Contents /\ e.after \in Contents
        BY <3>3 DEF Entries
      <3>5. Append(out, e) \in Seq(Entries) /\ Append(cache, e) \in Seq(Entries)
        BY <1>0, <3>3
      <3>6. cache' \in Seq(Entries) /\ stale' \in Contents \X Contents
        BY <1>0, <2>4, <3>2, <3>4, <3>5 DEF Appended
      <3> QED
        BY <1>0, <1>t, <2>1, <2>4, <3>2, <3>5, <3>6
    <2> QED
      BY <1>2, <2>2, <2>3, <2>4 DEF OneFile
  <1>3. CASE Complete
    BY <1>0, <1>3, <1>v DEF Complete
  <1>4. CASE UNCHANGED listVars
    BY <1>0, <1>4, <1>t DEF listVars
  <1> QED
    BY <1>1, <1>2, <1>3, <1>4 DEF ListNext

-----------------------------------------------------------------------------
(* DiffFiles: no list is shorter than the files it stands for.             *)

LEMMA CoversStays ==
  ASSUME ListTypeOK, [ListNext]_listVars, NEW l, Covers(l)
  PROVE  Covers(l)'
  BY StepIs DEF Step, Covers, NamesIn

LEMMA HeadOrTail ==
  ASSUME NEW S, NEW s \in Seq(S), s # <<>>, NEW i \in DOMAIN s
  PROVE  s[i] = Head(s) \/ \E j \in DOMAIN Tail(s) : Tail(s)[j] = s[i]
  <1>1. CASE i = 1
    BY <1>1
  <1>2. CASE i # 1
    <2>1. i - 1 \in DOMAIN Tail(s) /\ Tail(s)[i - 1] = s[i]
      BY <1>2
    <2> QED
      BY <2>1
  <1> QED
    BY <1>1, <1>2

LEMMA Appends ==
  ASSUME NEW S, NEW s \in Seq(S), NEW e \in S
  PROVE  /\ \A i \in DOMAIN s : i \in DOMAIN Append(s, e) /\ Append(s, e)[i] = s[i]
         /\ \E i \in DOMAIN Append(s, e) : Append(s, e)[i] = e
         /\ \A i \in DOMAIN Append(s, e) : Append(s, e)[i] = e \/ \E j \in DOMAIN s : Append(s, e)[i] = s[j]
  <1>1. /\ Len(s) \in Nat /\ DOMAIN s = 1 .. Len(s) /\ DOMAIN Append(s, e) = 1 .. Len(s) + 1
        /\ Append(s, e)[Len(s) + 1] = e /\ \A i \in 1 .. Len(s) : Append(s, e)[i] = s[i]
    OBVIOUS
  <1>2. Len(s) + 1 \in 1 .. Len(s) + 1 /\ \A i \in 1 .. Len(s) + 1 : i = Len(s) + 1 \/ i \in 1 .. Len(s)
    BY <1>1
  <1> QED
    BY <1>1, <1>2

LEMMA WholeStep == ListTypeOK /\ WholeInv /\ [ListNext]_listVars => WholeInv'
  <1> SUFFICES ASSUME ListTypeOK, WholeInv, [ListNext]_listVars PROVE WholeInv'
    OBVIOUS
  <1>s. host' = host /\ change' = change
    BY StepIs DEF Step
  <1>0. CASE ~Sound
    BY <1>0, <1>s DEF WholeInv, Sound, Failing
  <1>a. CASE Sound
    <2>0. LoopInv /\ Covers(cache) /\ Covers(served) /\ host \notin {"codecommit", "azure", "bitbucket", "gitea"}
      BY <1>a DEF WholeInv, Sound, Failing
    <2>n. Covers(NoList)
      BY DEF Covers
    <2>t. ASSUME LoopInv', \E l : cache' = l /\ Covers(l), \E l : served' = l /\ Covers(l)
          PROVE  WholeInv'
      <3>1. PICK c : cache' = c /\ Covers(c)
        BY <2>t
      <3>2. PICK d : served' = d /\ Covers(d)
        BY <2>t
      <3>3. Covers(c)' /\ Covers(d)'
        BY <3>1, <3>2, CoversStays
      <3>4. Covers(cache)' /\ Covers(served)'
        BY <3>1, <3>2, <3>3 DEF Covers, NamesIn
      <3> QED
        BY <2>t, <3>4 DEF WholeInv
    <2>v. ASSUME NEW list, Covers(list), Serve(list), \E l : cache' = l /\ Covers(l)
          PROVE  WholeInv'
      <3>1. LoopInv'
        BY <2>v DEF Serve, LoopInv
      <3> QED
        BY <2>t, <2>v, <3>1 DEF Serve
    <2>1. CASE Ask
      <3>1. CASE Serve(cache) /\ UNCHANGED cache
        BY <2>0, <2>v, <3>1
      <3>2. CASE todo' = Changed /\ cache' = cache /\ UNCHANGED served
        <4>1. ASSUME NEW f \in Names PROVE \E i \in DOMAIN Changed : Changed[i] = f
          BY DEF Names
        <4>2. LoopInv'
          BY <3>2, <4>1 DEF LoopInv
        <4> QED
          BY <2>0, <2>t, <3>2, <4>2
      <3>3. CASE cache' = cache /\ Serve(NoList)
        BY <2>0, <2>n, <2>v, <3>3
      <3>4. CASE cache' = cache /\ UNCHANGED <<served, step, todo, out>> /\ step = "idle"
        BY <2>0, <2>t, <3>4 DEF LoopInv
      <3> QED
        BY <2>0, <2>1, <3>1, <3>2, <3>3, <3>4 DEF Ask
    <2>2. CASE OneFile
      <3> DEFINE g == Head(todo)
      <3>0. /\ step = "loop" /\ todo # <<>> /\ todo \in Seq(Names) /\ g \in Names
            /\ out \in Seq(Entries)
        BY <2>2 DEF OneFile, ListTypeOK
      <3>1. \A i \in DOMAIN todo : todo[i] = g \/ \E j \in DOMAIN Tail(todo) : Tail(todo)[j] = todo[i]
        BY <3>0, HeadOrTail
      <3>2. CASE ~Keeps(g) /\ todo' = Tail(todo) /\ UNCHANGED <<cache, out, served, step>>
        <4>1. ~change[g].kept
          BY <2>0, <3>2 DEF Keeps
        <4>2. \A f \in Names : change[f].kept => NamesIn(out, f) \/ \E j \in DOMAIN Tail(todo) : Tail(todo)[j] = f
          BY <2>0, <3>0, <3>1, <4>1 DEF LoopInv
        <4>3. PICK t : t = Tail(todo)
          OBVIOUS
        <4>4. todo' = t /\ \A f \in Names : change[f].kept => NamesIn(out, f) \/ \E j \in DOMAIN t : t[j] = f
          BY <3>2, <4>2, <4>3
        <4>5. LoopInv'
          BY <1>s, <3>2, <4>4 DEF LoopInv, NamesIn
        <4> QED
          BY <2>0, <2>t, <3>2, <4>5
      <3>3. CASE Serve(NoList) /\ cache' = cache
        BY <2>0, <2>n, <2>v, <3>3
      <3>4. ASSUME NEW ok \in May, Trouble(ok), todo' = Tail(todo), out' = Append(out, Listed(g, ok)),
                   Appended(Listed(g, ok)), UNCHANGED <<served, step>>
            PROVE  WholeInv'
        <4>1. ok \in BOOLEAN
          BY <3>4, TroubleIs
        <4>2. PICK e : e = Listed(g, ok)
          OBVIOUS
        <4>3. e \in Entries /\ e.name = g
          BY <3>0, <4>1, <4>2, ListedTells DEF Tells
        <4>4. \A f : NamesIn(out, f) \/ f = g => NamesIn(Append(out, e), f)
          BY <3>0, <4>3, Appends DEF NamesIn
        <4>5. LoopInv'
          <5>1. PICK t : t = Tail(todo)
            OBVIOUS
          <5>2. PICK o : o = Append(out, e)
            OBVIOUS
          <5>3. \A f \in Names : change[f].kept => NamesIn(o, f) \/ \E j \in DOMAIN t : t[j] = f
            BY <2>0, <3>0, <3>1, <4>4, <5>1, <5>2 DEF LoopInv
          <5> QED
            BY <1>s, <3>4, <4>2, <5>1, <5>2, <5>3 DEF LoopInv, NamesIn
        <4>6. cache' = cache
          BY <2>0, <3>4 DEF Appended
        <4> QED
          BY <2>0, <2>t, <3>4, <4>5, <4>6
      <3> QED
        BY <2>2, <3>2, <3>3, <3>4 DEF OneFile
    <2>3. CASE Complete
      <3>1. Covers(out)
        BY <2>0, <2>3 DEF Complete, LoopInv, Covers
      <3> QED
        BY <2>3, <2>v, <3>1 DEF Complete
    <2>4. CASE UNCHANGED listVars
      BY <1>s, <2>0, <2>4, <2>t DEF listVars, LoopInv, NamesIn
    <2> QED
      BY <2>1, <2>2, <2>3, <2>4 DEF ListNext
  <1> QED
    BY <1>0, <1>a

-----------------------------------------------------------------------------
(* DiffFiles: every entry is its file's.                                   *)

Servable(list) == list # NoList => Properly(list)

LEMMA ProperStays ==
  ASSUME ListTypeOK, [ListNext]_listVars, NEW l
  PROVE  (Properly(l) => Properly(l)') /\ (Servable(l) => Servable(l)')
  BY StepIs DEF Step, Servable, Properly, Proper

LEMMA EntriesStep == ListTypeOK /\ EntriesInv /\ [ListNext]_listVars => EntriesInv'
  <1> SUFFICES ASSUME ListTypeOK, EntriesInv, [ListNext]_listVars PROVE EntriesInv'
    OBVIOUS
  <1>s. host' = host /\ change' = change
    BY StepIs DEF Step
  <1>0. Servable(cache) /\ Properly(out) /\ Servable(served)
    BY DEF EntriesInv, Servable
  <1>n. Servable(NoList) /\ Servable(<<>>) /\ Properly(<<>>)
    BY DEF Servable, Properly
  <1>t. ASSUME \E l : cache' = l /\ Servable(l)', \E l : out' = l /\ Properly(l)',
               \E l : served' = l /\ Servable(l)'
        PROVE  EntriesInv'
    <2>1. PICK c : cache' = c /\ Servable(c)'
      BY <1>t
    <2>2. PICK o : out' = o /\ Properly(o)'
      BY <1>t
    <2>3. PICK d : served' = d /\ Servable(d)'
      BY <1>t
    <2> QED
      BY <2>1, <2>2, <2>3 DEF EntriesInv, Servable, Properly, Proper
  <1>k. ASSUME NEW l PROVE (Properly(l) => Properly(l)') /\ (Servable(l) => Servable(l)')
    BY ProperStays
  <1>c. (\E l : cache = l /\ Servable(l)') /\ (\E l : out = l /\ Properly(l)') /\ (\E l : served = l /\ Servable(l)')
    <2>1. PICK c : c = cache
      OBVIOUS
    <2>2. PICK o : o = out
      OBVIOUS
    <2>3. PICK d : d = served
      OBVIOUS
    <2> QED
      BY <1>0, <1>k, <2>1, <2>2, <2>3
  <1>v. ASSUME NEW list, Servable(list), Serve(list), \E l : cache' = l /\ Servable(l)'
        PROVE  EntriesInv'
    BY <1>k, <1>n, <1>t, <1>v DEF Serve
  <1>1. CASE Ask
    <2>1. CASE Serve(cache) /\ UNCHANGED cache
      BY <1>0, <1>c, <1>v, <2>1
    <2>2. CASE out' = <<>> /\ (cache' = <<>> \/ cache' = cache) /\ UNCHANGED served
      <3>1. Properly(<<>>)' /\ Servable(<<>>)'
        BY DEF Properly, Servable
      <3>2. \E l : out' = l /\ Properly(l)'
        BY <2>2, <3>1
      <3>3. \E l : cache' = l /\ Servable(l)'
        BY <1>c, <2>2, <3>1
      <3> QED
        BY <1>c, <1>t, <2>2, <3>2, <3>3
    <2>3. CASE cache' \in {cache, <<>>} /\ (Serve(<<>>) \/ Serve(NoList))
      <3>1. Servable(<<>>)'
        BY DEF Properly, Servable
      <3>2. \E l : cache' = l /\ Servable(l)'
        BY <1>c, <2>3, <3>1
      <3> QED
        BY <1>n, <1>v, <2>3, <3>2
    <2>4. CASE cache' = cache /\ UNCHANGED <<served, out>>
      BY <1>c, <1>t, <2>4
    <2>5. \/ Serve(cache) /\ UNCHANGED cache
          \/ out' = <<>> /\ (cache' = <<>> \/ cache' = cache) /\ UNCHANGED served
          \/ cache' \in {cache, <<>>} /\ (Serve(<<>>) \/ Serve(NoList))
          \/ cache' = cache /\ UNCHANGED <<served, out>>
      BY <1>1 DEF Ask
    <2> QED
      BY <2>1, <2>2, <2>3, <2>4, <2>5
  <1>2. CASE OneFile
    <2> DEFINE g == Head(todo)
    <2>0. g \in Names /\ out \in Seq(Entries) /\ cache \in Seq(Entries)
      BY <1>2 DEF OneFile, ListTypeOK
    <2>1. CASE UNCHANGED <<cache, out, served>>
      BY <1>c, <1>t, <2>1
    <2>2. CASE Serve(NoList) /\ cache' = cache
      BY <1>c, <1>n, <1>v, <2>2
    <2>3. ASSUME NEW ok \in May, Trouble(ok), out' = Append(out, Listed(g, ok)),
                 Appended(Listed(g, ok)), UNCHANGED served
          PROVE  EntriesInv'
      <3>1. ok \in BOOLEAN /\ (trouble' = 0 => ok)
        BY <2>3, TroubleIs
      <3>2. PICK e : e = Listed(g, ok)
        OBVIOUS
      <3>3. Tells(e, g, ok)
        BY <2>0, <3>1, <3>2, ListedTells
      <3>4. e \in Entries /\ Proper(e)'
        BY <1>s, <3>1, <3>3 DEF Tells, Proper
      <3>5. ASSUME NEW l \in Seq(Entries), Properly(l) PROVE Properly(Append(l, e))'
        <4>1. ASSUME NEW j \in DOMAIN l PROVE Proper(l[j])'
          BY <1>k, <3>5 DEF Properly
        <4>2. \A i \in DOMAIN Append(l, e) : Proper(Append(l, e)[i])'
          BY <3>4, <4>1, Appends
        <4> QED
          BY <4>2 DEF Properly
      <3>6. \E l : out' = l /\ Properly(l)'
        <4>1. PICK l \in Seq(Entries) : l = out
          BY <2>0
        <4> QED
          BY <1>0, <2>3, <3>2, <3>5, <4>1
      <3>7. \E l : cache' = l /\ Servable(l)'
        <4>1. CASE host = "codecommit"
          <5>1. PICK l \in Seq(Entries) : l = cache
            BY <2>0
          <5>2. Properly(l)
            BY <1>0, <4>1, <5>1 DEF Servable, Properly, Proper, NoList, Entry
          <5>3. Servable(Append(l, e))'
            BY <3>5, <5>2 DEF Servable
          <5> QED
            BY <2>3, <3>2, <4>1, <5>1, <5>3 DEF Appended
        <4>2. CASE host # "codecommit"
          BY <1>c, <2>3, <4>2 DEF Appended
        <4> QED
          BY <4>1, <4>2
      <3> QED
        BY <1>c, <1>t, <2>3, <3>6, <3>7
    <2>4. \/ UNCHANGED <<cache, out, served>>
          \/ Serve(NoList) /\ cache' = cache
          \/ \E ok \in May : /\ Trouble(ok) /\ out' = Append(out, Listed(g, ok))
                            /\ Appended(Listed(g, ok)) /\ UNCHANGED served
      BY <1>2 DEF OneFile
    <2> QED
      BY <2>1, <2>2, <2>3, <2>4
  <1>3. CASE Complete
    <2>1. PICK o : o = out
      OBVIOUS
    <2>2. Servable(o) /\ Serve(o) /\ cache' = o
      BY <1>0, <1>3, <2>1 DEF Complete, Servable
    <2> QED
      BY <1>k, <1>v, <2>2
  <1>4. CASE UNCHANGED listVars
    BY <1>4, <1>c, <1>t DEF listVars
  <1> QED
    BY <1>1, <1>2, <1>3, <1>4 DEF ListNext

-----------------------------------------------------------------------------
(* DiffFiles: the theorems.                                                *)

ListInv == ListTypeOK /\ WholeInv /\ EntriesInv

LEMMA InitListInv == ListInit => ListInv
  <1> SUFFICES ASSUME ListInit PROVE ListInv
    OBVIOUS
  <1>1. ListTypeOK
    BY NoListIs, ListAssumption DEF ListInit, ListTypeOK
  <1>2. WholeInv
    BY DEF ListInit, WholeInv, LoopInv, Covers
  <1>3. EntriesInv
    BY DEF ListInit, EntriesInv, Properly
  <1> QED
    BY <1>1, <1>2, <1>3 DEF ListInv

LEMMA ListInvStep == ListInv /\ [ListNext]_listVars => ListInv'
  BY ListTypeStep, WholeStep, EntriesStep DEF ListInv

\* For any changed files, limits, retries and failures, the list under way, the
\* one that is cached and the one that was returned are lists of entries, in
\* each provider's get_diff_files.
THEOREM ListTypeCorrect == ListSpec => []ListTypeOK
  <1>1. ListInv => ListTypeOK
    BY DEF ListInv
  <1> QED
    BY <1>1, InitListInv, ListInvStep, PTL DEF ListSpec

\* On GitHub, GitLab, Bitbucket Server and the working copies, a list that
\* get_diff_files returns, from its cache or not, names every file that passes
\* the filters, whichever reads have failed and however often it is asked.
THEOREM ListsWhole == ListSpec => []WholeOrFailed
  <1>1. ListInv => WholeOrFailed
    <2> SUFFICES ASSUME ListInv, Sound, served # NoList, NEW f \in Names, change[f].kept
                 PROVE  \E e \in Got : e.name = f
      BY DEF WholeOrFailed, WholeList, Sound
    <2>1. PICK i \in DOMAIN served : served[i].name = f
      BY DEF ListInv, WholeInv, Covers, NamesIn
    <2> QED
      BY <2>1 DEF Got
  <1> QED
    BY <1>1, InitListInv, ListInvStep, PTL DEF ListSpec

\* On every host, and for files of any kind, an entry of a list that is returned
\* holds the contents of its own file and of no other (renames on Bitbucket
\* Server aside), and has a patch on GitHub and GitLab unless a read has failed.
THEOREM FilesOwn == ListSpec => []OwnFile
  <1>1. ListInv => OwnFile
    <2> SUFFICES ASSUME ListInv, NEW e \in Got
                 PROVE  /\ \/ host = "bitbucket_server" /\ change[e.name].type = "rename"
                           \/ {e.before, e.after} \subseteq {e.name, None}
                        /\ host \in {"github", "gitlab"} /\ trouble = 0 => e.patch # None
      BY DEF OwnFile, OwnContents, HasPatch
    <2>1. served # NoList /\ \E i \in DOMAIN served : e = served[i]
      BY DEF Got
    <2>2. Proper(e)
      BY <2>1 DEF ListInv, EntriesInv, Properly
    <2> QED
      BY <2>2 DEF Proper
  <1> QED
    BY <1>1, InitListInv, ListInvStep, PTL DEF ListSpec
-----------------------------------------------------------------------------
(***************************************************************************)
(* Describe.                                                               *)

\* The first k members of a set: all of them if there are no more, and no
\* fewer than k otherwise.
FirstsOf(S, k) == {f \in S : Cardinality({g \in S : g <= f}) <= k}

LEMMA FirstOf ==
  ASSUME NEW S \in SUBSET Int, IsFiniteSet(S), NEW k \in Nat
  PROVE  /\ Cardinality(S) <= k => FirstsOf(S, k) = S
         /\ Cardinality(S) > k => Cardinality(FirstsOf(S, k)) >= k
  <1> DEFINE upTo(f) == {g \in S : g <= f}
             D == {f \in S : Cardinality(upTo(f)) <= k}
             up == Ascending(S)
  <1>0. Cardinality(S) \in Nat
    BY FS_CardinalityType
  <1>1. ASSUME Cardinality(S) <= k
        PROVE  D = S
    <2>1. ASSUME NEW f \in S
          PROVE  f \in D
      <3>1. upTo(f) \in SUBSET S
        OBVIOUS
      <3> HIDE DEF upTo
      <3>2. IsFiniteSet(upTo(f)) /\ Cardinality(upTo(f)) <= Cardinality(S)
        BY <3>1, FS_Subset
      <3>3. Cardinality(upTo(f)) \in Nat
        BY <3>2, FS_CardinalityType
      <3> QED
        BY <1>0, <1>1, <3>2, <3>3
    <2> QED
      BY <2>1
  <1>2. ASSUME Cardinality(S) > k
        PROVE  Cardinality(D) >= k
    <2> DEFINE h == [n \in 1 .. k |-> up[n]]
    <2>1. /\ up \in [1 .. Cardinality(S) -> S]
          /\ \A n \in 1 .. Cardinality(S) : Rank(S, up[n]) = n - 1
          /\ \A m, n \in 1 .. Cardinality(S) : m < n => up[m] < up[n]
      BY Ascends
    <2> HIDE DEF up
    <2>2. \A n \in 1 .. k : n \in 1 .. Cardinality(S)
      BY <1>0, <1>2
    <2>3. ASSUME NEW n \in 1 .. k
          PROVE  up[n] \in D
      <3> DEFINE f == up[n]
      <3>1. f \in S /\ f \in Int /\ Rank(S, f) = n - 1
        BY <2>1, <2>2
      <3> HIDE DEF f
      <3>2. Rank(S, f + 1) = Rank(S, f) + Cardinality(S \cap (f .. (f + 1) - 1))
        BY <3>1, RankSplit
      <3>3. S \cap (f .. (f + 1) - 1) = {f}
        BY <3>1
      <3>4. Cardinality({f}) = 1
        BY FS_Singleton
      <3>5. Rank(S, f + 1) = n
        BY <3>1, <3>2, <3>3, <3>4
      <3>6. \A g \in S : g <= f <=> g < f + 1
        <4>1. \A g \in S : g \in Int
          OBVIOUS
        <4> QED
          BY <3>1, <4>1
      <3>7. upTo(f) = {g \in S : g < f + 1}
        BY <3>6
      <3>8. Cardinality(upTo(f)) = n
        BY <3>5, <3>7 DEF Rank
      <3> HIDE DEF upTo
      <3>9. f \in D
        BY <3>1, <3>8
      <3> QED
        BY <3>9 DEF f
    <2>4. h \in [1 .. k -> D]
      BY <2>3
    <2>5. \A m, n \in 1 .. k : h[m] = h[n] => m = n
      <3> SUFFICES ASSUME NEW m \in 1 .. k, NEW n \in 1 .. k, m # n
                   PROVE  h[m] # h[n]
        OBVIOUS
      <3>1. up[m] \in Int /\ up[n] \in Int
        BY <2>1, <2>2
      <3>2. m < n \/ n < m
        OBVIOUS
      <3>3. up[m] < up[n] \/ up[n] < up[m]
        BY <2>1, <2>2, <3>2
      <3> QED
        BY <3>1, <3>3
    <2> HIDE DEF h
    <2>6. h \in Injection(1 .. k, D)
      BY <2>4, <2>5, Fun_IsInj
    <2>7. D \in SUBSET S
      OBVIOUS
    <2> HIDE DEF D
    <2>8. IsFiniteSet(D)
      BY <2>7, FS_Subset
    <2>9. Cardinality(1 .. k) = k
      BY FS_Interval
    <2> QED
      BY <2>6, <2>8, <2>9, FS_Injection
  <1>3. FirstsOf(S, k) = D
    BY DEF FirstsOf
  <1> QED
    BY <1>1, <1>2, <1>3

\* The entries of a walkthrough, or of a table: files of the pull request, and
\* the one that says there are more.
FileEntries == [file : 0 .. number, summary : BOOLEAN, complete : BOOLEAN]
Predicted == [file : AllFiles, summary : BOOLEAN, complete : BOOLEAN]
Told == [told : BOOLEAN, valid : BOOLEAN, cut : BOOLEAN, entries : SUBSET Predicted]

\* What is true of the files that some entries name.
TrueOf(listed) ==
  /\ number > Threshold /\ listed # {} => AllFiles \subseteq listed \cup LeftOut \/ Ellipsis \in listed \/ CutOff
  /\ Ellipsis \in listed => Cardinality(listed \ {Ellipsis}) >= MaxExtra

DescribeInv ==
  /\ number \in Nat
  /\ whole \in BOOLEAN
  /\ results \in [1 .. MaxChunks -> Told]
  /\ fileLabels \subseteq FileEntries
  /\ progress = "render" => TrueOf({e.file : e \in fileLabels})
  /\ progress # "done" => table = {} /\ ~broken
  /\ ~broken => TrueOf(table)

\* It depends on what the calls have said, which the end of a run leaves alone.
LEMMA TruthStays ==
  ASSUME UNCHANGED <<number, place, whole, results>>
  PROVE  LeftOut' = LeftOut /\ (CutOff' <=> CutOff) /\ AllFiles' = AllFiles
  <1>1. Answering' = Answering
    BY DEF Answering, Calls, Asked, AllFiles
  <1>2. LeftOut' = LeftOut /\ (CutOff' <=> CutOff)
    BY <1>1 DEF LeftOut, CutOff, Walkthrough
  <1> QED
    BY <1>2 DEF AllFiles

\* Nothing is true of nothing listed.
LEMMA TrueOfNothing == TrueOf({})
  BY DEF TrueOf

LEMMA InitDescribes == DescribeInit => DescribeInv
  <1> SUFFICES ASSUME DescribeInit
               PROVE  DescribeInv
    OBVIOUS
  <1>1. number \in Nat
    BY DescribeBounds DEF DescribeInit
  <1>2. Pending \in Told
    BY DEF Pending, Told
  <1>3. results \in [1 .. MaxChunks -> Told]
    BY <1>2 DEF DescribeInit
  <1> QED
    BY <1>1, <1>3, TrueOfNothing DEF DescribeInit, DescribeInv

\* The entries of the predictions name files of the pull request.
LEMMA WalkthroughType ==
  ASSUME DescribeInv
  PROVE  /\ Walkthrough \subseteq Predicted
         /\ ~Loads => Walkthrough = {}
  <1>1. ASSUME NEW e \in Walkthrough
        PROVE  e \in Predicted
    <2>1. PICK c \in Calls : e \in results[c].entries
      BY DEF Walkthrough, Answering
    <2>2. c \in 1 .. MaxChunks
      BY <2>1, DescribeBounds DEF Calls, Asked
    <2>3. results[c] \in Told
      BY <2>2 DEF DescribeInv
    <2> QED
      BY <2>1, <2>3 DEF Told
  <1>2. ASSUME ~Loads
        PROVE  Walkthrough = {}
    <2>1. CASE ~whole
      BY <1>2, <2>1 DEF Loads
    <2>2. CASE whole
      <3>1. Answering = {}
        BY <1>2, <2>2 DEF Loads, Calls, Answering
      <3> QED
        BY <3>1 DEF Walkthrough
    <2> QED
      BY <2>1, <2>2
  <1> QED
    BY <1>1, <1>2

\* What the extension lists is true: without a limit on the files, or with.
LEMMA ExtendIsTrue ==
  ASSUME DescribeInv
  PROVE  LET entries == FileLabels(Extend(Walkthrough))
         IN entries \subseteq FileEntries /\ TrueOf({e.file : e \in entries})
  <1> DEFINE raw == Walkthrough
             told == {e.file : e \in raw}
             uncovered == AllFiles \ told
             extra == Extras(told)
             full == Extend(raw)
             entries == FileLabels(full)
             listed == {e.file : e \in entries}
  <1>1. number \in Nat /\ raw \subseteq Predicted
    BY WalkthroughType DEF DescribeInv
  <1>2. told \subseteq AllFiles
    BY <1>1 DEF Predicted
  <1>3. uncovered \in SUBSET Int /\ IsFiniteSet(uncovered)
    <2>1. IsFiniteSet(1 .. number)
      BY <1>1, FS_Interval
    <2>2. uncovered \in SUBSET (1 .. number)
      BY DEF AllFiles
    <2>3. uncovered \in SUBSET Int
      BY DEF AllFiles
    <2> HIDE DEF uncovered
    <2>4. IsFiniteSet(uncovered)
      BY <2>1, <2>2, FS_Subset
    <2> QED
      BY <2>3, <2>4
  <1> HIDE DEF told
  <1>4. /\ Cardinality(uncovered) <= MaxExtra => extra.shown = uncovered
        /\ Cardinality(uncovered) > MaxExtra => Cardinality(extra.shown) >= MaxExtra
        /\ extra.shown \subseteq uncovered
        /\ extra.more = (Cardinality(uncovered) > MaxExtra)
    <2> DEFINE D == FirstsOf(uncovered, MaxExtra)
    <2>1. MaxExtra \in Nat
      BY DescribeBounds
    <2>2. /\ Cardinality(uncovered) <= MaxExtra => D = uncovered
          /\ Cardinality(uncovered) > MaxExtra => Cardinality(D) >= MaxExtra
      <3>1. \A S \in SUBSET Int : \A k \in Nat : IsFiniteSet(S) =>
              /\ Cardinality(S) <= k => FirstsOf(S, k) = S
              /\ Cardinality(S) > k => Cardinality(FirstsOf(S, k)) >= k
        BY FirstOf
      <3> HIDE DEF uncovered
      <3> QED
        BY <1>3, <2>1, <3>1
    <2>3. extra.shown = D /\ extra.more = (Cardinality(uncovered) > MaxExtra)
      BY DEF Extras, FirstsOf
    <2>4. D \subseteq uncovered
      BY DEF FirstsOf
    <2> HIDE DEF D, uncovered, extra
    <2> QED
      BY <2>2, <2>3, <2>4
  <1>5. Cardinality(uncovered) \in Nat /\ MaxExtra \in Nat
    BY <1>3, FS_CardinalityType, DescribeBounds
  <1>6. full = IF ~Loads \/ CutOff THEN raw
               ELSE raw \cup {FileEntry(f, FALSE, TRUE) : f \in extra.shown}
                      \cup IF extra.more THEN {FileEntry(Ellipsis, FALSE, TRUE)} ELSE {}
    BY DEF Extend, told
  <1> HIDE DEF extra, raw, full
  <1>7. \A e \in full : \/ e \in raw
                        \/ \E f \in extra.shown : e = FileEntry(f, FALSE, TRUE)
                        \/ extra.more /\ e = FileEntry(Ellipsis, FALSE, TRUE)
    BY <1>6
  <1>8. full \subseteq FileEntries
    <2>1. AllFiles \subseteq 0 .. number /\ Ellipsis \in 0 .. number
      BY <1>1 DEF AllFiles, Ellipsis
    <2>2. \A e \in raw : e \in FileEntries
      BY <1>1, <2>1 DEF FileEntries, Predicted
    <2>3. \A f \in 0 .. number : FileEntry(f, FALSE, TRUE) \in FileEntries
      BY DEF FileEntry, FileEntries
    <2>4. extra.shown \subseteq AllFiles
      BY <1>4
    <2> QED
      BY <1>7, <2>1, <2>2, <2>3, <2>4
  <1>9. entries \subseteq full
    BY DEF FileLabels
  <1>10. CASE ~Loads
    <2>1. raw = {}
      BY <1>10, WalkthroughType DEF raw
    <2>2. entries = {}
      BY <1>6, <1>9, <1>10, <2>1
    <2>3. listed = {}
      BY <2>2
    <2> QED
      BY <1>8, <1>9, <2>3, TrueOfNothing DEF raw, full
  <1>11. CASE CutOff
    <2>1. \A e \in entries : e.file # Ellipsis
      BY <1>1, <1>6, <1>9, <1>11 DEF Predicted, AllFiles, Ellipsis
    <2>2. Ellipsis \notin listed
      BY <2>1
    <2> HIDE DEF listed, entries
    <2>3. TrueOf(listed)
      BY <1>11, <2>2 DEF TrueOf
    <2> QED
      BY <1>8, <1>9, <2>3 DEF raw, full, entries, listed
  <1>12. CASE Loads /\ ~CutOff
    <2>1. raw \subseteq full /\ \A f \in extra.shown : FileEntry(f, FALSE, TRUE) \in full
      BY <1>6, <1>12
    <2>2. extra.more => FileEntry(Ellipsis, FALSE, TRUE) \in full
      BY <1>6, <1>12
    <2>3. ~AsksForSummaries => entries = {e \in full : e.complete}
      BY DEF FileLabels
    <2>4. \A f : /\ FileEntry(f, FALSE, TRUE).file = f /\ FileEntry(f, FALSE, TRUE).summary = FALSE
                /\ FileEntry(f, FALSE, TRUE).complete = TRUE
      BY DEF FileEntry
    <2>5. ~AsksForSummaries => told \subseteq listed \cup LeftOut /\ extra.shown \subseteq listed
      <3>1. \A f \in told : \E e \in raw : e.file = f
        BY DEF told
      <3>2. \A e \in raw : ~e.complete => e.file \in LeftOut
        BY DEF LeftOut, raw
      <3>3. ASSUME ~AsksForSummaries, NEW f \in told
            PROVE  f \in listed \cup LeftOut
        <4>1. PICK e \in raw : e.file = f
          BY <3>1, <3>3
        <4>2. e.complete => e \in entries
          BY <2>1, <2>3, <3>3
        <4> QED
          BY <3>2, <4>1, <4>2
      <3>4. ASSUME ~AsksForSummaries, NEW f \in extra.shown
            PROVE  f \in listed
        <4>1. FileEntry(f, FALSE, TRUE) \in entries
          BY <2>1, <2>3, <2>4, <3>4
        <4> QED
          BY <2>4, <4>1
      <3> HIDE DEF listed
      <3> QED
        BY <3>3, <3>4
    <2>6. ASSUME number > Threshold, listed # {}
          PROVE  AllFiles \subseteq listed \cup LeftOut \/ Ellipsis \in listed
      <3>1. ~AsksForSummaries
        BY <1>1, <2>6, DescribeBounds DEF AsksForSummaries
      <3>2. CASE extra.more
        <4>1. FileEntry(Ellipsis, FALSE, TRUE) \in entries
          BY <2>2, <2>3, <2>4, <3>1, <3>2
        <4> QED
          BY <2>4, <4>1
      <3>3. CASE ~extra.more
        <4>1. extra.shown = uncovered
          <5> HIDE DEF uncovered
          <5>1. ~(Cardinality(uncovered) > MaxExtra)
            BY <1>4, <3>3
          <5>2. Cardinality(uncovered) <= MaxExtra
            BY <1>5, <5>1
          <5> QED
            BY <1>4, <5>2
        <4> HIDE DEF listed
        <4> QED
          BY <2>5, <3>1, <4>1
      <3> QED
        BY <3>2, <3>3
    <2>7. ASSUME Ellipsis \in listed
          PROVE  Cardinality(listed \ {Ellipsis}) >= MaxExtra
      <3>1. PICK e \in entries : e.file = Ellipsis
        BY <2>7
      <3>2. Ellipsis \notin AllFiles
        BY <1>1 DEF AllFiles, Ellipsis
      <3>3. e \notin raw
        BY <1>1, <3>1, <3>2 DEF Predicted
      <3>4. \A f \in extra.shown : e # FileEntry(f, FALSE, TRUE)
        BY <1>4, <2>4, <3>1, <3>2
      <3>5. extra.more /\ e = FileEntry(Ellipsis, FALSE, TRUE)
        BY <1>7, <1>9, <3>1, <3>3, <3>4
      <3>6. ~AsksForSummaries
        BY <2>4, <3>1, <3>5 DEF FileLabels
      <3>7. extra.shown \subseteq listed \ {Ellipsis}
        BY <1>4, <2>5, <3>2, <3>6
      <3>8. listed \ {Ellipsis} \subseteq 0 .. number
        BY <1>8, <1>9 DEF FileEntries
      <3>9. IsFiniteSet(0 .. number)
        BY <1>1, FS_Interval
      <3>10. IsFiniteSet(listed \ {Ellipsis})
        <4> HIDE DEF listed
        <4> QED
          BY <3>8, <3>9, FS_Subset
      <3>11. Cardinality(extra.shown) <= Cardinality(listed \ {Ellipsis}) /\ IsFiniteSet(extra.shown)
        <4> HIDE DEF listed
        <4> QED
          BY <3>7, <3>10, FS_Subset
      <3>12. Cardinality(listed \ {Ellipsis}) \in Nat /\ Cardinality(extra.shown) \in Nat
        <4> HIDE DEF listed
        <4> QED
          BY <3>10, <3>11, FS_CardinalityType
      <3>13. Cardinality(extra.shown) >= MaxExtra
        BY <1>4, <3>5
      <3> HIDE DEF listed, uncovered
      <3> QED
        BY <1>5, <3>11, <3>12, <3>13
    <2>8. TrueOf(listed)
      BY <2>6, <2>7 DEF TrueOf
    <2> QED
      BY <1>8, <1>9, <2>8 DEF raw, full
  <1> QED
    BY <1>10, <1>11, <1>12

\* What one step of a run does to its invariant.
LEMMA PredictDescribes == DescribeInv /\ (\E c \in 1 .. MaxChunks : Predict(c)) => DescribeInv'
  <1> SUFFICES ASSUME DescribeInv, NEW c \in 1 .. MaxChunks, Predict(c)
               PROVE  DescribeInv'
    OBVIOUS
  <1>1. PICK says \in Says(c) : results' = [results EXCEPT ![c] = says]
    BY DEF Predict
  <1>2. says \in Told
    <2>1. Of(c) \subseteq AllFiles
      BY DEF Of
    <2>2. CASE says = [told |-> TRUE, valid |-> FALSE, cut |-> FALSE, entries |-> {}]
      BY <2>2 DEF Told
    <2>3. ASSUME NEW listed \in SUBSET Of(c), NEW wants \in {"nothing", "summary", "title", "filename"},
                 says = [told |-> TRUE, valid |-> TRUE, cut |-> wants = "filename",
                         entries |-> {FileEntry(f, f # 1 \/ wants # "summary", f # 1 \/ wants # "title") : f \in listed}]
          PROVE  says \in Told
      <3>1. \A f \in listed : FileEntry(f, f # 1 \/ wants # "summary", f # 1 \/ wants # "title") \in Predicted
        BY <2>1 DEF FileEntry, Predicted
      <3>2. {FileEntry(f, f # 1 \/ wants # "summary", f # 1 \/ wants # "title") : f \in listed} \subseteq Predicted
        BY <3>1
      <3> QED
        BY <2>3, <3>2 DEF Told
    <2> QED
      BY <2>2, <2>3 DEF Says
  <1>3. results' \in [1 .. MaxChunks -> Told]
    BY <1>1, <1>2 DEF DescribeInv
  <1>4. Told' = Told /\ FileEntries' = FileEntries
    BY DEF Predict, Told, Predicted, FileEntries, AllFiles
  <1> QED
    BY <1>3, <1>4 DEF DescribeInv, Predict, TrueOf, AllFiles

LEMMA CallsDescribe == DescribeInv /\ (AttemptFails \/ Gathered \/ Headers) => DescribeInv'
  <1> SUFFICES ASSUME DescribeInv, AttemptFails \/ Gathered \/ Headers
               PROVE  DescribeInv'
    OBVIOUS
  <1>1. Told' = Told /\ FileEntries' = FileEntries
    BY DEF AttemptFails, Gathered, Headers, Told, Predicted, FileEntries, AllFiles
  <1>2. results' \in [1 .. MaxChunks -> Told]
    <2>1. Pending \in Told
      BY DEF Pending, Told
    <2>2. [c \in 1 .. MaxChunks |-> Pending] \in [1 .. MaxChunks -> Told]
      BY <2>1
    <2> QED
      BY <2>2 DEF DescribeInv, AttemptFails, Gathered, Headers
  <1>3. progress # "done" /\ progress' # "done" /\ progress' # "render"
    BY DEF AttemptFails, Gathered, Headers
  <1>4. UNCHANGED <<number, whole, fileLabels, table, broken>>
    BY DEF AttemptFails, Gathered, Headers
  <1> QED
    BY <1>1, <1>2, <1>3, <1>4 DEF DescribeInv, TrueOf, AllFiles

LEMMA LabelDescribes == DescribeInv /\ LabelFiles => DescribeInv'
  <1> SUFFICES ASSUME DescribeInv, LabelFiles
               PROVE  DescribeInv'
    OBVIOUS
  <1> DEFINE entries == FileLabels(Extend(Walkthrough))
  <1>1. Told' = Told /\ FileEntries' = FileEntries
    BY DEF LabelFiles, Told, Predicted, FileEntries, AllFiles
  <1>2. entries \subseteq FileEntries /\ TrueOf({e.file : e \in entries})
    BY ExtendIsTrue
  <1>3. fileLabels' = {} \/ fileLabels' = entries
    BY DEF LabelFiles
  <1> HIDE DEF entries
  <1>4. {e.file : e \in {}} = {}
    OBVIOUS
  <1>5. fileLabels' \subseteq FileEntries /\ TrueOf({e.file : e \in fileLabels'})
    BY <1>2, <1>3, <1>4, TrueOfNothing
  <1>6. progress # "done" /\ progress' = "render" /\ UNCHANGED <<number, place, whole, results, table, broken>>
    BY DEF LabelFiles
  <1>7. LeftOut' = LeftOut /\ (CutOff' <=> CutOff) /\ AllFiles' = AllFiles
    BY <1>6, TruthStays
  <1> QED
    BY <1>1, <1>5, <1>6, <1>7 DEF DescribeInv, TrueOf

LEMMA RenderDescribes == DescribeInv /\ Render => DescribeInv'
  <1> SUFFICES ASSUME DescribeInv, Render
               PROVE  DescribeInv'
    OBVIOUS
  <1>1. Told' = Told /\ FileEntries' = FileEntries
    BY DEF Render, Told, Predicted, FileEntries, AllFiles
  <1>2. PICK rows \in IF Placed THEN {fileLabels} \cup {fileLabels \ {e} : e \in fileLabels} \cup {{}} ELSE {{}} :
          table' = {e.file : e \in rows} /\ broken' = (Placed /\ rows # fileLabels)
    BY DEF Render
  <1>3. ~broken' => rows = fileLabels \/ rows = {}
    BY <1>2
  <1>4. {e.file : e \in {}} = {}
    OBVIOUS
  <1>5. TrueOf({e.file : e \in fileLabels})
    BY DEF DescribeInv, Render
  <1>6. ~broken' => TrueOf(table')
    BY <1>2, <1>3, <1>4, <1>5, TrueOfNothing
  <1>7. progress' = "done" /\ UNCHANGED <<number, place, whole, results, fileLabels>>
    BY DEF Render
  <1>8. LeftOut' = LeftOut /\ (CutOff' <=> CutOff) /\ AllFiles' = AllFiles
    BY <1>7, TruthStays
  <1> QED
    BY <1>1, <1>6, <1>7, <1>8 DEF DescribeInv, TrueOf

\* Once and for all: entries are of files of the pull request, and what a
\* table lists is true.
THEOREM DescribeInvariant == DescribeSpec => []DescribeInv
  <1>1. DescribeInit => DescribeInv
    BY InitDescribes
  <1>2. DescribeInv /\ [DescribeNext]_describeVars => DescribeInv'
    <2> SUFFICES ASSUME DescribeInv, [DescribeNext]_describeVars
                 PROVE  DescribeInv'
      OBVIOUS
    <2>1. CASE \E c \in 1 .. MaxChunks : Predict(c)
      BY <2>1, PredictDescribes
    <2>2. CASE AttemptFails \/ Gathered \/ Headers
      BY <2>2, CallsDescribe
    <2>3. CASE LabelFiles
      BY <2>3, LabelDescribes
    <2>4. CASE Render
      BY <2>4, RenderDescribes
    <2>5. CASE UNCHANGED describeVars
      <3>1. LeftOut' = LeftOut /\ (CutOff' <=> CutOff) /\ AllFiles' = AllFiles
        BY <2>5, TruthStays DEF describeVars
      <3>2. Told' = Told /\ FileEntries' = FileEntries
        BY <2>5, <3>1 DEF describeVars, Told, Predicted, FileEntries
      <3> QED
        BY <2>5, <3>1, <3>2 DEF describeVars, DescribeInv, TrueOf
    <2> QED
      BY <2>1, <2>2, <2>3, <2>4, <2>5 DEF DescribeNext
  <1> QED
    BY <1>1, <1>2, PTL DEF DescribeSpec

\* The table of a walkthrough names every file of a pull request that is larger
\* than the threshold, but those whose entries are incomplete, which
\* _prepare_file_labels skips (pr_description.py:634), or says that there are more,
\* unless some filename had no value; and it says so only when it lists as many
\* files as it may.
THEOREM TheWalkthroughIsTrue == DescribeSpec => []WalkthroughIsTrue
  <1>1. DescribeInv => WalkthroughIsTrue
    <2> SUFFICES ASSUME DescribeInv
                 PROVE  WalkthroughIsTrue
      OBVIOUS
    <2>1. Ellipsis \notin {} /\ (~broken => TrueOf(table))
      BY DEF DescribeInv
    <2> QED
      BY <2>1 DEF WalkthroughIsTrue, LargeAreComplete, NamesAll, EllipsisIsEarned, TrueOf
  <1> QED
    BY <1>1, DescribeInvariant, PTL
-----------------------------------------------------------------------------
(* Patches: the sides of a diff.                                           *)

LEMMA SideType ==
  ASSUME NEW l \in Seq(DiffLine), NEW sign
  PROVE  /\ Without(l, sign) \in Seq(DiffLine)
         /\ Len(Without(l, sign)) = Cardinality({i \in DOMAIN l : l[i][1] # sign})
         /\ \A n \in 1 .. Len(Without(l, sign)) : Without(l, sign)[n][1] # sign
  <1> DEFINE S == {i \in DOMAIN l : l[i][1] # sign}
  <1>1. S \in SUBSET DOMAIN l /\ \A i \in S : l[i][1] # sign
    OBVIOUS
  <1>2. Without(l, sign) = Picked(l, S)
    BY DEF Without
  <1> HIDE DEF S
  <1>3. /\ Picked(l, S) \in Seq(DiffLine) /\ Len(Picked(l, S)) = Cardinality(S)
        /\ \A n \in 1 .. Cardinality(S) : Ascending(S)[n] \in S /\ Picked(l, S)[n] = l[Ascending(S)[n]]
    BY <1>1, PickedType
  <1>4. \A n \in 1 .. Len(Picked(l, S)) : Picked(l, S)[n][1] # sign
    BY <1>1, <1>3
  <1> QED
    BY <1>2, <1>3, <1>4 DEF S

\* One patch and then another, and the side of both.
Both(u, v) == u \o v

LEMMA SidesJoin ==
  ASSUME NEW u \in Seq(DiffLine), NEW v \in Seq(DiffLine), NEW sign
  PROVE  Without(Both(u, v), sign) = Both(Without(u, sign), Without(v, sign))
  <1> DEFINE w == Both(u, v)
             P == {i \in DOMAIN w : w[i][1] # sign}
             S == PlacesTo(P, Len(u))
             T == PlacesAfter(P, Len(u), Len(v))
  <1>1. /\ DOMAIN w = 1 .. Len(u) + Len(v) /\ Len(u) \in Nat /\ Len(v) \in Nat
        /\ DOMAIN u = 1 .. Len(u) /\ DOMAIN v = 1 .. Len(v)
        /\ \A i \in 1 .. Len(u) : w[i] = u[i] /\ i \in DOMAIN w
        /\ \A j \in 1 .. Len(v) : w[Len(u) + j] = v[j] /\ Len(u) + j \in DOMAIN w
    BY DEF Both
  <1>b. w = u \o v
    BY DEF Both
  <1> HIDE DEF w
  <1>2. P \in SUBSET (1 .. Len(u) + Len(v))
    BY <1>1
  <1>3. S = {i \in DOMAIN u : u[i][1] # sign}
    BY <1>1 DEF PlacesTo
  <1>4. T = {j \in DOMAIN v : v[j][1] # sign}
    BY <1>1 DEF PlacesAfter
  <1>5. Without(u, sign) = Picked(u, S) /\ Without(v, sign) = Picked(v, T) /\ Without(w, sign) = Picked(w, P)
    BY <1>3, <1>4 DEF Without
  <1> HIDE DEF P
  <1>6. Picked(u \o v, P) = Picked(u, S) \o Picked(v, T)
    BY <1>2, PickedJoin
  <1> QED
    BY <1>5, <1>6, <1>b DEF Both, w

LEMMA ThreeSides ==
  ASSUME NEW u \in Seq(DiffLine), NEW v \in Seq(DiffLine), NEW w \in Seq(DiffLine), NEW sign
  PROVE  Without(Both(Both(u, v), w), sign) = Both(Both(Without(u, sign), Without(v, sign)), Without(w, sign))
  <1>1. Both(u, v) \in Seq(DiffLine)
    BY DEF Both
  <1>2. Without(Both(u, v), sign) = Both(Without(u, sign), Without(v, sign))
    BY SidesJoin
  <1>3. Without(Both(Both(u, v), w), sign) = Both(Without(Both(u, v), sign), Without(w, sign))
    BY <1>1, SidesJoin
  <1> QED
    BY <1>2, <1>3

\* A side of lines that are all on it, and of lines none of which is.
LEMMA SideWhole ==
  ASSUME NEW l \in Seq(DiffLine), NEW sign
  PROVE  /\ (\A i \in DOMAIN l : l[i][1] # sign) => Without(l, sign) = l
         /\ (\A i \in DOMAIN l : l[i][1] = sign) => Without(l, sign) = <<>>
  <1>1. ASSUME \A i \in DOMAIN l : l[i][1] # sign
        PROVE  Without(l, sign) = l
    <2>1. {i \in DOMAIN l : l[i][1] # sign} = DOMAIN l
      BY <1>1
    <2> QED
      BY <2>1, PickedAll DEF Without
  <1>2. ASSUME \A i \in DOMAIN l : l[i][1] = sign
        PROVE  Without(l, sign) = <<>>
    <2>1. {i \in DOMAIN l : l[i][1] # sign} = {}
      BY <1>2
    <2>2. Len(Without(l, sign)) = 0
      BY <2>1, SideType, FS_EmptySet
    <2> QED
      BY <2>2, SideType
  <1> QED
    BY <1>1, <1>2

\* The side of a pick is picked from the side.
LEMMA SideOfPick ==
  ASSUME NEW l \in Seq(DiffLine), NEW S \in SUBSET DOMAIN l, NEW sign
  PROVE  Without(Picked(l, S), sign) = Picked(l, {i \in S : l[i][1] # sign})
  <1> DEFINE K == {i \in S : l[i][1] # sign}
             t == Picked(l, S)
             N == {n \in 1 .. Cardinality(S) : Ascending(S)[n] \in K}
  <1>1. /\ DOMAIN t = 1 .. Cardinality(S)
        /\ \A n \in 1 .. Cardinality(S) : Ascending(S)[n] \in S /\ t[n] = l[Ascending(S)[n]]
    BY PickedType
  <1>2. K \in SUBSET S /\ \A i \in S : i \in K <=> l[i][1] # sign
    OBVIOUS
  <1> HIDE DEF K, t
  <1>3. {n \in DOMAIN t : t[n][1] # sign} = N
    BY <1>1, <1>2
  <1>4. Picked(Picked(l, S), N) = Picked(l, K)
    BY <1>2, PickedTwice
  <1> QED
    BY <1>3, <1>4 DEF Without, K, t

\* What looks like a remark and is not on a side does not matter to the side.
LEMMA UnremarkedSide ==
  ASSUME NEW l \in Seq(DiffLine), NEW sign,
         \A n \in 1 .. Len(Without(l, sign)) : Without(l, sign)[n][2] # Remark
  PROVE  Without(Unremarked(l), sign) = Without(l, sign)
  <1> DEFINE S == {i \in DOMAIN l : l[i][2] # Remark}
             K == {i \in DOMAIN l : l[i][1] # sign}
  <1>1. S \in SUBSET DOMAIN l /\ K \in SUBSET DOMAIN l
    OBVIOUS
  <1>2. Without(l, sign) = Picked(l, K)
    BY DEF Without
  <1>3. /\ Len(Picked(l, K)) = Cardinality(K)
        /\ \A i \in K : Rank(K, i) + 1 \in 1 .. Cardinality(K) /\ Picked(l, K)[Rank(K, i) + 1] = l[i]
    <2> HIDE DEF K
    <2> QED
      BY <1>1, PickedType
  <1>4. \A i \in K : l[i][2] # Remark
    BY <1>2, <1>3
  <1>5. {i \in S : l[i][1] # sign} = K
    BY <1>4
  <1>6. Without(Picked(l, S), sign) = Picked(l, {i \in S : l[i][1] # sign})
    <2> HIDE DEF S
    <2> QED
      BY <1>1, SideOfPick
  <1> QED
    BY <1>2, <1>5, <1>6 DEF Unremarked
-----------------------------------------------------------------------------
(* Hunks.                                                                  *)

\* Lines a to b of a diff make a hunk: unchanged lines surround its changes,
\* and as many and one more follow it.
Bounds(d, a, b) ==
  /\ a \in DOMAIN d /\ b \in a .. Len(d)
  /\ a > 1 => d[a][1] = "="
  /\ b < Len(d) => d[b][1] = "="
  /\ \A j \in b + 1 .. Len(d) : j <= b + 1 + Context => d[j][1] = "="

LEMMA LastLineIs ==
  ASSUME NEW d \in Seq(DiffLine), NEW i \in DOMAIN d, Near(d, i)
  PROVE  /\ LastLine(d, i) \in i .. Len(d)
         /\ \A k \in i .. LastLine(d, i) : Near(d, k)
         /\ LastLine(d, i) = Len(d) \/ ~Near(d, LastLine(d, i) + 1)
  <1> DEFINE S == {j \in i .. Len(d) : j = Len(d) \/ ~Near(d, j + 1)}
  <1>1. i \in 1 .. Len(d) /\ Len(d) \in Nat
    OBVIOUS
  <1>2. /\ S \in SUBSET (i .. Len(d)) /\ Len(d) \in S
        /\ \A j \in i .. Len(d) : j \in S <=> j = Len(d) \/ ~Near(d, j + 1)
    BY <1>1
  <1> HIDE DEF S
  <1>3. S \in SUBSET Int /\ IsFiniteSet(S)
    <2>1. IsFiniteSet(i .. Len(d))
      BY <1>1, FS_Interval
    <2>2. S \in SUBSET (i .. Len(d))
      BY <1>2
    <2>3. IsFiniteSet(S)
      BY <2>1, <2>2, FS_Subset
    <2> QED
      BY <1>1, <2>2, <2>3
  <1>4. PICK j \in S : \A k \in S : j <= k
    BY <1>2, <1>3, HasLeast
  <1>5. ASSUME NEW k \in i .. j
        PROVE  Near(d, k)
    <2>1. CASE k = i
      BY <2>1
    <2>2. CASE k # i
      <3>1. k - 1 \in i .. Len(d) /\ k - 1 < j /\ k - 1 + 1 = k
        BY <1>1, <1>2, <2>2
      <3>2. k - 1 \notin S
        BY <1>1, <1>2, <1>4, <3>1
      <3> QED
        BY <1>2, <3>1, <3>2
    <2> QED
      BY <2>1, <2>2
  <1>6. \E l \in i .. Len(d) : (\A k \in i .. l : Near(d, k)) /\ (l = Len(d) \/ ~Near(d, l + 1))
    BY <1>2, <1>4, <1>5
  <1> DEFINE Good(l) == (\A k \in i .. l : Near(d, k)) /\ (l = Len(d) \/ ~Near(d, l + 1))
  <1>7. LastLine(d, i) = CHOOSE l \in i .. Len(d) : Good(l)
    BY DEF LastLine
  <1>8. \E l \in i .. Len(d) : Good(l)
    BY <1>6
  <1> HIDE DEF Good
  <1>9. LastLine(d, i) \in i .. Len(d) /\ Good(LastLine(d, i))
    BY <1>7, <1>8
  <1> QED
    BY <1>9 DEF Good

LEMMA HunkBounds ==
  ASSUME NEW d \in Seq(DiffLine)
  PROVE  /\ FirstLines(d) \in SUBSET DOMAIN d
         /\ \A i \in FirstLines(d) : Bounds(d, i, LastLine(d, i))
         /\ \A i, j \in FirstLines(d) : i < j => LastLine(d, i) < j
  <1>1. FirstLines(d) \in SUBSET DOMAIN d /\ DOMAIN d = 1 .. Len(d) /\ Len(d) \in Nat
    BY DEF FirstLines
  <1>2. Context \in Nat /\ Context >= 1
    BY PatchAssumption
  <1>3. ASSUME NEW i \in FirstLines(d)
        PROVE  Bounds(d, i, LastLine(d, i))
    <2> DEFINE b == LastLine(d, i)
    <2>1. i \in 1 .. Len(d) /\ Near(d, i) /\ ~(i > 1 /\ Near(d, i - 1))
      BY <1>1 DEF FirstLines
    <2>2. b = Len(d) \/ ~Near(d, b + 1)
      BY <1>1, <2>1, LastLineIs
    <2>l. b \in i .. Len(d)
      BY <1>1, <2>1, LastLineIs
    <2> HIDE DEF b
    <2>i. i \in Int /\ i >= 1 /\ Len(d) \in Nat /\ DOMAIN d = 1 .. Len(d)
      BY <1>1, <2>1
    <2>b. b \in Int /\ b >= 1 /\ b <= Len(d)
      BY <2>l, <2>i
    <2>3. i > 1 => d[i][1] = "="
      <3>1. i - 1 - i \in -Context .. Context
        BY <1>2, <2>1
      <3> QED
        BY <1>1, <2>1, <3>1 DEF Near
    <2>4. b < Len(d) => d[b][1] = "="
      <3>1. b \in DOMAIN d /\ b \in Int
        BY <2>i, <2>b
      <3>2. b + 1 - b \in -Context .. Context
        BY <1>2, <3>1
      <3> QED
        BY <1>1, <2>2, <3>1, <3>2 DEF Near
    <2>5. ASSUME NEW j \in b + 1 .. Len(d), j <= b + 1 + Context
          PROVE  d[j][1] = "="
      <3>1. /\ b \in Int /\ b >= 1 /\ j \in Int /\ b + 1 <= j /\ j <= Len(d) /\ Len(d) \in Nat
            /\ j \in DOMAIN d
        BY <2>i, <2>b, <2>5
      <3>2. b + 1 - j \in -Context .. Context
        BY <1>2, <2>5, <3>1
      <3>3. b # Len(d)
        BY <3>1
      <3> QED
        BY <2>2, <3>1, <3>2, <3>3 DEF Near
    <2> QED
      BY <1>1, <2>1, <2>l, <2>3, <2>4, <2>5 DEF Bounds, b
  <1>4. ASSUME NEW i \in FirstLines(d), NEW j \in FirstLines(d), i < j
        PROVE  LastLine(d, i) < j
    <2> DEFINE b == LastLine(d, i)
    <2>1. i \in 1 .. Len(d) /\ Near(d, i) /\ j \in 1 .. Len(d) /\ ~(j > 1 /\ Near(d, j - 1))
      BY <1>1 DEF FirstLines
    <2>2. b \in i .. Len(d) /\ (\A k \in i .. b : Near(d, k))
      BY <1>1, <2>1, LastLineIs
    <2> HIDE DEF b
    <2>3. ~Near(d, j - 1) /\ j - 1 >= i
      BY <1>4, <2>1
    <2>4. j - 1 \notin i .. b
      BY <2>2, <2>3
    <2>5. b < j
      BY <2>1, <2>2, <2>3, <2>4
    <2> QED
      BY <2>5 DEF b
  <1> QED
    BY <1>1, <1>3, <1>4

\* What a hunk of a diff is: some of its lines with their places in both files.
IsHunk(h, d) ==
  /\ h.lines \in Seq(DiffLine)
  /\ h.n1 = Len(OldSide(h.lines)) /\ h.n2 = Len(NewSide(h.lines))
  /\ ("old" \in h.omits => h.n1 = 1) /\ ("new" \in h.omits => h.n2 = 1)
  /\ h.n1 = 0 => OldFile(d) = <<>>
  /\ h.n2 = 0 => NewFile(d) = <<>> /\ h.lines = d
  /\ \E above, below \in Seq(DiffLine) :
       /\ d = above \o h.lines \o below
       /\ \A i \in DOMAIN below : i <= Context + 1 => below[i][1] = "="
       /\ h.s1 = Len(OldSide(above)) + (IF h.n1 = 0 THEN 0 ELSE 1)
       /\ h.s2 = Len(NewSide(above)) + (IF h.n2 = 0 THEN 0 ELSE 1)

\* A diff in three parts.
LEMMA ThreeParts ==
  ASSUME NEW V, NEW d \in Seq(V), NEW a \in DOMAIN d, NEW b \in a .. Len(d)
  PROVE  /\ SubSeq(d, 1, a - 1) \in Seq(V) /\ SubSeq(d, a, b) \in Seq(V) /\ SubSeq(d, b + 1, Len(d)) \in Seq(V)
         /\ d = SubSeq(d, 1, a - 1) \o SubSeq(d, a, b) \o SubSeq(d, b + 1, Len(d))
         /\ SubSeq(d, 1, b) = SubSeq(d, 1, a - 1) \o SubSeq(d, a, b)
  <1> DEFINE u == SubSeq(d, 1, a - 1)
             v == SubSeq(d, a, b)
             w == SubSeq(d, b + 1, Len(d))
             x == SubSeq(d, 1, b)
  <1>1. Len(d) \in Nat /\ a \in 1 .. Len(d) /\ b \in 1 .. Len(d) /\ a <= b
    OBVIOUS
  <1>2. /\ u \in Seq(V) /\ Len(u) = a - 1 /\ \A i \in 1 .. Len(u) : u[i] = d[i]
        /\ v \in Seq(V) /\ Len(v) = b - a + 1 /\ \A i \in 1 .. Len(v) : v[i] = d[a - 1 + i]
    BY <1>1
  <1>3. /\ w \in Seq(V) /\ Len(w) = Len(d) - b /\ \A i \in 1 .. Len(w) : w[i] = d[b + i]
        /\ x \in Seq(V) /\ Len(x) = b /\ \A i \in 1 .. Len(x) : x[i] = d[i]
    BY <1>1
  <1> HIDE DEF u, v, w, x
  <1>4. x = u \o v
    <2>1. Len(x) = Len(u) + Len(v)
      BY <1>1, <1>2, <1>3
    <2>2. \A k \in 1 .. Len(u) : x[k] = u[k]
      BY <1>1, <1>2, <1>3
    <2>3. \A k \in 1 .. Len(v) : x[Len(u) + k] = v[k]
      <3>1. \A k \in 1 .. Len(v) : Len(u) + k = a - 1 + k /\ a - 1 + k \in 1 .. Len(x)
        BY <1>1, <1>2, <1>3
      <3> QED
        BY <1>2, <1>3, <3>1
    <2>4. x \in Seq(V) /\ u \in Seq(V) /\ v \in Seq(V)
      BY <1>2, <1>3
    <2> QED
      BY <2>1, <2>2, <2>3, <2>4, JoinIs
  <1>5. d = x \o w
    <2>1. Len(d) = Len(x) + Len(w)
      BY <1>1, <1>3
    <2>2. \A k \in 1 .. Len(x) : d[k] = x[k]
      BY <1>1, <1>3
    <2>3. \A k \in 1 .. Len(w) : d[Len(x) + k] = w[k]
      BY <1>1, <1>3
    <2>4. x \in Seq(V) /\ w \in Seq(V)
      BY <1>3
    <2> QED
      BY <2>1, <2>2, <2>3, <2>4, JoinIs
  <1> QED
    BY <1>2, <1>3, <1>4, <1>5 DEF u, v, w, x

LEMMA SideEmpty ==
  ASSUME NEW l \in Seq(DiffLine), NEW sign, Len(Without(l, sign)) = 0
  PROVE  \A i \in DOMAIN l : l[i][1] = sign
  <1> DEFINE S == {i \in DOMAIN l : l[i][1] # sign}
  <1>1. S \in SUBSET DOMAIN l /\ Cardinality(S) = 0
    BY SideType
  <1>2. \A i \in DOMAIN l : i \notin S => l[i][1] = sign
    OBVIOUS
  <1> HIDE DEF S
  <1>3. IsFiniteSet(S)
    BY <1>1, PositionsType
  <1>4. S = {}
    BY <1>1, <1>3, FS_EmptySet
  <1> QED
    BY <1>2, <1>4

LEMMA TextType ==
  ASSUME NEW l \in Seq(DiffLine)
  PROVE  /\ TextOf(l) \in Seq(STRING) /\ Len(TextOf(l)) = Len(l) /\ DOMAIN TextOf(l) = 1 .. Len(l)
         /\ Len(l) \in Nat /\ \A i \in 1 .. Len(l) : TextOf(l)[i] = l[i][2]
  BY DEF TextOf, DiffLine

LEMMA HunkAtIs ==
  ASSUME NEW d \in Seq(DiffLine), NEW a, NEW b, Bounds(d, a, b)
  PROVE  /\ IsHunk(HunkAt(d, a, b), d)
         /\ HunkAt(d, a, b).lines = SubSeq(d, a, b)
         /\ HunkAt(d, a, b).n2 > 0 => HunkAt(d, a, b).s2 = Len(NewSide(SubSeq(d, 1, a - 1))) + 1
  <1> DEFINE above == SubSeq(d, 1, a - 1)
             here == SubSeq(d, a, b)
             below == SubSeq(d, b + 1, Len(d))
             h == HunkAt(d, a, b)
  <1>1. /\ h.lines = here /\ h.n1 = Len(OldSide(here)) /\ h.n2 = Len(NewSide(here))
        /\ h.s1 = IF Len(OldSide(here)) = 0 THEN Len(OldSide(above)) ELSE Len(OldSide(above)) + 1
        /\ h.s2 = IF Len(NewSide(here)) = 0 THEN Len(NewSide(above)) ELSE Len(NewSide(above)) + 1
    BY DEF HunkAt
  <1>2. a \in DOMAIN d /\ b \in a .. Len(d)
    BY DEF Bounds
  <1>3. above \in Seq(DiffLine) /\ here \in Seq(DiffLine) /\ below \in Seq(DiffLine) /\ d = above \o here \o below
    BY <1>2, ThreeParts
  <1>4. /\ Len(d) \in Nat /\ a \in Int /\ b \in Int /\ 1 <= a /\ a <= b /\ b <= Len(d)
        /\ DOMAIN d = 1 .. Len(d)
    BY <1>2
  <1>5. /\ Len(here) = b - a + 1 /\ DOMAIN here = 1 .. b - a + 1 /\ \A i \in 1 .. b - a + 1 : here[i] = d[a + i - 1]
        /\ DOMAIN below = 1 .. Len(d) - b /\ \A i \in 1 .. Len(d) - b : below[i] = d[b + i]
    BY <1>4
  <1>6. \A i \in DOMAIN below : i <= Context + 1 => below[i][1] = "="
    <2>1. Context \in Nat
      BY PatchAssumption
    <2>2. SUFFICES ASSUME NEW i \in DOMAIN below, i <= Context + 1
                   PROVE  below[i][1] = "="
      OBVIOUS
    <2>3. i \in 1 .. Len(d) - b
      BY <1>5, <2>2
    <2> HIDE DEF below
    <2>4. b + i \in b + 1 .. Len(d) /\ b + i <= b + 1 + Context
      BY <1>4, <2>1, <2>2, <2>3
    <2>5. d[b + i][1] = "="
      BY <2>4 DEF Bounds
    <2> QED
      BY <1>5, <2>3, <2>5
  <1>o. ("old" \in h.omits => Len(OldSide(here)) = 1) /\ ("new" \in h.omits => Len(NewSide(here)) = 1)
    <2> HIDE DEF here
    <2>1. h.omits = {x \in {"old", "new"} : Len(IF x = "old" THEN OldSide(here) ELSE NewSide(here)) = 1}
      BY DEF HunkAt, here
    <2> QED
      BY <2>1
  <1> HIDE DEF h
  <1>7. ASSUME NEW sign, sign # "=", Len(Without(here, sign)) = 0
        PROVE  Without(d, sign) = <<>> /\ here = d
    <2>1. \A i \in DOMAIN here : here[i][1] = sign
      <3> HIDE DEF here
      <3> QED
        BY <1>3, <1>7, SideEmpty
    <2>2. \A j \in a .. b : d[j][1] = sign
      <3> SUFFICES ASSUME NEW j \in a .. b
                   PROVE  d[j][1] = sign
        OBVIOUS
      <3>1. j - a + 1 \in 1 .. b - a + 1 /\ a + (j - a + 1) - 1 = j
        BY <1>4
      <3> HIDE DEF here
      <3> QED
        BY <1>5, <2>1, <3>1
    <2>3. d[a][1] = sign /\ d[b][1] = sign
      BY <1>4, <2>2
    <2>b. (a > 1 => d[a][1] = "=") /\ (b < Len(d) => d[b][1] = "=")
      BY DEF Bounds
    <2>4. a = 1 /\ b = Len(d)
      <3>1. ~(a > 1) /\ ~(b < Len(d))
        BY <1>7, <2>3, <2>b
      <3>2. \A x, y \in Int : x <= y /\ ~(x < y) => x = y
        OBVIOUS
      <3>3. 1 \in Int /\ a \in Int /\ b \in Int /\ Len(d) \in Int /\ 1 <= a /\ b <= Len(d) /\ ~(1 < a)
        BY <1>4, <3>1
      <3> QED
        BY <3>1, <3>2, <3>3
    <2>5. \A j \in DOMAIN d : d[j][1] = sign
      BY <1>4, <2>2, <2>4
    <2>6. here = d
      <3>1. here = SubSeq(d, 1, Len(d))
        BY <2>4
      <3> HIDE DEF here
      <3> QED
        BY <3>1
    <2> QED
      BY <2>5, <2>6, SideWhole
  <1>8. h.n1 = 0 => OldFile(d) = <<>>
    <2>1. TextOf(<<>>) = <<>>
      BY DEF TextOf
    <2> HIDE DEF here
    <2> QED
      BY <1>1, <1>7, <2>1 DEF OldFile, OldSide
  <1>9. h.n2 = 0 => NewFile(d) = <<>> /\ h.lines = d
    <2>1. TextOf(<<>>) = <<>>
      BY DEF TextOf
    <2> HIDE DEF here
    <2> QED
      BY <1>1, <1>7, <2>1 DEF NewFile, NewSide
  <1> HIDE DEF above, here, below
  <1>10. Len(OldSide(above)) \in Nat /\ Len(NewSide(above)) \in Nat /\ Len(NewSide(here)) \in Nat
    BY <1>3, SideType DEF OldSide, NewSide
  <1>11. /\ h.s1 = Len(OldSide(above)) + (IF h.n1 = 0 THEN 0 ELSE 1)
         /\ h.s2 = Len(NewSide(above)) + (IF h.n2 = 0 THEN 0 ELSE 1)
    BY <1>1, <1>10
  <1>12. \E u, v \in Seq(DiffLine) :
           /\ d = u \o h.lines \o v
           /\ \A i \in DOMAIN v : i <= Context + 1 => v[i][1] = "="
           /\ h.s1 = Len(OldSide(u)) + (IF h.n1 = 0 THEN 0 ELSE 1)
           /\ h.s2 = Len(NewSide(u)) + (IF h.n2 = 0 THEN 0 ELSE 1)
    BY <1>1, <1>3, <1>6, <1>11
  <1>13. IsHunk(h, d)
    BY <1>1, <1>3, <1>8, <1>9, <1>12, <1>o DEF IsHunk
  <1>14. h.n2 > 0 => h.s2 = Len(NewSide(above)) + 1
    BY <1>1, <1>10, <1>11
  <1> QED
    BY <1>1, <1>13, <1>14 DEF h, above, here

\* Numbered from s on, lines have the numbers they have in the new file.
FollowsAt(s, lines, file) ==
  \A i \in 1 .. Len(NewSide(lines)) :
    s + i - 1 \in DOMAIN file /\ file[s + i - 1] = NewSide(lines)[i][2]

Follows(h, file) == FollowsAt(h.s2, h.lines, file)

LEMMA HunkFollows ==
  ASSUME NEW d \in Seq(DiffLine), NEW h, IsHunk(h, d)
  PROVE  Follows(h, NewFile(d))
  <1>1. h.lines \in Seq(DiffLine) /\ h.n2 = Len(NewSide(h.lines))
    BY DEF IsHunk
  <1>2. PICK u, v \in Seq(DiffLine) :
          d = u \o h.lines \o v /\ h.s2 = Len(NewSide(u)) + (IF h.n2 = 0 THEN 0 ELSE 1)
    BY DEF IsHunk
  <1> DEFINE U == NewSide(u)
             L == NewSide(h.lines)
             W == NewSide(v)
  <1>3. U \in Seq(DiffLine) /\ L \in Seq(DiffLine) /\ W \in Seq(DiffLine)
    BY <1>1, <1>2, SideType DEF NewSide
  <1>4. NewSide(d) = U \o L \o W
    <2>1. h.lines \in Seq(DiffLine) /\ d = Both(Both(u, h.lines), v)
      BY <1>1, <1>2 DEF Both
    <2>2. Without(Both(Both(u, h.lines), v), "-")
            = Both(Both(Without(u, "-"), Without(h.lines, "-")), Without(v, "-"))
      BY <2>1, ThreeSides
    <2> QED
      BY <2>1, <2>2 DEF NewSide, Both
  <1> HIDE DEF U, L, W
  <1>5. /\ U \o L \o W \in Seq(DiffLine) /\ Len(U \o L \o W) = Len(U) + Len(L) + Len(W)
        /\ Len(U) \in Nat /\ Len(L) \in Nat /\ Len(W) \in Nat
        /\ \A i \in 1 .. Len(L) : (U \o L \o W)[Len(U) + i] = L[i]
    BY <1>3
  <1>6. ASSUME NEW i \in 1 .. Len(L)
        PROVE  h.s2 + i - 1 \in DOMAIN NewFile(d) /\ NewFile(d)[h.s2 + i - 1] = L[i][2]
    <2>1. h.n2 # 0 /\ h.s2 + i - 1 = Len(U) + i
      BY <1>1, <1>2, <1>5, <1>6 DEF L, U
    <2>2. Len(U) + i \in 1 .. Len(NewSide(d)) /\ NewSide(d)[Len(U) + i] = L[i] /\ NewSide(d) \in Seq(DiffLine)
      BY <1>4, <1>5, <1>6
    <2> QED
      BY <2>1, <2>2, TextType DEF NewFile
  <1> QED
    BY <1>6 DEF Follows, FollowsAt, L
-----------------------------------------------------------------------------
(* What a hunk is extended with.                                           *)

HunkType == [s1 : Int, n1 : Int, s2 : Int, n2 : Int, omits : SUBSET {"old", "new"}, heading : {Heading, NoHeading},
             lines : Seq(DiffLine), ends : SUBSET Int]

LEMMA MinIs ==
  ASSUME NEW n \in Nat, NEW S \in SUBSET (0 .. n), S # {}
  PROVE  Min(S) \in S
  <1>1. IsFiniteSet(0 .. n)
    BY FS_Interval
  <1>2. S \in SUBSET Int /\ IsFiniteSet(S)
    <2>1. IsFiniteSet(S)
      BY <1>1, FS_Subset
    <2> QED
      BY <2>1
  <1>3. \E i \in S : \A j \in S : i <= j
    BY <1>2, HasLeast
  <1> QED
    BY <1>3 DEF Min

LEMMA SliceIs ==
  ASSUME NEW V, NEW f \in Seq(V), NEW p \in Nat \ {0}, NEW q \in Nat, p <= q + 1, q <= Len(f)
  PROVE  /\ Slice(f, p, q) \in Seq(V) /\ Len(Slice(f, p, q)) = q - p + 1
         /\ \A i \in 1 .. q - p + 1 : Slice(f, p, q)[i] = f[p + i - 1]
  <1>1. Slice(f, p, q) = SubSeq(f, p, q)
    BY DEF Slice
  <1>2. p \in 1 .. Len(f) + 1 /\ q \in 0 .. Len(f)
    OBVIOUS
  <1>3. SubSeq(f, p, q) \in Seq(V) /\ Len(SubSeq(f, p, q)) = q - p + 1
    BY <1>2
  <1>4. \A i \in 1 .. q - p + 1 : SubSeq(f, p, q)[i] = f[p + i - 1]
    BY <1>2
  <1> QED
    BY <1>1, <1>3, <1>4

LEMMA BeforeIs ==
  ASSUME NEW f \in Seq(STRING), NEW s \in 1 .. Len(f) + 1, NEW e \in 1 .. s
  PROVE  /\ Slice(f, e, s - 1) \in Seq(STRING) /\ Len(Slice(f, e, s - 1)) = s - e
         /\ \A i \in 1 .. s - e : Slice(f, e, s - 1)[i] = f[e + i - 1]
  <1> DEFINE q == s - 1
  <1>1. /\ e \in Nat \ {0} /\ q \in Nat /\ e <= q + 1 /\ q <= Len(f)
        /\ q - e + 1 = s - e
    OBVIOUS
  <1> HIDE DEF q
  <1>2. /\ Slice(f, e, q) \in Seq(STRING) /\ Len(Slice(f, e, q)) = q - e + 1
        /\ \A i \in 1 .. q - e + 1 : Slice(f, e, q)[i] = f[e + i - 1]
    BY <1>1, SliceIs
  <1> QED
    BY <1>1, <1>2 DEF q

LEMMA FromIs ==
  ASSUME NEW V, NEW s \in Seq(V), NEW m \in Nat
  PROVE  /\ From(s, m) \in Seq(V)
         /\ Len(From(s, m)) = IF m <= Len(s) THEN Len(s) - m ELSE 0
         /\ \A i \in 1 .. Len(s) - m : From(s, m)[i] = s[m + i]
  BY DEF From

LEMMA SameFrom ==
  ASSUME NEW V, NEW o \in Seq(V), NEW n \in Seq(V), NEW m \in 0 .. Len(o) - 1, From(o, m) = From(n, m)
  PROVE  Len(o) = Len(n) /\ \A i \in 1 .. Len(o) - m : o[m + i] = n[m + i]
  <1>1. m \in Nat /\ Len(o) \in Nat /\ Len(n) \in Nat /\ m < Len(o)
    OBVIOUS
  <1>2. /\ Len(From(o, m)) = IF m <= Len(o) THEN Len(o) - m ELSE 0
        /\ \A i \in 1 .. Len(o) - m : From(o, m)[i] = o[m + i]
    BY <1>1, FromIs
  <1>3. /\ Len(From(n, m)) = IF m <= Len(n) THEN Len(n) - m ELSE 0
        /\ \A i \in 1 .. Len(n) - m : From(n, m)[i] = n[m + i]
    BY <1>1, FromIs
  <1>4. Len(o) = Len(n)
    BY <1>1, <1>2, <1>3
  <1> QED
    BY <1>2, <1>3, <1>4

\* A hunk may begin there in both files: what stands above it is the same.
SameAbove(h, y) ==
  /\ y.s1 \in 1 .. h.s1 /\ y.s2 \in 1 .. h.s2 /\ h.s1 - y.s1 = h.s2 - y.s2
  /\ \A i \in 1 .. h.s1 - y.s1 : original[y.s1 + i - 1] = new[y.s2 + i - 1]

\* The files and a hunk that has lines of both.
Within(h) ==
  /\ original \in Seq(STRING) /\ new \in Seq(STRING) /\ h \in HunkType
  /\ h.s1 \in 1 .. Len(original) + 1 /\ h.s2 \in 1 .. Len(new) + 1

LEMMA AboveIs ==
  ASSUME NEW h, Within(h), NEW x, x.s1 \in 1 .. h.s1, x.s2 \in 1 .. h.s2
  PROVE  /\ AboveOld(h, x) \in Seq(STRING) /\ Len(AboveOld(h, x)) = h.s1 - x.s1
         /\ \A i \in 1 .. h.s1 - x.s1 : AboveOld(h, x)[i] = original[x.s1 + i - 1]
         /\ AboveNew(h, x) \in Seq(STRING) /\ Len(AboveNew(h, x)) = h.s2 - x.s2
         /\ \A i \in 1 .. h.s2 - x.s2 : AboveNew(h, x)[i] = new[x.s2 + i - 1]
  <1>1. /\ original \in Seq(STRING) /\ h.s1 \in 1 .. Len(original) + 1
        /\ new \in Seq(STRING) /\ h.s2 \in 1 .. Len(new) + 1
    BY DEF Within
  <1>2. /\ Slice(original, x.s1, h.s1 - 1) \in Seq(STRING) /\ Len(Slice(original, x.s1, h.s1 - 1)) = h.s1 - x.s1
        /\ \A i \in 1 .. h.s1 - x.s1 : Slice(original, x.s1, h.s1 - 1)[i] = original[x.s1 + i - 1]
    BY <1>1, BeforeIs
  <1>3. /\ Slice(new, x.s2, h.s2 - 1) \in Seq(STRING) /\ Len(Slice(new, x.s2, h.s2 - 1)) = h.s2 - x.s2
        /\ \A i \in 1 .. h.s2 - x.s2 : Slice(new, x.s2, h.s2 - 1)[i] = new[x.s2 + i - 1]
    BY <1>1, BeforeIs
  <1> QED
    BY <1>2, <1>3 DEF AboveOld, AboveNew

LEMMA SameLines ==
  ASSUME NEW s \in Seq(STRING)
  PROVE  /\ [i \in DOMAIN s |-> <<"=", s[i]>>] \in Seq(DiffLine)
         /\ Len([i \in DOMAIN s |-> <<"=", s[i]>>]) = Len(s)
         /\ \A j \in 1 .. Len(s) : [i \in DOMAIN s |-> <<"=", s[i]>>][j] = <<"=", s[j]>>
  <1> DEFINE E == [i \in DOMAIN s |-> <<"=", s[i]>>]
  <1>1. Len(s) \in Nat /\ DOMAIN s = 1 .. Len(s) /\ \A i \in 1 .. Len(s) : s[i] \in STRING
    OBVIOUS
  <1>2. \A i \in 1 .. Len(s) : <<"=", s[i]>> \in DiffLine
    BY <1>1 DEF DiffLine
  <1>3. E = [i \in 1 .. Len(s) |-> <<"=", s[i]>>]
    BY <1>1
  <1>4. E \in [1 .. Len(s) -> DiffLine]
    BY <1>2, <1>3
  <1>5. \A j \in 1 .. Len(s) : E[j] = <<"=", s[j]>>
    BY <1>3
  <1> HIDE DEF E
  <1>6. E \in Seq(DiffLine) /\ Len(E) = Len(s)
    BY <1>1, <1>4
  <1> QED
    BY <1>5, <1>6 DEF E

LEMMA Shifts ==
  ASSUME NEW p \in Int, NEW q \in Int, NEW r \in Int, NEW t \in Int, NEW m \in Int,
         p >= 1, q >= 1, 0 <= m, m < r - p, r - p = t - q
  PROVE  /\ p + m \in 1 .. r /\ q + m \in 1 .. t /\ r - (p + m) = t - (q + m)
         /\ \A i \in 1 .. r - (p + m) :
              i \in 1 .. r - p - m /\ m + i \in 1 .. r - p /\ m + i \in 1 .. t - q /\ p + (m + i) - 1 = p + m + i - 1
              /\ q + (m + i) - 1 = q + m + i - 1
  OBVIOUS

LEMMA SameIsAbove ==
  ASSUME NEW h, Within(h), NEW x \in HunkType, x.s1 \in 1 .. h.s1, x.s2 \in 1 .. h.s2
  PROVE  /\ AboveOld(h, x) = AboveNew(h, x) => SameAbove(h, x)
         /\ \A m \in 0 .. Len(AboveOld(h, x)) - 1 :
              From(AboveOld(h, x), m) = From(AboveNew(h, x), m)
                => Shifted(x, m) \in HunkType /\ Shifted(x, m).lines = x.lines /\ Shifted(x, m).omits = x.omits /\ SameAbove(h, Shifted(x, m))
  <1> DEFINE o == AboveOld(h, x)
             n == AboveNew(h, x)
             p == x.s1
             q == x.s2
             r == h.s1
             t == h.s2
  <1>1. /\ o \in Seq(STRING) /\ Len(o) = r - p /\ \A i \in 1 .. r - p : o[i] = original[p + i - 1]
        /\ n \in Seq(STRING) /\ Len(n) = t - q /\ \A i \in 1 .. t - q : n[i] = new[q + i - 1]
    BY AboveIs
  <1>2. r \in Int /\ t \in Int /\ p \in Int /\ q \in Int /\ p >= 1 /\ q >= 1 /\ p <= r /\ q <= t
    BY DEF Within, HunkType
  <1>3. ASSUME NEW m \in Int
        PROVE  /\ Shifted(x, m) \in HunkType /\ Shifted(x, m).lines = x.lines /\ Shifted(x, m).omits = x.omits
               /\ Shifted(x, m).s1 = p + m /\ Shifted(x, m).s2 = q + m
    <2>1. /\ Shifted(x, m) = [x EXCEPT !.s1 = x.s1 + m, !.n1 = x.n1 - m, !.s2 = x.s2 + m, !.n2 = x.n2 - m]
          /\ x.s1 + m \in Int /\ x.n1 - m \in Int /\ x.s2 + m \in Int /\ x.n2 - m \in Int
      BY DEF Shifted, HunkType
    <2> QED
      BY <2>1 DEF HunkType
  <1> HIDE DEF o, n, p, q, r, t
  <1>4. ASSUME o = n
        PROVE  SameAbove(h, x)
    <2>1. r - p = t - q
      BY <1>1, <1>4
    <2>2. p \in 1 .. r /\ q \in 1 .. t
      BY <1>2
    <2>3. \A i \in 1 .. r - p : original[p + i - 1] = new[q + i - 1]
      BY <1>1, <1>4, <2>1
    <2> QED
      BY <2>1, <2>2, <2>3 DEF SameAbove, p, q, r, t
  <1>5. ASSUME NEW m \in 0 .. Len(o) - 1, From(o, m) = From(n, m)
        PROVE  Shifted(x, m) \in HunkType /\ Shifted(x, m).lines = x.lines /\ Shifted(x, m).omits = x.omits /\ SameAbove(h, Shifted(x, m))
    <2>1. o \in Seq(STRING) /\ n \in Seq(STRING) /\ Len(o) \in Int
      BY <1>1
    <2>2. Len(o) = Len(n) /\ \A i \in 1 .. Len(o) - m : o[m + i] = n[m + i]
      BY <1>5, <2>1, SameFrom
    <2>3. m \in Int /\ 0 <= m /\ m < r - p /\ r - p = t - q
      BY <1>1, <2>1, <2>2
    <2>4. /\ p + m \in 1 .. r /\ q + m \in 1 .. t /\ r - (p + m) = t - (q + m)
          /\ \A i \in 1 .. r - (p + m) :
               i \in 1 .. r - p - m /\ m + i \in 1 .. r - p /\ m + i \in 1 .. t - q
               /\ p + (m + i) - 1 = p + m + i - 1 /\ q + (m + i) - 1 = q + m + i - 1
      BY <1>2, <2>3, Shifts
    <2>5. ASSUME NEW i \in 1 .. r - (p + m)
          PROVE  original[p + m + i - 1] = new[q + m + i - 1]
      <3>1. o[m + i] = n[m + i]
        BY <1>1, <2>2, <2>4
      <3>2. o[m + i] = original[p + (m + i) - 1] /\ n[m + i] = new[q + (m + i) - 1]
        BY <1>1, <2>4
      <3> QED
        BY <2>4, <3>1, <3>2
    <2>6. /\ Shifted(x, m) \in HunkType /\ Shifted(x, m).lines = x.lines /\ Shifted(x, m).omits = x.omits
          /\ Shifted(x, m).s1 = p + m /\ Shifted(x, m).s2 = q + m
      BY <1>3, <2>3
    <2>7. SameAbove(h, Shifted(x, m))
      BY <2>4, <2>5, <2>6 DEF SameAbove, r, t
    <2> QED
      BY <2>6, <2>7
  <1> QED
    BY <1>4, <1>5 DEF o, n

\* How far a hunk may be extended.
LEMMA LimitsIs ==
  ASSUME NEW h \in HunkType, original \in Seq(STRING), after \in Nat, NEW L \in Nat
  PROVE  /\ Limits(h, L) \in HunkType /\ Limits(h, L).lines = h.lines /\ Limits(h, L).omits = h.omits /\ Limits(h, L).heading = h.heading
         /\ h.s1 >= 1 => Limits(h, L).s1 \in 1 .. h.s1
         /\ h.s2 >= 1 => Limits(h, L).s2 \in 1 .. h.s2
  <1> DEFINE e1 == Larger(1, h.s1 - L)
             e2 == Larger(1, h.s2 - L)
             x1 == h.n1 + (h.s1 - e1) + after
             x2 == h.n2 + (h.s2 - e2) + after
             beyond == Larger(0, e1 - 1 + x1 - Len(original))
             m1 == IF beyond > 0 THEN Larger(x1 - beyond, h.n1) ELSE x1
             m2 == IF beyond > 0 THEN Larger(x2 - beyond, h.n2) ELSE x2
  <1>1. Limits(h, L) = [h EXCEPT !.s1 = e1, !.n1 = m1, !.s2 = e2, !.n2 = m2]
    BY DEF Limits
  <1>2. /\ h \in HunkType /\ h.s1 \in Int /\ h.s2 \in Int /\ h.n1 \in Int /\ h.n2 \in Int
        /\ Len(original) \in Int
    BY DEF HunkType
  <1>3. \A i, j \in Int : Larger(i, j) \in Int
    BY DEF Larger
  <1>4. /\ h.s1 >= 1 => e1 \in 1 .. h.s1
        /\ h.s2 >= 1 => e2 \in 1 .. h.s2
    BY <1>2 DEF Larger
  <1>e. e1 \in Int /\ e2 \in Int
    <2>1. h.s1 - L \in Int /\ h.s2 - L \in Int
      BY <1>2
    <2>2. e1 = 1 \/ e1 = h.s1 - L
      BY DEF Larger
    <2>3. e2 = 1 \/ e2 = h.s2 - L
      BY DEF Larger
    <2> HIDE DEF e1, e2
    <2> QED
      BY <2>1, <2>2, <2>3
  <1> HIDE DEF e1, e2
  <1>5. x1 \in Int /\ x2 \in Int /\ e1 \in Int /\ e2 \in Int
    <2>1. /\ h.s1 \in Int /\ h.s2 \in Int /\ h.n1 \in Int /\ h.n2 \in Int /\ after \in Int
          /\ e1 \in Int /\ e2 \in Int
      BY <1>2, <1>e
    <2>2. \A i, j, k, m \in Int : i + (j - k) + m \in Int
      OBVIOUS
    <2> HIDE DEF beyond, m1, m2
    <2>3. h.n1 + (h.s1 - e1) + after \in Int /\ h.n2 + (h.s2 - e2) + after \in Int
      BY <2>1, <2>2, Zenon
    <2> QED
      BY <2>1, <2>3
  <1> HIDE DEF x1, x2
  <1>6. e1 - 1 + x1 - Len(original) \in Int
    BY <1>2, <1>5
  <1>7. beyond \in Int
    BY <1>3, <1>6
  <1> HIDE DEF beyond
  <1>8. m1 \in Int /\ m2 \in Int
    <2>1. x1 - beyond \in Int /\ x2 - beyond \in Int
      BY <1>5, <1>7
    <2> QED
      BY <1>2, <1>3, <1>5, <2>1
  <1> HIDE DEF m1, m2
  <1>9. /\ Limits(h, L) \in HunkType /\ Limits(h, L).lines = h.lines /\ Limits(h, L).omits = h.omits /\ Limits(h, L).heading = h.heading
        /\ Limits(h, L).s1 = e1 /\ Limits(h, L).s2 = e2
    BY <1>1, <1>2, <1>5, <1>8 DEF HunkType
  <1> QED
    BY <1>4, <1>9

LEMMA EnclosingIs ==
  ASSUME NEW h, Within(h), after \in Nat, before \in Nat, dynamic \in Nat
  PROVE  /\ Enclosing(h) \in HunkType /\ Enclosing(h).lines = h.lines /\ Enclosing(h).omits = h.omits
         /\ Enclosing(h).s1 \in 1 .. h.s1 /\ Enclosing(h).s2 \in 1 .. h.s2
  <1> DEFINE x == Limits(h, dynamic)
             o == AboveOld(h, x)
             found == {i \in DOMAIN o : h.heading \in {o[i], NoHeading}}
             m == Min(found) - 1
             n == AboveNew(h, x)
             same == dynamic > 0 /\ new # <<>> /\ found # {} /\ From(o, m) = From(n, m)
  <1>1. Enclosing(h) = IF same THEN [Shifted(x, m) EXCEPT !.heading = NoHeading] ELSE Limits(h, before)
    BY DEF Enclosing
  <1>h. h \in HunkType /\ original \in Seq(STRING) /\ h.s1 >= 1 /\ h.s2 >= 1
    BY DEF Within, HunkType
  <1>2. x \in HunkType /\ x.lines = h.lines /\ x.omits = h.omits /\ x.s1 \in 1 .. h.s1 /\ x.s2 \in 1 .. h.s2
    BY <1>h, LimitsIs
  <1> HIDE DEF x
  <1>3. o \in Seq(STRING)
    BY <1>2, AboveIs
  <1>4. Len(o) \in Nat /\ found \in SUBSET (1 .. Len(o))
    <2> HIDE DEF o
    <2> QED
      BY <1>3
  <1>5. ASSUME same
        PROVE  /\ [Shifted(x, m) EXCEPT !.heading = NoHeading] \in HunkType
               /\ [Shifted(x, m) EXCEPT !.heading = NoHeading].lines = h.lines
               /\ [Shifted(x, m) EXCEPT !.heading = NoHeading].omits = h.omits
               /\ [Shifted(x, m) EXCEPT !.heading = NoHeading].s1 \in 1 .. h.s1
               /\ [Shifted(x, m) EXCEPT !.heading = NoHeading].s2 \in 1 .. h.s2
    <2>1. found # {} /\ From(o, m) = From(n, m)
      BY <1>5
    <2> HIDE DEF found
    <2>2. found \in SUBSET (0 .. Len(o))
      BY <1>4
    <2>3. Min(found) \in found
      BY <1>4, <2>1, <2>2, MinIs
    <2>4. m \in 0 .. Len(o) - 1
      <3> DEFINE f == Min(found)
                 w == Len(o)
      <3>1. f \in 1 .. w /\ w \in Nat
        BY <1>4, <2>3
      <3> HIDE DEF f, w
      <3>2. f - 1 \in 0 .. w - 1
        BY <3>1
      <3> QED
        BY <3>2 DEF f, w
    <2> HIDE DEF m
    <2>5. Shifted(x, m) \in HunkType /\ Shifted(x, m).lines = x.lines /\ Shifted(x, m).omits = x.omits /\ SameAbove(h, Shifted(x, m))
      BY <1>2, <2>1, <2>4, SameIsAbove
    <2> DEFINE y == Shifted(x, m)
    <2>6. y \in HunkType /\ y.lines = h.lines /\ y.omits = h.omits /\ y.s1 \in 1 .. h.s1 /\ y.s2 \in 1 .. h.s2
      BY <1>2, <2>5 DEF SameAbove
    <2> HIDE DEF y
    <2>7. /\ [y EXCEPT !.heading = NoHeading] \in HunkType
          /\ [y EXCEPT !.heading = NoHeading].lines = y.lines
          /\ [y EXCEPT !.heading = NoHeading].omits = y.omits
          /\ [y EXCEPT !.heading = NoHeading].s1 = y.s1
          /\ [y EXCEPT !.heading = NoHeading].s2 = y.s2
      BY <2>6 DEF HunkType
    <2> QED
      BY <2>6, <2>7 DEF y
  <1>6. /\ Limits(h, before) \in HunkType /\ Limits(h, before).lines = h.lines /\ Limits(h, before).omits = h.omits
        /\ Limits(h, before).s1 \in 1 .. h.s1 /\ Limits(h, before).s2 \in 1 .. h.s2
    BY <1>h, LimitsIs
  <1> HIDE DEF same, m
  <1> QED
    BY <1>1, <1>5, <1>6

LEMMA ExtendedIs ==
  ASSUME NEW h, Within(h), after \in Nat, before \in Nat, dynamic \in Nat, new # <<>>
  PROVE  /\ Extended(h) \in HunkType /\ Extended(h).omits = h.omits
         /\ \E E \in Seq(DiffLine) :
              /\ Extended(h).lines = E \o h.lines
              /\ Len(E) = h.s2 - Extended(h).s2 /\ Extended(h).s2 \in 1 .. h.s2
              /\ \A i \in 1 .. Len(E) : E[i][1] = "=" /\ E[i][2] = new[Extended(h).s2 + i - 1]
  <1> DEFINE x == Enclosing(h)
             o == AboveOld(h, x)
             n == AboveNew(h, x)
             y == IF new = <<>> \/ o = n THEN x
                  ELSE IF Common(o, n) = {} THEN h ELSE Shifted(x, Min(Common(o, n)))
             extra == AboveOld(h, y)
             E == [i \in DOMAIN extra |-> <<"=", extra[i]>>]
             told == dynamic = 0 /\ \E i \in DOMAIN extra : extra[i] = y.heading
  <1>1. Extended(h) = [y EXCEPT !.heading = IF told THEN NoHeading ELSE y.heading, !.lines = E \o y.lines]
    BY DEF Extended
  <1>2. x \in HunkType /\ x.lines = h.lines /\ x.omits = h.omits /\ x.s1 \in 1 .. h.s1 /\ x.s2 \in 1 .. h.s2
    BY EnclosingIs
  <1> HIDE DEF x
  <1>3. o \in Seq(STRING) /\ Len(o) \in Nat
    BY <1>2, AboveIs
  <1>4. y \in HunkType /\ y.lines = h.lines /\ y.omits = h.omits /\ SameAbove(h, y)
    <2>1. CASE o = n
      <3>1. y = x
        BY <2>1
      <3>2. SameAbove(h, x)
        BY <1>2, <2>1, SameIsAbove
      <3> QED
        BY <1>2, <3>1, <3>2
    <2>2. CASE o # n /\ Common(o, n) = {}
      <3>1. y = h
        BY <2>2
      <3>2. h \in HunkType /\ h.s1 \in Int /\ h.s2 \in Int /\ h.s1 >= 1 /\ h.s2 >= 1
        BY DEF Within, HunkType
      <3>3. SameAbove(h, h)
        BY <3>2 DEF SameAbove
      <3> QED
        BY <3>1, <3>2, <3>3
    <2>3. CASE o # n /\ Common(o, n) # {}
      <3> DEFINE m == Min(Common(o, n))
      <3>1. y = Shifted(x, m)
        BY <2>3
      <3> HIDE DEF o, n
      <3>2. Common(o, n) \in SUBSET (0 .. Len(o))
        BY <1>3 DEF Common
      <3>3. m \in Common(o, n)
        BY <1>3, <2>3, <3>2, MinIs
      <3>4. m \in 0 .. Len(o) - 1 /\ From(o, m) = From(n, m)
        BY <3>3 DEF Common
      <3> HIDE DEF m
      <3>5. Shifted(x, m) \in HunkType /\ Shifted(x, m).lines = x.lines /\ Shifted(x, m).omits = x.omits /\ SameAbove(h, Shifted(x, m))
        BY <1>2, <3>4, SameIsAbove DEF o, n
      <3> QED
        BY <1>2, <3>1, <3>5
    <2> QED
      BY <2>1, <2>2, <2>3
  <1> HIDE DEF o, n, y
  <1>5. y.s1 \in 1 .. h.s1 /\ y.s2 \in 1 .. h.s2
    BY <1>4 DEF SameAbove
  <1>6. /\ extra \in Seq(STRING) /\ Len(extra) = h.s1 - y.s1
        /\ \A i \in 1 .. h.s1 - y.s1 : extra[i] = original[y.s1 + i - 1]
    <2> HIDE DEF extra, E, told
    <2>1. /\ AboveOld(h, y) \in Seq(STRING) /\ Len(AboveOld(h, y)) = h.s1 - y.s1
          /\ \A i \in 1 .. h.s1 - y.s1 : AboveOld(h, y)[i] = original[y.s1 + i - 1]
      BY <1>5, AboveIs
    <2> QED
      BY <2>1 DEF extra
  <1>7. h.s1 - y.s1 = h.s2 - y.s2 /\ \A i \in 1 .. h.s1 - y.s1 : original[y.s1 + i - 1] = new[y.s2 + i - 1]
    BY <1>4 DEF SameAbove
  <1> HIDE DEF extra
  <1>8. /\ E \in Seq(DiffLine) /\ Len(E) = Len(extra) /\ \A i \in 1 .. Len(extra) : E[i] = <<"=", extra[i]>>
    BY <1>6, SameLines DEF E
  <1> HIDE DEF E, told
  <1>9. E \o y.lines \in Seq(DiffLine) /\ y.heading \in {Heading, NoHeading}
    BY <1>4, <1>8 DEF HunkType
  <1>10. /\ Extended(h) \in HunkType /\ Extended(h).omits = y.omits
         /\ Extended(h).lines = E \o y.lines /\ Extended(h).s2 = y.s2
    <2> DEFINE a == IF told THEN NoHeading ELSE y.heading
               b == E \o y.lines
    <2>1. a \in {Heading, NoHeading} /\ b \in Seq(DiffLine)
      BY <1>9
    <2> HIDE DEF a, b
    <2>2. Extended(h) = [y EXCEPT !.heading = a, !.lines = b]
      BY <1>1 DEF a, b
    <2>3. Extended(h) \in HunkType /\ Extended(h).omits = y.omits /\ Extended(h).lines = b /\ Extended(h).s2 = y.s2
      BY <1>4, <2>1, <2>2 DEF HunkType
    <2> QED
      BY <2>3 DEF b
  <1>11. ASSUME NEW i \in 1 .. Len(E)
         PROVE  E[i][1] = "=" /\ E[i][2] = new[y.s2 + i - 1]
    <2>1. E[i] = <<"=", extra[i]>> /\ extra[i] = new[y.s2 + i - 1]
      BY <1>6, <1>7, <1>8
    <2> QED
      BY <2>1
  <1>12. Len(E) = h.s2 - y.s2
    BY <1>6, <1>7, <1>8
  <1> QED
    BY <1>4, <1>5, <1>8, <1>10, <1>11, <1>12
-----------------------------------------------------------------------------
(* What is put below a hunk, and the whole.                                *)

LEMMA TwoParts ==
  ASSUME NEW V, NEW s \in Seq(V), NEW c \in 0 .. Len(s)
  PROVE  /\ SubSeq(s, 1, c) \in Seq(V) /\ SubSeq(s, c + 1, Len(s)) \in Seq(V)
         /\ Len(SubSeq(s, 1, c)) = c /\ Len(SubSeq(s, c + 1, Len(s))) = Len(s) - c
         /\ \A i \in 1 .. c : SubSeq(s, 1, c)[i] = s[i]
         /\ s = SubSeq(s, 1, c) \o SubSeq(s, c + 1, Len(s))
  <1> DEFINE u == SubSeq(s, 1, c)
             v == SubSeq(s, c + 1, Len(s))
  <1>1. Len(s) \in Nat /\ c \in Int /\ 0 <= c /\ c <= Len(s)
    OBVIOUS
  <1>2. /\ u \in Seq(V) /\ Len(u) = c /\ \A i \in 1 .. c : u[i] = s[i]
        /\ v \in Seq(V) /\ Len(v) = Len(s) - c /\ \A i \in 1 .. Len(v) : v[i] = s[c + i]
    BY <1>1
  <1> HIDE DEF u, v
  <1>3. Len(s) = Len(u) + Len(v)
    BY <1>1, <1>2
  <1>4. \A k \in 1 .. Len(u) : s[k] = u[k]
    BY <1>2
  <1>5. \A k \in 1 .. Len(v) : s[Len(u) + k] = v[k]
    BY <1>2
  <1>6. u \in Seq(V) /\ v \in Seq(V)
    BY <1>2
  <1>7. s = u \o v
    BY <1>3, <1>4, <1>5, <1>6, JoinIs
  <1> QED
    BY <1>2, <1>7 DEF u, v

\* A list and another after it.
LEMMA FirstIs ==
  ASSUME NEW V, NEW s \in Seq(V), NEW t \in Seq(V)
  PROVE  /\ Len(s \o t) = Len(s) + Len(t) /\ Len(t) \in Nat /\ DOMAIN (s \o t) = 1 .. Len(s) + Len(t)
         /\ \A i \in 1 .. Len(s) : (s \o t)[i] = s[i]
  OBVIOUS

\* The first lines of a side if the first lines have not changed.
LEMMA HeadOfSide ==
  ASSUME NEW v \in Seq(DiffLine), NEW c \in Nat, NEW sign, sign # "=",
         \A i \in DOMAIN v : i <= c => v[i][1] = "="
  PROVE  \A k \in 1 .. c : /\ k \in DOMAIN v <=> k \in DOMAIN Without(v, sign)
                           /\ k \in DOMAIN v => Without(v, sign)[k] = v[k]
  <1> DEFINE e == IF c < Len(v) THEN c ELSE Len(v)
             u == SubSeq(v, 1, e)
             w == SubSeq(v, e + 1, Len(v))
             s == Without(w, sign)
  <1>1. Len(v) \in Nat /\ e \in 0 .. Len(v) /\ e <= c /\ (e = c \/ e = Len(v)) /\ DOMAIN v = 1 .. Len(v)
    OBVIOUS
  <1>e. e \in Int /\ Len(v) \in Int /\ e <= Len(v)
    OBVIOUS
  <1> HIDE DEF e
  <1>2. /\ u \in Seq(DiffLine) /\ w \in Seq(DiffLine) /\ Len(u) = e /\ Len(w) = Len(v) - e
        /\ \A i \in 1 .. e : u[i] = v[i]
        /\ v = u \o w
    BY <1>1, TwoParts
  <1> HIDE DEF u, w
  <1>3. \A i \in DOMAIN u : u[i][1] # sign
    BY <1>1, <1>2
  <1>4. Without(u, sign) = u
    <2>1. u \in Seq(DiffLine)
      BY <1>2
    <2> QED
      BY <1>3, <2>1, SideWhole
  <1>5. Without(v, sign) = u \o s
    <2>1. u \in Seq(DiffLine) /\ w \in Seq(DiffLine) /\ v = Both(u, w)
      BY <1>2 DEF Both
    <2>2. Without(Both(u, w), sign) = Both(Without(u, sign), Without(w, sign))
      BY <2>1, SidesJoin
    <2> QED
      BY <1>4, <2>1, <2>2 DEF Both
  <1>6. s \in Seq(DiffLine)
    BY <1>2, SideType
  <1>7. e = Len(v) => Len(s) = 0
    <2>1. ASSUME e = Len(v)
          PROVE  s = <<>>
      <3>1. Len(w) = 0
        BY <1>1, <1>2, <2>1
      <3>2. \A i \in DOMAIN w : w[i][1] = sign
        BY <1>2, <3>1
      <3> QED
        BY <1>2, <3>2, SideWhole
    <2> QED
      BY <2>1
  <1> HIDE DEF s
  <1>8. /\ Len(u \o s) = e + Len(s) /\ Len(s) \in Nat /\ DOMAIN (u \o s) = 1 .. e + Len(s)
        /\ \A i \in 1 .. e : (u \o s)[i] = u[i]
    <2>1. u \in Seq(DiffLine) /\ Len(u) = e
      BY <1>2
    <2>2. /\ Len(u \o s) = Len(u) + Len(s) /\ Len(s) \in Nat /\ DOMAIN (u \o s) = 1 .. Len(u) + Len(s)
          /\ \A i \in 1 .. Len(u) : (u \o s)[i] = u[i]
      BY <1>6, <2>1, FirstIs
    <2> QED
      BY <2>1, <2>2
  <1>i. Len(s) \in Int /\ Len(s) >= 0
    BY <1>6
  <1>j. e = c \/ (e = Len(v) /\ Len(s) = 0)
    BY <1>1, <1>7
  <1>9. ASSUME NEW k \in 1 .. c
        PROVE  /\ k \in 1 .. Len(v) <=> k \in 1 .. e + Len(s)
               /\ k \in 1 .. Len(v) => k \in 1 .. e
    <2>1. k \in Int /\ 1 <= k /\ k <= c
      OBVIOUS
    <2> QED
      BY <1>e, <1>i, <1>j, <2>1
  <1> QED
    BY <1>1, <1>2, <1>5, <1>8, <1>9

\* Two lists begin with the same c elements, or are both shorter and the same.
BeginAlike(s, t, c) == \A k \in 1 .. c : (k \in DOMAIN s <=> k \in DOMAIN t) /\ (k \in DOMAIN s => t[k] = s[k])

\* The first c lines have not changed.
BeginsUnchanged(v, c) == \A i \in DOMAIN v : i <= c => v[i][1] = "="

LEMMA SideHead ==
  ASSUME NEW v \in Seq(DiffLine), NEW c \in Nat, NEW sign, sign # "=", BeginsUnchanged(v, c)
  PROVE  BeginAlike(v, Without(v, sign), c)
  <1>1. \A i \in DOMAIN v : i <= c => v[i][1] = "="
    BY Zenon DEF BeginsUnchanged
  <1>2. \A k \in 1 .. c : /\ k \in DOMAIN v <=> k \in DOMAIN Without(v, sign)
                          /\ k \in DOMAIN v => Without(v, sign)[k] = v[k]
    BY <1>1, HeadOfSide
  <1> QED
    BY <1>2, Zenon DEF BeginAlike

LEMMA AfterIs ==
  ASSUME NEW f \in Seq(STRING), NEW e \in 0 .. Len(f), NEW c \in Nat
  PROVE  /\ Slice(f, e + 1, e + c) \in Seq(STRING)
         /\ Len(Slice(f, e + 1, e + c)) <= c /\ Len(Slice(f, e + 1, e + c)) <= Len(f) - e
         /\ \A i \in 1 .. Len(Slice(f, e + 1, e + c)) : Slice(f, e + 1, e + c)[i] = f[e + i]
  <1> DEFINE q == IF e + c < Len(f) THEN e + c ELSE Len(f)
  <1>1. Slice(f, e + 1, e + c) = SubSeq(f, e + 1, q)
    BY DEF Slice
  <1>2. q \in 0 .. Len(f) /\ q <= e + c /\ e <= q /\ Len(f) \in Nat /\ e \in Int
    OBVIOUS
  <1> HIDE DEF q
  <1>3. /\ SubSeq(f, e + 1, q) \in Seq(STRING) /\ Len(SubSeq(f, e + 1, q)) = q - e
        /\ \A i \in 1 .. q - e : SubSeq(f, e + 1, q)[i] = f[e + i]
    BY <1>2
  <1>4. q - e <= c /\ q - e <= Len(f) - e
    BY <1>2
  <1> QED
    BY <1>1, <1>3, <1>4

\* A diff's side around a hunk: what is below the hunk begins after line e.
Rests(all, below, e) ==
  /\ all \in Seq(DiffLine) /\ below \in Seq(DiffLine)
  /\ Len(all) = e + Len(below) /\ e \in 0 .. Len(all)
  /\ \A i \in 1 .. Len(below) : e + i \in 1 .. Len(all) /\ all[e + i] = below[i]

LEMMA SideAround ==
  ASSUME NEW u \in Seq(DiffLine), NEW l \in Seq(DiffLine), NEW v \in Seq(DiffLine), NEW d, d = u \o l \o v,
         NEW sign
  PROVE  /\ Len(Without(u, sign)) \in Nat /\ Len(Without(l, sign)) \in Nat
         /\ Rests(Without(d, sign), Without(v, sign), Len(Without(u, sign)) + Len(Without(l, sign)))
  <1> DEFINE U == Without(u, sign)
             L == Without(l, sign)
             W == Without(v, sign)
  <1>1. Without(d, sign) = U \o L \o W
    <2>1. d = Both(Both(u, l), v)
      BY DEF Both
    <2>2. Without(Both(Both(u, l), v), sign) = Both(Both(U, L), W)
      BY ThreeSides
    <2> QED
      BY <2>1, <2>2 DEF Both
  <1>2. U \in Seq(DiffLine) /\ L \in Seq(DiffLine) /\ W \in Seq(DiffLine)
    BY SideType
  <1> HIDE DEF U, L, W
  <1>3. /\ U \o L \o W \in Seq(DiffLine) /\ Len(U \o L \o W) = Len(U) + Len(L) + Len(W)
        /\ Len(U) \in Nat /\ Len(L) \in Nat /\ Len(W) \in Nat
    BY <1>2
  <1>4. \A i \in 1 .. Len(W) : /\ Len(U) + Len(L) + i \in 1 .. Len(U) + Len(L) + Len(W)
                               /\ (U \o L \o W)[Len(U) + Len(L) + i] = W[i]
    BY <1>2, <1>3
  <1>5. Len(U) + Len(L) \in 0 .. Len(U) + Len(L) + Len(W) /\ Len(U) + Len(L) \in Nat
    BY <1>3
  <1>6. Rests(U \o L \o W, W, Len(U) + Len(L))
    BY <1>2, <1>3, <1>4, <1>5 DEF Rests
  <1> QED
    BY <1>1, <1>3, <1>6 DEF U, L, W

LEMMA BelowIs ==
  ASSUME NEW d \in Seq(DiffLine), NEW h, IsHunk(h, d), h.n1 # 0, h.n2 # 0,
         original = OldFile(d), new = NewFile(d), after \in Nat, after <= Context + 1
  PROVE  /\ Below(h) \in Seq(DiffLine)
         /\ \A i \in 1 .. Len(Below(h)) :
              /\ Below(h)[i][1] = "="
              /\ h.s2 + h.n2 + i - 1 \in DOMAIN new /\ Below(h)[i][2] = new[h.s2 + h.n2 + i - 1]
  <1>1. PICK u, v \in Seq(DiffLine) :
          /\ d = u \o h.lines \o v
          /\ \A i \in DOMAIN v : i <= Context + 1 => v[i][1] = "="
          /\ h.s1 = Len(OldSide(u)) + (IF h.n1 = 0 THEN 0 ELSE 1)
          /\ h.s2 = Len(NewSide(u)) + (IF h.n2 = 0 THEN 0 ELSE 1)
    BY DEF IsHunk
  <1>2. h.lines \in Seq(DiffLine) /\ h.n1 = Len(Without(h.lines, "+")) /\ h.n2 = Len(Without(h.lines, "-"))
    BY DEF IsHunk, OldSide, NewSide
  <1> DEFINE O == Without(d, "+")
             N == Without(d, "-")
             p == Len(Without(u, "+")) + Len(Without(h.lines, "+"))
             q == Len(Without(u, "-")) + Len(Without(h.lines, "-"))
             Wo == Without(v, "+")
             Wn == Without(v, "-")
  <1>3. Len(Without(u, "+")) \in Nat /\ Len(Without(h.lines, "+")) \in Nat /\ Rests(O, Wo, p)
    BY <1>1, <1>2, SideAround
  <1>4. Len(Without(u, "-")) \in Nat /\ Len(Without(h.lines, "-")) \in Nat /\ Rests(N, Wn, q)
    BY <1>1, <1>2, SideAround
  <1>5. h.s1 + h.n1 = p + 1 /\ h.s1 + h.n1 + after - 1 = p + after
    BY <1>1, <1>2, <1>3 DEF OldSide
  <1>6. h.s2 + h.n2 = q + 1
    BY <1>1, <1>2, <1>4 DEF NewSide
  <1> HIDE DEF O, N, p, q
  <1>a. /\ O \in Seq(DiffLine) /\ Wo \in Seq(DiffLine) /\ Len(O) = p + Len(Wo) /\ p \in 0 .. Len(O)
        /\ \A i \in 1 .. Len(Wo) : p + i \in 1 .. Len(O) /\ O[p + i] = Wo[i]
    BY <1>3 DEF Rests
  <1>b. /\ N \in Seq(DiffLine) /\ Wn \in Seq(DiffLine) /\ Len(N) = q + Len(Wn) /\ q \in 0 .. Len(N)
        /\ \A i \in 1 .. Len(Wn) : q + i \in 1 .. Len(N) /\ N[q + i] = Wn[i]
    BY <1>4 DEF Rests
  <1>7. /\ original \in Seq(STRING) /\ Len(original) = Len(O) /\ \A i \in 1 .. Len(O) : original[i] = O[i][2]
        /\ new \in Seq(STRING) /\ DOMAIN new = 1 .. Len(N) /\ \A i \in 1 .. Len(N) : new[i] = N[i][2]
    BY <1>a, <1>b, TextType DEF OldFile, NewFile, OldSide, NewSide, O, N
  <1> DEFINE c == Context + 1
             extra == Slice(original, p + 1, p + after)
  <1>8. c \in Nat /\ after <= c
    BY PatchAssumption
  <1>9. BeginsUnchanged(v, c)
    BY <1>1 DEF BeginsUnchanged
  <1> HIDE DEF c
  <1>w. DOMAIN Wo = 1 .. Len(Wo) /\ DOMAIN Wn = 1 .. Len(Wn)
    BY <1>1, SideType
  <1>v. v \in Seq(DiffLine) /\ c \in Nat /\ "+" # "=" /\ "-" # "="
    BY <1>8
  <1>10. \A k \in 1 .. c : (k \in DOMAIN v <=> k \in DOMAIN Wo) /\ (k \in DOMAIN v => Wo[k] = v[k])
    <2>1. BeginAlike(v, Without(v, "+"), c)
      BY <1>v, <1>9, SideHead
    <2> QED
      BY <2>1 DEF BeginAlike
  <1>11. \A k \in 1 .. c : (k \in DOMAIN v <=> k \in DOMAIN Wn) /\ (k \in DOMAIN v => Wn[k] = v[k])
    <2>1. BeginAlike(v, Without(v, "-"), c)
      BY <1>v, <1>9, SideHead
    <2> QED
      BY <2>1 DEF BeginAlike
  <1> HIDE DEF Wo, Wn
  <1>12. /\ extra \in Seq(STRING) /\ Len(extra) <= after /\ Len(extra) <= Len(original) - p
         /\ \A i \in 1 .. Len(extra) : extra[i] = original[p + i]
    <2>1. p \in 0 .. Len(original)
      BY <1>a, <1>7
    <2> QED
      BY <1>7, <2>1, AfterIs
  <1>13. Below(h) = [i \in DOMAIN extra |-> <<"=", extra[i]>>]
    BY <1>5 DEF Below
  <1> HIDE DEF extra
  <1>14. /\ Below(h) \in Seq(DiffLine) /\ Len(Below(h)) = Len(extra)
         /\ \A i \in 1 .. Len(extra) : Below(h)[i] = <<"=", extra[i]>>
    BY <1>12, <1>13, SameLines
  <1>15. ASSUME NEW i \in 1 .. Len(extra)
         PROVE  /\ Below(h)[i][1] = "="
                /\ h.s2 + h.n2 + i - 1 \in DOMAIN new /\ Below(h)[i][2] = new[h.s2 + h.n2 + i - 1]
    <2>1. i \in Int /\ 1 <= i /\ i <= Len(extra) /\ Len(extra) \in Int
      BY <1>12
    <2>2. i \in 1 .. c
      <3>1. after \in Int /\ c \in Int /\ Len(extra) <= after /\ after <= c
        BY <1>8, <1>12
      <3> QED
        BY <2>1, <3>1
    <2>3. i \in DOMAIN Wo
      <3>1. Len(Wo) \in Int /\ Len(O) = p + Len(Wo) /\ p \in Int /\ Len(extra) <= Len(O) - p
        BY <1>a, <1>7, <1>12
      <3>2. i \in 1 .. Len(Wo)
        BY <2>1, <3>1
      <3> QED
        BY <1>w, <3>2
    <2>4. i \in DOMAIN v /\ Wo[i] = v[i] /\ Wn[i] = v[i] /\ i \in DOMAIN Wn
      BY <1>10, <1>11, <2>2, <2>3
    <2>5. i \in 1 .. Len(Wo) /\ i \in 1 .. Len(Wn)
      BY <1>w, <2>3, <2>4
    <2>6. O[p + i] = N[q + i] /\ q + i \in 1 .. Len(N) /\ p + i \in 1 .. Len(O)
      BY <1>a, <1>b, <2>4, <2>5
    <2>7. extra[i] = new[q + i] /\ q + i \in DOMAIN new
      BY <1>7, <1>12, <2>6
    <2>8. h.s2 + h.n2 + i - 1 = q + i
      <3>1. q \in Int
        BY <1>b
      <3> QED
        BY <1>6, <2>1, <3>1
    <2> QED
      BY <1>14, <2>7, <2>8
  <1> QED
    BY <1>14, <1>15

\* What ExtendHunk makes of a hunk whose header is read as p.
WholeHunk(p) == [Extended(p) EXCEPT !.lines = @ \o Below(p)]

LEMMA WholeIs ==
  ASSUME NEW p, Extended(p) \in HunkType, Below(p) \in Seq(DiffLine)
  PROVE  /\ WholeHunk(p) \in HunkType /\ WholeHunk(p).omits = Extended(p).omits
         /\ WholeHunk(p).s2 = Extended(p).s2 /\ WholeHunk(p).lines = Both(Extended(p).lines, Below(p))
  <1> DEFINE x == Extended(p)
             w == x.lines \o Below(p)
  <1>1. WholeHunk(p) = [x EXCEPT !.lines = w]
    BY DEF WholeHunk
  <1>2. w = Both(x.lines, Below(p))
    BY DEF Both
  <1>3. x \in HunkType
    OBVIOUS
  <1>4. x.lines \in Seq(DiffLine)
    BY DEF HunkType
  <1> HIDE DEF x
  <1>5. w \in Seq(DiffLine)
    BY <1>4
  <1> HIDE DEF w
  <1>6. WholeHunk(p) \in HunkType /\ WholeHunk(p).omits = x.omits /\ WholeHunk(p).s2 = x.s2 /\ WholeHunk(p).lines = w
    BY <1>1, <1>3, <1>5 DEF HunkType
  <1> QED
    BY <1>2, <1>6 DEF x

\* As the header is read, an omitted count is 0, and nothing else differs.
LEMMA ParsedIs ==
  ASSUME NEW h \in HunkType
  PROVE  /\ Parsed(h) \in HunkType /\ Parsed(h).lines = h.lines /\ Parsed(h).omits = h.omits
         /\ Parsed(h).s1 = h.s1 /\ Parsed(h).s2 = h.s2
         /\ Parsed(h).n1 = (IF "old" \in h.omits THEN 0 ELSE h.n1)
         /\ Parsed(h).n2 = (IF "new" \in h.omits THEN 0 ELSE h.n2)
  <1> DEFINE a == IF "old" \in h.omits THEN 0 ELSE h.n1
             b == IF "new" \in h.omits THEN 0 ELSE h.n2
  <1>1. Parsed(h) = [h EXCEPT !.n1 = a, !.n2 = b]
    BY DEF Parsed
  <1>2. a \in Int /\ b \in Int
    BY DEF HunkType
  <1> HIDE DEF a, b
  <1>3. /\ Parsed(h) \in HunkType /\ Parsed(h).lines = h.lines /\ Parsed(h).omits = h.omits
        /\ Parsed(h).s1 = h.s1 /\ Parsed(h).s2 = h.s2 /\ Parsed(h).n1 = a /\ Parsed(h).n2 = b
    BY <1>1, <1>2 DEF HunkType
  <1> QED
    BY <1>3 DEF a, b

\* Lines below lines that have their numbers have theirs if they follow these.
LEMMA JoinFollows ==
  ASSUME NEW s \in Int, NEW u \in Seq(DiffLine), NEW v \in Seq(DiffLine), NEW file,
         FollowsAt(s, u, file), FollowsAt(s + Len(NewSide(u)), v, file)
  PROVE  FollowsAt(s, Both(u, v), file)
  <1> DEFINE U == NewSide(u)
             V == NewSide(v)
             W == NewSide(Both(u, v))
             a == Len(U)
             b == Len(V)
  <1>1. U \in Seq(DiffLine) /\ V \in Seq(DiffLine)
    BY SideType DEF NewSide
  <1>2. W = U \o V
    BY SidesJoin DEF NewSide, Both
  <1> HIDE DEF U, V, W
  <1>3. /\ a \in Nat /\ b \in Nat /\ Len(W) = a + b
        /\ \A i \in 1 .. a : W[i] = U[i]
        /\ \A i \in 1 .. b : W[a + i] = V[i]
    BY <1>1, <1>2
  <1>4. /\ \A i \in 1 .. a : s + i - 1 \in DOMAIN file /\ file[s + i - 1] = U[i][2]
        /\ \A i \in 1 .. b : s + a + i - 1 \in DOMAIN file /\ file[s + a + i - 1] = V[i][2]
    BY DEF FollowsAt, U, V
  <1> HIDE DEF a, b
  <1>5. ASSUME NEW i \in 1 .. a + b
        PROVE  s + i - 1 \in DOMAIN file /\ file[s + i - 1] = W[i][2]
    <2>0. i \in Int /\ 1 <= i /\ i <= a + b /\ a \in Int /\ b \in Int /\ a >= 0 /\ b >= 0
      BY <1>3
    <2>1. CASE i <= a
      <3>1. i \in 1 .. a
        BY <2>0, <2>1
      <3> QED
        BY <1>3, <1>4, <3>1
    <2>2. CASE i > a
      <3>1. i - a \in 1 .. b /\ a + (i - a) = i /\ s + a + (i - a) - 1 = s + i - 1
        BY <2>0, <2>2
      <3>2. W[a + (i - a)] = V[i - a]
        BY <1>3, <3>1
      <3>3. s + a + (i - a) - 1 \in DOMAIN file /\ file[s + a + (i - a) - 1] = V[i - a][2]
        BY <1>4, <3>1
      <3> QED
        BY <3>1, <3>2, <3>3
    <2> QED
      BY <2>0, <2>1, <2>2
  <1> QED
    BY <1>3, <1>5 DEF FollowsAt, W

\* Where a hunk with lines of both files is in them.
LEMMA HunkWithin ==
  ASSUME NEW d \in Seq(DiffLine), NEW h \in HunkType, IsHunk(h, d), h.n1 # 0, h.n2 # 0,
         original = OldFile(d), new = NewFile(d)
  PROVE  Within(h) /\ new # <<>>
  <1>1. PICK u, v \in Seq(DiffLine) :
          /\ d = u \o h.lines \o v
          /\ h.s1 = Len(OldSide(u)) + (IF h.n1 = 0 THEN 0 ELSE 1)
          /\ h.s2 = Len(NewSide(u)) + (IF h.n2 = 0 THEN 0 ELSE 1)
    BY DEF IsHunk
  <1>2. h.lines \in Seq(DiffLine) /\ h.n2 = Len(NewSide(h.lines))
    BY DEF IsHunk
  <1>3. /\ original \in Seq(STRING) /\ new \in Seq(STRING)
        /\ Len(original) = Len(OldSide(d)) /\ Len(new) = Len(NewSide(d)) /\ DOMAIN new = 1 .. Len(new)
    BY SideType, TextType DEF OldFile, NewFile, OldSide, NewSide
  <1>4. Len(OldSide(u)) \in Nat /\ Len(OldSide(d)) \in Nat /\ Len(OldSide(u)) <= Len(OldSide(d))
    <2>1. /\ Len(Without(u, "+")) \in Nat /\ Len(Without(h.lines, "+")) \in Nat
          /\ Rests(Without(d, "+"), Without(v, "+"), Len(Without(u, "+")) + Len(Without(h.lines, "+")))
      BY <1>1, <1>2, SideAround
    <2>2. /\ Without(d, "+") \in Seq(DiffLine)
          /\ Len(Without(u, "+")) + Len(Without(h.lines, "+")) \in 0 .. Len(Without(d, "+"))
      BY <2>1 DEF Rests
    <2> QED
      BY <2>1, <2>2 DEF OldSide
  <1>5. Len(NewSide(u)) \in Nat /\ Len(NewSide(d)) \in Nat /\ Len(NewSide(u)) <= Len(NewSide(d))
    <2>1. /\ Len(Without(u, "-")) \in Nat /\ Len(Without(h.lines, "-")) \in Nat
          /\ Rests(Without(d, "-"), Without(v, "-"), Len(Without(u, "-")) + Len(Without(h.lines, "-")))
      BY <1>1, <1>2, SideAround
    <2>2. /\ Without(d, "-") \in Seq(DiffLine)
          /\ Len(Without(u, "-")) + Len(Without(h.lines, "-")) \in 0 .. Len(Without(d, "-"))
      BY <2>1 DEF Rests
    <2> QED
      BY <2>1, <2>2 DEF NewSide
  <1>6. h.s1 \in 1 .. Len(original) + 1
    BY <1>1, <1>3, <1>4
  <1>7. h.s2 \in 1 .. Len(new) + 1
    BY <1>1, <1>3, <1>5
  <1>8. new # <<>>
    <2>1. Len(NewSide(h.lines)) \in Nat \ {0}
      BY <1>2, SideType DEF NewSide
    <2>2. 1 \in 1 .. Len(NewSide(h.lines))
      BY <2>1
    <2>3. h.s2 + 1 - 1 \in DOMAIN new
      BY <2>2, HunkFollows DEF Follows, FollowsAt
    <2> QED
      BY <1>3, <2>3
  <1> QED
    BY <1>3, <1>6, <1>7, <1>8 DEF Within

\* A hunk with what is put above it.
LEMMA TopFollows ==
  ASSUME NEW d \in Seq(DiffLine), NEW h \in HunkType, IsHunk(h, d), h.n1 # 0, h.n2 # 0,
         original = OldFile(d), new = NewFile(d),
         before \in Nat, dynamic \in Nat, after \in Nat
  PROVE  LET x == Extended(Parsed(h))
         IN /\ x \in HunkType /\ x.omits = h.omits
            /\ FollowsAt(x.s2, x.lines, new) /\ x.s2 + Len(NewSide(x.lines)) = h.s2 + h.n2
  <1> DEFINE p == Parsed(h)
             x == Extended(p)
             L == NewSide(h.lines)
  <1>1. Within(h) /\ new # <<>>
    BY HunkWithin
  <1>2. p \in HunkType /\ p.lines = h.lines /\ p.omits = h.omits /\ p.s1 = h.s1 /\ p.s2 = h.s2
    BY ParsedIs
  <1> HIDE DEF p
  <1>3. Within(p)
    BY <1>1, <1>2 DEF Within
  <1>x. /\ x \in HunkType /\ x.omits = p.omits
        /\ \E E \in Seq(DiffLine) :
             /\ x.lines = E \o p.lines
             /\ Len(E) = p.s2 - x.s2 /\ x.s2 \in 1 .. p.s2
             /\ \A i \in 1 .. Len(E) : E[i][1] = "=" /\ E[i][2] = new[x.s2 + i - 1]
    BY <1>1, <1>3, ExtendedIs
  <1> HIDE DEF x
  <1>4. x \in HunkType /\ x.omits = h.omits
    BY <1>2, <1>x
  <1>5. PICK E \in Seq(DiffLine) :
           /\ x.lines = E \o h.lines
           /\ Len(E) = h.s2 - x.s2 /\ x.s2 \in 1 .. h.s2
           /\ \A i \in 1 .. Len(E) : E[i][1] = "=" /\ E[i][2] = new[x.s2 + i - 1]
    BY <1>2, <1>x
  <1>6. h.lines \in Seq(DiffLine) /\ h.n2 = Len(L) /\ FollowsAt(h.s2, h.lines, new)
    <2>1. Follows(h, new)
      BY HunkFollows
    <2> QED
      BY <2>1 DEF IsHunk, Follows
  <1>7. L \in Seq(DiffLine)
    BY <1>6, SideType DEF NewSide
  <1> HIDE DEF L
  <1> DEFINE s == x.s2
             n == Len(new)
             a == Len(E)
  <1>8. s \in Int /\ s >= 1 /\ h.s2 = s + a /\ h.s2 - 1 <= n /\ n \in Int /\ DOMAIN new = 1 .. n /\ a \in Nat
    <2>1. h.s2 \in Int /\ h.s2 \in 1 .. n + 1 /\ n \in Nat /\ DOMAIN new = 1 .. n
      BY <1>1 DEF Within, HunkType
    <2>2. s \in 1 .. h.s2 /\ a = h.s2 - s /\ a \in Nat
      BY <1>5
    <2> HIDE DEF s, n, a
    <2> QED
      BY <2>1, <2>2
  <1>9. NewSide(E) = E
    <2>1. \A i \in DOMAIN E : E[i][1] # "-"
      BY <1>5
    <2> QED
      BY <2>1, SideWhole DEF NewSide
  <1>10. FollowsAt(s, E, new)
    <2>1. ASSUME NEW i \in 1 .. a
          PROVE  s + i - 1 \in DOMAIN new /\ new[s + i - 1] = E[i][2]
      <3>1. E[i][2] = new[s + i - 1]
        BY <1>5
      <3> HIDE DEF s, n, a
      <3>2. s + i - 1 \in 1 .. n
        BY <1>8
      <3> QED
        BY <1>8, <3>1, <3>2
    <2> QED
      BY <1>9, <2>1 DEF FollowsAt
  <1>11. FollowsAt(s + Len(NewSide(E)), h.lines, new)
    BY <1>6, <1>8, <1>9
  <1>12. FollowsAt(s, Both(E, h.lines), new)
    <2> HIDE DEF s
    <2> QED
      BY <1>6, <1>8, <1>10, <1>11, JoinFollows
  <1>13. x.lines = Both(E, h.lines)
    BY <1>5 DEF Both
  <1>14. s + Len(NewSide(x.lines)) = h.s2 + h.n2
    <2>1. NewSide(x.lines) = E \o L
      <3>1. Without(Both(E, h.lines), "-") = Both(Without(E, "-"), Without(h.lines, "-"))
        BY <1>6, SidesJoin
      <3> QED
        BY <1>9, <1>13, <3>1 DEF NewSide, L, Both
    <2>2. Len(E \o L) = a + Len(L) /\ Len(L) \in Nat
      BY <1>7
    <2> HIDE DEF s, a
    <2> QED
      BY <1>6, <1>8, <2>1, <2>2
  <1> QED
    BY <1>4, <1>12, <1>13, <1>14 DEF p, x, s

\* Lines below a hunk are unchanged ones, no more than are wanted.
LEMMA BelowType ==
  ASSUME NEW p, original \in Seq(STRING), after \in Nat, p.s1 + p.n1 - 1 \in 0 .. Len(original),
         p.s1 \in Int, p.n1 \in Int
  PROVE  /\ Below(p) \in Seq(DiffLine) /\ Len(Below(p)) <= after
         /\ Len(Below(p)) <= Len(original) - (p.s1 + p.n1 - 1)
         /\ NewSide(Below(p)) = Below(p)
  <1> DEFINE e == p.s1 + p.n1 - 1
             extra == Slice(original, e + 1, e + after)
  <1>1. e \in 0 .. Len(original) /\ p.s1 + p.n1 = e + 1 /\ p.s1 + p.n1 + after - 1 = e + after
    OBVIOUS
  <1> HIDE DEF e
  <1>2. extra \in Seq(STRING) /\ Len(extra) <= after /\ Len(extra) <= Len(original) - e
    BY <1>1, AfterIs
  <1>3. Below(p) = [i \in DOMAIN extra |-> <<"=", extra[i]>>]
    BY <1>1 DEF Below
  <1> HIDE DEF extra
  <1>4. /\ Below(p) \in Seq(DiffLine) /\ Len(Below(p)) = Len(extra)
        /\ \A i \in 1 .. Len(extra) : Below(p)[i] = <<"=", extra[i]>>
    BY <1>2, <1>3, SameLines
  <1> DEFINE B == Below(p)
  <1> HIDE DEF B
  <1>5. \A i \in DOMAIN B : B[i][1] # "-"
    BY <1>4 DEF B
  <1>6. NewSide(B) = B
    BY <1>4, <1>5, SideWhole DEF NewSide, B
  <1> QED
    BY <1>2, <1>4, <1>6 DEF e, B

\* Lines of a hunk up to what is not sure have their numbers.
MostlyFollows(g, file, most) ==
  \E X, B \in Seq(DiffLine) :
    /\ g.lines = Both(X, B) /\ Len(NewSide(B)) <= (IF "old" \in g.omits THEN most ELSE 0)
    /\ FollowsAt(g.s2, X, file)

LEMMA FollowsMostly ==
  ASSUME NEW g \in HunkType, after \in Nat, NEW file, Follows(g, file)
  PROVE  MostlyFollows(g, file, after)
  <1>1. g.lines \in Seq(DiffLine) /\ FollowsAt(g.s2, g.lines, file)
    BY DEF HunkType, Follows
  <1>2. <<>> \in Seq(DiffLine) /\ g.lines = Both(g.lines, <<>>)
    BY <1>1 DEF Both
  <1>3. Len(NewSide(<<>>)) = 0
    <2>1. \A i \in DOMAIN <<>> : FALSE
      OBVIOUS
    <2>2. Without(<<>>, "-") = <<>>
      BY <1>2, <2>1, SideWhole
    <2> QED
      BY <2>2 DEF NewSide
  <1>4. Unsure(g) >= 0
    BY DEF Unsure
  <1> QED
    BY <1>1, <1>2, <1>3, <1>4 DEF Unsure, MostlyFollows

\* A hunk with what is put above and below it.
LEMMA WholeFollows ==
  ASSUME NEW d \in Seq(DiffLine), NEW h \in HunkType, IsHunk(h, d), h.n1 # 0, h.n2 # 0,
         original = OldFile(d), new = NewFile(d),
         before \in Nat, dynamic \in Nat, after \in Nat, after <= Context + 1
  PROVE  WholeHunk(Parsed(h)) \in HunkType /\ MostlyFollows(WholeHunk(Parsed(h)), new, after)
  <1> DEFINE p == Parsed(h)
             x == Extended(p)
             B == Below(p)
             g == WholeHunk(p)
  <1>1. /\ x \in HunkType /\ x.omits = h.omits
        /\ FollowsAt(x.s2, x.lines, new) /\ x.s2 + Len(NewSide(x.lines)) = h.s2 + h.n2
    BY TopFollows
  <1>2. /\ p.s1 = h.s1 /\ p.n1 = (IF "old" \in h.omits THEN 0 ELSE h.n1)
        /\ p.s1 \in Int /\ p.n1 \in Int
    BY ParsedIs DEF HunkType
  <1>3. Within(h)
    BY HunkWithin
  <1> HIDE DEF p
  <1>4. original \in Seq(STRING) /\ Len(original) \in Nat /\ new \in Seq(STRING) /\ DOMAIN new = 1 .. Len(new)
    BY <1>3 DEF Within
  <1>5. CASE "old" \in h.omits
    <2>1. p.s1 + p.n1 - 1 \in 0 .. Len(original)
      BY <1>2, <1>3, <1>4, <1>5 DEF Within
    <2>2. B \in Seq(DiffLine) /\ Len(NewSide(B)) <= after
      <3>1. B \in Seq(DiffLine) /\ Len(B) <= after /\ NewSide(B) = B
        BY <1>2, <1>4, <2>1, BelowType
      <3> QED
        BY <3>1
    <2>3. g \in HunkType /\ g.omits = h.omits /\ g.s2 = x.s2 /\ g.lines = Both(x.lines, B)
      BY <1>1, <2>2, WholeIs
    <2> HIDE DEF x, B, g
    <2>4. Unsure(g) = after
      BY <1>5, <2>3 DEF Unsure
    <2>5. x.lines \in Seq(DiffLine)
      BY <1>1 DEF HunkType
    <2>6. MostlyFollows(g, new, after)
      BY <1>1, <2>2, <2>3, <2>4, <2>5 DEF Unsure, MostlyFollows
    <2> QED
      BY <2>3, <2>6 DEF g, p
  <1>6. CASE "old" \notin h.omits
    <2>1. B = Below(h)
      BY <1>2, <1>6 DEF Below
    <2>2. /\ B \in Seq(DiffLine)
          /\ \A i \in 1 .. Len(B) :
               B[i][1] = "=" /\ h.s2 + h.n2 + i - 1 \in DOMAIN new /\ B[i][2] = new[h.s2 + h.n2 + i - 1]
      BY <2>1, BelowIs
    <2>7. g \in HunkType /\ g.s2 = x.s2 /\ g.lines = Both(x.lines, B)
      BY <1>1, <2>2, WholeIs
    <2> HIDE DEF x, B, g
    <2>3. NewSide(B) = B
      <3>0. DOMAIN B = 1 .. Len(B)
        BY <2>2
      <3>1. \A i \in DOMAIN B : B[i][1] # "-"
        BY <2>2, <3>0
      <3> QED
        BY <2>2, <3>1, SideWhole DEF NewSide
    <2>4. FollowsAt(x.s2 + Len(NewSide(x.lines)), B, new)
      BY <1>1, <2>2, <2>3 DEF FollowsAt
    <2>5. x.lines \in Seq(DiffLine) /\ x.s2 \in Int
      BY <1>1 DEF HunkType
    <2>6. FollowsAt(x.s2, Both(x.lines, B), new)
      BY <1>1, <2>2, <2>4, <2>5, JoinFollows
    <2>8. MostlyFollows(g, new, after)
      BY <2>6, <2>7, FollowsMostly DEF Follows
    <2> QED
      BY <2>7, <2>8 DEF g, p
  <1> QED
    BY <1>5, <1>6

\* Nothing is put above a hunk that removes all of the file, and below it
\* nothing that is sure.
LEMMA WholeOfNothing ==
  ASSUME NEW d \in Seq(DiffLine), NEW h \in HunkType, IsHunk(h, d), h.n1 # 0, h.n2 = 0,
         original = OldFile(d), new = NewFile(d),
         before \in Nat, dynamic \in Nat, after \in Nat
  PROVE  WholeHunk(Parsed(h)) \in HunkType /\ MostlyFollows(WholeHunk(Parsed(h)), new, after)
  <1> DEFINE p == Parsed(h)
             x == Limits(p, dynamic)
             y == Limits(p, before)
             w == Len(original)
  <1>1. new = <<>> /\ h.lines = d /\ h.n1 = Len(OldSide(d)) /\ Len(NewSide(d)) = 0 /\ h.n1 \in Int
    BY DEF IsHunk, HunkType
  <1>2. w \in Nat /\ original \in Seq(STRING) /\ w = Len(OldSide(d)) /\ SubSeq(original, 1, 0) = <<>>
    <2>1. OldSide(d) \in Seq(DiffLine)
      BY SideType DEF OldSide
    <2>2. original \in Seq(STRING) /\ w = Len(OldSide(d))
      BY <2>1, TextType DEF OldFile
    <2> HIDE DEF w
    <2> QED
      BY <2>2 DEF w
  <1>3. h.s1 = 1
    <2>1. PICK u, v \in Seq(DiffLine) : d = u \o h.lines \o v /\ h.s1 = Len(OldSide(u)) + 1
      BY DEF IsHunk
    <2>2. Len(u) = 0
      <3>1. Len(u \o d \o v) = Len(u) + Len(d) + Len(v) /\ Len(u) \in Nat /\ Len(d) \in Nat /\ Len(v) \in Nat
        BY <2>1
      <3>2. Len(d) = Len(u) + Len(d) + Len(v)
        BY <1>1, <2>1, <3>1
      <3> QED
        BY <3>1, <3>2
    <2>3. \A i \in DOMAIN u : u[i][1] = "+"
      BY <2>1, <2>2
    <2>4. Without(u, "+") = <<>>
      BY <2>3, SideWhole
    <2> QED
      BY <2>1, <2>4 DEF OldSide
  <1>p. /\ p \in HunkType /\ p.lines = d /\ p.omits = h.omits /\ p.s1 = 1
        /\ p.n1 = (IF "old" \in h.omits THEN 0 ELSE w) /\ p.n1 \in Int
    BY <1>1, <1>2, <1>3, ParsedIs DEF HunkType
  <1> HIDE DEF p
  <1>4. /\ x \in HunkType /\ x.s1 = 1
        /\ y \in HunkType /\ y.s1 = 1 /\ y.lines = d /\ y.omits = h.omits
    <2>o. original \in Seq(STRING)
      BY <1>2
    <2>1. x \in HunkType /\ (p.s1 >= 1 => x.s1 \in 1 .. p.s1)
      BY <1>p, <2>o, LimitsIs
    <2>2. /\ y \in HunkType /\ y.lines = p.lines /\ y.omits = p.omits
          /\ p.s1 >= 1 => y.s1 \in 1 .. p.s1
      BY <1>p, <2>o, LimitsIs
    <2> HIDE DEF x, y
    <2> QED
      BY <1>p, <2>1, <2>2
  <1>5. Enclosing(p) = y
    <2>1. new = <<>>
      BY <1>1
    <2> QED
      BY <2>1 DEF Enclosing
  <1> HIDE DEF x, y
  <1>6. AboveOld(p, y) = <<>>
    <2>1. Slice(original, 1, 0) = SubSeq(original, 1, 0)
      <3>1. (IF 0 < w THEN 0 ELSE w) = 0
        BY <1>2
      <3> QED
        BY <3>1 DEF Slice
    <2> QED
      BY <1>2, <1>p, <1>4, <2>1 DEF AboveOld
  <1>7. Extended(p) \in HunkType /\ Extended(p).lines = d /\ Extended(p).omits = h.omits
    <2> DEFINE a == IF dynamic = 0 /\ \E i \in DOMAIN AboveOld(p, y) : AboveOld(p, y)[i] = y.heading
                    THEN NoHeading ELSE y.heading
               E == [i \in DOMAIN AboveOld(p, y) |-> <<"=", AboveOld(p, y)[i]>>]
    <2>1. Extended(p) = [y EXCEPT !.heading = a, !.lines = E \o y.lines]
      BY <1>1, <1>5 DEF Extended
    <2>2. E = <<>>
      BY <1>6
    <2>3. a \in {Heading, NoHeading}
      BY <1>4 DEF HunkType
    <2> HIDE DEF a, E
    <2>4. E \o y.lines = d
      BY <1>4, <2>2
    <2>5. Extended(p) = [y EXCEPT !.heading = a, !.lines = d]
      BY <2>1, <2>4
    <2> QED
      BY <1>4, <2>3, <2>5 DEF HunkType
  <1>8. /\ Below(p) \in Seq(DiffLine) /\ NewSide(Below(p)) = Below(p)
        /\ Len(Below(p)) <= after /\ Len(Below(p)) <= w - p.n1
    <2>1. p.s1 + p.n1 - 1 \in 0 .. Len(original) /\ p.s1 \in Int /\ p.n1 \in Int /\ p.s1 + p.n1 - 1 = p.n1
      BY <1>2, <1>p
    <2>2. /\ Below(p) \in Seq(DiffLine) /\ NewSide(Below(p)) = Below(p)
          /\ Len(Below(p)) <= after /\ Len(Below(p)) <= Len(original) - (p.s1 + p.n1 - 1)
      BY <1>2, <2>1, BelowType
    <2> QED
      BY <2>1, <2>2
  <1> DEFINE g == WholeHunk(p)
             B == Below(p)
  <1>9. g \in HunkType /\ g.omits = h.omits /\ g.lines = Both(d, B)
    BY <1>7, <1>8, WholeIs
  <1> HIDE DEF g, B
  <1>10. Len(NewSide(B)) <= Unsure(g)
    <2>1. Len(NewSide(B)) <= after /\ Len(NewSide(B)) <= w - p.n1 /\ Len(NewSide(B)) \in Int
      BY <1>8 DEF B
    <2>2. CASE "old" \in h.omits
      BY <1>9, <2>1, <2>2 DEF Unsure
    <2>3. CASE "old" \notin h.omits
      BY <1>2, <1>p, <1>9, <2>1, <2>3 DEF Unsure
    <2> QED
      BY <2>2, <2>3
  <1>11. FollowsAt(g.s2, d, new)
    BY <1>1 DEF FollowsAt
  <1>12. MostlyFollows(g, new, after)
    BY <1>8, <1>9, <1>10, <1>11 DEF Unsure, MostlyFollows, B
  <1> QED
    BY <1>9, <1>12 DEF g, p

\* What looks like a remark is passed over in one part and in the other.
LEMMA RemarksApart ==
  ASSUME NEW u \in Seq(DiffLine), NEW v \in Seq(DiffLine)
  PROVE  /\ Unremarked(Both(u, v)) = Both(Unremarked(u), Unremarked(v))
         /\ Unremarked(u) \in Seq(DiffLine) /\ Unremarked(v) \in Seq(DiffLine)
  <1> DEFINE w == Both(u, v)
             P == {i \in DOMAIN w : w[i][2] # Remark}
             S == PlacesTo(P, Len(u))
             T == PlacesAfter(P, Len(u), Len(v))
  <1>1. /\ DOMAIN w = 1 .. Len(u) + Len(v) /\ Len(u) \in Nat /\ Len(v) \in Nat
        /\ DOMAIN u = 1 .. Len(u) /\ DOMAIN v = 1 .. Len(v)
        /\ \A i \in 1 .. Len(u) : w[i] = u[i] /\ i \in DOMAIN w
        /\ \A j \in 1 .. Len(v) : w[Len(u) + j] = v[j] /\ Len(u) + j \in DOMAIN w
    BY DEF Both
  <1>b. w = u \o v
    BY DEF Both
  <1> HIDE DEF w
  <1>2. P \in SUBSET (1 .. Len(u) + Len(v))
    BY <1>1
  <1>3. S = {i \in DOMAIN u : u[i][2] # Remark}
    BY <1>1 DEF PlacesTo
  <1>4. T = {j \in DOMAIN v : v[j][2] # Remark}
    BY <1>1 DEF PlacesAfter
  <1>5. Unremarked(u) = Picked(u, S) /\ Unremarked(v) = Picked(v, T) /\ Unremarked(w) = Picked(w, P)
    BY <1>3, <1>4 DEF Unremarked
  <1> HIDE DEF P
  <1>6. Picked(u \o v, P) = Picked(u, S) \o Picked(v, T)
    BY <1>2, PickedJoin
  <1>7. S \in SUBSET DOMAIN u /\ T \in SUBSET DOMAIN v
    BY <1>3, <1>4
  <1> HIDE DEF S, T
  <1>8. Picked(u, S) \in Seq(DiffLine) /\ Picked(v, T) \in Seq(DiffLine)
    BY <1>7, PickedType
  <1> QED
    BY <1>5, <1>6, <1>8, <1>b DEF Both, w

LEMMA NumbersFollow ==
  ASSUME NEW h \in HunkType, after \in Nat, MostlyFollows(h, new, after), \A i \in DOMAIN new : new[i] # Remark
  PROVE  \A l \in NumberedLines(h) :
           l[1] < h.s2 + Len(NewSide(h.lines)) - Unsure(h) => l[1] \in DOMAIN new /\ new[l[1]] = l[2]
  <1>1. PICK X, B \in Seq(DiffLine) :
          h.lines = Both(X, B) /\ Len(NewSide(B)) <= Unsure(h) /\ FollowsAt(h.s2, X, new)
    BY DEF Unsure, MostlyFollows
  <1> DEFINE L == NewSide(X)
             M == NewSide(Unremarked(B))
             N == NewSide(Unremarked(h.lines))
             a == Len(L)
             b == Len(NewSide(B))
             s == h.s2
             t == Unsure(h)
  <1>2. \A i \in 1 .. a : s + i - 1 \in DOMAIN new /\ new[s + i - 1] = L[i][2]
    BY <1>1 DEF FollowsAt
  <1>3. NewSide(Unremarked(X)) = L
    <2>1. \A n \in 1 .. Len(Without(X, "-")) : Without(X, "-")[n][2] # Remark
      BY <1>2 DEF NewSide
    <2>2. Without(Unremarked(X), "-") = Without(X, "-")
      BY <1>1, <2>1, UnremarkedSide
    <2> QED
      BY <2>2 DEF NewSide
  <1>4. Unremarked(X) \in Seq(DiffLine) /\ Unremarked(B) \in Seq(DiffLine)
        /\ Unremarked(h.lines) = Both(Unremarked(X), Unremarked(B))
    BY <1>1, RemarksApart
  <1>5. N = L \o M
    <2>1. Without(Both(Unremarked(X), Unremarked(B)), "-")
            = Both(Without(Unremarked(X), "-"), Without(Unremarked(B), "-"))
      BY <1>4, SidesJoin
    <2> QED
      BY <1>3, <1>4, <2>1 DEF NewSide, Both
  <1>6. L \in Seq(DiffLine) /\ M \in Seq(DiffLine)
    BY <1>1, <1>4, SideType DEF NewSide
  <1>7. Len(NewSide(h.lines)) = a + b /\ a \in Nat /\ b \in Nat
    <2>1. Without(Both(X, B), "-") = Both(Without(X, "-"), Without(B, "-"))
      BY <1>1, SidesJoin
    <2>2. Without(X, "-") \in Seq(DiffLine) /\ Without(B, "-") \in Seq(DiffLine)
      BY <1>1, SideType
    <2>3. NewSide(h.lines) = NewSide(X) \o NewSide(B) /\ NewSide(X) \in Seq(DiffLine) /\ NewSide(B) \in Seq(DiffLine)
      BY <1>1, <2>1, <2>2 DEF NewSide, Both
    <2> HIDE DEF L
    <2> QED
      BY <2>3 DEF L
  <1>8. NumberedLines(h) = {<<s + i - 1, N[i][2]>> : i \in DOMAIN N}
    BY DEF NumberedLines
  <1>9. s \in Int /\ t \in Nat /\ b <= t
    BY <1>1 DEF HunkType, Unsure
  <1> HIDE DEF L, M, N
  <1>10. /\ DOMAIN N = 1 .. Len(N) /\ Len(N) \in Nat /\ \A i \in 1 .. a : N[i] = L[i]
    BY <1>5, <1>6
  <1> HIDE DEF a, b, s, t
  <1>11. ASSUME NEW i \in DOMAIN N, s + i - 1 < s + (a + b) - t
         PROVE  s + i - 1 \in DOMAIN new /\ new[s + i - 1] = N[i][2]
    <2>1. i \in Int /\ i >= 1
      BY <1>10
    <2>2. i \in 1 .. a
      BY <1>7, <1>9, <1>11, <2>1
    <2> QED
      BY <1>2, <1>10, <2>2
  <1>12. ASSUME NEW l \in NumberedLines(h), l[1] < h.s2 + Len(NewSide(h.lines)) - Unsure(h)
         PROVE  l[1] \in DOMAIN new /\ new[l[1]] = l[2]
    <2>1. PICK i \in DOMAIN N : l = <<s + i - 1, N[i][2]>>
      BY <1>8
    <2>2. l[1] = s + i - 1 /\ l[2] = N[i][2]
      BY <2>1
    <2>3. s + i - 1 < s + (a + b) - t
      BY <1>7, <1>12, <2>2 DEF s, t
    <2> QED
      BY <1>11, <2>2, <2>3
  <1> QED
    BY <1>12
-----------------------------------------------------------------------------
(* The hunks of a diff, and the numbers of all that is shown.              *)

LEMMA HunkAtType ==
  ASSUME NEW d \in Seq(DiffLine), NEW a, NEW b, Bounds(d, a, b)
  PROVE  /\ HunkAt(d, a, b) \in HunkType
         /\ b < Len(d) => HunkAt(d, a, b).ends = {}
  <1> DEFINE above == SubSeq(d, 1, a - 1)
             here == SubSeq(d, a, b)
             headings == {i \in DOMAIN above : above[i] \in {<<"=", Heading>>, <<"-", Heading>>}}
             p == Len(OldSide(above))
             q == Len(NewSide(above))
             m == Len(OldSide(here))
             n == Len(NewSide(here))
             heading == IF headings = {} THEN NoHeading ELSE Heading
             omits == {x \in {"old", "new"} : Len(IF x = "old" THEN OldSide(here) ELSE NewSide(here)) = 1}
             ends == IF b = Len(d) THEN {i \in DOMAIN here : a + i - 1 \in unended} ELSE {}
  <1>1. a \in DOMAIN d /\ b \in a .. Len(d)
    BY DEF Bounds
  <1>2. above \in Seq(DiffLine) /\ here \in Seq(DiffLine)
    BY <1>1, ThreeParts
  <1>3. HunkAt(d, a, b) = [s1 |-> IF m = 0 THEN p ELSE p + 1, n1 |-> m, s2 |-> IF n = 0 THEN q ELSE q + 1,
                           n2 |-> n, omits |-> omits, heading |-> heading, lines |-> here, ends |-> ends]
    BY DEF HunkAt
  <1>4. heading \in {Heading, NoHeading}
    OBVIOUS
  <1> HIDE DEF heading, above, here
  <1>5. p \in Nat /\ q \in Nat /\ m \in Nat /\ n \in Nat
    BY <1>2, SideType DEF OldSide, NewSide
  <1> HIDE DEF p, q, m, n
  <1>6. omits \in SUBSET {"old", "new"}
    OBVIOUS
  <1>7. ends \in SUBSET Int
    BY <1>2
  <1>8. b < Len(d) => ends = {}
    BY <1>1
  <1> HIDE DEF omits, ends
  <1>9. HunkAt(d, a, b) \in HunkType
    BY <1>2, <1>3, <1>4, <1>5, <1>6, <1>7 DEF HunkType
  <1>10. HunkAt(d, a, b).ends = ends
    BY <1>3
  <1> QED
    BY <1>8, <1>9, <1>10

\* Lines a to b of the diff are hunk k.
Spans(d, k, a, b) == Bounds(d, a, b) /\ Hunks(d)[k] = HunkAt(d, a, b)

LEMMA HunksAre ==
  ASSUME NEW d \in Seq(DiffLine)
  PROVE  /\ Hunks(d) \in Seq(HunkType)
         /\ \A k \in DOMAIN Hunks(d) : IsHunk(Hunks(d)[k], d)
         /\ \A k \in DOMAIN Hunks(d) : \E a, b \in Int : Spans(d, k, a, b)
         /\ \A j, k \in DOMAIN Hunks(d) : j < k =>
              /\ Hunks(d)[j].ends = {}
              /\ \E a, b, e, f \in Int : Spans(d, j, a, b) /\ Spans(d, k, e, f) /\ b < e
  <1> DEFINE F == FirstLines(d)
             c == Cardinality(F)
             first(k) == Ascending(F)[k]
             last(k) == LastLine(d, first(k))
  <1>1. /\ F \in SUBSET DOMAIN d
        /\ \A i \in F : Bounds(d, i, LastLine(d, i))
        /\ \A i, j \in F : i < j => LastLine(d, i) < j
    BY HunkBounds
  <1>2. Hunks(d) = [n \in 1 .. c |-> HunkAt(d, first(n), last(n))]
    BY DEF Hunks
  <1> HIDE DEF F
  <1>3. F \in SUBSET Int /\ IsFiniteSet(F)
    BY <1>1, PositionsType
  <1>4. /\ Ascending(F) \in [1 .. c -> F]
        /\ \A m, n \in 1 .. c : m < n => Ascending(F)[m] < Ascending(F)[n]
    BY <1>3, Ascends
  <1>5. c \in Nat
    BY <1>3, RankType
  <1> HIDE DEF c
  <1>6. \A k \in 1 .. c : first(k) \in F /\ first(k) \in Int
    BY <1>3, <1>4
  <1>7. \A k \in 1 .. c : Bounds(d, first(k), last(k))
    BY <1>1, <1>6
  <1>8. \A j, k \in 1 .. c : j < k => last(j) < first(k)
    BY <1>1, <1>4, <1>6
  <1> HIDE DEF first, last
  <1>9. \A k \in 1 .. c : last(k) \in Int
    <2> SUFFICES ASSUME NEW k \in 1 .. c
                 PROVE  last(k) \in Int
      OBVIOUS
    <2>1. last(k) \in first(k) .. Len(d) /\ first(k) \in Int
      BY <1>6, <1>7 DEF Bounds
    <2> QED
      BY <2>1
  <1>10. \A k \in 1 .. c : HunkAt(d, first(k), last(k)) \in HunkType /\ IsHunk(HunkAt(d, first(k), last(k)), d)
    BY <1>7, HunkAtType, HunkAtIs
  <1>11. DOMAIN Hunks(d) = 1 .. c /\ \A k \in 1 .. c : Hunks(d)[k] = HunkAt(d, first(k), last(k))
    BY <1>2
  <1>12. \A k \in 1 .. c : Spans(d, k, first(k), last(k))
    BY <1>7, <1>11 DEF Spans
  <1>13. Hunks(d) \in Seq(HunkType)
    BY <1>2, <1>5, <1>10
  <1>14. \A k \in 1 .. c : IsHunk(Hunks(d)[k], d)
    BY <1>10, <1>11
  <1>15. \A k \in 1 .. c : \E a, b \in Int : Spans(d, k, a, b)
    BY <1>6, <1>9, <1>12
  <1>16. \A j, k \in 1 .. c : j < k => \E a, b, e, f \in Int : Spans(d, j, a, b) /\ Spans(d, k, e, f) /\ b < e
    BY <1>6, <1>8, <1>9, <1>12
  <1>17. ASSUME NEW j \in 1 .. c, NEW k \in 1 .. c, j < k
         PROVE  Hunks(d)[j].ends = {}
    <2>1. Bounds(d, first(j), last(j)) /\ Bounds(d, first(k), last(k)) /\ last(j) < first(k)
      BY <1>7, <1>8, <1>17
    <2>2. first(k) \in 1 .. Len(d) /\ Len(d) \in Int /\ last(j) \in Int
      BY <1>9, <2>1 DEF Bounds
    <2>3. last(j) < Len(d)
      BY <2>1, <2>2
    <2> QED
      BY <1>11, <2>1, <2>3, HunkAtType
  <1> QED
    BY <1>11, <1>13, <1>14, <1>15, <1>16, <1>17

\* The hunks left and kept are hunks of the diff, and once both files are those
\* compared the lines of what is shown, as far as they are sure, have their
\* numbers in the new file.
Loaded ==
  /\ original = OldFile(diff) /\ new = NewFile(diff) /\ (\A i \in DOMAIN new : new[i] # Remark)
  /\ after <= Context + 1

PatchInv ==
  /\ diff \in Diffs /\ before \in Nat /\ after \in Nat /\ dynamic \in Nat
  /\ hunks \in Seq(HunkType) /\ \A k \in DOMAIN hunks : IsHunk(hunks[k], diff)
  /\ kept \in Seq(HunkType) /\ \A k \in DOMAIN kept : IsHunk(kept[k], diff)
  /\ Loaded => shown \in Seq(HunkType) /\ \A k \in DOMAIN shown : MostlyFollows(shown[k], new, after)

LEMMA PatchInitInv == PatchInit => PatchInv
  <1> SUFFICES ASSUME PatchInit
               PROVE  PatchInv
    OBVIOUS
  <1>1. diff \in Diffs /\ hunks = Hunks(diff) /\ shown = <<>> /\ kept = <<>>
    BY DEF PatchInit
  <1>2. diff \in Seq(DiffLine)
    BY <1>1, PatchAssumption
  <1>3. before \in Nat /\ after \in Nat /\ dynamic \in Nat
    <2>1. IF path = "extended" THEN before \in Befores /\ after \in Afters /\ dynamic \in Dynamics
          ELSE before = 0 /\ after = 0 /\ dynamic = 0
      BY DEF PatchInit
    <2>2. Befores \subseteq Nat /\ Afters \subseteq Nat /\ Dynamics \subseteq Nat
      BY PatchAssumption
    <2>3. CASE path = "extended"
      BY <2>1, <2>2, <2>3
    <2>4. CASE path # "extended"
      BY <2>1, <2>4
    <2> QED
      BY <2>3, <2>4
  <1>4. hunks \in Seq(HunkType) /\ \A k \in DOMAIN hunks : IsHunk(hunks[k], diff)
    BY <1>1, <1>2, HunksAre
  <1>5. kept \in Seq(HunkType) /\ shown \in Seq(HunkType) /\ DOMAIN kept = {} /\ DOMAIN shown = {}
    BY <1>1
  <1> QED
    BY <1>1, <1>3, <1>4, <1>5 DEF PatchInv

LEMMA TailHunks ==
  ASSUME NEW d, NEW s \in Seq(HunkType), s # <<>>, \A k \in DOMAIN s : IsHunk(s[k], d)
  PROVE  /\ Head(s) \in HunkType /\ IsHunk(Head(s), d)
         /\ Tail(s) \in Seq(HunkType) /\ \A k \in DOMAIN Tail(s) : IsHunk(Tail(s)[k], d)
  OBVIOUS

LEMMA AppendHunk ==
  ASSUME NEW d, NEW s \in Seq(HunkType), \A k \in DOMAIN s : IsHunk(s[k], d), NEW h \in HunkType, IsHunk(h, d)
  PROVE  Append(s, h) \in Seq(HunkType) /\ \A k \in DOMAIN Append(s, h) : IsHunk(Append(s, h)[k], d)
  OBVIOUS

\* A hunk follows whether it is extended or not.
LEMMA ExtendHunkInv ==
  ASSUME PatchInv, ExtendHunk
  PROVE  PatchInv'
  <1> DEFINE h == Head(hunks)
             p == Parsed(h)
             g == IF ~Extends THEN h
                  ELSE IF Matches(p) THEN [Extended(p) EXCEPT !.lines = @ \o Below(p)] ELSE p
  <1>1. hunks # <<>> /\ shown' = Append(shown, g) /\ hunks' = Tail(hunks)
    BY DEF ExtendHunk
  <1>2. /\ diff' = diff /\ original' = original /\ new' = new /\ before' = before /\ after' = after
        /\ dynamic' = dynamic /\ kept' = kept
    BY DEF ExtendHunk
  <1>3. /\ diff \in Diffs /\ before \in Nat /\ after \in Nat /\ dynamic \in Nat
        /\ hunks \in Seq(HunkType) /\ \A k \in DOMAIN hunks : IsHunk(hunks[k], diff)
        /\ kept \in Seq(HunkType) /\ \A k \in DOMAIN kept : IsHunk(kept[k], diff)
    BY DEF PatchInv
  <1>4. /\ h \in HunkType /\ IsHunk(h, diff)
        /\ Tail(hunks) \in Seq(HunkType) /\ \A k \in DOMAIN Tail(hunks) : IsHunk(Tail(hunks)[k], diff)
    BY <1>1, <1>3, TailHunks
  <1>5. diff \in Seq(DiffLine)
    BY <1>3, PatchAssumption
  <1>6. g = IF ~Extends THEN h ELSE IF Matches(p) THEN WholeHunk(p) ELSE p
    BY DEF WholeHunk
  <1> HIDE DEF h, g
  <1>7. ASSUME Loaded
        PROVE  g \in HunkType /\ MostlyFollows(g, new, after)
    <2>1. original = OldFile(diff) /\ new = NewFile(diff) /\ after <= Context + 1
      BY <1>7 DEF Loaded
    <2>f. Follows(h, new)
      BY <1>4, <1>5, <2>1, HunkFollows
    <2>p. p \in HunkType /\ Follows(p, new)
      BY <1>4, <2>f, ParsedIs DEF Follows
    <2> HIDE DEF p
    <2>2. CASE g \in {h, p}
      <3>1. MostlyFollows(h, new, after)
        BY <1>3, <1>4, <2>f, FollowsMostly
      <3>2. MostlyFollows(p, new, after)
        BY <1>3, <2>p, FollowsMostly
      <3> QED
        BY <1>4, <2>2, <2>p, <3>1, <3>2
    <2>3. CASE Extends /\ Matches(p)
      <3>1. h.n1 # 0
        BY <1>4, <2>1, <2>3 DEF Extends, IsHunk
      <3>2. WholeHunk(p) \in HunkType /\ MostlyFollows(WholeHunk(p), new, after)
        <4>1. CASE h.n2 = 0
          BY <1>3, <1>4, <1>5, <2>1, <3>1, <4>1, WholeOfNothing DEF p
        <4>2. CASE h.n2 # 0
          BY <1>3, <1>4, <1>5, <2>1, <3>1, <4>2, WholeFollows DEF p
        <4> QED
          BY <4>1, <4>2
      <3> QED
        BY <1>6, <2>3, <3>2
    <2> QED
      BY <1>6, <2>2, <2>3
  <1>8. ASSUME Loaded
        PROVE  /\ Append(shown, g) \in Seq(HunkType)
               /\ \A k \in DOMAIN Append(shown, g) : MostlyFollows(Append(shown, g)[k], new, after)
    <2>1. shown \in Seq(HunkType) /\ \A k \in DOMAIN shown : MostlyFollows(shown[k], new, after)
      BY <1>8 DEF PatchInv
    <2> QED
      BY <1>7, <1>8, <2>1
  <1>9. Loaded' <=> Loaded
    BY <1>2 DEF Loaded
  <1>10. Loaded' => shown' \in Seq(HunkType) /\ \A k \in DOMAIN shown' : MostlyFollows(shown'[k], new', after')
    BY <1>1, <1>2, <1>8, <1>9
  <1> QED
    BY <1>1, <1>2, <1>3, <1>4, <1>10 DEF PatchInv

LEMMA OmitHunkInv ==
  ASSUME PatchInv, OmitHunk
  PROVE  PatchInv'
  <1> DEFINE h == Head(hunks)
             more == Append(kept, h)
  <1>1. /\ hunks # <<>> /\ hunks' = Tail(hunks)
        /\ \/ shown' = shown \o more /\ kept' = <<>>
           \/ kept' = more /\ shown' = shown
    BY DEF OmitHunk
  <1>2. /\ diff' = diff /\ original' = original /\ new' = new /\ before' = before /\ after' = after
        /\ dynamic' = dynamic
    BY DEF OmitHunk
  <1>3. /\ diff \in Diffs /\ before \in Nat /\ after \in Nat /\ dynamic \in Nat
        /\ hunks \in Seq(HunkType) /\ \A k \in DOMAIN hunks : IsHunk(hunks[k], diff)
        /\ kept \in Seq(HunkType) /\ \A k \in DOMAIN kept : IsHunk(kept[k], diff)
    BY DEF PatchInv
  <1>4. /\ h \in HunkType /\ IsHunk(h, diff)
        /\ Tail(hunks) \in Seq(HunkType) /\ \A k \in DOMAIN Tail(hunks) : IsHunk(Tail(hunks)[k], diff)
    BY <1>1, <1>3, TailHunks
  <1>5. diff \in Seq(DiffLine)
    BY <1>3, PatchAssumption
  <1> HIDE DEF h
  <1>6. more \in Seq(HunkType) /\ \A k \in DOMAIN more : IsHunk(more[k], diff)
    BY <1>3, <1>4, AppendHunk
  <1> HIDE DEF more
  <1>7. kept' \in Seq(HunkType) /\ \A k \in DOMAIN kept' : IsHunk(kept'[k], diff)
    <2>1. <<>> \in Seq(HunkType) /\ DOMAIN <<>> = {}
      OBVIOUS
    <2> QED
      BY <1>1, <1>6, <2>1
  <1>8. ASSUME Loaded
        PROVE  shown' \in Seq(HunkType) /\ \A k \in DOMAIN shown' : MostlyFollows(shown'[k], new, after)
    <2>1. shown \in Seq(HunkType) /\ \A k \in DOMAIN shown : MostlyFollows(shown[k], new, after)
      BY <1>8 DEF PatchInv
    <2>2. \A k \in DOMAIN more : MostlyFollows(more[k], new, after)
      <3> SUFFICES ASSUME NEW k \in DOMAIN more
                   PROVE  MostlyFollows(more[k], new, after)
        OBVIOUS
      <3>1. more[k] \in HunkType
        BY <1>6
      <3>2. Follows(more[k], new)
        BY <1>5, <1>6, <1>8, HunkFollows DEF Loaded
      <3> QED
        BY <1>3, <3>1, <3>2, FollowsMostly
    <2>3. shown \o more \in Seq(HunkType) /\ \A k \in DOMAIN (shown \o more) : MostlyFollows((shown \o more)[k], new, after)
      <3>1. /\ shown \o more \in Seq(HunkType) /\ DOMAIN shown = 1 .. Len(shown) /\ DOMAIN more = 1 .. Len(more)
            /\ Len(shown) \in Nat /\ Len(more) \in Nat
            /\ DOMAIN (shown \o more) = 1 .. Len(shown) + Len(more)
            /\ \A k \in 1 .. Len(shown) : (shown \o more)[k] = shown[k]
            /\ \A k \in 1 .. Len(more) : (shown \o more)[Len(shown) + k] = more[k]
        BY <1>6, <2>1
      <3>2. ASSUME NEW k \in 1 .. Len(shown) + Len(more)
            PROVE  MostlyFollows((shown \o more)[k], new, after)
        <4>1. CASE k <= Len(shown)
          <5>1. k \in 1 .. Len(shown)
            BY <3>1, <4>1
          <5> QED
            BY <2>1, <3>1, <5>1
        <4>2. CASE k > Len(shown)
          <5>1. k - Len(shown) \in 1 .. Len(more) /\ Len(shown) + (k - Len(shown)) = k
            BY <3>1, <4>2
          <5> QED
            BY <2>2, <3>1, <5>1
        <4> QED
          BY <3>1, <4>1, <4>2
      <3> QED
        BY <3>1, <3>2
    <2> QED
      BY <1>1, <2>1, <2>3
  <1>9. Loaded' <=> Loaded
    BY <1>2 DEF Loaded
  <1>10. Loaded' => shown' \in Seq(HunkType) /\ \A k \in DOMAIN shown' : MostlyFollows(shown'[k], new', after')
    BY <1>2, <1>8, <1>9
  <1> QED
    BY <1>1, <1>2, <1>3, <1>4, <1>7, <1>10 DEF PatchInv

LEMMA PatchStep == PatchInv /\ [PatchNext]_patchVars => PatchInv'
  <1> SUFFICES ASSUME PatchInv, [PatchNext]_patchVars
               PROVE  PatchInv'
    OBVIOUS
  <1>1. CASE ExtendHunk
    BY <1>1, ExtendHunkInv
  <1>2. CASE OmitHunk
    BY <1>2, OmitHunkInv
  <1>3. CASE UNCHANGED patchVars
    BY <1>3 DEF PatchInv, Loaded, patchVars
  <1> QED
    BY <1>1, <1>2, <1>3 DEF PatchNext

\* The number the model sees before a line is that of the line in the new file,
\* but for what is put below a hunk whose header omits a count
\* (extend_patch, omit_deletion_hunks, decouple_and_convert_to_hunks_with_lines_numbers).
THEOREM TheNumbersAreTrue == PatchSpec => []NumbersAreTrue
  <1>1. PatchInv => NumbersAreTrue
    <2> SUFFICES ASSUME PatchInv, Loaded, NEW k \in DOMAIN shown
                 PROVE  \A l \in NumberedLines(shown[k]) :
                          l[1] < shown[k].s2 + Len(NewSide(shown[k].lines)) - Unsure(shown[k])
                            => l[1] \in DOMAIN new /\ new[l[1]] = l[2]
      BY DEF NumbersAreTrue, Loaded
    <2>1. after \in Nat /\ shown \in Seq(HunkType) /\ MostlyFollows(shown[k], new, after)
      BY DEF PatchInv
    <2>2. shown[k] \in HunkType
      BY <2>1
    <2>3. \A i \in DOMAIN new : new[i] # Remark
      BY DEF Loaded
    <2> QED
      BY <2>1, <2>2, <2>3, NumbersFollow
  <1> QED
    BY <1>1, PatchInitInv, PatchStep, PTL DEF PatchSpec
-----------------------------------------------------------------------------
(* Lines are found.                                                        *)

LEMMA CountingIs ==
  ASSUME NEW l \in Seq(DiffLine)
  PROVE  /\ Counting(l) \in SUBSET DOMAIN l /\ Counting(l) \in SUBSET Int /\ IsFiniteSet(Counting(l))
         /\ \A i \in DOMAIN l : i \in Counting(l) <=> l[i][1] # "-"
         /\ NewSide(l) = Picked(l, Counting(l)) /\ Len(NewSide(l)) = Cardinality(Counting(l))
         /\ \A i \in Int : Counted(l, i) = Rank(Counting(l), i + 1)
  <1> DEFINE C == Counting(l)
  <1>1. C = {i \in DOMAIN l : l[i][1] # "-"}
    BY DEF Counting, Counts
  <1>2. NewSide(l) = Picked(l, C)
    BY <1>1 DEF NewSide, Without
  <1>3. C \in SUBSET DOMAIN l /\ \A i \in DOMAIN l : i \in C <=> l[i][1] # "-"
    BY <1>1
  <1>4. ASSUME NEW i \in Int
        PROVE  Counted(l, i) = Rank(C, i + 1)
    <2> DEFINE upTo == {j \in C : j <= i}
               below == {j \in C : j < i + 1}
    <2>1. C \subseteq Int
      BY <1>3
    <2> HIDE DEF C
    <2>2. upTo = below
      <3>1. \A j \in Int : j <= i <=> j < i + 1
        BY <1>4
      <3> QED
        BY <2>1, <3>1
    <2>3. Counted(l, i) = Cardinality(upTo) /\ Rank(C, i + 1) = Cardinality(below)
      BY DEF Counted, Rank, C
    <2> QED
      BY <2>2, <2>3
  <1> HIDE DEF C
  <1>5. C \in SUBSET Int /\ IsFiniteSet(C)
    BY <1>3, PositionsType
  <1>6. Len(Picked(l, C)) = Cardinality(C)
    BY <1>3, PickedType
  <1> QED
    BY <1>2, <1>3, <1>4, <1>5, <1>6 DEF C

LEMMA SidePrefix ==
  ASSUME NEW d \in Seq(DiffLine), NEW m \in Nat, NEW n \in Nat, m <= n, n <= Len(d)
  PROVE  /\ Len(NewSide(SubSeq(d, 1, m))) \in Nat /\ Len(NewSide(SubSeq(d, 1, n))) \in Nat
         /\ Len(NewSide(SubSeq(d, 1, m))) <= Len(NewSide(SubSeq(d, 1, n)))
  <1> DEFINE u == SubSeq(d, 1, m)
             v == SubSeq(d, m + 1, n)
             x == SubSeq(d, 1, n)
  <1>1. /\ u \in Seq(DiffLine) /\ Len(u) = m /\ \A i \in 1 .. m : u[i] = d[i]
        /\ x \in Seq(DiffLine) /\ Len(x) = n /\ \A i \in 1 .. n : x[i] = d[i]
    OBVIOUS
  <1>2. v \in Seq(DiffLine) /\ Len(v) = n - m /\ \A i \in 1 .. n - m : v[i] = d[m + i]
    OBVIOUS
  <1> HIDE DEF u, v, x
  <1>3. x = u \o v
    <2>1. Len(x) = Len(u) + Len(v)
      BY <1>1, <1>2
    <2>2. \A k \in 1 .. Len(u) : x[k] = u[k]
      BY <1>1
    <2>3. \A k \in 1 .. Len(v) : x[Len(u) + k] = v[k]
      <3>1. \A k \in 1 .. n - m : m + k \in 1 .. n
        OBVIOUS
      <3> QED
        BY <1>1, <1>2, <3>1
    <2>4. x \in Seq(DiffLine) /\ u \in Seq(DiffLine) /\ v \in Seq(DiffLine)
      BY <1>1, <1>2
    <2> QED
      BY <2>1, <2>2, <2>3, <2>4, JoinIs
  <1>4. Without(u \o v, "-") = Without(u, "-") \o Without(v, "-")
    <2>1. u \in Seq(DiffLine) /\ v \in Seq(DiffLine)
      BY <1>1, <1>2
    <2>2. Without(Both(u, v), "-") = Both(Without(u, "-"), Without(v, "-"))
      BY <2>1, SidesJoin
    <2> QED
      BY <2>2 DEF Both
  <1>5. Without(u, "-") \in Seq(DiffLine) /\ Without(v, "-") \in Seq(DiffLine)
    BY <1>1, <1>2, SideType
  <1>6. NewSide(x) = NewSide(u) \o NewSide(v) /\ NewSide(u) \in Seq(DiffLine) /\ NewSide(v) \in Seq(DiffLine)
    BY <1>3, <1>4, <1>5 DEF NewSide
  <1>7. /\ Len(NewSide(u)) \in Nat /\ Len(NewSide(v)) \in Nat
        /\ Len(NewSide(u) \o NewSide(v)) = Len(NewSide(u)) + Len(NewSide(v))
    BY <1>6
  <1>8. /\ Len(NewSide(u)) \in Nat /\ Len(NewSide(x)) \in Nat
        /\ Len(NewSide(u)) <= Len(NewSide(x))
    BY <1>6, <1>7
  <1> QED
    BY <1>8 DEF u, x

\* The lines of an earlier hunk are above those of a later one.
LEMMA HunksApart ==
  ASSUME NEW d \in Seq(DiffLine), NEW j \in DOMAIN Hunks(d), NEW k \in DOMAIN Hunks(d), j < k,
         Hunks(d)[j].n2 > 0, Hunks(d)[k].n2 > 0
  PROVE  Hunks(d)[j].s2 + Hunks(d)[j].n2 <= Hunks(d)[k].s2
  <1>1. PICK a, b, e, f \in Int : Spans(d, j, a, b) /\ Spans(d, k, e, f) /\ b < e
    BY HunksAre
  <1>2. Bounds(d, a, b) /\ Bounds(d, e, f) /\ Hunks(d)[j] = HunkAt(d, a, b) /\ Hunks(d)[k] = HunkAt(d, e, f)
    BY <1>1 DEF Spans
  <1> DEFINE g == HunkAt(d, a, b)
             h == HunkAt(d, e, f)
             u == SubSeq(d, 1, a - 1)
             v == SubSeq(d, a, b)
             w == SubSeq(d, 1, b)
             x == SubSeq(d, 1, e - 1)
  <1>3. g.s2 = Len(NewSide(u)) + 1 /\ g.n2 = Len(NewSide(v))
    <2>1. IsHunk(g, d) /\ g.lines = v /\ (g.n2 > 0 => g.s2 = Len(NewSide(u)) + 1)
      BY <1>2, HunkAtIs
    <2> QED
      BY <1>2, <2>1 DEF IsHunk
  <1>4. h.s2 = Len(NewSide(x)) + 1
    <2>1. h.n2 > 0 => h.s2 = Len(NewSide(x)) + 1
      BY <1>2, HunkAtIs
    <2> QED
      BY <1>2, <2>1
  <1>5. a \in DOMAIN d /\ b \in a .. Len(d) /\ e \in DOMAIN d
    BY <1>2 DEF Bounds
  <1>6. w = u \o v /\ u \in Seq(DiffLine) /\ v \in Seq(DiffLine)
    BY <1>5, ThreeParts
  <1>7. b \in Nat /\ e - 1 \in Nat /\ b <= e - 1 /\ e - 1 <= Len(d)
    BY <1>1, <1>5
  <1>8. Len(NewSide(w)) \in Nat /\ Len(NewSide(x)) \in Nat /\ Len(NewSide(w)) <= Len(NewSide(x))
    <2> DEFINE m == e - 1
    <2>1. m \in Nat /\ b <= m /\ m <= Len(d)
      BY <1>7
    <2> HIDE DEF m
    <2>2. /\ Len(NewSide(SubSeq(d, 1, b))) \in Nat /\ Len(NewSide(SubSeq(d, 1, m))) \in Nat
          /\ Len(NewSide(SubSeq(d, 1, b))) <= Len(NewSide(SubSeq(d, 1, m)))
      BY <1>7, <2>1, SidePrefix
    <2> QED
      BY <2>2 DEF m
  <1> HIDE DEF u, v, w, x
  <1>9. Without(u \o v, "-") = Without(u, "-") \o Without(v, "-")
    <2>1. u \in Seq(DiffLine) /\ v \in Seq(DiffLine)
      BY <1>6
    <2>2. Without(Both(u, v), "-") = Both(Without(u, "-"), Without(v, "-"))
      BY <2>1, SidesJoin
    <2> QED
      BY <2>2 DEF Both
  <1>10. Without(u, "-") \in Seq(DiffLine) /\ Without(v, "-") \in Seq(DiffLine)
    BY <1>6, SideType
  <1>11. NewSide(w) = NewSide(u) \o NewSide(v) /\ NewSide(u) \in Seq(DiffLine) /\ NewSide(v) \in Seq(DiffLine)
    BY <1>6, <1>9, <1>10 DEF NewSide
  <1>12. /\ Len(NewSide(u)) \in Nat /\ Len(NewSide(v)) \in Nat
         /\ Len(NewSide(u) \o NewSide(v)) = Len(NewSide(u)) + Len(NewSide(v))
    BY <1>11
  <1>13. g.s2 + g.n2 <= h.s2
    <2> HIDE DEF g, h
    <2> QED
      BY <1>3, <1>4, <1>8, <1>11, <1>12
  <1> QED
    BY <1>2, <1>13

LEMMA PositionsAre ==
  ASSUME NEW hs \in Seq(HunkType), NEW wanted
  PROVE  /\ \A p \in Positions(hs, wanted) :
              /\ p[1] \in DOMAIN hs /\ p[2] \in 0 .. Len(hs[p[1]].lines) /\ p[3] \in {0, 1}
              /\ p[3] = 1 => p[2] \in hs[p[1]].ends
              /\ hs[p[1]].s2 + Delta(hs[p[1]], p[2], p[3]) - 1 = wanted
         /\ \A k \in DOMAIN hs : \A j \in 0 .. Len(hs[k].lines) :
              hs[k].s2 + Delta(hs[k], j, 0) - 1 = wanted /\ (\A n \in 1 .. k : hs[n].omits = {})
                => <<k, j, 0>> \in Positions(hs, wanted)
  <1>1. ASSUME NEW p \in Positions(hs, wanted)
        PROVE  /\ p[1] \in DOMAIN hs /\ p[2] \in 0 .. Len(hs[p[1]].lines) /\ p[3] \in {0, 1}
               /\ p[3] = 1 => p[2] \in hs[p[1]].ends
               /\ hs[p[1]].s2 + Delta(hs[p[1]], p[2], p[3]) - 1 = wanted
    <2>1. /\ \E k \in DOMAIN hs : p \in {k} \X (0 .. Len(hs[k].lines)) \X {0, 1}
          /\ p[3] = 1 => p[2] \in hs[p[1]].ends
          /\ hs[p[1]].s2 + Delta(hs[p[1]], p[2], p[3]) - 1 = wanted
      BY DEF Positions
    <2> QED
      BY <2>1
  <1>2. ASSUME NEW k \in DOMAIN hs, NEW j \in 0 .. Len(hs[k].lines),
               hs[k].s2 + Delta(hs[k], j, 0) - 1 = wanted, \A n \in 1 .. k : hs[n].omits = {}
        PROVE  <<k, j, 0>> \in Positions(hs, wanted)
    <2> DEFINE p == <<k, j, 0>>
    <2>1. p[1] = k /\ p[2] = j /\ p[3] = 0 /\ p \in {k} \X (0 .. Len(hs[k].lines)) \X {0, 1}
      OBVIOUS
    <2> HIDE DEF p
    <2>2. p \in UNION {{m} \X (0 .. Len(hs[m].lines)) \X {0, 1} : m \in DOMAIN hs}
      BY <2>1
    <2>3. hs[p[1]].s2 + Delta(hs[p[1]], p[2], p[3]) - 1 = wanted /\ \A n \in 1 .. p[1] : hs[n].omits = {}
      BY <1>2, <2>1
    <2>4. p[3] = 1 => p[2] \in hs[p[1]].ends
      BY <2>1
    <2>5. p \in Positions(hs, wanted)
      BY <2>2, <2>3, <2>4 DEF Positions
    <2> QED
      BY <2>5 DEF p
  <1> QED
    BY <1>1, <1>2

\* Where no remark stands above a line, only lines count.
LEMMA DeltaIs ==
  ASSUME NEW h \in HunkType, NEW i \in Int, \A e \in h.ends : ~(e < i), Counted(h.lines, i) \in Int, NEW m \in Int
  PROVE  Delta(h, i, m) = Counted(h.lines, i) + m
  <1>1. {e \in h.ends : e < i} = {}
    OBVIOUS
  <1>2. Cardinality({e \in h.ends : e < i}) = 0
    BY <1>1, FS_EmptySet
  <1> QED
    BY <1>2 DEF Delta

LEMMA PositionIs ==
  ASSUME NEW d \in Seq(DiffLine), NEW k \in DOMAIN Hunks(d),
         NEW a \in Hunks(d)[k].s2 .. Hunks(d)[k].s2 + Hunks(d)[k].n2 - 1, Reached(Hunks(d), k, a)
  PROVE  LET p == Position(Hunks(d), a)
         IN p[1] = k /\ p[2] > 0 /\ p[3] = 0 /\ Hunks(d)[k].lines[p[2]][1] # "-" /\ Hunks(d)[k].lines[p[2]][2] = NewFile(d)[a]
  <1> DEFINE hs == Hunks(d)
             h == hs[k]
             l == h.lines
             C == Counting(l)
             i == a - h.s2 + 1
             j == Ascending(C)[i]
             all == Positions(hs, a)
             p == Position(hs, a)
  <1>1. /\ hs \in Seq(HunkType)
        /\ \A m \in DOMAIN hs : hs[m] \in HunkType /\ IsHunk(hs[m], d) /\ (m < k => hs[m].ends = {})
    BY HunksAre
  <1>2. h \in HunkType /\ IsHunk(h, d)
    BY <1>1
  <1> HIDE DEF hs
  <1>3. l \in Seq(DiffLine) /\ h.n2 = Len(NewSide(l)) /\ h.s2 \in Int
    BY <1>2 DEF HunkType, IsHunk
  <1>a. a \in h.s2 .. h.s2 + h.n2 - 1
    BY DEF hs
  <1>r. (\A n \in 1 .. k : hs[n].omits = {}) /\ (\A e \in h.ends : a < h.s2 + Counted(l, e))
    BY DEF hs, Reached
  <1>s. h.ends \in SUBSET Int
    BY <1>2 DEF HunkType
  <1> HIDE DEF h, l
  <1>4. /\ C \in SUBSET DOMAIN l /\ C \in SUBSET Int /\ IsFiniteSet(C)
        /\ \A x \in DOMAIN l : x \in C <=> l[x][1] # "-"
        /\ NewSide(l) = Picked(l, C) /\ Len(NewSide(l)) = Cardinality(C)
        /\ \A x \in Int : Counted(l, x) = Rank(C, x + 1)
    BY <1>3, CountingIs
  <1> HIDE DEF C
  <1>5. Cardinality(C) \in Nat
    BY <1>4, RankType
  <1>6. i \in 1 .. Cardinality(C) /\ i \in Int /\ h.s2 + i - 1 = a /\ a \in Int
    <2> DEFINE s == h.s2
               c == Cardinality(C)
    <2>1. h.n2 = c /\ c \in Nat /\ s \in Int
      BY <1>3, <1>4, <1>5
    <2>2. a \in s .. s + c - 1
      BY <1>a, <2>1
    <2> HIDE DEF s, c
    <2>3. a - s + 1 \in 1 .. c /\ a - s + 1 \in Int /\ s + (a - s + 1) - 1 = a /\ a \in Int
      BY <2>1, <2>2
    <2> QED
      BY <2>3 DEF s, c
  <1> HIDE DEF i
  <1>7. j \in C /\ Rank(C, j) = i - 1
    BY <1>4, <1>6, Ascends
  <1>8. Picked(l, C)[i] = l[j]
    BY <1>3, <1>4, <1>6, PickedType
  <1> HIDE DEF j
  <1>9. j \in Int /\ j \in 1 .. Len(l) /\ Len(l) \in Nat /\ DOMAIN l = 1 .. Len(l)
    <2>1. Len(l) \in Nat /\ DOMAIN l = 1 .. Len(l)
      BY <1>3
    <2>2. j \in DOMAIN l
      BY <1>4, <1>7
    <2> QED
      BY <2>1, <2>2
  <1>10. Rank(C, j + 1) = i
    <2> DEFINE n == j + 1
    <2>1. n \in Int /\ j <= n /\ j .. n - 1 = {j}
      BY <1>9
    <2> HIDE DEF n
    <2>2. Rank(C, n) = Rank(C, j) + Cardinality(C \cap (j .. n - 1))
      BY <1>4, <1>9, <2>1, RankSplit
    <2>3. C \cap (j .. n - 1) = {j}
      BY <1>7, <2>1
    <2>4. Cardinality({j}) = 1
      BY FS_Singleton
    <2>5. Rank(C, n) = i - 1 + 1
      BY <1>7, <2>2, <2>3, <2>4
    <2> QED
      BY <1>6, <2>5 DEF n
  <1>11. ASSUME NEW x \in Int, x < j
         PROVE  Rank(C, x + 1) < i
    <2> DEFINE n == x + 1
               between == C \cap (n .. j - 1)
    <2>1. n \in Int /\ n <= j
      BY <1>9, <1>11
    <2>2. Rank(C, j) = Rank(C, n) + Cardinality(between)
      <3> HIDE DEF n
      <3> QED
        BY <1>4, <1>9, <2>1, RankSplit
    <2>3. Cardinality(between) \in Nat
      <3>1. between \in SUBSET C
        OBVIOUS
      <3> HIDE DEF between
      <3>2. IsFiniteSet(between)
        BY <1>4, <3>1, FS_Subset
      <3> QED
        BY <3>2, FS_CardinalityType
    <2>4. Rank(C, n) \in Int
      <3>1. Rank(C, n) \in 0 .. Cardinality(C)
        BY <1>4, RankType
      <3> QED
        BY <1>5, <3>1
    <2> HIDE DEF n, between
    <2>5. Rank(C, n) < i
      BY <1>6, <1>7, <2>2, <2>3, <2>4
    <2> QED
      BY <2>5 DEF n
  <1>12. Counted(l, j) = i
    BY <1>4, <1>9, <1>10
  <1>e. \A e \in h.ends : ~(e < j)
    <2> SUFFICES ASSUME NEW e \in h.ends, e < j
                 PROVE  FALSE
      OBVIOUS
    <2>1. e \in Int /\ a < h.s2 + Counted(l, e)
      BY <1>r, <1>s
    <2>2. Counted(l, e) = Rank(C, e + 1) /\ Rank(C, e + 1) < i
      BY <1>4, <1>11, <2>1
    <2>3. Rank(C, e + 1) \in Int
      <3>1. Rank(C, e + 1) \in 0 .. Cardinality(C)
        BY <1>4, RankType
      <3> QED
        BY <1>5, <3>1
    <2> QED
      BY <1>3, <1>6, <2>1, <2>2, <2>3
  <1>13. <<k, j, 0>> \in all
    <2>1. k \in DOMAIN hs /\ j \in 0 .. Len(hs[k].lines)
      BY <1>9 DEF hs, h, l
    <2>2. Delta(h, j, 0) = Counted(h.lines, j) + 0
      BY <1>2, <1>6, <1>9, <1>12, <1>e, DeltaIs DEF l
    <2>3. hs[k].s2 + Delta(hs[k], j, 0) - 1 = a
      BY <1>6, <1>12, <2>2 DEF h, l
    <2> QED
      BY <1>1, <1>r, <2>1, <2>3, PositionsAre
  <1>14. ASSUME NEW q \in all
         PROVE  /\ q[1] \in Int /\ q[2] \in Int /\ q[3] \in {0, 1}
                /\ k < q[1] \/ (q[1] = k /\ j <= q[2])
    <2> DEFINE m == q[1]
               x == q[2]
               z == q[3]
    <2>1. /\ m \in DOMAIN hs /\ x \in 0 .. Len(hs[m].lines) /\ z \in {0, 1} /\ (z = 1 => x \in hs[m].ends)
          /\ hs[m].s2 + Delta(hs[m], x, z) - 1 = a
      BY <1>1, PositionsAre
    <2>2. m \in Int /\ x \in Int /\ k \in Int
      BY <1>1, <2>1 DEF hs
    <2> HIDE DEF m, x, z
    <2>3. ~(m = k /\ x < j)
      <3> SUFFICES ASSUME m = k, x < j
                   PROVE  FALSE
        OBVIOUS
      <3>1. Counted(l, x) = Rank(C, x + 1) /\ Rank(C, x + 1) < i
        BY <1>4, <1>11, <2>2
      <3>a. z = 0 /\ \A e \in h.ends : ~(e < x)
        <4>1. z = 0
          BY <1>e, <2>1 DEF h
        <4>2. \A e \in h.ends : ~(e < x)
          <5> SUFFICES ASSUME NEW e \in h.ends, e < x
                       PROVE  FALSE
            OBVIOUS
          <5>1. e \in Int /\ ~(e < j)
            BY <1>s, <1>e
          <5> QED
            BY <1>9, <2>2, <5>1
        <4> QED
          BY <4>1, <4>2
      <3>3. Rank(C, x + 1) \in Int
        <4>1. Rank(C, x + 1) \in 0 .. Cardinality(C)
          BY <1>4, RankType
        <4> QED
          BY <1>5, <4>1
      <3>2. h.s2 + Counted(l, x) - 1 = a
        <4>1. Counted(h.lines, x) \in Int
          BY <3>1, <3>3 DEF l
        <4>2. Delta(h, x, 0) = Counted(h.lines, x) + 0
          BY <1>2, <2>2, <3>a, <4>1, DeltaIs
        <4> QED
          BY <2>1, <3>a, <4>1, <4>2 DEF h, l
      <3> QED
        BY <1>3, <1>6, <3>1, <3>2, <3>3
    <2>4. ~(m < k)
      <3> SUFFICES ASSUME m < k
                   PROVE  FALSE
        OBVIOUS
      <3> DEFINE g == hs[m]
                 y == g.lines
                 D == Counting(y)
      <3>1. g \in HunkType /\ IsHunk(g, d)
        BY <1>1, <2>1
      <3>2. y \in Seq(DiffLine) /\ g.n2 = Len(NewSide(y)) /\ g.s2 \in Int
        BY <3>1 DEF HunkType, IsHunk
      <3>e. g.ends = {}
        BY <1>1, <2>1
      <3>z. z = 0
        BY <2>1, <3>e
      <3>3. g.s2 + Delta(g, x, 0) - 1 = a
        BY <2>1, <3>z
      <3> HIDE DEF g, y
      <3>4. /\ D \in SUBSET DOMAIN y /\ D \in SUBSET Int /\ IsFiniteSet(D)
            /\ \A w \in DOMAIN y : w \in D <=> y[w][1] # "-"
            /\ NewSide(y) = Picked(y, D) /\ Len(NewSide(y)) = Cardinality(D)
            /\ \A w \in Int : Counted(y, w) = Rank(D, w + 1)
        BY <3>2, CountingIs
      <3> HIDE DEF D
      <3>5. Cardinality(D) \in Nat /\ \A w : Rank(D, w) \in 0 .. Cardinality(D)
        BY <3>4, RankType
      <3>6. Counted(y, x) \in 0 .. g.n2 /\ g.n2 \in Nat
        BY <2>2, <3>2, <3>4, <3>5
      <3>d. g.s2 + Counted(y, x) - 1 = a
        <4>1. Counted(g.lines, x) \in Int
          BY <3>6 DEF y
        <4>2. Delta(g, x, 0) = Counted(g.lines, x) + 0
          BY <2>2, <3>1, <3>e, <4>1, DeltaIs
        <4> QED
          BY <3>3, <4>1, <4>2 DEF y
      <3>7. CASE g.n2 = 0
        <4>1. NewFile(d) = <<>>
          BY <3>1, <3>7 DEF IsHunk
        <4>2. Follows(h, NewFile(d)) /\ i \in 1 .. Len(NewSide(l))
          BY <1>2, <1>4, <1>6, HunkFollows
        <4>3. h.s2 + i - 1 \in DOMAIN NewFile(d)
          BY <4>2 DEF Follows, FollowsAt, l
        <4> QED
          BY <4>1, <4>3
      <3>8. CASE g.n2 > 0
        <4>1. g.s2 + g.n2 <= h.s2
          <5>1. h.n2 > 0
            BY <1>3, <1>4, <1>5, <1>6
          <5> QED
            BY <2>1, <3>8, <5>1, HunksApart DEF hs, h, g
        <4> DEFINE s == h.s2
                   t == g.s2
                   n == g.n2
                   c == Counted(y, x)
        <4>2. s \in Int /\ t \in Int /\ n \in Int /\ c \in Int /\ c <= n /\ t + n <= s
          BY <1>3, <3>2, <3>6, <4>1
        <4>3. t + c - 1 = a /\ s + i - 1 = a /\ i \in Int /\ i >= 1
          BY <1>5, <1>6, <3>d
        <4> HIDE DEF s, t, n, c
        <4> QED
          BY <4>2, <4>3
      <3> QED
        BY <3>6, <3>7, <3>8
    <2>5. k < m \/ (m = k /\ j <= x)
      BY <1>9, <2>2, <2>3, <2>4
    <2> QED
      BY <2>1, <2>2, <2>5 DEF m, x, z
  <1>15. p[1] = k /\ p[2] = j /\ p[3] = 0
    <2> DEFINE best == <<k, j, 0>>
    <2>1. best[1] = k /\ best[2] = j /\ best[3] = 0 /\ best \in all
      BY <1>13
    <2>2. \A q \in all : Earlier(best, q)
      <3> SUFFICES ASSUME NEW q \in all
                   PROVE  Earlier(best, q)
        OBVIOUS
      <3>1. /\ q[1] \in Int /\ q[2] \in Int /\ q[3] \in {0, 1}
            /\ k < q[1] \/ (q[1] = k /\ j <= q[2])
        BY <1>14
      <3>2. 0 <= q[3] /\ (j <= q[2] => j < q[2] \/ j = q[2])
        BY <1>9, <3>1
      <3> HIDE DEF best
      <3> QED
        BY <2>1, <3>1, <3>2 DEF Earlier
    <2>3. p = CHOOSE q \in all : \A r \in all : Earlier(q, r)
      BY <2>1 DEF Position
    <2> HIDE DEF all, best, p
    <2>4. \E q \in all : \A r \in all : Earlier(q, r)
      BY <2>1, <2>2
    <2>5. p \in all /\ \A r \in all : Earlier(p, r)
      BY <2>3, <2>4
    <2>6. Earlier(p, best)
      BY <2>1, <2>5
    <2>7. p[1] \in Int /\ p[2] \in Int /\ p[3] \in {0, 1} /\ (k < p[1] \/ (p[1] = k /\ j <= p[2]))
      BY <1>14, <2>5 DEF all
    <2>8. p[1] < k \/ (p[1] = k /\ (p[2] < j \/ (p[2] = j /\ p[3] <= 0)))
      BY <2>1, <2>6 DEF Earlier
    <2>9. k \in Int
      BY <1>1 DEF hs
    <2> QED
      BY <1>9, <2>7, <2>8, <2>9
  <1> HIDE DEF p
  <1>16. l[j][1] # "-" /\ j > 0
    BY <1>4, <1>7, <1>9
  <1>17. l[j][2] = NewFile(d)[a]
    <2>1. Follows(h, NewFile(d)) /\ i \in 1 .. Len(NewSide(l))
      BY <1>2, <1>4, <1>6, HunkFollows
    <2>2. NewFile(d)[h.s2 + i - 1] = NewSide(l)[i][2]
      BY <2>1 DEF Follows, FollowsAt, l
    <2> QED
      BY <1>4, <1>6, <1>8, <2>2
  <1> QED
    BY <1>15, <1>16, <1>17 DEF p, l, h, hs

LEMMA SelectedIs ==
  ASSUME NEW d \in Seq(DiffLine), NEW h \in HunkType, IsHunk(h, d),
         NEW a \in h.s2 .. h.s2 + h.n2 - 1, NEW b \in a .. h.s2 + h.n2 - 1,
         \A i \in DOMAIN NewFile(d) : NewFile(d)[i] # Remark
  PROVE  TextOf(NewSide(Selected(h, a, b))) = SubSeq(NewFile(d), a, b)
  <1> DEFINE l == Unremarked(h.lines)
             C == Counting(l)
             s == h.s2
             p == a - s + 1
             q == b - s + 1
             taken == {i \in DOMAIN l : s + Rank(C, i) \in a .. b}
             T == {i \in C : Rank(C, i) + 1 \in p .. q}
             N == NewSide(h.lines)
             file == NewFile(d)
  <1>1. h.lines \in Seq(DiffLine) /\ h.n2 = Len(N) /\ s \in Int
    BY DEF HunkType, IsHunk
  <1>2. \A i \in 1 .. Len(N) : s + i - 1 \in DOMAIN file /\ file[s + i - 1] = N[i][2]
    BY HunkFollows DEF Follows, FollowsAt
  <1>3. NewSide(l) = N
    <2>1. \A n \in 1 .. Len(Without(h.lines, "-")) : Without(h.lines, "-")[n][2] # Remark
      BY <1>2 DEF NewSide
    <2>2. Without(Unremarked(h.lines), "-") = Without(h.lines, "-")
      BY <1>1, <2>1, UnremarkedSide
    <2> QED
      BY <2>2 DEF NewSide
  <1>4. l \in Seq(DiffLine)
    <2> DEFINE S == {i \in DOMAIN h.lines : h.lines[i][2] # Remark}
    <2>1. S \in SUBSET DOMAIN h.lines
      OBVIOUS
    <2>2. l = Picked(h.lines, S)
      BY DEF Unremarked
    <2> HIDE DEF S, l
    <2> QED
      BY <1>1, <2>1, <2>2, PickedType
  <1>5. N \in Seq(DiffLine) /\ file \in Seq(STRING)
    BY <1>1, SideType, TextType DEF NewSide, NewFile
  <1>6. Selected(h, a, b) = Picked(l, taken)
    <2>1. Holds(h, a)
      <3>1. a \in s .. s + Parsed(h).n2
        <4>1. h.n2 \in Int
          BY <1>1, <1>5
        <4>2. Parsed(h).n2 = (IF "new" \in h.omits THEN 0 ELSE h.n2) /\ ("new" \in h.omits => h.n2 = 1)
          BY ParsedIs DEF IsHunk
        <4>3. a \in s .. s + h.n2 - 1 /\ s \in Int
          BY <1>1
        <4> DEFINE n == Parsed(h).n2
        <4> HIDE DEF s, n
        <4>4. n = h.n2 \/ (n = 0 /\ h.n2 = 1)
          BY <4>2 DEF n
        <4>5. a \in s .. s + n
          BY <4>1, <4>3, <4>4
        <4> QED
          BY <4>5 DEF n
      <3> QED
        BY <3>1 DEF Holds
    <2> QED
      BY <2>1 DEF Selected
  <1> HIDE DEF l
  <1>7. /\ C \in SUBSET DOMAIN l /\ C \in SUBSET Int /\ IsFiniteSet(C)
        /\ \A x \in DOMAIN l : x \in C <=> l[x][1] # "-"
        /\ NewSide(l) = Picked(l, C) /\ Len(NewSide(l)) = Cardinality(C)
        /\ \A x \in Int : Counted(l, x) = Rank(C, x + 1)
    BY <1>4, CountingIs
  <1> HIDE DEF C, N, file
  <1>8. Len(N) = Cardinality(C) /\ Cardinality(C) \in Nat /\ \A i : Rank(C, i) \in 0 .. Cardinality(C)
    BY <1>3, <1>7, RankType
  <1>9. a \in Int /\ b \in Int /\ s <= a /\ a <= b /\ b <= s + Len(N) - 1
    <2>1. h.n2 = Len(N) /\ Len(N) \in Int /\ s \in Int
      BY <1>1, <1>8
    <2>2. a \in s .. s + Len(N) - 1 /\ b \in a .. s + Len(N) - 1
      BY <2>1
    <2> HIDE DEF s
    <2> QED
      BY <2>1, <2>2
  <1> HIDE DEF s
  <1>10. /\ p \in Nat \ {0} /\ q \in Nat /\ p <= q + 1 /\ q <= Cardinality(C) /\ p <= q /\ q - p + 1 = b - a + 1
         /\ p \in Int /\ q \in Int
    <2> DEFINE c == Cardinality(C)
    <2>1. a \in Int /\ b \in Int /\ s <= a /\ a <= b /\ b <= s + c - 1 /\ s \in Int /\ c \in Int
      BY <1>1, <1>8, <1>9
    <2> HIDE DEF c
    <2>2. /\ p \in Nat \ {0} /\ q \in Nat /\ p <= q + 1 /\ q <= c /\ p <= q /\ q - p + 1 = b - a + 1
          /\ p \in Int /\ q \in Int
      BY <2>1
    <2> QED
      BY <2>2 DEF c
  <1>11. {i \in taken : l[i][1] # "-"} = T
    <2>1. ASSUME NEW i
          PROVE  s + Rank(C, i) \in a .. b <=> Rank(C, i) + 1 \in p .. q
      <3> DEFINE r == Rank(C, i)
      <3>1. r \in Int
        BY <1>8
      <3> HIDE DEF r
      <3>2. s + r \in a .. b <=> r + 1 \in p .. q
        BY <1>1, <1>9, <3>1
      <3> QED
        BY <3>2 DEF r
    <2>2. \A i \in DOMAIN l : i \in C <=> l[i][1] # "-"
      BY <1>7
    <2>3. C \in SUBSET DOMAIN l
      BY <1>7
    <2> HIDE DEF p, q
    <2> QED
      BY <2>1, <2>2, <2>3
  <1>12. Without(Picked(l, taken), "-") = Picked(l, {i \in taken : l[i][1] # "-"})
    <2>1. taken \in SUBSET DOMAIN l
      OBVIOUS
    <2> HIDE DEF taken
    <2> QED
      BY <1>4, <2>1, SideOfPick
  <1>13. Picked(l, T) = SubSeq(Picked(l, C), p, q)
    <2> HIDE DEF p, q
    <2>p. /\ C \in SUBSET DOMAIN l /\ p \in Nat \ {0} /\ q \in Nat /\ p <= q + 1
          /\ q <= Cardinality(C)
      BY <1>7, <1>10
    <2>1. Picked(l, PlacesFrom(C, p, q)) = SubSeq(Picked(l, C), p, q)
      BY <1>4, <2>p, PickedSlice
    <2> QED
      BY <2>1 DEF PlacesFrom
  <1> DEFINE X == NewSide(Selected(h, a, b))
  <1>14. X = SubSeq(N, p, q)
    <2> HIDE DEF p, q, taken, T
    <2> QED
      BY <1>3, <1>6, <1>7, <1>11, <1>12, <1>13 DEF NewSide
  <1> DEFINE w == b - a + 1
  <1>15. /\ X \in Seq(DiffLine) /\ Len(X) = w /\ w \in Nat
         /\ \A i \in 1 .. w : X[i] = N[p + i - 1] /\ p + i - 1 \in 1 .. Len(N)
    <2>1. p \in 1 .. Len(N) /\ q \in 1 .. Len(N) /\ p <= q /\ q - p + 1 = w /\ N \in Seq(DiffLine)
      BY <1>5, <1>8, <1>10
    <2> HIDE DEF p, q, X
    <2>n. Len(N) \in Nat /\ p \in Int /\ q \in Int
      BY <2>1
    <2>2. /\ SubSeq(N, p, q) \in Seq(DiffLine) /\ Len(SubSeq(N, p, q)) = q - p + 1 /\ q - p + 1 \in Nat
          /\ \A i \in 1 .. q - p + 1 : SubSeq(N, p, q)[i] = N[p + i - 1] /\ p + i - 1 \in 1 .. Len(N)
      <3> HIDE DEF w, N
      <3>1. SubSeq(N, p, q) \in Seq(DiffLine) /\ Len(SubSeq(N, p, q)) = q - p + 1
        BY <2>1, <2>n
      <3>2. q - p + 1 \in Nat /\ \A i \in 1 .. q - p + 1 : p + i - 1 \in 1 .. Len(N)
        BY <2>1, <2>n
      <3>3. \A i \in 1 .. q - p + 1 : SubSeq(N, p, q)[i] = N[p + i - 1]
        BY <2>1, <2>n
      <3> QED
        BY <3>1, <3>2, <3>3
    <2> QED
      BY <1>14, <2>1, <2>2
  <1> HIDE DEF X
  <1>16. \A i \in 1 .. w : a + i - 1 \in DOMAIN file /\ TextOf(X)[i] = file[a + i - 1]
    <2> SUFFICES ASSUME NEW i \in 1 .. w
                 PROVE  a + i - 1 \in DOMAIN file /\ TextOf(X)[i] = file[a + i - 1]
      OBVIOUS
    <2>1. s + (p + i - 1) - 1 = a + i - 1
      BY <1>1, <1>9
    <2>2. X[i] = N[p + i - 1] /\ p + i - 1 \in 1 .. Len(N) /\ i \in 1 .. Len(X)
      BY <1>15
    <2> HIDE DEF p, q, w
    <2>3. TextOf(X)[i] = X[i][2]
      BY <1>15, <2>2, TextType
    <2> QED
      BY <1>2, <2>1, <2>2, <2>3
  <1>17. TextOf(X) \in Seq(STRING) /\ Len(TextOf(X)) = w
    <2> HIDE DEF w
    <2> QED
      BY <1>15, TextType
  <1>18. /\ SubSeq(file, a, b) \in Seq(STRING) /\ Len(SubSeq(file, a, b)) = w
         /\ \A i \in 1 .. w : SubSeq(file, a, b)[i] = file[a + i - 1]
    <2>1. 1 \in 1 .. w /\ w \in 1 .. w /\ a + 1 - 1 = a /\ a + w - 1 = b
      BY <1>9
    <2>2. a \in DOMAIN file /\ b \in DOMAIN file
      BY <1>16, <2>1
    <2>3. a \in Int /\ b \in Int /\ a <= b /\ Len(file) \in Nat /\ 1 <= a /\ b <= Len(file) /\ w = b - a + 1
      BY <1>5, <1>9, <2>2
    <2> HIDE DEF w
    <2> QED
      BY <1>5, <2>3
  <1>19. TextOf(X) = SubSeq(file, a, b)
    <2> DEFINE y == TextOf(X)
               z == SubSeq(file, a, b)
    <2>1. y \in Seq(STRING) /\ z \in Seq(STRING) /\ Len(y) = w /\ Len(z) = w /\ \A i \in 1 .. w : y[i] = z[i]
      BY <1>16, <1>17, <1>18
    <2> HIDE DEF y, z, w
    <2>2. y = z
      BY <2>1
    <2> QED
      BY <2>2 DEF y, z
  <1> QED
    BY <1>19 DEF X, file

\* Every line of the new file that the patch shows is found there by its number, above the
\* first header that omits a count and git's remark, and a question about lines gets them
\* whatever the headers omit (find_line_number_of_relevant_line_in_file,
\* extract_hunk_lines_from_patch).
THEOREM TheLinesAreFound == PatchSpec => []LinesAreFound
  <1>1. PatchInv => LinesAreFound
    <2> SUFFICES ASSUME PatchInv, NEW k \in DOMAIN Hunks(diff),
                        NEW a \in Hunks(diff)[k].s2 .. Hunks(diff)[k].s2 + Hunks(diff)[k].n2 - 1
                 PROVE  /\ Reached(Hunks(diff), k, a) =>
                             LET p == Position(Hunks(diff), a)
                             IN /\ p[1] = k /\ p[2] > 0 /\ p[3] = 0 /\ Hunks(diff)[k].lines[p[2]][1] # "-"
                                /\ Hunks(diff)[k].lines[p[2]][2] = NewFile(diff)[a]
                        /\ (\A i \in DOMAIN NewFile(diff) : NewFile(diff)[i] # Remark) =>
                             \A b \in a .. Hunks(diff)[k].s2 + Hunks(diff)[k].n2 - 1 :
                               TextOf(NewSide(Selected(Hunks(diff)[k], a, b))) = SubSeq(NewFile(diff), a, b)
      BY DEF LinesAreFound
    <2>1. diff \in Seq(DiffLine)
      BY PatchAssumption DEF PatchInv
    <2>2. Hunks(diff)[k] \in HunkType /\ IsHunk(Hunks(diff)[k], diff)
      <3>1. Hunks(diff) \in Seq(HunkType) /\ \A m \in DOMAIN Hunks(diff) : IsHunk(Hunks(diff)[m], diff)
        BY <2>1, HunksAre
      <3> QED
        BY <3>1
    <2>3. ASSUME Reached(Hunks(diff), k, a)
          PROVE  LET p == Position(Hunks(diff), a)
                 IN /\ p[1] = k /\ p[2] > 0 /\ p[3] = 0 /\ Hunks(diff)[k].lines[p[2]][1] # "-"
                    /\ Hunks(diff)[k].lines[p[2]][2] = NewFile(diff)[a]
      BY <2>1, <2>3, PositionIs
    <2>4. ASSUME \A i \in DOMAIN NewFile(diff) : NewFile(diff)[i] # Remark,
                 NEW b \in a .. Hunks(diff)[k].s2 + Hunks(diff)[k].n2 - 1
          PROVE  TextOf(NewSide(Selected(Hunks(diff)[k], a, b))) = SubSeq(NewFile(diff), a, b)
      BY <2>1, <2>2, <2>4, SelectedIs
    <2> QED
      BY <2>3, <2>4
  <1> QED
    BY <1>1, PatchInitInv, PatchStep, PTL DEF PatchSpec
=============================================================================
