---------------------------- MODULE PublishProofs ----------------------------
(***************************************************************************)
(* Proofs about what is published.  InlinePublish, for any suggestions,    *)
(* fingerprints, lists, rejections, lost answers and restarts: no          *)
(* suggestion is on the pull request more often than it was overlooked,    *)
(* none is held back by one that was not posted, and those GitHub accepts  *)
(* arrive.  Mosaico, for any conversation and any failures: a task works   *)
(* on what was said last; its report has one form, and tells of a failure  *)
(* when there was one.                                                     *)
(* ToolRuns, for any runs that overlap: what they leave on a pull request  *)
(* is what they were to say, and their failures are told.                  *)
(* ProviderSuggestions, for any list and any refusals: no suggestion is    *)
(* repeated for another's sake, nor takes the others with it.              *)
(* PullRequestComments, for any commands and any history: the conversation *)
(* stays tidy, and forgets only what it must.                              *)
(***************************************************************************)
EXTENDS InlinePublish, Mosaico, ToolRuns, ProviderSuggestions, PullRequestComments,
        SubsequenceProofs, SequenceTheorems, WellFoundedInduction, TLAPS

Prints(s) == Fingerprints(Full(s))

-----------------------------------------------------------------------------
(* Fingerprints.                                                           *)

LEMMA CommentsAre ==
  ASSUME NEW s \in Suggestions
  PROVE  /\ Full(s) \in Comments /\ Fixed(s) \in Comments /\ Full(s) # Fixed(s)
         /\ BodyFp(Full(s)) \in Prints(s)
         /\ BodyFp(Fixed(s)) = <<"body", Prose[s], "">>
         /\ Fingerprints(Fixed(s)) = {BodyFp(Fixed(s))}
         /\ Short = {} => BodyFp(Full(s)) = BodyFp(Fixed(s))
  BY DEF Full, Fixed, Comments, BodyFp, Fingerprints, Prints

LEMMA FullIsOne ==
  ASSUME NEW s, NEW u, Full(s) = Full(u)
  PROVE  s = u
  BY DEF Full

LEMMA FixedIsOne ==
  ASSUME NEW s, NEW u
  PROVE  Full(s) # Fixed(u) /\ (Fixed(s) = Fixed(u) => s = u)
  BY DEF Full, Fixed

LEMMA MarkersHave ==
  ASSUME NEW cs, NEW f
  PROVE  f \in MarkersOf(cs) <=> \E c \in cs : f \in Fingerprints(c)
  BY DEF MarkersOf

LEMMA MarkedHas ==
  ASSUME NEW q, NEW f
  PROVE  f \in Marked(q) <=> \E s \in Elements(q) : f \in Prints(s)
  BY DEF Marked, MarkersOf, Prints

LEMMA MarkedIn ==
  ASSUME NEW q, Elements(q) \subseteq Suggestions
  PROVE  Marked(q) \subseteq MarkersOf(Comments)
  BY MarkedHas, MarkersHave, CommentsAre DEF Prints

-----------------------------------------------------------------------------
(* Lists of suggestions.                                                   *)

LEMMA ElementsIn ==
  ASSUME NEW S, NEW q \in Seq(S)
  PROVE  Elements(q) \subseteq S /\ (q = <<>> <=> Elements(q) = {})
  BY DEF Elements

LEMMA EmptyList == Elements(<<>>) = {} /\ Once(<<>>) /\ Apart(<<>>) /\ Marked(<<>>) = {}
  <1>1. Elements(<<>>) = {}
    BY DEF Elements
  <1> QED
    BY <1>1, MarkedHas DEF Once, Apart

LEMMA OneElement ==
  ASSUME NEW s \in Suggestions
  PROVE  <<s>> \in Seq(Suggestions) /\ Elements(<<s>>) = {s}
  BY DEF Elements

LEMMA Appended ==
  ASSUME NEW S, NEW q \in Seq(S), NEW s \in S
  PROVE  /\ Append(q, s) \in Seq(S)
         /\ Elements(Append(q, s)) = Elements(q) \cup {s}
         /\ Once(q) /\ s \notin Elements(q) => Once(Append(q, s))
  <1>1. Append(q, s) \in Seq(S) /\ Len(Append(q, s)) = Len(q) + 1
    OBVIOUS
  <1>2. \A i \in 1 .. Len(q) : Append(q, s)[i] = q[i]
    OBVIOUS
  <1>3. Append(q, s)[Len(q) + 1] = s
    OBVIOUS
  <1>4. DOMAIN Append(q, s) = 1 .. Len(q) + 1 /\ DOMAIN q = 1 .. Len(q) /\ Len(q) \in Nat
    BY <1>1
  <1>5. Elements(Append(q, s)) = Elements(q) \cup {s}
    <2>1. ASSUME NEW x \in Elements(Append(q, s)) PROVE x \in Elements(q) \cup {s}
      BY <2>1, <1>2, <1>3, <1>4 DEF Elements
    <2>2. ASSUME NEW x \in Elements(q) PROVE x \in Elements(Append(q, s))
      BY <2>2, <1>2, <1>4 DEF Elements
    <2>3. s \in Elements(Append(q, s))
      BY <1>3, <1>4 DEF Elements
    <2> QED
      BY <2>1, <2>2, <2>3
  <1>6. ASSUME Once(q), s \notin Elements(q) PROVE Once(Append(q, s))
    BY <1>6, <1>2, <1>3, <1>4 DEF Once, Elements
  <1> QED
    BY <1>1, <1>5, <1>6

LEMMA HeadAndTail ==
  ASSUME NEW S, NEW q \in Seq(S), q # <<>>
  PROVE  /\ Head(q) \in S /\ Tail(q) \in Seq(S)
         /\ Elements(q) = Elements(Tail(q)) \cup {Head(q)}
         /\ Once(q) => Once(Tail(q)) /\ Head(q) \notin Elements(Tail(q))
  <1>1. Len(q) \in Nat \ {0} /\ DOMAIN q = 1 .. Len(q) /\ Head(q) = q[1] /\ Head(q) \in S
    OBVIOUS
  <1>2. Tail(q) \in Seq(S) /\ Len(Tail(q)) = Len(q) - 1 /\ DOMAIN Tail(q) = 1 .. Len(q) - 1
    OBVIOUS
  <1>3. \A i \in 1 .. Len(q) - 1 : Tail(q)[i] = q[i + 1]
    OBVIOUS
  <1>4. ASSUME NEW x \in Elements(q) PROVE x \in Elements(Tail(q)) \cup {Head(q)}
    <2>1. PICK i \in 1 .. Len(q) : x = q[i]
      BY <1>1 DEF Elements
    <2>2. CASE i = 1
      BY <2>1, <2>2, <1>1
    <2>3. CASE i # 1
      <3>1. i - 1 \in 1 .. Len(q) - 1 /\ Tail(q)[i - 1] = x
        BY <2>1, <2>3, <1>1, <1>3
      <3> QED
        BY <3>1, <1>2 DEF Elements
    <2> QED
      BY <2>2, <2>3
  <1>5. ASSUME NEW x \in Elements(Tail(q)) PROVE x \in Elements(q)
    <2>1. PICK i \in 1 .. Len(q) - 1 : x = Tail(q)[i]
      BY <1>2 DEF Elements
    <2>2. x = q[i + 1] /\ i + 1 \in 1 .. Len(q)
      BY <2>1, <1>1, <1>3
    <2> QED
      BY <2>2, <1>1 DEF Elements
  <1>6. Head(q) \in Elements(q)
    BY <1>1 DEF Elements
  <1>7. ASSUME Once(q) PROVE Once(Tail(q)) /\ Head(q) \notin Elements(Tail(q))
    <2>1. ASSUME NEW i \in 1 .. Len(q) - 1, NEW j \in 1 .. Len(q) - 1, Tail(q)[i] = Tail(q)[j]
          PROVE  i = j
      <3>1. q[i + 1] = q[j + 1] /\ i + 1 \in 1 .. Len(q) /\ j + 1 \in 1 .. Len(q)
        BY <2>1, <1>1, <1>3
      <3> QED
        BY <3>1, <1>7, <1>1 DEF Once
    <2>2. ASSUME NEW i \in 1 .. Len(q) - 1 PROVE Tail(q)[i] # Head(q)
      <3>1. Tail(q)[i] = q[i + 1] /\ i + 1 \in 1 .. Len(q) /\ i + 1 # 1 /\ 1 \in 1 .. Len(q)
        BY <1>1, <1>3
      <3> QED
        BY <3>1, <1>7, <1>1 DEF Once
    <2> QED
      BY <2>1, <2>2, <1>2 DEF Once, Elements
  <1> QED
    BY <1>1, <1>2, <1>4, <1>5, <1>6, <1>7
-----------------------------------------------------------------------------
(* The filter keeps what it should: by a minimal counterexample, since it  *)
(* is a recursive function.                                                *)

Before == {p \in Nat \X Nat : p[1] < p[2]}

LEMMA LeastOf ==
  ASSUME NEW T \in SUBSET Nat, T # {}
  PROVE  \E m \in T : \A k \in T : ~(k < m)
  <1>1. IsWellFoundedOn(Before, Nat)
    BY NatLessThanWellFounded DEF OpToRel, Before
  <1>2. PICK m \in T : \A k \in T : <<k, m>> \notin Before
    BY <1>1, WFMin
  <1> QED
    BY <1>2 DEF Before

KeepUpTo(known, list, f, n) ==
  f = [i \in 0 .. n |-> IF i = 0 THEN <<>> ELSE KeepNext(known, f[i - 1], list[i])]

LEMMA KeepExists ==
  ASSUME NEW known, NEW list, NEW n \in Nat
  PROVE  \E f : KeepUpTo(known, list, f, n)
  <1> DEFINE T == {m \in Nat : ~ \E f : KeepUpTo(known, list, f, m)}
  <1> SUFFICES ASSUME T # {} PROVE FALSE
    OBVIOUS
  <1>1. PICK m \in T : \A k \in T : ~(k < m)
    BY LeastOf
  <1>2. CASE m = 0
    <2> DEFINE f == [i \in 0 .. 0 |-> <<>>]
    <2>1. KeepUpTo(known, list, f, 0)
      BY DEF KeepUpTo
    <2> QED
      BY <2>1, <1>1, <1>2
  <1>3. CASE m # 0
    <2>1. m - 1 \in Nat /\ m - 1 < m
      BY <1>3
    <2>2. PICK g : KeepUpTo(known, list, g, m - 1)
      BY <2>1, <1>1
    <2> DEFINE f == [i \in 0 .. m |-> IF i = m THEN KeepNext(known, g[m - 1], list[m]) ELSE g[i]]
               h == [i \in 0 .. m |-> IF i = 0 THEN <<>> ELSE KeepNext(known, f[i - 1], list[i])]
    <2>3. ASSUME NEW i \in 0 .. m PROVE f[i] = h[i]
      <3>1. CASE i = 0
        BY <3>1, <2>1, <2>2, <1>3 DEF KeepUpTo
      <3>2. CASE i = m
        <4>1. m - 1 \in 0 .. m /\ f[m - 1] = g[m - 1]
          BY <2>1
        <4> QED
          BY <3>2, <4>1, <1>3
      <3>3. CASE i # 0 /\ i # m
        <4>1. i \in 0 .. m - 1 /\ i - 1 \in 0 .. m /\ i - 1 # m
          BY <3>3
        <4>2. f[i] = g[i] /\ f[i - 1] = g[i - 1]
          BY <4>1, <3>3
        <4>3. g[i] = KeepNext(known, g[i - 1], list[i])
          BY <4>1, <3>3, <2>2 DEF KeepUpTo
        <4> QED
          BY <4>2, <4>3, <3>3
      <3> QED
        BY <3>1, <3>2, <3>3
    <2>4. f = h
      BY <2>3
    <2>5. KeepUpTo(known, list, f, m)
      BY <2>4 DEF KeepUpTo
    <2> QED
      BY <2>5
  <1> QED
    BY <1>2, <1>3

LEMMA KeptIs ==
  ASSUME NEW known, NEW list \in Seq(Suggestions)
  PROVE  \E f : KeepUpTo(known, list, f, Len(list)) /\ Kept(known, list) = f[Len(list)]
  <1> DEFINE K == CHOOSE f : f = [i \in 0 .. Len(list) |->
                                    IF i = 0 THEN <<>> ELSE KeepNext(known, f[i - 1], list[i])]
  <1>1. Kept(known, list) = K[Len(list)]
    BY DEF Kept
  <1>2. \E f : f = [i \in 0 .. Len(list) |->
                      IF i = 0 THEN <<>> ELSE KeepNext(known, f[i - 1], list[i])]
    <2>1. Len(list) \in Nat
      OBVIOUS
    <2>2. \E f : KeepUpTo(known, list, f, Len(list))
      BY <2>1, KeepExists
    <2> QED
      BY <2>2 DEF KeepUpTo
  <1>3. K = [i \in 0 .. Len(list) |-> IF i = 0 THEN <<>> ELSE KeepNext(known, K[i - 1], list[i])]
    BY <1>2
  <1>4. KeepUpTo(known, list, K, Len(list))
    BY <1>3 DEF KeepUpTo
  <1> QED
    BY <1>1, <1>4

LEMMA KeepOne ==
  ASSUME NEW known, NEW q \in Seq(Suggestions), NEW s \in Suggestions,
         Marked(q) \cap known = {}, Apart(q), Once(q)
  PROVE  LET k == KeepNext(known, q, s) IN
         /\ k \in Seq(Suggestions) /\ Elements(k) \subseteq Elements(q) \cup {s}
         /\ Marked(k) \cap known = {} /\ Apart(k) /\ Once(k)
         /\ Marked(q) \subseteq Marked(k)
         /\ Prints(s) \cap (known \cup Marked(k)) # {}
  <1>1. CASE Prints(s) \cap (known \cup Marked(q)) = {}
    <2> DEFINE k == Append(q, s)
    <2>1. KeepNext(known, q, s) = k
      BY <1>1 DEF KeepNext, Prints
    <2>2. Prints(s) \subseteq Marked(k) /\ Prints(s) # {}
      <3>1. s \in Elements(k)
        BY Appended
      <3>2. \A f \in Prints(s) : f \in Marked(k)
        <4> HIDE DEF k
        <4> QED
          BY <3>1, MarkedHas
      <3> QED
        BY <3>2, CommentsAre
    <2>3. s \notin Elements(q)
      BY <1>1, <2>2, MarkedHas
    <2>4. k \in Seq(Suggestions) /\ Elements(k) = Elements(q) \cup {s} /\ Once(k)
      BY <2>3, Appended
    <2> HIDE DEF k
    <2>5. Marked(q) \subseteq Marked(k)
      BY <2>4, MarkedHas
    <2>6. Marked(k) \cap known = {}
      <3> SUFFICES ASSUME NEW f \in Marked(k), f \in known PROVE FALSE
        OBVIOUS
      <3>1. PICK u \in Elements(k) : f \in Prints(u)
        BY MarkedHas
      <3>2. CASE u = s
        BY <3>1, <3>2, <1>1
      <3>3. CASE u \in Elements(q)
        BY <3>1, <3>3, MarkedHas
      <3> QED
        BY <3>2, <3>3, <2>4
    <2>7. Apart(k)
      <3> SUFFICES ASSUME NEW u \in Elements(k), NEW v \in Elements(k), u # v
                   PROVE  Prints(u) \cap Prints(v) = {}
        BY DEF Apart, Prints
      <3>1. \A w \in Elements(q) : Prints(w) \cap Prints(s) = {}
        BY <1>1, MarkedHas
      <3>2. CASE u \in Elements(q) /\ v \in Elements(q)
        BY <3>2 DEF Apart, Prints
      <3> QED
        BY <3>1, <3>2, <2>4
    <2> QED
      BY <2>1, <2>2, <2>4, <2>5, <2>6, <2>7
  <1>2. CASE Prints(s) \cap (known \cup Marked(q)) # {}
    BY <1>2 DEF KeepNext, Prints
  <1> QED
    BY <1>1, <1>2

\* What the filter returns, by position.
Sifted(known, list, q, n) ==
  /\ q \in Seq(Suggestions)
  /\ \A s \in Elements(q) : \E i \in 1 .. n : s = list[i]
  /\ Marked(q) \cap known = {} /\ Apart(q) /\ Once(q)
  /\ \A i \in 1 .. n : Prints(list[i]) \cap (known \cup Marked(q)) # {}

LEMMA SiftedUpTo ==
  ASSUME NEW known, NEW list \in Seq(Suggestions), NEW f, KeepUpTo(known, list, f, Len(list)),
         NEW n \in 0 .. Len(list)
  PROVE  Sifted(known, list, f[n], n)
  <1> DEFINE T == {m \in 0 .. Len(list) : ~Sifted(known, list, f[m], m)}
  <1>0. Len(list) \in Nat /\ \A i \in 1 .. Len(list) : list[i] \in Suggestions
    OBVIOUS
  <1> SUFFICES ASSUME T # {} PROVE FALSE
    OBVIOUS
  <1>1. PICK m \in T : \A k \in T : ~(k < m)
    <2>1. T \subseteq Nat
      BY <1>0
    <2> HIDE DEF T
    <2> QED
      BY <2>1, LeastOf
  <1>2. CASE m = 0
    <2>1. f[0] = <<>>
      BY <1>0 DEF KeepUpTo
    <2>2. Sifted(known, list, <<>>, 0)
      BY EmptyList DEF Sifted
    <2> QED
      BY <2>1, <2>2, <1>1, <1>2
  <1>3. CASE m # 0
    <2>1. m \in 1 .. Len(list) /\ m - 1 \in 0 .. Len(list) /\ m - 1 < m
      BY <1>0, <1>3
    <2>2. Sifted(known, list, f[m - 1], m - 1)
      BY <2>1, <1>1
    <2>3. f[m] = KeepNext(known, f[m - 1], list[m])
      BY <2>1 DEF KeepUpTo
    <2> DEFINE q == f[m - 1]
               k == f[m]
    <2>4. /\ k \in Seq(Suggestions) /\ Elements(k) \subseteq Elements(q) \cup {list[m]}
          /\ Marked(k) \cap known = {} /\ Apart(k) /\ Once(k)
          /\ Marked(q) \subseteq Marked(k)
          /\ Prints(list[m]) \cap (known \cup Marked(k)) # {}
      <3>1. /\ q \in Seq(Suggestions) /\ list[m] \in Suggestions
            /\ Marked(q) \cap known = {} /\ Apart(q) /\ Once(q)
        BY <2>1, <2>2, <1>0 DEF Sifted
      <3>2. k = KeepNext(known, q, list[m])
        BY <2>3
      <3> DEFINE next == KeepNext(known, q, list[m])
      <3>3. /\ next \in Seq(Suggestions) /\ Elements(next) \subseteq Elements(q) \cup {list[m]}
            /\ Marked(next) \cap known = {} /\ Apart(next) /\ Once(next)
            /\ Marked(q) \subseteq Marked(next)
            /\ Prints(list[m]) \cap (known \cup Marked(next)) # {}
        <4> HIDE DEF q
        <4> QED
          BY <3>1, KeepOne
      <3> HIDE DEF q, k, next
      <3>4. k = next
        BY <3>2 DEF next
      <3> QED
        BY <3>3, <3>4
    <2>5. \A s \in Elements(k) : \E i \in 1 .. m : s = list[i]
      <3> SUFFICES ASSUME NEW s \in Elements(k) PROVE \E i \in 1 .. m : s = list[i]
        OBVIOUS
      <3>1. CASE s = list[m]
        BY <3>1, <2>1
      <3>2. CASE s \in Elements(q)
        <4>1. PICK i \in 1 .. m - 1 : s = list[i]
          BY <3>2, <2>2 DEF Sifted
        <4>2. i \in 1 .. m
          BY <2>1
        <4> QED
          BY <4>1, <4>2
      <3> QED
        BY <3>1, <3>2, <2>4
    <2>6. ASSUME NEW i \in 1 .. m PROVE Prints(list[i]) \cap (known \cup Marked(k)) # {}
      <3>1. CASE i = m
        BY <3>1, <2>4
      <3>2. CASE i # m
        <4>1. i \in 1 .. m - 1
          BY <3>2, <2>1
        <4>2. Prints(list[i]) \cap (known \cup Marked(q)) # {}
          BY <4>1, <2>2 DEF Sifted
        <4> QED
          BY <4>2, <2>4
      <3> QED
        BY <3>1, <3>2
    <2>7. Sifted(known, list, k, m)
      BY <2>4, <2>5, <2>6 DEF Sifted
    <2> QED
      BY <2>7
  <1> QED
    BY <1>2, <1>3

\* The filter returns suggestions of its list that share no fingerprint with
\* what is known or with each other, and all others share one.
LEMMA KeptFacts ==
  ASSUME NEW known, NEW list \in Seq(Suggestions)
  PROVE  LET k == Kept(known, list) IN
         /\ k \in Seq(Suggestions) /\ Elements(k) \subseteq Elements(list)
         /\ Marked(k) \cap known = {} /\ Apart(k) /\ Once(k)
         /\ \A s \in Elements(list) : Prints(s) \cap (known \cup Marked(k)) # {}
  <1>1. Sifted(known, list, Kept(known, list), Len(list))
    <2>1. PICK f : KeepUpTo(known, list, f, Len(list)) /\ Kept(known, list) = f[Len(list)]
      BY KeptIs
    <2>2. Len(list) \in 0 .. Len(list)
      OBVIOUS
    <2> QED
      BY <2>1, <2>2, SiftedUpTo
  <1>2. DOMAIN list = 1 .. Len(list)
    OBVIOUS
  <1> QED
    BY <1>1, <1>2 DEF Sifted, Elements
-----------------------------------------------------------------------------
(* Types.                                                                  *)

LEMMA Goes ==
  ASSUME NEW q \in Seq(Suggestions), Continue(q)
  PROVE  /\ pc' \in {"idle", "filter"} /\ single' \in BOOLEAN
         /\ batch' \in Seq(Suggestions) /\ rest' \in Seq(Suggestions)
         /\ pc' = "idle" => ~single'
         /\ pc' = "filter" => single' /\ \E s \in Suggestions : Elements(batch') = {s}
  <1>1. CASE q = <<>>
    BY <1>1 DEF Continue
  <1>2. CASE q # <<>>
    <2>1. pc' = "filter" /\ batch' = <<Head(q)>> /\ rest' = Tail(q) /\ single' = TRUE
      BY <1>2 DEF Continue
    <2>2. Head(q) \in Suggestions /\ Tail(q) \in Seq(Suggestions)
      BY <1>2
    <2> QED
      BY <2>1, <2>2, OneElement
  <1> QED
    BY <1>1, <1>2

LEMMA Posts ==
  ASSUME posted \in [Comments -> Nat], NEW cs, Post(cs)
  PROVE  /\ posted' \in [Comments -> Nat]
         /\ \A c \in Comments : posted'[c] = IF c \in cs THEN posted[c] + 1 ELSE posted[c]
  BY DEF Post

LEMMA Overlooks ==
  ASSUME overlooked \in [MarkersOf(Comments) -> Nat], NEW fps, Overlook(fps)
  PROVE  /\ overlooked' \in [MarkersOf(Comments) -> Nat]
         /\ \A f \in MarkersOf(Comments) :
              overlooked'[f] = overlooked[f] + (IF f \in fps THEN 1 ELSE 0)
  BY DEF Overlook

LEMMA KnownAre ==
  ASSUME NEW known \in Scans
  PROVE  known \subseteq Markers
  BY DEF Scans, Markers, MarkersOf

LEMMA MarkersIn == Markers \subseteq MarkersOf(Comments)
  BY DEF Markers, MarkersOf, Present

\* The lists and the store a step leaves alone.
Types == /\ batch \in Seq(Suggestions) /\ rest \in Seq(Suggestions)
         /\ queue \in Seq(Suggestions) /\ verified \in Seq(Suggestions)
         /\ invalid \in Seq(Suggestions) /\ offered \in Seq(Suggestions)
         /\ posted \in [Comments -> Nat]
         /\ pc \in {"idle", "filter", "review", "verify", "fix"}
         /\ keys \subseteq MarkersOf(Comments) /\ runs \in 0 .. MaxRuns
         /\ loaded \in BOOLEAN /\ single \in BOOLEAN /\ faulty \in BOOLEAN
         /\ overlooked \in [MarkersOf(Comments) -> Nat]

LEMMA TypesAre == PublishTypeOK <=> Types
  BY DEF PublishTypeOK, Types

LEMMA FilterTypes ==
  ASSUME Types, Filter
  PROVE  Types'
  <1>1. PICK known \in IF loaded THEN {keys} ELSE Scans :
          LET kept == Kept(known, batch) IN
          /\ keys' = Recorded(known, kept)
          /\ IF kept = <<>>
             THEN Continue(IF single THEN rest ELSE <<>>)
             ELSE pc' = "review" /\ batch' = kept /\ UNCHANGED <<rest, single>>
          /\ IF loaded THEN UNCHANGED overlooked ELSE Overlook(Markers \ known)
    BY DEF Filter
  <1>2. known \subseteq MarkersOf(Comments)
    BY KnownAre, MarkersIn DEF Types
  <1>3. Kept(known, batch) \in Seq(Suggestions)
    BY KeptFacts DEF Types
  <1>4. (IF single THEN rest ELSE <<>>) \in Seq(Suggestions)
    BY DEF Types
  <1>5. /\ batch' \in Seq(Suggestions) /\ rest' \in Seq(Suggestions) /\ single' \in BOOLEAN
        /\ pc' \in {"idle", "filter", "review"}
    BY <1>1, <1>3, <1>4, Goes DEF Types
  <1>6. overlooked' \in [MarkersOf(Comments) -> Nat]
    BY <1>1, Overlooks DEF Types
  <1> QED
    BY <1>1, <1>2, <1>5, <1>6 DEF Types, Filter, Recorded, fallback

LEMMA TypeStep ==
  ASSUME Types, [PublishNext]_publishVars
  PROVE  Types'
  <1> DEFINE more == IF single THEN rest ELSE <<>>
  <1>0. more \in Seq(Suggestions) /\ <<>> \in Seq(Suggestions) /\ rest \in Seq(Suggestions)
    BY DEF Types
  <1>m. Marked(batch) \subseteq MarkersOf(Comments)
    BY ElementsIn, MarkedIn DEF Types
  <1> HIDE DEF more
  <1>1. ASSUME NEW list \in Lists, StartRun(list) PROVE Types'
    <2>1. list \in Seq(Suggestions) /\ runs + 1 \in 0 .. MaxRuns /\ {} \subseteq MarkersOf(Comments)
      BY <1>1, PublishAssumption DEF StartRun, Types
    <2> QED
      BY <1>1, <2>1 DEF StartRun, Types, fallback
  <1>2. CASE Filter
    BY <1>2, FilterTypes
  <1>3. CASE ReviewPosted
    <2>1. Continue(more)
      BY <1>3 DEF ReviewPosted, more
    <2>2. posted' \in [Comments -> Nat] /\ keys' \subseteq MarkersOf(Comments)
      BY <1>3, <1>m, Posts DEF ReviewPosted, Types
    <2> QED
      BY <1>0, <1>3, <2>1, <2>2, Goes DEF ReviewPosted, Types, fallback, run
  <1>4. CASE ReviewRejected
    BY <1>4 DEF ReviewRejected, Types, store, run
  <1>5. CASE ReviewFails
    BY <1>0, <1>5, Goes DEF ReviewFails, Types, store, fallback
  <1>6. CASE ReviewLost
    <2>1. posted' \in [Comments -> Nat] /\ overlooked' \in [MarkersOf(Comments) -> Nat]
      BY <1>6, Posts, Overlooks DEF ReviewLost, Types
    <2> QED
      BY <1>0, <1>6, <2>1, Goes DEF ReviewLost, Types, store, fallback
  <1>7. CASE Verify
    <2>1. Head(queue) \in Suggestions /\ Tail(queue) \in Seq(Suggestions)
      BY <1>7, HeadAndTail DEF Verify, Types
    <2>2. /\ Append(verified, Head(queue)) \in Seq(Suggestions)
          /\ Append(invalid, Head(queue)) \in Seq(Suggestions)
      BY <2>1, Appended DEF Types
    <2> QED
      BY <1>7, <2>1, <2>2 DEF Verify, Remaining, Types, store
  <1>8. CASE Group
    <2>1. posted' \in [Comments -> Nat]
      BY <1>8, Posts DEF Group, Types
    <2> QED
      BY <1>0, <1>8, <2>1 DEF Group, ToFix, Types, store
  <1>9. CASE Fix
    <2>1. Head(invalid) \in Suggestions /\ Tail(invalid) \in Seq(Suggestions)
      BY <1>9, HeadAndTail DEF Fix, Types
    <2>2. Fingerprints(Fixed(Head(invalid))) \subseteq MarkersOf(Comments)
      BY <2>1, CommentsAre, MarkersHave
    <2>3. /\ posted' \in [Comments -> Nat] /\ overlooked' \in [MarkersOf(Comments) -> Nat]
          /\ keys' \subseteq MarkersOf(Comments) /\ faulty' \in BOOLEAN
      BY <1>9, <2>2, Posts, Overlooks DEF Fix, Types
    <2> QED
      BY <1>9, <2>1, <2>3 DEF Fix, Remaining, Types
  <1>10. CASE FallbackDone
    <2>1. Continue(more)
      BY <1>10 DEF FallbackDone, more
    <2> QED
      BY <1>0, <1>10, <2>1, Goes DEF FallbackDone, Types, store, fallback, run
  <1>11. CASE Crash
    BY <1>0, <1>11, Goes DEF Crash, NoFallback, Types, store
  <1>12. CASE UNCHANGED publishVars
    BY <1>12 DEF publishVars, store, fallback, run, Types
  <1> QED
    BY <1>1, <1>2, <1>3, <1>4, <1>5, <1>6, <1>7, <1>8, <1>9, <1>10, <1>11, <1>12 DEF PublishNext

LEMMA TypeStart ==
  ASSUME PublishInit
  PROVE  Types
  <1>1. <<>> \in Seq(Suggestions) /\ {} \subseteq MarkersOf(Comments) /\ 0 \in 0 .. MaxRuns
    BY PublishAssumption
  <1>2. posted \in [Comments -> Nat] /\ overlooked \in [MarkersOf(Comments) -> Nat]
    BY DEF PublishInit
  <1> QED
    BY <1>1, <1>2 DEF PublishInit, Types

\* Types, whatever GitHub rejects, loses or fails to list.
THEOREM TypeCorrect == PublishSpec => []PublishTypeOK
  <1>1. PublishInit => Types
    BY TypeStart
  <1>2. Types /\ [PublishNext]_publishVars => Types'
    BY TypeStep
  <1>3. Types => PublishTypeOK
    BY TypesAre
  <1> QED
    BY <1>1, <1>2, <1>3, PTL DEF PublishSpec
-----------------------------------------------------------------------------
(* Batches, and suggestions published alone.                               *)

LEMMA FilterDoes ==
  ASSUME Types, Filter
  PROVE  \E known \in IF loaded THEN {keys} ELSE Scans :
           /\ keys' = known /\ loaded' = TRUE
           /\ known \subseteq MarkersOf(Comments)
           /\ IF loaded THEN overlooked' = overlooked ELSE Overlook(Markers \ known)
           /\ \/ /\ pc' = "review" /\ batch' \in Seq(Suggestions)
                 /\ single' = single /\ rest' = rest
                 /\ Elements(batch') \subseteq Elements(batch)
                 /\ Marked(batch') \cap known = {} /\ Apart(batch') /\ Once(batch')
                 /\ \A s \in Elements(batch) : Prints(s) \cap (known \cup Marked(batch')) # {}
              \/ /\ Continue(IF single THEN rest ELSE <<>>)
                 /\ \A s \in Elements(batch) : Prints(s) \cap known # {}
  <1>1. PICK known \in IF loaded THEN {keys} ELSE Scans :
          LET kept == Kept(known, batch) IN
          /\ keys' = Recorded(known, kept)
          /\ IF kept = <<>>
             THEN Continue(IF single THEN rest ELSE <<>>)
             ELSE pc' = "review" /\ batch' = kept /\ UNCHANGED <<rest, single>>
          /\ IF loaded THEN UNCHANGED overlooked ELSE Overlook(Markers \ known)
    BY DEF Filter
  <1>2. known \subseteq MarkersOf(Comments)
    BY KnownAre, MarkersIn DEF Types
  <1> DEFINE kept == Kept(known, batch)
  <1>3. /\ kept \in Seq(Suggestions) /\ Elements(kept) \subseteq Elements(batch)
        /\ Marked(kept) \cap known = {} /\ Apart(kept) /\ Once(kept)
        /\ \A s \in Elements(batch) : Prints(s) \cap (known \cup Marked(kept)) # {}
    BY KeptFacts DEF Types
  <1>4. /\ keys' = known /\ loaded' = TRUE
        /\ IF loaded THEN overlooked' = overlooked ELSE Overlook(Markers \ known)
    BY <1>1 DEF Filter, Recorded
  <1>5. kept = <<>> => Continue(IF single THEN rest ELSE <<>>)
    BY <1>1
  <1>6. kept # <<>> => pc' = "review" /\ batch' = kept /\ rest' = rest /\ single' = single
    BY <1>1
  <1> HIDE DEF kept
  <1>7. CASE kept = <<>>
    <2>1. Marked(kept) = {}
      BY <1>7, EmptyList
    <2> QED
      BY <1>2, <1>3, <1>4, <1>5, <1>7, <2>1, ZenonT(40)
  <1>8. CASE kept # <<>>
    BY <1>2, <1>3, <1>4, <1>6, <1>8
  <1> QED
    BY <1>7, <1>8

LEMMA BatchStep ==
  ASSUME Types, BatchInv, [PublishNext]_publishVars
  PROVE  BatchInv'
  <1> DEFINE more == IF single THEN rest ELSE <<>>
  <1>0. more \in Seq(Suggestions) /\ <<>> \in Seq(Suggestions) /\ rest \in Seq(Suggestions)
    BY DEF Types
  <1> HIDE DEF more
  <1>1. ASSUME NEW list \in Lists, StartRun(list) PROVE BatchInv'
    BY <1>1 DEF StartRun, BatchInv, Falling, fallback
  <1>2. CASE Filter
    <2>1. UNCHANGED <<queue, verified, invalid>> /\ loaded' = TRUE /\ pc = "filter"
      BY <1>2 DEF Filter, fallback
    <2>2. queue = <<>> /\ verified = <<>> /\ invalid = <<>>
      BY <2>1 DEF BatchInv, Falling
    <2>3. \/ pc' = "review" /\ Apart(batch') /\ Once(batch')
          \/ pc' \in {"idle", "filter"}
      BY <1>0, <1>2, FilterDoes, Goes DEF more
    <2> QED
      BY <2>1, <2>2, <2>3 DEF BatchInv, Falling
  <1>3. CASE ReviewPosted \/ FallbackDone
    <2>1. Continue(more) /\ UNCHANGED <<queue, verified, invalid>>
      BY <1>3 DEF ReviewPosted, FallbackDone, more, fallback
    <2>2. queue = <<>> /\ verified = <<>> /\ invalid = <<>>
      BY <1>3 DEF ReviewPosted, FallbackDone, BatchInv, Falling
    <2>3. pc' \in {"idle", "filter"}
      BY <1>0, <2>1, Goes
    <2> QED
      BY <2>1, <2>2, <2>3 DEF BatchInv, Falling
  <1>4. CASE ReviewRejected
    <2>1. /\ pc = "review" /\ pc' = "verify" /\ queue' = batch /\ loaded' = loaded
          /\ UNCHANGED <<batch, verified, invalid>>
      BY <1>4 DEF ReviewRejected, store
    <2>2. verified = <<>> /\ invalid = <<>> /\ loaded /\ Apart(batch) /\ Once(batch)
      BY <2>1 DEF BatchInv, Falling
    <2> QED
      BY <2>1, <2>2, EmptyList DEF BatchInv, Falling
  <1>5. CASE ReviewFails \/ ReviewLost
    <2>1. pc = "review" /\ Continue(rest) /\ UNCHANGED <<queue, verified, invalid>>
      BY <1>5 DEF ReviewFails, ReviewLost, fallback
    <2>2. pc' \in {"idle", "filter"}
      BY <1>0, <2>1, Goes
    <2> QED
      BY <2>1, <2>2 DEF BatchInv, Falling
  <1>7. CASE Verify
    <2> DEFINE s == Head(queue)
    <2>1. /\ pc = "verify" /\ queue # <<>> /\ queue' = Tail(queue)
          /\ UNCHANGED <<batch, pc, loaded>>
          /\ \/ s \in Valid /\ verified' = Append(verified, s) /\ invalid' = invalid
             \/ invalid' = Append(invalid, s) /\ verified' = verified
      BY <1>7 DEF Verify, Remaining, store
    <2>2. /\ loaded /\ Apart(batch) /\ Once(batch)
          /\ Elements(queue) \cup Elements(verified) \cup Elements(invalid) \subseteq Elements(batch)
          /\ Once(queue) /\ Once(invalid)
          /\ Elements(queue) \cap (Elements(verified) \cup Elements(invalid)) = {}
          /\ Elements(verified) \cap Elements(invalid) = {} /\ Elements(verified) \subseteq Valid
      BY <2>1 DEF BatchInv, Falling
    <2>3. /\ s \in Suggestions /\ Elements(queue) = Elements(queue') \cup {s}
          /\ Once(queue') /\ s \notin Elements(queue')
      BY <2>1, <2>2, HeadAndTail DEF Types
    <2>4. s \notin Elements(verified) /\ s \notin Elements(invalid) /\ s \in Elements(batch)
      BY <2>2, <2>3
    <2>5. /\ Elements(Append(verified, s)) = Elements(verified) \cup {s}
          /\ Elements(Append(invalid, s)) = Elements(invalid) \cup {s}
          /\ Once(Append(invalid, s))
      BY <2>2, <2>3, <2>4, Appended DEF Types
    <2> HIDE DEF s
    <2>6. /\ Elements(queue') \cup Elements(verified') \cup Elements(invalid') \subseteq Elements(batch)
          /\ Once(invalid')
          /\ Elements(queue') \cap (Elements(verified') \cup Elements(invalid')) = {}
          /\ Elements(verified') \cap Elements(invalid') = {} /\ Elements(verified') \subseteq Valid
      <3>1. CASE s \in Valid /\ verified' = Append(verified, s) /\ invalid' = invalid
        BY <3>1, <2>2, <2>3, <2>4, <2>5
      <3>2. CASE invalid' = Append(invalid, s) /\ verified' = verified
        BY <3>2, <2>2, <2>3, <2>4, <2>5
      <3> QED
        BY <2>1, <3>1, <3>2
    <2> QED
      BY <2>1, <2>2, <2>3, <2>6 DEF BatchInv, Falling
  <1>8. CASE Group
    <2>1. /\ pc = "verify" /\ pc' = "fix" /\ queue = <<>> /\ queue' = queue /\ verified' = <<>>
          /\ invalid' = ToFix(invalid) /\ UNCHANGED <<batch, loaded>>
      BY <1>8 DEF Group, store
    <2>2. invalid' = invalid \/ invalid' = <<>>
      BY <2>1 DEF ToFix
    <2>3. /\ loaded /\ Apart(batch) /\ Once(batch)
          /\ Elements(invalid) \subseteq Elements(batch) /\ Once(invalid) /\ Once(queue)
      BY <2>1 DEF BatchInv, Falling
    <2> QED
      BY <2>1, <2>2, <2>3, EmptyList DEF BatchInv, Falling
  <1>9. CASE Fix
    <2>1. /\ pc = "fix" /\ invalid # <<>> /\ invalid' = Tail(invalid)
          /\ UNCHANGED <<pc, queue, verified, batch, loaded>>
      BY <1>9 DEF Fix, Remaining
    <2>2. /\ loaded /\ Apart(batch) /\ Once(batch) /\ queue = <<>> /\ verified = <<>>
          /\ Elements(invalid) \subseteq Elements(batch) /\ Once(invalid)
      BY <2>1 DEF BatchInv, Falling
    <2>3. Elements(invalid') \subseteq Elements(invalid) /\ Once(invalid')
      BY <2>1, <2>2, HeadAndTail DEF Types
    <2> QED
      BY <2>1, <2>2, <2>3, EmptyList DEF BatchInv, Falling
  <1>11. CASE Crash
    <2>1. pc' \in {"idle", "filter"}
      BY <1>0, <1>11, Goes DEF Crash
    <2> QED
      BY <1>11, <2>1 DEF Crash, NoFallback, BatchInv, Falling
  <1>12. CASE UNCHANGED publishVars
    BY <1>12 DEF publishVars, store, fallback, run, BatchInv, Falling, Apart, Once
  <1> QED
    BY <1>1, <1>2, <1>3, <1>4, <1>5, <1>7, <1>8, <1>9, <1>11, <1>12 DEF PublishNext

LEMMA SingleStep ==
  ASSUME Types, BatchInv, SingleInv, [PublishNext]_publishVars
  PROVE  SingleInv'
  <1> DEFINE more == IF single THEN rest ELSE <<>>
             Few(q) == \E s \in Suggestions : Elements(q) \subseteq {s}
             NotFixed == ~TryFix => \A s \in Suggestions : posted[Fixed(s)] = 0
  <1>0. more \in Seq(Suggestions) /\ <<>> \in Seq(Suggestions) /\ rest \in Seq(Suggestions)
    BY DEF Types
  <1>a. NotFixed
    BY DEF SingleInv
  <1>c. \* Between the calls of a run.
        ASSUME NEW q \in Seq(Suggestions), Continue(q), NotFixed', loaded' \/ q = <<>>
        PROVE  SingleInv'
    <2>1. q = <<>> => pc' = "idle"
      BY <1>c DEF Continue
    <2>2. pc' \in {"idle", "filter"} /\ (pc' = "filter" => Few(batch'))
      BY <1>c, Goes
    <2> QED
      BY <1>c, <2>1, <2>2 DEF SingleInv, Falling
  <1>s. ASSUME NEW cs, Post(cs), \A s \in Suggestions : Fixed(s) \notin cs
        PROVE  NotFixed'
    <2>1. \A s \in Suggestions : posted'[Fixed(s)] = posted[Fixed(s)]
      BY <1>s, Posts, CommentsAre DEF Types
    <2> QED
      BY <1>a, <2>1
  <1>f. ASSUME NEW q PROVE \A s \in Suggestions : Fixed(s) \notin {Full(u) : u \in Elements(q)}
    BY FixedIsOne
  <1>l. single /\ pc # "idle" => loaded /\ Few(batch)
    BY DEF SingleInv
  <1> HIDE DEF more, NotFixed
  <1>1. ASSUME NEW list \in Lists, StartRun(list) PROVE SingleInv'
    BY <1>1 DEF StartRun, SingleInv, Falling
  <1>2. CASE Filter
    <2>1. pc = "filter" /\ loaded' = TRUE /\ posted' = posted
      BY <1>2 DEF Filter
    <2>2. NotFixed'
      BY <1>a, <2>1 DEF NotFixed
    <2>3. CASE Continue(more)
      BY <1>0, <1>c, <2>1, <2>2, <2>3
    <2>4. CASE pc' = "review" /\ single' = single /\ Elements(batch') \subseteq Elements(batch)
      BY <1>l, <2>1, <2>2, <2>4 DEF SingleInv, Falling, NotFixed
    <2> QED
      BY <1>2, <2>3, <2>4, FilterDoes DEF more
  <1>3. CASE ReviewPosted
    <2>1. Continue(more) /\ NotFixed' /\ loaded' = loaded
      BY <1>3, <1>s, <1>f DEF ReviewPosted, more
    <2>2. loaded' \/ more = <<>>
      BY <1>3, <1>l, <2>1 DEF ReviewPosted, more
    <2> QED
      BY <1>0, <1>c, <2>1, <2>2
  <1>4. CASE ReviewRejected
    <2>1. /\ pc = "review" /\ pc' = "verify" /\ ~ Elements(batch) \subseteq Valid
          /\ UNCHANGED <<batch, single, loaded, posted>>
      BY <1>4 DEF ReviewRejected, store
    <2>2. single => Elements(batch) \cap Valid = {}
      BY <1>l, <2>1
    <2> QED
      BY <1>a, <1>l, <2>1, <2>2 DEF SingleInv, Falling, NotFixed
  <1>5. CASE ReviewFails \/ ReviewLost
    <2>1. pc = "review" /\ Continue(rest) /\ loaded' = loaded /\ NotFixed'
      BY <1>5, <1>a, <1>s, <1>f DEF ReviewFails, ReviewLost, store, NotFixed
    <2>2. loaded
      BY <2>1 DEF BatchInv
    <2> QED
      BY <1>0, <1>c, <2>1, <2>2
  <1>7. CASE Verify
    BY <1>7 DEF Verify, store, SingleInv, Falling
  <1>8. CASE Group
    <2>1. pc = "verify" /\ pc' = "fix" /\ UNCHANGED <<batch, single, loaded>> /\ invalid' = ToFix(invalid)
      BY <1>8 DEF Group, store
    <2>2. NotFixed'
      BY <1>8, <1>a, <1>s, <1>f DEF Group, NotFixed
    <2>3. ~TryFix => invalid' = <<>>
      BY <2>1 DEF ToFix
    <2> QED
      BY <1>l, <2>1, <2>2, <2>3 DEF SingleInv, Falling, NotFixed
  <1>9. CASE Fix
    <2>1. pc = "fix" /\ invalid # <<>> /\ UNCHANGED <<pc, batch, single, loaded>>
      BY <1>9 DEF Fix
    <2>2. TryFix
      BY <2>1 DEF SingleInv
    <2> QED
      BY <1>l, <2>1, <2>2 DEF SingleInv, Falling
  <1>10. CASE FallbackDone
    <2>1. Continue(more) /\ loaded' = loaded /\ posted' = posted /\ pc = "fix"
      BY <1>10 DEF FallbackDone, more, store
    <2>2. NotFixed' /\ (loaded' \/ more = <<>>)
      BY <1>a, <1>l, <2>1 DEF NotFixed, more
    <2> QED
      BY <1>0, <1>c, <2>1, <2>2
  <1>11. CASE Crash
    BY <1>0, <1>a, <1>c, <1>11 DEF Crash, NotFixed
  <1>12. CASE UNCHANGED publishVars
    BY <1>12 DEF publishVars, store, fallback, run, SingleInv, Falling
  <1> QED
    BY <1>1, <1>2, <1>3, <1>4, <1>5, <1>7, <1>8, <1>9, <1>10, <1>11, <1>12 DEF PublishNext
-----------------------------------------------------------------------------
(* Copies.                                                                 *)

LEMMA CopiesAre ==
  ASSUME NEW p, NEW f, NEW x
  PROVE  x \in CopiesOf(f, p) <=>
           \E c \in Comments : f \in Fingerprints(c) /\ \E i \in 1 .. p[c] : x = <<c, i>>
  BY DEF CopiesOf

\* A copy more of each of some comments, of which one at most has a fingerprint.
OneMore(p, r, cs) == /\ p \in [Comments -> Nat] /\ r \in [Comments -> Nat] /\ cs \subseteq Comments
                     /\ \A c \in Comments : r[c] = IF c \in cs THEN p[c] + 1 ELSE p[c]
OneHas(f, cs) == \A c, d \in cs : f \in Fingerprints(c) /\ f \in Fingerprints(d) => c = d

LEMMA CopiesAdded ==
  ASSUME NEW p, NEW r, NEW cs, NEW f, OneMore(p, r, cs), OneHas(f, cs),
         IsFiniteSet(CopiesOf(f, p))
  PROVE  /\ IsFiniteSet(CopiesOf(f, r)) /\ Cardinality(CopiesOf(f, p)) \in Nat
         /\ Cardinality(CopiesOf(f, r)) =
              Cardinality(CopiesOf(f, p)) + (IF f \in MarkersOf(cs) THEN 1 ELSE 0)
  <1>0. /\ p \in [Comments -> Nat] /\ r \in [Comments -> Nat] /\ cs \subseteq Comments
        /\ \A c \in Comments : r[c] = IF c \in cs THEN p[c] + 1 ELSE p[c]
        /\ \A c, d \in cs : f \in Fingerprints(c) /\ f \in Fingerprints(d) => c = d
    BY DEF OneMore, OneHas
  <1>1. Cardinality(CopiesOf(f, p)) \in Nat
    BY FS_CardinalityType
  <1>2. CASE f \notin MarkersOf(cs)
    <2>1. \A c \in Comments : f \in Fingerprints(c) => r[c] = p[c]
      BY <1>0, <1>2, MarkersHave
    <2>2. ASSUME NEW x PROVE x \in CopiesOf(f, r) <=> x \in CopiesOf(f, p)
      BY <2>1, CopiesAre
    <2>3. CopiesOf(f, r) = CopiesOf(f, p)
      BY <2>2
    <2> QED
      BY <1>1, <1>2, <2>3
  <1>3. CASE f \in MarkersOf(cs)
    <2>1. PICK c \in cs : f \in Fingerprints(c)
      BY <1>3, MarkersHave
    <2>2. \A d \in Comments : f \in Fingerprints(d) => r[d] = IF d = c THEN p[c] + 1 ELSE p[d]
      BY <1>0, <2>1
    <2> DEFINE new == <<c, p[c] + 1>>
    <2>3. new \notin CopiesOf(f, p)
      <3> SUFFICES ASSUME new \in CopiesOf(f, p) PROVE FALSE
        OBVIOUS
      <3>1. PICK d \in Comments : \E i \in 1 .. p[d] : new = <<d, i>>
        BY CopiesAre
      <3>2. d = c /\ p[c] + 1 \in 1 .. p[c] /\ p[c] \in Nat
        BY <1>0, <2>1, <3>1
      <3> QED
        BY <3>2
    <2>4. ASSUME NEW x \in CopiesOf(f, r) PROVE x \in CopiesOf(f, p) \cup {new}
      <3>1. PICK d \in Comments : f \in Fingerprints(d) /\ \E i \in 1 .. r[d] : x = <<d, i>>
        BY <2>4, CopiesAre
      <3>i. PICK i \in 1 .. r[d] : x = <<d, i>>
        BY <3>1
      <3>2. p[d] \in Nat /\ r[d] \in Nat /\ i \in Nat
        BY <1>0, <3>1, <3>i
      <3>3. CASE i \in 1 .. p[d]
        BY <3>1, <3>i, <3>3, CopiesAre
      <3>4. CASE i \notin 1 .. p[d]
        <4>1. d = c /\ i = p[c] + 1
          BY <2>2, <3>1, <3>i, <3>2, <3>4
        <4> QED
          BY <3>i, <4>1
      <3> QED
        BY <3>3, <3>4
    <2>5. ASSUME NEW x \in CopiesOf(f, p) \cup {new} PROVE x \in CopiesOf(f, r)
      <3>1. CASE x = new
        <4>1. p[c] + 1 \in 1 .. r[c] /\ c \in Comments
          BY <1>0, <2>1, <2>2
        <4> QED
          BY <2>1, <3>1, <4>1, CopiesAre
      <3>2. CASE x \in CopiesOf(f, p)
        <4>1. PICK d \in Comments : f \in Fingerprints(d) /\ \E i \in 1 .. p[d] : x = <<d, i>>
          BY <3>2, CopiesAre
        <4>i. PICK i \in 1 .. p[d] : x = <<d, i>>
          BY <4>1
        <4>2. p[d] \in Nat /\ r[d] \in Nat /\ p[d] =< r[d]
          BY <1>0, <2>1, <2>2, <4>1
        <4>3. i \in 1 .. r[d]
          BY <4>i, <4>2
        <4> QED
          BY <4>1, <4>i, <4>3, CopiesAre
      <3> QED
        BY <3>1, <3>2, <2>5
    <2>6. CopiesOf(f, r) = CopiesOf(f, p) \cup {new}
      BY <2>4, <2>5
    <2> HIDE DEF new
    <2> QED
      BY <1>1, <1>3, <2>3, <2>6, FS_AddElement
  <1> QED
    BY <1>2, <1>3

LEMMA NoCopies ==
  ASSUME posted \in [Comments -> Nat], NEW f, f \notin Markers
  PROVE  Copies(f) = 0 /\ IsFiniteSet(CopiesOf(f, posted))
  <1>1. ASSUME NEW x \in CopiesOf(f, posted) PROVE FALSE
    <2>1. PICK c \in Comments : f \in Fingerprints(c) /\ \E i \in 1 .. posted[c] : x = <<c, i>>
      BY <1>1, CopiesAre
    <2>2. posted[c] > 0
      BY <2>1
    <2> QED
      BY <2>1, <2>2, MarkersHave DEF Markers, Present
  <1>2. CopiesOf(f, posted) = {}
    BY <1>1
  <1> QED
    BY <1>2, FS_EmptySet DEF Copies

Finite == \A f \in MarkersOf(Comments) : IsFiniteSet(CopiesOf(f, posted))

\* The comments of one request share no fingerprint.
Disjoint(cs) == \A c, d \in cs : c # d => Fingerprints(c) \cap Fingerprints(d) = {}

LEMMA PostCounts ==
  ASSUME Types, Finite, NEW cs \in SUBSET Comments, Disjoint(cs), Post(cs)
  PROVE  /\ Finite'
         /\ \A f \in MarkersOf(Comments) :
              /\ Copies(f) \in Nat
              /\ Copies(f)' = Copies(f) + (IF f \in MarkersOf(cs) THEN 1 ELSE 0)
  <1>1. /\ posted \in [Comments -> Nat] /\ posted' \in [Comments -> Nat]
        /\ \A c \in Comments : posted'[c] = IF c \in cs THEN posted[c] + 1 ELSE posted[c]
    BY Posts DEF Types
  <1>2. ASSUME NEW f \in MarkersOf(Comments)
        PROVE  /\ IsFiniteSet(CopiesOf(f, posted')) /\ Cardinality(CopiesOf(f, posted)) \in Nat
               /\ Cardinality(CopiesOf(f, posted')) =
                    Cardinality(CopiesOf(f, posted)) + (IF f \in MarkersOf(cs) THEN 1 ELSE 0)
    <2>1. OneHas(f, cs)
      BY DEF OneHas, Disjoint
    <2>2. IsFiniteSet(CopiesOf(f, posted))
      BY DEF Finite
    <2>3. OneMore(posted, posted', cs)
      BY <1>1 DEF OneMore
    <2> QED
      BY <2>1, <2>2, <2>3, CopiesAdded
  <1> QED
    BY <1>2 DEF Finite, Copies

LEMMA ApartDisjoint ==
  ASSUME NEW q, NEW b, Elements(q) \subseteq Elements(b), Elements(b) \subseteq Suggestions, Apart(b)
  PROVE  /\ {Full(s) : s \in Elements(q)} \in SUBSET Comments
         /\ Disjoint({Full(s) : s \in Elements(q)})
         /\ MarkersOf({Full(s) : s \in Elements(q)}) = Marked(q)
         /\ Marked(q) \subseteq Marked(b)
  <1>1. {Full(s) : s \in Elements(q)} \in SUBSET Comments
    BY CommentsAre
  <1>2. Disjoint({Full(s) : s \in Elements(q)})
    BY DEF Disjoint, Apart
  <1> QED
    BY <1>1, <1>2, MarkedHas DEF Marked
LEMMA PostFull ==
  ASSUME Types, Finite, NEW q, NEW b, Elements(q) \subseteq Elements(b),
         Elements(b) \subseteq Suggestions, Apart(b), Post({Full(s) : s \in Elements(q)})
  PROVE  /\ Finite'
         /\ \A f \in MarkersOf(Comments) :
              /\ Copies(f) \in Nat /\ overlooked[f] \in Nat
              /\ Copies(f)' = Copies(f) + (IF f \in Marked(q) THEN 1 ELSE 0)
  <1> DEFINE cs == {Full(s) : s \in Elements(q)}
  <1>1. cs \in SUBSET Comments /\ Disjoint(cs) /\ MarkersOf(cs) = Marked(q) /\ Post(cs)
    BY ApartDisjoint
  <1> HIDE DEF cs
  <1>2. /\ Finite'
        /\ \A f \in MarkersOf(Comments) :
             /\ Copies(f) \in Nat
             /\ Copies(f)' = Copies(f) + (IF f \in MarkersOf(cs) THEN 1 ELSE 0)
    BY <1>1, PostCounts
  <1> QED
    BY <1>1, <1>2 DEF Types

-----------------------------------------------------------------------------
(* No fingerprint is on the pull request more often than it was overlooked *)
(* and once more.                                                          *)

Bounded == \A f \in MarkersOf(Comments) : Copies(f) =< 1 + overlooked[f]
AllSpare == \A f \in MarkersOf(Comments) : Spare(f)

LEMMA CopiesNat ==
  ASSUME Finite
  PROVE  \A f \in MarkersOf(Comments) : Copies(f) \in Nat
  BY FS_CardinalityType DEF Finite, Copies

LEMMA SameCopies ==
  ASSUME posted' = posted
  PROVE  (Finite => Finite') /\ \A f : Copies(f)' = Copies(f)
  BY DEF Finite, Copies

LEMMA FilterCounts ==
  ASSUME Types, Finite, CountInv, Filter
  PROVE  AllSpare' /\ Bounded' /\ (pc' = "review" => Marked(batch') \cap keys' = {})
  <1>1. PICK known \in IF loaded THEN {keys} ELSE Scans :
          /\ keys' = known
          /\ IF loaded THEN overlooked' = overlooked ELSE Overlook(Markers \ known)
          /\ pc' = "review" => Marked(batch') \cap known = {}
    <2>1. (IF single THEN rest ELSE <<>>) \in Seq(Suggestions)
      BY DEF Types
    <2> QED
      BY <2>1, FilterDoes, Goes
  <1>2. /\ pc = "filter" /\ posted' = posted /\ \A f : Copies(f)' = Copies(f)
        /\ \A f \in MarkersOf(Comments) : Copies(f) \in Nat /\ overlooked[f] \in Nat
    BY SameCopies, CopiesNat DEF Filter, Types
  <1>3. Bounded
    BY DEF CountInv, Bounded
  <1>4. CASE loaded
    <2>1. AllSpare /\ keys' = keys /\ overlooked' = overlooked
      BY <1>1, <1>2, <1>4 DEF CountInv, AllSpare
    <2> QED
      BY <1>1, <1>2, <1>3, <2>1 DEF AllSpare, Spare, Bounded
  <1>5. CASE ~loaded
    <2>1. \A f \in MarkersOf(Comments) :
            overlooked'[f] = overlooked[f] + (IF f \in Markers \ known THEN 1 ELSE 0)
      BY <1>1, <1>5, Overlooks DEF Types
    <2>2. ASSUME NEW f \in MarkersOf(Comments), f \notin known
          PROVE  Copies(f)' =< overlooked'[f]
      <3>1. CASE f \in Markers
        BY <1>2, <1>3, <2>1, <2>2, <3>1 DEF Bounded
      <3>2. CASE f \notin Markers
        BY <1>2, <2>1, <2>2, <3>2, NoCopies DEF Types
      <3> QED
        BY <3>1, <3>2
    <2>3. \A f \in MarkersOf(Comments) : Copies(f)' =< 1 + overlooked'[f]
      BY <1>2, <1>3, <2>1 DEF Bounded
    <2> QED
      BY <1>1, <2>2, <2>3 DEF AllSpare, Spare, Bounded
  <1> QED
    BY <1>4, <1>5

LEMMA PostedBatchCounts ==
  ASSUME Types, BatchInv, Finite, CountInv, pc = "review",
         Post({Full(s) : s \in Elements(batch)}),
         \/ keys' = keys \cup Marked(batch) /\ overlooked' = overlooked
         \/ keys' = keys /\ Overlook(Marked(batch))
  PROVE  Finite' /\ AllSpare' /\ Bounded'
  <1>1. Elements(batch) \subseteq Suggestions /\ Apart(batch)
    BY ElementsIn DEF Types, BatchInv
  <1>2. /\ Finite'
        /\ \A f \in MarkersOf(Comments) :
             /\ Copies(f) \in Nat /\ overlooked[f] \in Nat
             /\ Copies(f)' = Copies(f) + (IF f \in Marked(batch) THEN 1 ELSE 0)
    BY <1>1, PostFull
  <1>3. /\ \A f \in MarkersOf(Comments) : Copies(f) =< 1 + overlooked[f]
        /\ \A f \in MarkersOf(Comments) : f \notin keys => Copies(f) =< overlooked[f]
        /\ Marked(batch) \cap keys = {}
    BY DEF CountInv, Spare, BatchInv
  <1>4. \/ keys' = keys \cup Marked(batch) /\ overlooked' = overlooked
        \/ /\ keys' = keys
           /\ \A f \in MarkersOf(Comments) :
                overlooked'[f] = overlooked[f] + (IF f \in Marked(batch) THEN 1 ELSE 0)
    BY Overlooks DEF Types
  <1>5. ASSUME NEW f \in MarkersOf(Comments)
        PROVE  (f \notin keys' => Copies(f)' =< overlooked'[f]) /\ Copies(f)' =< 1 + overlooked'[f]
    BY <1>2, <1>3, <1>4
  <1> QED
    BY <1>2, <1>5 DEF AllSpare, Spare, Bounded

LEMMA GroupCounts ==
  ASSUME Types, BatchInv, SingleInv, Finite, CountInv, Group
  PROVE  /\ Finite' /\ Bounded' /\ (single' => AllSpare')
         /\ Marked(invalid') \cap keys' = {} /\ \A f \in Marked(invalid') : Spare(f)'
  <1>1. /\ pc = "verify" /\ keys' = keys /\ overlooked' = overlooked /\ single' = single
        /\ invalid' = invalid \/ invalid' = <<>>
        /\ posted' = posted \/ Post({Full(s) : s \in Elements(verified)})
    BY DEF Group, ToFix, store
  <1>2. /\ Elements(batch) \subseteq Suggestions /\ Apart(batch)
        /\ Elements(verified) \subseteq Elements(batch) /\ Elements(invalid) \subseteq Elements(batch)
        /\ Elements(verified) \cap Elements(invalid) = {} /\ Elements(verified) \subseteq Valid
    BY <1>1, ElementsIn DEF Types, BatchInv, Falling
  <1>3. /\ Marked(verified) \subseteq Marked(batch) /\ Marked(invalid) \subseteq Marked(batch)
        /\ Marked(batch) \subseteq MarkersOf(Comments)
    BY <1>2, ApartDisjoint, MarkedIn
  <1>4. /\ Finite'
        /\ \A f \in MarkersOf(Comments) : Copies(f) \in Nat /\ overlooked[f] \in Nat
        /\ \/ \A f \in MarkersOf(Comments) : Copies(f)' = Copies(f)
           \/ \A f \in MarkersOf(Comments) :
                Copies(f)' = Copies(f) + (IF f \in Marked(verified) THEN 1 ELSE 0)
    <2>1. CASE posted' = posted
      BY <2>1, SameCopies, CopiesNat DEF Types
    <2>2. CASE Post({Full(s) : s \in Elements(verified)})
      BY <1>2, <2>2, PostFull
    <2> QED
      BY <1>1, <2>1, <2>2
  <1>5. /\ \A f \in MarkersOf(Comments) : Copies(f) =< 1 + overlooked[f]
        /\ \A f \in MarkersOf(Comments) : f \notin keys => Copies(f) =< overlooked[f]
        /\ Marked(batch) \cap keys = {}
    BY <1>1, <1>2 DEF CountInv, Spare, BatchInv, Falling
  <1>6. Marked(invalid') \subseteq Marked(invalid)
    BY <1>1, EmptyList
  <1>7. Marked(invalid) \cap Marked(verified) = {}
    <2> SUFFICES ASSUME NEW f \in Marked(invalid), f \in Marked(verified) PROVE FALSE
      OBVIOUS
    <2>1. PICK s \in Elements(invalid) : f \in Prints(s)
      BY MarkedHas
    <2>2. PICK u \in Elements(verified) : f \in Prints(u)
      BY MarkedHas
    <2> QED
      BY <1>2, <2>1, <2>2 DEF Apart, Prints
  <1>8. Bounded'
    BY <1>1, <1>3, <1>4, <1>5 DEF Bounded
  <1>9. ASSUME single' PROVE AllSpare'
    <2>1. Elements(verified) = {}
      BY <1>1, <1>2, <1>9 DEF SingleInv, Falling
    <2>2. Marked(verified) = {}
      BY <2>1, MarkedHas
    <2> QED
      BY <1>1, <1>4, <1>5, <2>2 DEF AllSpare, Spare
  <1>10. ASSUME NEW f \in Marked(invalid') PROVE f \notin keys' /\ Spare(f)'
    BY <1>1, <1>3, <1>4, <1>5, <1>6, <1>7, <1>10 DEF Spare
  <1> QED
    BY <1>4, <1>8, <1>9, <1>10

LEMMA FixCounts ==
  ASSUME Types, BatchInv, SingleInv, Finite, CountInv, Fix, Short = {} \/ ~TryFix
  PROVE  /\ Finite' /\ Bounded' /\ (single' => AllSpare')
         /\ Marked(invalid') \cap keys' = {} /\ \A f \in Marked(invalid') : Spare(f)'
  <1> DEFINE s == Head(invalid)
             b == BodyFp(Fixed(s))
  <1>1. /\ pc = "fix" /\ invalid # <<>> /\ invalid' = Tail(invalid) /\ single' = single
        /\ \/ /\ Post({Fixed(s)})
              /\ \/ keys' = keys \cup Fingerprints(Fixed(s)) /\ overlooked' = overlooked
                 \/ Overlook(Fingerprints(Fixed(s))) /\ keys' = keys
           \/ UNCHANGED <<posted, keys, overlooked>>
    BY DEF Fix, Remaining
  <1>2. Short = {}
    BY <1>1 DEF SingleInv
  <1>3. /\ Elements(batch) \subseteq Suggestions /\ Apart(batch) /\ Once(invalid)
        /\ Elements(invalid) \subseteq Elements(batch)
    BY <1>1, ElementsIn DEF Types, BatchInv, Falling
  <1>4. /\ s \in Elements(invalid) /\ s \in Suggestions /\ s \notin Elements(invalid')
        /\ Elements(invalid') \subseteq Elements(invalid)
    BY <1>1, <1>3, HeadAndTail DEF Types
  <1>5. /\ Fixed(s) \in Comments /\ Fingerprints(Fixed(s)) = {b} /\ b \in Prints(s)
        /\ b \in MarkersOf(Comments)
    BY <1>2, <1>4, CommentsAre, MarkersHave
  <1> HIDE DEF s, b
  <1>6. b \in Marked(invalid) /\ Marked(invalid') \subseteq Marked(invalid)
    BY <1>4, <1>5, MarkedHas
  <1>7. b \notin Marked(invalid')
    <2> SUFFICES ASSUME b \in Marked(invalid') PROVE FALSE
      OBVIOUS
    <2>1. PICK u \in Elements(invalid') : b \in Prints(u)
      BY MarkedHas
    <2> QED
      BY <1>3, <1>4, <1>5, <2>1 DEF Apart, Prints
  <1>8. /\ \A f \in MarkersOf(Comments) : Copies(f) =< 1 + overlooked[f]
        /\ \A f \in Marked(invalid) : f \notin keys /\ Copies(f) =< overlooked[f]
        /\ single => \A f \in MarkersOf(Comments) : f \notin keys => Copies(f) =< overlooked[f]
    BY <1>1 DEF CountInv, Spare
  <1>9. Marked(invalid) \subseteq MarkersOf(Comments)
    BY <1>3, MarkedIn
  <1>10. CASE UNCHANGED <<posted, keys, overlooked>>
    BY <1>1, <1>6, <1>8, <1>9, <1>10, SameCopies DEF Bounded, AllSpare, Spare
  <1>11. CASE /\ Post({Fixed(s)})
              /\ \/ keys' = keys \cup {b} /\ overlooked' = overlooked
                 \/ Overlook({b}) /\ keys' = keys
    <2>1. /\ Finite'
          /\ \A f \in MarkersOf(Comments) :
               /\ Copies(f) \in Nat /\ overlooked[f] \in Nat
               /\ Copies(f)' = Copies(f) + (IF f = b THEN 1 ELSE 0)
      <3>1. {Fixed(s)} \in SUBSET Comments /\ Disjoint({Fixed(s)})
        BY <1>5 DEF Disjoint
      <3>2. MarkersOf({Fixed(s)}) = {b}
        BY <1>5 DEF MarkersOf
      <3> QED
        BY <1>11, <3>1, <3>2, PostCounts DEF Types
    <2>2. \/ keys' = keys \cup {b} /\ overlooked' = overlooked
          \/ /\ keys' = keys
             /\ \A f \in MarkersOf(Comments) :
                  overlooked'[f] = overlooked[f] + (IF f = b THEN 1 ELSE 0)
      BY <1>11, Overlooks DEF Types
    <2>3. Bounded'
      BY <1>5, <1>6, <1>8, <1>9, <2>1, <2>2 DEF Bounded
    <2>4. single' => AllSpare'
      BY <1>1, <1>8, <2>1, <2>2 DEF AllSpare, Spare
    <2>5. ASSUME NEW f \in Marked(invalid') PROVE f \notin keys' /\ Spare(f)'
      <3>1. f # b /\ f \in Marked(invalid) /\ f \in MarkersOf(Comments)
        BY <1>6, <1>7, <1>9, <2>5
      <3> QED
        BY <3>1, <1>8, <2>1, <2>2 DEF Spare
    <2> QED
      BY <2>1, <2>3, <2>4, <2>5
  <1> QED
    BY <1>1, <1>5, <1>10, <1>11

LEMMA CountStep ==
  ASSUME Types, BatchInv, SingleInv, Finite, CountInv, Short = {} \/ ~TryFix,
         [PublishNext]_publishVars
  PROVE  Finite' /\ CountInv'
  <1> DEFINE more == IF single THEN rest ELSE <<>>
  <1>0. more \in Seq(Suggestions) /\ <<>> \in Seq(Suggestions) /\ rest \in Seq(Suggestions)
    BY DEF Types
  <1>b. Bounded /\ \A f \in MarkersOf(Comments) : Copies(f) \in Nat /\ overlooked[f] \in Nat
    BY CopiesNat DEF CountInv, Bounded, Types
  <1>s. \* Nothing is posted or overlooked.
        ASSUME posted' = posted, overlooked' = overlooked
        PROVE  Finite' /\ Bounded' /\ \A f : (Spare(f) /\ keys' = keys) => Spare(f)'
    BY <1>b, <1>s, SameCopies DEF Bounded, Spare
  <1>g. ASSUME NEW q \in Seq(Suggestions), Continue(q), Bounded', AllSpare' \/ q = <<>>
        PROVE  CountInv'
    <2>1. pc' \in {"idle", "filter"} /\ (q = <<>> => pc' = "idle")
      BY <1>g, Goes DEF Continue
    <2> QED
      BY <1>g, <2>1 DEF CountInv, Bounded, AllSpare
  <1> HIDE DEF more
  <1>1. ASSUME NEW list \in Lists, StartRun(list) PROVE Finite' /\ CountInv'
    BY <1>1, <1>s DEF StartRun, CountInv, Bounded
  <1>2. CASE Filter
    <2>1. AllSpare' /\ Bounded' /\ (pc' = "review" => Marked(batch') \cap keys' = {})
      BY <1>2, FilterCounts
    <2>2. Finite'
      BY <1>2, SameCopies DEF Filter
    <2>3. pc' = "review" \/ Continue(more)
      BY <1>2, FilterDoes DEF more
    <2> QED
      BY <1>0, <1>g, <2>1, <2>2, <2>3 DEF CountInv, AllSpare, Bounded
  <1>3. CASE ReviewPosted \/ ReviewLost
    <2>1. Finite' /\ AllSpare' /\ Bounded'
      BY <1>3, PostedBatchCounts DEF ReviewPosted, ReviewLost, run, store
    <2>2. Continue(more) \/ Continue(rest)
      BY <1>3 DEF ReviewPosted, ReviewLost, more
    <2> QED
      BY <1>0, <1>g, <2>1, <2>2
  <1>4. CASE ReviewRejected
    <2>1. /\ pc = "review" /\ pc' = "verify"
          /\ UNCHANGED <<posted, keys, loaded, batch, single, overlooked>>
      BY <1>4 DEF ReviewRejected, store, run
    <2>2. AllSpare /\ Marked(batch) \cap keys = {}
      BY <2>1 DEF CountInv, AllSpare, BatchInv
    <2> QED
      BY <1>s, <2>1, <2>2 DEF CountInv, AllSpare, Bounded
  <1>5. CASE ReviewFails
    <2>1. /\ pc = "review" /\ Continue(rest) /\ UNCHANGED <<posted, keys, loaded, overlooked>>
      BY <1>5 DEF ReviewFails, store
    <2>2. AllSpare
      BY <2>1 DEF CountInv, AllSpare, BatchInv
    <2>3. AllSpare'
      BY <1>s, <2>1, <2>2 DEF AllSpare
    <2> QED
      BY <1>0, <1>g, <1>s, <2>1, <2>3
  <1>7. CASE Verify
    <2>1. /\ pc = "verify" /\ pc' = "verify"
          /\ UNCHANGED <<posted, keys, loaded, batch, single, overlooked>>
      BY <1>7 DEF Verify, store
    <2> QED
      BY <1>s, <2>1 DEF CountInv, Bounded
  <1>8. CASE Group
    <2>1. pc' = "fix"
      BY <1>8 DEF Group
    <2> QED
      BY <1>8, <2>1, GroupCounts DEF CountInv, AllSpare, Bounded
  <1>9. CASE Fix
    <2>1. pc' = "fix"
      BY <1>9 DEF Fix
    <2> QED
      BY <1>9, <2>1, FixCounts DEF CountInv, AllSpare, Bounded
  <1>10. CASE FallbackDone
    <2>1. /\ pc = "fix" /\ Continue(more) /\ UNCHANGED <<posted, keys, loaded, overlooked>>
      BY <1>10 DEF FallbackDone, more, store, run
    <2>2. AllSpare \/ more = <<>>
      BY <2>1 DEF CountInv, AllSpare, more
    <2>3. AllSpare' \/ more = <<>>
      BY <1>s, <2>1, <2>2 DEF AllSpare
    <2> QED
      BY <1>0, <1>g, <1>s, <2>1, <2>3
  <1>11. CASE Crash
    BY <1>0, <1>g, <1>s, <1>11 DEF Crash
  <1>12. CASE UNCHANGED publishVars
    BY <1>s, <1>12 DEF publishVars, store, fallback, run, CountInv, Bounded
  <1> QED
    BY <1>1, <1>2, <1>3, <1>4, <1>5, <1>7, <1>8, <1>9, <1>10, <1>11, <1>12 DEF PublishNext
LEMMA CopiesOfOne ==
  ASSUME NEW c, NEW n \in Nat
  PROVE  IsFiniteSet({c} \X (1 .. n)) /\ Cardinality({c} \X (1 .. n)) = n
  <1>1. IsFiniteSet({c}) /\ Cardinality({c}) = 1
    BY FS_Singleton
  <1>2. IsFiniteSet(1 .. n) /\ Cardinality(1 .. n) = n
    BY FS_Interval
  <1>3. /\ IsFiniteSet({c} \X (1 .. n))
        /\ Cardinality({c} \X (1 .. n)) = Cardinality({c}) * Cardinality(1 .. n)
    BY <1>1, <1>2, FS_Product
  <1> QED
    BY <1>1, <1>2, <1>3

LEMMA CountsEnough ==
  ASSUME Types, Finite, CountInv, SingleInv, Short = {} \/ ~TryFix
  PROVE  NothingRepeated
  <1>1. UniqueMarkers
    BY MarkersIn DEF CountInv, UniqueMarkers
  <1>2. ASSUME NEW s \in Suggestions
        PROVE  posted[Full(s)] + posted[Fixed(s)] =< 1 + overlooked[BodyFp(Full(s))]
    <2> DEFINE b == BodyFp(Full(s))
               n == posted[Full(s)]
               m == posted[Fixed(s)]
               A == {Full(s)} \X (1 .. n)
               B == {Fixed(s)} \X (1 .. m)
               C == CopiesOf(b, posted)
    <2>1. /\ Full(s) \in Comments /\ Fixed(s) \in Comments /\ Full(s) # Fixed(s)
          /\ b \in Fingerprints(Full(s)) /\ b \in MarkersOf(Comments)
          /\ Short = {} => b \in Fingerprints(Fixed(s))
      <3>1. /\ Full(s) \in Comments /\ Fixed(s) \in Comments /\ Full(s) # Fixed(s)
            /\ b \in Fingerprints(Full(s))
            /\ Short = {} => b \in Fingerprints(Fixed(s))
        BY CommentsAre DEF Prints
      <3> HIDE DEF b
      <3> QED
        BY <3>1, MarkersHave
    <2>2. n \in Nat /\ m \in Nat /\ overlooked[b] \in Nat
      BY <2>1 DEF Types
    <2>3. IsFiniteSet(C) /\ Cardinality(C) \in Nat /\ Cardinality(C) =< 1 + overlooked[b]
      BY <2>1, CopiesNat DEF Finite, CountInv, Copies
    <2>4. /\ IsFiniteSet(A) /\ Cardinality(A) = n
          /\ IsFiniteSet(B) /\ Cardinality(B) = m
      <3> HIDE DEF n, m
      <3> QED
        BY <2>2, CopiesOfOne
    <2>5. A \subseteq C
      BY <2>1 DEF CopiesOf
    <2>6. CASE Short = {}
      <3>1. B \subseteq C
        BY <2>1, <2>6 DEF CopiesOf
      <3>2. A \cap B = {}
        BY <2>1
      <3> HIDE DEF A, B, C, n, m, b
      <3>3. IsFiniteSet(A \cup B) /\ Cardinality(A \cup B) = n + m - Cardinality({})
        BY <2>4, <3>2, FS_Union
      <3>4. Cardinality(A \cup B) = n + m
        BY <2>2, <3>3, FS_EmptySet
      <3>5. A \cup B \in SUBSET C
        BY <2>5, <3>1
      <3>6. Cardinality(A \cup B) =< Cardinality(C)
        BY <2>3, <3>5, FS_Subset
      <3>7. n + m =< 1 + overlooked[b]
        BY <2>2, <2>3, <3>4, <3>6
      <3> QED
        BY <3>7 DEF n, m, b
    <2>7. CASE ~TryFix
      <3>1. m = 0
        BY <2>7 DEF SingleInv
      <3> HIDE DEF A, B, C, n, m, b
      <3>2. Cardinality(A) =< Cardinality(C)
        BY <2>3, <2>5, FS_Subset
      <3>3. n + m =< 1 + overlooked[b]
        BY <2>2, <2>3, <2>4, <3>1, <3>2
      <3> QED
        BY <3>3 DEF n, m, b
    <2> QED
      BY <2>6, <2>7
  <1> QED
    BY <1>1, <1>2 DEF NothingRepeated

CountAll == Types /\ BatchInv /\ SingleInv /\ Finite /\ CountInv

LEMMA CountStart ==
  ASSUME PublishInit
  PROVE  CountAll
  <1>1. Types
    BY TypeStart
  <1>2. /\ pc = "idle" /\ queue = <<>> /\ verified = <<>> /\ invalid = <<>> /\ single = FALSE
        /\ \A c \in Comments : posted[c] = 0
        /\ \A f \in MarkersOf(Comments) : overlooked[f] = 0
    BY DEF PublishInit
  <1>3. BatchInv
    BY <1>2 DEF BatchInv, Falling
  <1>4. SingleInv
    BY <1>2, CommentsAre DEF SingleInv, Falling
  <1>5. Markers = {}
    BY <1>2 DEF Markers, MarkersOf, Present
  <1>6. \A f \in MarkersOf(Comments) : Copies(f) = 0 /\ IsFiniteSet(CopiesOf(f, posted))
    BY <1>1, <1>5, NoCopies DEF Types
  <1>7. Finite /\ CountInv
    BY <1>2, <1>6 DEF Finite, CountInv
  <1> QED
    BY <1>1, <1>3, <1>4, <1>7 DEF CountAll

\* A suggestion is on the pull request no more often than it was overlooked
\* and once more, as it is or fixed, over any number of runs, rejections, lost
\* answers and restarts; if a fixed comment keeps the fingerprint of its prose
\* (80 characters of it come before the code), or none is fixed.
THEOREM RepeatedNever == Short = {} \/ ~TryFix => (PublishSpec => []NothingRepeated)
  <1> SUFFICES ASSUME Short = {} \/ ~TryFix PROVE PublishSpec => []NothingRepeated
    OBVIOUS
  <1>1. PublishInit => CountAll
    BY CountStart
  <1>2. CountAll /\ [PublishNext]_publishVars => CountAll'
    <2> SUFFICES ASSUME CountAll, [PublishNext]_publishVars PROVE CountAll'
      OBVIOUS
    <2>0. Types /\ BatchInv /\ SingleInv /\ Finite /\ CountInv
      BY DEF CountAll
    <2>1. Types' /\ BatchInv' /\ SingleInv'
      BY <2>0, TypeStep, BatchStep, SingleStep
    <2>2. Finite' /\ CountInv'
      BY <2>0, CountStep
    <2> QED
      BY <2>1, <2>2 DEF CountAll
  <1>3. CountAll => NothingRepeated
    BY CountsEnough DEF CountAll
  <1> QED
    BY <1>1, <1>2, <1>3, PTL DEF PublishSpec
-----------------------------------------------------------------------------
(* Nothing is held back by a comment that was not posted, and what GitHub  *)
(* accepts arrives.                                                        *)

\* No step takes a comment back.
LEMMA Grows ==
  ASSUME Types, [PublishNext]_publishVars
  PROVE  \A c \in Comments : posted[c] \in Nat /\ posted'[c] \in Nat /\ posted[c] =< posted'[c]
  <1>1. posted' = posted \/ \E cs : Post(cs)
    BY DEF PublishNext, publishVars, StartRun, Filter, ReviewPosted, ReviewRejected, ReviewFails,
           ReviewLost, Verify, Group, Fix, FallbackDone, Crash
  <1>2. CASE posted' = posted
    BY <1>2 DEF Types
  <1>3. ASSUME NEW cs, Post(cs)
        PROVE  \A c \in Comments : posted[c] \in Nat /\ posted'[c] \in Nat /\ posted[c] =< posted'[c]
    <2>1. posted \in [Comments -> Nat] /\ posted' \in [Comments -> Nat]
      BY <1>3, Posts DEF Types
    <2>2. \A c \in Comments : posted'[c] = IF c \in cs THEN posted[c] + 1 ELSE posted[c]
      BY <1>3, <2>1, Posts
    <2> QED
      BY <2>1, <2>2
  <1> QED
    BY <1>1, <1>2, <1>3

LEMMA PrintsPosted ==
  ASSUME NEW c \in Comments, posted[c] > 0
  PROVE  Fingerprints(c) \subseteq Markers
  BY MarkersHave DEF Markers, Present

LEMMA MarkersGrow ==
  ASSUME Types, [PublishNext]_publishVars
  PROVE  Markers \subseteq Markers'
  <1> SUFFICES ASSUME NEW f \in Markers PROVE f \in Markers'
    OBVIOUS
  <1>1. PICK c \in Comments : posted[c] > 0 /\ f \in Fingerprints(c)
    BY MarkersHave DEF Markers, Present
  <1>2. posted'[c] > 0
    BY <1>1, Grows
  <1> QED
    BY <1>1, <1>2 DEF Markers, MarkersOf, Present

LEMMA PostedMarkers ==
  ASSUME Types, NEW cs \in SUBSET Comments, Post(cs)
  PROVE  (\A c \in cs : posted'[c] > 0) /\ MarkersOf(cs) \subseteq Markers'
  <1>1. \A c \in cs : posted'[c] > 0
    BY Posts DEF Types
  <1>2. ASSUME NEW f \in MarkersOf(cs) PROVE f \in Markers'
    <2>1. PICK c \in cs : f \in Fingerprints(c)
      BY MarkersHave
    <2> QED
      BY <1>1, <2>1 DEF Markers, MarkersOf, Present
  <1> QED
    BY <1>1, <1>2

LEMMA PostedFull ==
  ASSUME Types, NEW q, Elements(q) \subseteq Suggestions, Post({Full(s) : s \in Elements(q)})
  PROVE  Marked(q) \subseteq Markers' /\ \A s \in Elements(q) : posted'[Full(s)] > 0
  <1> DEFINE cs == {Full(s) : s \in Elements(q)}
  <1>1. cs \in SUBSET Comments
    BY CommentsAre
  <1>2. MarkersOf(cs) = Marked(q) /\ Post(cs) /\ \A s \in Elements(q) : Full(s) \in cs
    BY DEF Marked
  <1> HIDE DEF cs
  <1> QED
    BY <1>1, <1>2, PostedMarkers

LEMMA StoreStep ==
  ASSUME Types, StoreSound, [PublishNext]_publishVars
  PROVE  StoreSound'
  <1>0. Markers \subseteq Markers' /\ keys \subseteq Markers
    BY MarkersGrow DEF StoreSound
  <1>1. CASE keys' \subseteq keys
    BY <1>0, <1>1 DEF StoreSound
  <1>2. CASE Filter
    <2>1. \E known \in IF loaded THEN {keys} ELSE Scans : keys' = known
      BY <1>2, FilterDoes
    <2>2. keys' \subseteq Markers
      BY <1>0, <2>1, KnownAre
    <2> QED
      BY <1>0, <2>2 DEF StoreSound
  <1>3. CASE ReviewPosted
    <2>1. Marked(batch) \subseteq Markers'
      BY <1>3, PostedFull, ElementsIn DEF ReviewPosted, Types
    <2> QED
      BY <1>0, <1>3, <2>1 DEF ReviewPosted, StoreSound
  <1>4. CASE Fix
    <2> DEFINE s == Head(invalid)
    <2>1. s \in Suggestions
      BY <1>4, HeadAndTail DEF Fix, Types
    <2>2. \/ Post({Fixed(s)}) /\ keys' = keys \cup Fingerprints(Fixed(s))
          \/ keys' = keys
      BY <1>4 DEF Fix
    <2> HIDE DEF s
    <2>3. CASE Post({Fixed(s)}) /\ keys' = keys \cup Fingerprints(Fixed(s))
      <3>1. MarkersOf({Fixed(s)}) = Fingerprints(Fixed(s)) /\ {Fixed(s)} \in SUBSET Comments
        BY <2>1, CommentsAre DEF MarkersOf
      <3>2. MarkersOf({Fixed(s)}) \subseteq Markers'
        BY <2>3, <3>1, PostedMarkers
      <3> QED
        BY <1>0, <2>3, <3>1, <3>2 DEF StoreSound
    <2> QED
      BY <1>1, <2>2, <2>3
  <1> QED
    BY <1>1, <1>2, <1>3, <1>4
       DEF PublishNext, publishVars, store, StartRun, ReviewRejected, ReviewFails, ReviewLost,
           Verify, Group, FallbackDone, Crash

\* What is represented remains so, and so does what is settled.
LEMMA Remains ==
  ASSUME Types, [PublishNext]_publishVars, offered' = offered
  PROVE  /\ AllRepresented => AllRepresented'
         /\ Standing /\ batch' = batch => Standing'
         /\ \A u \in Suggestions : Settled(u) => Settled(u)'
  <1>1. /\ Markers \subseteq Markers' /\ Elements(offered) \subseteq Suggestions
        /\ \A s \in Suggestions : /\ posted[Full(s)] > 0 => posted'[Full(s)] > 0
                                  /\ posted[Fixed(s)] > 0 => posted'[Fixed(s)] > 0
    <2>1. Markers \subseteq Markers' /\ Elements(offered) \subseteq Suggestions
      BY MarkersGrow, ElementsIn DEF Types
    <2>2. \A c \in Comments : posted[c] > 0 => posted'[c] > 0
      <3>1. \A c \in Comments : posted[c] \in Nat /\ posted'[c] \in Nat /\ posted[c] =< posted'[c]
        BY Grows
      <3> QED
        BY <3>1
    <2>3. \A s \in Suggestions : Full(s) \in Comments /\ Fixed(s) \in Comments
      BY CommentsAre
    <2> QED
      BY <2>1, <2>2, <2>3
  <1>2. ASSUME NEW s \in Elements(offered), Represented(s) PROVE Represented(s)'
    <2>1. CASE Fingerprints(Full(s)) \cap Markers # {}
      <3>1. (Fingerprints(Full(s)) \cap Markers # {})'
        BY <1>1, <2>1
      <3> QED
        BY <3>1 DEF Represented
    <2>2. CASE posted[Fixed(s)] > 0
      <3>1. (posted[Fixed(s)] > 0)'
        BY <1>1, <1>2, <2>2
      <3> QED
        BY <3>1 DEF Represented
    <2>3. CASE \E u \in Elements(offered) : Replaces(u, s)
      <3>1. PICK u \in Elements(offered) : Replaces(u, s)
        BY <2>3
      <3>2. Replaces(u, s)'
        BY <1>1, <3>1 DEF Replaces
      <3> QED
        BY <3>1, <3>2 DEF Represented
    <2> QED
      BY <1>2, <2>1, <2>2, <2>3 DEF Represented
  <1>3. AllRepresented => AllRepresented'
    BY <1>2 DEF AllRepresented
  <1>4. Standing /\ batch' = batch => Standing'
    BY <1>1 DEF Standing
  <1>5. \A u \in Suggestions : Settled(u) => Settled(u)'
    BY <1>1 DEF Settled
  <1> QED
    BY <1>3, <1>4, <1>5
LEMMA OfferStep ==
  ASSUME Types, BatchInv, StoreSound, OfferInv, [PublishNext]_publishVars
  PROVE  OfferInv'
  <1> DEFINE more == IF single THEN rest ELSE <<>>
  <1>0. /\ more \in Seq(Suggestions) /\ <<>> \in Seq(Suggestions) /\ rest \in Seq(Suggestions)
        /\ Elements(batch) \subseteq Suggestions /\ Elements(offered) \subseteq Suggestions
    BY ElementsIn DEF Types
  <1>r. \* Once all are represented, nothing is owed.
        ASSUME AllRepresented', single' \/ pc' = "idle"
        PROVE  OfferInv'
    BY <1>r DEF OfferInv, Falling
  <1>c. ASSUME AllRepresented', NEW q \in Seq(Suggestions), Continue(q)
        PROVE  OfferInv'
    <2>1. single' \/ pc' = "idle"
      BY <1>c, Goes
    <2> QED
      BY <1>c, <1>r, <2>1
  <1>s. ASSUME ~faulty, single, offered' = offered PROVE AllRepresented'
    BY <1>s, Remains DEF OfferInv
  <1>p. \* What shares a fingerprint with a posted comment is represented.
        ASSUME Standing, \A u \in Elements(batch) : Prints(u) \subseteq Markers', offered' = offered
        PROVE  AllRepresented'
    <2>1. Markers \subseteq Markers'
      BY MarkersGrow
    <2>2. ASSUME NEW s \in Elements(offered) PROVE (Fingerprints(Full(s)) \cap Markers # {})'
      BY <1>p, <2>1, <2>2 DEF Standing, Prints
    <2> QED
      BY <1>p, <2>2 DEF AllRepresented, Represented
  <1> HIDE DEF more
  <1>1. ASSUME NEW list \in Lists, StartRun(list) PROVE OfferInv'
    BY <1>1 DEF StartRun, OfferInv, Falling
  <1>2. CASE faulty'
    BY <1>2 DEF OfferInv
  <1>3. CASE Filter
    <2>1. pc = "filter" /\ posted' = posted /\ offered' = offered /\ faulty' = faulty
      BY <1>3 DEF Filter
    <2>2. PICK known \in IF loaded THEN {keys} ELSE Scans :
            \/ /\ pc' = "review" /\ single' = single
               /\ Elements(batch') \subseteq Elements(batch)
               /\ \A s \in Elements(batch) : Prints(s) \cap (known \cup Marked(batch')) # {}
            \/ /\ Continue(more)
               /\ \A s \in Elements(batch) : Prints(s) \cap known # {}
      BY <1>3, FilterDoes DEF more
    <2>3. known \subseteq Markers'
      BY <2>2, KnownAre, MarkersGrow DEF StoreSound
    <2>4. CASE ~faulty /\ single
      <3>1. AllRepresented'
        BY <1>s, <2>1, <2>4
      <3>2. single' \/ pc' = "idle"
        BY <1>0, <2>2, <2>4, Goes
      <3> QED
        BY <1>r, <3>1, <3>2
    <2>5. CASE ~faulty /\ ~single
      <3>1. batch = offered
        BY <2>1, <2>5 DEF OfferInv
      <3>2. CASE /\ Continue(more)
                 /\ \A s \in Elements(batch) : Prints(s) \cap known # {}
        <4>1. ASSUME NEW s \in Elements(offered) PROVE (Fingerprints(Full(s)) \cap Markers # {})'
          BY <2>3, <3>1, <3>2, <4>1 DEF Prints
        <4>2. AllRepresented'
          BY <2>1, <4>1 DEF AllRepresented, Represented
        <4> QED
          BY <1>0, <1>c, <3>2, <4>2
      <3>3. CASE /\ pc' = "review" /\ single' = single
                 /\ Elements(batch') \subseteq Elements(batch)
                 /\ \A s \in Elements(batch) : Prints(s) \cap (known \cup Marked(batch')) # {}
        <4>1. ASSUME NEW s \in Elements(offered)
              PROVE  \/ (Fingerprints(Full(s)) \cap Markers # {})'
                     \/ \E u \in Elements(batch') : Prints(u) \cap Prints(s) # {}
          <5>1. PICK f \in Prints(s) : f \in known \cup Marked(batch')
            BY <3>1, <3>3
          <5>2. CASE f \in known
            BY <2>3, <5>1, <5>2 DEF Prints
          <5>3. CASE f \in Marked(batch')
            BY <5>1, <5>3, MarkedHas
          <5> QED
            BY <5>1, <5>2, <5>3
        <4>2. Standing'
          BY <2>1, <4>1 DEF Standing, Prints
        <4> QED
          BY <2>1, <2>5, <3>1, <3>3, <4>2 DEF OfferInv, Falling
      <3> QED
        BY <2>2, <3>2, <3>3
    <2> QED
      BY <1>2, <2>1, <2>4, <2>5
  <1>4. CASE ReviewPosted \/ ReviewLost
    <2>1. /\ pc = "review" /\ Post({Full(s) : s \in Elements(batch)})
          /\ offered' = offered /\ faulty' = faulty
          /\ Continue(more) \/ Continue(rest)
      BY <1>4 DEF ReviewPosted, ReviewLost, run, more
    <2>2. Marked(batch) \subseteq Markers'
      BY <1>0, <2>1, PostedFull
    <2>3. \A u \in Elements(batch) : Prints(u) \subseteq Markers'
      BY <2>2, MarkedHas
    <2>4. ~faulty => AllRepresented'
      <3>1. CASE single
        BY <1>s, <2>1, <3>1
      <3>2. CASE ~faulty /\ ~single
        <4>1. Standing
          BY <2>1, <3>2 DEF OfferInv
        <4> QED
          BY <1>p, <2>1, <2>3, <4>1
      <3> QED
        BY <3>1, <3>2
    <2> QED
      BY <1>0, <1>2, <1>c, <2>1, <2>4
  <1>5. CASE ReviewFails \/ Crash
    BY <1>2, <1>5 DEF ReviewFails, Crash
  <1>6. CASE ReviewRejected
    <2>1. /\ pc = "review" /\ pc' = "verify" /\ queue' = batch
          /\ UNCHANGED <<posted, batch, single, offered, faulty>>
      BY <1>6 DEF ReviewRejected, store, run
    <2>2. CASE ~faulty /\ single
      BY <1>r, <1>s, <2>1, <2>2
    <2>3. CASE ~faulty /\ ~single
      <3>1. Elements(batch) \subseteq Elements(offered) /\ Standing'
        BY <2>1, <2>3, Remains DEF OfferInv
      <3> QED
        BY <2>1, <2>3, <3>1 DEF OfferInv, Falling
    <2> QED
      BY <1>2, <2>1, <2>2, <2>3
  <1>7. CASE Verify
    <2> DEFINE s == Head(queue)
    <2>1. /\ pc = "verify" /\ pc' = "verify" /\ queue # <<>> /\ queue' = Tail(queue)
          /\ UNCHANGED <<posted, batch, single, offered>>
          /\ \/ /\ s \in Valid /\ verified' = Append(verified, s)
                /\ UNCHANGED <<invalid, faulty>>
             \/ /\ invalid' = Append(invalid, s) /\ verified' = verified
                /\ faulty' = (faulty \/ s \in Valid)
      BY <1>7 DEF Verify, Remaining
    <2>2. /\ s \in Suggestions /\ Elements(queue) = Elements(queue') \cup {s}
      BY <2>1, HeadAndTail DEF Types
    <2>3. /\ Elements(Append(verified, s)) = Elements(verified) \cup {s}
          /\ Elements(Append(invalid, s)) = Elements(invalid) \cup {s}
      BY <2>2, Appended DEF Types
    <2> HIDE DEF s
    <2>4. CASE ~faulty' /\ single
      <3>1. ~faulty
        BY <2>1, <2>4
      <3> QED
        BY <1>r, <1>s, <2>1, <2>4, <3>1
    <2>5. CASE ~faulty' /\ ~single
      <3>1. ~faulty /\ (s \in Elements(verified') \/ (s \in Elements(invalid') /\ s \notin Valid))
            /\ Elements(verified) \subseteq Elements(verified')
            /\ Elements(invalid) \subseteq Elements(invalid')
        <4>1. CASE s \in Valid /\ verified' = Append(verified, s) /\ UNCHANGED <<invalid, faulty>>
          <5>1. verified' = Append(verified, s) /\ invalid' = invalid /\ faulty' = faulty
            BY <4>1
          <5>2. Elements(verified') = Elements(verified) \cup {s}
                /\ Elements(invalid') = Elements(invalid)
            BY <2>3, <5>1
          <5> QED
            BY <2>5, <5>1, <5>2
        <4>2. CASE /\ invalid' = Append(invalid, s) /\ verified' = verified
                   /\ faulty' = (faulty \/ s \in Valid)
          <5>1. ~faulty /\ s \notin Valid
            BY <2>5, <4>2
          <5>2. Elements(invalid') = Elements(invalid) \cup {s}
                /\ Elements(verified') = Elements(verified)
            BY <2>3, <4>2
          <5> QED
            BY <5>1, <5>2
        <4> QED
          BY <2>1, <4>1, <4>2
      <3>2. Elements(batch) \subseteq Elements(offered) /\ Standing'
        BY <2>1, <2>5, <3>1, Remains DEF OfferInv
      <3>3. ASSUME NEW u \in Elements(batch)
            PROVE  \/ Settled(u)'
                   \/ u \in Elements(queue') \cup Elements(verified')
                   \/ u \in Elements(invalid') /\ u \notin Valid
        <4>1. \/ Settled(u) \/ u \in Elements(queue) \cup Elements(verified)
              \/ u \in Elements(invalid) /\ u \notin Valid
          BY <2>1, <2>5, <3>1 DEF OfferInv, Falling
        <4>2. Settled(u) => Settled(u)'
          BY <1>0, <2>1, Remains
        <4> QED
          BY <2>2, <3>1, <4>1, <4>2
      <3> QED
        BY <2>1, <2>5, <3>2, <3>3 DEF OfferInv, Falling
    <2> QED
      BY <1>2, <2>1, <2>4, <2>5
  <1>8. CASE Group
    <2>1. /\ pc = "verify" /\ pc' = "fix" /\ queue = <<>> /\ queue' = queue /\ verified' = <<>>
          /\ invalid' = ToFix(invalid) /\ UNCHANGED <<batch, single, offered>>
          /\ \/ Post({Full(s) : s \in Elements(verified)}) /\ faulty' = faulty
             \/ faulty' = TRUE
      BY <1>8 DEF Group
    <2>2. CASE ~faulty' /\ single
      <3>1. ~faulty
        BY <2>1, <2>2
      <3> QED
        BY <1>r, <1>s, <2>1, <2>2, <3>1
    <2>3. CASE ~faulty' /\ ~single
      <3>1. ~faulty /\ Post({Full(s) : s \in Elements(verified)}) /\ Elements(queue) = {}
        BY <2>1, <2>3, EmptyList
      <3>2. Elements(batch) \subseteq Elements(offered) /\ Standing'
        BY <2>1, <2>3, <3>1, Remains DEF OfferInv
      <3>3. \A u \in Elements(verified) : Settled(u)'
        <4>1. Elements(verified) \subseteq Suggestions
          BY ElementsIn DEF Types
        <4>2. \A u \in Elements(verified) : posted'[Full(u)] > 0
          BY <3>1, <4>1, PostedFull
        <4> QED
          BY <4>2 DEF Settled
      <3>4. ASSUME NEW u \in Elements(invalid), u \notin Valid
            PROVE  u \in Elements(invalid') \/ Settled(u)'
        <4>1. CASE TryFix
          BY <2>1, <4>1 DEF ToFix
        <4>2. CASE ~TryFix
          BY <3>4, <4>2 DEF Settled, Acceptable
        <4> QED
          BY <4>1, <4>2
      <3>5. ASSUME NEW u \in Elements(batch)
            PROVE  Settled(u)' \/ (u \in Elements(invalid') /\ u \notin Valid)
        <4>1. \/ Settled(u) \/ u \in Elements(queue) \cup Elements(verified)
              \/ u \in Elements(invalid) /\ u \notin Valid
          BY <2>1, <2>3, <3>1 DEF OfferInv, Falling
        <4>2. Settled(u) => Settled(u)'
          BY <1>0, <2>1, Remains
        <4> QED
          BY <3>1, <3>3, <3>4, <4>1, <4>2
      <3> QED
        BY <2>1, <2>3, <3>2, <3>5 DEF OfferInv, Falling
    <2> QED
      BY <1>2, <2>1, <2>2, <2>3
  <1>9. CASE Fix
    <2>0. invalid # <<>> /\ Head(invalid) \in Suggestions
          /\ Elements(invalid) = Elements(Tail(invalid)) \cup {Head(invalid)}
      BY <1>9, HeadAndTail DEF Types, Fix
    <2>s. PICK s \in Suggestions : s = Head(invalid)
      BY <2>0
    <2>1. /\ pc = "fix" /\ pc' = "fix" /\ invalid # <<>> /\ invalid' = Tail(invalid)
          /\ UNCHANGED <<batch, single, offered, queue, verified>>
          /\ \/ Post({Fixed(s)}) /\ faulty' = faulty
             \/ faulty' = (faulty \/ s \in Fixable \cup Valid) /\ posted' = posted
      BY <1>9, <2>s DEF Fix, Remaining
    <2>2. s \in Suggestions /\ Elements(invalid) = Elements(invalid') \cup {s}
      BY <2>0, <2>1, <2>s
    <2>3. CASE ~faulty' /\ single
      <3>1. ~faulty
        BY <2>1, <2>3
      <3> QED
        BY <1>r, <1>s, <2>1, <2>3, <3>1
    <2>4. CASE ~faulty' /\ ~single
      <3>1. ~faulty
        BY <2>1, <2>4
      <3>2. Elements(batch) \subseteq Elements(offered) /\ Standing'
        BY <2>1, <2>4, <3>1, Remains DEF OfferInv
      <3>3. ASSUME s \notin Valid PROVE Settled(s)'
        <4>1. CASE Post({Fixed(s)})
          <5>1. {Fixed(s)} \in SUBSET Comments /\ Fixed(s) \in {Fixed(s)}
            BY <2>2, CommentsAre
          <5>2. (posted[Fixed(s)] > 0)'
            BY <4>1, <5>1, PostedMarkers
          <5> QED
            BY <3>3, <5>2 DEF Settled
        <4>2. CASE s \notin Fixable \cup Valid
          BY <3>3, <4>2 DEF Settled, Acceptable
        <4>3. Post({Fixed(s)}) \/ s \notin Fixable \cup Valid
          BY <2>1, <2>4
        <4> QED
          BY <4>1, <4>2, <4>3
      <3>4. ASSUME NEW u \in Elements(batch)
            PROVE  \/ Settled(u)' \/ u \in Elements(queue') \cup Elements(verified')
                   \/ u \in Elements(invalid') /\ u \notin Valid
        <4>1. \/ Settled(u) \/ u \in Elements(queue) \cup Elements(verified)
              \/ u \in Elements(invalid) /\ u \notin Valid
          BY <2>1, <2>4, <3>1 DEF OfferInv, Falling
        <4>2. Settled(u) => Settled(u)'
          BY <1>0, <2>1, Remains
        <4>3. queue' = queue /\ verified' = verified
          BY <2>1
        <4>4. CASE u = s
          <5>1. Settled(s) \/ s \in Elements(queue) \cup Elements(verified) \/ s \notin Valid
            BY <4>1, <4>4
          <5> QED
            BY <3>3, <4>2, <4>3, <4>4, <5>1
        <4>5. CASE u # s
          BY <2>2, <4>1, <4>2, <4>3, <4>5
        <4> QED
          BY <4>4, <4>5
      <3> QED
        BY <2>1, <2>4, <3>2, <3>4 DEF OfferInv, Falling
    <2> QED
      BY <1>2, <2>1, <2>3, <2>4
  <1>10. CASE FallbackDone
    <2>1. /\ pc = "fix" /\ invalid = <<>> /\ Continue(more)
          /\ UNCHANGED <<posted, offered, faulty>>
      BY <1>10 DEF FallbackDone, run, more
    <2>2. CASE ~faulty /\ single
      BY <1>0, <1>c, <1>s, <2>1, <2>2
    <2>3. CASE ~faulty /\ ~single
      <3>1. Elements(queue) = {} /\ Elements(verified) = {} /\ Elements(invalid) = {}
        BY <2>1, EmptyList DEF BatchInv
      <3>2. /\ Elements(batch) \subseteq Elements(offered) /\ Standing
            /\ \A u \in Elements(batch) : Settled(u)
        BY <2>1, <2>3, <3>1 DEF OfferInv, Falling
      <3>3. ASSUME NEW s \in Elements(offered), Acceptable(s) PROVE Represented(s)
        <4>1. CASE Fingerprints(Full(s)) \cap Markers # {}
          BY <4>1 DEF Represented
        <4>2. ASSUME NEW u \in Elements(batch),
                     Fingerprints(Full(u)) \cap Fingerprints(Full(s)) # {}
              PROVE  Represented(s)
          <5>1. CASE posted[Full(u)] > 0
            <6>1. Fingerprints(Full(u)) \subseteq Markers
              BY <1>0, <5>1, CommentsAre, PrintsPosted
            <6> QED
              BY <4>2, <6>1 DEF Represented
          <5>2. CASE u \notin Valid /\ (Acceptable(u) => posted[Fixed(u)] > 0)
            <6>1. CASE u = s
              BY <3>3, <5>2, <6>1 DEF Represented
            <6>2. CASE u # s
              <7>1. Replaces(u, s) /\ u \in Elements(offered)
                BY <3>2, <4>2, <5>2, <6>2 DEF Replaces
              <7> QED
                BY <7>1 DEF Represented
            <6> QED
              BY <6>1, <6>2
          <5> QED
            BY <3>2, <5>1, <5>2 DEF Settled
        <4> QED
          BY <3>2, <4>1, <4>2 DEF Standing
      <3>4. AllRepresented'
        BY <2>1, <3>3, Remains DEF AllRepresented
      <3> QED
        BY <1>0, <1>c, <2>1, <3>4
    <2> QED
      BY <1>2, <2>1, <2>2, <2>3
  <1>12. CASE UNCHANGED publishVars
    BY <1>12 DEF publishVars, store, fallback, run, OfferInv, Falling, AllRepresented, Represented,
                 Replaces, Standing, Settled, Markers, Present
  <1> QED
    BY <1>1, <1>3, <1>4, <1>5, <1>6, <1>7, <1>8, <1>9, <1>10, <1>12 DEF PublishNext

LostAll == Types /\ BatchInv /\ StoreSound /\ OfferInv

\* What the filter knows is on the pull request, so a suggestion that was not
\* posted may be offered again; and after a run without failures every
\* suggestion GitHub can accept is represented, whatever the lists repeat.
THEOREM LostNever == PublishSpec => []NothingLost
  <1>1. PublishInit => LostAll
    <2> SUFFICES ASSUME PublishInit PROVE LostAll
      OBVIOUS
    <2>1. Types /\ BatchInv
      BY CountStart DEF CountAll
    <2>2. keys = {} /\ offered = <<>> /\ pc = "idle" /\ single = FALSE
      BY DEF PublishInit
    <2>3. Elements(offered) = {}
      BY <2>2, EmptyList
    <2> QED
      BY <2>1, <2>2, <2>3 DEF LostAll, StoreSound, OfferInv, AllRepresented, Falling
  <1>2. LostAll /\ [PublishNext]_publishVars => LostAll'
    <2> SUFFICES ASSUME LostAll, [PublishNext]_publishVars PROVE LostAll'
      OBVIOUS
    <2>1. Types /\ BatchInv /\ StoreSound /\ OfferInv
      BY DEF LostAll
    <2>2. Types' /\ BatchInv' /\ StoreSound' /\ OfferInv'
      BY <2>1, TypeStep, BatchStep, StoreStep, OfferStep
    <2> QED
      BY <2>2 DEF LostAll
  <1>3. LostAll => NothingLost
    BY DEF LostAll, NothingLost, AcceptedArrive, OfferInv
  <1> QED
    BY <1>1, <1>2, <1>3, PTL DEF PublishSpec

-----------------------------------------------------------------------------
(* Mosaico.                                                                *)

Unreported == {"identify", "route", "fetch", "run", "close", "artifact"}

\* Nothing is reported before the tool's run and its span have ended, the
\* first event is an artifact, and a status ends the task.
Reported ==
  /\ at \in Unreported => events = <<>>
  /\ at \in Unreported \cup {"status"} => ~terminal
  /\ at \in {"status", "regret"} => events # <<>>
  /\ at # "done" => \A i \in DOMAIN events : events[i] = "artifact"
  /\ OneOutcome

\* Where the failures are known: a failed tool by its result, a failed span or
\* queue by being in the handler of exceptions.
Known ==
  /\ toolFailed => ~result.ok
  /\ at \in {"identify", "route", "fetch", "run"} => ~toolFailed
  /\ at \in {"excuse", "regret"} => spanFailed \/ queueFailed
  /\ FailuresAreReported

TaskInv == TaskTypeOK /\ Reported /\ Known

TaskEvents == {"artifact"} \cup Status

LEMMA EventAdded ==
  ASSUME NEW s \in Seq(TaskEvents), NEW e \in TaskEvents
  PROVE  /\ Append(s, e) \in Seq(TaskEvents) /\ Append(s, e) # <<>>
         /\ Len(Append(s, e)) = Len(s) + 1
         /\ DOMAIN Append(s, e) = 1 .. Len(s) + 1
         /\ DOMAIN s = 1 .. Len(s) /\ Len(s) \in Nat
         /\ Append(s, e)[Len(s) + 1] = e
         /\ \A i \in 1 .. Len(s) : Append(s, e)[i] = s[i]
         /\ s = <<>> <=> Len(s) = 0
  OBVIOUS

\* A call to the queue adds its event or fails, and that is kept.
LEMMA Enqueues ==
  ASSUME TaskTypeOK, NEW e \in TaskEvents, NEW next \in Places, NEW otherwise \in Places,
         Enqueue(e, next, otherwise)
  PROVE  /\ events' \in Seq(TaskEvents) /\ at' \in Places /\ queueFailed' \in BOOLEAN
         /\ \/ at' = next /\ events' = Append(events, e) /\ queueFailed' = queueFailed
            \/ at' = otherwise /\ events' = events /\ queueFailed'
  <1>1. events \in Seq(TaskEvents) /\ queueFailed \in BOOLEAN
    BY DEF TaskTypeOK, TaskEvents
  <1>2. Append(events, e) \in Seq(TaskEvents)
    BY <1>1
  <1>3. PICK fails \in BOOLEAN :
          /\ queueFailed' = (queueFailed \/ fails)
          /\ events' = IF fails THEN events ELSE Append(events, e)
          /\ at' = IF fails THEN otherwise ELSE next
    BY DEF Enqueue
  <1> QED
    BY <1>1, <1>2, <1>3

\* A final status is refused, or it is one call to the queue.
LEMMA Finals ==
  ASSUME TaskTypeOK, NEW e \in Status, NEW otherwise \in Places, Final(e, otherwise)
  PROVE  /\ events' \in Seq(TaskEvents) /\ at' \in Places /\ queueFailed' \in BOOLEAN
         /\ terminal' = TRUE
         /\ \/ terminal /\ at' = otherwise /\ events' = events /\ queueFailed' = queueFailed
            \/ ~terminal /\ at' = "done" /\ events' = Append(events, e) /\ queueFailed' = queueFailed
            \/ ~terminal /\ at' = otherwise /\ events' = events /\ queueFailed'
  <1>1. /\ events \in Seq(TaskEvents) /\ queueFailed \in BOOLEAN /\ terminal \in BOOLEAN
        /\ e \in TaskEvents /\ "done" \in Places
    BY DEF TaskTypeOK, TaskEvents, Places
  <1>2. CASE terminal
    BY <1>1, <1>2 DEF Final
  <1>3. CASE ~terminal
    <2>1. terminal' = TRUE /\ Enqueue(e, "done", otherwise)
      BY <1>3 DEF Final
    <2> QED
      BY <1>1, <1>3, <2>1, Enqueues
  <1> QED
    BY <1>2, <1>3

TaskKinds == {"none", "guidance", "unfetched", "empty", "artifact", "error"}

LEMMA ResultsAre ==
  ASSUME NEW kind \in TaskKinds
  PROVE  /\ Answered(kind) \in [kind : TaskKinds, ok : BOOLEAN] /\ Answered(kind).ok
         /\ Refused(kind) \in [kind : TaskKinds, ok : BOOLEAN] /\ ~Refused(kind).ok
  BY DEF Answered, Refused

LEMMA TaskTypeStep == TaskTypeOK /\ [TaskNext]_taskVars => TaskTypeOK'
  <1> SUFFICES ASSUME TaskTypeOK, [TaskNext]_taskVars PROVE TaskTypeOK'
    OBVIOUS
  <1>0. /\ text \in Texts /\ identified \in BOOLEAN /\ traced \in BOOLEAN
        /\ at \in Places /\ hops \in 0 .. MaxRedirects + 1 /\ (at = "fetch" => hops <= MaxRedirects)
        /\ (at \in {"identify", "route"} => hops = 0)
        /\ result \in [kind : TaskKinds, ok : BOOLEAN] /\ events \in Seq(TaskEvents)
        /\ terminal \in BOOLEAN /\ toolFailed \in BOOLEAN /\ spanFailed \in BOOLEAN
        /\ queueFailed \in BOOLEAN
    BY DEF TaskTypeOK, TaskKinds, TaskEvents
  <1>t. ASSUME text' = text, identified' = identified, traced' = traced,
               at' \in Places, hops' \in 0 .. MaxRedirects + 1, at' = "fetch" => hops' <= MaxRedirects,
               at' \in {"identify", "route"} => hops' = 0,
               result' \in [kind : TaskKinds, ok : BOOLEAN], events' \in Seq(TaskEvents),
               terminal' \in BOOLEAN, toolFailed' \in BOOLEAN, spanFailed' \in BOOLEAN,
               queueFailed' \in BOOLEAN
        PROVE  TaskTypeOK'
    BY <1>0, <1>t DEF TaskTypeOK, TaskKinds, TaskEvents
  <1>1. CASE Identify
    BY <1>0, <1>1, <1>t DEF Identify, taskInput, faults, Places
  <1>2. CASE Route
    <2>1. result' \in [kind : TaskKinds, ok : BOOLEAN] /\ at' \in {"fetch", "run", "close"}
      BY <1>0, <1>2, ResultsAre DEF Route, Returns, WithoutFiles, TaskKinds
    <2>2. /\ UNCHANGED <<text, identified, traced, hops, events, terminal, toolFailed, spanFailed, queueFailed>>
          /\ at = "route"
      BY <1>2 DEF Route, taskInput, faults
    <2>3. at' \in Places /\ at' \notin {"identify", "route"}
      BY <2>1 DEF Places
    <2> QED
      BY <1>0, <1>t, <2>1, <2>2, <2>3, TaskAssumption
  <1>3. CASE Fetch
    <2>1. PICK answer \in {"blocked", "redirect", "refused", "diff", "diffless"} :
            /\ hops' = IF answer = "blocked" THEN hops ELSE hops + 1
            /\ IF answer = "diff" THEN at' = "run" /\ UNCHANGED result
               ELSE IF answer = "redirect" /\ hops < MaxRedirects THEN UNCHANGED <<at, result>>
               ELSE Returns(IF answer = "diffless" THEN WithoutFiles(TRUE) ELSE Refused("unfetched"))
      BY <1>3 DEF Fetch
    <2>2. result' \in [kind : TaskKinds, ok : BOOLEAN] /\ at' \in {"fetch", "run", "close"}
      BY <1>0, <1>3, <2>1, ResultsAre DEF Fetch, Returns, WithoutFiles, TaskKinds
    <2>3. hops' \in 0 .. MaxRedirects + 1 /\ (at' = "fetch" => hops' <= MaxRedirects)
      <3>1. hops \in Nat /\ hops <= MaxRedirects
        BY <1>0, <1>3 DEF Fetch
      <3>2. CASE answer = "redirect" /\ hops < MaxRedirects
        <4>1. hops' = hops + 1
          BY <2>1, <3>2
        <4> QED
          BY <3>1, <3>2, <4>1, TaskAssumption
      <3>3. CASE ~(answer = "redirect" /\ hops < MaxRedirects)
        <4>1. hops' \in {hops, hops + 1}
          BY <2>1
        <4>2. at' \in {"run", "close"}
          BY <2>1, <3>3 DEF Returns
        <4> QED
          BY <3>1, <4>1, <4>2, TaskAssumption
      <3> QED
        BY <3>2, <3>3
    <2>4. UNCHANGED <<text, identified, traced, events, terminal, toolFailed, spanFailed, queueFailed>>
      BY <1>3 DEF Fetch, taskInput, faults
    <2>5. at' \in Places /\ at' \notin {"identify", "route"}
      BY <2>2 DEF Places
    <2> QED
      BY <1>0, <1>t, <2>2, <2>3, <2>4, <2>5
  <1>4. CASE Run
    <2>1. result' \in [kind : TaskKinds, ok : BOOLEAN] /\ at' = "close" /\ toolFailed' \in BOOLEAN
      BY <1>0, <1>4, ResultsAre DEF Run, Returns, Raised, TaskKinds
    <2> QED
      BY <1>0, <1>4, <1>t, <2>1 DEF Run, taskInput, Places
  <1>5. CASE Close
    <2>1. spanFailed' \in BOOLEAN /\ at' \in {"excuse", "artifact"}
      BY <1>0, <1>5 DEF Close
    <2> QED
      BY <1>0, <1>5, <1>t, <2>1 DEF Close, taskInput, Places
  <1>6. CASE AddArtifact
    <2>1. Enqueue("artifact", "status", "excuse") /\ "artifact" \in TaskEvents
          /\ "status" \in Places /\ "excuse" \in Places
      BY <1>6 DEF AddArtifact, TaskEvents, Places
    <2>2. events' \in Seq(TaskEvents) /\ queueFailed' \in BOOLEAN /\ at' \in {"status", "excuse"}
      BY <2>1, Enqueues
    <2> QED
      BY <1>0, <1>6, <1>t, <2>2 DEF AddArtifact, taskInput, Places
  <1>7. CASE Report
    <2>1. PICK e \in Status : Final(e, "excuse")
      BY <1>7 DEF Report, Status
    <2>2. "excuse" \in Places
      BY DEF Places
    <2>3. /\ events' \in Seq(TaskEvents) /\ queueFailed' \in BOOLEAN /\ terminal' = TRUE
          /\ at' \in {"done", "excuse"}
      BY <2>1, <2>2, Finals
    <2> QED
      BY <1>0, <1>7, <1>t, <2>3 DEF Report, taskInput, Places
  <1>8. CASE Excuse
    <2>1. Enqueue("artifact", "regret", "raised") /\ "artifact" \in TaskEvents
          /\ "regret" \in Places /\ "raised" \in Places
      BY <1>8 DEF Excuse, TaskEvents, Places
    <2>2. events' \in Seq(TaskEvents) /\ queueFailed' \in BOOLEAN /\ at' \in {"regret", "raised"}
      BY <2>1, Enqueues
    <2> QED
      BY <1>0, <1>8, <1>t, <2>2 DEF Excuse, taskInput, Places
  <1>9. CASE Regret
    <2>1. Final("failed", "raised") /\ "failed" \in Status /\ "raised" \in Places
      BY <1>9 DEF Regret, Status, Places
    <2>2. /\ events' \in Seq(TaskEvents) /\ queueFailed' \in BOOLEAN /\ terminal' = TRUE
          /\ at' \in {"done", "raised"}
      BY <2>1, Finals
    <2> QED
      BY <1>0, <1>9, <1>t, <2>2 DEF Regret, taskInput, Places
  <1>10. CASE UNCHANGED taskVars
    BY <1>0, <1>10, <1>t DEF taskVars
  <1> QED
    BY <1>1, <1>2, <1>3, <1>4, <1>5, <1>6, <1>7, <1>8, <1>9, <1>10 DEF TaskNext

LEMMA ReportedStep == TaskTypeOK /\ Reported /\ [TaskNext]_taskVars => Reported'
  <1> SUFFICES ASSUME TaskTypeOK, Reported, [TaskNext]_taskVars PROVE Reported'
    OBVIOUS
  <1>0. /\ events \in Seq(TaskEvents) /\ terminal \in BOOLEAN
        /\ at \in Unreported => events = <<>>
        /\ at \in Unreported \cup {"status"} => ~terminal
        /\ at \in {"status", "regret"} => events # <<>>
        /\ at # "done" => \A i \in DOMAIN events : events[i] = "artifact"
        /\ OneOutcome
    BY DEF TaskTypeOK, TaskEvents, Reported
  \* The report goes on as it is.
  <1>e. ASSUME events' = events, at # "done", at' \in Unreported => events = <<>>,
               at' \in Unreported \cup {"status"} => ~terminal', at' \in {"status", "regret"} => events # <<>>
        PROVE  Reported'
    BY <1>0, <1>e DEF Reported, OneOutcome
  \* An artifact is added.
  <1>a. ASSUME events' = Append(events, "artifact"), at # "done",
               (at' = "status" /\ ~terminal') \/ at' = "regret"
        PROVE  Reported'
    <2>1. /\ events' # <<>> /\ DOMAIN events' = 1 .. Len(events) + 1 /\ DOMAIN events = 1 .. Len(events)
          /\ events'[Len(events) + 1] = "artifact" /\ Len(events) \in Nat
          /\ \A i \in 1 .. Len(events) : events'[i] = events[i]
      BY <1>0, <1>a, EventAdded DEF TaskEvents
    <2>2. \A i \in DOMAIN events' : events'[i] = "artifact"
      BY <1>0, <1>a, <2>1
    <2>3. OneOutcome'
      BY <2>1, <2>2 DEF OneOutcome, Status
    <2> QED
      BY <1>a, <2>1, <2>2, <2>3 DEF Reported, Unreported
  \* A status is added, and ends the task.
  <1>s. ASSUME NEW e \in Status, events' = Append(events, e), at \in {"status", "regret"}, at' = "done"
        PROVE  Reported'
    <2>1. /\ events' # <<>> /\ DOMAIN events' = 1 .. Len(events) + 1 /\ DOMAIN events = 1 .. Len(events)
          /\ Len(events') = Len(events) + 1 /\ Len(events) \in Nat /\ Len(events) # 0
          /\ \A i \in 1 .. Len(events) : events'[i] = events[i]
      BY <1>0, <1>s, EventAdded DEF TaskEvents
    <2>2. \A i \in 1 .. Len(events) : events'[i] = "artifact"
      BY <1>0, <1>s, <2>1
    <2>3. events'[1] = "artifact"
      BY <2>1, <2>2
    <2>4. ASSUME NEW i \in DOMAIN events', events'[i] \in Status
          PROVE  i = Len(events')
      <3>1. events'[i] # "artifact"
        BY <2>4 DEF Status
      <3> QED
        BY <2>1, <2>2, <2>4, <3>1
    <2>5. OneOutcome'
      BY <2>3, <2>4 DEF OneOutcome
    <2> QED
      BY <1>s, <2>1, <2>5 DEF Reported, Unreported
  <1>1. CASE Identify
    BY <1>0, <1>1, <1>e DEF Identify, Unreported
  <1>2. CASE Route
    <2>1. at = "route" /\ at' \in Unreported /\ events' = events /\ terminal' = terminal
      BY <1>2 DEF Route, Returns, Unreported
    <2> QED
      BY <1>0, <1>e, <2>1 DEF Unreported
  <1>3. CASE Fetch
    <2>1. at = "fetch" /\ at' \in Unreported /\ events' = events /\ terminal' = terminal
      BY <1>3 DEF Fetch, Returns, Unreported
    <2> QED
      BY <1>0, <1>e, <2>1 DEF Unreported
  <1>4. CASE Run
    <2>1. at = "run" /\ at' = "close" /\ events' = events /\ terminal' = terminal
      BY <1>4 DEF Run, Returns
    <2> QED
      BY <1>0, <1>e, <2>1 DEF Unreported
  <1>5. CASE Close
    <2>1. at = "close" /\ at' \in {"excuse", "artifact"} /\ events' = events /\ terminal' = terminal
      BY <1>5 DEF Close
    <2> QED
      BY <1>0, <1>e, <2>1 DEF Unreported
  <1>6. CASE AddArtifact
    <2>1. /\ at = "artifact" /\ terminal' = terminal /\ "artifact" \in TaskEvents
          /\ Enqueue("artifact", "status", "excuse") /\ "status" \in Places /\ "excuse" \in Places
      BY <1>6 DEF AddArtifact, TaskEvents, Places
    <2>2. \/ at' = "status" /\ events' = Append(events, "artifact")
          \/ at' = "excuse" /\ events' = events
      BY <2>1, Enqueues
    <2>3. ~terminal
      BY <1>0, <2>1 DEF Unreported
    <2> QED
      BY <1>a, <1>e, <2>1, <2>2, <2>3 DEF Unreported
  <1>7. CASE Report
    <2>1. at = "status" /\ "excuse" \in Places
      BY <1>7 DEF Report, Places
    <2>2. PICK e \in Status : Final(e, "excuse")
      BY <1>7 DEF Report, Status
    <2>3. \/ at' = "excuse" /\ events' = events
          \/ at' = "done" /\ events' = Append(events, e)
      BY <2>1, <2>2, Finals
    <2> QED
      BY <1>e, <1>s, <2>1, <2>3 DEF Unreported
  <1>8. CASE Excuse
    <2>1. /\ at = "excuse" /\ "artifact" \in TaskEvents
          /\ Enqueue("artifact", "regret", "raised") /\ "regret" \in Places /\ "raised" \in Places
      BY <1>8 DEF Excuse, TaskEvents, Places
    <2>2. \/ at' = "regret" /\ events' = Append(events, "artifact")
          \/ at' = "raised" /\ events' = events
      BY <2>1, Enqueues
    <2> QED
      BY <1>a, <1>e, <2>1, <2>2 DEF Unreported
  <1>9. CASE Regret
    <2>1. at = "regret" /\ "raised" \in Places /\ "failed" \in Status /\ Final("failed", "raised")
      BY <1>9 DEF Regret, Places, Status
    <2>2. \/ at' = "raised" /\ events' = events
          \/ at' = "done" /\ events' = Append(events, "failed")
      BY <2>1, Finals
    <2> QED
      BY <1>e, <1>s, <2>1, <2>2 DEF Unreported
  <1>10. CASE UNCHANGED taskVars
    BY <1>10 DEF taskVars, Reported, OneOutcome
  <1> QED
    BY <1>1, <1>2, <1>3, <1>4, <1>5, <1>6, <1>7, <1>8, <1>9, <1>10 DEF TaskNext

LEMMA KnownStep == TaskTypeOK /\ Reported /\ Known /\ Reported' /\ [TaskNext]_taskVars => Known'
  <1> SUFFICES ASSUME TaskTypeOK, Reported, Known, Reported', [TaskNext]_taskVars PROVE Known'
    OBVIOUS
  <1>0. /\ events \in Seq(TaskEvents) /\ toolFailed \in BOOLEAN /\ spanFailed \in BOOLEAN
        /\ queueFailed \in BOOLEAN /\ terminal \in BOOLEAN
        /\ at # "done" => \A i \in DOMAIN events : events[i] = "artifact"
        /\ at = "status" => ~terminal
        /\ at' # "done" => \A i \in DOMAIN events' : events'[i] = "artifact"
        /\ toolFailed => ~result.ok
        /\ at \in {"identify", "route", "fetch", "run"} => ~toolFailed
        /\ at \in {"excuse", "regret"} => spanFailed \/ queueFailed
    BY DEF TaskTypeOK, TaskEvents, Reported, Known
  \* Before the status there is nothing to be wrong about.
  <1>u. ASSUME at' # "done", toolFailed' => ~result'.ok,
               at' \in {"identify", "route", "fetch", "run"} => ~toolFailed',
               at' \in {"excuse", "regret"} => spanFailed' \/ queueFailed'
        PROVE  Known'
    <2>1. ~HasStatus("completed")' /\ ~HasStatus("failed")'
      BY <1>0, <1>u DEF HasStatus
    <2>2. FailuresAreReported'
      BY <2>1 DEF FailuresAreReported
    <2> QED
      BY <1>u, <2>2 DEF Known
  \* The status, of a run whose outcome is known.
  <1>s. ASSUME NEW e \in Status, events' = Append(events, e), at \in {"status", "regret"}, at' = "done",
               UNCHANGED <<result, toolFailed, spanFailed, queueFailed>>,
               e = "completed" => result.ok,
               e = "failed" => ~result.ok \/ spanFailed \/ queueFailed
        PROVE  Known'
    <2>1. /\ DOMAIN events' = 1 .. Len(events) + 1 /\ DOMAIN events = 1 .. Len(events) /\ Len(events) \in Nat
          /\ events'[Len(events) + 1] = e
          /\ \A i \in 1 .. Len(events) : events'[i] = events[i]
      BY <1>0, <1>s, EventAdded DEF TaskEvents
    <2>2. ASSUME NEW i \in DOMAIN events', events'[i] \in Status
          PROVE  events'[i] = e
      <3>1. events'[i] # "artifact"
        BY <2>2 DEF Status
      <3> QED
        BY <1>0, <1>s, <2>1, <2>2, <3>1
    <2>3. \A x \in Status : HasStatus(x)' => x = e
      BY <2>2 DEF HasStatus
    <2>4. FailuresAreReported'
      BY <1>0, <1>s, <2>3 DEF FailuresAreReported, Status
    <2> QED
      BY <1>0, <1>s, <2>4 DEF Known
  <1>1. CASE Identify
    <2>1. at' \in {"route", "raised"} /\ at = "identify" /\ result' = result /\ toolFailed' = toolFailed
      BY <1>1 DEF Identify, faults
    <2> QED
      BY <1>0, <1>u, <2>1
  <1>2. CASE Route
    <2>1. at = "route" /\ at' \in {"fetch", "run", "close"} /\ toolFailed' = toolFailed
      BY <1>2 DEF Route, Returns, faults
    <2> QED
      BY <1>0, <1>u, <2>1
  <1>3. CASE Fetch
    <2>1. at = "fetch" /\ at' \in {"fetch", "run", "close"} /\ toolFailed' = toolFailed
      BY <1>3 DEF Fetch, Returns, faults
    <2> QED
      BY <1>0, <1>u, <2>1
  <1>4. CASE Run
    <2>1. PICK how \in {"artifact", "empty", "raises"} :
            /\ Returns(IF how = "raises" THEN Raised(work.verb) ELSE Answered(how))
            /\ toolFailed' = (how = "raises")
      BY <1>4 DEF Run
    <2>2. at' = "close" /\ (toolFailed' => ~result'.ok)
      BY <2>1, ResultsAre DEF Returns, Raised, TaskKinds
    <2> QED
      BY <1>u, <2>2
  <1>5. CASE Close
    <2>1. /\ at' \in {"excuse", "artifact"} /\ (at' = "excuse" => spanFailed')
          /\ result' = result /\ toolFailed' = toolFailed
      BY <1>5 DEF Close
    <2> QED
      BY <1>0, <1>u, <2>1
  <1>6. CASE AddArtifact
    <2>1. /\ result' = result /\ toolFailed' = toolFailed /\ "artifact" \in TaskEvents
          /\ Enqueue("artifact", "status", "excuse") /\ "status" \in Places /\ "excuse" \in Places
      BY <1>6 DEF AddArtifact, TaskEvents, Places
    <2>2. at' = "status" \/ (at' = "excuse" /\ queueFailed')
      BY <2>1, Enqueues
    <2> QED
      BY <1>0, <1>u, <2>1, <2>2
  <1>7. CASE Report
    <2>1. /\ at = "status" /\ UNCHANGED <<result, toolFailed, spanFailed>> /\ "excuse" \in Places
          /\ Final(IF result.ok THEN "completed" ELSE "failed", "excuse")
      BY <1>7 DEF Report, Places
    <2>2. PICK e \in Status : Final(e, "excuse") /\ e = IF result.ok THEN "completed" ELSE "failed"
      BY <2>1 DEF Status
    <2>3. \/ at' = "excuse" /\ queueFailed'
          \/ at' = "done" /\ events' = Append(events, e) /\ queueFailed' = queueFailed
      BY <1>0, <2>1, <2>2, Finals
    <2> QED
      BY <1>0, <1>s, <1>u, <2>1, <2>2, <2>3
  <1>8. CASE Excuse
    <2>1. /\ at = "excuse" /\ UNCHANGED <<result, toolFailed, spanFailed>> /\ "artifact" \in TaskEvents
          /\ Enqueue("artifact", "regret", "raised") /\ "regret" \in Places /\ "raised" \in Places
      BY <1>8 DEF Excuse, TaskEvents, Places
    <2>2. at' \in {"regret", "raised"} /\ (queueFailed' = queueFailed \/ queueFailed')
      BY <2>1, Enqueues
    <2> QED
      BY <1>0, <1>u, <2>1, <2>2
  <1>9. CASE Regret
    <2>1. /\ at = "regret" /\ UNCHANGED <<result, toolFailed, spanFailed>>
          /\ Final("failed", "raised") /\ "failed" \in Status /\ "raised" \in Places
      BY <1>9 DEF Regret, Places, Status
    <2>2. \/ at' = "raised"
          \/ at' = "done" /\ events' = Append(events, "failed") /\ queueFailed' = queueFailed
      BY <2>1, Finals
    <2> QED
      BY <1>0, <1>s, <1>u, <2>1, <2>2
  <1>10. CASE UNCHANGED taskVars
    BY <1>10 DEF taskVars, faults, Known, FailuresAreReported, HasStatus, Reported, OneOutcome
  <1> QED
    BY <1>1, <1>2, <1>3, <1>4, <1>5, <1>6, <1>7, <1>8, <1>9, <1>10 DEF TaskNext

LEMMA TaskStart == TaskInit => TaskInv
  <1> SUFFICES ASSUME TaskInit PROVE TaskInv
    OBVIOUS
  <1>1. TaskTypeOK
    <2>1. hops \in 0 .. MaxRedirects + 1 /\ (at = "fetch" => hops <= MaxRedirects)
      BY TaskAssumption DEF TaskInit
    <2>2. at \in Places /\ events \in Seq({"artifact"} \cup Status)
      BY DEF TaskInit, Places, Status
    <2>3. result \in [kind : {"none", "guidance", "unfetched", "empty", "artifact", "error"}, ok : BOOLEAN]
      BY DEF TaskInit, Refused
    <2> QED
      BY <2>1, <2>2, <2>3 DEF TaskInit, TaskTypeOK
  <1>2. Reported
    BY DEF TaskInit, Reported, OneOutcome, Unreported
  <1>3. Known
    BY DEF TaskInit, Known, FailuresAreReported, HasStatus, Refused
  <1> QED
    BY <1>1, <1>2, <1>3 DEF TaskInv

LEMMA TaskStep == TaskInv /\ [TaskNext]_taskVars => TaskInv'
  BY TaskTypeStep, ReportedStep, KnownStep DEF TaskInv

\* Types of a task of the MOSAICO agent; it asks for a diff at most once more
\* than it may be redirected.
THEOREM TaskTypeCorrect == TaskSpec => []TaskTypeOK
  <1>1. TaskInv => TaskTypeOK
    BY DEF TaskInv
  <1> QED
    BY <1>1, TaskStart, TaskStep, PTL DEF TaskSpec

\* The SDK is given an artifact first and nothing after a status, on every
\* path through execute() and its handler, whatever the queue refuses.
THEOREM OutcomeOnce == TaskSpec => []OneOutcome
  <1>1. TaskInv => OneOutcome
    BY DEF TaskInv, Reported
  <1> QED
    BY <1>1, TaskStart, TaskStep, PTL DEF TaskSpec

\* A tool that failed is never reported as completed, and a run that went well
\* is reported as failed only when its span or the queue failed.
THEOREM FailuresReported == TaskSpec => []FailuresAreReported
  <1>1. TaskInv => FailuresAreReported
    BY DEF TaskInv, Known
  <1> QED
    BY <1>1, TaskStart, TaskStep, PTL DEF TaskSpec

\* The first and the last of some numbers.
LEMMA FirstAndLast ==
  ASSUME NEW S \in SUBSET Int, IsFiniteSet(S), S # {}
  PROVE  /\ Min(S) \in S /\ \A i \in S : Min(S) <= i
         /\ Max(S) \in S /\ \A i \in S : i <= Max(S)
  <1> DEFINE c == Cardinality(S)
             up == Ascending(S)
  <1>1. c \in Nat /\ c # 0
    BY FS_CardinalityType, FS_EmptySet
  <1>2. /\ up \in [1 .. c -> S]
        /\ \A i \in S : Rank(S, i) + 1 \in 1 .. c /\ up[Rank(S, i) + 1] = i
        /\ \A m, n \in 1 .. c : m < n => up[m] < up[n]
    BY Ascends
  <1> HIDE DEF c, up
  <1>3. 1 \in 1 .. c /\ c \in 1 .. c /\ up[1] \in S /\ up[c] \in S
    BY <1>1, <1>2
  <1>4. ASSUME NEW i \in S
        PROVE  up[1] <= i /\ i <= up[c]
    <2>1. PICK m \in 1 .. c : up[m] = i
      BY <1>2
    <2>2. (m = 1 \/ 1 < m) /\ (m = c \/ m < c)
      BY <1>1
    <2>3. up[1] = i \/ up[1] < i
      BY <1>2, <1>3, <2>1, <2>2
    <2>4. up[c] = i \/ i < up[c]
      BY <1>2, <1>3, <2>1, <2>2
    <2>5. up[1] \in Int /\ up[c] \in Int /\ i \in Int
      BY <1>3
    <2> QED
      BY <2>3, <2>4, <2>5
  <1>5. Min(S) \in S /\ \A i \in S : Min(S) <= i
    BY <1>3, <1>4 DEF Min
  <1>6. \E i \in S : \A j \in S : i >= j
    <2>1. \A j \in S : up[c] >= j
      <3>1. \A j \in S : j \in Int /\ up[c] \in Int
        BY <1>3
      <3> QED
        BY <1>4, <3>1
    <2> QED
      BY <1>3, <2>1
  <1>7. Max(S) \in S /\ \A i \in S : Max(S) >= i
    BY <1>6 DEF Max
  <1>8. \A i \in S : i <= Max(S)
    <2>1. \A i \in S : i \in Int /\ Max(S) \in Int
      BY <1>7
    <2> QED
      BY <1>7, <2>1
  <1> QED
    BY <1>5, <1>7, <1>8

\* There is one of each.
LEMMA LeastIs ==
  ASSUME NEW S \in SUBSET Int, IsFiniteSet(S), NEW k \in S, \A i \in S : k <= i
  PROVE  Min(S) = k
  <1>1. Min(S) \in S /\ \A i \in S : Min(S) <= i
    BY FirstAndLast
  <1>2. Min(S) \in Int /\ k \in Int /\ Min(S) <= k /\ k <= Min(S)
    BY <1>1
  <1> QED
    BY <1>2

LEMMA GreatestIs ==
  ASSUME NEW S \in SUBSET Int, IsFiniteSet(S), NEW k \in S, \A i \in S : i <= k
  PROVE  Max(S) = k
  <1>1. Max(S) \in S /\ \A i \in S : i <= Max(S)
    BY FirstAndLast
  <1>2. Max(S) \in Int /\ k \in Int /\ Max(S) <= k /\ k <= Max(S)
    BY <1>1
  <1> QED
    BY <1>2

\* Some turns, the newest first: the first that has something is the last of all
\* that have it.
NewestIn(S, k) == Ascending(S)[Cardinality(S) + 1 - k]
NewestWith(S, T) == {k \in 1 .. Cardinality(S) : NewestIn(S, k) \in T}

LEMMA NewestIsLast ==
  ASSUME NEW V, NEW s \in Seq(V), NEW S \in SUBSET DOMAIN s, NEW T \in SUBSET S, T # {}
  PROVE  LET list == NewestFirst(Picked(s, S))
         IN /\ DOMAIN list = 1 .. Cardinality(S)
            /\ \A k \in 1 .. Cardinality(S) : NewestIn(S, k) \in S /\ list[k] = s[NewestIn(S, k)]
            /\ NewestWith(S, T) # {} /\ list[Min(NewestWith(S, T))] = s[Max(T)]
            /\ list[1] = s[Max(S)]
  <1> DEFINE c == Cardinality(S)
             up == Ascending(S)
             picked == Picked(s, S)
             list == NewestFirst(picked)
             have == {k \in 1 .. c : up[c + 1 - k] \in T}
  <1>1. S \in SUBSET Int /\ IsFiniteSet(S) /\ T \in SUBSET Int /\ IsFiniteSet(T)
    <2>1. S \in SUBSET Int /\ IsFiniteSet(S)
      BY PositionsType
    <2> QED
      BY <2>1, FS_Subset
  <1>2. c \in Nat /\ c # 0
    BY <1>1, FS_CardinalityType, FS_EmptySet
  <1>3. /\ up \in [1 .. c -> S]
        /\ \A i \in S : Rank(S, i) + 1 \in 1 .. c /\ up[Rank(S, i) + 1] = i
        /\ \A m, n \in 1 .. c : m < n => up[m] < up[n]
    BY <1>1, Ascends
  <1>4. /\ picked \in Seq(V) /\ Len(picked) = c
        /\ \A n \in 1 .. c : picked[n] = s[up[n]]
    BY PickedType
  <1> HIDE DEF c, up, picked
  <1>5. /\ list = [k \in 1 .. c |-> picked[(c - k) + 1]]
    BY <1>4 DEF NewestFirst, Reverse
  <1>6. /\ DOMAIN list = 1 .. c /\ Len(list) = c
    BY <1>2, <1>5
  <1>7. \A k \in 1 .. c : c + 1 - k \in 1 .. c /\ (c - k) + 1 = c + 1 - k
    BY <1>2
  <1>8. \A k \in 1 .. c : up[c + 1 - k] \in S /\ list[k] = s[up[c + 1 - k]]
    BY <1>3, <1>4, <1>5, <1>7
  <1> HIDE DEF list
  <1>9. \A R \in SUBSET S : R # {} =>
          \E k \in 1 .. c : up[c + 1 - k] = Max(R)
    <2> SUFFICES ASSUME NEW R \in SUBSET S, R # {}
                 PROVE  \E k \in 1 .. c : up[c + 1 - k] = Max(R)
      OBVIOUS
    <2>1. R \in SUBSET Int /\ IsFiniteSet(R)
      BY <1>1, FS_Subset
    <2>2. Max(R) \in S
      BY <2>1, FirstAndLast
    <2>3. PICK m \in 1 .. c : up[m] = Max(R)
      BY <1>3, <2>2
    <2>4. c + 1 - m \in 1 .. c /\ c + 1 - (c + 1 - m) = m
      BY <1>2
    <2> QED
      BY <2>3, <2>4
  <1>10. PICK k \in 1 .. c : up[c + 1 - k] = Max(T)
    BY <1>9
  <1>11. Max(T) \in T /\ \A i \in T : i <= Max(T)
    BY <1>1, FirstAndLast
  <1>12. k \in have
    BY <1>10, <1>11
  <1>13. ASSUME NEW j \in have
         PROVE  k <= j
    <2>1. j \in 1 .. c /\ up[c + 1 - j] \in T
      OBVIOUS
    <2>2. up[c + 1 - j] <= Max(T)
      BY <1>11, <2>1
    <2>3. j < k => c + 1 - k < c + 1 - j
      BY <1>2, <2>1
    <2>4. j < k => up[c + 1 - k] < up[c + 1 - j]
      BY <1>3, <1>7, <2>1, <2>3
    <2>5. up[c + 1 - j] \in Int /\ Max(T) \in Int
      BY <1>1, <1>11, <2>1
    <2>6. ~(j < k)
      BY <1>10, <2>2, <2>4, <2>5
    <2> QED
      BY <1>2, <2>1, <2>6
  <1>14. have \in SUBSET Int /\ IsFiniteSet(have)
    <2>1. IsFiniteSet(1 .. c)
      BY <1>2, FS_Interval
    <2>2. have \in SUBSET (1 .. c)
      OBVIOUS
    <2>3. have \in SUBSET Int
      OBVIOUS
    <2> HIDE DEF have
    <2> QED
      BY <2>1, <2>2, <2>3, FS_Subset
  <1>15. Min(have) = k
    <2> HIDE DEF have
    <2> QED
      BY <1>12, <1>13, <1>14, LeastIs
  <1>16. list[k] = s[Max(T)]
    BY <1>8, <1>10
  <1>17. list[1] = s[Max(S)]
    <2>1. 1 \in 1 .. c /\ c + 1 - 1 = c
      BY <1>2
    <2>2. up[c] = Max(S)
      <3>1. up[c] \in S
        BY <1>2, <1>3
      <3>2. \A i \in S : i <= up[c]
        <4> SUFFICES ASSUME NEW i \in S PROVE i <= up[c]
          OBVIOUS
        <4>1. PICK m \in 1 .. c : up[m] = i
          BY <1>3
        <4>2. m = c \/ m < c
          BY <1>2
        <4>3. up[c] = i \/ i < up[c]
          BY <1>2, <1>3, <4>1, <4>2
        <4>4. i \in Int /\ up[c] \in Int
          BY <1>1, <3>1
        <4> QED
          BY <4>3, <4>4
      <3> QED
        BY <1>1, <3>1, <3>2, GreatestIs
    <2> QED
      BY <1>8, <2>1, <2>2
  <1>18. have # {} /\ list[Min(have)] = s[Max(T)]
    BY <1>12, <1>15, <1>16
  <1>19. NewestWith(S, T) = have
    BY DEF NewestWith, NewestIn, c, up
  <1>20. \A m \in 1 .. c : NewestIn(S, m) \in S /\ list[m] = s[NewestIn(S, m)]
    BY <1>8 DEF NewestIn, c, up
  <1> HIDE DEF have
  <1>21. /\ DOMAIN list = 1 .. c
         /\ NewestWith(S, T) # {} /\ list[Min(NewestWith(S, T))] = s[Max(T)]
         /\ list[1] = s[Max(S)]
    BY <1>6, <1>17, <1>18, <1>19
  <1> QED
    BY <1>20, <1>21 DEF list, c, picked
NumberedTurns == [user : BOOLEAN, verb : STRING, asks : BOOLEAN, target : STRING, no : Nat]

\* The roles of a text with two turns or more are told apart.
LEMMA TurnsAre ==
  ASSUME NEW t \in Texts, Len(t) >= 2
  PROVE  /\ Turns(t) \in Seq(NumberedTurns) /\ Turns(t) # <<>> /\ Len(t) \in Nat
         /\ DOMAIN Turns(t) = 1 .. Len(t) /\ DOMAIN t = 1 .. Len(t)
         /\ \A i \in 1 .. Len(t) : /\ Turns(t)[i].user = t[i].user /\ Turns(t)[i].verb = t[i].verb
                                  /\ Turns(t)[i].asks = t[i].asks /\ Turns(t)[i].target = t[i].target
                                  /\ Turns(t)[i].no = i
  <1>1. t \in Seq(Segment)
    BY TaskAssumption
  <1>2. Len(t) \in Nat /\ DOMAIN t = 1 .. Len(t) /\ \A i \in 1 .. Len(t) : t[i] \in Segment
    BY <1>1
  <1>3. Turns(t) = [i \in 1 .. Len(t) |-> Numbered(t[i], i)]
    BY <1>2 DEF Turns
  <1>4. \A i \in 1 .. Len(t) : Numbered(t[i], i) \in NumberedTurns
    BY <1>2 DEF Numbered, NumberedTurns, Segment
  <1>5. Turns(t) \in Seq(NumberedTurns) /\ Len(Turns(t)) = Len(t)
    BY <1>2, <1>3, <1>4
  <1>6. Turns(t) # <<>>
    BY <1>2, <1>5
  <1>7. \A i \in 1 .. Len(t) : Turns(t)[i] = Numbered(t[i], i)
    BY <1>3
  <1> QED
    BY <1>2, <1>3, <1>5, <1>6, <1>7 DEF Numbered

\* The target is that of the last turn that has one.
LEMMA TargetIsLast ==
  ASSUME NEW t \in Texts, Len(t) >= 2, {i \in 1 .. Len(t) : t[i].target # "none"} # {}
  PROVE  Target(ContextSegments(t)).no = Max({i \in 1 .. Len(t) : t[i].target # "none"})
  <1> DEFINE n == Len(t)
             turns == Turns(t)
             T == {i \in 1 .. n : t[i].target # "none"}
             D == DOMAIN turns
             list == NewestFirst(turns)
             found == {k \in DOMAIN list : list[k].target # "none"}
  <1>1. /\ turns \in Seq(NumberedTurns) /\ turns # <<>> /\ n \in Nat /\ D = 1 .. n
        /\ \A i \in 1 .. n : turns[i].target = t[i].target /\ turns[i].no = i
    BY TurnsAre
  <1>2. Picked(turns, D) = turns /\ Cardinality(D) = Len(turns) /\ Len(turns) = n
    BY <1>1, PickedAll
  <1>3. ContextSegments(t) = list
    BY <1>1 DEF ContextSegments
  <1> HIDE DEF turns
  <1>4. T \in SUBSET D /\ T # {}
    BY <1>1
  <1> DEFINE have == NewestWith(D, T)
  <1> HIDE DEF T, D
  <1>5. /\ DOMAIN list = 1 .. n
        /\ \A k \in 1 .. n : NewestIn(D, k) \in D /\ list[k] = turns[NewestIn(D, k)]
        /\ have # {} /\ list[Min(have)] = turns[Max(T)]
        /\ have = {k \in 1 .. n : NewestIn(D, k) \in T}
    <2> DEFINE l == NewestFirst(Picked(turns, D))
    <2>1. /\ DOMAIN l = 1 .. Cardinality(D)
          /\ \A k \in 1 .. Cardinality(D) : NewestIn(D, k) \in D /\ l[k] = turns[NewestIn(D, k)]
          /\ NewestWith(D, T) # {} /\ l[Min(NewestWith(D, T))] = turns[Max(T)]
      <3>1. D \in SUBSET DOMAIN turns
        BY DEF D
      <3>9. \A x \in SUBSET DOMAIN turns : \A y \in SUBSET x : y # {} =>
              /\ DOMAIN NewestFirst(Picked(turns, x)) = 1 .. Cardinality(x)
              /\ \A k \in 1 .. Cardinality(x) :
                   NewestIn(x, k) \in x /\ NewestFirst(Picked(turns, x))[k] = turns[NewestIn(x, k)]
              /\ NewestWith(x, y) # {} /\ NewestFirst(Picked(turns, x))[Min(NewestWith(x, y))] = turns[Max(y)]
              /\ NewestFirst(Picked(turns, x))[1] = turns[Max(x)]
        BY <1>1, NewestIsLast
      <3> QED
        BY <1>4, <3>1, <3>9
    <2>2. l = list /\ Cardinality(D) = n
      BY <1>2
    <2>3. have = {k \in 1 .. n : NewestIn(D, k) \in T}
      BY <2>2 DEF NewestWith
    <2> HIDE DEF l, list, have
    <2>4. /\ have # {} /\ list[Min(have)] = turns[Max(T)]
      BY <2>1, <2>2 DEF have
    <2> QED
      BY <2>1, <2>2, <2>3, <2>4
  <1> HIDE DEF list, have
  <1>6. found = have
    <2>1. ASSUME NEW k \in 1 .. n
          PROVE  list[k].target # "none" <=> NewestIn(D, k) \in T
      <3> DEFINE i == NewestIn(D, k)
      <3>1. i \in 1 .. n /\ list[k] = turns[i]
        BY <1>1, <1>5
      <3> HIDE DEF i
      <3>2. turns[i].target = t[i].target
        BY <1>1, <3>1
      <3>3. list[k].target # "none" <=> i \in T
        BY <3>1, <3>2 DEF T
      <3> QED
        BY <3>3 DEF i
    <2> QED
      BY <1>5, <2>1
  <1>7. Target(list).no = list[Min(found)].no
    <2>1. found # {}
      BY <1>5, <1>6
    <2> QED
      BY <2>1 DEF Target
  <1>8. T \in SUBSET Int /\ IsFiniteSet(T)
    <2>1. D \in SUBSET Int /\ IsFiniteSet(D)
      BY <1>1, FS_Interval
    <2> QED
      BY <1>4, <2>1, FS_Subset
  <1>9. Max(T) \in T
    BY <1>4, <1>8, FirstAndLast
  <1>10. turns[Max(T)].no = Max(T)
    BY <1>1, <1>9 DEF T
  <1>11. Target(list).no = Max(T)
    BY <1>5, <1>6, <1>7, <1>10
  <1> QED
    BY <1>3, <1>11 DEF T

\* The verb is that of the user's last command, if the user's last turn is not a
\* question.
LEMMA VerbIsLast ==
  ASSUME NEW t \in Texts, Len(t) >= 2,
         {i \in 1 .. Len(t) : t[i].user /\ (t[i].verb # "none")} # {},
         LET last == t[Max({i \in 1 .. Len(t) : t[i].user})] IN ~(last.asks /\ last.verb = "none")
  PROVE  ResolveVerb(UserSegments(t)) = t[Max({i \in 1 .. Len(t) : t[i].user /\ (t[i].verb # "none")})].verb
  <1> DEFINE n == Len(t)
             turns == Turns(t)
             S == {i \in 1 .. n : t[i].user}
             T == {i \in 1 .. n : t[i].user /\ (t[i].verb # "none")}
             c == Cardinality(S)
             list == NewestFirst(Picked(turns, S))
             spoken == {k \in DOMAIN list : list[k].verb # "none"}
  <1>1. /\ turns \in Seq(NumberedTurns) /\ turns # <<>> /\ n \in Nat /\ DOMAIN turns = 1 .. n
        /\ \A i \in 1 .. n : /\ turns[i].user = t[i].user /\ turns[i].verb = t[i].verb
                            /\ turns[i].asks = t[i].asks
    BY TurnsAre
  <1>2. {i \in DOMAIN turns : turns[i].user} = S
    BY <1>1
  <1>3. T \in SUBSET S /\ T # {} /\ S \in SUBSET DOMAIN turns /\ S # {}
    BY <1>1
  <1>4. UserSegments(t) = list
    BY <1>2, <1>3 DEF UserSegments
  <1> HIDE DEF turns
  <1> DEFINE have == NewestWith(S, T)
  <1>a. /\ \A i \in 1 .. n : i \in T <=> i \in S /\ t[i].verb # "none"
        /\ S \in SUBSET (1 .. n)
    OBVIOUS
  <1>b. ~(t[Max(S)].asks /\ t[Max(S)].verb = "none")
    OBVIOUS
  <1> HIDE DEF T, S
  <1>5. /\ DOMAIN list = 1 .. c
        /\ \A k \in 1 .. c : NewestIn(S, k) \in S /\ list[k] = turns[NewestIn(S, k)]
        /\ have # {} /\ list[Min(have)] = turns[Max(T)]
        /\ list[1] = turns[Max(S)]
        /\ have = {k \in 1 .. c : NewestIn(S, k) \in T}
    <2>1. have = {k \in 1 .. c : NewestIn(S, k) \in T}
      BY DEF NewestWith
    <2>2. /\ DOMAIN list = 1 .. c
          /\ \A k \in 1 .. c : NewestIn(S, k) \in S /\ list[k] = turns[NewestIn(S, k)]
          /\ have # {} /\ list[Min(have)] = turns[Max(T)]
          /\ list[1] = turns[Max(S)]
      <3> HIDE DEF T, S
      <3>9. \A x \in SUBSET DOMAIN turns : \A y \in SUBSET x : y # {} =>
              /\ DOMAIN NewestFirst(Picked(turns, x)) = 1 .. Cardinality(x)
              /\ \A k \in 1 .. Cardinality(x) :
                   NewestIn(x, k) \in x /\ NewestFirst(Picked(turns, x))[k] = turns[NewestIn(x, k)]
              /\ NewestWith(x, y) # {} /\ NewestFirst(Picked(turns, x))[Min(NewestWith(x, y))] = turns[Max(y)]
              /\ NewestFirst(Picked(turns, x))[1] = turns[Max(x)]
        BY <1>1, NewestIsLast
      <3> QED
        BY <1>3, <3>9
    <2> QED
      BY <2>1, <2>2
  <1>6. S \in SUBSET Int /\ IsFiniteSet(S) /\ T \in SUBSET Int /\ IsFiniteSet(T)
    <2>1. S \in SUBSET Int /\ IsFiniteSet(S)
      BY <1>1, <1>3, PositionsType
    <2> QED
      BY <1>3, <2>1, FS_Subset
  <1>7. Max(S) \in S /\ Max(T) \in T /\ \A i \in T : i <= Max(T)
    BY <1>3, <1>6, FirstAndLast
  <1>8. \A i \in S : i <= Max(S)
    BY <1>3, <1>6, FirstAndLast
  <1> HIDE DEF list, c, have
  <1>9. spoken = have
    <2>1. ASSUME NEW k \in 1 .. c
          PROVE  list[k].verb # "none" <=> NewestIn(S, k) \in T
      <3> DEFINE i == NewestIn(S, k)
      <3>1. i \in S /\ list[k] = turns[i]
        BY <1>5
      <3> HIDE DEF i
      <3>2. i \in 1 .. n
        BY <1>a, <3>1
      <3>3. turns[i].verb = t[i].verb
        BY <1>1, <3>2
      <3>4. list[k].verb # "none" <=> i \in T
        BY <1>a, <3>1, <3>2, <3>3
      <3> QED
        BY <3>4 DEF i
    <2> QED
      BY <1>5, <2>1
  <1>10. list[1].verb = t[Max(S)].verb /\ list[1].asks = t[Max(S)].asks
    BY <1>1, <1>5, <1>7, <1>a
  <1>11. turns[Max(T)].verb = t[Max(T)].verb
    BY <1>1, <1>3, <1>7, <1>a
  <1>12. CASE t[Max(S)].verb # "none"
    <2>1. Max(S) \in T
      BY <1>7, <1>12, <1>a
    <2>2. Max(S) = Max(T)
      <3>1. Max(S) <= Max(T) /\ Max(T) <= Max(S) /\ Max(S) \in Int /\ Max(T) \in Int
        BY <1>3, <1>6, <1>7, <1>8, <2>1
      <3> QED
        BY <3>1
    <2>3. ResolveVerb(list) = list[1].verb
      BY <1>10, <1>12 DEF ResolveVerb
    <2> QED
      BY <1>4, <1>10, <2>2, <2>3 DEF T
  <1>13. CASE t[Max(S)].verb = "none"
    <2>1. ~t[Max(S)].asks
      BY <1>13, <1>b
    <2>2. ~(list[1].verb # "none") /\ ~(list[1].verb = "none" /\ list[1].asks)
      BY <1>10, <1>13, <2>1
    <2>3. spoken # {}
      BY <1>5, <1>9
    <2>4. ResolveVerb(list) = list[Min(spoken)].verb
      BY <2>2, <2>3 DEF ResolveVerb
    <2>5. ResolveVerb(list) = t[Max(T)].verb
      BY <1>5, <1>9, <1>11, <2>4
    <2> QED
      BY <1>4, <2>5 DEF T
  <1> QED
    BY <1>12, <1>13

\* What a task works on was found in its text, which does not change.
WorkInv == text \in Texts /\ (work # Nothing => /\ work.segment = Target(ContextSegments(text)).no
                                                /\ work.verb = ResolveVerb(UserSegments(text)))

LEMMA WorkInvStep == WorkInv /\ [TaskNext]_taskVars => WorkInv'
  <1> SUFFICES ASSUME WorkInv, [TaskNext]_taskVars
               PROVE  WorkInv'
    OBVIOUS
  <1>1. CASE Route
    BY <1>1 DEF Route, WorkInv, taskInput
  <1>2. CASE UNCHANGED <<text, work>>
    BY <1>2 DEF WorkInv
  <1>3. CASE ~Route
    <2>1. UNCHANGED <<text, work>>
      BY <1>3 DEF TaskNext, taskVars, taskInput, Identify, Fetch, Run, Close, AddArtifact, Report, Excuse, Regret
    <2> QED
      BY <1>2, <2>1
  <1> QED
    BY <1>1, <1>3

\* In any conversation, a task works on what was mentioned last, whoever said it,
\* and does what its user asked for last, unless the user's last words are a
\* question.
THEOREM TheLatestWins == TaskSpec => []LatestWins
  <1>1. TaskInit => WorkInv
    BY DEF TaskInit, WorkInv
  <1>2. WorkInv => LatestWins
    BY TargetIsLast, VerbIsLast DEF WorkInv, LatestWins
  <1> QED
    BY <1>1, <1>2, WorkInvStep, PTL DEF TaskSpec

-----------------------------------------------------------------------------
(* The runs of the tools.                                                  *)

\* What the end of a run, or a part of it, does to the pull request.
LEMMA AfterIs ==
  ASSUME NEW r, NEW n, NEW own, NEW fails
  PROVE  LET w == After(r, n, own, fails)
             done == Instructions(r, n)
         IN /\ w.comments \subseteq comments \cup {Own(r, "answer")}
            /\ "remove" \in done /\ "remove" \notin fails => Own(r, "announcement") \notin w.comments
            /\ w.labels \in {labels, WithLabels(r, own, fails)}
            /\ "labels" \notin done => w.labels = labels
            /\ w.changelog \in {changelog, seen[r].changelog \cup {r}}
  <1> DEFINE done == Instructions(r, n)
             says == "post" \in done \/ ("push" \in done /\ ~Pushes(r))
             world == [comments |-> comments,
                       labels |-> IF "labels" \in done /\ SetsLabels(r, own, fails) THEN WithLabels(r, own, fails) ELSE labels,
                       changelog |-> IF "push" \in done /\ Pushes(r) THEN seen[r].changelog \cup {r}
                                     ELSE changelog]
             heard == IF says THEN Say(world, r) ELSE world
             w == After(r, n, own, fails)
  <1>1. w = IF "remove" \in done THEN TakeBack(heard, r, fails) ELSE heard
    BY DEF After
  <1> HIDE DEF done
  <1>2. /\ heard.comments \subseteq comments \cup {Own(r, "answer")}
        /\ heard.labels = world.labels /\ heard.changelog = world.changelog
        /\ heard = [comments |-> heard.comments, labels |-> heard.labels, changelog |-> heard.changelog]
    BY DEF Say
  <1> HIDE DEF heard
  <1>3. /\ w.comments \subseteq heard.comments
        /\ w.labels = heard.labels /\ w.changelog = heard.changelog
        /\ "remove" \in done /\ "remove" \notin fails => Own(r, "announcement") \notin w.comments
    BY <1>1, <1>2 DEF TakeBack
  <1> QED
    BY <1>2, <1>3 DEF done

\* A tool that announces itself takes its announcement back at the end.
LEMMA ClosingRemoves ==
  ASSUME NEW tool \in Tools
  PROVE  tool \in {"review", "improve", "describe", "ask", "add_docs", "generate_labels", "update_changelog"}
           => "remove" \in {Closing(tool)[i] : i \in 1 .. Len(Closing(tool))}
  <1>1. CASE tool \in {"review", "describe"}
    <2>1. Len(Closing(tool)) = 3 /\ Closing(tool)[3] = "remove"
      BY <1>1 DEF Closing
    <2> QED
      BY <2>1
  <1>2. CASE tool \in {"improve", "add_docs", "update_changelog"}
    <2>1. Len(Closing(tool)) = 2 /\ Closing(tool)[1] = "remove"
      BY <1>2 DEF Closing
    <2> QED
      BY <2>1
  <1>3. CASE tool \in {"ask", "generate_labels"}
    <2>1. Len(Closing(tool)) = 2 /\ Closing(tool)[2] = "remove"
      BY <1>3 DEF Closing
    <2> QED
      BY <2>1
  <1> QED
    BY <1>1, <1>2, <1>3

\* The labels a run sets are its own, its model's and a user's.
LEMMA LabelsAre ==
  ASSUME ToolTypeOK, NEW r \in Runs, NEW own \in {{}, Mine(request[r].tool)}, NEW fails
  PROVE  WithLabels(r, own, fails) \subseteq AllLabels
  <1>1. own \subseteq AllLabels
    BY DEF Mine, AllLabels
  <1>2. LabelsKnown(r, fails) \subseteq AllLabels
    <2>1. seen[r] \in [labels : SUBSET AllLabels, changelog : SUBSET Runs] /\ labels \subseteq AllLabels
      BY DEF ToolTypeOK
    <2> QED
      BY <2>1 DEF LabelsKnown
  <1> QED
    BY <1>1, <1>2 DEF WithLabels

\* What ends a run: its return value, and what that leaves on the pull request.
Told(r, returns, how, fails) ==
  /\ how = "answered" /\ "remove" \notin fails => Own(r, "announcement") \notin comments'
  /\ request[r].propagate /\ request[r].tool \in {"review", "improve", "describe", "ask"} =>
       (~returns <=> how = "raised")

WrittenBy(r) ==
  /\ comments' \subseteq comments \cup {Own(r, "answer"), Own(r, "failure")}
  /\ labels' \subseteq AllLabels
  /\ changelog' \subseteq changelog \cup seen[r].changelog \cup {r}

Ends(r) ==
  /\ UNCHANGED <<request, seen>>
  /\ artifact' \in [Runs -> {"none", "answer"}]
  /\ \E returns \in BOOLEAN, how \in {"answered", "kept back", "empty", "raised", "refused"},
        fails \in SUBSET {"read", "write", "remove"} :
       End(r, returns, how, fails) /\ Told(r, returns, how, fails)
  /\ \/ request[r].publish /\ WrittenBy(r)
     \/ comments' \subseteq comments \cup {Own(r, "no help")} /\ UNCHANGED <<labels, changelog>>

LEMMA RequestIs ==
  ASSUME ToolTypeOK, NEW r \in Runs
  PROVE  /\ request[r] \in Requests
         /\ request[r].tool \in Tools /\ request[r].publish \in BOOLEAN /\ request[r].propagate \in BOOLEAN
  <1>1. request[r] \in Requests
    BY DEF ToolTypeOK
  <1>2. request[r] \in [tool : Tools, auto : BOOLEAN, publish : BOOLEAN, propagate : BOOLEAN,
                        style : {"usual", "quiet", "commit", "plain"}]
    BY <1>1, ToolAssumption
  <1> QED
    BY <1>1, <1>2

LEMMA WritesAre ==
  ASSUME ToolTypeOK, NEW r \in Runs, NEW n, NEW own \in {{}, Mine(request[r].tool)},
         NEW fails, Write(After(r, n, own, fails))
  PROVE  WrittenBy(r)
  <1> DEFINE w == After(r, n, own, fails)
  <1>1. labels \subseteq AllLabels /\ WithLabels(r, own, fails) \subseteq AllLabels
    BY LabelsAre DEF ToolTypeOK
  <1>2. /\ w.comments \subseteq comments \cup {Own(r, "answer")}
        /\ w.labels \in {labels, WithLabels(r, own, fails)}
        /\ w.changelog \in {changelog, seen[r].changelog \cup {r}}
    BY AfterIs
  <1>3. comments' = w.comments /\ labels' = w.labels /\ changelog' = w.changelog
    BY DEF Write
  <1> HIDE DEF w
  <1> QED
    BY <1>1, <1>2, <1>3 DEF WrittenBy

\* Who announces itself publishes, and has a tool that takes the announcement back.
LEMMA AnnouncesAre ==
  ASSUME NEW q, Announces(q)
  PROVE  /\ q.publish
         /\ q.tool \in {"review", "improve", "describe", "ask", "add_docs", "generate_labels", "update_changelog"}
  BY DEF Announces

LEMMA FallibleIs ==
  ASSUME NEW r, NEW done
  PROVE  Fallible(r, done) \subseteq {"read", "write", "remove"}
  BY DEF Fallible

LEMMA AnswerEnds ==
  ASSUME ToolInv, NEW r \in Runs, NEW own \in {{}, Mine(request[r].tool)}, NEW fails,
         Answer(r, own, fails)
  PROVE  Ends(r)
  <1> DEFINE n == IF ~MayWrite(r) THEN 0 ELSE IF KeptBack(r) THEN 1 ELSE Len(Closing(request[r].tool))
             how == IF KeptBack(r) THEN "kept back" ELSE "answered"
  <1>t. ToolTypeOK /\ Announced /\ artifact \in [Runs -> {"none", "answer"}]
        /\ request[r].tool \in Tools /\ request[r].publish \in BOOLEAN
    BY RequestIs DEF ToolInv, ToolTypeOK
  <1>1. /\ UNCHANGED <<request, seen>> /\ artifact' \in [Runs -> {"none", "answer"}]
        /\ End(r, TRUE, how, fails)
    BY <1>t DEF Answer
  <1>2. fails \subseteq {"read", "write", "remove"} /\ Write(After(r, n, own, fails))
    BY FallibleIs DEF Answer
  <1>3. CASE MayWrite(r)
    <2>1. request[r].publish /\ WrittenBy(r)
      <3> HIDE DEF n
      <3>1. WrittenBy(r)
        BY <1>2, <1>t, WritesAre
      <3> QED
        BY <1>3, <3>1 DEF MayWrite
    <2>2. Told(r, TRUE, how, fails)
      <3> SUFFICES ASSUME ~KeptBack(r), "remove" \notin fails
                   PROVE  Own(r, "announcement") \notin comments'
        BY DEF Told
      <3>1. Write(After(r, Len(Closing(request[r].tool)), own, fails))
        BY <1>2, <1>3
      <3>2. CASE Own(r, "announcement") \in comments
        <4>1. Announces(request[r])
          BY <3>2, <1>t DEF Announced
        <4>2. "remove" \in Instructions(r, Len(Closing(request[r].tool)))
          BY <4>1, <1>t, AnnouncesAre, ClosingRemoves DEF Instructions
        <4> QED
          BY <3>1, <4>2, AfterIs DEF Write
      <3>3. CASE Own(r, "announcement") \notin comments
        <4>1. Own(r, "announcement") # Own(r, "answer")
          BY DEF Own
        <4> QED
          BY <3>1, <3>3, <4>1, AfterIs DEF Write
      <3> QED
        BY <3>2, <3>3
    <2> QED
      BY <1>1, <1>2, <2>1, <2>2 DEF Ends
  <1>4. CASE ~MayWrite(r)
    <2>1. UNCHANGED <<comments, labels, changelog>>
      BY <1>2, <1>4 DEF After, Write, Instructions
    <2>2. ~Announces(request[r])
      BY <1>4, AnnouncesAre DEF MayWrite
    <2>3. Told(r, TRUE, how, fails)
      BY <2>1, <2>2, <1>t DEF Told, Announced
    <2> QED
      BY <1>1, <1>2, <2>1, <2>3 DEF Ends
  <1> QED
    BY <1>3, <1>4

LEMMA NothingEnds ==
  ASSUME ToolInv, NEW r \in Runs, NEW fails, NothingToSay(r, fails)
  PROVE  Ends(r)
  <1> DEFINE tool == request[r].tool
             world == [comments |-> comments, labels |-> labels, changelog |-> changelog]
  <1>t. ToolTypeOK /\ artifact \in [Runs -> {"none", "answer"}] /\ labels \subseteq AllLabels
        /\ tool \in Tools /\ request[r].publish \in BOOLEAN
    BY RequestIs DEF ToolInv, ToolTypeOK
  <1>1. /\ UNCHANGED <<request, seen>> /\ artifact' \in [Runs -> {"none", "answer"}]
        /\ End(r, TRUE, "empty", fails) /\ fails \subseteq {"read", "write", "remove"}
    BY <1>t, FallibleIs DEF NothingToSay
  <1>2. Told(r, TRUE, "empty", fails)
    BY DEF Told
  <1>3. \/ request[r].publish /\ WrittenBy(r)
        \/ comments' \subseteq comments \cup {Own(r, "no help")} /\ UNCHANGED <<labels, changelog>>
    <2>1. CASE tool \in {"describe", "review"}
      <3>1. Write(TakeBack(world, r, fails))
        BY <2>1 DEF NothingToSay
      <3> QED
        BY <3>1 DEF Write, TakeBack
    <2>2. CASE tool \in {"ask", "update_changelog"} /\ MayWrite(r)
      <3>1. Write(After(r, Len(Closing(tool)), {}, fails))
        BY <2>2 DEF NothingToSay
      <3>2. {} \in {{}, Mine(request[r].tool)}
        OBVIOUS
      <3>3. WrittenBy(r)
        BY <3>1, <3>2, <1>t, WritesAre
      <3> QED
        BY <3>3, <2>2 DEF MayWrite
    <2>3. CASE tool = "improve" /\ MayWrite(r)
      <3>1. Write(Say(IF request[r].style = "plain" THEN world ELSE TakeBack(world, r, fails), r))
        BY <2>3 DEF NothingToSay
      <3> QED
        BY <3>1, <2>3, <1>t DEF Write, Say, TakeBack, WrittenBy, MayWrite
    <2>4. CASE /\ tool \notin {"describe", "review"}
               /\ ~(tool \in {"ask", "update_changelog"} /\ MayWrite(r)) /\ ~(tool = "improve" /\ MayWrite(r))
      <3>1. Write(world)
        BY <2>4 DEF NothingToSay
      <3> QED
        BY <3>1 DEF Write
    <2> QED
      BY <2>1, <2>2, <2>3, <2>4
  <1> QED
    BY <1>1, <1>2, <1>3 DEF Ends

LEMMA RaiseEnds ==
  ASSUME ToolInv, NEW r \in Runs, NEW own \in {{}, Mine(request[r].tool)},
         NEW n \in 0 .. Len(Closing(request[r].tool)) - 1, NEW fails, Raise(r, n, own, fails)
  PROVE  Ends(r)
  <1> DEFINE tool == request[r].tool
             world == After(r, n, own, fails)
             write == IF tool # "improve" \/ ~MayWrite(r) THEN world
                      ELSE IF request[r].style = "plain" \/ request[r].auto
                           THEN [TakeBack(world, r, fails) EXCEPT !.comments = @ \cup {Own(r, "failure")}]
                           ELSE TakeBack(world, r, fails)
  <1>t. ToolTypeOK /\ artifact \in [Runs -> {"none", "answer"}] /\ labels \subseteq AllLabels
        /\ tool \in Tools /\ request[r].publish \in BOOLEAN
    BY RequestIs DEF ToolInv, ToolTypeOK
  <1>1. /\ UNCHANGED <<request, seen, artifact>> /\ End(r, Swallows(r), "raised", fails) /\ Write(write)
        /\ fails \subseteq {"read", "write", "remove"}
    BY FallibleIs DEF Raise
  <1>2. Told(r, Swallows(r), "raised", fails) /\ Swallows(r) \in BOOLEAN
    BY DEF Told, Swallows
  <1>3. \/ request[r].publish /\ WrittenBy(r)
        \/ comments' \subseteq comments \cup {Own(r, "no help")} /\ UNCHANGED <<labels, changelog>>
    <2>1. CASE MayWrite(r)
      <3>1. /\ world.comments \subseteq comments \cup {Own(r, "answer")}
            /\ world.labels \in {labels, WithLabels(r, own, fails)}
            /\ world.changelog \in {changelog, seen[r].changelog \cup {r}}
        BY AfterIs
      <3>2. /\ write.comments \subseteq world.comments \cup {Own(r, "failure")}
            /\ write.labels = world.labels /\ write.changelog = world.changelog
        <4>1. world = [comments |-> world.comments, labels |-> world.labels, changelog |-> world.changelog]
          BY DEF After, Say, TakeBack
        <4> HIDE DEF world
        <4> QED
          BY <4>1 DEF TakeBack
      <3> HIDE DEF write, world
      <3>3. WithLabels(r, own, fails) \subseteq AllLabels
        BY <1>t, LabelsAre
      <3> QED
        BY <3>1, <3>2, <3>3, <2>1, <1>1, <1>t DEF Write, WrittenBy, MayWrite
    <2>2. CASE ~MayWrite(r)
      <3>1. n = 0
        BY <2>2 DEF Raise
      <3>2. world = [comments |-> comments, labels |-> labels, changelog |-> changelog]
        BY <3>1 DEF After, Instructions
      <3>3. write = world
        BY <2>2
      <3> HIDE DEF write, world
      <3>4. Write(write)
        BY <1>1
      <3> QED
        BY <3>2, <3>3, <3>4 DEF Write
    <2> QED
      BY <2>1, <2>2
  <1> QED
    BY <1>1, <1>2, <1>3, <1>t DEF Ends

LEMMA NoHelpEnds ==
  ASSUME ToolInv, NEW r \in Runs, NoHelp(r)
  PROVE  Ends(r)
  <1>1. /\ UNCHANGED <<request, seen, labels, changelog, artifact>>
        /\ End(r, TRUE, "refused", {}) /\ comments' = comments \cup {Own(r, "no help")}
        /\ artifact \in [Runs -> {"none", "answer"}]
    BY DEF NoHelp, ToolInv, ToolTypeOK
  <1>2. Told(r, TRUE, "refused", {})
    BY DEF Told
  <1> QED
    BY <1>1, <1>2 DEF Ends

LEMMA OwnIsTyped ==
  ASSUME NEW r \in Runs, NEW k \in {"announcement", "answer", "failure", "no help"}
  PROVE  Own(r, k) \in [by : Runs, kind : {"announcement", "answer", "failure", "no help"}]
  BY DEF Own

\* The end of a run keeps the invariant.
LEMMA EndKeeps ==
  ASSUME ToolInv, NEW r \in Runs, Ends(r)
  PROVE  ToolInv'
  <1> DEFINE added == {Own(r, "answer"), Own(r, "failure"), Own(r, "no help")}
  <1>t. /\ ToolTypeOK /\ Announced /\ PublishersRead /\ AnnouncementsGo
        /\ PublishesOnlyIfAsked /\ FailuresAreTold
    BY DEF ToolInv, OnlyAnswersStay
  <1>y. /\ request \in [Runs -> Requests] /\ st \in [Runs -> {"idle", "asking", "ended"}]
        /\ seen \in [Runs -> [labels : SUBSET AllLabels, changelog : SUBSET Runs]]
        /\ comments \subseteq [by : Runs, kind : {"announcement", "answer", "failure", "no help"}]
        /\ labels \subseteq AllLabels /\ changelog \subseteq Runs
        /\ returned \in [Runs -> {"none", "true", "false"}]
        /\ outcome \in [Runs -> {"none", "answered", "kept back", "empty", "raised", "refused"}]
        /\ swallowed \in [Runs -> SUBSET {"read", "write", "remove"}]
    BY <1>t DEF ToolTypeOK
  <1>1. PICK returns \in BOOLEAN, how \in {"answered", "kept back", "empty", "raised", "refused"},
             fails \in SUBSET {"read", "write", "remove"} :
          End(r, returns, how, fails) /\ Told(r, returns, how, fails)
    BY DEF Ends
  <1>2. /\ st' = [st EXCEPT ![r] = "ended"] /\ outcome' = [outcome EXCEPT ![r] = how]
        /\ returned' = [returned EXCEPT ![r] = IF returns THEN "true" ELSE "false"]
        /\ swallowed' = [swallowed EXCEPT ![r] = fails]
    BY <1>1 DEF End
  <1>3. request' = request /\ seen' = seen /\ artifact' \in [Runs -> {"none", "answer"}]
    BY DEF Ends
  <1>4. \/ request[r].publish /\ WrittenBy(r)
        \/ comments' \subseteq comments \cup {Own(r, "no help")} /\ UNCHANGED <<labels, changelog>>
    BY DEF Ends
  <1>5. /\ comments' \subseteq comments \cup added /\ labels' \subseteq AllLabels
        /\ changelog' \subseteq changelog \cup seen[r].changelog \cup {r}
    BY <1>4, <1>y DEF WrittenBy
  <1>6. ToolTypeOK'
    <2>1. added \subseteq [by : Runs, kind : {"announcement", "answer", "failure", "no help"}]
      BY OwnIsTyped
    <2>2. comments' \subseteq [by : Runs, kind : {"announcement", "answer", "failure", "no help"}]
      BY <1>5, <1>y, <2>1
    <2>3. seen[r].changelog \subseteq Runs
      BY <1>y
    <2>4. changelog' \subseteq Runs
      BY <1>5, <1>y, <2>3
    <2>5. /\ st' \in [Runs -> {"idle", "asking", "ended"}]
          /\ returned' \in [Runs -> {"none", "true", "false"}]
          /\ outcome' \in [Runs -> {"none", "answered", "kept back", "empty", "raised", "refused"}]
          /\ swallowed' \in [Runs -> SUBSET {"read", "write", "remove"}]
      BY <1>2, <1>y
    <2> QED
      BY <2>2, <2>4, <2>5, <1>3, <1>5, <1>y DEF ToolTypeOK, AllLabels
  <1>7. \A o \in Runs : Own(o, "announcement") \in comments' => Own(o, "announcement") \in comments
    BY <1>5 DEF Own
  <1>8. Announced'
    <2> SUFFICES ASSUME NEW o \in Runs
                 PROVE  /\ Own(o, "announcement") \in comments' => Announces(request[o]) /\ st'[o] # "idle"
                        /\ outcome'[o] # "none" => st'[o] = "ended"
      BY <1>3 DEF Announced, Announces, Own
    <2>1. /\ Own(o, "announcement") \in comments => Announces(request[o]) /\ st[o] # "idle"
          /\ outcome[o] # "none" => st[o] = "ended"
      BY <1>t DEF Announced
    <2>2. st'[o] = IF o = r THEN "ended" ELSE st[o]
      BY <1>2, <1>y
    <2>3. o # r => outcome'[o] = outcome[o]
      BY <1>2, <1>y
    <2> QED
      BY <2>1, <2>2, <2>3, <1>7
  <1>9. PublishersRead'
    BY <1>3, <1>t DEF PublishersRead
  <1>10. AnnouncementsGo'
    <2> SUFFICES ASSUME NEW o \in Runs, outcome'[o] = "answered", "remove" \notin swallowed'[o]
                 PROVE  Own(o, "announcement") \notin comments'
      BY DEF AnnouncementsGo, Own
    <2>1. CASE o = r
      BY <2>1, <1>1, <1>2, <1>y DEF Told
    <2>2. CASE o # r
      <3>1. outcome[o] = "answered" /\ swallowed'[o] = swallowed[o]
        BY <2>2, <1>2, <1>y
      <3> QED
        BY <3>1, <1>7, <1>t DEF AnnouncementsGo
    <2> QED
      BY <2>1, <2>2
  <1>11. PublishesOnlyIfAsked'
    <2> SUFFICES ASSUME NEW o \in Runs, ~request[o].publish
                 PROVE  /\ o \notin changelog' /\ \A c \in comments' : c.by = o => c.kind = "no help"
                        /\ (\A p \in Runs : ~request[p].publish) => labels' \subseteq UserLabels
      BY <1>3 DEF PublishesOnlyIfAsked
    <2>1. /\ o \notin changelog /\ \A c \in comments : c.by = o => c.kind = "no help"
          /\ (\A p \in Runs : ~request[p].publish) => labels \subseteq UserLabels
          /\ o \notin seen[r].changelog
      BY <1>t DEF PublishesOnlyIfAsked, PublishersRead
    <2>2. CASE request[r].publish /\ WrittenBy(r)
      <3>1. o # r
        BY <2>2
      <3>2. o \notin changelog'
        BY <2>1, <2>2, <3>1 DEF WrittenBy
      <3>3. \A c \in comments' : c.by = o => c \in comments
        <4>1. Own(r, "answer").by = r /\ Own(r, "failure").by = r
          BY DEF Own
        <4>2. comments' \subseteq comments \cup {Own(r, "answer"), Own(r, "failure")}
          BY <2>2 DEF WrittenBy
        <4> QED
          BY <3>1, <4>1, <4>2
      <3>4. ~(\A p \in Runs : ~request[p].publish)
        BY <2>2
      <3> QED
        BY <2>1, <3>2, <3>3, <3>4
    <2>3. CASE comments' \subseteq comments \cup {Own(r, "no help")} /\ UNCHANGED <<labels, changelog>>
      <3>1. \A c \in comments' : c.by = o => c \in comments \/ c.kind = "no help"
        <4>1. Own(r, "no help").kind = "no help"
          BY DEF Own
        <4> QED
          BY <2>3, <4>1
      <3> QED
        BY <2>1, <2>3, <3>1
    <2> QED
      BY <2>2, <2>3, <1>4
  <1>12. FailuresAreTold'
    <2> SUFFICES ASSUME NEW o \in Runs, st'[o] = "ended", request[o].propagate,
                        request[o].tool \in {"review", "improve", "describe", "ask"}
                 PROVE  returned'[o] = "false" <=> outcome'[o] = "raised"
      BY <1>3 DEF FailuresAreTold
    <2>1. CASE o = r
      <3>1. returned'[r] = (IF returns THEN "true" ELSE "false") /\ outcome'[r] = how
        BY <1>2, <1>y
      <3>2. ~returns <=> how = "raised"
        BY <1>1, <2>1 DEF Told
      <3> QED
        BY <2>1, <3>1, <3>2
    <2>2. CASE o # r
      <3>1. st[o] = "ended" /\ returned'[o] = returned[o] /\ outcome'[o] = outcome[o]
        BY <2>2, <1>2, <1>y
      <3> QED
        BY <3>1, <1>t DEF FailuresAreTold
    <2> QED
      BY <2>1, <2>2
  <1> QED
    BY <1>6, <1>8, <1>9, <1>10, <1>11, <1>12 DEF ToolInv, OnlyAnswersStay

LEMMA StartKeeps ==
  ASSUME ToolInv, NEW r \in Runs, Start(r)
  PROVE  ToolInv'
  <1>t. /\ ToolTypeOK /\ Announced /\ PublishersRead /\ AnnouncementsGo
        /\ PublishesOnlyIfAsked /\ FailuresAreTold
    BY DEF ToolInv, OnlyAnswersStay
  <1>y. /\ request \in [Runs -> Requests] /\ st \in [Runs -> {"idle", "asking", "ended"}]
        /\ seen \in [Runs -> [labels : SUBSET AllLabels, changelog : SUBSET Runs]]
        /\ comments \subseteq [by : Runs, kind : {"announcement", "answer", "failure", "no help"}]
        /\ labels \subseteq AllLabels /\ changelog \subseteq Runs
    BY <1>t DEF ToolTypeOK
  <1>1. /\ st[r] = "idle" /\ st' = [st EXCEPT ![r] = "asking"]
        /\ seen' = [seen EXCEPT ![r] = [labels |-> labels, changelog |-> changelog]]
        /\ UNCHANGED <<request, labels, changelog, artifact, returned, outcome, swallowed>>
    BY DEF Start
  <1>2. \/ comments' = comments
        \/ comments' = comments \cup {Own(r, "announcement")} /\ Announces(request[r])
    <2>1. comments' = IF Announces(request[r]) THEN comments \cup {Own(r, "announcement")} ELSE comments
      BY DEF Start
    <2> QED
      BY <2>1
  <1>3. ToolTypeOK'
    <2>1. comments' \subseteq [by : Runs, kind : {"announcement", "answer", "failure", "no help"}]
      BY <1>2, <1>y, OwnIsTyped
    <2>2. st' \in [Runs -> {"idle", "asking", "ended"}]
      BY <1>1, <1>y
    <2>3. seen' \in [Runs -> [labels : SUBSET AllLabels, changelog : SUBSET Runs]]
      <3>1. [labels |-> labels, changelog |-> changelog] \in [labels : SUBSET AllLabels, changelog : SUBSET Runs]
        BY <1>y
      <3> QED
        BY <3>1, <1>1, <1>y
    <2> QED
      BY <2>1, <2>2, <2>3, <1>1, <1>t DEF ToolTypeOK, AllLabels
  <1>4. outcome[r] = "none"
    <2>1. outcome[r] # "none" => st[r] = "ended"
      BY <1>t DEF Announced
    <2> QED
      BY <2>1, <1>1
  <1>5. \A o \in Runs : /\ st'[o] = (IF o = r THEN "asking" ELSE st[o])
                        /\ seen'[o] = (IF o = r THEN [labels |-> labels, changelog |-> changelog] ELSE seen[o])
    BY <1>1, <1>y
  <1>6. \A o \in Runs : Own(o, "announcement") \in comments' =>
                          \/ Own(o, "announcement") \in comments
                          \/ o = r /\ Announces(request[r])
    BY <1>2 DEF Own
  <1>7. Announced'
    <2> SUFFICES ASSUME NEW o \in Runs
                 PROVE  /\ Own(o, "announcement") \in comments' => Announces(request[o]) /\ st'[o] # "idle"
                        /\ outcome[o] # "none" => st'[o] = "ended"
      BY <1>1 DEF Announced, Announces, Own
    <2>1. /\ Own(o, "announcement") \in comments => Announces(request[o]) /\ st[o] # "idle"
          /\ outcome[o] # "none" => st[o] = "ended"
      BY <1>t DEF Announced
    <2> QED
      BY <2>1, <1>4, <1>5, <1>6
  <1>8. PublishersRead'
    <2> SUFFICES ASSUME NEW p \in Runs, NEW o \in Runs, ~request[p].publish
                 PROVE  p \notin seen'[o].changelog
      BY <1>1 DEF PublishersRead
    <2>1. p \notin seen[o].changelog /\ p \notin changelog
      BY <1>t DEF PublishersRead, PublishesOnlyIfAsked
    <2> QED
      BY <2>1, <1>5
  <1>9. AnnouncementsGo'
    <2> SUFFICES ASSUME NEW o \in Runs, outcome[o] = "answered", "remove" \notin swallowed[o]
                 PROVE  Own(o, "announcement") \notin comments'
      BY <1>1 DEF AnnouncementsGo, Own
    <2>1. o # r
      BY <1>4
    <2> QED
      BY <2>1, <1>6, <1>t DEF AnnouncementsGo
  <1>10. PublishesOnlyIfAsked'
    <2> SUFFICES ASSUME NEW o \in Runs, ~request[o].publish, NEW c \in comments', c.by = o
                 PROVE  c.kind = "no help"
      BY <1>1, <1>t DEF PublishesOnlyIfAsked
    <2>1. CASE c \in comments
      BY <2>1, <1>t DEF PublishesOnlyIfAsked
    <2>2. CASE c = Own(r, "announcement") /\ Announces(request[r])
      <3>1. o = r
        BY <2>2 DEF Own
      <3> QED
        BY <2>2, <3>1, AnnouncesAre
    <2> QED
      BY <2>1, <2>2, <1>2
  <1>11. FailuresAreTold'
    <2>1. \A o \in Runs : st'[o] = "ended" => st[o] = "ended"
      BY <1>5
    <2> QED
      BY <2>1, <1>1, <1>t DEF FailuresAreTold
  <1> QED
    BY <1>3, <1>7, <1>8, <1>9, <1>10, <1>11 DEF ToolInv, OnlyAnswersStay

LEMMA LabelKeeps ==
  ASSUME ToolInv, NEW l \in UserLabels, Label(l)
  PROVE  ToolInv'
  <1>1. /\ labels' = labels \cup {l}
        /\ UNCHANGED <<request, st, seen, comments, changelog, artifact, returned, outcome, swallowed>>
    BY DEF Label
  <1>2. ToolTypeOK'
    BY <1>1 DEF ToolInv, ToolTypeOK, AllLabels
  <1>3. Announced' /\ PublishersRead' /\ AnnouncementsGo' /\ FailuresAreTold'
    BY <1>1 DEF ToolInv, OnlyAnswersStay, Announced, Announces, Own, PublishersRead, AnnouncementsGo,
                FailuresAreTold
  <1>4. PublishesOnlyIfAsked'
    BY <1>1 DEF ToolInv, OnlyAnswersStay, PublishesOnlyIfAsked
  <1> QED
    BY <1>2, <1>3, <1>4 DEF ToolInv, OnlyAnswersStay

LEMMA ToolStep == ToolInv /\ [ToolNext]_toolVars => ToolInv'
  <1> SUFFICES ASSUME ToolInv, [ToolNext]_toolVars PROVE ToolInv'
    OBVIOUS
  <1>1. CASE ToolNext
    <2>1. CASE \E r \in Runs : Start(r)
      BY <2>1, StartKeeps
    <2>2. CASE \E r \in Runs : NoHelp(r)
      BY <2>2, NoHelpEnds, EndKeeps
    <2>3. CASE \E r \in Runs, fails \in SUBSET {"read", "write", "remove"} : NothingToSay(r, fails)
      BY <2>3, NothingEnds, EndKeeps
    <2>4. CASE \E r \in Runs, fails \in SUBSET {"read", "write", "remove"} :
                 \E own \in {{}, Mine(request[r].tool)} :
                    \/ Answer(r, own, fails)
                    \/ \E n \in 0 .. Len(Closing(request[r].tool)) - 1 : Raise(r, n, own, fails)
      BY <2>4, AnswerEnds, RaiseEnds, EndKeeps
    <2>5. CASE \E l \in UserLabels : Label(l)
      BY <2>5, LabelKeeps
    <2> QED
      BY <1>1, <2>1, <2>2, <2>3, <2>4, <2>5 DEF ToolNext
  <1>2. CASE UNCHANGED toolVars
    BY <1>2 DEF toolVars, ToolInv, ToolTypeOK, Announced, Announces, Own, PublishersRead, OnlyAnswersStay,
                AnnouncementsGo, PublishesOnlyIfAsked, FailuresAreTold, AllLabels
  <1> QED
    BY <1>1, <1>2

LEMMA ToolStart == ToolInit => ToolInv
  <1> SUFFICES ASSUME ToolInit PROVE ToolInv
    OBVIOUS
  <1>1. ToolTypeOK
    BY DEF ToolInit, ToolTypeOK
  <1>2. Announced /\ PublishersRead /\ OnlyAnswersStay /\ FailuresAreTold
    BY DEF ToolInit, Announced, PublishersRead, OnlyAnswersStay, AnnouncementsGo, PublishesOnlyIfAsked,
           FailuresAreTold
  <1> QED
    BY <1>1, <1>2 DEF ToolInv

\* Types of the runs of the tools.
THEOREM ToolTypeCorrect == ToolSpec => []ToolTypeOK
  <1>1. ToolInv => ToolTypeOK
    BY DEF ToolInv
  <1> QED
    BY <1>1, ToolStart, ToolStep, PTL DEF ToolSpec

\* However runs overlap and whatever fails, no announcement stays beside the
\* answer it announced unless its own deletion failed, and a run that is not to publish leaves nothing.
THEOREM AnswersStay == ToolSpec => []OnlyAnswersStay
  <1>1. ToolInv => OnlyAnswersStay
    BY DEF ToolInv
  <1> QED
    BY <1>1, ToolStart, ToolStep, PTL DEF ToolSpec

\* The labels the end of a run leaves.
LEMMA LabelsAfter ==
  ASSUME ToolInv, NEW r \in Runs, NEW n \in Nat, NEW own, NEW fails, MayWrite(r) \/ n = 0,
         NEW l \in labels, l \notin After(r, n, own, fails).labels
  PROVE  /\ MayWrite(r)
         /\ \/ l \in Mine(request[r].tool)
            \/ "read" \in fails
            \/ request[r].tool = "generate_labels" /\ l \notin seen[r].labels
  <1>1. /\ After(r, n, own, fails).labels \in {labels, WithLabels(r, own, fails)}
        /\ "labels" \notin Instructions(r, n) => After(r, n, own, fails).labels = labels
    BY AfterIs
  <1>2. MayWrite(r)
    <2>1. n = 0 => Instructions(r, n) = {}
      BY DEF Instructions
    <2> QED
      BY <1>1, <2>1
  <1>3. l \notin own \cup (LabelsKnown(r, fails) \ Mine(request[r].tool))
    BY <1>1 DEF WithLabels
  <1>4. CASE l \notin LabelsKnown(r, fails)
    BY <1>2, <1>4 DEF LabelsKnown
  <1>5. CASE l \in Mine(request[r].tool)
    BY <1>2, <1>5
  <1> QED
    BY <1>3, <1>4, <1>5

\* Labels that users or other runs have set while a run's model was thinking
\* are not lost by it, in any step of any runs, but for a run that cannot read
\* them and for /generate_labels.
THEOREM LabelsStayForAll == ToolSpec => LabelsStay
  <1> DEFINE Excused(l, r) == /\ st[r] = "asking" /\ st'[r] = "ended" /\ MayWrite(r)
                             /\ \/ l \in Mine(request[r].tool)
                                \/ "read" \in swallowed'[r]
                                \/ request[r].tool = "generate_labels" /\ l \notin seen[r].labels
  <1>1. ASSUME ToolInv, [ToolNext]_toolVars, NEW l \in labels \ labels'
        PROVE  \E r \in Runs : Excused(l, r)
    <2>a. ASSUME NEW r \in Runs, NEW own, NEW fails, NEW n \in Nat, NEW returns, NEW how,
                 st[r] = "asking", End(r, returns, how, fails), MayWrite(r) \/ n = 0,
                 labels' = After(r, n, own, fails).labels
          PROVE  Excused(l, r)
      <3>1. st'[r] = "ended" /\ swallowed'[r] = fails
        BY <1>1, <2>a DEF End, ToolInv, ToolTypeOK
      <3> QED
        BY <1>1, <2>a, <3>1, LabelsAfter
    <2>b. \A r \in Runs : Len(Closing(request[r].tool)) \in Nat
      BY DEF Closing
    <2>1. ASSUME NEW r \in Runs, NEW own, NEW fails, Answer(r, own, fails)
          PROVE  Excused(l, r)
      <3> DEFINE n == IF ~MayWrite(r) THEN 0 ELSE IF KeptBack(r) THEN 1 ELSE Len(Closing(request[r].tool))
                 how == IF KeptBack(r) THEN "kept back" ELSE "answered"
      <3>1. st[r] = "asking" /\ End(r, TRUE, how, fails) /\ labels' = After(r, n, own, fails).labels
        BY <2>1 DEF Answer, Write
      <3>2. n \in Nat /\ (MayWrite(r) \/ n = 0)
        BY <2>b
      <3> HIDE DEF n, how, Excused
      <3> QED
        BY <2>a, <3>1, <3>2
    <2>2. ASSUME NEW r \in Runs, NEW fails, NothingToSay(r, fails)
          PROVE  Excused(l, r)
      <3> DEFINE tool == request[r].tool
      <3>1. st[r] = "asking" /\ End(r, TRUE, "empty", fails)
        BY <2>2 DEF NothingToSay
      <3>2. CASE tool \in {"ask", "update_changelog"} /\ MayWrite(r)
        <4>1. labels' = After(r, Len(Closing(tool)), {}, fails).labels
          BY <2>2, <3>2 DEF NothingToSay, Write
        <4> HIDE DEF Excused
        <4> QED
          BY <2>a, <2>b, <3>1, <3>2, <4>1
      <3>3. CASE ~(tool \in {"ask", "update_changelog"} /\ MayWrite(r))
        <4>1. labels' = labels
          BY <2>2, <3>3 DEF NothingToSay, Write, TakeBack, Say
        <4> QED
          BY <4>1, <1>1
      <3> QED
        BY <3>2, <3>3
    <2>3. ASSUME NEW r \in Runs, NEW own, NEW fails,
                 NEW n \in 0 .. Len(Closing(request[r].tool)) - 1, Raise(r, n, own, fails)
          PROVE  Excused(l, r)
      <3>1. st[r] = "asking" /\ End(r, Swallows(r), "raised", fails) /\ (MayWrite(r) \/ n = 0) /\ n \in Nat
        BY <2>3, <2>b DEF Raise
      <3>2. labels' = After(r, n, own, fails).labels
        <4> DEFINE world == After(r, n, own, fails)
                   write == IF request[r].tool # "improve" \/ ~MayWrite(r) THEN world
                            ELSE IF request[r].style = "plain" \/ request[r].auto
                                 THEN [TakeBack(world, r, fails) EXCEPT !.comments = @ \cup {Own(r, "failure")}]
                                 ELSE TakeBack(world, r, fails)
        <4>1. Write(write)
          BY <2>3 DEF Raise
        <4>2. write.labels = world.labels
          <5>1. world = [comments |-> world.comments, labels |-> world.labels, changelog |-> world.changelog]
            BY DEF After, Say, TakeBack
          <5> HIDE DEF world
          <5> QED
            BY <5>1 DEF TakeBack
        <4> HIDE DEF world, write
        <4>3. labels' = write.labels
          BY <4>1 DEF Write
        <4> QED
          BY <4>2, <4>3 DEF world
      <3> HIDE DEF Excused
      <3> QED
        BY <2>a, <3>1, <3>2
    <2>4. ASSUME NEW r \in Runs, Start(r) \/ NoHelp(r)
          PROVE  labels' = labels
      BY <2>4 DEF Start, NoHelp
    <2>5. ASSUME NEW u \in UserLabels, Label(u)
          PROVE  labels \subseteq labels'
      BY <2>5 DEF Label
    <2>6. CASE UNCHANGED toolVars
      BY <2>6, <1>1 DEF toolVars
    <2>7. CASE ToolNext
      <3> HIDE DEF Excused
      <3> QED
        BY <2>7, <2>1, <2>2, <2>3, <2>4, <2>5, <1>1 DEF ToolNext
    <2> QED
      BY <1>1, <2>6, <2>7
  <1>2. ToolInv /\ [ToolNext]_toolVars =>
          [\A l \in labels \ labels' : \E r \in Runs :
             /\ st[r] = "asking" /\ st'[r] = "ended" /\ MayWrite(r)
             /\ \/ l \in Mine(request[r].tool)
                \/ "read" \in swallowed'[r]
                \/ request[r].tool = "generate_labels" /\ l \notin seen[r].labels]_toolVars
    BY <1>1
  <1> QED
    BY <1>2, ToolStart, ToolStep, PTL DEF ToolSpec, LabelsStay

\* A caller that asks for errors is told of every call that raised, and of no
\* other failure, by each of the four tools MOSAICO dispatches to.
THEOREM FailuresTold == ToolSpec => []FailuresAreTold
  <1>1. ToolInv => FailuresAreTold
    BY DEF ToolInv
  <1> QED
    BY <1>1, ToolStart, ToolStep, PTL DEF ToolSpec

-----------------------------------------------------------------------------
(* The suggestions on the other hosts.                                     *)

\* HeadAndTail and Appended of the ranges of sequences.
LEMMA TailIs ==
  ASSUME NEW S, NEW q \in Seq(S), q # <<>>
  PROVE  /\ Head(q) \in S /\ Tail(q) \in Seq(S) /\ Len(Tail(q)) = Len(q) - 1 /\ Len(q) \in Nat \ {0}
         /\ Range(q) = {Head(q)} \cup Range(Tail(q))
         /\ (\A i, j \in DOMAIN q : q[i] = q[j] => i = j) =>
              /\ Head(q) \notin Range(Tail(q))
              /\ \A i, j \in DOMAIN Tail(q) : Tail(q)[i] = Tail(q)[j] => i = j
  <1>1. Len(q) \in Nat \ {0} /\ Len(Tail(q)) = Len(q) - 1
    OBVIOUS
  <1>2. \A r : Range(r) = Elements(r)
    BY DEF Range, Elements
  <1> QED
    BY <1>1, <1>2, HeadAndTail DEF Once

LEMMA AppendIs ==
  ASSUME NEW S, NEW q \in Seq(S), NEW x \in S
  PROVE  /\ Append(q, x) \in Seq(S) /\ Len(Append(q, x)) = Len(q) + 1 /\ Len(q) \in Nat
         /\ Range(Append(q, x)) = Range(q) \cup {x}
         /\ (\A i, j \in DOMAIN q : q[i] = q[j] => i = j) /\ x \notin Range(q) =>
              \A i, j \in DOMAIN Append(q, x) : Append(q, x)[i] = Append(q, x)[j] => i = j
  <1>1. Len(q) \in Nat /\ Len(Append(q, x)) = Len(q) + 1
    OBVIOUS
  <1>2. \A r : Range(r) = Elements(r)
    BY DEF Range, Elements
  <1> QED
    BY <1>1, <1>2, Appended DEF Once

LEMMA EmptyRange == Range(<<>>) = {}
  BY DEF Range

\* Whether a discussion or a note, at most two of a suggestion, and one without trouble.
LEMMA OneOrTwo ==
  ASSUME NEW o, NEW n
  PROVE  LET k == Cardinality({x \in {"post", "note"} :
                     IF x = "post" THEN o # "failed" ELSE o # "ok" /\ n # "failed"})
         IN k \in Nat /\ (o = "ok" => k = 1)
  <1> DEFINE C == {x \in {"post", "note"} : IF x = "post" THEN o # "failed" ELSE o # "ok" /\ n # "failed"}
  <1>1. IsFiniteSet({"post", "note"})
    <2>1. IsFiniteSet({})
      BY FS_EmptySet
    <2>2. IsFiniteSet({} \cup {"post"})
      BY <2>1, FS_AddElement
    <2>3. IsFiniteSet(({} \cup {"post"}) \cup {"note"})
      BY <2>2, FS_AddElement
    <2>4. ({} \cup {"post"}) \cup {"note"} = {"post", "note"}
      OBVIOUS
    <2> QED
      BY <2>3, <2>4
  <1>2. Cardinality(C) \in Nat
    <2>1. C \subseteq {"post", "note"}
      OBVIOUS
    <2>2. IsFiniteSet(C)
      BY <1>1, <2>1, FS_Subset
    <2> QED
      BY <2>2, FS_CardinalityType
  <1>3. o = "ok" => Cardinality(C) = 1
    <2>1. o = "ok" => C = {"post"}
      OBVIOUS
    <2> QED
      BY <2>1, FS_Singleton
  <1> QED
    BY <1>2, <1>3

LEMMA OutcomesAre ==
  ASSUME accidents \in 0 .. MaxAccidents, NEW o \in Outcomes, NEW s, Noticed(s, o)
  PROVE  /\ o \in {"ok", "failed", "lost"}
         /\ accidents' \in 0 .. MaxAccidents
         /\ accidents' = 0 => o = "ok" /\ accidents = 0
         /\ troubled' = troubled \cup (IF o = "ok" THEN {} ELSE {s})
  <1>1. o \in {"ok", "failed", "lost"} /\ (o # "ok" => accidents < MaxAccidents)
    BY DEF Outcomes
  <1>2. MaxAccidents \in Nat
    BY SuggestAssumption
  <1> QED
    BY <1>1, <1>2 DEF Noticed

-----------------------------------------------------------------------------
(* What one suggestion of a call comes to, whichever the host.             *)

\* It is posted: once, or with trouble, which Gitea and CodeCommit do not catch.
PostsFirst ==
  \E o \in Outcomes, k \in Nat :
    /\ o = "ok" => k = 1 /\ NextOne
    /\ provider \notin Bitbuckets \cup {"gerrit"}
    /\ NextOne \/ (Escaped /\ provider \in {"gitea", "codecommit"})
    /\ published' = [published EXCEPT ![First] = @ + k]
    /\ marked' = marked \/ (provider = "gitlab" /\ marked' = marked \cup {First})
    /\ Noticed(First, o)
    /\ UNCHANGED <<copy, patch, summary>>

\* It is left out: there is something wrong with it, or it is there already.
SkipsFirst ==
  /\ Passed
  /\ provider \in {"gitlab", "azure"}
  /\ sort[First] # "good" \/ First \in marked

LEMMA PublishIs ==
  ASSUME Publish
  PROVE  /\ stage = "call" /\ due # <<>> /\ UNCHANGED <<provider, sort, handed>>
         /\ PostsFirst \/ SkipsFirst \/ ToBitbucket \/ ToGerrit
  <1> SUFFICES PostsFirst \/ SkipsFirst \/ ToBitbucket \/ ToGerrit
    BY DEF Publish
  <1>1. CASE ToGitlab
    <2>1. CASE sort[First] \in {"absent", "unloaded"} \/ First \in marked
      <3>1. Passed /\ provider = "gitlab"
        BY <1>1, <2>1 DEF ToGitlab
      <3> QED
        BY <2>1, <3>1 DEF SkipsFirst
    <2>2. CASE ~(sort[First] \in {"absent", "unloaded"} \/ First \in marked)
      <3> DEFINE k(o, n) == Cardinality({x \in {"post", "note"} :
                                           IF x = "post" THEN o # "failed" ELSE o # "ok" /\ n # "failed"})
      <3>1. PICK o \in Outcomes, n \in Outcomes :
              /\ IF o = "ok" THEN NextOne ELSE Caught
              /\ marked' = marked \cup (IF "ok" \in {o, n} THEN {First} ELSE {})
              /\ published' = [published EXCEPT ![First] = @ + k(o, n)]
              /\ Noticed(First, o)
              /\ UNCHANGED <<copy, patch, summary>>
        BY <1>1, <2>2 DEF ToGitlab, GitlabPosts
      <3>2. k(o, n) \in Nat /\ (o = "ok" => k(o, n) = 1)
        BY OneOrTwo
      <3>3. NextOne
        BY <3>1 DEF Caught, NextOne
      <3>4. marked' = marked \/ (provider = "gitlab" /\ marked' = marked \cup {First})
        BY <1>1, <3>1 DEF ToGitlab
      <3>5. provider \notin Bitbuckets \cup {"gerrit"}
        BY <1>1 DEF ToGitlab, Bitbuckets
      <3> HIDE DEF k
      <3> QED
        BY <3>1, <3>2, <3>3, <3>4, <3>5 DEF PostsFirst
    <2> QED
      BY <2>1, <2>2
  <1>2. CASE ToAzure
    <2>1. CASE sort[First] = "range"
      <3>1. Passed /\ provider = "azure"
        BY <1>2, <2>1 DEF ToAzure
      <3> QED
        BY <2>1, <3>1 DEF SkipsFirst
    <2>2. CASE sort[First] # "range"
      <3>1. PICK o \in Outcomes : /\ NextOne /\ Seen(First, o) /\ Noticed(First, o)
                                  /\ UNCHANGED <<marked, copy, patch, summary>>
        BY <1>2, <2>2 DEF ToAzure, AzurePosts, Caught, NextOne
      <3>2. provider \notin Bitbuckets \cup {"gerrit"}
        BY <1>2 DEF ToAzure, Bitbuckets
      <3> DEFINE k == IF o = "failed" THEN 0 ELSE 1
      <3>3. k \in Nat /\ (o = "ok" => k = 1) /\ published' = [published EXCEPT ![First] = @ + k]
        BY <3>1 DEF Seen
      <3> HIDE DEF k
      <3> QED
        BY <3>1, <3>2, <3>3 DEF PostsFirst
    <2> QED
      BY <2>1, <2>2
  <1>3. CASE ToGitea
    <2>1. PICK o \in Outcomes, empty \in BOOLEAN :
            /\ IF o = "ok" \/ empty THEN NextOne ELSE Escaped
            /\ Seen(First, o) /\ Noticed(First, o)
            /\ UNCHANGED <<marked, copy, patch, summary>>
      BY <1>3 DEF ToGitea
    <2>2. provider \notin Bitbuckets \cup {"gerrit"} /\ provider \in {"gitea", "codecommit"}
      BY <1>3 DEF ToGitea, Bitbuckets
    <2> DEFINE k == IF o = "failed" THEN 0 ELSE 1
    <2>3. k \in Nat /\ (o = "ok" => k = 1) /\ published' = [published EXCEPT ![First] = @ + k]
      BY <2>1 DEF Seen
    <2>4. (o = "ok" => NextOne) /\ (NextOne \/ Escaped)
      BY <2>1 DEF NextOne, Escaped
    <2> HIDE DEF k
    <2> QED
      BY <2>1, <2>2, <2>3, <2>4 DEF PostsFirst
  <1>4. CASE ToCodeCommit
    <2>1. PICK o \in Outcomes :
            /\ IF o = "ok" THEN NextOne ELSE Escaped
            /\ Seen(First, o) /\ Noticed(First, o)
            /\ UNCHANGED <<marked, copy, patch, summary>>
      BY <1>4 DEF ToCodeCommit
    <2>2. provider \notin Bitbuckets \cup {"gerrit"} /\ provider \in {"gitea", "codecommit"}
      BY <1>4 DEF ToCodeCommit, Bitbuckets
    <2> DEFINE k == IF o = "failed" THEN 0 ELSE 1
    <2>3. k \in Nat /\ (o = "ok" => k = 1) /\ published' = [published EXCEPT ![First] = @ + k]
      BY <2>1 DEF Seen
    <2>4. (o = "ok" => NextOne) /\ (NextOne \/ Escaped)
      BY <2>1 DEF NextOne, Escaped
    <2> HIDE DEF k
    <2> QED
      BY <2>1, <2>2, <2>3, <2>4 DEF PostsFirst
  <1> QED
    BY <1>1, <1>2, <1>3, <1>4 DEF Publish

\* The conjuncts of the types, as the provers use them.
LEMMA SuggestTypes ==
  ASSUME SuggestTypeOK
  PROVE  /\ provider \in Providers /\ sort \in [Offered -> Sorts]
         /\ due \in Seq(Offered) /\ collected \in Seq(Offered) /\ alone \in Seq(Offered) /\ handed \in BOOLEAN
         /\ published \in [Offered -> Nat] /\ patch \in [Offered -> SUBSET Offered]
         /\ marked \subseteq Offered /\ copy \subseteq Offered /\ summary \subseteq Offered
         /\ troubled \subseteq Offered
         /\ stage \in {"call", "between", "done", "raised"} /\ accidents \in 0 .. MaxAccidents
         /\ handed => Len(due) + Len(collected) <= 1
         /\ Offers \in Seq(Offered) /\ <<>> \in Seq(Offered) /\ Len(<<>>) = 0
         /\ MaxAccidents \in Nat /\ accidents \in Nat
         /\ \A s \in Offered : published[s] \in Nat
  BY SuggestAssumption DEF SuggestTypeOK

LEMMA PostsKeeps ==
  ASSUME SuggestInv, PostsFirst, stage = "call", due # <<>>, UNCHANGED <<provider, sort, handed>>
  PROVE  SuggestInv'
  <1> DEFINE s == First
  <1>t. SuggestTypeOK /\ Orderly /\ GoingOn /\ HostsOwn /\ PatchIsOwn
    BY DEF SuggestInv
  <1>1. PICK o \in Outcomes, k \in Nat :
          /\ o = "ok" => k = 1 /\ NextOne
          /\ provider \notin Bitbuckets \cup {"gerrit"}
          /\ NextOne \/ (Escaped /\ provider \in {"gitea", "codecommit"})
          /\ published' = [published EXCEPT ![First] = @ + k]
          /\ marked' = marked \/ (provider = "gitlab" /\ marked' = marked \cup {First})
          /\ Noticed(First, o)
          /\ UNCHANGED <<copy, patch, summary>>
    BY DEF PostsFirst
  <1>2. /\ s \in Offered /\ Tail(due) \in Seq(Offered) /\ Len(Tail(due)) = Len(due) - 1 /\ Len(due) \in Nat \ {0}
        /\ Range(due) = {s} \cup Range(Tail(due))
        /\ (\A i, j \in DOMAIN due : due[i] = due[j] => i = j) =>
              /\ s \notin Range(Tail(due))
              /\ \A i, j \in DOMAIN Tail(due) : Tail(due)[i] = Tail(due)[j] => i = j
    BY <1>t, SuggestTypes, TailIs DEF First
  <1>3. /\ accidents' \in 0 .. MaxAccidents /\ (accidents' = 0 => o = "ok" /\ accidents = 0)
        /\ troubled' = troubled \cup (IF o = "ok" THEN {} ELSE {s})
    BY <1>1, <1>t, SuggestTypes, OutcomesAre
  <1> HIDE DEF s
  <1>4. published' = [published EXCEPT ![s] = @ + k]
    BY <1>1 DEF s
  <1>5. /\ \A x \in Offered : published'[x] = IF x = s THEN published[x] + k ELSE published[x]
        /\ published' \in [Offered -> Nat]
    <2>1. published \in [Offered -> Nat] /\ \A x \in Offered : published[x] \in Nat
      BY <1>t, SuggestTypes
    <2>2. published[s] + k \in Nat
      BY <2>1, <1>2
    <2> QED
      BY <2>1, <2>2, <1>2, <1>4
  <1>6. /\ UNCHANGED <<provider, sort, handed, copy, patch, summary>>
        /\ marked' = marked \/ (provider = "gitlab" /\ marked' = marked \cup {s})
    BY <1>1 DEF s
  <1>7. \/ due' = Tail(due) /\ UNCHANGED <<collected, alone, stage>>
        \/ /\ o # "ok" /\ provider \in {"gitea", "codecommit"}
           /\ stage' = "raised" /\ due' = <<>> /\ collected' = <<>> /\ alone' = <<>>
    BY <1>1 DEF NextOne, Escaped
  <1>8. o = "ok" => k = 1 /\ due' = Tail(due) /\ UNCHANGED <<collected, alone, stage>>
    BY <1>1 DEF NextOne
  <1>9. SuggestTypeOK'
    <2>1. /\ due' \in Seq(Offered) /\ collected' \in Seq(Offered) /\ alone' \in Seq(Offered)
          /\ stage' \in {"call", "between", "done", "raised"}
      BY <1>2, <1>7, <1>t, SuggestTypes
    <2>2. handed' => Len(due') + Len(collected') <= 1
      <3>1. Len(collected) \in Nat /\ Len(due) \in Nat
        BY <1>t, SuggestTypes
      <3> QED
        BY <3>1, <1>2, <1>6, <1>7, <1>t, SuggestTypes
    <2>3. marked' \subseteq Offered /\ troubled' \subseteq Offered
      BY <1>2, <1>3, <1>6, <1>t, SuggestTypes
    <2>4. /\ provider' \in Providers /\ sort' \in [Offered -> Sorts] /\ handed' \in BOOLEAN
          /\ patch' \in [Offered -> SUBSET Offered] /\ copy' \subseteq Offered /\ summary' \subseteq Offered
      BY <1>6, <1>t, SuggestTypes
    <2> QED
      BY <2>1, <2>2, <2>3, <2>4, <1>3, <1>5 DEF SuggestTypeOK
  <1>10. Orderly'
    <2> SUFFICES ASSUME accidents' = 0, provider' # "gitea" PROVE InOrder'
      BY DEF Orderly
    <2>1. InOrder /\ o = "ok" /\ k = 1 /\ due' = Tail(due) /\ UNCHANGED <<collected, alone, stage>>
      BY <1>3, <1>6, <1>8, <1>t DEF Orderly
    <2>2. /\ alone' = <<>> /\ ~handed'
          /\ \A i, j \in DOMAIN due' : due'[i] = due'[j] => i = j
          /\ \A i, j \in DOMAIN collected' : collected'[i] = collected'[j] => i = j
          /\ Range(due') \cap Range(collected') = {} /\ Range(due') \cap summary' = {}
      BY <2>1, <1>2, <1>6 DEF InOrder
    <2>3. s \notin Range(due') \cup Range(collected') \cup summary'
      BY <2>1, <1>2, <1>6 DEF InOrder
    <2>4. ASSUME NEW x \in Offered
          PROVE  published'[x] <= 1 /\ (x \in Waiting' => published'[x] = 0)
      <3>1. CASE x = s
        <4>1. published[s] = 0
          BY <2>1, <1>2 DEF InOrder, Waiting
        <4>2. published'[s] = 1
          BY <4>1, <2>1, <1>2, <1>5
        <4> QED
          BY <3>1, <4>2, <2>3 DEF Waiting
      <3>2. CASE x # s
        BY <3>2, <2>1, <1>2, <1>5, <1>6 DEF InOrder, Waiting
      <3> QED
        BY <3>1, <3>2
    <2>5. provider' # "gerrit"
      BY <1>1, <1>6
    <2> QED
      BY <2>2, <2>4, <2>5 DEF InOrder
  <1>11. GoingOn'
    <2> SUFFICES ASSUME provider' \in {"gitlab", "azure"} \cup Bitbuckets
                 PROVE  /\ stage' # "raised"
                        /\ \A x \in Offered \ troubled' :
                             /\ x \in marked' => published'[x] > 0
                             /\ sort'[x] = "good" =>
                                  published'[x] > 0 \/ x \in Range(due') \cup Range(collected') \cup Range(alone')
      BY DEF GoingOn
    <2>1. provider \in {"gitlab", "azure"} /\ due' = Tail(due) /\ UNCHANGED <<collected, alone, stage>>
      BY <1>1, <1>6, <1>7 DEF Bitbuckets
    <2>2. /\ stage # "raised"
          /\ \A x \in Offered \ troubled :
               /\ x \in marked => published[x] > 0
               /\ sort[x] = "good" =>
                    published[x] > 0 \/ x \in Range(due) \cup Range(collected) \cup Range(alone)
      BY <2>1, <1>t DEF GoingOn
    <2>3. ASSUME NEW x \in Offered \ troubled'
          PROVE  /\ x \in marked' => published'[x] > 0
                 /\ sort'[x] = "good" =>
                      published'[x] > 0 \/ x \in Range(due') \cup Range(collected') \cup Range(alone')
      <3>1. CASE x = s
        <4>1. o = "ok" /\ k = 1 /\ published[s] \in Nat
          BY <3>1, <2>3, <1>2, <1>3, <1>8, <1>t, SuggestTypes
        <4>2. published'[x] > 0
          BY <4>1, <3>1, <1>2, <1>5
        <4> QED
          BY <4>2
      <3>2. CASE x # s
        <4>1. published'[x] = published[x] /\ x \notin troubled /\ (x \in marked' => x \in marked)
          BY <3>2, <2>3, <1>3, <1>5, <1>6
        <4> QED
          BY <4>1, <3>2, <2>1, <2>2, <2>3, <1>2, <1>6
      <3> QED
        BY <3>1, <3>2
    <2> QED
      BY <2>1, <2>2, <2>3
  <1>12. HostsOwn'
    BY <1>1, <1>6, <1>7, <1>t DEF HostsOwn
  <1>13. PatchIsOwn'
    BY <1>6, <1>t DEF PatchIsOwn
  <1> QED
    BY <1>9, <1>10, <1>11, <1>12, <1>13 DEF SuggestInv

LEMMA SkipsKeeps ==
  ASSUME SuggestInv, SkipsFirst, stage = "call", due # <<>>, UNCHANGED <<provider, sort, handed>>
  PROVE  SuggestInv'
  <1> DEFINE s == First
  <1>t. SuggestTypeOK /\ Orderly /\ GoingOn /\ HostsOwn /\ PatchIsOwn
    BY DEF SuggestInv
  <1>1. /\ s \in Offered /\ Tail(due) \in Seq(Offered) /\ Len(Tail(due)) = Len(due) - 1 /\ Len(due) \in Nat \ {0}
        /\ Range(due) = {s} \cup Range(Tail(due))
        /\ (\A i, j \in DOMAIN due : due[i] = due[j] => i = j) =>
              /\ s \notin Range(Tail(due))
              /\ \A i, j \in DOMAIN Tail(due) : Tail(due)[i] = Tail(due)[j] => i = j
    BY <1>t, SuggestTypes, TailIs DEF First
  <1>2. sort[s] # "good" \/ s \in marked
    BY DEF SkipsFirst
  <1> HIDE DEF s
  <1>3. /\ due' = Tail(due) /\ provider \in {"gitlab", "azure"}
        /\ UNCHANGED <<provider, sort, handed, collected, alone, stage, published, marked, copy, patch, summary,
                       troubled, accidents>>
    BY DEF SkipsFirst, Passed, NextOne, board
  <1>4. SuggestTypeOK'
    <2>1. handed' => Len(due') + Len(collected') <= 1
      <3>1. Len(collected) \in Nat
        BY <1>t, SuggestTypes
      <3> QED
        BY <3>1, <1>1, <1>3, <1>t, SuggestTypes
    <2> QED
      BY <2>1, <1>1, <1>3, <1>t DEF SuggestTypeOK
  <1>5. Orderly'
    <2> SUFFICES ASSUME accidents' = 0, provider' # "gitea" PROVE InOrder'
      BY DEF Orderly
    <2>1. InOrder
      BY <1>3, <1>t DEF Orderly
    <2>2. Range(due') \subseteq Range(due) /\ \A i, j \in DOMAIN due' : due'[i] = due'[j] => i = j
      BY <2>1, <1>1, <1>3 DEF InOrder
    <2>3. provider' # "gerrit"
      BY <1>3
    <2> QED
      BY <2>1, <2>2, <2>3, <1>3 DEF InOrder, Waiting
  <1>6. GoingOn'
    <2>1. /\ stage # "raised"
          /\ \A x \in Offered \ troubled :
               /\ x \in marked => published[x] > 0
               /\ sort[x] = "good" =>
                    published[x] > 0 \/ x \in Range(due) \cup Range(collected) \cup Range(alone)
      BY <1>3, <1>t DEF GoingOn
    <2>2. \A x \in Offered \ troubled :
            sort[x] = "good" => published[x] > 0 \/ x \in Range(due') \cup Range(collected) \cup Range(alone)
      BY <2>1, <1>1, <1>2, <1>3
    <2> QED
      BY <2>1, <2>2, <1>3 DEF GoingOn
  <1>7. HostsOwn' /\ PatchIsOwn'
    BY <1>3, <1>t DEF HostsOwn, PatchIsOwn
  <1> QED
    BY <1>4, <1>5, <1>6, <1>7 DEF SuggestInv

LEMMA CollectsKeeps ==
  ASSUME SuggestInv, ToBitbucket, stage = "call", due # <<>>, UNCHANGED <<provider, sort, handed>>
  PROVE  SuggestInv'
  <1> DEFINE s == First
  <1>t. SuggestTypeOK /\ Orderly /\ GoingOn /\ HostsOwn /\ PatchIsOwn
    BY DEF SuggestInv
  <1>1. /\ s \in Offered /\ Tail(due) \in Seq(Offered) /\ Len(Tail(due)) = Len(due) - 1 /\ Len(due) \in Nat \ {0}
        /\ Range(due) = {s} \cup Range(Tail(due))
        /\ (\A i, j \in DOMAIN due : due[i] = due[j] => i = j) =>
              /\ s \notin Range(Tail(due))
              /\ \A i, j \in DOMAIN Tail(due) : Tail(due)[i] = Tail(due)[j] => i = j
    BY <1>t, SuggestTypes, TailIs DEF First
  <1>2. /\ Append(collected, s) \in Seq(Offered) /\ Len(Append(collected, s)) = Len(collected) + 1
        /\ Len(collected) \in Nat /\ Range(Append(collected, s)) = Range(collected) \cup {s}
        /\ (\A i, j \in DOMAIN collected : collected[i] = collected[j] => i = j) /\ s \notin Range(collected) =>
             \A i, j \in DOMAIN Append(collected, s) :
               Append(collected, s)[i] = Append(collected, s)[j] => i = j
    <2>1. s \in Offered /\ collected \in Seq(Offered)
      BY <1>1, <1>t, SuggestTypes
    <2> HIDE DEF s
    <2> QED
      BY <2>1, AppendIs
  <1>3. /\ due' = Tail(due) /\ provider \in Bitbuckets
        /\ collected' = (IF sort[s] = "range" THEN collected ELSE Append(collected, s))
        /\ UNCHANGED <<provider, sort, handed, alone, stage, published, marked, copy, patch, summary,
                       troubled, accidents>>
    BY DEF ToBitbucket, board
  <1> HIDE DEF s
  <1>4. SuggestTypeOK'
    <2>1. collected' \in Seq(Offered) /\ Len(collected') <= Len(collected) + 1 /\ Len(collected') \in Nat
      BY <1>2, <1>3, <1>t, SuggestTypes
    <2>2. handed' => Len(due') + Len(collected') <= 1
      BY <2>1, <1>1, <1>2, <1>3, <1>t, SuggestTypes
    <2> QED
      BY <2>1, <2>2, <1>1, <1>3, <1>t DEF SuggestTypeOK
  <1>5. Range(collected') \subseteq Range(collected) \cup {s}
    BY <1>2, <1>3
  <1>6. Orderly'
    <2> SUFFICES ASSUME accidents' = 0, provider' # "gitea" PROVE InOrder'
      BY DEF Orderly
    <2>1. InOrder
      BY <1>3, <1>t DEF Orderly
    <2>2. /\ s \notin Range(Tail(due)) /\ s \notin Range(collected) /\ s \notin summary
          /\ \A i, j \in DOMAIN due' : due'[i] = due'[j] => i = j
      BY <2>1, <1>1, <1>3 DEF InOrder
    <2>3. \A i, j \in DOMAIN collected' : collected'[i] = collected'[j] => i = j
      <3>1. CASE sort[s] = "range"
        BY <3>1, <2>1, <1>3 DEF InOrder
      <3>2. CASE sort[s] # "range"
        BY <3>2, <2>1, <2>2, <1>2, <1>3 DEF InOrder
      <3> QED
        BY <3>1, <3>2
    <2>4. Range(due') \cap Range(collected') = {} /\ Range(due') \cap summary' = {}
      BY <2>1, <2>2, <1>1, <1>3, <1>5 DEF InOrder
    <2>5. Waiting' \subseteq Waiting
      BY <1>1, <1>3, <1>5 DEF Waiting
    <2>6. \A x \in Offered : published'[x] <= 1 /\ (x \in Waiting' => published'[x] = 0)
      BY <2>1, <2>5, <1>3 DEF InOrder
    <2>7. alone' = <<>> /\ ~handed' /\ provider' # "gerrit"
      BY <2>1, <1>3 DEF InOrder, Bitbuckets
    <2> QED
      BY <2>2, <2>3, <2>4, <2>6, <2>7 DEF InOrder
  <1>7. GoingOn'
    <2>1. /\ stage # "raised"
          /\ \A x \in Offered \ troubled :
               /\ x \in marked => published[x] > 0
               /\ sort[x] = "good" =>
                    published[x] > 0 \/ x \in Range(due) \cup Range(collected) \cup Range(alone)
      BY <1>3, <1>t DEF GoingOn, Bitbuckets
    <2>2. Range(collected) \subseteq Range(collected') /\ (sort[s] = "good" => s \in Range(collected'))
      BY <1>2, <1>3
    <2>3. \A x \in Offered \ troubled :
            sort[x] = "good" => published[x] > 0 \/ x \in Range(due') \cup Range(collected') \cup Range(alone)
      BY <2>1, <2>2, <1>1, <1>3
    <2> QED
      BY <2>1, <2>3, <1>3 DEF GoingOn
  <1>8. HostsOwn' /\ PatchIsOwn'
    BY <1>3, <1>t DEF HostsOwn, PatchIsOwn
  <1> QED
    BY <1>4, <1>6, <1>7, <1>8 DEF SuggestInv

LEMMA GerritKeeps ==
  ASSUME SuggestInv, ToGerrit, stage = "call", due # <<>>, UNCHANGED <<provider, sort, handed>>
  PROVE  SuggestInv'
  <1> DEFINE s == First
  <1>t. SuggestTypeOK /\ Orderly /\ GoingOn /\ HostsOwn /\ PatchIsOwn
    BY DEF SuggestInv
  <1>1. /\ s \in Offered /\ Tail(due) \in Seq(Offered) /\ Len(Tail(due)) = Len(due) - 1 /\ Len(due) \in Nat \ {0}
        /\ Range(due) = {s} \cup Range(Tail(due))
        /\ (\A i, j \in DOMAIN due : due[i] = due[j] => i = j) =>
              /\ s \notin Range(Tail(due))
              /\ \A i, j \in DOMAIN Tail(due) : Tail(due)[i] = Tail(due)[j] => i = j
    BY <1>t, SuggestTypes, TailIs DEF First
  <1>2. PICK o \in Outcomes \ {"lost"}, applied \in BOOLEAN :
          /\ o = "ok" => applied
          /\ IF o = "ok" THEN NextOne ELSE Escaped
          /\ copy' = Reset(IF applied THEN Applied ELSE copy, o = "ok")
          /\ patch' = IF o = "ok" THEN Uploaded ELSE patch
          /\ summary' = IF o = "ok" THEN summary \cup {First} ELSE summary
          /\ Noticed(First, o)
          /\ UNCHANGED <<published, marked>>
    BY DEF ToGerrit
  <1>3. /\ accidents' \in 0 .. MaxAccidents /\ (accidents' = 0 => o = "ok" /\ accidents = 0)
        /\ troubled' = troubled \cup (IF o = "ok" THEN {} ELSE {s})
    BY <1>2, <1>t, SuggestTypes, OutcomesAre
  <1>4. copy = {} /\ provider = "gerrit" /\ collected = <<>> /\ marked = {}
    BY <1>t DEF HostsOwn, ToGerrit, Bitbuckets
  <1>5. Applied = {s} /\ Uploaded = [patch EXCEPT ![s] = {s}]
    BY <1>4 DEF Applied, Uploaded
  <1>6. copy' = (IF o = "ok" THEN {} ELSE IF applied THEN {s} ELSE {})
    BY <1>2, <1>4, <1>5 DEF Reset
  <1>7. patch' = (IF o = "ok" THEN [patch EXCEPT ![s] = {s}] ELSE patch)
    BY <1>2, <1>5
  <1>8. summary' = (IF o = "ok" THEN summary \cup {s} ELSE summary) /\ UNCHANGED <<provider, sort, handed, published, marked>>
    BY <1>2
  <1>9. \/ o = "ok" /\ due' = Tail(due) /\ UNCHANGED <<collected, alone, stage>>
        \/ o # "ok" /\ stage' = "raised" /\ due' = <<>> /\ collected' = <<>> /\ alone' = <<>>
    BY <1>2 DEF NextOne, Escaped
  <1> HIDE DEF s
  <1>10. SuggestTypeOK'
    <2>1. /\ due' \in Seq(Offered) /\ collected' \in Seq(Offered) /\ alone' \in Seq(Offered)
          /\ stage' \in {"call", "between", "done", "raised"}
      BY <1>1, <1>9, <1>t, SuggestTypes
    <2>2. handed' => Len(due') + Len(collected') <= 1
      <3>1. Len(collected) = 0
        BY <1>4
      <3> QED
        BY <3>1, <1>1, <1>8, <1>9, <1>t, SuggestTypes
    <2>3. /\ troubled' \subseteq Offered /\ copy' \subseteq Offered /\ summary' \subseteq Offered
          /\ patch' \in [Offered -> SUBSET Offered]
      BY <1>1, <1>3, <1>6, <1>7, <1>8, <1>t, SuggestTypes
    <2>4. /\ provider' \in Providers /\ sort' \in [Offered -> Sorts] /\ handed' \in BOOLEAN
          /\ published' \in [Offered -> Nat] /\ marked' \subseteq Offered
      BY <1>8, <1>t, SuggestTypes
    <2> QED
      BY <2>1, <2>2, <2>3, <2>4, <1>3 DEF SuggestTypeOK
  <1>11. Orderly'
    <2> SUFFICES ASSUME accidents' = 0, provider' # "gitea" PROVE InOrder'
      BY DEF Orderly
    <2>1. /\ InOrder /\ due' = Tail(due) /\ UNCHANGED <<collected, alone, stage, published, handed>>
          /\ summary' = summary \cup {s}
      BY <1>3, <1>4, <1>8, <1>9, <1>t DEF Orderly
    <2>2. /\ s \notin Range(due') /\ \A i, j \in DOMAIN due' : due'[i] = due'[j] => i = j
      BY <2>1, <1>1 DEF InOrder
    <2>3. Waiting' \subseteq Waiting
      BY <2>1, <1>1 DEF Waiting
    <2>4. Offered \subseteq Range(due') \cup summary'
      BY <2>1, <1>1, <1>4 DEF InOrder
    <2>5. Range(due') \cap Range(collected') = {} /\ Range(due') \cap summary' = {}
      BY <2>1, <2>2, <1>1 DEF InOrder
    <2>6. \A x \in Offered : published'[x] <= 1 /\ (x \in Waiting' => published'[x] = 0)
      BY <2>1, <2>3 DEF InOrder
    <2> QED
      BY <2>1, <2>2, <2>4, <2>5, <2>6 DEF InOrder
  <1>12. GoingOn'
    BY <1>4, <1>8 DEF GoingOn, Bitbuckets
  <1>13. HostsOwn'
    BY <1>4, <1>6, <1>8, <1>9, <1>t DEF HostsOwn
  <1>14. PatchIsOwn'
    BY <1>1, <1>7, <1>t, SuggestTypes DEF PatchIsOwn
  <1> QED
    BY <1>10, <1>11, <1>12, <1>13, <1>14 DEF SuggestInv

LEMMA BitbucketPostsKeeps ==
  ASSUME SuggestInv, BitbucketPosts
  PROVE  SuggestInv'
  <1> DEFINE s == Head(collected)
  <1>t. SuggestTypeOK /\ Orderly /\ GoingOn /\ HostsOwn /\ PatchIsOwn
    BY DEF SuggestInv
  <1>0. provider \in Bitbuckets /\ stage = "call" /\ due = <<>> /\ collected # <<>>
    BY DEF BitbucketPosts
  <1>1. /\ s \in Offered /\ Tail(collected) \in Seq(Offered) /\ Len(Tail(collected)) = Len(collected) - 1
        /\ Len(collected) \in Nat \ {0}
        /\ Range(collected) = {s} \cup Range(Tail(collected))
        /\ (\A i, j \in DOMAIN collected : collected[i] = collected[j] => i = j) =>
              /\ s \notin Range(Tail(collected))
              /\ \A i, j \in DOMAIN Tail(collected) : Tail(collected)[i] = Tail(collected)[j] => i = j
    BY <1>0, <1>t, SuggestTypes, TailIs
  <1>2. PICK o \in Outcomes, heard \in BOOLEAN :
          /\ heard \/ Unread(o)
          /\ Seen(s, o) /\ Noticed(s, o)
          /\ IF o = "ok" \/ ~heard
             THEN collected' = Tail(collected) /\ UNCHANGED <<due, alone, stage>>
             ELSE Returned(FALSE)
    BY DEF BitbucketPosts
  <1>3. /\ accidents' \in 0 .. MaxAccidents /\ (accidents' = 0 => o = "ok" /\ accidents = 0)
        /\ troubled' = troubled \cup (IF o = "ok" THEN {} ELSE {s})
    BY <1>2, <1>t, SuggestTypes, OutcomesAre
  <1> DEFINE k == IF o = "failed" THEN 0 ELSE 1
  <1>4. k \in Nat /\ k <= 1 /\ (o = "ok" => k = 1) /\ published' = [published EXCEPT ![s] = @ + k]
    BY <1>2 DEF Seen
  <1>5. UNCHANGED <<provider, sort, handed, marked, copy, patch, summary>>
    BY DEF BitbucketPosts
  <1>6. \/ collected' = Tail(collected) /\ UNCHANGED <<due, alone, stage>>
        \/ /\ o # "ok" /\ due' = <<>> /\ collected' = <<>> /\ stage' = "between"
           /\ alone' = IF handed THEN alone ELSE Offers
    BY <1>2 DEF Returned
  <1> HIDE DEF s, k
  <1>7. /\ \A x \in Offered : published'[x] = IF x = s THEN published[x] + k ELSE published[x]
        /\ published' \in [Offered -> Nat]
    <2>1. published \in [Offered -> Nat] /\ \A x \in Offered : published[x] \in Nat
      BY <1>t, SuggestTypes
    <2>2. published[s] + k \in Nat
      BY <2>1, <1>1, <1>4
    <2> QED
      BY <2>1, <2>2, <1>1, <1>4
  <1>8. SuggestTypeOK'
    <2>1. /\ due' \in Seq(Offered) /\ collected' \in Seq(Offered) /\ alone' \in Seq(Offered)
          /\ stage' \in {"call", "between", "done", "raised"}
      BY <1>1, <1>6, <1>t, SuggestTypes
    <2>2. handed' => Len(due') + Len(collected') <= 1
      <3>1. Len(due) = 0
        BY <1>0
      <3> QED
        BY <3>1, <1>1, <1>5, <1>6, <1>t, SuggestTypes
    <2>3. troubled' \subseteq Offered
      BY <1>1, <1>3, <1>t, SuggestTypes
    <2>4. /\ provider' \in Providers /\ sort' \in [Offered -> Sorts] /\ handed' \in BOOLEAN
          /\ patch' \in [Offered -> SUBSET Offered] /\ marked' \subseteq Offered /\ copy' \subseteq Offered
          /\ summary' \subseteq Offered
      BY <1>5, <1>t, SuggestTypes
    <2> QED
      BY <2>1, <2>2, <2>3, <2>4, <1>3, <1>7 DEF SuggestTypeOK
  <1>9. Orderly'
    <2> SUFFICES ASSUME accidents' = 0, provider' # "gitea" PROVE InOrder'
      BY DEF Orderly
    <2>1. InOrder /\ o = "ok" /\ k = 1 /\ collected' = Tail(collected) /\ UNCHANGED <<due, alone, stage>>
      BY <1>3, <1>4, <1>5, <1>6, <1>t DEF Orderly
    <2>2. /\ alone' = <<>> /\ ~handed' /\ provider' # "gerrit"
          /\ \A i, j \in DOMAIN due' : due'[i] = due'[j] => i = j
          /\ \A i, j \in DOMAIN collected' : collected'[i] = collected'[j] => i = j
          /\ Range(due') \cap Range(collected') = {} /\ Range(due') \cap summary' = {}
      BY <2>1, <1>0, <1>1, <1>5 DEF InOrder, Bitbuckets
    <2>3. s \notin Waiting'
      <3>1. Range(due') = {} /\ summary' = {}
        BY <2>1, <1>0, <1>5, <1>t, EmptyRange DEF HostsOwn, Bitbuckets
      <3>2. s \notin Range(collected')
        BY <2>1, <1>1 DEF InOrder
      <3> QED
        BY <3>1, <3>2 DEF Waiting
    <2>4. ASSUME NEW x \in Offered
          PROVE  published'[x] <= 1 /\ (x \in Waiting' => published'[x] = 0)
      <3>1. CASE x = s
        <4>1. published[s] = 0
          BY <2>1, <1>1 DEF InOrder, Waiting
        <4>2. published'[s] = 1
          BY <4>1, <2>1, <1>1, <1>7
        <4> QED
          BY <3>1, <4>2, <2>3
      <3>2. CASE x # s
        <4>1. published'[x] = published[x] /\ Waiting' \subseteq Waiting
          BY <3>2, <2>1, <1>1, <1>5, <1>7 DEF Waiting
        <4> QED
          BY <4>1, <2>1 DEF InOrder
      <3> QED
        BY <3>1, <3>2
    <2> QED
      BY <2>2, <2>4 DEF InOrder
  <1>10. GoingOn'
    <2>1. /\ stage # "raised"
          /\ \A x \in Offered \ troubled :
               /\ x \in marked => published[x] > 0
               /\ sort[x] = "good" =>
                    published[x] > 0 \/ x \in Range(due) \cup Range(collected) \cup Range(alone)
      BY <1>0, <1>t DEF GoingOn
    <2>2. marked' = {} /\ stage' # "raised"
      BY <1>0, <1>5, <1>6, <1>t DEF HostsOwn, Bitbuckets
    <2>3. ASSUME NEW x \in Offered \ troubled', sort[x] = "good"
          PROVE  published'[x] > 0 \/ x \in Range(due') \cup Range(collected') \cup Range(alone')
      <3>1. CASE x = s
        <4>1. o = "ok" /\ k = 1 /\ published[s] \in Nat
          BY <3>1, <2>3, <1>1, <1>3, <1>4, <1>t, SuggestTypes
        <4>2. published'[x] > 0
          BY <4>1, <3>1, <1>1, <1>7
        <4> QED
          BY <4>2
      <3>2. CASE x # s /\ collected' = Tail(collected) /\ UNCHANGED <<due, alone, stage>>
        <4>1. published'[x] = published[x] /\ x \notin troubled
          BY <3>2, <2>3, <1>3, <1>7
        <4> QED
          BY <4>1, <3>2, <2>1, <2>3, <1>1
      <3>3. CASE /\ x # s /\ o # "ok" /\ due' = <<>> /\ collected' = <<>> /\ stage' = "between"
                 /\ alone' = IF handed THEN alone ELSE Offers
        <4>1. CASE handed
          <5>1. published'[x] = published[x] /\ x \notin troubled
            BY <3>3, <2>3, <1>3, <1>7
          <5>2. Range(collected) = {s} /\ Range(due) = {}
            <6>1. Len(due) = 0 /\ Len(collected) = 1
              BY <4>1, <1>0, <1>1, <1>t, SuggestTypes
            <6>2. Tail(collected) \in Seq(Offered) /\ Len(Tail(collected)) = 0
              BY <6>1, <1>1
            <6>3. \A q \in Seq(Offered) : Len(q) = 0 => q = <<>>
              OBVIOUS
            <6>4. Tail(collected) = <<>>
              BY <6>2, <6>3
            <6> QED
              BY <6>4, <1>0, <1>1, EmptyRange
          <5> QED
            BY <5>1, <5>2, <4>1, <3>3, <2>1, <2>3
        <4>2. CASE ~handed
          BY <4>2, <3>3 DEF Offered, Range
        <4> QED
          BY <4>1, <4>2
      <3> QED
        BY <3>1, <3>2, <3>3, <1>6
    <2> QED
      BY <2>2, <2>3, <1>5 DEF GoingOn
  <1>11. HostsOwn'
    BY <1>0, <1>5, <1>6, <1>t DEF HostsOwn, Bitbuckets
  <1>12. PatchIsOwn'
    BY <1>5, <1>t DEF PatchIsOwn
  <1> QED
    BY <1>8, <1>9, <1>10, <1>11, <1>12 DEF SuggestInv

LEMMA GerritCommentKeeps ==
  ASSUME SuggestInv, GerritComment
  PROVE  SuggestInv'
  <1>t. SuggestTypeOK /\ Orderly /\ GoingOn /\ HostsOwn /\ PatchIsOwn
    BY DEF SuggestInv
  <1>0. /\ provider = "gerrit" /\ stage = "call" /\ due = <<>> /\ summary' = {}
        /\ UNCHANGED <<provider, sort, handed, marked, copy, patch>>
    BY DEF GerritComment
  <1>1. PICK o \in Outcomes :
          /\ published' = [s \in Offered |-> published[s] + (IF s \in summary /\ o # "failed" THEN 1 ELSE 0)]
          /\ troubled' = troubled \cup (IF o = "ok" THEN {} ELSE summary)
          /\ accidents' = accidents + (IF o = "ok" THEN 0 ELSE 1)
          /\ IF o = "ok" THEN Returned(TRUE) ELSE Escaped
    BY DEF GerritComment
  <1>2. accidents' \in 0 .. MaxAccidents /\ (accidents' = 0 => o = "ok" /\ accidents = 0)
    <2>1. o # "ok" => accidents < MaxAccidents
      BY DEF Outcomes
    <2> QED
      BY <2>1, <1>1, <1>t, SuggestTypes
  <1>3. collected = <<>> /\ copy = {} /\ marked = {}
    BY <1>0, <1>t DEF HostsOwn, Bitbuckets
  <1>4. /\ due' = <<>> /\ collected' = <<>> /\ alone' \in {alone, <<>>}
        /\ (o = "ok" => stage' = "between" /\ alone' = alone)
        /\ (o # "ok" => stage' = "raised")
    BY <1>1 DEF Returned, Escaped
  <1>5. \A s \in Offered : published'[s] = published[s] + (IF s \in summary /\ o # "failed" THEN 1 ELSE 0)
    BY <1>1
  <1>6. SuggestTypeOK'
    <2>1. published' \in [Offered -> Nat]
      BY <1>1, <1>t, SuggestTypes
    <2>2. troubled' \subseteq Offered /\ alone' \in Seq(Offered) /\ stage' \in {"call", "between", "done", "raised"}
      BY <1>1, <1>4, <1>t, SuggestTypes
    <2>3. due' \in Seq(Offered) /\ collected' \in Seq(Offered) /\ Len(due') + Len(collected') <= 1
      BY <1>4, <1>t, SuggestTypes
    <2> QED
      BY <2>1, <2>2, <2>3, <1>0, <1>2, <1>t DEF SuggestTypeOK
  <1>7. Orderly'
    <2> SUFFICES ASSUME accidents' = 0, provider' # "gitea" PROVE InOrder'
      BY DEF Orderly
    <2>1. InOrder /\ alone' = <<>> /\ ~handed' /\ stage' = "between"
      BY <1>0, <1>2, <1>4, <1>t DEF Orderly, InOrder
    <2>2. Waiting' = {}
      BY <1>0, <1>4, EmptyRange DEF Waiting
    <2>3. ASSUME NEW s \in Offered PROVE published'[s] <= 1
      <3>1. published[s] \in Nat /\ published[s] <= 1 /\ (s \in summary => published[s] = 0)
        BY <2>1, <1>t, SuggestTypes DEF InOrder, Waiting
      <3>2. published'[s] = published[s] \/ (s \in summary /\ published'[s] = published[s] + 1)
        BY <3>1, <1>5
      <3> QED
        BY <3>1, <3>2
    <2>4. /\ \A i, j \in DOMAIN due' : due'[i] = due'[j] => i = j
          /\ \A i, j \in DOMAIN collected' : collected'[i] = collected'[j] => i = j
      BY <1>4
    <2> QED
      BY <2>1, <2>2, <2>3, <2>4 DEF InOrder, Waiting
  <1>8. GoingOn' /\ PatchIsOwn'
    BY <1>0, <1>t DEF GoingOn, Bitbuckets, PatchIsOwn
  <1>9. HostsOwn'
    BY <1>0, <1>3, <1>4 DEF HostsOwn
  <1> QED
    BY <1>6, <1>7, <1>8, <1>9 DEF SuggestInv

LEMMA ReturnKeeps ==
  ASSUME SuggestInv, Return
  PROVE  SuggestInv'
  <1>t. SuggestTypeOK /\ Orderly /\ GoingOn /\ HostsOwn /\ PatchIsOwn
    BY DEF SuggestInv
  <1>0. stage = "call" /\ due = <<>> /\ collected = <<>> /\ summary = {}
    BY DEF Return
  <1>1. /\ due' = <<>> /\ collected' = <<>> /\ stage' = "between"
        /\ alone' = (IF provider \notin {"gitea", "gerrit"} \/ handed THEN alone ELSE Offers)
        /\ UNCHANGED <<provider, sort, handed, published, marked, copy, patch, summary, troubled, accidents>>
    BY DEF Return, Returned, board
  <1>2. SuggestTypeOK'
    BY <1>0, <1>1, <1>t, SuggestTypes DEF SuggestTypeOK
  <1>3. Orderly'
    <2> SUFFICES ASSUME accidents' = 0, provider' # "gitea" PROVE InOrder'
      BY DEF Orderly
    <2>1. InOrder
      BY <1>1, <1>t DEF Orderly
    <2>2. provider = "gerrit" => Offers = <<>>
      <3> SUFFICES ASSUME provider = "gerrit" PROVE Offers = <<>>
        OBVIOUS
      <3>1. Offered = {}
        BY <2>1, <1>0, EmptyRange DEF InOrder
      <3>2. Offers \in Seq(Offered)
        BY <1>t, SuggestTypes
      <3> QED
        BY <3>1, <3>2
    <2>3. alone' = <<>>
      BY <2>1, <2>2, <1>1 DEF InOrder
    <2> QED
      BY <2>1, <2>3, <1>0, <1>1 DEF InOrder, Waiting
  <1>4. GoingOn'
    <2>1. provider \in {"gitlab", "azure"} \cup Bitbuckets => alone' = alone
      BY <1>1 DEF Bitbuckets
    <2> QED
      BY <2>1, <1>0, <1>1, <1>t DEF GoingOn
  <1>5. HostsOwn' /\ PatchIsOwn'
    BY <1>0, <1>1, <1>t DEF HostsOwn, PatchIsOwn
  <1> QED
    BY <1>2, <1>3, <1>4, <1>5 DEF SuggestInv

LEMMA HandOverKeeps ==
  ASSUME SuggestInv, HandOver
  PROVE  SuggestInv'
  <1>t. SuggestTypeOK /\ Orderly /\ GoingOn /\ HostsOwn /\ PatchIsOwn
    BY DEF SuggestInv
  <1>0. stage = "between" /\ alone # <<>> /\ due = <<>> /\ collected = <<>> /\ summary = {}
    BY <1>t DEF HandOver, HostsOwn
  <1>1. /\ due' = <<Head(alone)>> /\ alone' = Tail(alone) /\ handed' = TRUE /\ stage' = "call"
        /\ UNCHANGED <<provider, sort, collected, published, marked, copy, patch, summary, troubled, accidents>>
    BY DEF HandOver, board
  <1>2. Head(alone) \in Offered /\ Tail(alone) \in Seq(Offered) /\ Range(alone) = {Head(alone)} \cup Range(Tail(alone))
    BY <1>0, <1>t, SuggestTypes, TailIs
  <1>3. due' \in Seq(Offered) /\ Len(due') = 1 /\ Range(due') = {Head(alone)}
    BY <1>1, <1>2 DEF Range
  <1>4. SuggestTypeOK'
    <2>1. Len(due') + Len(collected') <= 1
      BY <1>0, <1>1, <1>3
    <2> QED
      BY <2>1, <1>1, <1>2, <1>3, <1>t DEF SuggestTypeOK
  <1>5. Orderly'
    BY <1>0, <1>1, <1>t DEF Orderly, InOrder
  <1>6. GoingOn'
    BY <1>0, <1>1, <1>2, <1>3, <1>t, EmptyRange DEF GoingOn
  <1>7. HostsOwn' /\ PatchIsOwn'
    BY <1>0, <1>1, <1>t DEF HostsOwn, PatchIsOwn
  <1> QED
    BY <1>4, <1>5, <1>6, <1>7 DEF SuggestInv

LEMMA FinishKeeps ==
  ASSUME SuggestInv, Finish
  PROVE  SuggestInv'
  <1>t. SuggestTypeOK /\ Orderly /\ GoingOn /\ HostsOwn /\ PatchIsOwn
    BY DEF SuggestInv
  <1>1. /\ stage = "between" /\ alone = <<>> /\ stage' = "done"
        /\ UNCHANGED <<provider, sort, due, collected, alone, handed, published, marked, copy, patch, summary,
                       troubled, accidents>>
    BY DEF Finish, board
  <1>2. SuggestTypeOK'
    BY <1>1, <1>t DEF SuggestTypeOK
  <1>3. Orderly'
    BY <1>1, <1>t DEF Orderly, InOrder, Waiting
  <1>4. GoingOn' /\ HostsOwn' /\ PatchIsOwn'
    BY <1>1, <1>t DEF GoingOn, HostsOwn, PatchIsOwn
  <1> QED
    BY <1>2, <1>3, <1>4 DEF SuggestInv

LEMMA SuggestStep == SuggestInv /\ [SuggestNext]_suggestVars => SuggestInv'
  <1> SUFFICES ASSUME SuggestInv, [SuggestNext]_suggestVars PROVE SuggestInv'
    OBVIOUS
  <1>1. CASE Publish
    BY <1>1, PublishIs, PostsKeeps, SkipsKeeps, CollectsKeeps, GerritKeeps
  <1>2. CASE BitbucketPosts \/ GerritComment \/ Return \/ HandOver \/ Finish
    BY <1>2, BitbucketPostsKeeps, GerritCommentKeeps, ReturnKeeps, HandOverKeeps, FinishKeeps
  <1>3. CASE UNCHANGED suggestVars
    BY <1>3 DEF suggestVars, SuggestInv, SuggestTypeOK, Orderly, InOrder, Waiting, GoingOn, HostsOwn, PatchIsOwn
  <1> QED
    BY <1>1, <1>2, <1>3 DEF SuggestNext

LEMMA SuggestStart == SuggestInit => SuggestInv
  <1> SUFFICES ASSUME SuggestInit PROVE SuggestInv
    OBVIOUS
  <1>1. Range(Offers) = Offered /\ Offers \in Seq(Offered) /\ <<>> \in Seq(Offered)
    BY SuggestAssumption DEF Range, Offered
  <1>2. SuggestTypeOK
    <2>1. accidents \in 0 .. MaxAccidents
      BY SuggestAssumption DEF SuggestInit
    <2>2. ~handed /\ handed \in BOOLEAN
      BY DEF SuggestInit
    <2>3. published \in [Offered -> Nat] /\ patch \in [Offered -> SUBSET Offered]
      BY DEF SuggestInit
    <2> QED
      BY <1>1, <2>1, <2>2, <2>3 DEF SuggestInit, SuggestTypeOK
  <1>3. Orderly
    <2>1. \A i, j \in DOMAIN due : due[i] = due[j] => i = j
      BY SuggestAssumption DEF SuggestInit
    <2> QED
      BY <2>1, <1>1, EmptyRange DEF SuggestInit, Orderly, InOrder, Waiting
  <1>4. GoingOn
    BY <1>1 DEF SuggestInit, GoingOn
  <1>5. HostsOwn /\ PatchIsOwn
    BY DEF SuggestInit, HostsOwn, PatchIsOwn
  <1> QED
    BY <1>2, <1>3, <1>4, <1>5 DEF SuggestInv

\* Types of the suggestions on the other hosts; a call for one has no other.
THEOREM SuggestTypeCorrect == SuggestSpec => []SuggestTypeOK
  <1>1. SuggestInv => SuggestTypeOK
    BY DEF SuggestInv
  <1> QED
    BY <1>1, SuggestStart, SuggestStep, PTL DEF SuggestSpec

\* On every host but Gitea nothing is published twice unless a call went wrong;
\* on those that go on, every good suggestion the host did not refuse is there;
\* and a patch uploaded to Gerrit holds its own suggestion only.
THEOREM EachAlone == SuggestSpec => []StandAlone
  <1>1. SuggestInv => StandAlone
    <2> SUFFICES ASSUME SuggestInv PROVE StandAlone
      OBVIOUS
    <2>t. SuggestTypeOK /\ Orderly /\ GoingOn /\ HostsOwn /\ PatchIsOwn
      BY DEF SuggestInv
    <2>1. OnceUnlessTrouble
      <3> SUFFICES ASSUME provider # "gitea", NEW s \in Offered, published[s] > 1
                   PROVE  accidents > 0
        BY DEF OnceUnlessTrouble, RepeatedForCause
      <3>1. accidents # 0
        <4> SUFFICES ASSUME accidents = 0 PROVE FALSE
          OBVIOUS
        <4>1. published[s] <= 1 /\ published[s] \in Nat
          BY <2>t, SuggestTypes DEF Orderly, InOrder
        <4> QED
          BY <4>1
      <3> QED
        BY <3>1, <2>t, SuggestTypes
    <2>2. RestPublished
      BY <2>t, EmptyRange DEF RestPublished, GoingOn, HostsOwn
    <2> QED
      BY <2>1, <2>2, <2>t DEF StandAlone
  <1> QED
    BY <1>1, SuggestStart, SuggestStep, PTL DEF SuggestSpec

-----------------------------------------------------------------------------
(* The conversation.                                                       *)

\* What is good of one comment, given the runs, and whether one of them had
\* nothing to suggest.
TablesGood(kind, tables, empty) ==
  /\ tables \in Seq(Tables)
  /\ kind # "suggestions" => Len(tables) =< 1
  /\ kind = "suggestions" /\ ~empty => tables # <<>> /\ \A i \in DOMAIN tables : tables[i].dated
  /\ ~empty => Len(tables) =< MaxHistory + 1
CommentGood(c, cmds, empty) ==
  /\ c \in CommentRecords /\ c.owner \in DOMAIN cmds
  /\ TablesGood(c.kind, c.tables, empty)
  /\ c.kind \in {"temporary", "progress"} =>
       cmds[c.owner].tool # "kenny" /\ c.kind = Placeholder(cmds[c.owner].tool)

\* What is good of a set of comments made before time t.
Sound(cs, cmds, empty, t) ==
  /\ \A c \in cs : CommentGood(c, cmds, empty) /\ c.at < t
  /\ \A c, d \in cs : c.at = d.at => c = d
  /\ \A c, d \in cs : c.owner = d.owner /\ c.kind \in {"temporary", "progress"} /\ d.kind = c.kind => c = d

LEMMA SoundNow ==
  ASSUME TalkInv
  PROVE  Sound(conversation, commands, "empty" \in mishaps, clock) /\ clock \in Nat
  <1>1. ASSUME NEW c \in conversation
        PROVE  CommentGood(c, commands, "empty" \in mishaps) /\ c.at < clock
    <2>1. /\ c \in CommentRecords /\ c.owner \in DOMAIN commands /\ c.at < clock
          /\ c.kind \in {"temporary", "progress"} =>
               commands[c.owner].tool # "kenny" /\ c.kind = Placeholder(commands[c.owner].tool)
      BY <1>1 DEF TalkInv, TalkTypeOK, OneAnnouncement
    <2>2. TablesGood(c.kind, c.tables, "empty" \in mishaps)
      BY <1>1, <2>1 DEF TalkInv, Dated, Tidy, HistoryBounded, HistoryEnforced, TablesGood, CommentRecords
    <2> QED
      BY <2>1, <2>2 DEF CommentGood
  <1> QED
    BY <1>1 DEF Sound, TalkInv, TalkTypeOK, OneAnnouncement

\* What is not an announcement.
Answering == {"review", "suggestions", "kenny", "notice"}

LEMMA RewrittenIs ==
  ASSUME NEW c \in CommentRecords, NEW kind \in Answering, NEW tables \in Seq(Tables)
  PROVE  Rewritten(c, kind, tables) \in CommentRecords
  BY DEF CommentRecords, Rewritten, Answering

\* The comments edited, and the others.
LEMMA EditedIs ==
  ASSUME NEW cs, \A c \in cs : c \in CommentRecords, NEW which, NEW kind, NEW tables
  PROVE  /\ \A x \in Edited(cs, which, kind, tables) :
              \/ x \in cs /\ x \notin which
              \/ \E c \in cs \cap which : x.at = c.at /\ x.owner = c.owner /\ x.kind = kind /\ x.tables = tables
                                          /\ x = Rewritten(c, kind, tables)
         /\ \A c \in cs : c \notin which => c \in Edited(cs, which, kind, tables)
         /\ \A c \in cs \cap which : Rewritten(c, kind, tables) \in Edited(cs, which, kind, tables)
  <1>1. ASSUME NEW c \in cs
        PROVE  LET x == Rewritten(c, kind, tables)
               IN x.at = c.at /\ x.owner = c.owner /\ x.kind = kind /\ x.tables = tables
    BY <1>1 DEF CommentRecords, Rewritten
  <1>2. \A x \in Edited(cs, which, kind, tables) :
              \/ x \in cs /\ x \notin which
              \/ \E c \in cs \cap which : x = Rewritten(c, kind, tables)
    BY DEF Edited
  <1>3. \A x \in Edited(cs, which, kind, tables) :
              \/ x \in cs /\ x \notin which
              \/ \E c \in cs \cap which : x.at = c.at /\ x.owner = c.owner /\ x.kind = kind /\ x.tables = tables
                                          /\ x = Rewritten(c, kind, tables)
    BY <1>1, <1>2
  <1>4. \A c \in cs : c \notin which => c \in Edited(cs, which, kind, tables)
    BY DEF Edited
  <1>5. \A c \in cs \cap which : Rewritten(c, kind, tables) \in Edited(cs, which, kind, tables)
    BY DEF Edited
  <1> QED
    BY <1>3, <1>4, <1>5

LEMMA EditedNothing ==
  ASSUME NEW cs, NEW which, which \cap cs = {}, NEW kind, NEW tables
  PROVE  Edited(cs, which, kind, tables) = cs
  <1>1. \A c \in cs : (IF c \in which THEN Rewritten(c, kind, tables) ELSE c) = c
    OBVIOUS
  <1> QED
    BY <1>1 DEF Edited

LEMMA EditedKind ==
  ASSUME NEW cs, \A c \in cs : c \in CommentRecords, NEW which, NEW kind, NEW tables
  PROVE  \A x \in Edited(cs, which, kind, tables) : (x \in cs /\ x \notin which) \/ (x.kind = kind /\ x.tables = tables)
  <1>1. \A c \in cs : Rewritten(c, kind, tables).kind = kind /\ Rewritten(c, kind, tables).tables = tables
    BY DEF CommentRecords, Rewritten
  <1>2. \A x \in Edited(cs, which, kind, tables) :
          \/ x \in cs /\ x \notin which
          \/ \E c \in cs \cap which : x = Rewritten(c, kind, tables)
    BY DEF Edited
  <1> QED
    BY <1>1, <1>2

LEMMA SoundIsTyped ==
  ASSUME NEW cs, NEW cmds, NEW empty, NEW t, Sound(cs, cmds, empty, t)
  PROVE  \A c \in cs : c \in CommentRecords
  BY DEF Sound, CommentGood

LEMMA SoundEdit ==
  ASSUME NEW cs, NEW cmds, NEW empty, NEW t, Sound(cs, cmds, empty, t),
         NEW which, NEW kind \in Answering, NEW tables, TablesGood(kind, tables, empty)
  PROVE  Sound(Edited(cs, which, kind, tables), cmds, empty, t)
  <1> DEFINE new == Edited(cs, which, kind, tables)
  <1>0. \A c \in cs : c \in CommentRecords
    BY SoundIsTyped
  <1>1. \A x \in new :
          \/ x \in cs /\ x \notin which
          \/ \E c \in cs \cap which : x.at = c.at /\ x.owner = c.owner /\ x.kind = kind /\ x.tables = tables
                                      /\ x = Rewritten(c, kind, tables)
    BY <1>0, EditedIs, SMTT(30)
  <1>2. kind \in Answering /\ kind \notin {"temporary", "progress"} /\ tables \in Seq(Tables)
    BY DEF Answering, TablesGood
  <1> HIDE DEF new
  <1>3. ASSUME NEW x \in new
        PROVE  CommentGood(x, cmds, empty) /\ x.at < t
    <2>1. CASE x \in cs
      BY <2>1 DEF Sound
    <2>2. CASE x \notin cs
      <3>1. PICK c \in cs : x.at = c.at /\ x.owner = c.owner /\ x.kind = kind /\ x.tables = tables
                            /\ x = Rewritten(c, kind, tables)
        BY <1>1, <1>3, <2>2
      <3>2. CommentGood(c, cmds, empty) /\ c.at < t
        BY DEF Sound
      <3>3. x \in CommentRecords
        BY <1>2, <3>1, <3>2, RewrittenIs DEF CommentGood
      <3> QED
        BY <1>2, <3>1, <3>2, <3>3 DEF CommentGood
    <2> QED
      BY <2>1, <2>2
  <1>4. ASSUME NEW x \in new, NEW y \in new, x.at = y.at
        PROVE  x = y
    <2>1. \A c, d \in cs : c.at = d.at => c = d
      BY DEF Sound
    <2> QED
      BY <1>1, <1>4, <2>1
  <1>5. ASSUME NEW x \in new, NEW y \in new, x.owner = y.owner, x.kind \in {"temporary", "progress"}, y.kind = x.kind
        PROVE  x = y
    <2>1. x \in cs /\ y \in cs
      BY <1>1, <1>2, <1>5
    <2> QED
      BY <1>5, <2>1 DEF Sound
  <1> QED
    BY <1>3, <1>4, <1>5 DEF Sound, new

LEMMA SoundAdd ==
  ASSUME NEW cs, NEW cmds, NEW empty, Sound(cs, cmds, empty, clock), clock \in Nat,
         NEW r \in DOMAIN cmds, r \in Nat, NEW kind \in Answering, NEW tables, TablesGood(kind, tables, empty)
  PROVE  Sound(cs \cup {Comment(r, kind, tables)}, cmds, empty, clock + 1)
  <1> DEFINE n == Comment(r, kind, tables)
  <1>1. n.at = clock /\ n.owner = r /\ n.kind = kind /\ n.tables = tables /\ n \in CommentRecords
    BY DEF Comment, CommentRecords, Answering, TablesGood
  <1>2. kind \notin {"temporary", "progress"}
    BY DEF Answering
  <1> HIDE DEF n
  <1>3. CommentGood(n, cmds, empty) /\ n.at < clock + 1
    BY <1>1, <1>2 DEF CommentGood
  <1>4. \A c \in cs : CommentGood(c, cmds, empty) /\ c.at < clock /\ c.at \in Nat
    BY DEF Sound, CommentGood, CommentRecords
  <1>5. \A c \in cs : c.at < clock + 1
    BY <1>4
  <1>6. \A c, d \in cs \cup {n} : c.at = d.at => c = d
    BY <1>1, <1>4 DEF Sound
  <1>7. \A c, d \in cs \cup {n} : c.owner = d.owner /\ c.kind \in {"temporary", "progress"} /\ d.kind = c.kind => c = d
    BY <1>1, <1>2 DEF Sound
  <1> QED
    BY <1>3, <1>4, <1>5, <1>6, <1>7 DEF Sound, n

LEMMA SoundLess ==
  ASSUME NEW cs, NEW cmds, NEW empty, NEW t, Sound(cs, cmds, empty, t), NEW less \in SUBSET cs
  PROVE  Sound(less, cmds, empty, t)
  BY DEF Sound

LEMMA SoundLater ==
  ASSUME NEW cs, NEW cmds, NEW empty, Sound(cs, cmds, empty, clock), clock \in Nat
  PROVE  Sound(cs, cmds, empty, clock + 1)
  <1>1. \A c \in cs : CommentGood(c, cmds, empty) /\ c.at < clock /\ c.at \in Nat
    BY DEF Sound, CommentGood, CommentRecords
  <1>2. \A c \in cs : c.at < clock + 1
    BY <1>1
  <1> QED
    BY <1>2 DEF Sound

\* Once a run has had nothing to suggest, less is asked of the tables.
LEMMA SoundEmpty ==
  ASSUME NEW cs, NEW cmds, NEW empty, NEW t, Sound(cs, cmds, empty, t)
  PROVE  Sound(cs, cmds, TRUE, t)
  <1>1. \A c \in cs : CommentGood(c, cmds, empty) => CommentGood(c, cmds, TRUE)
    BY DEF CommentGood, TablesGood
  <1> QED
    BY <1>1 DEF Sound

-----------------------------------------------------------------------------
(* What a run does to the conversation.                                    *)

Pending == {"temporary", "progress"}

\* No comment of these kinds is new.
NoneNew(cs, kinds) == \A c \in cs : c.kind \in kinds => c \in conversation

\* What is good of the comments while run r publishes.
Good(r, cs, empty, t) ==
  /\ Sound(cs, commands, empty, t)
  /\ \A c \in conversation : c.kind \in Pending /\ c.owner # r => c \in cs
  /\ NoneNew(cs, Pending)

LEMMA GoodNow ==
  ASSUME TalkInv, NEW r
  PROVE  /\ Good(r, conversation, "empty" \in mishaps, clock)
         /\ \A kinds : NoneNew(conversation, kinds)
  BY SoundNow DEF Good, NoneNew

LEMMA GoodEdit ==
  ASSUME NEW r, NEW cs, NEW empty, NEW t, Good(r, cs, empty, t),
         NEW which, \A c \in which : c.kind \in Pending => c.owner = r,
         NEW kind \in Answering, NEW tables, TablesGood(kind, tables, empty)
  PROVE  Good(r, Edited(cs, which, kind, tables), empty, t)
  <1>1. Sound(Edited(cs, which, kind, tables), commands, empty, t)
    BY SoundEdit DEF Good
  <1>2. \A c \in cs : c \in CommentRecords
    BY SoundIsTyped DEF Good
  <1>3. kind \notin Pending
    BY DEF Answering, Pending
  <1>4. \A c \in cs : c \notin which => c \in Edited(cs, which, kind, tables)
    BY <1>2, EditedIs
  <1>5. \A x \in Edited(cs, which, kind, tables) : x \in cs \/ x.kind = kind
    BY <1>2, EditedKind
  <1> QED
    BY <1>1, <1>3, <1>4, <1>5 DEF Good, NoneNew

LEMMA NoneNewEdit ==
  ASSUME NEW r, NEW cs, NEW empty, NEW t, Good(r, cs, empty, t),
         NEW kinds, NoneNew(cs, kinds), NEW which, NEW kind, kind \notin kinds, NEW tables
  PROVE  NoneNew(Edited(cs, which, kind, tables), kinds)
  <1>1. \A c \in cs : c \in CommentRecords
    BY SoundIsTyped DEF Good
  <1>2. \A x \in Edited(cs, which, kind, tables) : x \in cs \/ x.kind = kind
    BY <1>1, EditedKind
  <1> QED
    BY <1>2 DEF NoneNew

LEMMA GoodAdd ==
  ASSUME NEW r \in DOMAIN commands, r \in Nat, clock \in Nat, NEW cs, NEW empty, Good(r, cs, empty, clock),
         NEW kind \in Answering, NEW tables, TablesGood(kind, tables, empty)
  PROVE  Good(r, cs \cup {Comment(r, kind, tables)}, empty, clock + 1)
  <1>1. Sound(cs \cup {Comment(r, kind, tables)}, commands, empty, clock + 1)
    BY SoundAdd DEF Good
  <1>2. Comment(r, kind, tables).kind \notin Pending
    BY DEF Answering, Pending, Comment
  <1> QED
    BY <1>1, <1>2 DEF Good, NoneNew

LEMMA NoneNewAdd ==
  ASSUME NEW r, NEW cs, NEW kinds, NoneNew(cs, kinds), NEW kind, kind \notin kinds, NEW tables
  PROVE  NoneNew(cs \cup {Comment(r, kind, tables)}, kinds)
  <1>1. Comment(r, kind, tables).kind = kind
    BY DEF Comment
  <1> QED
    BY <1>1 DEF NoneNew

LEMMA GoodLess ==
  ASSUME NEW r, NEW cs, NEW empty, NEW t, Good(r, cs, empty, t),
         NEW gone, \A c \in gone : c.kind \in Pending => c.owner = r
  PROVE  Good(r, cs \ gone, empty, t)
  <1>1. Sound(cs \ gone, commands, empty, t)
    BY SoundLess DEF Good
  <1> QED
    BY <1>1 DEF Good, NoneNew

LEMMA GoodLater ==
  ASSUME NEW r, NEW cs, NEW empty, Good(r, cs, empty, clock), clock \in Nat
  PROVE  Good(r, cs, empty, clock + 1) /\ Good(r, cs, TRUE, clock)
  BY SoundLater, SoundEmpty DEF Good

\* The answer of a run, alone.
LEMMA OneTable ==
  ASSUME NEW r \in Nat, NEW empty
  PROVE  /\ \A kind \in Answering : TablesGood(kind, <<Table(r, TRUE)>>, empty)
         /\ TablesGood("notice", <<>>, empty)
         /\ TablesGood("suggestions", <<>>, TRUE)
         /\ TablesGood("suggestions", <<Table(r, FALSE)>>, TRUE)
  <1>1. Table(r, TRUE) \in Tables /\ Table(r, FALSE) \in Tables /\ Table(r, TRUE).dated
    BY DEF Tables, Table
  <1>2. MaxHistory \in Nat
    BY HistoryAssumption
  <1>3. ASSUME NEW x \in Tables
        PROVE  <<x>> \in Seq(Tables) /\ Len(<<x>>) = 1 /\ <<x>> # <<>> /\ \A i \in DOMAIN <<x>> : <<x>>[i] = x
    BY <1>3
  <1>4. <<>> \in Seq(Tables) /\ Len(<<>>) = 0
    OBVIOUS
  <1>5. \A kind \in Answering : TablesGood(kind, <<Table(r, TRUE)>>, empty)
    <2> DEFINE one == <<Table(r, TRUE)>>
    <2>1. one \in Seq(Tables) /\ Len(one) = 1 /\ one # <<>> /\ \A i \in DOMAIN one : one[i].dated
      BY <1>1, <1>3
    <2> HIDE DEF one
    <2>2. \A kind \in Answering : TablesGood(kind, one, empty)
      BY <1>2, <2>1 DEF TablesGood
    <2> QED
      BY <2>2 DEF one
  <1>6. TablesGood("suggestions", <<Table(r, FALSE)>>, TRUE)
    BY <1>1, <1>3 DEF TablesGood
  <1>7. TablesGood("notice", <<>>, empty)
    BY <1>2, <1>4 DEF TablesGood
  <1>8. TablesGood("suggestions", <<>>, TRUE)
    BY <1>4 DEF TablesGood
  <1> QED
    BY <1>5, <1>6, <1>7, <1>8

-----------------------------------------------------------------------------
(* A table and the history it is put before.                               *)

LEMMA TrimmedIs ==
  ASSUME NEW h \in Seq(Tables)
  PROVE  /\ Trimmed(h) \in Seq(Tables) /\ Len(Trimmed(h)) =< Len(h)
         /\ \A i \in 1 .. Len(Trimmed(h)) : Trimmed(h)[i] = h[i]
         /\ Len(h) < MaxHistory => Trimmed(h) = h
         /\ (\A i \in DOMAIN h : h[i].dated) /\ Len(h) =< MaxHistory =>
              /\ Len(Trimmed(h)) >= Len(h) - 1 /\ Len(Trimmed(h)) =< MaxHistory - 1
  <1> DEFINE titled == {i \in DOMAIN h : h[i].dated}
             last == Max(titled)
             all == \A i \in DOMAIN h : h[i].dated
  <1>1. MaxHistory \in Nat /\ MaxHistory >= 1 /\ Len(h) \in Nat /\ DOMAIN h = 1 .. Len(h)
    BY HistoryAssumption
  <1>2. titled \subseteq 1 .. Len(h) /\ titled \subseteq Nat
    BY <1>1
  <1>3. ASSUME titled # {}
        PROVE  last \in titled /\ \A i \in titled : last >= i
    <2> DEFINE below == {Len(h) - i : i \in titled}
    <2>1. below \in SUBSET Nat /\ below # {}
      BY <1>1, <1>2, <1>3
    <2>2. PICK m \in below : \A k \in below : ~(k < m)
      BY <2>1, LeastOf
    <2>3. PICK x \in titled : m = Len(h) - x
      BY <2>2
    <2>4. \A i \in titled : x >= i
      <3>1. \A i \in titled : ~(Len(h) - i < Len(h) - x)
        BY <2>2, <2>3
      <3> QED
        BY <3>1, <1>1, <1>2
    <2> HIDE DEF titled
    <2> QED
      BY <2>4 DEF Max
  <1>4. Trimmed(h) = IF Len(h) >= MaxHistory /\ titled # {} THEN SubSeq(h, 1, last - 1) ELSE h
    BY DEF Trimmed
  <1>5. all => /\ titled # {} => Len(h) \in titled
               /\ titled = {} => Len(h) = 0
    <2>1. all => \A i \in 1 .. Len(h) : i \in titled
      BY <1>1
    <2>2. ASSUME NEW i \in titled PROVE Len(h) \in 1 .. Len(h)
      BY <1>1, <1>2, <2>2
    <2>3. Len(h) # 0 => Len(h) \in 1 .. Len(h)
      BY <1>1
    <2> HIDE DEF titled, all
    <2> QED
      BY <2>1, <2>2, <2>3
  <1> HIDE DEF titled, last, all
  <1>6. CASE Len(h) >= MaxHistory /\ titled # {}
    <2> DEFINE cut == Trimmed(h)
    <2>1. last \in 1 .. Len(h) /\ last \in Nat
      BY <1>1, <1>2, <1>3, <1>6
    <2>2. cut = SubSeq(h, 1, last - 1)
      BY <1>4, <1>6
    <2> HIDE DEF cut
    <2>3. cut \in Seq(Tables) /\ Len(cut) = last - 1 /\ \A i \in 1 .. last - 1 : cut[i] = h[i]
      BY <2>1, <2>2, <1>1
    <2>4. all => last >= Len(h)
      BY <1>3, <1>5, <1>6
    <2>5. last =< Len(h)
      BY <2>1, <1>1
    <2>6. cut \in Seq(Tables) /\ Len(cut) =< Len(h) /\ \A i \in 1 .. Len(cut) : cut[i] = h[i]
      BY <2>1, <2>3, <2>5, <1>1
    <2>7. last >= Len(h) /\ Len(h) =< MaxHistory => Len(cut) >= Len(h) - 1 /\ Len(cut) =< MaxHistory - 1
      BY <2>1, <2>3, <2>5, <1>1
    <2>8. ~(Len(h) < MaxHistory)
      BY <1>1, <1>6
    <2>9. all /\ Len(h) =< MaxHistory => Len(cut) >= Len(h) - 1 /\ Len(cut) =< MaxHistory - 1
      BY <2>4, <2>7
    <2> QED
      BY <2>6, <2>8, <2>9 DEF cut, all
  <1>7. CASE ~(Len(h) >= MaxHistory /\ titled # {})
    <2>1. Trimmed(h) = h
      BY <1>4, <1>7
    <2>2. all => Len(h) < MaxHistory
      BY <1>1, <1>5, <1>7
    <2> QED
      BY <2>1, <2>2, <1>1 DEF all
  <1> QED
    BY <1>6, <1>7

LEMMA FoldedIs ==
  ASSUME NEW r \in Nat, NEW c, c.tables \in Seq(Tables), c.tables # <<>>
  PROVE  /\ Folded(r, c) \in Seq(Tables) /\ Len(Folded(r, c)) >= 2
         /\ Folded(r, c)[1] = Table(r, TRUE)
         /\ Len(Folded(r, c)) =< Len(c.tables) + 1
         /\ \A i \in 2 .. Len(Folded(r, c)) : Folded(r, c)[i] = c.tables[i - 1]
         /\ Len(c.tables) =< MaxHistory => Len(Folded(r, c)) = Len(c.tables) + 1
         /\ (\A i \in DOMAIN c.tables : c.tables[i].dated) /\ Len(c.tables) =< MaxHistory + 1 =>
              /\ Len(Folded(r, c)) >= Len(c.tables) /\ Len(Folded(r, c)) =< MaxHistory + 1
              /\ \A i \in DOMAIN Folded(r, c) : Folded(r, c)[i].dated
  <1> DEFINE s == c.tables
             h == Tail(s)
             k == Trimmed(h)
             two == <<Table(r, TRUE), s[1]>>
  <1>1. s \in Seq(Tables) /\ s # <<>> /\ MaxHistory \in Nat /\ Table(r, TRUE) \in Tables /\ Table(r, TRUE).dated
    BY HistoryAssumption DEF Table, Tables
  <1> HIDE DEF s
  <1>2. /\ h \in Seq(Tables) /\ Len(s) \in Nat \ {0} /\ Len(h) = Len(s) - 1 /\ s[1] \in Tables
        /\ \A i \in 1 .. Len(h) : h[i] = s[i + 1]
        /\ DOMAIN s = 1 .. Len(s) /\ DOMAIN h = 1 .. Len(h)
    BY <1>1
  <1>3. /\ k \in Seq(Tables) /\ Len(k) =< Len(h)
        /\ \A i \in 1 .. Len(k) : k[i] = h[i]
        /\ Len(h) < MaxHistory => k = h
        /\ (\A i \in DOMAIN h : h[i].dated) /\ Len(h) =< MaxHistory =>
             /\ Len(k) >= Len(h) - 1 /\ Len(k) =< MaxHistory - 1
    BY <1>2, TrimmedIs
  <1>4. two \in Seq(Tables) /\ Len(two) = 2 /\ two[1] = Table(r, TRUE) /\ two[2] = s[1]
    <2>1. ASSUME NEW x \in Tables, NEW y \in Tables
          PROVE  <<x, y>> \in Seq(Tables) /\ Len(<<x, y>>) = 2 /\ <<x, y>>[1] = x /\ <<x, y>>[2] = y
      BY <2>1
    <2> QED
      BY <2>1, <1>1, <1>2
  <1>5. Folded(r, c) = two \o k
    BY DEF Folded, s
  <1>6. (\A i \in DOMAIN s : s[i].dated) => \A i \in DOMAIN h : h[i].dated
    BY <1>2
  <1> HIDE DEF two, k, h
  <1> DEFINE f == two \o k
  <1>7. f \in Seq(Tables) /\ Len(f) = 2 + Len(k) /\ Len(k) \in Nat /\ DOMAIN f = 1 .. Len(f)
        /\ f[1] = two[1] /\ f[2] = two[2] /\ \A i \in 3 .. Len(f) : f[i] = k[i - 2]
    <2>1. ASSUME NEW a \in Seq(Tables), NEW b \in Seq(Tables)
          PROVE  /\ a \o b \in Seq(Tables) /\ Len(a \o b) = Len(a) + Len(b) /\ Len(b) \in Nat
                 /\ DOMAIN (a \o b) = 1 .. Len(a \o b)
                 /\ \A i \in 1 .. Len(a) : (a \o b)[i] = a[i]
                 /\ \A i \in Len(a) + 1 .. Len(a) + Len(b) : (a \o b)[i] = b[i - Len(a)]
      BY <2>1, ConcatProperties
    <2>2. two \in Seq(Tables) /\ k \in Seq(Tables) /\ Len(two) = 2
      BY <1>3, <1>4
    <2>3. /\ f \in Seq(Tables) /\ Len(f) = Len(two) + Len(k) /\ Len(k) \in Nat /\ DOMAIN f = 1 .. Len(f)
          /\ \A i \in 1 .. Len(two) : f[i] = two[i]
          /\ \A i \in Len(two) + 1 .. Len(two) + Len(k) : f[i] = k[i - Len(two)]
      BY <2>1, <2>2, Zenon
    <2> HIDE DEF f
    <2> QED
      BY <2>2, <2>3
  <1> HIDE DEF f
  <1>8. \A i \in 2 .. Len(f) : f[i] = s[i - 1]
    <2> SUFFICES ASSUME NEW i \in 2 .. Len(f) PROVE f[i] = s[i - 1]
      OBVIOUS
    <2>1. CASE i = 2
      BY <2>1, <1>4, <1>7
    <2>2. CASE i # 2
      <3>1. i - 2 \in 1 .. Len(k) /\ f[i] = k[i - 2] /\ (i - 2) + 1 = i - 1
        BY <2>2, <1>7
      <3>2. k[i - 2] = h[i - 2] /\ i - 2 \in 1 .. Len(h)
        BY <3>1, <1>2, <1>3, <1>7
      <3> QED
        BY <3>1, <3>2, <1>2
    <2> QED
      BY <2>1, <2>2
  <1>9. (\A i \in DOMAIN s : s[i].dated) => \A i \in DOMAIN f : f[i].dated
    <2> SUFFICES ASSUME \A i \in DOMAIN s : s[i].dated, NEW i \in DOMAIN f PROVE f[i].dated
      OBVIOUS
    <2>1. CASE i = 1
      BY <2>1, <1>1, <1>4, <1>7
    <2>2. CASE i # 1
      <3>1. i \in 2 .. Len(f) /\ i - 1 \in DOMAIN s
        BY <2>2, <1>2, <1>3, <1>7
      <3> QED
        BY <3>1, <1>8
    <2> QED
      BY <2>1, <2>2
  <1>10. Len(s) =< MaxHistory => Len(f) = Len(s) + 1
    BY <1>1, <1>2, <1>3, <1>7
  <1>11. (\A i \in DOMAIN s : s[i].dated) /\ Len(s) =< MaxHistory + 1 => Len(f) >= Len(s) /\ Len(f) =< MaxHistory + 1
    BY <1>1, <1>2, <1>3, <1>6, <1>7
  <1>12. Len(f) >= 2 /\ Len(f) =< Len(s) + 1 /\ f[1] = Table(r, TRUE)
    BY <1>2, <1>3, <1>4, <1>7
  <1> QED
    BY <1>5, <1>7, <1>8, <1>9, <1>10, <1>11, <1>12 DEF f, s

-----------------------------------------------------------------------------
(* What is found in the conversation.                                      *)

LEMMA FoundAre ==
  /\ \A c : c \in FoundReview <=> c \in conversation /\ c.kind = "review"
  /\ \A c : c \in FoundSuggestions <=> c \in conversation /\ c.kind = "suggestions"
  /\ FoundKenny = {}
  /\ \A c : c \in WithTable <=> c \in FoundSuggestions /\ c.tables # <<>>
  BY DEF FoundReview, FoundSuggestions, FoundKenny, WithTable, Found, Starts

LEMMA AnnouncedAre ==
  ASSUME NEW r, NEW kind
  PROVE  /\ \A c : c \in Announcement(r, kind) <=> c \in conversation /\ c.owner = r /\ c.kind = kind
         /\ Progress(r) = Announcement(r, "progress")
  BY DEF Announcement, Progress

LEMMA NatRun ==
  ASSUME TalkInv, NEW r \in DOMAIN commands
  PROVE  r \in Nat /\ clock \in Nat /\ DOMAIN commands = 1 .. Len(commands)
  BY DEF TalkInv, TalkTypeOK

LEMMA OverGood ==
  ASSUME TalkInv, NEW r \in DOMAIN commands
  PROVE  /\ Good(r, Overwritten(r), "empty" \in mishaps, clock)
         /\ \A kinds : "suggestions" \notin kinds => NoneNew(Overwritten(r), kinds)
         /\ \A c \in conversation : c \notin FoundSuggestions \ WithTable => c \in Overwritten(r)
         /\ "empty" \notin mishaps => Overwritten(r) = conversation
  <1> DEFINE which == {c \in FoundSuggestions \ WithTable : \A d \in WithTable : c.at < d.at}
  <1>1. Overwritten(r) = Edited(conversation, which, "suggestions", <<Table(r, FALSE)>>)
    BY DEF Overwritten
  <1>2. \A c \in which : c \in FoundSuggestions \ WithTable
    OBVIOUS
  <1>3. \A c \in which : c \in conversation /\ c.kind = "suggestions" /\ c.tables = <<>>
    BY <1>2, FoundAre
  <1> HIDE DEF which
  <1>4. \A c \in conversation : c \in CommentRecords
    BY DEF TalkInv, TalkTypeOK
  <1>5. \A c \in conversation : c \notin which => c \in Overwritten(r)
    BY <1>1, <1>4, EditedIs
  <1>6. Good(r, conversation, "empty" \in mishaps, clock) /\ \A kinds : NoneNew(conversation, kinds)
    BY GoodNow
  <1>7. \A kinds : "suggestions" \notin kinds => NoneNew(Overwritten(r), kinds)
    BY <1>1, <1>6, NoneNewEdit
  <1>8. CASE "empty" \notin mishaps
    <2>1. which \cap conversation = {}
      BY <1>3, <1>8 DEF TalkInv, Dated
    <2>2. Overwritten(r) = conversation
      BY <2>1, <1>1, EditedNothing
    <2> QED
      BY <2>2, <1>2, <1>5, <1>6, <1>7
  <1>9. CASE "empty" \in mishaps
    <2>1. Good(r, conversation, TRUE, clock)
      BY <1>6, <1>9
    <2>2. TablesGood("suggestions", <<Table(r, FALSE)>>, TRUE)
      BY NatRun, OneTable
    <2>3. \A c \in which : c.kind \in Pending => c.owner = r
      BY <1>3 DEF Pending
    <2>4. Good(r, Overwritten(r), TRUE, clock)
      <3>1. "suggestions" \in Answering
        BY DEF Answering
      <3> QED
        BY <1>1, <2>1, <2>2, <2>3, <3>1, GoodEdit
    <2> QED
      BY <2>4, <1>2, <1>5, <1>7, <1>9
  <1> QED
    BY <1>8, <1>9

LEMMA PublishedGood ==
  ASSUME TalkInv, NEW r \in DOMAIN commands, NEW cs, NEW empty, Good(r, cs, empty, clock),
         NEW tables, TablesGood("suggestions", tables, empty)
  PROVE  /\ Good(r, Published(cs, r, tables), empty, clock + 1)
         /\ \A c \in Published(cs, r, tables) : c.kind = "progress" => c.owner # r
         /\ \A kinds : "suggestions" \notin kinds /\ NoneNew(cs, kinds) => NoneNew(Published(cs, r, tables), kinds)
  <1>1. r \in Nat /\ clock \in Nat /\ "suggestions" \in Answering
    BY NatRun DEF Answering
  <1>2. \A c : c \in Progress(r) <=> c \in conversation /\ c.owner = r /\ c.kind = "progress"
    BY AnnouncedAre
  <1>3. \A c \in cs : c.kind = "progress" /\ c.owner = r => c \in Progress(r)
    BY <1>2 DEF Good, NoneNew, Pending
  <1>4. CASE Progress(r) # {}
    <2>1. Published(cs, r, tables) = Edited(cs, Progress(r), "suggestions", tables)
      BY <1>4 DEF Published
    <2>2. Good(r, Published(cs, r, tables), empty, clock)
      BY <2>1, <1>1, <1>2, GoodEdit
    <2>3. Good(r, Published(cs, r, tables), empty, clock + 1)
      BY <2>2, <1>1, GoodLater
    <2>4. \A c \in cs : c \in CommentRecords
      BY SoundIsTyped DEF Good
    <2>5. \A x \in Published(cs, r, tables) :
            (x \in cs /\ x \notin Progress(r)) \/ (x.kind = "suggestions" /\ x.tables = tables)
      BY <2>1, <2>4, EditedKind
    <2>6. \A c \in Published(cs, r, tables) : c.kind = "progress" => c.owner # r
      BY <2>5, <1>3
    <2>7. \A kinds : "suggestions" \notin kinds /\ NoneNew(cs, kinds) => NoneNew(Published(cs, r, tables), kinds)
      BY <2>1, NoneNewEdit
    <2> QED
      BY <2>3, <2>6, <2>7
  <1>5. CASE Progress(r) = {}
    <2>1. Published(cs, r, tables) = cs \cup {Comment(r, "suggestions", tables)}
      BY <1>5 DEF Published
    <2>2. Good(r, Published(cs, r, tables), empty, clock + 1)
      BY <2>1, <1>1, GoodAdd
    <2>3. Comment(r, "suggestions", tables).kind = "suggestions"
      BY DEF Comment
    <2>4. \A c \in Published(cs, r, tables) : c.kind = "progress" => c.owner # r
      BY <2>1, <2>3, <1>3, <1>5
    <2>5. \A kinds : "suggestions" \notin kinds /\ NoneNew(cs, kinds) => NoneNew(Published(cs, r, tables), kinds)
      BY <2>1, NoneNewAdd
    <2> QED
      BY <2>2, <2>4, <2>5
  <1> QED
    BY <1>4, <1>5

LEMMA FoldedGood ==
  ASSUME TalkInv, NEW r \in DOMAIN commands, NEW c \in WithTable
  PROVE  TablesGood("suggestions", Folded(r, c), "empty" \in mishaps)
  <1>1. r \in Nat /\ c \in conversation /\ c.kind = "suggestions" /\ c.tables # <<>>
    BY NatRun, FoundAre
  <1>2. TablesGood("suggestions", c.tables, "empty" \in mishaps)
    BY <1>1, SoundNow DEF Sound, CommentGood
  <1>3. c.tables \in Seq(Tables)
    BY <1>2 DEF TablesGood
  <1> DEFINE f == Folded(r, c)
  <1>4. /\ f \in Seq(Tables) /\ Len(f) >= 2
        /\ (\A i \in DOMAIN c.tables : c.tables[i].dated) /\ Len(c.tables) =< MaxHistory + 1 =>
              /\ Len(f) >= Len(c.tables) /\ Len(f) =< MaxHistory + 1
              /\ \A i \in DOMAIN f : f[i].dated
    BY <1>1, <1>3, FoldedIs
  <1> HIDE DEF f
  <1>5. f # <<>>
    BY <1>4
  <1>6. TablesGood("suggestions", f, "empty" \in mishaps)
    BY <1>2, <1>4, <1>5 DEF TablesGood
  <1> QED
    BY <1>6 DEF f

-----------------------------------------------------------------------------
(* The runs that end.                                                      *)

\* Run r ends, and what it leaves is good.
EndsRun(r) ==
  /\ r \in DOMAIN commands /\ commands[r].st = "running"
  /\ commands' = [commands EXCEPT ![r].st = "ended"] /\ clock' = clock + 1
  /\ mishaps \subseteq mishaps' /\ mishaps' \subseteq {"api", "empty"}
  /\ Good(r, conversation', "empty" \in mishaps', clock + 1)
  /\ "api" \notin mishaps' => \A c \in conversation' : c.kind = "progress" => c.owner # r
  /\ "api" \notin mishaps' => Single("review")'
  /\ mishaps' = {} => Single("suggestions")'

LEMMA SingleKept ==
  ASSUME NEW kind, Single(kind), NoneNew(conversation', {kind})
  PROVE  Single(kind)'
  BY DEF Single, NoneNew

LEMMA SingleNow ==
  ASSUME TalkInv
  PROVE  /\ "api" \notin mishaps => Single("review")
         /\ mishaps = {} => Single("suggestions")
         /\ mishaps \subseteq {"api", "empty"}
  BY DEF TalkInv, TalkTypeOK, Tidy, OneCommentEach

\* Only /improve shows its progress.
LEMMA NotInProgress ==
  ASSUME TalkInv, NEW r \in DOMAIN commands, commands[r].tool \in {"review", "kenny"},
         NEW cs, NoneNew(cs, Pending)
  PROVE  \A c \in cs : c.kind = "progress" => c.owner # r
  BY DEF TalkInv, OneAnnouncement, Placeholder, NoneNew, Pending

LEMMA PersistedGood ==
  ASSUME TalkInv, NEW r \in DOMAIN commands, NEW found, \A c \in found : c \in FoundReview
  PROVE  /\ Good(r, Persisted(r, found), "empty" \in mishaps, clock + 1)
         /\ \A kinds : "review" \notin kinds /\ "notice" \notin kinds => NoneNew(Persisted(r, found), kinds)
  <1> DEFINE e == "empty" \in mishaps
             one == <<Table(r, TRUE)>>
             next == Edited(conversation, Oldest(found), "review", one)
  <1>1. r \in Nat /\ clock \in Nat /\ "review" \in Answering /\ "notice" \in Answering
    BY NatRun DEF Answering
  <1>2. TablesGood("review", one, e) /\ TablesGood("notice", <<>>, e)
    BY <1>1, OneTable
  <1>3. Good(r, conversation, e, clock) /\ \A kinds : NoneNew(conversation, kinds)
    BY GoodNow
  <1>4. \A c \in Oldest(found) : c.kind = "review"
    BY FoundAre DEF Oldest
  <1>5. Persisted(r, found) = IF found = {} THEN conversation \cup {Comment(r, "review", one)}
                              ELSE next \cup {Comment(r, "notice", <<>>)}
    BY DEF Persisted
  <1> HIDE DEF e, one
  <1>6. Good(r, next, e, clock)
    <2>1. \A c \in Oldest(found) : c.kind \in Pending => c.owner = r
      BY <1>4 DEF Pending
    <2> QED
      BY <1>1, <1>2, <1>3, <2>1, GoodEdit
  <1>7. \A kinds : "review" \notin kinds => NoneNew(next, kinds)
    BY <1>3, NoneNewEdit
  <1> HIDE DEF next
  <1>8. Good(r, conversation \cup {Comment(r, "review", one)}, e, clock + 1)
    BY <1>1, <1>2, <1>3, GoodAdd
  <1>9. Good(r, next \cup {Comment(r, "notice", <<>>)}, e, clock + 1)
    BY <1>1, <1>2, <1>6, GoodAdd
  <1>10. \A kinds : "review" \notin kinds => NoneNew(conversation \cup {Comment(r, "review", one)}, kinds)
    BY <1>3, NoneNewAdd
  <1>11. \A kinds : "review" \notin kinds /\ "notice" \notin kinds => NoneNew(next \cup {Comment(r, "notice", <<>>)}, kinds)
    BY <1>7, NoneNewAdd
  <1> QED
    BY <1>5, <1>8, <1>9, <1>10, <1>11 DEF e

\* What a review leaves, but for whether it is the only one.
LEMMA ReviewEffect ==
  ASSUME TalkInv, NEW r \in DOMAIN commands, Running(r, "review"), Concluded(r),
         mishaps' = mishaps \/ mishaps' = mishaps \cup {"api"},
         NEW cs, Good(r, cs, "empty" \in mishaps, clock + 1), NoneNew(cs, {"suggestions"}),
         NEW gone, \A c \in gone : c.kind \in Pending => c.owner = r, conversation' = cs \ gone,
         "api" \notin mishaps' => \A c, d \in cs : c.kind = "review" /\ d.kind = "review" => c = d
  PROVE  EndsRun(r)
  <1>1. commands[r].st = "running" /\ commands[r].tool = "review"
    BY DEF Running
  <1>2. commands' = [commands EXCEPT ![r].st = "ended"] /\ clock' = clock + 1
    BY DEF Concluded
  <1>3. mishaps \subseteq mishaps' /\ mishaps' \subseteq {"api", "empty"} /\ ("empty" \in mishaps' <=> "empty" \in mishaps)
    BY SingleNow
  <1>4. Good(r, conversation', "empty" \in mishaps', clock + 1)
    <2>1. Good(r, cs \ gone, "empty" \in mishaps, clock + 1)
      BY GoodLess
    <2>2. ("empty" \in mishaps') = ("empty" \in mishaps)
      BY <1>3
    <2> QED
      BY <2>1, <2>2
  <1>5. \A c \in conversation' : c.kind = "progress" => c.owner # r
    BY <1>1, <1>4, NotInProgress DEF Good
  <1>6. "api" \notin mishaps' => Single("review")'
    BY DEF Single
  <1>7. mishaps' = {} => Single("suggestions")'
    <2>1. NoneNew(conversation', {"suggestions"})
      BY DEF NoneNew
    <2>2. mishaps' = {} => Single("suggestions")
      BY <1>3, SingleNow
    <2> QED
      BY <2>1, <2>2, SingleKept
  <1> QED
    BY <1>1, <1>2, <1>3, <1>4, <1>5, <1>6, <1>7 DEF EndsRun

LEMMA ReviewEnds ==
  ASSUME TalkInv, NEW r \in DOMAIN commands,
         \/ ReviewDone(r) \/ ReviewListFails(r) \/ ReviewEditFails(r) \/ ReviewEmpty(r) \/ ReviewAbandoned(r)
  PROVE  EndsRun(r)
  <1> DEFINE e == "empty" \in mishaps
             gone == Announcement(r, "temporary")
  <1>1. r \in Nat /\ clock \in Nat /\ "notice" \in Answering
    BY NatRun DEF Answering
  <1>2. \A c \in gone : c.kind \in Pending => c.owner = r
    BY AnnouncedAre
  <1>3. "api" \notin mishaps => Single("review")
    BY SingleNow
  <1>4. Good(r, conversation, e, clock + 1) /\ NoneNew(conversation, {"suggestions"})
    BY <1>1, GoodNow, GoodLater
  <1>5. \A c \in {} : c \in FoundReview
    OBVIOUS
  <1>6. "review" \notin {"suggestions"} /\ "notice" \notin {"suggestions"}
    OBVIOUS
  <1> HIDE DEF gone
  <1>7. CASE ReviewDone(r)
    <2> DEFINE cs == Persisted(r, FoundReview)
    <2>1. Good(r, cs, e, clock + 1) /\ NoneNew(cs, {"suggestions"})
      BY <1>6, PersistedGood
    <2>2. ASSUME "api" \notin mishaps', NEW c \in cs, NEW d \in cs, c.kind = "review", d.kind = "review"
          PROVE  c = d
      <3>1. mishaps' = mishaps
        BY <1>7 DEF ReviewDone
      <3>2. Single("review")
        BY <1>3, <2>2, <3>1
      <3>3. CASE FoundReview = {}
        <4>1. cs = conversation \cup {Comment(r, "review", <<Table(r, TRUE)>>)}
          BY <3>3 DEF Persisted
        <4>2. \A x \in conversation : x.kind # "review"
          BY <3>3, FoundAre
        <4> HIDE DEF cs
        <4> QED
          BY <2>2, <4>1, <4>2
      <3>4. CASE FoundReview # {}
        <4> DEFINE which == Oldest(FoundReview)
                   one == <<Table(r, TRUE)>>
        <4>1. PICK x \in FoundReview : TRUE
          BY <3>4
        <4>2. \A y \in FoundReview : y = x
          BY <3>2, <4>1, FoundAre DEF Single
        <4>3. x.at \in Nat /\ x \in conversation
          BY <4>1, FoundAre DEF TalkInv, TalkTypeOK, CommentRecords
        <4>4. x \in which
          BY <4>1, <4>2, <4>3 DEF Oldest
        <4>5. \A y \in conversation : y.kind = "review" => y \in which /\ y = x
          BY <4>2, <4>4, FoundAre
        <4>6. \A y \in which : y = x
          BY <4>2 DEF Oldest
        <4>7. cs = Edited(conversation, which, "review", one) \cup {Comment(r, "notice", <<>>)}
          BY <3>4 DEF Persisted
        <4>8. Comment(r, "notice", <<>>).kind = "notice"
          BY DEF Comment
        <4> HIDE DEF which, one, cs
        <4>9. \A y \in Edited(conversation, which, "review", one) :
                (y \in conversation /\ y \notin which) \/ (\E z \in conversation \cap which : y = Rewritten(z, "review", one))
          BY DEF Edited
        <4>10. \A y \in cs : y.kind = "review" => y = Rewritten(x, "review", one)
          BY <4>5, <4>6, <4>7, <4>8, <4>9
        <4> QED
          BY <2>2, <4>10
      <3> QED
        BY <3>3, <3>4
    <2>3. Running(r, "review") /\ Concluded(r) /\ mishaps' = mishaps /\ conversation' = cs \ gone
      BY <1>7 DEF ReviewDone, gone
    <2> HIDE DEF cs
    <2> QED
      BY <1>2, <2>1, <2>2, <2>3, ReviewEffect
  <1>8. CASE ReviewListFails(r)
    <2> DEFINE cs == Persisted(r, {})
    <2>1. Good(r, cs, e, clock + 1) /\ NoneNew(cs, {"suggestions"})
      BY <1>5, <1>6, PersistedGood
    <2>2. /\ Running(r, "review") /\ Concluded(r) /\ conversation' = cs \ gone
          /\ mishaps' = mishaps \cup {"api"} /\ "api" \in mishaps'
      BY <1>8 DEF ReviewListFails, gone
    <2> HIDE DEF cs
    <2> QED
      BY <1>2, <2>1, <2>2, ReviewEffect
  <1>9. CASE ReviewEditFails(r)
    <2> DEFINE cs == conversation \cup {Comment(r, "notice", <<>>)}
    <2>1. Good(r, cs, e, clock + 1)
      <3>1. TablesGood("notice", <<>>, e)
        BY <1>1, OneTable
      <3> QED
        BY <1>1, <3>1, GoodNow, GoodAdd
    <2>2. NoneNew(cs, {"suggestions"})
      BY <1>4, <1>6, NoneNewAdd
    <2>3. /\ Running(r, "review") /\ Concluded(r) /\ conversation' = cs \ gone
          /\ mishaps' = mishaps \cup {"api"} /\ "api" \in mishaps'
      BY <1>9 DEF ReviewEditFails, gone
    <2> HIDE DEF cs
    <2> QED
      BY <1>2, <2>1, <2>2, <2>3, ReviewEffect
  <1>10. ASSUME mishaps' = mishaps
         PROVE  "api" \notin mishaps' => \A c, d \in conversation : c.kind = "review" /\ d.kind = "review" => c = d
    BY <1>3, <1>10 DEF Single
  <1>11. CASE ReviewEmpty(r)
    <2>1. Running(r, "review") /\ Concluded(r) /\ mishaps' = mishaps /\ conversation' = conversation \ gone
      BY <1>11 DEF ReviewEmpty, gone
    <2> QED
      BY <1>2, <1>4, <1>10, <2>1, ReviewEffect
  <1>12. CASE ReviewAbandoned(r)
    <2> DEFINE none == {c \in conversation : FALSE}
    <2>1. Running(r, "review") /\ Concluded(r) /\ mishaps' = mishaps /\ conversation' = conversation \ none
      BY <1>12 DEF ReviewAbandoned
    <2>2. \A c \in none : c.kind \in Pending => c.owner = r
      OBVIOUS
    <2> HIDE DEF none
    <2> QED
      BY <1>4, <1>10, <2>1, <2>2, ReviewEffect
  <1> QED
    BY <1>7, <1>8, <1>9, <1>11, <1>12

LEMMA KennyEnds ==
  ASSUME TalkInv, NEW r \in DOMAIN commands, KennyDone(r)
  PROVE  EndsRun(r)
  <1> DEFINE n == Comment(r, "kenny", <<Table(r, TRUE)>>)
  <1>1. /\ commands[r].tool = "kenny" /\ commands[r].st = "running" /\ mishaps' = mishaps
        /\ commands' = [commands EXCEPT ![r].st = "ended"] /\ clock' = clock + 1
    BY DEF KennyDone, Running, Concluded
  <1>2. conversation' = conversation \cup {n}
    BY FoundAre DEF KennyDone
  <1>3. r \in Nat /\ clock \in Nat /\ "kenny" \in Answering /\ TablesGood("kenny", <<Table(r, TRUE)>>, "empty" \in mishaps)
    BY NatRun, OneTable DEF Answering
  <1>4. Good(r, conversation, "empty" \in mishaps, clock) /\ \A kinds : NoneNew(conversation, kinds)
    BY GoodNow
  <1>5. Good(r, conversation', "empty" \in mishaps, clock + 1)
    BY <1>2, <1>3, <1>4, GoodAdd
  <1>6. NoneNew(conversation', {"review"}) /\ NoneNew(conversation', {"suggestions"})
    BY <1>2, <1>4, NoneNewAdd
  <1>7. \A c \in conversation' : c.kind = "progress" => c.owner # r
    BY <1>1, <1>5, NotInProgress DEF Good
  <1> HIDE DEF n
  <1>8. ("api" \notin mishaps => Single("review")') /\ (mishaps = {} => Single("suggestions")')
    BY <1>6, SingleNow, SingleKept
  <1>9. mishaps \subseteq {"api", "empty"}
    BY SingleNow
  <1> QED
    BY <1>1, <1>5, <1>7, <1>8, <1>9 DEF EndsRun

\* What is published is one comment.
LEMMA PublishedOne ==
  ASSUME TalkInv, NEW r \in DOMAIN commands, NEW tables
  PROVE  \E p : \A y \in Published(conversation, r, tables) : y.kind = "suggestions" => y \in conversation \/ y = p
  <1>1. CASE Progress(r) = {}
    BY <1>1 DEF Published
  <1>2. CASE Progress(r) # {}
    <2>1. PICK x \in Progress(r) : TRUE
      BY <1>2
    <2>2. \A y \in Progress(r) : y = x
      BY <2>1, AnnouncedAre DEF TalkInv, OneAnnouncement
    <2>3. \A y \in Edited(conversation, Progress(r), "suggestions", tables) :
            y \in conversation \/ (\E z \in Progress(r) : y = Rewritten(z, "suggestions", tables))
      BY DEF Edited
    <2>4. \A y \in Published(conversation, r, tables) : y \in conversation \/ y = Rewritten(x, "suggestions", tables)
      BY <1>2, <2>2, <2>3 DEF Published
    <2> QED
      BY <2>4
  <1> QED
    BY <1>1, <1>2

\* What a run of /improve leaves.
LEMMA ImproveEffect ==
  ASSUME TalkInv, NEW r \in DOMAIN commands, Running(r, "improve"), Concluded(r),
         mishaps \subseteq mishaps', mishaps' \subseteq {"api", "empty"},
         Good(r, conversation', "empty" \in mishaps', clock + 1), NoneNew(conversation', {"review"}),
         "api" \notin mishaps' => \A c \in conversation' : c.kind = "progress" => c.owner # r,
         mishaps' = {} => Single("suggestions")'
  PROVE  EndsRun(r)
  <1>1. /\ commands[r].st = "running"
        /\ commands' = [commands EXCEPT ![r].st = "ended"] /\ clock' = clock + 1
    BY DEF Running, Concluded
  <1>2. "api" \notin mishaps' => Single("review")'
    <2>1. "api" \notin mishaps' => Single("review")
      BY SingleNow
    <2> QED
      BY <2>1, SingleKept
  <1> QED
    BY <1>1, <1>2 DEF EndsRun

LEMMA ImproveDoneEnds ==
  ASSUME TalkInv, NEW r \in DOMAIN commands, ImproveDone(r)
  PROVE  EndsRun(r)
  <1> DEFINE e == "empty" \in mishaps
  <1>1. Running(r, "improve") /\ Concluded(r) /\ mishaps' = mishaps /\ mishaps \subseteq {"api", "empty"}
    BY SingleNow DEF ImproveDone
  <1>2. r \in Nat /\ clock \in Nat /\ "suggestions" \in Answering
    BY NatRun DEF Answering
  <1>3. /\ Good(r, Overwritten(r), e, clock)
        /\ NoneNew(Overwritten(r), {"review"}) /\ NoneNew(Overwritten(r), Pending)
        /\ ~e => Overwritten(r) = conversation
    <2>1. "suggestions" \notin {"review"} /\ "suggestions" \notin Pending
      BY DEF Pending
    <2> QED
      BY <2>1, OverGood
  <1>4. ~e => \A c \in conversation : c.kind = "suggestions" => c \in WithTable
    BY FoundAre DEF TalkInv, Dated
  <1>5. mishaps = {} => Single("suggestions")
    BY SingleNow
  <1>6. CASE WithTable = {} /\ conversation' = Published(Overwritten(r), r, <<Table(r, TRUE)>>)
    <2> DEFINE one == <<Table(r, TRUE)>>
    <2>1. TablesGood("suggestions", one, e)
      BY <1>2, OneTable
    <2>2. conversation' = Published(Overwritten(r), r, one)
      BY <1>6
    <2> HIDE DEF one
    <2>3. /\ Good(r, conversation', e, clock + 1) /\ NoneNew(conversation', {"review"})
          /\ \A c \in conversation' : c.kind = "progress" => c.owner # r
      <3>1. "suggestions" \notin {"review"}
        OBVIOUS
      <3> QED
        BY <1>3, <2>1, <2>2, <3>1, PublishedGood
    <2>4. mishaps = {} => Single("suggestions")'
      <3>1. PICK p : \A y \in Published(conversation, r, one) : y.kind = "suggestions" => y \in conversation \/ y = p
        BY PublishedOne
      <3>2. mishaps = {} => conversation' = Published(conversation, r, one)
        BY <1>3, <2>2
      <3>3. mishaps = {} => \A y \in conversation : y.kind # "suggestions"
        BY <1>4, <1>6
      <3> QED
        BY <3>1, <3>2, <3>3 DEF Single
    <2> QED
      BY <1>1, <2>3, <2>4, ImproveEffect
  <1>7. ASSUME NEW c \in Oldest(WithTable),
               conversation' = IF Progress(r) = {} THEN Edited(Overwritten(r), {c}, "suggestions", Folded(r, c))
                               ELSE Published(Overwritten(r), r, Folded(r, c)) \ {c}
        PROVE  EndsRun(r)
    <2> DEFINE f == Folded(r, c)
    <2>1. c \in WithTable /\ c \in conversation /\ c.kind = "suggestions"
      BY <1>7, FoundAre DEF Oldest
    <2>2. TablesGood("suggestions", f, e)
      BY <2>1, FoldedGood
    <2>3. conversation' = IF Progress(r) = {} THEN Edited(Overwritten(r), {c}, "suggestions", f)
                          ELSE Published(Overwritten(r), r, f) \ {c}
      BY <1>7
    <2> HIDE DEF f
    <2>4. \A d \in {c} : d.kind \in Pending => d.owner = r
      BY <2>1 DEF Pending
    <2>5. "suggestions" \notin {"review"} /\ "suggestions" \notin Pending
      BY DEF Pending
    <2>6. CASE Progress(r) = {}
      <3>1. conversation' = Edited(Overwritten(r), {c}, "suggestions", f)
        BY <2>3, <2>6
      <3>2. Good(r, conversation', e, clock)
        BY <1>2, <1>3, <2>2, <2>4, <3>1, GoodEdit
      <3>3. Good(r, conversation', e, clock + 1)
        BY <3>2, <1>2, GoodLater
      <3>4. NoneNew(conversation', {"review"}) /\ NoneNew(conversation', Pending)
        BY <1>3, <2>5, <3>1, NoneNewEdit
      <3>5. \A d \in conversation' : d.kind = "progress" => d.owner # r
        <4>1. \A d \in conversation : d.kind = "progress" => d.owner # r
          BY <2>6, AnnouncedAre
        <4> QED
          BY <3>4, <4>1 DEF NoneNew, Pending
      <3>6. mishaps = {} => Single("suggestions")'
        <4>1. \A y \in Edited(Overwritten(r), {c}, "suggestions", f) :
                (y \in Overwritten(r) /\ y # c) \/ y = Rewritten(c, "suggestions", f)
          BY DEF Edited
        <4>2. mishaps = {} => \A y \in conversation : y.kind = "suggestions" => y = c
          BY <1>5, <2>1 DEF Single
        <4>3. mishaps = {} => \A y \in conversation' : y.kind = "suggestions" => y = Rewritten(c, "suggestions", f)
          BY <1>3, <3>1, <4>1, <4>2
        <4> QED
          BY <4>3 DEF Single
      <3> QED
        BY <1>1, <3>3, <3>4, <3>5, <3>6, ImproveEffect
    <2>7. CASE Progress(r) # {}
      <3> DEFINE cs == Published(Overwritten(r), r, f)
      <3>1. conversation' = cs \ {c}
        BY <2>3, <2>7
      <3>2. /\ Good(r, cs, e, clock + 1) /\ NoneNew(cs, {"review"})
            /\ \A d \in cs : d.kind = "progress" => d.owner # r
        BY <1>3, <2>2, <2>5, PublishedGood
      <3>3. PICK p : \A y \in Published(conversation, r, f) : y.kind = "suggestions" => y \in conversation \/ y = p
        BY PublishedOne
      <3>4. mishaps = {} => \A y \in cs : y.kind = "suggestions" => y \in conversation \/ y = p
        BY <1>3, <3>3
      <3> HIDE DEF cs
      <3>5. Good(r, conversation', e, clock + 1)
        BY <2>4, <3>1, <3>2, GoodLess
      <3>6. NoneNew(conversation', {"review"}) /\ \A d \in conversation' : d.kind = "progress" => d.owner # r
        BY <3>1, <3>2 DEF NoneNew
      <3>7. mishaps = {} => Single("suggestions")'
        BY <1>5, <2>1, <3>1, <3>4 DEF Single
      <3> QED
        BY <1>1, <3>5, <3>6, <3>7, ImproveEffect
    <2> QED
      BY <2>6, <2>7
  <1> QED
    BY <1>6, <1>7 DEF ImproveDone

LEMMA ImproveEnds ==
  ASSUME TalkInv, NEW r \in DOMAIN commands,
         \/ ImproveEditFails(r) \/ ImproveRemoveFails(r)
         \/ ImproveListFails(r) \/ ImproveEmpty(r) \/ ImproveFails(r)
  PROVE  EndsRun(r)
  <1> DEFINE e == "empty" \in mishaps
  <1>1. r \in Nat /\ clock \in Nat /\ "suggestions" \in Answering /\ "notice" \in Answering
    BY NatRun DEF Answering
  <1>2. Good(r, conversation, e, clock) /\ Good(r, conversation, TRUE, clock) /\ \A kinds : NoneNew(conversation, kinds)
    BY <1>1, GoodNow, GoodLater
  <1>3. "suggestions" \notin {"review"} /\ "notice" \notin {"review"} /\ mishaps \subseteq {"api", "empty"}
    BY SingleNow
  <1>4. Good(r, Overwritten(r), e, clock) /\ NoneNew(Overwritten(r), {"review"})
    BY <1>3, OverGood
  <1>5. ("empty" \in (mishaps \cup {"api"})) = e
    OBVIOUS
  <1>6. \A c \in Progress(r) : c.owner = r
    BY AnnouncedAre
  <1>7. CASE ImproveEditFails(r)
    <2>1. /\ Running(r, "improve") /\ Concluded(r) /\ mishaps' = mishaps \cup {"api"}
          /\ conversation' = Overwritten(r) \ Oldest(WithTable)
      BY <1>7 DEF ImproveEditFails
    <2>2. \A c \in Oldest(WithTable) : c.kind \in Pending => c.owner = r
      BY FoundAre DEF Oldest, Pending
    <2>3. Good(r, conversation', e, clock)
      BY <1>4, <2>1, <2>2, GoodLess
    <2>4. Good(r, conversation', "empty" \in mishaps', clock + 1)
      <3>1. Good(r, conversation', e, clock + 1)
        BY <1>1, <2>3, GoodLater
      <3> QED
        BY <1>5, <2>1, <3>1
    <2>5. NoneNew(conversation', {"review"})
      BY <1>4, <2>1 DEF NoneNew
    <2> QED
      BY <1>3, <2>1, <2>4, <2>5, ImproveEffect
  <1>8. CASE ImproveRemoveFails(r)
    <2>1. /\ Running(r, "improve") /\ Concluded(r) /\ mishaps' = mishaps \cup {"api"}
          /\ \E c \in Oldest(WithTable) : conversation' = Published(Overwritten(r), r, Folded(r, c))
      BY <1>8 DEF ImproveRemoveFails
    <2>2. PICK c \in Oldest(WithTable) : conversation' = Published(Overwritten(r), r, Folded(r, c))
      BY <2>1
    <2>3. TablesGood("suggestions", Folded(r, c), e)
      BY FoldedGood DEF Oldest
    <2>4. Good(r, conversation', e, clock + 1) /\ NoneNew(conversation', {"review"})
      BY <1>3, <1>4, <2>2, <2>3, PublishedGood
    <2>5. Good(r, conversation', "empty" \in mishaps', clock + 1)
      BY <1>5, <2>1, <2>4
    <2> QED
      BY <1>3, <2>1, <2>4, <2>5, ImproveEffect
  <1>9. CASE ImproveListFails(r)
    <2> DEFINE one == <<Table(r, TRUE)>>
    <2>1. /\ Running(r, "improve") /\ Concluded(r) /\ mishaps' = mishaps \cup {"api"}
          /\ conversation' = Published(conversation, r, one)
      BY <1>9 DEF ImproveListFails
    <2>2. TablesGood("suggestions", one, e)
      BY <1>1, OneTable
    <2> HIDE DEF one
    <2>3. Good(r, conversation', e, clock + 1) /\ NoneNew(conversation', {"review"})
      BY <1>2, <1>3, <2>1, <2>2, PublishedGood
    <2>4. Good(r, conversation', "empty" \in mishaps', clock + 1)
      BY <1>5, <2>1, <2>3
    <2> QED
      BY <1>3, <2>1, <2>3, <2>4, ImproveEffect
  <1>10. CASE ImproveEmpty(r)
    <2>1. /\ Running(r, "improve") /\ Concluded(r) /\ mishaps' = mishaps \cup {"empty"}
          /\ conversation' = Published(conversation, r, <<>>)
      BY <1>10 DEF ImproveEmpty
    <2>2. TablesGood("suggestions", <<>>, TRUE)
      BY <1>1, OneTable
    <2>3. /\ Good(r, conversation', TRUE, clock + 1) /\ NoneNew(conversation', {"review"})
          /\ \A c \in conversation' : c.kind = "progress" => c.owner # r
      BY <1>2, <1>3, <2>1, <2>2, PublishedGood
    <2>4. Good(r, conversation', "empty" \in mishaps', clock + 1) /\ mishaps' # {}
      <3>1. ("empty" \in mishaps') = TRUE
        BY <2>1
      <3> QED
        BY <2>3, <3>1
    <2> QED
      BY <1>3, <2>1, <2>3, <2>4, ImproveEffect
  <1>11. CASE ImproveFails(r)
    <2> DEFINE n == Comment(r, "notice", <<>>)
    <2>1. /\ Running(r, "improve") /\ Concluded(r) /\ mishaps' = mishaps
          /\ conversation' = IF Progress(r) # {} THEN conversation \ Progress(r) ELSE conversation \cup {n}
      BY <1>11 DEF ImproveFails
    <2>2. Good(r, conversation \ Progress(r), e, clock)
      BY <1>2, <1>6, GoodLess
    <2>3. Good(r, conversation \ Progress(r), e, clock + 1)
      BY <1>1, <2>2, GoodLater
    <2>4. Good(r, conversation \cup {n}, e, clock + 1)
      <3>1. TablesGood("notice", <<>>, e)
        BY <1>1, OneTable
      <3> QED
        BY <1>1, <1>2, <3>1, GoodAdd
    <2>5. n.kind = "notice"
      BY DEF Comment
    <2> HIDE DEF n
    <2>6. Good(r, conversation', "empty" \in mishaps', clock + 1)
      BY <2>1, <2>3, <2>4
    <2>7. NoneNew(conversation', {"review"}) /\ NoneNew(conversation', {"suggestions"})
      BY <2>1, <2>5 DEF NoneNew
    <2>8. \A c \in conversation' : c.kind = "progress" => c.owner # r
      BY <2>1, <2>5, AnnouncedAre
    <2>9. mishaps' = {} => Single("suggestions")'
      BY <2>1, <2>7, SingleNow, SingleKept
    <2> QED
      BY <1>3, <2>1, <2>6, <2>7, <2>8, <2>9, ImproveEffect
  <1> QED
    BY <1>7, <1>8, <1>9, <1>10, <1>11

-----------------------------------------------------------------------------
(* The conversation stays tidy.                                            *)

\* What is good of the comments is the invariant of the next state.
LEMMA SoundNext ==
  ASSUME Sound(conversation', commands', "empty" \in mishaps', clock'), clock' \in Nat,
         commands' \in Seq(CommandRecords), mishaps' \subseteq {"api", "empty"}
  PROVE  TalkTypeOK' /\ OneAnnouncement' /\ Dated' /\ HistoryBounded'
  <1>1. \A c \in conversation' :
          /\ c \in CommentRecords /\ c.owner \in DOMAIN commands' /\ c.at < clock'
          /\ TablesGood(c.kind, c.tables, "empty" \in mishaps')
          /\ c.kind \in {"temporary", "progress"} =>
               commands'[c.owner].tool # "kenny" /\ c.kind = Placeholder(commands'[c.owner].tool)
    BY DEF Sound, CommentGood
  <1>2. TalkTypeOK'
    BY <1>1 DEF TalkTypeOK, Sound
  <1>3. OneAnnouncement'
    BY <1>1 DEF OneAnnouncement, Sound
  <1>4. Dated'
    BY <1>1 DEF Dated, TablesGood
  <1>5. HistoryBounded'
    BY <1>1 DEF HistoryBounded, HistoryEnforced, TablesGood
  <1> QED
    BY <1>2, <1>3, <1>4, <1>5

\* Of the runs, what is good of the comments asks only for their tools.
LEMMA SoundRuns ==
  ASSUME NEW cs, NEW cmds, NEW more, NEW empty, NEW t, Sound(cs, cmds, empty, t),
         \A i \in DOMAIN cmds : i \in DOMAIN more /\ more[i].tool = cmds[i].tool
  PROVE  Sound(cs, more, empty, t)
  <1>1. \A c \in cs : CommentGood(c, cmds, empty) => CommentGood(c, more, empty)
    BY DEF CommentGood
  <1> QED
    BY <1>1 DEF Sound

LEMMA EndedTidy ==
  ASSUME TalkInv, NEW r, EndsRun(r)
  PROVE  TalkInv'
  <1>1. /\ r \in DOMAIN commands /\ commands[r].st = "running"
        /\ commands' = [commands EXCEPT ![r].st = "ended"] /\ clock' = clock + 1
    BY DEF EndsRun
  <1>2. commands \in Seq(CommandRecords) /\ clock \in Nat
    BY DEF TalkInv, TalkTypeOK
  <1>3. /\ commands' \in Seq(CommandRecords) /\ DOMAIN commands' = DOMAIN commands
        /\ \A i \in DOMAIN commands : /\ commands'[i].tool = commands[i].tool /\ commands'[i].auto = commands[i].auto
                                      /\ i # r => commands'[i].st = commands[i].st
        /\ commands'[r].st = "ended"
    <2> DEFINE over == [commands[r] EXCEPT !.st = "ended"]
    <2>1. commands[r] \in CommandRecords
      BY <1>1, <1>2
    <2>2. over \in CommandRecords /\ over.tool = commands[r].tool /\ over.auto = commands[r].auto /\ over.st = "ended"
      BY <2>1 DEF CommandRecords
    <2>3. commands' = [commands EXCEPT ![r] = over]
      BY <1>1
    <2> HIDE DEF over
    <2>4. commands' \in Seq(CommandRecords) /\ DOMAIN commands' = DOMAIN commands
      BY <1>1, <1>2, <2>2, <2>3
    <2>5. commands'[r] = over /\ \A i \in DOMAIN commands : i # r => commands'[i] = commands[i]
      BY <1>1, <1>2, <2>3
    <2> QED
      BY <2>2, <2>4, <2>5
  <1>4. Sound(conversation', commands', "empty" \in mishaps', clock')
    BY <1>1, <1>3, SoundRuns DEF EndsRun, Good
  <1>5. TalkTypeOK' /\ OneAnnouncement' /\ Dated' /\ HistoryBounded'
    BY <1>1, <1>2, <1>3, <1>4, SoundNext DEF EndsRun
  <1>6. OneCommentEach'
    BY DEF EndsRun, OneCommentEach
  <1>7. Placeholders'
    <2>1. ASSUME NEW i \in DOMAIN commands', commands'[i].st = "running", ~commands'[i].auto,
                 commands'[i].tool # "kenny"
          PROVE  \E c \in conversation' : c.owner = i /\ c.kind \in {"temporary", "progress"}
      <3>1. i # r /\ i \in DOMAIN commands /\ commands[i].st = "running" /\ ~commands[i].auto
            /\ commands[i].tool # "kenny"
        BY <1>3, <2>1
      <3>2. PICK c \in conversation : c.owner = i /\ c.kind \in {"temporary", "progress"}
        BY <3>1 DEF TalkInv, Tidy, Placeholders
      <3>3. c \in conversation'
        BY <3>1, <3>2 DEF EndsRun, Good, Pending
      <3> QED
        BY <3>2, <3>3
    <2>2. ASSUME "api" \notin mishaps', NEW c \in conversation', c.kind = "progress"
          PROVE  commands'[c.owner].st = "running"
      <3>1. c \in conversation /\ c.owner # r /\ "api" \notin mishaps
        BY <2>2 DEF EndsRun, Good, NoneNew, Pending
      <3>2. commands[c.owner].st = "running" /\ c.owner \in DOMAIN commands
        BY <2>2, <3>1 DEF TalkInv, TalkTypeOK, Tidy, Placeholders
      <3> QED
        BY <1>3, <3>1, <3>2
    <2> QED
      BY <2>1, <2>2 DEF Placeholders
  <1> QED
    BY <1>5, <1>6, <1>7 DEF TalkInv, Tidy

LEMMA CommandTidy ==
  ASSUME TalkInv, NEW tool \in Commenting, NEW auto \in BOOLEAN, Command(tool, auto)
  PROVE  TalkInv' /\ conversation \subseteq conversation'
  <1> DEFINE r == Len(commands) + 1
             n == Comment(r, Placeholder(tool), <<>>)
             new == [tool |-> tool, auto |-> auto, st |-> "running"]
  <1>1. commands \in Seq(CommandRecords) /\ clock \in Nat /\ mishaps \subseteq {"api", "empty"}
    BY DEF TalkInv, TalkTypeOK
  <1>2. new \in CommandRecords /\ new.tool = tool /\ new.auto = auto /\ new.st = "running"
    BY DEF CommandRecords
  <1>3. /\ commands' = Append(commands, new) /\ clock' = clock + 1 /\ mishaps' = mishaps
        /\ conversation' = IF auto \/ tool = "kenny" THEN conversation ELSE conversation \cup {n}
    BY DEF Command
  <1> HIDE DEF new
  <1>4. /\ commands' \in Seq(CommandRecords) /\ r \in DOMAIN commands' /\ commands'[r] = new /\ r \in Nat
        /\ r \notin DOMAIN commands /\ \A i \in DOMAIN commands' : i \in DOMAIN commands \/ i = r
        /\ \A i \in DOMAIN commands : i \in DOMAIN commands' /\ commands'[i] = commands[i]
    BY <1>1, <1>2, <1>3
  <1>5. n.at = clock /\ n.owner = r /\ n.kind = Placeholder(tool) /\ n.tables = <<>>
    BY DEF Comment
  <1>6. Placeholder(tool) \in {"temporary", "progress"}
    BY DEF Placeholder
  <1>7. n \in CommentRecords
    BY <1>1, <1>4, <1>6 DEF Comment, CommentRecords
  <1> HIDE DEF r, n
  <1>8. Sound(conversation, commands', "empty" \in mishaps, clock + 1)
    <2>1. Sound(conversation, commands, "empty" \in mishaps, clock + 1)
      BY <1>1, SoundNow, SoundLater
    <2> QED
      BY <1>4, <2>1, SoundRuns
  <1>9. \A c \in conversation : c.at < clock /\ c.at \in Nat /\ c.owner # r
    BY <1>4 DEF TalkInv, TalkTypeOK, CommentRecords
  <1>10. ASSUME ~(auto \/ tool = "kenny")
         PROVE  Sound(conversation \cup {n}, commands', "empty" \in mishaps, clock + 1)
    <2>1. TablesGood(n.kind, n.tables, "empty" \in mishaps)
      <3>1. n.kind # "suggestions"
        BY <1>5, <1>6
      <3>2. <<>> \in Seq(Tables) /\ Len(<<>>) = 0 /\ MaxHistory \in Nat
        BY HistoryAssumption
      <3> QED
        BY <1>5, <3>1, <3>2 DEF TablesGood
    <2>2. CommentGood(n, commands', "empty" \in mishaps) /\ n.at < clock + 1
      BY <1>1, <1>2, <1>4, <1>5, <1>7, <1>10, <2>1 DEF CommentGood
    <2>3. \A c, d \in conversation \cup {n} : c.at = d.at => c = d
      BY <1>1, <1>5, <1>8, <1>9 DEF Sound
    <2>4. \A c, d \in conversation \cup {n} :
            c.owner = d.owner /\ c.kind \in {"temporary", "progress"} /\ d.kind = c.kind => c = d
      BY <1>5, <1>8, <1>9 DEF Sound
    <2> QED
      BY <1>8, <2>2, <2>3, <2>4 DEF Sound
  <1>11. Sound(conversation', commands', "empty" \in mishaps', clock')
    BY <1>3, <1>8, <1>10
  <1>12. TalkTypeOK' /\ OneAnnouncement' /\ Dated' /\ HistoryBounded'
    BY <1>1, <1>3, <1>4, <1>11, SoundNext
  <1>13. conversation \subseteq conversation' /\ \A c \in conversation' : c \in conversation \/ c = n
    BY <1>3
  <1>14. OneCommentEach'
    <2>1. \A c \in conversation' : c.kind \in {"review", "suggestions"} => c \in conversation
      BY <1>5, <1>6, <1>13
    <2> QED
      BY <1>3, <2>1, SingleNow DEF OneCommentEach, Single
  <1>15. Placeholders'
    <2>1. ASSUME NEW i \in DOMAIN commands', commands'[i].st = "running", ~commands'[i].auto,
                 commands'[i].tool # "kenny"
          PROVE  \E c \in conversation' : c.owner = i /\ c.kind \in {"temporary", "progress"}
      <3>1. CASE i = r
        <4>1. n \in conversation'
          BY <1>2, <1>3, <1>4, <2>1, <3>1
        <4> QED
          BY <1>5, <1>6, <3>1, <4>1
      <3>2. CASE i # r
        <4>1. PICK c \in conversation : c.owner = i /\ c.kind \in {"temporary", "progress"}
          BY <1>4, <2>1, <3>2 DEF TalkInv, Tidy, Placeholders
        <4> QED
          BY <1>13, <4>1
      <3> QED
        BY <3>1, <3>2
    <2>2. ASSUME "api" \notin mishaps', NEW c \in conversation', c.kind = "progress"
          PROVE  commands'[c.owner].st = "running"
      <3>1. CASE c = n
        BY <1>2, <1>4, <1>5, <3>1
      <3>2. CASE c \in conversation
        <4>1. commands[c.owner].st = "running" /\ c.owner \in DOMAIN commands
          BY <1>3, <2>2, <3>2 DEF TalkInv, TalkTypeOK, Tidy, Placeholders
        <4> QED
          BY <1>4, <4>1
      <3> QED
        BY <1>13, <3>1, <3>2
    <2> QED
      BY <2>1, <2>2 DEF Placeholders
  <1> QED
    BY <1>12, <1>13, <1>14, <1>15 DEF TalkInv, Tidy

LEMMA TalkInitially ==
  TalkInit => TalkInv
  <1> SUFFICES ASSUME TalkInit PROVE TalkInv
    OBVIOUS
  <1>1. conversation = {} /\ commands = <<>> /\ mishaps = {} /\ clock = 0
    BY DEF TalkInit
  <1>2. TalkTypeOK
    BY <1>1 DEF TalkTypeOK
  <1>3. Tidy
    BY <1>1 DEF Tidy, OneCommentEach, Single, HistoryBounded, HistoryEnforced, Placeholders
  <1> QED
    BY <1>1, <1>2, <1>3 DEF TalkInv, OneAnnouncement, Dated

LEMMA TalkStep ==
  TalkInv /\ [TalkNext]_talkVars => TalkInv'
  <1> SUFFICES ASSUME TalkInv, [TalkNext]_talkVars PROVE TalkInv'
    OBVIOUS
  <1>1. ASSUME NEW tool \in Commenting, NEW auto \in BOOLEAN, Command(tool, auto)
        PROVE  TalkInv'
    BY <1>1, CommandTidy
  <1>2. ASSUME NEW r \in DOMAIN commands,
               \/ ReviewDone(r) \/ ReviewListFails(r) \/ ReviewEditFails(r) \/ ReviewEmpty(r) \/ ReviewAbandoned(r)
        PROVE  TalkInv'
    BY <1>2, ReviewEnds, EndedTidy
  <1>3. ASSUME NEW r \in DOMAIN commands, ImproveDone(r)
        PROVE  TalkInv'
    BY <1>3, ImproveDoneEnds, EndedTidy
  <1>4. ASSUME NEW r \in DOMAIN commands,
               \/ ImproveEditFails(r) \/ ImproveRemoveFails(r)
               \/ ImproveListFails(r) \/ ImproveEmpty(r) \/ ImproveFails(r)
        PROVE  TalkInv'
    BY <1>4, ImproveEnds, EndedTidy
  <1>5. ASSUME NEW r \in DOMAIN commands, KennyDone(r)
        PROVE  TalkInv'
    BY <1>5, KennyEnds, EndedTidy
  <1>6. CASE UNCHANGED talkVars
    BY <1>6 DEF talkVars, TalkInv, TalkTypeOK, OneAnnouncement, Dated, Tidy, OneCommentEach, Single,
                HistoryBounded, HistoryEnforced, Placeholders
  <1> QED
    BY <1>1, <1>2, <1>3, <1>4, <1>5, <1>6 DEF TalkNext

\* The variables keep their types: comments differ by their time, and belong to
\* a run.
THEOREM TalkTypeCorrect ==
  TalkSpec => []TalkTypeOK
  <1>1. TalkInv => TalkTypeOK
    BY DEF TalkInv
  <1> QED
    BY <1>1, TalkInitially, TalkStep, PTL DEF TalkSpec

\* However runs overlap and fail, the conversation stays tidy: one reviewer
\* guide while requests succeed, one suggestions comment while runs also had
\* something to suggest, no history beyond its bound while they had, and an
\* announcement for each run under way and for no other.
THEOREM StaysTidy ==
  TalkSpec => []Tidy
  <1>1. TalkInv => Tidy
    BY DEF TalkInv
  <1> QED
    BY <1>1, TalkInitially, TalkStep, PTL DEF TalkSpec

-----------------------------------------------------------------------------
(* What is forgotten.                                                      *)

\* The comments have a table that b made.
Remember(cs, b) ==
  \E c \in cs : c.kind = "suggestions" /\ \E i \in DOMAIN c.tables : c.tables[i].by = b
Makers(cs) == {t.by : t \in UNION {Range(c.tables) : c \in {d \in cs : d.kind = "suggestions"}}}

LEMMA SuggestedIs ==
  /\ \A b : b \in Suggested <=> Remember(conversation, b)
  /\ \A b : b \in Suggested' <=> Remember(conversation', b)
  <1>1. ASSUME NEW cs, NEW b
        PROVE  b \in Makers(cs) <=> Remember(cs, b)
    <2>1. b \in Makers(cs) <=> \E t \in UNION {Range(c.tables) : c \in {d \in cs : d.kind = "suggestions"}} : t.by = b
      BY DEF Makers
    <2>2. \A t : t \in UNION {Range(c.tables) : c \in {d \in cs : d.kind = "suggestions"}}
                   <=> \E c \in cs : c.kind = "suggestions" /\ \E i \in DOMAIN c.tables : t = c.tables[i]
      BY DEF Range
    <2> DEFINE all == UNION {Range(c.tables) : c \in {d \in cs : d.kind = "suggestions"}}
    <2> HIDE DEF all
    <2>3. ASSUME NEW t, t \in all, t.by = b
          PROVE  Remember(cs, b)
      <3>1. PICK c \in cs : c.kind = "suggestions" /\ \E i \in DOMAIN c.tables : t = c.tables[i]
        BY <2>2, <2>3, ZenonT(40) DEF all
      <3> QED
        BY <2>3, <3>1 DEF Remember
    <2>4. ASSUME Remember(cs, b)
          PROVE  \E t \in all : t.by = b
      <3>1. PICK c \in cs : c.kind = "suggestions" /\ \E i \in DOMAIN c.tables : c.tables[i].by = b
        BY <2>4 DEF Remember
      <3>2. PICK i \in DOMAIN c.tables : c.tables[i].by = b
        BY <3>1
      <3>3. c.tables[i] \in all
        BY <2>2, <3>1 DEF all
      <3> QED
        BY <3>2, <3>3
    <2> QED
      BY <2>1, <2>3, <2>4 DEF all
  <1>2. Suggested = Makers(conversation) /\ Suggested' = Makers(conversation')
    BY DEF Suggested, Makers
  <1> QED
    BY <1>1, <1>2

\* A step forgets nothing that it should not.
Remembers ==
  /\ Suggested \subseteq Suggested' \/ FullHistory \/ \E r \in DOMAIN commands : ImproveEditFails(r)
  /\ mishaps' = {} =>
       \A c \in WithTable : \A t \in Range(c.tables) : t.by \in Suggested' \/ t = Last(c.tables)

LEMMA StayingRemembers ==
  ASSUME TalkInv, \A c \in WithTable : c \in conversation'
  PROVE  Remembers
  <1>1. \A c \in WithTable : \A i \in DOMAIN c.tables : c.tables[i].by \in Suggested'
    <2>1. \A c \in WithTable : c.kind = "suggestions"
      BY FoundAre
    <2> QED
      BY <2>1, SuggestedIs DEF Remember
  <1>2. ASSUME NEW b \in Suggested
        PROVE  b \in Suggested'
    <2>1. PICK c \in conversation : c.kind = "suggestions" /\ \E i \in DOMAIN c.tables : c.tables[i].by = b
      BY <1>2, SuggestedIs DEF Remember
    <2>2. c \in WithTable
      BY <2>1, FoundAre
    <2> QED
      BY <1>1, <2>1, <2>2
  <1> QED
    BY <1>1, <1>2 DEF Remembers, Range

\* A comment with tables is none of those that announce a run.
LEMMA TablesStay ==
  ASSUME TalkInv, NEW c \in WithTable, NEW r, NEW cs, c \in cs
  PROVE  /\ c \in conversation /\ c.kind = "suggestions"
         /\ c \in cs \ Announcement(r, "temporary") /\ c \in cs \ Progress(r)
         /\ \A tables : c \in Published(cs, r, tables)
         /\ \A found : (\A d \in found : d \in FoundReview) => c \in Persisted(r, found)
  <1>1. c \in conversation /\ c.kind = "suggestions"
    BY FoundAre
  <1>2. c \notin Announcement(r, "temporary") /\ c \notin Progress(r)
    BY <1>1, AnnouncedAre
  <1>3. \A which, kind, tables : c \notin which => c \in Edited(cs, which, kind, tables)
    BY DEF Edited
  <1>4. \A tables : c \in Published(cs, r, tables)
    BY <1>2, <1>3 DEF Published
  <1>5. ASSUME NEW found, \A d \in found : d \in FoundReview
        PROVE  c \in Persisted(r, found)
    <2>1. c \notin Oldest(found)
      BY <1>1, <1>5, FoundAre DEF Oldest
    <2>2. \A which, kind, tables : c \notin which => c \in Edited(conversation, which, kind, tables)
      BY <1>1 DEF Edited
    <2> QED
      BY <1>1, <2>1, <2>2 DEF Persisted
  <1> QED
    BY <1>1, <1>2, <1>4, <1>5

LEMMA ReviewRemembers ==
  ASSUME TalkInv, NEW r \in DOMAIN commands,
         \/ ReviewDone(r) \/ ReviewListFails(r) \/ ReviewEditFails(r) \/ ReviewEmpty(r) \/ ReviewAbandoned(r)
         \/ KennyDone(r)
  PROVE  Remembers
  <1> SUFFICES ASSUME NEW c \in WithTable PROVE c \in conversation'
    BY StayingRemembers
  <1>1. c \in conversation /\ c \notin Announcement(r, "temporary")
    BY FoundAre, AnnouncedAre
  <1>2. ASSUME NEW found, \A d \in found : d \in FoundReview
        PROVE  c \in Persisted(r, found)
    BY <1>1, <1>2, TablesStay
  <1>3. c \in Persisted(r, FoundReview) /\ c \in Persisted(r, {})
    BY <1>2
  <1> QED
    BY <1>1, <1>3, FoundAre DEF ReviewDone, ReviewListFails, ReviewEditFails, ReviewEmpty, ReviewAbandoned, KennyDone

\* The history that a comment is folded into.
LEMMA FoldingRemembers ==
  ASSUME TalkInv, NEW r \in DOMAIN commands, NEW c \in WithTable, mishaps' = mishaps,
         NEW x \in conversation', x.kind = "suggestions", x.tables = Folded(r, c),
         \A d \in WithTable : d # c => d \in conversation'
  PROVE  Remembers
  <1> DEFINE s == c.tables
             f == Folded(r, c)
  <1>1. c \in conversation /\ c.kind = "suggestions" /\ s # <<>> /\ r \in Nat
    BY FoundAre, NatRun
  <1>2. TablesGood("suggestions", s, "empty" \in mishaps) /\ s \in Seq(Tables)
    BY <1>1, SoundNow DEF Sound, CommentGood, TablesGood
  <1>3. /\ f \in Seq(Tables)
        /\ \A i \in 2 .. Len(f) : f[i] = s[i - 1]
        /\ Len(s) =< MaxHistory => ~(Len(f) < Len(s) + 1)
        /\ (\A i \in DOMAIN s : s[i].dated) /\ Len(s) =< MaxHistory + 1 => Len(f) >= Len(s)
    <2>1. c.tables \in Seq(Tables) /\ c.tables # <<>>
      BY <1>1, <1>2
    <2>2. /\ f \in Seq(Tables) /\ Len(f) >= 2
          /\ f[1] = Table(r, TRUE)
          /\ Len(f) =< Len(c.tables) + 1
          /\ \A i \in 2 .. Len(f) : f[i] = c.tables[i - 1]
          /\ Len(c.tables) =< MaxHistory => Len(f) = Len(c.tables) + 1
          /\ (\A i \in DOMAIN c.tables : c.tables[i].dated) /\ Len(c.tables) =< MaxHistory + 1 =>
               /\ Len(f) >= Len(c.tables) /\ Len(f) =< MaxHistory + 1
               /\ \A i \in DOMAIN f : f[i].dated
      BY <1>1, <2>1, FoldedIs
    <2>3. Len(s) \in Nat
      BY <2>1
    <2> HIDE DEF f
    <2>4. Len(f) = Len(c.tables) + 1 => ~(Len(f) < Len(s) + 1)
      BY <2>3
    <2> QED
      BY <2>2, <2>4
  <1>4. MaxHistory \in Nat
    BY HistoryAssumption
  <1>5. ASSUME NEW i \in DOMAIN f PROVE f[i].by \in Suggested'
    BY <1>5, SuggestedIs DEF Remember
  <1>6. ASSUME NEW d \in WithTable, d # c, NEW i \in DOMAIN d.tables
        PROVE  d.tables[i].by \in Suggested'
    BY <1>6, FoundAre, SuggestedIs DEF Remember
  <1>7. mishaps' = {} => (\A i \in DOMAIN s : s[i].dated) /\ Len(s) =< MaxHistory + 1
    BY <1>2 DEF TablesGood
  <1>8. ~FullHistory => ~(Len(s) >= MaxHistory + 1)
    BY <1>1 DEF FullHistory
  <1> HIDE DEF f, s
  <1>9. /\ Len(s) \in Nat \ {0} /\ DOMAIN s = 1 .. Len(s)
         /\ Len(f) \in Nat /\ DOMAIN f = 1 .. Len(f)
    <2>1. s \in Seq(Tables) /\ s # <<>> /\ f \in Seq(Tables)
      BY <1>1, <1>2, <1>3
    <2> QED
      BY <2>1
  <1>10. ASSUME NEW i \in DOMAIN s, i < Len(f)
        PROVE  s[i].by \in Suggested'
    <2>1. i + 1 \in 2 .. Len(f) /\ i + 1 \in DOMAIN f /\ (i + 1) - 1 = i
      BY <1>10, <1>9
    <2>2. f[i + 1] = s[i]
      BY <1>3, <2>1
    <2> QED
      BY <1>5, <2>1, <2>2
  <1>11. FullHistory \/ Suggested \subseteq Suggested'
    <2> SUFFICES ASSUME ~FullHistory, NEW b \in Suggested PROVE b \in Suggested'
      OBVIOUS
    <2>1. PICK d \in conversation : d.kind = "suggestions" /\ \E i \in DOMAIN d.tables : d.tables[i].by = b
      BY SuggestedIs DEF Remember
    <2>2. d \in WithTable
      BY <2>1, FoundAre
    <2>3. CASE d = c
      <3>1. PICK i \in DOMAIN s : s[i].by = b
        BY <2>1, <2>3 DEF s
      <3>2. i < Len(f)
        BY <1>3, <1>4, <1>8, <1>9
      <3> QED
        BY <1>10, <3>1, <3>2
    <2> QED
      BY <1>6, <2>1, <2>2, <2>3
  <1>12. ASSUME mishaps' = {}, NEW i \in DOMAIN s
         PROVE  s[i].by \in Suggested' \/ s[i] = Last(s)
    <2>1. CASE i < Len(f)
      BY <1>10, <2>1
    <2>2. CASE ~(i < Len(f))
      <3>1. i = Len(s)
        BY <1>3, <1>7, <1>12, <1>9, <2>2
      <3> QED
        BY <3>1 DEF Last
    <2> QED
      BY <2>1, <2>2
  <1>13. ASSUME mishaps' = {}, NEW d \in WithTable, NEW t \in Range(d.tables)
         PROVE  t.by \in Suggested' \/ t = Last(d.tables)
    <2>1. PICK i \in DOMAIN d.tables : t = d.tables[i]
      BY <1>13 DEF Range
    <2> QED
      BY <1>6, <1>12, <1>13, <2>1 DEF s
  <1> QED
    BY <1>11, <1>13 DEF Remembers

LEMMA ImproveRemembers ==
  ASSUME TalkInv, NEW r \in DOMAIN commands, ImproveDone(r)
  PROVE  Remembers
  <1>1. CASE WithTable = {}
    BY <1>1, StayingRemembers
  <1>2. CASE WithTable # {}
    <2>1. /\ mishaps' = mishaps
          /\ \E c \in Oldest(WithTable) :
               conversation' = IF Progress(r) = {} THEN Edited(Overwritten(r), {c}, "suggestions", Folded(r, c))
                               ELSE Published(Overwritten(r), r, Folded(r, c)) \ {c}
      BY <1>2 DEF ImproveDone
    <2>2. PICK c \in Oldest(WithTable) :
               conversation' = IF Progress(r) = {} THEN Edited(Overwritten(r), {c}, "suggestions", Folded(r, c))
                               ELSE Published(Overwritten(r), r, Folded(r, c)) \ {c}
      BY <2>1
    <2> DEFINE f == Folded(r, c)
               over == Overwritten(r)
    <2>3. c \in WithTable /\ c \in conversation /\ c.kind = "suggestions" /\ c \in CommentRecords
      BY FoundAre DEF Oldest, TalkInv, TalkTypeOK
    <2>4. \A d \in conversation : d \notin FoundSuggestions \ WithTable => d \in over
      BY OverGood
    <2>5. \A d \in WithTable : d \in over
      BY <2>4, FoundAre
    <2>6. conversation' = IF Progress(r) = {} THEN Edited(over, {c}, "suggestions", f)
                          ELSE Published(over, r, f) \ {c}
      BY <2>2
    <2> HIDE DEF f, over
    <2>7. ASSUME NEW z \in CommentRecords
          PROVE  /\ Rewritten(z, "suggestions", f).kind = "suggestions"
                 /\ Rewritten(z, "suggestions", f).tables = f /\ Rewritten(z, "suggestions", f).at = z.at
      BY DEF CommentRecords, Rewritten
    <2>8. \E x \in conversation' : x.kind = "suggestions" /\ x.tables = f
      <3>1. CASE Progress(r) = {}
        <4>1. Rewritten(c, "suggestions", f) \in Edited(over, {c}, "suggestions", f)
          BY <2>3, <2>5 DEF Edited
        <4> QED
          BY <2>3, <2>6, <2>7, <3>1, <4>1
      <3>2. CASE Progress(r) # {}
        <4>1. PICK z \in Progress(r) : TRUE
          BY <3>2
        <4>2. z \in conversation /\ z.kind = "progress" /\ z \in CommentRecords
          <5>1. Progress(r) = Announcement(r, "progress")
            BY AnnouncedAre
          <5>2. z \in conversation /\ z.kind = "progress"
            BY <4>1, <5>1, AnnouncedAre
          <5> QED
            BY <5>2 DEF TalkInv, TalkTypeOK
        <4>3. z \in over
          BY <2>4, <4>2, FoundAre
        <4>4. Rewritten(z, "suggestions", f) \in Published(over, r, f)
          BY <3>2, <4>1, <4>3 DEF Published, Edited
        <4>5. Rewritten(z, "suggestions", f) # c
          <5>1. z.at # c.at
            BY <2>3, <4>2 DEF TalkInv, TalkTypeOK
          <5> QED
            BY <2>7, <4>2, <5>1
        <4> QED
          BY <2>6, <2>7, <3>2, <4>2, <4>4, <4>5
      <3> QED
        BY <3>1, <3>2
    <2>9. \A d \in WithTable : d # c => d \in conversation'
      <3>1. \A d \in WithTable : d # c => d \in Edited(over, {c}, "suggestions", f)
        BY <2>5 DEF Edited
      <3>2. \A d \in WithTable : d \in Published(over, r, f)
        BY <2>5, TablesStay
      <3> QED
        BY <2>6, <3>1, <3>2
    <2> QED
      BY <2>1, <2>3, <2>8, <2>9, FoldingRemembers DEF f
  <1> QED
    BY <1>1, <1>2

LEMMA FailingRemembers ==
  ASSUME TalkInv, NEW r \in DOMAIN commands,
         \/ ImproveEditFails(r) \/ ImproveRemoveFails(r)
         \/ ImproveListFails(r) \/ ImproveEmpty(r) \/ ImproveFails(r)
  PROVE  Remembers
  <1>1. CASE ImproveEditFails(r)
    <2>1. mishaps' # {}
      BY <1>1 DEF ImproveEditFails
    <2> QED
      BY <1>1, <2>1 DEF Remembers
  <1>2. CASE ~ImproveEditFails(r)
    <2> SUFFICES ASSUME NEW c \in WithTable PROVE c \in conversation'
      BY StayingRemembers
    <2>1. c \in conversation /\ c \in Overwritten(r)
      BY FoundAre, OverGood
    <2>2. \A tables : c \in Published(conversation, r, tables) /\ c \in Published(Overwritten(r), r, tables)
      BY <2>1, TablesStay
    <2>3. c \in conversation \ Progress(r)
      BY <2>1, TablesStay
    <2> QED
      BY <1>2, <2>1, <2>2, <2>3 DEF ImproveRemoveFails, ImproveListFails, ImproveEmpty, ImproveFails
  <1> QED
    BY <1>1, <1>2

\* No table of suggestions leaves the conversation but for a full history or an
\* edit that failed; and of a full history only the oldest, as long as every run
\* had something to suggest and no request failed.
THEOREM ForgetsNothing ==
  TalkSpec => NothingForgotten
  <1>1. ASSUME TalkInv, TalkNext PROVE Remembers
    <2>1. ASSUME NEW tool \in Commenting, NEW auto \in BOOLEAN, Command(tool, auto)
          PROVE  Remembers
      <3>1. \A c \in WithTable : c \in conversation'
        BY <1>1, <2>1, CommandTidy, FoundAre
      <3> QED
        BY <1>1, <3>1, StayingRemembers
    <2>2. ASSUME NEW r \in DOMAIN commands,
                 \/ ReviewDone(r) \/ ReviewListFails(r) \/ ReviewEditFails(r) \/ ReviewEmpty(r)
                 \/ ReviewAbandoned(r) \/ KennyDone(r)
          PROVE  Remembers
      BY <1>1, <2>2, ReviewRemembers
    <2>3. ASSUME NEW r \in DOMAIN commands, ImproveDone(r)
          PROVE  Remembers
      BY <1>1, <2>3, ImproveRemembers
    <2>4. ASSUME NEW r \in DOMAIN commands,
                 \/ ImproveEditFails(r) \/ ImproveRemoveFails(r)
                 \/ ImproveListFails(r) \/ ImproveEmpty(r) \/ ImproveFails(r)
          PROVE  Remembers
      BY <1>1, <2>4, FailingRemembers
    <2> QED
      BY <1>1, <2>1, <2>2, <2>3, <2>4 DEF TalkNext
  <1>2. TalkInv /\ [TalkNext]_talkVars =>
          [/\ Suggested \subseteq Suggested' \/ FullHistory \/ \E r \in DOMAIN commands : ImproveEditFails(r)
           /\ mishaps' = {} =>
                \A c \in WithTable : \A t \in Range(c.tables) : t.by \in Suggested' \/ t = Last(c.tables)]_talkVars
    BY <1>1 DEF Remembers
  <1> QED
    BY <1>2, TalkInitially, TalkStep, PTL DEF TalkSpec, NothingForgotten
=============================================================================
