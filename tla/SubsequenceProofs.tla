------------------------- MODULE SubsequenceProofs --------------------------
(***************************************************************************)
(* Lemmas about the elements of a list at a set of positions, for any list *)
(* and any finite set.                                                     *)
(***************************************************************************)
EXTENDS Subsequences, FiniteSetTheorems, FunctionTheorems, TLAPS

\* The members of a set of numbers that precede one of them are fewer than all.
LEMMA RankType ==
  ASSUME NEW S, IsFiniteSet(S)
  PROVE  /\ Cardinality(S) \in Nat
         /\ \A i : Rank(S, i) \in 0 .. Cardinality(S)
         /\ S \subseteq Int => \A i \in S : Rank(S, i) + 1 \in 1 .. Cardinality(S)
  <1>1. Cardinality(S) \in Nat
    BY FS_CardinalityType
  <1>2. ASSUME NEW i
        PROVE  Rank(S, i) \in 0 .. Cardinality(S)
    <2> DEFINE T == {j \in S : j < i}
    <2>1. T \in SUBSET S
      OBVIOUS
    <2> HIDE DEF T
    <2>2. IsFiniteSet(T) /\ Cardinality(T) =< Cardinality(S)
      BY <2>1, FS_Subset
    <2>3. Cardinality(T) \in Nat
      BY <2>2, FS_CardinalityType
    <2> QED
      BY <1>1, <2>2, <2>3 DEF Rank, T
  <1>3. ASSUME S \subseteq Int, NEW i \in S
        PROVE  Rank(S, i) + 1 \in 1 .. Cardinality(S)
    <2> DEFINE T == {j \in S : j < i}
    <2>1. T \in SUBSET S /\ T # S
      BY <1>3
    <2> HIDE DEF T
    <2>2. Cardinality(T) # Cardinality(S)
      BY <2>1, FS_Subset
    <2>3. Rank(S, i) # Cardinality(S)
      BY <2>2 DEF Rank, T
    <2> QED
      BY <1>1, <1>2, <2>3
  <1> QED
    BY <1>1, <1>2, <1>3

\* A later member is preceded by more.
LEMMA RankGrows ==
  ASSUME NEW S \in SUBSET Int, IsFiniteSet(S), NEW i \in S, NEW j \in Int, i < j
  PROVE  Rank(S, i) < Rank(S, j)
  <1> DEFINE T == {x \in S : x < i}
             U == {x \in S : x < j}
  <1>0. i \in Int /\ \A x \in S : x \in Int
    OBVIOUS
  <1>1. T \in SUBSET U /\ i \in U /\ i \notin T
    <2>1. \A x \in S : x < i => x < j
      BY <1>0
    <2>2. T \in SUBSET U
      BY <2>1
    <2>3. i \in U
      OBVIOUS
    <2>4. ~(i < i)
      BY <1>0
    <2>5. i \notin T
      BY <2>4
    <2> QED
      BY <2>2, <2>3, <2>5
  <1>2. U \in SUBSET S
    OBVIOUS
  <1> HIDE DEF T, U
  <1>3. IsFiniteSet(U)
    BY <1>2, FS_Subset
  <1>4. Cardinality(T) =< Cardinality(U) /\ Cardinality(T) # Cardinality(U)
    BY <1>1, <1>3, FS_Subset
  <1>5. Cardinality(T) = Rank(S, i) /\ Cardinality(U) = Rank(S, j)
    BY DEF Rank, T, U
  <1> QED
    BY <1>4, <1>5, RankType

LEMMA RankSame ==
  ASSUME NEW S \in SUBSET Int, IsFiniteSet(S), NEW i \in S, NEW j \in S, Rank(S, i) = Rank(S, j)
  PROVE  i = j
  <1>1. i < j => Rank(S, i) < Rank(S, j)
    BY RankGrows
  <1>2. j < i => Rank(S, j) < Rank(S, i)
    BY RankGrows
  <1>3. Rank(S, i) \in Int /\ i \in Int /\ j \in Int
    BY RankType
  <1> QED
    BY <1>1, <1>2, <1>3

\* Each of the numbers below the size of S is the rank of one member.
LEMMA Ranked ==
  ASSUME NEW S \in SUBSET Int, IsFiniteSet(S), NEW n \in 1 .. Cardinality(S)
  PROVE  \E i \in S : Rank(S, i) = n - 1
  <1> DEFINE c == Cardinality(S)
             f == [i \in S |-> Rank(S, i) + 1]
  <1>1. c \in Nat /\ f \in [S -> 1 .. c]
    BY RankType
  <1>2. \A i, j \in S : f[i] = f[j] => i = j
    BY RankSame, RankType
  <1>3. IsFiniteSet(1 .. c) /\ Cardinality(1 .. c) = c
    BY <1>1, FS_Interval
  <1> HIDE DEF f
  <1>4. f \in Injection(S, 1 .. c)
    BY <1>1, <1>2, Fun_IsInj
  <1>5. f \in Surjection(S, 1 .. c)
    BY <1>3, <1>4, FS_Injection
  <1>6. \E i \in S : f[i] = n
    BY <1>5 DEF Surjection
  <1>7. \A i \in S : f[i] = Rank(S, i) + 1 /\ Rank(S, i) \in Int
    BY RankType DEF f
  <1> QED
    BY <1>1, <1>6, <1>7

\* Ascending(S) goes through the members of S in their order.
LEMMA Ascends ==
  ASSUME NEW S \in SUBSET Int, IsFiniteSet(S)
  PROVE  /\ Ascending(S) \in [1 .. Cardinality(S) -> S]
         /\ \A n \in 1 .. Cardinality(S) : Rank(S, Ascending(S)[n]) = n - 1
         /\ \A i \in S : Rank(S, i) + 1 \in 1 .. Cardinality(S) /\ Ascending(S)[Rank(S, i) + 1] = i
         /\ \A m, n \in 1 .. Cardinality(S) : m < n => Ascending(S)[m] < Ascending(S)[n]
  <1>1. ASSUME NEW n \in 1 .. Cardinality(S)
        PROVE  Ascending(S)[n] \in S /\ Rank(S, Ascending(S)[n]) = n - 1
    BY <1>1, Ranked DEF Ascending
  <1>2. Ascending(S) \in [1 .. Cardinality(S) -> S]
    <2>1. Ascending(S) = [n \in 1 .. Cardinality(S) |-> Ascending(S)[n]]
      BY DEF Ascending
    <2> QED
      BY <1>1, <2>1
  <1>3. ASSUME NEW i \in S
        PROVE  Rank(S, i) + 1 \in 1 .. Cardinality(S) /\ Ascending(S)[Rank(S, i) + 1] = i
    <2> DEFINE m == Rank(S, i) + 1
    <2>1. /\ \A x \in S : Rank(S, x) + 1 \in 1 .. Cardinality(S)
          /\ \A x : Rank(S, x) \in 0 .. Cardinality(S)
          /\ Cardinality(S) \in Nat
      BY RankType
    <2>2. m \in 1 .. Cardinality(S) /\ Rank(S, i) = m - 1
      BY <2>1
    <2> HIDE DEF m
    <2> DEFINE k == Ascending(S)[m]
    <2>3. k \in S /\ Rank(S, k) = m - 1
      BY <1>1, <2>2
    <2> HIDE DEF k
    <2>4. k = i
      BY <2>2, <2>3, RankSame
    <2> QED
      BY <2>2, <2>4 DEF k, m
  <1>4. ASSUME NEW m \in 1 .. Cardinality(S), NEW n \in 1 .. Cardinality(S), m < n
        PROVE  Ascending(S)[m] < Ascending(S)[n]
    <2> DEFINE i == Ascending(S)[m]
               j == Ascending(S)[n]
    <2>1. i \in S /\ j \in S /\ Rank(S, i) = m - 1 /\ Rank(S, j) = n - 1
      BY <1>1
    <2> HIDE DEF i, j
    <2>2. j < i => Rank(S, j) < Rank(S, i)
      BY <2>1, RankGrows
    <2>3. i # j
      BY <1>4, <2>1
    <2>4. i < j
      BY <1>4, <2>1, <2>2, <2>3, RankType
    <2> QED
      BY <2>4 DEF i, j
  <1> QED
    BY <1>1, <1>2, <1>3, <1>4

\* Sets of the same order have the same size, and their members the same ranks.
LEMMA SameSize ==
  ASSUME NEW S \in SUBSET Int, IsFiniteSet(S), NEW T \in SUBSET Int, NEW f \in [S -> T],
         \A i, j \in S : i < j => f[i] < f[j], \A t \in T : \E i \in S : f[i] = t
  PROVE  IsFiniteSet(T) /\ Cardinality(T) = Cardinality(S)
  <1>1. \A i, j \in S : f[i] = f[j] => i = j
    <2> SUFFICES ASSUME NEW i \in S, NEW j \in S, i # j
                 PROVE  f[i] # f[j]
      OBVIOUS
    <2>1. i \in Int /\ j \in Int /\ f[i] \in Int /\ f[j] \in Int
      OBVIOUS
    <2>2. i < j \/ j < i
      BY <2>1
    <2>3. f[i] < f[j] \/ f[j] < f[i]
      BY <2>2
    <2> QED
      BY <2>1, <2>3
  <1>2. f \in Injection(S, T)
    BY <1>1, Fun_IsInj
  <1>3. f \in Surjection(S, T)
    BY DEF Surjection
  <1>4. IsFiniteSet(T) /\ Cardinality(T) =< Cardinality(S)
    BY <1>3, FS_Surjection
  <1>5. Cardinality(T) = Cardinality(S)
    BY <1>2, <1>3, FS_Surjection
  <1> QED
    BY <1>4, <1>5

LEMMA SameOrder ==
  ASSUME NEW S \in SUBSET Int, IsFiniteSet(S), NEW T \in SUBSET Int, NEW f \in [S -> T],
         \A i, j \in S : i < j => f[i] < f[j], \A t \in T : \E i \in S : f[i] = t
  PROVE  /\ IsFiniteSet(T) /\ Cardinality(T) = Cardinality(S)
         /\ \A i \in S : Rank(T, f[i]) = Rank(S, i)
         /\ \A n \in 1 .. Cardinality(S) : Ascending(S)[n] \in S /\ Ascending(T)[n] = f[Ascending(S)[n]]
  <1>1. IsFiniteSet(T) /\ Cardinality(T) = Cardinality(S)
    BY SameSize
  <1>2. ASSUME NEW i \in S
        PROVE  Rank(T, f[i]) = Rank(S, i)
    <2> DEFINE below == {j \in S : j < i}
               under == {t \in T : t < f[i]}
               g == [j \in below |-> f[j]]
    <2>1. below \in SUBSET S /\ below \in SUBSET Int /\ under \in SUBSET Int
      OBVIOUS
    <2>2. IsFiniteSet(below)
      BY <2>1, FS_Subset
    <2>3. g \in [below -> under]
      OBVIOUS
    <2>4. \A j, k \in below : j < k => g[j] < g[k]
      OBVIOUS
    <2>5. \A t \in under : \E j \in below : g[j] = t
      <3> SUFFICES ASSUME NEW t \in under
                   PROVE  \E j \in below : g[j] = t
        OBVIOUS
      <3>1. PICK j \in S : f[j] = t
        OBVIOUS
      <3>2. i \in Int /\ j \in Int /\ f[i] \in Int /\ f[j] \in Int /\ f[j] < f[i]
        BY <3>1
      <3>3. j # i /\ ~(i < j)
        BY <3>2
      <3>4. j < i
        BY <3>2, <3>3
      <3> QED
        BY <3>1, <3>4
    <2> HIDE DEF g, below, under
    <2>6. Cardinality(under) = Cardinality(below)
      BY <2>1, <2>2, <2>3, <2>4, <2>5, SameSize
    <2> QED
      BY <2>6 DEF Rank, below, under
  <1>3. ASSUME NEW n \in 1 .. Cardinality(S)
        PROVE  Ascending(S)[n] \in S /\ Ascending(T)[n] = f[Ascending(S)[n]]
    <2> DEFINE i == Ascending(S)[n]
               k == Ascending(T)[n]
    <2>1. i \in S /\ Rank(S, i) = n - 1
      BY Ascends
    <2>2. k \in T /\ Rank(T, k) = n - 1
      BY <1>1, Ascends
    <2> HIDE DEF i, k
    <2>3. f[i] \in T /\ Rank(T, f[i]) = Rank(T, k)
      BY <1>2, <2>1, <2>2
    <2>4. \A x, y \in T : Rank(T, x) = Rank(T, y) => x = y
      BY <1>1, RankSame
    <2>5. f[i] = k
      BY <2>2, <2>3, <2>4
    <2> QED
      BY <2>1, <2>5 DEF i, k
  <1> QED
    BY <1>1, <1>2, <1>3

\* A set of numbers and the same set further on.
LEMMA Moved ==
  ASSUME NEW S \in SUBSET Int, IsFiniteSet(S), NEW d \in Int
  PROVE  LET T == {i + d : i \in S}
         IN /\ T \in SUBSET Int /\ IsFiniteSet(T) /\ Cardinality(T) = Cardinality(S)
            /\ \A i \in S : Rank(T, i + d) = Rank(S, i)
            /\ \A n \in 1 .. Cardinality(S) : Ascending(S)[n] \in S /\ Ascending(T)[n] = Ascending(S)[n] + d
  <1> DEFINE T == {i + d : i \in S}
             f == [i \in S |-> i + d]
  <1>1. T \in SUBSET Int /\ f \in [S -> T]
    OBVIOUS
  <1>2. \A i, j \in S : i < j => f[i] < f[j]
    <2>1. \A i, j \in S : i \in Int /\ j \in Int
      OBVIOUS
    <2> QED
      BY <2>1
  <1>3. \A t \in T : \E i \in S : f[i] = t
    OBVIOUS
  <1>4. \A i \in S : f[i] = i + d
    OBVIOUS
  <1> HIDE DEF f, T
  <1>5. /\ IsFiniteSet(T) /\ Cardinality(T) = Cardinality(S)
        /\ \A i \in S : Rank(T, f[i]) = Rank(S, i)
        /\ \A n \in 1 .. Cardinality(S) : Ascending(S)[n] \in S /\ Ascending(T)[n] = f[Ascending(S)[n]]
    BY <1>1, <1>2, <1>3, SameOrder
  <1>6. /\ T \in SUBSET Int /\ IsFiniteSet(T) /\ Cardinality(T) = Cardinality(S)
        /\ \A i \in S : Rank(T, i + d) = Rank(S, i)
        /\ \A n \in 1 .. Cardinality(S) : Ascending(S)[n] \in S /\ Ascending(T)[n] = Ascending(S)[n] + d
    BY <1>1, <1>4, <1>5
  <1> QED
    BY <1>6 DEF T

\* The members before b are those before a and those from a on.
LEMMA RankSplit ==
  ASSUME NEW S \in SUBSET Int, IsFiniteSet(S), NEW a \in Int, NEW b \in Int, a =< b
  PROVE  Rank(S, b) = Rank(S, a) + Cardinality(S \cap (a .. b - 1))
  <1> DEFINE earlier == {j \in S : j < a}
             between == S \cap (a .. b - 1)
             all == {j \in S : j < b}
  <1>1. \A j \in S : j \in Int
    OBVIOUS
  <1>2. all = earlier \cup between /\ earlier \cap between = {}
    <2>1. \A j \in S : (j < b <=> j < a \/ j \in a .. b - 1) /\ ~(j < a /\ j \in a .. b - 1)
      BY <1>1
    <2>2. \A j : j \in all <=> j \in earlier \cup between
      BY <2>1
    <2>3. \A j : j \notin earlier \cap between
      BY <2>1
    <2> HIDE DEF earlier, between, all
    <2> QED
      BY <2>2, <2>3
  <1>3. earlier \in SUBSET S /\ between \in SUBSET S
    OBVIOUS
  <1> HIDE DEF earlier, between, all
  <1>4. IsFiniteSet(earlier) /\ IsFiniteSet(between)
    BY <1>3, FS_Subset
  <1>5. Cardinality(earlier \cup between) = Cardinality(earlier) + Cardinality(between) - Cardinality({})
    BY <1>2, <1>4, FS_Union
  <1>6. Cardinality({}) = 0 /\ Cardinality(earlier) \in Nat /\ Cardinality(between) \in Nat
    BY <1>4, FS_EmptySet, FS_CardinalityType
  <1>7. Cardinality(all) = Cardinality(earlier) + Cardinality(between)
    BY <1>2, <1>5, <1>6
  <1> QED
    BY <1>7 DEF Rank, earlier, between, all

\* A finite set of numbers has a least member.
LEMMA HasLeast ==
  ASSUME NEW S \in SUBSET Int, IsFiniteSet(S), S # {}
  PROVE  \E i \in S : \A j \in S : i <= j
  <1>1. Cardinality(S) \in Nat /\ Cardinality(S) # 0
    BY FS_CardinalityType, FS_EmptySet
  <1>2. 1 \in 1 .. Cardinality(S)
    BY <1>1
  <1>3. PICK i \in S : Rank(S, i) = 1 - 1
    BY <1>2, Ranked
  <1> DEFINE T == {j \in S : j < i}
  <1>4. T \in SUBSET S
    OBVIOUS
  <1> HIDE DEF T
  <1>5. IsFiniteSet(T)
    BY <1>4, FS_Subset
  <1>6. Cardinality(T) = 0
    BY <1>3 DEF Rank, T
  <1>7. T = {}
    BY <1>5, <1>6, FS_EmptySet
  <1>8. \A j \in S : ~(j < i)
    BY <1>7 DEF T
  <1> QED
    BY <1>8

-----------------------------------------------------------------------------
(* Lists.                                                                  *)

\* A set of positions of a list.
LEMMA PositionsType ==
  ASSUME NEW V, NEW s \in Seq(V), NEW S \in SUBSET DOMAIN s
  PROVE  S \in SUBSET Int /\ IsFiniteSet(S) /\ Len(s) \in Nat /\ DOMAIN s = 1 .. Len(s)
  <1>1. Len(s) \in Nat /\ DOMAIN s = 1 .. Len(s)
    OBVIOUS
  <1>2. IsFiniteSet(1 .. Len(s))
    BY <1>1, FS_Interval
  <1>3. S \in SUBSET (1 .. Len(s))
    BY <1>1
  <1>4. IsFiniteSet(S)
    BY <1>2, <1>3, FS_Subset
  <1> QED
    BY <1>1, <1>3, <1>4

LEMMA PickedType ==
  ASSUME NEW V, NEW s \in Seq(V), NEW S \in SUBSET DOMAIN s
  PROVE  /\ Cardinality(S) \in Nat
         /\ Picked(s, S) \in Seq(V) /\ Len(Picked(s, S)) = Cardinality(S)
         /\ DOMAIN Picked(s, S) = 1 .. Cardinality(S)
         /\ \A i \in S : Rank(S, i) + 1 \in 1 .. Cardinality(S) /\ Picked(s, S)[Rank(S, i) + 1] = s[i]
         /\ \A n \in 1 .. Cardinality(S) : Ascending(S)[n] \in S /\ Picked(s, S)[n] = s[Ascending(S)[n]]
  <1> DEFINE c == Cardinality(S)
             up == Ascending(S)
  <1>1. S \in SUBSET Int /\ IsFiniteSet(S)
    BY PositionsType
  <1>2. c \in Nat
    BY <1>1, FS_CardinalityType
  <1>3. /\ up \in [1 .. c -> S]
        /\ \A i \in S : Rank(S, i) + 1 \in 1 .. c /\ up[Rank(S, i) + 1] = i
    BY <1>1, Ascends
  <1>4. Picked(s, S) = [n \in 1 .. c |-> s[up[n]]]
    BY DEF Picked
  <1> HIDE DEF c, up
  <1>5. \A n \in 1 .. c : up[n] \in S /\ s[up[n]] \in V
    BY <1>3
  <1>6. Picked(s, S) \in Seq(V) /\ Len(Picked(s, S)) = c /\ DOMAIN Picked(s, S) = 1 .. c
    BY <1>2, <1>4, <1>5
  <1>7. \A n \in 1 .. c : Picked(s, S)[n] = s[up[n]]
    BY <1>4
  <1>8. \A i \in S : Rank(S, i) + 1 \in 1 .. c /\ Picked(s, S)[Rank(S, i) + 1] = s[i]
    BY <1>3, <1>7
  <1> QED
    BY <1>2, <1>5, <1>6, <1>7, <1>8 DEF c, up

\* The numbers of an interval from one are their own places in it.
LEMMA AscendingInterval ==
  ASSUME NEW n \in Nat
  PROVE  /\ 1 .. n \in SUBSET Int /\ IsFiniteSet(1 .. n) /\ Cardinality(1 .. n) = n
         /\ \A k \in 1 .. n : Ascending(1 .. n)[k] = k
  <1> DEFINE D == 1 .. n
             up == Ascending(D)
  <1>2. D \in SUBSET Int /\ IsFiniteSet(D) /\ Cardinality(D) = n
    <2>1. IsFiniteSet(1 .. n) /\ Cardinality(1 .. n) = n
      BY FS_Interval
    <2> QED
      BY <2>1
  <1>3. ASSUME NEW k \in D
        PROVE  up[k] = k
    <2>1. {j \in D : j < k} = 1 .. (k - 1)
      OBVIOUS
    <2>2. Cardinality(1 .. (k - 1)) = k - 1
      BY FS_Interval
    <2>3. Rank(D, k) = k - 1
      BY <2>1, <2>2 DEF Rank
    <2>4. up[Rank(D, k) + 1] = k
      <3> HIDE DEF D
      <3> QED
        BY <1>2, Ascends
    <2>5. k - 1 + 1 = k
      OBVIOUS
    <2> QED
      BY <2>3, <2>4, <2>5
  <1> QED
    BY <1>2, <1>3

\* All positions.
LEMMA PickedAll ==
  ASSUME NEW V, NEW s \in Seq(V)
  PROVE  Picked(s, DOMAIN s) = s /\ Cardinality(DOMAIN s) = Len(s)
  <1> DEFINE n == Len(s)
             D == 1 .. n
             up == Ascending(D)
  <1>1. n \in Nat /\ DOMAIN s = D /\ s = [k \in D |-> s[k]]
    OBVIOUS
  <1> HIDE DEF n
  <1>2. Cardinality(D) = n /\ \A k \in D : up[k] = k
    BY <1>1, AscendingInterval
  <1>3. Picked(s, D) = [k \in D |-> s[up[k]]]
    BY <1>2 DEF Picked
  <1> HIDE DEF up, D
  <1>4. Picked(s, D) = s
    BY <1>1, <1>2, <1>3
  <1> QED
    BY <1>1, <1>2, <1>4 DEF n

\* What is picked from a pick is picked from the list.
LEMMA PickedTwice ==
  ASSUME NEW V, NEW s \in Seq(V), NEW S \in SUBSET DOMAIN s, NEW K \in SUBSET S
  PROVE  LET N == {n \in 1 .. Cardinality(S) : Ascending(S)[n] \in K}
         IN /\ N \in SUBSET DOMAIN Picked(s, S) /\ Cardinality(N) = Cardinality(K)
            /\ Picked(Picked(s, S), N) = Picked(s, K)
            /\ \A n \in N : Rank(N, n) = Rank(K, Ascending(S)[n])
  <1> DEFINE c == Cardinality(S)
             up == Ascending(S)
             t == Picked(s, S)
             N == {n \in 1 .. c : up[n] \in K}
             f == [n \in N |-> up[n]]
  <1>1. S \in SUBSET Int /\ IsFiniteSet(S)
    BY PositionsType
  <1>2. /\ up \in [1 .. c -> S]
        /\ \A i \in S : Rank(S, i) + 1 \in 1 .. c /\ up[Rank(S, i) + 1] = i
        /\ \A m, n \in 1 .. c : m < n => up[m] < up[n]
    BY <1>1, Ascends
  <1>3. /\ c \in Nat /\ t \in Seq(V) /\ DOMAIN t = 1 .. c
        /\ \A n \in 1 .. c : t[n] = s[up[n]]
    BY PickedType
  <1> HIDE DEF c, up, t
  <1>4. \A n : n \in N <=> n \in 1 .. c /\ up[n] \in K
    OBVIOUS
  <1> HIDE DEF N
  <1>5. N \in SUBSET DOMAIN t
    BY <1>3, <1>4
  <1>6. N \in SUBSET Int /\ IsFiniteSet(N)
    BY <1>3, <1>5, PositionsType
  <1>7. K \in SUBSET Int /\ K \in SUBSET DOMAIN s
    BY <1>1
  <1>8. f \in [N -> K]
    BY <1>4
  <1>9. \A i, j \in N : i < j => f[i] < f[j]
    BY <1>2, <1>4
  <1>10. \A k \in K : \E i \in N : f[i] = k
    <2> SUFFICES ASSUME NEW k \in K
                 PROVE  \E i \in N : f[i] = k
      OBVIOUS
    <2>1. Rank(S, k) + 1 \in 1 .. c /\ up[Rank(S, k) + 1] = k
      BY <1>2
    <2>2. Rank(S, k) + 1 \in N
      BY <1>4, <2>1
    <2> QED
      BY <2>1, <2>2
  <1>11. \A n \in N : f[n] = up[n]
    OBVIOUS
  <1> HIDE DEF f
  <1>12. /\ Cardinality(K) = Cardinality(N)
         /\ \A i \in N : Rank(K, f[i]) = Rank(N, i)
         /\ \A n \in 1 .. Cardinality(N) : Ascending(N)[n] \in N /\ Ascending(K)[n] = f[Ascending(N)[n]]
    BY <1>6, <1>7, <1>8, <1>9, <1>10, SameOrder
  <1>13. Picked(t, N) = Picked(s, K)
    <2> DEFINE w == Cardinality(N)
    <2>1. \A n \in 1 .. w : t[Ascending(N)[n]] = s[Ascending(K)[n]]
      BY <1>3, <1>4, <1>11, <1>12
    <2>2. Picked(t, N) = [n \in 1 .. w |-> t[Ascending(N)[n]]]
      BY DEF Picked
    <2>3. Picked(s, K) = [n \in 1 .. w |-> s[Ascending(K)[n]]]
      BY <1>12 DEF Picked
    <2> HIDE DEF w
    <2> QED
      BY <2>1, <2>2, <2>3
  <1>14. \A n \in N : Rank(N, n) = Rank(K, up[n])
    BY <1>11, <1>12
  <1> QED
    BY <1>5, <1>12, <1>13, <1>14 DEF t, up, N, c

\* The members of S from the one at place p to the one at place q.
PlacesFrom(S, p, q) == {i \in S : Rank(S, i) + 1 \in p .. q}

\* A part of a pick is picked by its ranks.
LEMMA PickedSlice ==
  ASSUME NEW V, NEW s \in Seq(V), NEW S \in SUBSET DOMAIN s,
         NEW p \in Nat \ {0}, NEW q \in Nat, p <= q + 1, q <= Cardinality(S)
  PROVE  PlacesFrom(S, p, q) \in SUBSET DOMAIN s /\ Picked(s, PlacesFrom(S, p, q)) = SubSeq(Picked(s, S), p, q)
  <1> DEFINE c == Cardinality(S)
             up == Ascending(S)
             t == Picked(s, S)
             T == {i \in S : Rank(S, i) + 1 \in p .. q}
             w == q - p + 1
             f == [n \in 1 .. w |-> up[n + p - 1]]
  <1>1. S \in SUBSET Int /\ IsFiniteSet(S)
    BY PositionsType
  <1>2. /\ up \in [1 .. c -> S]
        /\ \A n \in 1 .. c : Rank(S, up[n]) = n - 1
        /\ \A i \in S : Rank(S, i) + 1 \in 1 .. c /\ up[Rank(S, i) + 1] = i
        /\ \A m, n \in 1 .. c : m < n => up[m] < up[n]
    BY <1>1, Ascends
  <1>3. /\ c \in Nat /\ t \in Seq(V) /\ Len(t) = c /\ DOMAIN t = 1 .. c
        /\ \A n \in 1 .. c : t[n] = s[up[n]]
    BY PickedType
  <1> HIDE DEF c, up, t
  <1>4. q <= c
    BY DEF c
  <1>5. w \in Nat /\ \A n \in 1 .. w : n + p - 1 \in 1 .. c /\ n + p - 1 \in p .. q
    BY <1>3, <1>4
  <1>6. T \in SUBSET S /\ T \in SUBSET Int
    BY <1>1
  <1>18. \A i : i \in T <=> i \in S /\ Rank(S, i) + 1 \in p .. q
    OBVIOUS
  <1> HIDE DEF T
  <1>7. f \in [1 .. w -> T]
    <2> SUFFICES ASSUME NEW n \in 1 .. w
                 PROVE  up[n + p - 1] \in T
      OBVIOUS
    <2>1. n + p - 1 \in 1 .. c /\ n + p - 1 \in p .. q
      BY <1>5
    <2>2. up[n + p - 1] \in S /\ Rank(S, up[n + p - 1]) = n + p - 1 - 1
      BY <1>2, <2>1
    <2>3. Rank(S, up[n + p - 1]) + 1 = n + p - 1
      BY <2>1, <2>2
    <2> QED
      BY <1>18, <2>1, <2>2, <2>3
  <1>8. \A i, j \in 1 .. w : i < j => f[i] < f[j]
    <2> SUFFICES ASSUME NEW i \in 1 .. w, NEW j \in 1 .. w, i < j
                 PROVE  f[i] < f[j]
      OBVIOUS
    <2> DEFINE x == i + p - 1
               y == j + p - 1
    <2>1. x \in 1 .. c /\ y \in 1 .. c
      BY <1>5
    <2>2. x < y
      OBVIOUS
    <2>3. f[i] = up[x] /\ f[j] = up[y]
      OBVIOUS
    <2> HIDE DEF x, y, f
    <2> QED
      BY <1>2, <2>1, <2>2, <2>3
  <1>9. \A x \in T : \E i \in 1 .. w : f[i] = x
    <2> SUFFICES ASSUME NEW x \in T
                 PROVE  \E i \in 1 .. w : f[i] = x
      OBVIOUS
    <2> DEFINE r == Rank(S, x)
    <2>1. x \in S /\ r + 1 \in p .. q /\ r + 1 \in 1 .. c /\ up[r + 1] = x
      BY <1>2, <1>18
    <2>2. r \in Int
      BY <1>1, RankType
    <2> HIDE DEF r
    <2>3. (r + 2 - p) \in 1 .. w /\ (r + 2 - p) + p - 1 = r + 1
      BY <2>1, <2>2
    <2>4. f[r + 2 - p] = x
      BY <2>1, <2>3
    <2> QED
      BY <2>3, <2>4
  <1>10. \A n \in 1 .. w : f[n] = up[n + p - 1]
    OBVIOUS
  <1> HIDE DEF f, w
  <1> DEFINE D == 1 .. w
  <1>11. D \in SUBSET Int /\ IsFiniteSet(D) /\ Cardinality(D) = w /\ \A n \in D : Ascending(D)[n] = n
    BY <1>5, AscendingInterval
  <1>12. /\ Cardinality(T) = w
         /\ \A n \in D : Ascending(T)[n] = f[n]
    <2>1. f \in [D -> T]
      BY <1>7
    <2>2. \A i, j \in D : i < j => f[i] < f[j]
      BY <1>8
    <2>3. \A x \in T : \E i \in D : f[i] = x
      BY <1>9
    <2> HIDE DEF D
    <2>6. D \in SUBSET Int /\ IsFiniteSet(D) /\ T \in SUBSET Int
      BY <1>6, <1>11
    <2>4. /\ IsFiniteSet(T) /\ Cardinality(T) = Cardinality(D)
          /\ \A i \in D : Rank(T, f[i]) = Rank(D, i)
          /\ \A n \in 1 .. Cardinality(D) : Ascending(D)[n] \in D /\ Ascending(T)[n] = f[Ascending(D)[n]]
      BY <2>1, <2>2, <2>3, <2>6, SameOrder
    <2>5. 1 .. Cardinality(D) = D
      BY <1>11 DEF D
    <2> QED
      BY <1>11, <2>4, <2>5
  <1>14. \A n \in 1 .. w : s[Ascending(T)[n]] = t[n + p - 1]
    BY <1>3, <1>5, <1>10, <1>12
  <1>15. Picked(s, T) = [n \in 1 .. w |-> s[Ascending(T)[n]]]
    BY <1>12 DEF Picked
  <1>16. SubSeq(t, p, q) = [n \in 1 .. w |-> t[n + p - 1]]
    BY DEF w
  <1>17. Picked(s, T) = SubSeq(t, p, q)
    BY <1>14, <1>15, <1>16
  <1> QED
    BY <1>6, <1>17 DEF PlacesFrom, t, T

\* A list that begins as one does and goes on as another.
LEMMA JoinIs ==
  ASSUME NEW V, NEW p \in Seq(V), NEW q \in Seq(V), NEW r \in Seq(V), Len(p) = Len(q) + Len(r),
         \A k \in 1 .. Len(q) : p[k] = q[k], \A k \in 1 .. Len(r) : p[Len(q) + k] = r[k]
  PROVE  p = q \o r
  <1>1. /\ q \o r \in Seq(V) /\ Len(q \o r) = Len(q) + Len(r)
        /\ Len(q) \in Nat /\ Len(r) \in Nat
    OBVIOUS
  <1>2. ASSUME NEW k \in 1 .. Len(p)
        PROVE  p[k] = (q \o r)[k]
    <2>1. CASE k <= Len(q)
      BY <1>1, <2>1
    <2>2. CASE k > Len(q)
      <3>1. k - Len(q) \in 1 .. Len(r) /\ Len(q) + (k - Len(q)) = k
        BY <1>1, <2>2
      <3>2. (q \o r)[k] = r[k - Len(q)]
        BY <1>1, <2>2
      <3> QED
        BY <3>1, <3>2
    <2> QED
      BY <1>1, <2>1, <2>2
  <1> QED
    BY <1>1, <1>2

\* The positions up to m, and those after m counted from there.
PlacesTo(P, m) == {i \in 1 .. m : i \in P}
PlacesAfter(P, m, n) == {j \in 1 .. n : m + j \in P}

\* What is picked from two lists in a row.
LEMMA PickedJoin ==
  ASSUME NEW V, NEW u \in Seq(V), NEW v \in Seq(V), NEW P \in SUBSET (1 .. Len(u) + Len(v))
  PROVE  Picked(u \o v, P) = Picked(u, PlacesTo(P, Len(u))) \o Picked(v, PlacesAfter(P, Len(u), Len(v)))
  <1> DEFINE S == PlacesTo(P, Len(u))
             T == PlacesAfter(P, Len(u), Len(v))
             m == Len(u)
             n == Len(v)
             w == u \o v
             M == {j + m : j \in T}
  <1>1. m \in Nat /\ n \in Nat /\ DOMAIN u = 1 .. m /\ DOMAIN v = 1 .. n
    OBVIOUS
  <1>2. /\ w \in Seq(V) /\ DOMAIN w = 1 .. m + n
        /\ \A i \in 1 .. m : w[i] = u[i]
        /\ \A j \in 1 .. n : w[m + j] = v[j]
    OBVIOUS
  <1> HIDE DEF m, n, w
  <1>3. /\ \A i : i \in S <=> i \in 1 .. m /\ i \in P
        /\ \A j : j \in T <=> j \in 1 .. n /\ m + j \in P
        /\ P \in SUBSET (1 .. m + n)
    BY DEF m, n, PlacesTo, PlacesAfter
  <1> HIDE DEF S, T
  <1>4. S \in SUBSET DOMAIN u /\ T \in SUBSET DOMAIN v /\ P \in SUBSET DOMAIN w
    BY <1>1, <1>2, <1>3
  <1>5. /\ S \in SUBSET Int /\ IsFiniteSet(S)
        /\ T \in SUBSET Int /\ IsFiniteSet(T)
        /\ P \in SUBSET Int /\ IsFiniteSet(P)
    BY <1>2, <1>4, PositionsType
  <1> DEFINE a == Cardinality(S)
             b == Cardinality(T)
  <1>6. a \in Nat /\ b \in Nat
    BY <1>5, FS_CardinalityType
  <1>7. ASSUME NEW i \in S
        PROVE  Rank(P, i) = Rank(S, i)
    <2>1. {x \in P : x < i} = {x \in S : x < i}
      <3>1. \A x \in P : x < i => x \in S
        BY <1>1, <1>3
      <3>2. \A x \in S : x \in P
        BY <1>3
      <3> QED
        BY <3>1, <3>2
    <2> QED
      BY <2>1 DEF Rank
  <1>8. Rank(P, m + 1) = a
    <2>1. {x \in P : x < m + 1} = S
      <3>1. \A x \in P : x < m + 1 => x \in S
        BY <1>1, <1>3
      <3>2. \A x \in S : x \in P /\ x < m + 1
        BY <1>1, <1>3
      <3> QED
        BY <3>1, <3>2
    <2> QED
      BY <2>1 DEF Rank
  <1>9. /\ M \in SUBSET Int /\ IsFiniteSet(M) /\ Cardinality(M) = b
        /\ \A j \in T : Rank(M, j + m) = Rank(T, j)
    <2> DEFINE By(X, d) == {i + d : i \in X}
    <2>1. \A X \in SUBSET Int : \A d \in Int : IsFiniteSet(X) =>
            /\ By(X, d) \in SUBSET Int /\ IsFiniteSet(By(X, d)) /\ Cardinality(By(X, d)) = Cardinality(X)
            /\ \A i \in X : Rank(By(X, d), i + d) = Rank(X, i)
      BY Moved
    <2>2. M = By(T, m)
      OBVIOUS
    <2> HIDE DEF By, M
    <2> QED
      BY <1>1, <1>5, <2>1, <2>2
  <1>10. \A x : x \in M <=> x \in P /\ x > m
    <2>1. ASSUME NEW x \in M
          PROVE  x \in P /\ x > m
      <3>1. PICK j \in T : x = j + m
        BY <2>1
      <3>2. j \in 1 .. n /\ m + j \in P
        BY <1>3
      <3> QED
        BY <1>1, <3>1, <3>2
    <2>2. ASSUME NEW x \in P, x > m
          PROVE  x \in M
      <3>1. x - m \in 1 .. n /\ m + (x - m) = x /\ (x - m) + m = x
        BY <1>1, <1>3, <2>2
      <3>2. x - m \in T
        BY <1>3, <3>1
      <3> QED
        BY <3>1, <3>2
    <2> QED
      BY <2>1, <2>2
  <1> HIDE DEF M, a, b
  <1>11. ASSUME NEW j \in Int, j >= m + 1
         PROVE  Rank(P, j) = a + Rank(M, j)
    <2>1. P \cap (m + 1 .. j - 1) = {x \in M : x < j}
      <3>1. \A x \in P : x \in Int /\ (x \in m + 1 .. j - 1 <=> x > m /\ x < j)
        BY <1>1, <1>5, <1>11
      <3>2. P \cap (m + 1 .. j - 1) \subseteq {x \in M : x < j}
        BY <1>10, <3>1
      <3>3. {x \in M : x < j} \subseteq P \cap (m + 1 .. j - 1)
        BY <1>10, <3>1
      <3> QED
        BY <3>2, <3>3
    <2>2. Rank(P, j) = Rank(P, m + 1) + Cardinality(P \cap (m + 1 .. j - 1))
      BY <1>1, <1>5, <1>11, RankSplit
    <2> QED
      BY <1>8, <2>1, <2>2 DEF Rank
  <1>12. Cardinality(P) = a + b
    <2>1. {x \in P : x < m + n + 1} = P /\ {x \in M : x < m + n + 1} = M
      <3>1. \A x \in P : x < m + n + 1
        BY <1>1, <1>3
      <3>2. \A x \in M : x < m + n + 1
        BY <1>10, <3>1
      <3> QED
        BY <3>1, <3>2
    <2>2. Rank(P, m + n + 1) = a + Rank(M, m + n + 1)
      BY <1>1, <1>11
    <2> QED
      BY <1>9, <2>1, <2>2 DEF Rank, b
  <1> DEFINE p == Picked(w, P)
             q == Picked(u, S)
             r == Picked(v, T)
  <1>13. /\ p \in Seq(V) /\ Len(p) = a + b
         /\ \A i \in P : p[Rank(P, i) + 1] = w[i]
    BY <1>2, <1>4, <1>12, PickedType
  <1>14. /\ q \in Seq(V) /\ Len(q) = a
         /\ \A k \in 1 .. a : Ascending(S)[k] \in S /\ q[k] = u[Ascending(S)[k]]
    BY <1>4, PickedType DEF a
  <1>15. /\ r \in Seq(V) /\ Len(r) = b
         /\ \A k \in 1 .. b : Ascending(T)[k] \in T /\ r[k] = v[Ascending(T)[k]]
    BY <1>4, PickedType DEF b
  <1> HIDE DEF p, q, r
  <1>16. ASSUME NEW k \in 1 .. a
         PROVE  p[k] = q[k]
    <2> DEFINE i == Ascending(S)[k]
    <2>1. i \in S /\ q[k] = u[i]
      BY <1>14
    <2>2. Rank(S, i) = k - 1
      BY <1>5, Ascends DEF a
    <2> HIDE DEF i
    <2>3. i \in P /\ w[i] = u[i]
      BY <1>2, <1>3, <2>1
    <2>4. Rank(P, i) + 1 = k
      BY <1>6, <1>7, <2>1, <2>2
    <2> QED
      BY <1>13, <2>1, <2>3, <2>4
  <1>17. ASSUME NEW k \in 1 .. b
         PROVE  p[a + k] = r[k]
    <2> DEFINE j == Ascending(T)[k]
    <2>1. j \in T /\ r[k] = v[j]
      BY <1>15
    <2>2. Rank(T, j) = k - 1
      BY <1>5, Ascends DEF b
    <2> HIDE DEF j
    <2>3. j \in 1 .. n /\ m + j \in P /\ w[m + j] = v[j] /\ m + j = j + m
      BY <1>1, <1>2, <1>3, <2>1
    <2>4. Rank(M, m + j) = k - 1
      BY <1>9, <2>1, <2>2, <2>3
    <2>5. Rank(P, m + j) = a + (k - 1)
      <3>1. m + j \in Int /\ m + j >= m + 1
        BY <1>1, <2>3
      <3> QED
        BY <1>11, <2>4, <3>1
    <2>6. Rank(P, m + j) + 1 = a + k
      BY <1>6, <2>5
    <2> QED
      BY <1>13, <2>1, <2>3, <2>6
  <1>18. p = q \o r
    <2>1. /\ p \in Seq(V) /\ q \in Seq(V) /\ r \in Seq(V)
          /\ Len(p) = Len(q) + Len(r)
      BY <1>13, <1>14, <1>15
    <2>2. \A k \in 1 .. Len(q) : p[k] = q[k]
      BY <1>14, <1>16
    <2>3. \A k \in 1 .. Len(r) : p[Len(q) + k] = r[k]
      BY <1>14, <1>15, <1>17
    <2> QED
      BY <2>1, <2>2, <2>3, JoinIs
  <1> QED
    BY <1>18 DEF p, q, r, w, S, T
=============================================================================
