----------------------------- MODULE SequenceLemmas ----------------------------
(***************************************************************************)
(* Lemmas that the proofs about the agent and the algorithms share: least  *)
(* numbers, folds written as recursive functions, and the operators of     *)
(* Orders.                                                                 *)
(***************************************************************************)
EXTENDS Orders, SequenceTheorems, FiniteSetTheorems, FunctionTheorems,
        WellFoundedInduction, TLAPS

\* A set of numbers has a least one.
LEMMA LeastNumber ==
  ASSUME NEW T \in SUBSET Nat, T # {}
  PROVE  \E x \in T : \A y \in T : x <= y
<1>1. PICK x \in T : \A y \in T : ~(<<y, x>> \in OpToRel(<, Nat))
  BY NatLessThanWellFounded, WFMin, Zenon
<1>2. \A y \in T : ~(y < x)
  BY <1>1 DEF OpToRel
<1> QED
  BY <1>2

\* What holds at the start and is carried over each step holds at the end.
LEMMA Upwards ==
  ASSUME NEW N \in Nat, NEW G, 0 \in G, \A n \in 1..N : n - 1 \in G => n \in G
  PROVE  \A n \in 0..N : n \in G
<1> DEFINE T == {n \in 0..N : n \notin G}
<1>1. ASSUME T # {} PROVE FALSE
  <2>1. PICK x \in T : \A y \in T : x <= y
    <3>1. T \in SUBSET Nat
      OBVIOUS
    <3> HIDE DEF T
    <3> QED
      BY <1>1, <3>1, LeastNumber
  <2>2. x \in 1..N /\ x - 1 \in 0..N
    BY <2>1
  <2>3. x - 1 \notin T
    BY <2>1, <2>2
  <2> QED
    BY <2>1, <2>2, <2>3
<1> QED
  BY <1>1

\* The first m steps from a value in D, and what they lead to.
Chained(f, D, first, m, F) ==
  f \in [0..m -> D] /\ f[0] = first /\ \A n \in 1..m : f[n] = F[<<f[n - 1], n>>]

\* A function of steps has a fold.
LEMMA Chain ==
  ASSUME NEW D, NEW first \in D, NEW N \in Nat, NEW F \in [D \X (1..N) -> D]
  PROVE  \E f : Chained(f, D, first, N, F)
<1> DEFINE Fits(m, f) == Chained(f, D, first, m, F)
           G == {m \in 0..N : \E f : Fits(m, f)}
<1>1. 0 \in G
  <2> DEFINE g == [n \in 0..0 |-> first]
  <2>1. g \in [0..0 -> D] /\ g[0] = first
    OBVIOUS
  <2> HIDE DEF g
  <2>2. Fits(0, g)
    BY <2>1 DEF Chained
  <2> HIDE DEF Fits
  <2> QED
    BY <2>2
<1>2. ASSUME NEW m \in 1..N, m - 1 \in G PROVE m \in G
  <2>1. PICK f : Fits(m - 1, f)
    BY <1>2
  <2> DEFINE next == F[<<f[m - 1], m>>]
             g == [n \in 0..m |-> IF n = m THEN next ELSE f[n]]
  <2>2. \A n \in 0..m - 1 : f[n] \in D
    BY <2>1 DEF Chained
  <2>3. next \in D
    BY <2>2
  <2>4. g \in [0..m -> D] /\ g[m] = next /\ \A n \in 0..m - 1 : g[n] = f[n]
    <3> HIDE DEF next
    <3> QED
      BY <2>2, <2>3
  <2> HIDE DEF g
  <2>5. \A n \in 1..m : g[n] = F[<<g[n - 1], n>>]
    <3>1. g[m] = F[<<g[m - 1], m>>]
      BY <2>4
    <3>2. ASSUME NEW n \in 1..m - 1 PROVE g[n] = F[<<g[n - 1], n>>]
      <4>1. f[n] = F[<<f[n - 1], n>>] /\ g[n] = f[n] /\ g[n - 1] = f[n - 1]
        BY <2>1, <2>4 DEF Chained
      <4> QED
        BY <4>1
    <3> QED
      BY <3>1, <3>2
  <2>6. Fits(m, g)
    BY <2>1, <2>4, <2>5 DEF Chained
  <2> HIDE DEF Fits
  <2> QED
    BY <2>6
<1> HIDE DEF Fits
<1>3. N \in G
  <2> HIDE DEF G
  <2> QED
    BY <1>1, <1>2, Upwards
<1> QED
  BY <1>3 DEF Fits

-----------------------------------------------------------------------------
(* Sorting.  An order is given as the set R of its pairs.                  *)

\* R is a strict total order on S.
StrictOrder(R, S) ==
  /\ \A x \in S : <<x, x>> \notin R
  /\ \A x, y, z \in S : <<x, y>> \in R /\ <<y, z>> \in R => <<x, z>> \in R
  /\ \A x, y \in S : x = y \/ <<x, y>> \in R \/ <<y, x>> \in R

Ahead(R, S, x) == {y \in S : <<y, x>> \in R}

\* There are fewer elements before the earlier of two.
LEMMA FewerAhead ==
  ASSUME NEW S, NEW R, IsFiniteSet(S), StrictOrder(R, S), NEW x \in S, NEW y \in S, <<x, y>> \in R
  PROVE  /\ Cardinality(Ahead(R, S, x)) \in Nat /\ Cardinality(Ahead(R, S, y)) \in Nat
         /\ Cardinality(Ahead(R, S, x)) < Cardinality(Ahead(R, S, y))
<1>1. Ahead(R, S, x) \subseteq Ahead(R, S, y)
  BY DEF Ahead, StrictOrder
<1>2. x \in Ahead(R, S, y) /\ x \notin Ahead(R, S, x)
  BY DEF Ahead, StrictOrder
<1>3. Ahead(R, S, y) \subseteq S
  BY DEF Ahead
<1>4. IsFiniteSet(Ahead(R, S, y)) /\ IsFiniteSet(Ahead(R, S, x))
  BY <1>1, <1>3, FS_Subset
<1> QED
  BY <1>1, <1>2, <1>4, FS_Subset, FS_CardinalityType

\* Every number below the size of S is how many are before some element.
LEMMA EachPlaceTaken ==
  ASSUME NEW S, NEW R, IsFiniteSet(S), StrictOrder(R, S), NEW n \in 1..Cardinality(S)
  PROVE  \E x \in S : Cardinality(Ahead(R, S, x)) = n - 1
<1> DEFINE N == Cardinality(S)
           place == [x \in S |-> Cardinality(Ahead(R, S, x)) + 1]
<1>1. N \in Nat
  BY FS_CardinalityType
<1>2. \A x \in S : Cardinality(Ahead(R, S, x)) \in 0..N - 1
  <2> SUFFICES ASSUME NEW x \in S PROVE Cardinality(Ahead(R, S, x)) \in 0..N - 1
    OBVIOUS
  <2>1. Ahead(R, S, x) \subseteq S /\ x \notin Ahead(R, S, x)
    BY DEF Ahead, StrictOrder
  <2> QED
    BY <2>1, <1>1, FS_Subset, FS_CardinalityType
<1>3. place \in [S -> 1..N]
  BY <1>1, <1>2
<1>4. \A x, y \in S : place[x] = place[y] => x = y
  <2> SUFFICES ASSUME NEW x \in S, NEW y \in S, x # y PROVE place[x] # place[y]
    OBVIOUS
  <2>1. <<x, y>> \in R \/ <<y, x>> \in R
    BY DEF StrictOrder
  <2> QED
    BY <2>1, FewerAhead
<1>5. place \in Injection(S, 1..N)
  BY <1>3, <1>4, Fun_IsInj
<1>6. IsFiniteSet(1..N) /\ Cardinality(1..N) = N
  BY <1>1, FS_Interval
<1>7. place \in Surjection(S, 1..N)
  BY <1>5, <1>6, FS_Injection
<1>8. PICK x \in S : place[x] = n
  BY <1>7, Fun_SurjectionProperties DEF Surjection
<1> QED
  BY <1>8, <1>2

\* R puts the higher score first, and of equal scores the earlier place.
ByScoreAndPlace(R, S, score, place) ==
  /\ score \in [S -> Int] /\ place \in [S -> Int]
  /\ \A x, y \in S : place[x] = place[y] => x = y
  /\ \A x, y \in S : <<x, y>> \in R <=> \/ score[x] > score[y]
                                        \/ score[x] = score[y] /\ place[x] < place[y]

\* To be ahead by score and then by place is a strict order.
LEMMA ScoreOrder ==
  ASSUME NEW S, NEW score, NEW place, NEW R, ByScoreAndPlace(R, S, score, place)
  PROVE  StrictOrder(R, S)
<1> USE DEF ByScoreAndPlace
<1>1. \A x \in S : score[x] \in Int /\ place[x] \in Int
  OBVIOUS
<1>2. \A x \in S : <<x, x>> \notin R
  BY <1>1
<1>3. ASSUME NEW x \in S, NEW y \in S, NEW z \in S, <<x, y>> \in R, <<y, z>> \in R PROVE <<x, z>> \in R
  BY <1>1, <1>3
<1>4. ASSUME NEW x \in S, NEW y \in S PROVE x = y \/ <<x, y>> \in R \/ <<y, x>> \in R
  BY <1>1
<1> QED
  BY <1>2, <1>3, <1>4 DEF StrictOrder

\* What Sorted returns: every element of S once, each after those before it.
LEMMA SortedFacts ==
  ASSUME NEW S, NEW R, IsFiniteSet(S), StrictOrder(R, S)
  PROVE  LET s == Sorted(S, R) N == Cardinality(S) IN
         /\ N \in Nat /\ s \in [1..N -> S]
         /\ \A x \in S : \E n \in 1..N : s[n] = x
         /\ \A m, n \in 1..N : m < n <=> <<s[m], s[n]>> \in R
         /\ \A m, n \in 1..N : s[m] = s[n] => m = n
<1> DEFINE s == Sorted(S, R)
           N == Cardinality(S)
<1>1. N \in Nat
  BY FS_CardinalityType
<1>2. s = [n \in 1..N |-> CHOOSE x \in S : Cardinality(Ahead(R, S, x)) = n - 1]
  BY DEF Sorted, Ahead
<1>3. \A n \in 1..N : s[n] \in S /\ Cardinality(Ahead(R, S, s[n])) = n - 1
  BY <1>2, EachPlaceTaken
<1>4. s \in [1..N -> S]
  BY <1>2, <1>3
<1> HIDE DEF s
<1>5. \A x \in S : \E n \in 1..N : s[n] = x
  <2> SUFFICES ASSUME NEW x \in S PROVE \E n \in 1..N : s[n] = x
    OBVIOUS
  <2>1. Ahead(R, S, x) \subseteq S /\ x \notin Ahead(R, S, x)
    BY DEF Ahead, StrictOrder
  <2>2. Cardinality(Ahead(R, S, x)) + 1 \in 1..N
    BY <1>1, <2>1, FS_Subset, FS_CardinalityType
  <2>3. PICK n \in 1..N : n = Cardinality(Ahead(R, S, x)) + 1
    BY <2>2
  <2>4. s[n] \in S /\ Cardinality(Ahead(R, S, s[n])) = Cardinality(Ahead(R, S, x))
    BY <1>3, <2>1, <2>3, FS_Subset, FS_CardinalityType
  <2>5. s[n] = x \/ <<s[n], x>> \in R \/ <<x, s[n]>> \in R
    BY <2>4 DEF StrictOrder
  <2> QED
    BY <2>4, <2>5, FewerAhead
<1>6. ASSUME NEW m \in 1..N, NEW n \in 1..N, s[m] = s[n] PROVE m = n
  BY <1>1, <1>3, <1>6
<1>7. ASSUME NEW m \in 1..N, NEW n \in 1..N, <<s[m], s[n]>> \in R PROVE m < n
  BY <1>1, <1>3, <1>7, FewerAhead
<1>8. ASSUME NEW m \in 1..N, NEW n \in 1..N, m < n PROVE <<s[m], s[n]>> \in R
  <2>1. s[m] # s[n] /\ <<s[n], s[m]>> \notin R
    BY <1>1, <1>6, <1>7, <1>8
  <2> QED
    BY <1>3, <2>1 DEF StrictOrder
<1> QED
  BY <1>1, <1>4, <1>5, <1>6, <1>7, <1>8 DEF s

\* A sequence is what another has at some places, each once and in order.
IsPicked(picked, s, P) ==
  LET N == Cardinality(P)
  IN  /\ N \in Nat /\ picked = [n \in 1..N |-> picked[n]]
      /\ \E at \in [1..N -> P] :
           /\ \A n \in 1..N : picked[n] = s[at[n]]
           /\ \A m, n \in 1..N : m < n <=> at[m] < at[n]
           /\ \A i \in P : \E n \in 1..N : at[n] = i

\* What is picked is each place that satisfies the test, in order.
LEMMA PickedFacts ==
  ASSUME NEW s, NEW hi \in Nat, NEW P \in SUBSET (1..hi)
  PROVE  IsPicked(Picked(s, P), s, P) /\ Cardinality(P) <= hi
<1> DEFINE N == Cardinality(P)
           R == {p \in P \X P : p[1] < p[2]}
           at == Sorted(P, R)
<1>0. IsFiniteSet(1..hi) /\ Cardinality(1..hi) = hi
  BY FS_Interval
<1>1. IsFiniteSet(P) /\ N \in Nat /\ N <= hi
  BY <1>0, FS_Subset, FS_CardinalityType
<1>2. P \subseteq Nat
  OBVIOUS
<1>3. \A i, j \in P : <<i, j>> \in R <=> i < j
  OBVIOUS
<1>4. StrictOrder(R, P)
  <2> HIDE DEF R
  <2> QED
    BY <1>2, <1>3 DEF StrictOrder
<1>5. Picked(s, P) = [n \in 1..N |-> s[at[n]]]
  BY DEF Picked
<1> HIDE DEF R, at
<1>6. at \in [1..N -> P] /\ (\A i \in P : \E n \in 1..N : at[n] = i)
      /\ \A m, n \in 1..N : m < n <=> <<at[m], at[n]>> \in R
  BY <1>1, <1>4, SortedFacts DEF at
<1>7. \A m, n \in 1..N : m < n <=> at[m] < at[n]
  BY <1>3, <1>6
<1> DEFINE picked == Picked(s, P)
<1> HIDE DEF picked
<1>8. picked = [n \in 1..N |-> picked[n]] /\ \A n \in 1..N : picked[n] = s[at[n]]
  BY <1>5 DEF picked
<1>9. IsPicked(picked, s, P)
  BY <1>1, <1>6, <1>7, <1>8 DEF IsPicked
<1> QED
  BY <1>1, <1>9 DEF picked
-----------------------------------------------------------------------------
(* Finite sets of values and of places.                                    *)

\* What a sequence has all of is finite.
LEMMA FiniteRange ==
  ASSUME NEW n \in Nat, NEW f, DOMAIN f = 1..n, NEW T, \A t \in T : \E k \in 1..n : f[k] = t
  PROVE  IsFiniteSet(T) /\ Cardinality(T) \in Nat
<1> DEFINE S == {k \in 1..n : f[k] \in T}
           g == [k \in S |-> f[k]]
<1>1. IsFiniteSet(1..n)
  BY FS_Interval
<1>2. IsFiniteSet(S)
  BY <1>1, FS_Subset
<1>3. g \in Surjection(S, T)
  BY DEF Surjection
<1> QED
  BY <1>2, <1>3, FS_Surjection, FS_CardinalityType

\* Of some places in a sequence of numbers, one is the first of the least.
LEMMA FirstOfLeast ==
  ASSUME NEW n \in Nat, NEW P \in SUBSET (1..n), P # {}, NEW key \in [P -> Int]
  PROVE  \E i \in P : \A j \in P : key[i] <= key[j] /\ (j < i => key[i] < key[j])
<1> DEFINE Least(m, i) == \A j \in P : j <= m => key[i] <= key[j] /\ (j < i => key[i] < key[j])
           G == {m \in 0..n : (\E j \in P : j <= m) => \E i \in P : i <= m /\ Least(m, i)}
<1>0. \A j \in P : j \in 1..n /\ key[j] \in Int
  OBVIOUS
<1>1. 0 \in G
  OBVIOUS
<1>2. ASSUME NEW m \in 1..n, m - 1 \in G PROVE m \in G
  <2>1. CASE m \notin P
    <3>1. \A j \in P : j <= m <=> j <= m - 1
      BY <2>1
    <3> QED
      BY <1>2, <3>1
  <2>2. CASE m \in P /\ \A j \in P : ~(j <= m - 1)
    <3>1. \A j \in P : j <= m => j = m
      BY <2>2
    <3>2. Least(m, m)
      BY <2>2, <3>1
    <3> QED
      BY <2>2, <3>2
  <2>3. CASE m \in P /\ \E j \in P : j <= m - 1
    <3>1. PICK i \in P : i <= m - 1 /\ Least(m - 1, i)
      BY <1>2, <2>3
    <3>2. \A j \in P : j <= m => j = m \/ j <= m - 1
      OBVIOUS
    <3>3. i \in 1..n /\ key[i] \in Int /\ key[m] \in Int
      BY <1>0, <2>3
    <3>4. CASE key[m] < key[i]
      <4>1. ASSUME NEW j \in P, j <= m PROVE key[m] <= key[j] /\ (j < m => key[m] < key[j])
        <5>1. j = m \/ j <= m - 1
          BY <3>2, <4>1
        <5>2. CASE j <= m - 1
          <6>1. key[i] <= key[j] /\ key[j] \in Int
            BY <1>0, <3>1, <5>2
          <6> QED
            BY <3>3, <3>4, <6>1
        <5> QED
          BY <3>3, <5>1, <5>2
      <4> QED
        BY <2>3, <4>1
    <3>5. CASE key[i] <= key[m]
      <4>1. ASSUME NEW j \in P, j <= m PROVE key[i] <= key[j] /\ (j < i => key[i] < key[j])
        <5>1. j = m \/ j <= m - 1
          BY <3>2, <4>1
        <5>2. ~(m < i)
          BY <3>1, <3>3
        <5> QED
          BY <3>1, <3>5, <5>1, <5>2
      <4>2. i <= m
        BY <3>1, <3>3
      <4> QED
        BY <4>1, <4>2
    <3> QED
      BY <3>3, <3>4, <3>5
  <2> QED
    BY <2>1, <2>2, <2>3
<1>3. n \in G
  <2> HIDE DEF G
  <2>1. \A m \in 0..n : m \in G
    BY <1>1, <1>2, Upwards
  <2> QED
    BY <2>1
<1>4. \A j \in P : j \in 1..n /\ j <= n
  OBVIOUS
<1>5. PICK i \in P : i <= n /\ Least(n, i)
  <2>1. \E j \in P : j <= n
    BY <1>4
  <2> QED
    BY <1>3, <2>1
<1> QED
  BY <1>4, <1>5

\* A function on the first numbers is a sequence.
LEMMA FunctionIsSeq ==
  ASSUME NEW D, NEW n \in Nat, NEW f \in [1..n -> D]
  PROVE  f \in Seq(D) /\ Len(f) = n
BY SeqDef
===============================================================================
