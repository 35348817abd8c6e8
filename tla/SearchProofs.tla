------------------------------ MODULE SearchProofs ------------------------------
(***************************************************************************)
(* Proofs about what gets into the search index (SourceIndexing and        *)
(* Transcripts) and what the tools read (ToolReads and VisibleBody), for   *)
(* any texts, limits, messages, entries and bodies.                        *)
(*                                                                         *)
(* The index: all words of what a pass has read are found, wherever a text *)
(* is cut, and no chunk is too long.  The loops that cut texts and build   *)
(* transcripts are functions on 0..n; what holds after each turn is shown  *)
(* by the least number for which it would not.                             *)
(*                                                                         *)
(* The tools: the context collected for all hits is that of each of them,  *)
(* a search shows the best of what it ranked, and the visible body of an   *)
(* email has what its author wrote.  These rest on sorted sequences: an    *)
(* element's place is the number of those before it, so a beginning or an  *)
(* end of the order is a beginning or an end of the sequence.              *)
(***************************************************************************)
EXTENDS ToolReads, SourceIndexing, FiniteSetTheorems, SequenceTheorems, TLAPS

-----------------------------------------------------------------------------
(* Least and greatest numbers.                                               *)

\* A set of numbers that is not empty has a least one.
LEMMA MinIsLeast ==
  ASSUME NEW S \in SUBSET Nat, S # {}
  PROVE  Min(S) \in S /\ \A x \in S : Min(S) <= x
PROOF
  <1>. DEFINE R == OpToRel(<, Nat)
  <1>0. IsWellFoundedOn(R, Nat)
    BY NatLessThanWellFounded
  <1>1. \A x, y \in Nat : x < y => <<x, y>> \in R
    BY DEF OpToRel
  <1>. HIDE DEF R
  <1>2. PICK m \in S : \A y \in S : ~ (<<y, m>> \in R)
    BY <1>0, WFMin
  <1>3. ASSUME NEW y \in S  PROVE m <= y
    <2>1. m \in Nat /\ y \in Nat
      OBVIOUS
    <2>2. ~(y < m)
      BY <1>1, <1>2, <2>1
    <2>. QED BY <2>1, <2>2
  <1>. QED BY <1>3 DEF Min

\* A set of numbers with a bound has a greatest one.
LEMMA MaxIsGreatest ==
  ASSUME NEW N \in Nat, NEW S \in SUBSET (0..N), S # {}
  PROVE  Max(S) \in S /\ \A x \in S : x <= Max(S)
PROOF
  <1>. DEFINE T == {N - x : x \in S}
  <1>1. T \in SUBSET Nat /\ T # {}
    <2>1. ASSUME NEW x \in S  PROVE N - x \in Nat
      OBVIOUS
    <2>. QED BY <2>1
  <1>2. Min(T) \in T /\ \A y \in T : Min(T) <= y
    BY <1>1, MinIsLeast
  <1>3. PICK m \in S : Min(T) = N - m
    BY <1>2
  <1>4. \A x \in S : x <= m
    <2>. TAKE x \in S
    <2>1. N - x \in T
      OBVIOUS
    <2>2. N - m <= N - x
      BY <1>2, <1>3, <2>1
    <2>. QED BY <2>2
  <1>. QED BY <1>4 DEF Max

\* Induction up to a number, over the set of those for which something holds.
LEMMA UpToInduction ==
  ASSUME NEW N \in Nat, NEW T, 0 \in T, \A i \in 1..N : i - 1 \in T => i \in T
  PROVE  0..N \subseteq T
PROOF
  <1>. DEFINE Out == (0..N) \ T
  <1>. SUFFICES ASSUME Out # {}  PROVE FALSE
    OBVIOUS
  <1>1. Out \in SUBSET Nat
    OBVIOUS
  <1>2. Min(Out) \in Out /\ \A x \in Out : Min(Out) <= x
    BY <1>1, MinIsLeast
  <1>. DEFINE m == Min(Out)
  <1>3. m \in 0..N /\ m \notin T /\ m # 0
    BY <1>2
  <1>. HIDE DEF m
  <1>4. m \in 1..N /\ m - 1 \in 0..N
    BY <1>3
  <1>5. m - 1 \notin Out
    <2>1. \A x \in Out : m <= x
      BY <1>2 DEF m
    <2>. QED BY <1>4, <2>1
  <1>. QED BY <1>3, <1>4, <1>5

\* The values of g up to N start with b and follow, each from the one before, by step.
Steps(N, S) == [1..N -> [S -> S]]
Follows(g, N, S, b, step) ==
  g \in [0..N -> S] /\ g[0] = b /\ \A i \in 1..N : g[i] = step[i][g[i - 1]]

\* There is such a g.
LEMMA RecursionUpTo ==
  ASSUME NEW N \in Nat, NEW S, NEW b \in S, NEW step \in Steps(N, S)
  PROVE  \E g : Follows(g, N, S, b, step)
PROOF
  <1>. DEFINE Upto(n, g) == g[0] = b /\ \A i \in 1..n : g[i] = step[i][g[i - 1]]
              T == {n \in 0..N : \E g \in [0..n -> S] : Upto(n, g)}
  <1>1. 0 \in T
    <2>. DEFINE g == [i \in 0..0 |-> b]
    <2>1. g \in [0..0 -> S] /\ Upto(0, g)
      OBVIOUS
    <2>2. 0 \in 0..N
      OBVIOUS
    <2>. QED BY <2>1, <2>2
  <1>2. ASSUME NEW n \in 1..N, n - 1 \in T  PROVE n \in T
    <2>1. PICK g \in [0..(n - 1) -> S] : Upto(n - 1, g)
      BY <1>2
    <2>2. step[n] \in [S -> S] /\ g[n - 1] \in S
      BY DEF Steps
    <2>. DEFINE h == [i \in 0..n |-> IF i = n THEN step[n][g[n - 1]] ELSE g[i]]
    <2>3. h \in [0..n -> S]
      BY <2>2
    <2>4. h[0] = b
      BY <2>1
    <2>5. ASSUME NEW i \in 1..n  PROVE h[i] = step[i][h[i - 1]]
      <3>1. h[i - 1] = g[i - 1]
        OBVIOUS
      <3>2. CASE i = n
        BY <3>1, <3>2
      <3>3. CASE i # n
        <4>1. i \in 1..(n - 1)
          BY <3>3
        <4>. QED BY <2>1, <3>1, <3>3, <4>1
      <3>. QED BY <3>2, <3>3
    <2>. HIDE DEF h
    <2>6. n \in 0..N
      OBVIOUS
    <2>. QED BY <2>3, <2>4, <2>5, <2>6
  <1>. HIDE DEF T
  <1>3. 0..N \subseteq T
    BY <1>1, <1>2, UpToInduction
  <1>4. N \in T
    BY <1>3
  <1>. QED BY <1>4 DEF T, Follows

-----------------------------------------------------------------------------
(* Sorted sequences.                                                         *)

\* order orders the elements of S one after the other.
IsTotalOrder(order, S) ==
  /\ \A x \in S : <<x, x>> \notin order
  /\ \A x, y, z \in S : <<x, y>> \in order /\ <<y, z>> \in order => <<x, z>> \in order
  /\ \A x, y \in S : x # y => <<x, y>> \in order \/ <<y, x>> \in order

\* Ranks are numbers below that of the elements, and as the elements are ordered.
LEMMA RanksAreOrdered ==
  ASSUME NEW S, IsFiniteSet(S), NEW order, IsTotalOrder(order, S)
  PROVE  /\ \A x \in S : Rank(x, S, order) \in 0..(Cardinality(S) - 1)
         /\ \A x, y \in S : <<x, y>> \in order <=> Rank(x, S, order) < Rank(y, S, order)
PROOF
  <1>. DEFINE Below(x) == {y \in S : <<y, x>> \in order}
  <1>1. \A x \in S : Rank(x, S, order) = Cardinality(Below(x))
    BY DEF Rank
  <1>2. ASSUME NEW x \in S  PROVE Rank(x, S, order) \in 0..(Cardinality(S) - 1)
    <2>1. Below(x) \in SUBSET S /\ x \notin Below(x)
      BY DEF IsTotalOrder
    <2>2. Cardinality(S) \in Nat /\ IsFiniteSet(Below(x)) /\ Cardinality(Below(x)) \in Nat
      BY <2>1, FS_Subset, FS_CardinalityType
    <2>3. Cardinality(Below(x)) <= Cardinality(S) /\ Cardinality(Below(x)) # Cardinality(S)
      BY <2>1, FS_Subset
    <2>. QED BY <1>1, <2>2, <2>3
  <1>3. ASSUME NEW x \in S, NEW y \in S, <<x, y>> \in order
        PROVE  Rank(x, S, order) < Rank(y, S, order)
    <2>1. Below(y) \in SUBSET S /\ Below(x) \in SUBSET Below(y)
      BY <1>3 DEF IsTotalOrder
    <2>2. x \in Below(y) /\ x \notin Below(x)
      BY <1>3 DEF IsTotalOrder
    <2>3. IsFiniteSet(Below(y))
      BY <2>1, FS_Subset
    <2>4. Cardinality(Below(x)) <= Cardinality(Below(y))
            /\ Cardinality(Below(x)) # Cardinality(Below(y))
      BY <2>1, <2>2, <2>3, FS_Subset
    <2>. QED BY <1>1, <1>2, <2>4
  <1>4. ASSUME NEW x \in S, NEW y \in S, Rank(x, S, order) < Rank(y, S, order)
        PROVE  <<x, y>> \in order
    <2>1. x # y /\ <<y, x>> \notin order
      BY <1>2, <1>3, <1>4
    <2>. QED BY <2>1 DEF IsTotalOrder
  <1>. QED BY <1>2, <1>3, <1>4

\* Every element of S is in the sorted sequence, at the place that its rank gives.
LEMMA SortedHasAll ==
  ASSUME NEW S, IsFiniteSet(S), NEW order, IsTotalOrder(order, S)
  PROVE  /\ Sorted(S, order) \in Seq(S) /\ Len(Sorted(S, order)) = Cardinality(S)
         /\ Cardinality(S) \in Nat
         /\ \A i \in 1..Cardinality(S) :
              Sorted(S, order)[i] \in S /\ Rank(Sorted(S, order)[i], S, order) = i - 1
         /\ \A x \in S :
              /\ Rank(x, S, order) + 1 \in 1..Cardinality(S)
              /\ Sorted(S, order)[Rank(x, S, order) + 1] = x
PROOF
  <1>. DEFINE n == Cardinality(S)
              place == [x \in S |-> Rank(x, S, order) + 1]
              s == Sorted(S, order)
  <1>1. n \in Nat
    BY FS_CardinalityType
  <1>2. \A x \in S : Rank(x, S, order) \in 0..(n - 1)
    BY RanksAreOrdered
  <1>3. ASSUME NEW x \in S, NEW y \in S, Rank(x, S, order) = Rank(y, S, order)  PROVE x = y
    <2>1. ~(Rank(x, S, order) < Rank(y, S, order)) /\ ~(Rank(y, S, order) < Rank(x, S, order))
      BY <1>2, <1>3
    <2>2. <<x, y>> \notin order /\ <<y, x>> \notin order
      BY <2>1, RanksAreOrdered
    <2>. QED BY <2>2 DEF IsTotalOrder
  <1>4. place \in Injection(S, 1..n)
    <2>1. place \in [S -> 1..n]
      BY <1>1, <1>2
    <2>2. \A x, y \in S : place[x] = place[y] => x = y
      BY <1>2, <1>3
    <2>. QED BY <2>1, <2>2 DEF Injection, IsInjective
  <1>5. place \in Surjection(S, 1..n)
    <2>1. IsFiniteSet(1..n) /\ Cardinality(1..n) = n
      BY <1>1, FS_Interval
    <2>. HIDE DEF place
    <2>. QED BY <1>1, <1>4, <2>1, FS_Injection
  <1>6. \A i \in 1..n : \E x \in S : Rank(x, S, order) = i - 1
    <2>. TAKE i \in 1..n
    <2>1. PICK x \in S : place[x] = i
      BY <1>5 DEF Surjection
    <2>. QED BY <1>1, <1>2, <2>1
  <1>7. s = [i \in 1..n |-> CHOOSE x \in S : Rank(x, S, order) = i - 1]
    BY DEF Sorted
  <1>. HIDE DEF s
  <1>8. \A i \in 1..n : s[i] \in S /\ Rank(s[i], S, order) = i - 1
    BY <1>6, <1>7
  <1>9. s \in Seq(S) /\ Len(s) = n
    BY <1>1, <1>7, <1>8
  <1>10. ASSUME NEW x \in S
         PROVE  Rank(x, S, order) + 1 \in 1..n /\ s[Rank(x, S, order) + 1] = x
    <2>. DEFINE i == Rank(x, S, order) + 1
    <2>1. i \in 1..n
      BY <1>1, <1>2
    <2>2. Rank(s[i], S, order) = i - 1 /\ s[i] \in S
      BY <1>8, <2>1
    <2>3. Rank(s[i], S, order) = Rank(x, S, order)
      BY <1>2, <2>2
    <2>. QED BY <1>3, <2>1, <2>2, <2>3
  <1>. QED BY <1>1, <1>8, <1>9, <1>10 DEF s

\* A part of a sequence has the elements of its places.
LEMMA PartOfSequence ==
  ASSUME NEW S, NEW s \in Seq(S), NEW m \in Nat \ {0}, NEW n \in 0..Len(s), m <= n + 1
  PROVE  /\ SubSeq(s, m, n) \in Seq(S) /\ Len(SubSeq(s, m, n)) = (n - m) + 1
         /\ \A i \in 1..((n - m) + 1) : SubSeq(s, m, n)[i] = s[(m + i) - 1]
PROOF
  <1>1. Len(s) \in Nat /\ n \in Int /\ m \in Int
    OBVIOUS
  <1>2. \A i \in m..n : s[i] \in S
    BY <1>1, ElementOfSeq
  <1>. QED BY <1>1, <1>2, SubSeqProperties

\* Of a part that holds what comes before its elements, the sequence is the beginning.
LEMMA SortedBeginning ==
  ASSUME NEW S, IsFiniteSet(S), NEW order, IsTotalOrder(order, S), NEW L \in SUBSET S,
         \A x \in L, y \in S : <<y, x>> \in order => y \in L
  PROVE  Sorted(L, order) = SubSeq(Sorted(S, order), 1, Cardinality(L))
PROOF
  <1>. DEFINE s == Sorted(S, order)
              l == Sorted(L, order)
  <1>1. IsFiniteSet(L) /\ Cardinality(L) <= Cardinality(S)
    BY FS_Subset
  <1>2. IsTotalOrder(order, L)
    BY DEF IsTotalOrder
  <1>3. /\ s \in Seq(S) /\ Len(s) = Cardinality(S) /\ Cardinality(S) \in Nat
        /\ \A x \in S : /\ Rank(x, S, order) + 1 \in 1..Cardinality(S)
                        /\ s[Rank(x, S, order) + 1] = x
    BY SortedHasAll
  <1>4. /\ l \in Seq(L) /\ Len(l) = Cardinality(L) /\ Cardinality(L) \in Nat
        /\ \A i \in 1..Cardinality(L) : l[i] \in L /\ Rank(l[i], L, order) = i - 1
    BY <1>1, <1>2, SortedHasAll
  <1>5. ASSUME NEW x \in L  PROVE Rank(x, L, order) = Rank(x, S, order)
    <2>1. {y \in L : <<y, x>> \in order} = {y \in S : <<y, x>> \in order}
      OBVIOUS
    <2>. QED BY <2>1 DEF Rank
  <1>. HIDE DEF s, l
  <1>6. ASSUME NEW i \in 1..Cardinality(L)  PROVE s[i] = l[i]
    <2>1. l[i] \in L /\ Rank(l[i], S, order) = i - 1
      BY <1>4, <1>5
    <2>2. s[Rank(l[i], S, order) + 1] = l[i]
      BY <1>3, <2>1
    <2>. QED BY <1>4, <2>1, <2>2
  <1>. DEFINE b == SubSeq(s, 1, Cardinality(L))
  <1>7. b \in Seq(S) /\ Len(b) = Cardinality(L) /\ \A i \in 1..Cardinality(L) : b[i] = s[i]
    BY <1>1, <1>3, <1>4
  <1>8. l \in Seq(S)
    BY <1>4
  <1>. HIDE DEF b
  <1>9. l = b
    BY <1>4, <1>6, <1>7, <1>8, SeqEqual
  <1>. QED BY <1>9 DEF b, s, l

\* Of a part that holds what comes after its elements, it is the end.
LEMMA SortedEnd ==
  ASSUME NEW S, IsFiniteSet(S), NEW order, IsTotalOrder(order, S), NEW U \in SUBSET S,
         \A x \in U, y \in S : <<x, y>> \in order => y \in U
  PROVE  Sorted(U, order)
           = SubSeq(Sorted(S, order), Cardinality(S) - Cardinality(U) + 1, Cardinality(S))
PROOF
  <1>. DEFINE s == Sorted(S, order)
              u == Sorted(U, order)
              k == Cardinality(S) - Cardinality(U)
  <1>1. IsFiniteSet(U) /\ Cardinality(U) <= Cardinality(S)
    BY FS_Subset
  <1>2. IsTotalOrder(order, U)
    BY DEF IsTotalOrder
  <1>3. /\ s \in Seq(S) /\ Len(s) = Cardinality(S) /\ Cardinality(S) \in Nat
        /\ \A x \in S : /\ Rank(x, S, order) + 1 \in 1..Cardinality(S)
                        /\ s[Rank(x, S, order) + 1] = x
    BY SortedHasAll
  <1>4. /\ u \in Seq(U) /\ Len(u) = Cardinality(U) /\ Cardinality(U) \in Nat
        /\ \A i \in 1..Cardinality(U) : u[i] \in U /\ Rank(u[i], U, order) = i - 1
    BY <1>1, <1>2, SortedHasAll
  <1>5. IsFiniteSet(S \ U) /\ Cardinality(S \ U) = k
    <2>1. S \cap U = U
      OBVIOUS
    <2>2. IsFiniteSet(S \ U) /\ Cardinality(S \ U) = Cardinality(S) - Cardinality(S \cap U)
      BY FS_Difference
    <2>. QED BY <2>1, <2>2
  <1>6. ASSUME NEW x \in U  PROVE Rank(x, S, order) = k + Rank(x, U, order)
    <2>. DEFINE B == {y \in U : <<y, x>> \in order}
    <2>1. {y \in S : <<y, x>> \in order} = (S \ U) \cup B
      BY DEF IsTotalOrder
    <2>2. IsFiniteSet(B) /\ Cardinality(B) \in Nat
      BY <1>1, FS_Subset, FS_CardinalityType
    <2>3. (S \ U) \cap B = {}
      OBVIOUS
    <2>. HIDE DEF B
    <2>4. Cardinality((S \ U) \cup B) = Cardinality(S \ U) + Cardinality(B) - Cardinality({})
      BY <1>5, <2>2, <2>3, FS_Union
    <2>5. Cardinality({}) = 0
      BY FS_EmptySet
    <2>6. Rank(x, S, order) = Cardinality((S \ U) \cup B)
      BY <2>1 DEF Rank
    <2>7. Rank(x, U, order) = Cardinality(B)
      BY DEF Rank, B
    <2>8. Cardinality(S \ U) \in Nat
      BY <1>5, FS_CardinalityType
    <2>. HIDE DEF k
    <2>. QED BY <1>5, <2>2, <2>4, <2>5, <2>6, <2>7, <2>8
  <1>. HIDE DEF s, u
  <1>7. ASSUME NEW i \in 1..Cardinality(U)  PROVE s[i + k] = u[i]
    <2>1. u[i] \in U /\ Rank(u[i], S, order) = k + (i - 1)
      BY <1>4, <1>6
    <2>2. s[Rank(u[i], S, order) + 1] = u[i]
      BY <1>3, <2>1
    <2>3. (k + (i - 1)) + 1 = i + k
      BY <1>3, <1>4
    <2>. QED BY <2>1, <2>2, <2>3
  <1>. DEFINE e == SubSeq(s, k + 1, Cardinality(S))
  <1>8. k \in Nat
    BY <1>1, <1>3, <1>4
  <1>9. e \in Seq(S) /\ Len(e) = Cardinality(U) /\ \A i \in 1..Cardinality(U) : e[i] = s[i + k]
    <2>1. k + Cardinality(U) = Cardinality(S)
      BY <1>3, <1>4
    <2>. HIDE DEF k
    <2>2. k + 1 \in Nat \ {0} /\ Cardinality(S) \in 0..Len(s) /\ k + 1 <= Cardinality(S) + 1
      BY <1>3, <1>4, <1>8, <2>1
    <2>3. /\ e \in Seq(S) /\ Len(e) = (Cardinality(S) - (k + 1)) + 1
          /\ \A i \in 1..((Cardinality(S) - (k + 1)) + 1) : e[i] = s[((k + 1) + i) - 1]
      BY <1>3, <2>2, PartOfSequence
    <2>4. (Cardinality(S) - (k + 1)) + 1 = Cardinality(U)
      BY <1>3, <1>4, <1>8, <2>1
    <2>5. \A i \in 1..Cardinality(U) : ((k + 1) + i) - 1 = i + k
      BY <1>4, <1>8
    <2>. HIDE DEF e
    <2>. QED BY <2>3, <2>4, <2>5
  <1>10. u \in Seq(S)
    BY <1>4
  <1>. HIDE DEF e
  <1>11. u = e
    BY <1>4, <1>7, <1>9, <1>10, SeqEqual
  <1>. QED BY <1>11 DEF e, s, u

\* The lesser and the greater of two numbers.
LEMMA OfTwo ==
  ASSUME NEW a \in Int, NEW b \in Int
  PROVE  /\ Min({a, b}) = IF a <= b THEN a ELSE b
         /\ Max({a, b}) = IF a <= b THEN b ELSE a
PROOF
  <1>1. CASE a <= b
    BY <1>1 DEF Min, Max
  <1>2. CASE ~(a <= b)
    BY <1>2 DEF Min, Max
  <1>. QED BY <1>1, <1>2

\* The first elements of the reverse are the last ones, turned around.
LEMMA ForemostOfReverse ==
  ASSUME NEW S, NEW s \in Seq(S), NEW n \in Nat
  PROVE  Foremost(n, Reverse(s)) = Reverse(Hindmost(n, s))
PROOF
  <1>. DEFINE l == Len(s)
              k == IF n <= l THEN n ELSE l
              r == Reverse(s)
              h == SubSeq(s, l - k + 1, l)
  <1>1. l \in Nat /\ k \in 0..l /\ k <= n
    OBVIOUS
  <1>2. r \in Seq(S) /\ Len(r) = l /\ \A i \in 1..l : r[i] = s[(l - i) + 1]
    BY DEF Reverse
  <1>. HIDE DEF r
  <1>3. Foremost(n, r) = SubSeq(r, 1, k)
    <2>1. Min({n, l}) = k
      BY <1>1, OfTwo
    <2>. QED BY <1>2, <2>1 DEF Foremost
  <1>4. Hindmost(n, s) = h
    <2>. DEFINE m == (l - n) + 1
    <2>1. m \in Int /\ 1 \in Int
      BY <1>1
    <2>2. Max({1, m}) = IF 1 <= m THEN m ELSE 1
      <3>. HIDE DEF m
      <3>. QED BY <2>1, OfTwo
    <2>3. (IF 1 <= m THEN m ELSE 1) = (l - k) + 1
      BY <1>1
    <2>4. Max({1, m}) = (l - k) + 1
      BY <2>2, <2>3
    <2>. QED BY <2>4 DEF Hindmost
  <1>. HIDE DEF k
  <1>5. h \in Seq(S) /\ Len(h) = k /\ \A i \in 1..k : h[i] = s[(l - k) + i]
    <2>1. (l - k) + 1 \in Nat \ {0} /\ l \in 0..l /\ (l - k) + 1 <= l + 1
      BY <1>1
    <2>. DEFINE m == (l - k) + 1
    <2>2. /\ h \in Seq(S) /\ Len(h) = (l - m) + 1
          /\ \A i \in 1..((l - m) + 1) : h[i] = s[(m + i) - 1]
      <3>. HIDE DEF m
      <3>. QED BY <2>1, PartOfSequence DEF m
    <2>3. (l - m) + 1 = k /\ \A i \in 1..k : (m + i) - 1 = (l - k) + i
      BY <1>1
    <2>. HIDE DEF h, m
    <2>. QED BY <2>2, <2>3
  <1>. HIDE DEF h, l
  <1>6. Reverse(h) = [i \in 1..k |-> h[(k - i) + 1]]
    BY <1>5 DEF Reverse
  <1>7. /\ SubSeq(r, 1, k) \in Seq(S) /\ Len(SubSeq(r, 1, k)) = k
        /\ \A i \in 1..k : SubSeq(r, 1, k)[i] = r[i]
    <2>1. k \in 0..Len(r) /\ 1 \in Nat \ {0} /\ 1 <= k + 1 /\ (k - 1) + 1 = k
      BY <1>1, <1>2
    <2>2. \A i \in 1..k : (1 + i) - 1 = i
      OBVIOUS
    <2>. QED BY <1>2, <2>1, <2>2, PartOfSequence
  <1>8. ASSUME NEW i \in 1..k  PROVE SubSeq(r, 1, k)[i] = Reverse(h)[i]
    <2>1. i \in 1..l /\ (k - i) + 1 \in 1..k /\ (l - k) + ((k - i) + 1) = (l - i) + 1
      BY <1>1
    <2>2. SubSeq(r, 1, k)[i] = s[(l - i) + 1]
      BY <1>2, <1>7, <2>1
    <2>3. Reverse(h)[i] = h[(k - i) + 1]
      BY <1>6
    <2>4. h[(k - i) + 1] = s[(l - k) + ((k - i) + 1)]
      BY <1>5, <2>1
    <2>. QED BY <2>1, <2>2, <2>3, <2>4
  <1>9. Reverse(h) \in Seq(S) /\ Len(Reverse(h)) = k
    <2>1. k \in Nat /\ \A i \in 1..k : (k - i) + 1 \in 1..k
      BY <1>1
    <2>2. \A i \in 1..k : h[(k - i) + 1] \in S
      BY <1>5, <2>1, ElementOfSeq
    <2>3. Reverse(h) \in [1..k -> S]
      BY <1>6, <2>2, Zenon
    <2>4. Reverse(h) \in Seq(S)
      BY <2>1, <2>3, SeqDef
    <2>5. Len(Reverse(h)) = k
      BY <1>6, <2>1, <2>4, LenProperties
    <2>. QED BY <2>4, <2>5
  <1>10. SubSeq(r, 1, k) = Reverse(h)
    BY <1>7, <1>8, <1>9, SeqEqual
  <1>. QED BY <1>3, <1>4, <1>10 DEF r, h, l

-----------------------------------------------------------------------------
(* WhatsApp messages.                                                        *)

\* Messages of the same second, or with the same score, are told apart by their ids.
LEMMA MessagesAreOrdered ==
  ASSUME NEW S \in SUBSET Message
  PROVE  IsTotalOrder(Earlier, S) /\ IsTotalOrder(Better, S)
PROOF
  <1>1. \A m \in S : m \in Message /\ m.id \in Nat /\ m.time \in Nat /\ m.score \in Nat
    BY MessageAssumption
  <1>2. \A m, n \in S : m.id = n.id => m = n
    BY MessageAssumption
  <1>3. \A m, n \in S :
          <<m, n>> \in Earlier <=> m.time < n.time \/ (m.time = n.time /\ m.id < n.id)
    BY <1>1 DEF Earlier
  <1>4. \A m, n \in S :
          <<m, n>> \in Better <=> m.score > n.score \/ (m.score = n.score /\ m.id < n.id)
    BY <1>1 DEF Better
  <1>5. IsTotalOrder(Earlier, S)
    BY <1>1, <1>2, <1>3 DEF IsTotalOrder
  <1>6. IsTotalOrder(Better, S)
    BY <1>1, <1>2, <1>4 DEF IsTotalOrder
  <1>. QED BY <1>5, <1>6

\* The numbered rows around a hit are the messages before and after it in its chat, when
\* no two of the chat have the same second.
LEMMA ContextIsItsContext ==
  ASSUME IsFiniteSet(messages), messages \in SUBSET Message, NEW m \in messages,
         \A x, y \in messages : x.chat = y.chat /\ x.time = y.time => x = y
  PROVE  ContextOf(m) = GetMessageContext(m)
PROOF
  <1>. DEFINE S == {n \in messages : n.chat = m.chat}
              L == {n \in messages : n.chat = m.chat /\ n.time < m.time}
              U == {n \in messages : n.chat = m.chat /\ n.time > m.time}
              rows == Sorted(S, Earlier)
              rank == Rank(m, S, Earlier)
  <1>1. S \in SUBSET Message /\ L \in SUBSET S /\ U \in SUBSET S /\ m \in S /\ S \in SUBSET messages
    OBVIOUS
  <1>2. /\ IsFiniteSet(S) /\ IsFiniteSet(L) /\ IsFiniteSet(U)
        /\ Cardinality(S) \in Nat /\ Cardinality(L) \in Nat /\ Cardinality(U) \in Nat
    <2>. HIDE DEF S, L, U
    <2>. QED BY <1>1, FS_Subset, FS_CardinalityType
  <1>3. IsTotalOrder(Earlier, S)
    BY <1>1, MessagesAreOrdered
  <1>4. /\ \A x \in S : x.time \in Nat /\ x.id \in Nat
        /\ \A x, y \in S : x.time = y.time => x = y
        /\ \A x, y \in S : <<x, y>> \in Earlier <=> x.time < y.time
    <2>1. \A x \in S : x.time \in Nat /\ x.id \in Nat /\ x \in Message
      BY MessageAssumption
    <2>2. \A x, y \in S : x.time = y.time => x = y
      OBVIOUS
    <2>. HIDE DEF S
    <2>3. ASSUME NEW x \in S, NEW y \in S  PROVE <<x, y>> \in Earlier <=> x.time < y.time
      <3>1. <<x, y>> \in Earlier <=> x.time < y.time \/ (x.time = y.time /\ x.id < y.id)
        BY <2>1 DEF Earlier
      <3>2. ~(x.time = y.time /\ x.id < y.id)
        BY <2>1, <2>2
      <3>. QED BY <3>1, <3>2
    <2>. QED BY <2>1, <2>2, <2>3
  <1>5. L = {y \in S : <<y, m>> \in Earlier}
    BY <1>1, <1>4
  <1>6. rank = Cardinality(L)
    BY <1>5 DEF Rank
  <1>7. S \ U = L \cup {m} /\ m \notin L /\ S \cap U = U
    BY <1>1, <1>4
  <1>8. \A x \in L, y \in S : <<y, x>> \in Earlier => y \in L
    BY <1>1, <1>4
  <1>9. \A x \in U, y \in S : <<x, y>> \in Earlier => y \in U
    BY <1>1, <1>4
  <1>10. Before \in Nat /\ After \in Nat
    BY LimitAssumption
  <1>11. MessagesBefore(m) = Foremost(Before, Reverse(Sorted(L, Earlier)))
    BY DEF MessagesBefore, Newest, Oldest
  <1>12. MessagesAfter(m) = Foremost(After, Sorted(U, Earlier))
    BY DEF MessagesAfter, Oldest
  <1>13. Numbered(m.chat) = rows
    BY DEF Numbered, Oldest
  <1>. HIDE DEF S, L, U
  <1>14. Cardinality(S) - Cardinality(U) = rank + 1
    <2>1. Cardinality(S \ U) = Cardinality(S) - Cardinality(S \cap U)
      BY <1>2, FS_Difference
    <2>2. Cardinality(L \cup {m}) = Cardinality(L) + 1
      BY <1>2, <1>7, FS_AddElement
    <2>3. Cardinality(L) + 1 = Cardinality(S) - Cardinality(U)
      BY <1>7, <2>1, <2>2
    <2>. QED BY <1>2, <1>6, <2>3
  <1>15. /\ rows \in Seq(S) /\ Len(rows) = Cardinality(S)
         /\ \A i \in 1..Cardinality(S) : Rank(rows[i], S, Earlier) = i - 1
         /\ rank + 1 \in 1..Cardinality(S) /\ rows[rank + 1] = m
    BY <1>1, <1>2, <1>3, SortedHasAll
  <1>16. Sorted(L, Earlier) = SubSeq(rows, 1, rank)
    BY <1>1, <1>2, <1>3, <1>6, <1>8, SortedBeginning
  <1>17. Sorted(U, Earlier) = SubSeq(rows, rank + 1 + 1, Len(rows))
    BY <1>1, <1>2, <1>3, <1>9, <1>14, <1>15, SortedEnd
  <1>18. Sorted(L, Earlier) \in Seq(L)
    <2>1. IsTotalOrder(Earlier, L)
      BY <1>1, <1>3 DEF IsTotalOrder
    <2>. QED BY <1>2, <2>1, SortedHasAll
  <1>. DEFINE rn == CHOOSE i \in DOMAIN rows : rows[i] = m
  <1>19. rn = rank + 1
    <2>. HIDE DEF rows
    <2>1. DOMAIN rows = 1..Cardinality(S)
      BY <1>15
    <2>2. rn \in 1..Cardinality(S) /\ rows[rn] = m
      BY <1>15, <2>1
    <2>3. rank = rn - 1
      BY <1>15, <2>2
    <2>4. rank \in Int
      BY <1>2, <1>6
    <2>. HIDE DEF rn, rank
    <2>. QED BY <2>2, <2>3, <2>4
  <1>20. rn - 1 = rank
    <2>1. rank \in Int
      BY <1>2, <1>6
    <2>. HIDE DEF rn, rank
    <2>. QED BY <1>19, <2>1
  <1>21. ContextOf(m) = Reverse(Hindmost(Before, SubSeq(rows, 1, rn - 1))) \o <<m>>
                          \o Foremost(After, SubSeq(rows, rn + 1, Len(rows)))
    BY <1>13 DEF ContextOf
  <1>. HIDE DEF rows, rn, rank
  <1>22. MessagesBefore(m) = Reverse(Hindmost(Before, SubSeq(rows, 1, rn - 1)))
    BY <1>10, <1>11, <1>16, <1>18, <1>20, ForemostOfReverse
  <1>23. MessagesAfter(m) = Foremost(After, SubSeq(rows, rn + 1, Len(rows)))
    BY <1>12, <1>17, <1>19
  <1>. QED BY <1>21, <1>22, <1>23 DEF GetMessageContext

\* What is found is there: no message goes while a question is answered.
OfMessages == request.tool \in {"list_messages", "search_messages"}
MessagesOK ==
  /\ messages \in SUBSET Message /\ IsFiniteSet(messages)
  /\ page \in Nat
  /\ OfMessages => found \in Seq(messages)

\* The first elements of a sequence are a sequence of the same.
LEMMA ForemostIsPart ==
  ASSUME NEW S, NEW s \in Seq(S), NEW n \in Nat
  PROVE  Foremost(n, s) \in Seq(S)
PROOF
  <1>. DEFINE k == IF n <= Len(s) THEN n ELSE Len(s)
  <1>1. k \in 0..Len(s) /\ 1 <= k + 1 /\ 1 \in Nat \ {0}
    OBVIOUS
  <1>2. Foremost(n, s) = SubSeq(s, 1, k)
    <2>1. Min({n, Len(s)}) = k
      BY OfTwo
    <2>. QED BY <2>1 DEF Foremost
  <1>. HIDE DEF k
  <1>. QED BY <1>1, <1>2, PartOfSequence

\* A page is of the messages that it is cut from.
LEMMA PageIsPart ==
  ASSUME NEW S, NEW s \in Seq(S), NEW n \in Nat
  PROVE  PageOf(n, s) \in Seq(S)
PROOF
  <1>. DEFINE first == n * Limit + 1
              last == Min({(n + 1) * Limit, Len(s)})
  <1>1. first \in Nat \ {0} /\ (n + 1) * Limit \in Nat
    BY LimitAssumption
  <1>2. last \in Int /\ last <= Len(s)
    <2>. DEFINE e == (n + 1) * Limit
    <2>1. e \in Int /\ Len(s) \in Int
      BY <1>1
    <2>. HIDE DEF e
    <2>2. Min({e, Len(s)}) = IF e <= Len(s) THEN e ELSE Len(s)
      BY <2>1, OfTwo
    <2>. QED BY <2>1, <2>2 DEF e
  <1>. HIDE DEF first, last
  <1>3. \A i \in first..last : s[i] \in S
    <2>1. \A i \in first..last : i \in 1..Len(s)
      BY <1>1, <1>2
    <2>. QED BY <2>1, ElementOfSeq
  <1>4. SubSeq(s, first, last) \in Seq(S)
    BY <1>1, <1>2, <1>3, SubSeqProperties
  <1>. QED BY <1>4 DEF PageOf, first, last

\* Each step keeps MessagesOK.
LEMMA MessagesStay == MessagesOK /\ [ReadNext]_readVars => MessagesOK'
PROOF
  <1>. SUFFICES ASSUME MessagesOK, [ReadNext]_readVars  PROVE MessagesOK'
    OBVIOUS
  <1>. USE DEF MessagesOK, OfMessages
  <1>0. /\ Limit \in Nat /\ PoolFactor \in Nat /\ Limit * PoolFactor \in Nat
    BY LimitAssumption
  <1>1. CASE ListPage
    <2>. DEFINE rows == {m \in messages : InRange(m, request.filter) /\ IsFrom(m, request.filter)}
    <2>1. rows \in SUBSET messages /\ found' = PageOf(page, Newest(rows))
      BY <1>1 DEF ListPage
    <2>. HIDE DEF rows
    <2>2. IsFiniteSet(rows) /\ IsTotalOrder(Earlier, rows)
      BY <2>1, FS_Subset, MessagesAreOrdered
    <2>3. Oldest(rows) \in Seq(rows)
      BY <2>2, SortedHasAll DEF Oldest
    <2>4. Newest(rows) \in Seq(rows)
      BY <2>3 DEF Newest, Reverse
    <2>5. found' \in Seq(rows)
      BY <2>1, <2>4, PageIsPart
    <2>6. found' \in Seq(messages)
      BY <2>1, <2>5, SeqMonotonic
    <2>. QED BY <1>1, <2>6 DEF ListPage
  <1>2. CASE RankMessages
    <2>. DEFINE matches == {m \in messages : m.score > 0 /\ InRange(m, request.filter)}
    <2>1. /\ matches \in SUBSET messages
          /\ found' = Foremost(Limit, Foremost(Limit * PoolFactor, Sorted(matches, Better)))
      BY <1>2 DEF RankMessages
    <2>. HIDE DEF matches
    <2>2. IsFiniteSet(matches) /\ IsTotalOrder(Better, matches)
      BY <2>1, FS_Subset, MessagesAreOrdered
    <2>3. Sorted(matches, Better) \in Seq(matches)
      BY <2>2, SortedHasAll
    <2>4. found' \in Seq(matches)
      BY <1>0, <2>1, <2>3, ForemostIsPart
    <2>5. found' \in Seq(messages)
      BY <2>1, <2>4, SeqMonotonic
    <2>. QED BY <1>2, <2>5 DEF RankMessages, messageVars
  <1>3. CASE LoadMessages
    <2>. DEFINE kept == {m \in {found[i] : i \in DOMAIN found} \cap messages :
                           IsFrom(m, request.filter)}
    <2>1. kept \in SUBSET messages /\ found' = Sorted(kept, Better)
      BY <1>3 DEF LoadMessages
    <2>. HIDE DEF kept
    <2>2. IsFiniteSet(kept) /\ IsTotalOrder(Better, kept)
      BY <2>1, FS_Subset, MessagesAreOrdered
    <2>3. found' \in Seq(kept)
      BY <2>1, <2>2, SortedHasAll
    <2>4. found' \in Seq(messages)
      BY <2>1, <2>3, SeqMonotonic
    <2>. QED BY <1>3, <2>4 DEF LoadMessages, messageVars
  <1>4. CASE Arrive
    <2>1. PICK m \in Message : messages' = messages \cup {m}
      BY <1>4 DEF Arrive
    <2>2. messages' \in SUBSET Message /\ IsFiniteSet(messages')
      BY <2>1, FS_AddElement
    <2>3. OfMessages => found \in Seq(messages')
      BY <2>1, SeqMonotonic
    <2>. QED BY <1>4, <2>2, <2>3 DEF Arrive
  <1>5. CASE ExpandContext
    BY <1>5 DEF ExpandContext, messageVars
  <1>6. CASE Upsert \/ Prune \/ RankEntries \/ LoadEntries \/ ShowEmail
    BY <1>6 DEF Upsert, Prune, RankEntries, LoadEntries, ShowEmail, messageVars
  <1>7. CASE UNCHANGED readVars
    BY <1>7 DEF readVars, messageVars
  <1>. QED BY <1>1, <1>2, <1>3, <1>4, <1>5, <1>6, <1>7 DEF ReadNext

\* The context that one statement collects is that of each hit, for any messages, pages,
\* filters and bounds.
THEOREM ContextOfEachHit == ReadSpec => ContextIsThatOfEachHit
PROOF
  <1>. DEFINE Expands == reading = "context" /\ reading' # "context"
              Unlike == \A m, n \in messages : m.chat = n.chat /\ m.time = n.time => m = n
              Each == shown' = FlattenSeq([i \in DOMAIN found |-> GetMessageContext(found[i])])
  <1>1. ReadInit => MessagesOK
    <2>. SUFFICES ASSUME ReadInit  PROVE MessagesOK
      OBVIOUS
    <2>1. found \in Seq(messages)
      BY EmptySeq DEF ReadInit
    <2>. QED BY <2>1, FS_EmptySet DEF ReadInit, MessagesOK
  <1>2. ASSUME MessagesOK, [ReadNext]_readVars, reading = "context" => OfMessages  PROVE Expands /\ Unlike => Each
    <2>. SUFFICES ASSUME Expands, Unlike  PROVE Each
      OBVIOUS
    <2>1. ExpandContext
      BY <1>2 DEF ReadNext, readVars, ListPage, RankMessages, LoadMessages, Arrive, Upsert, Prune,
                  RankEntries, LoadEntries, ShowEmail
    <2>2. found \in Seq(messages)
      BY <1>2 DEF MessagesOK
    <2>3. ASSUME NEW i \in DOMAIN found  PROVE ContextOf(found[i]) = GetMessageContext(found[i])
      <3>1. found[i] \in messages
        BY <2>2
      <3>. QED BY <1>2, <3>1, ContextIsItsContext DEF MessagesOK
    <2>4. [i \in DOMAIN found |-> ContextOf(found[i])]
            = [i \in DOMAIN found |-> GetMessageContext(found[i])]
      BY <2>3
    <2>. QED BY <2>1, <2>4 DEF ExpandContext
  <1>3. ReadInit => (reading = "context" => OfMessages)
    BY DEF ReadInit
  <1>4. (reading = "context" => OfMessages) /\ [ReadNext]_readVars => (reading = "context" => OfMessages)'
    BY DEF OfMessages, ReadNext, readVars, ListPage, RankMessages, LoadMessages, ExpandContext, Arrive, Upsert,
           Prune, RankEntries, LoadEntries, ShowEmail
  <1>5. MessagesOK /\ (reading = "context" => OfMessages) /\ [ReadNext]_readVars
          => [Expands /\ Unlike => Each]_readVars
    BY <1>2
  <1>. QED BY <1>1, <1>3, <1>4, <1>5, MessagesStay, PTL DEF ReadSpec, ContextIsThatOfEachHit

-----------------------------------------------------------------------------
(* The search store.                                                         *)

\* The first n of a sorted sequence are as many as there are, and each comes before every
\* element that is not among them.
LEMMA ForemostAreFirst ==
  ASSUME NEW S, IsFiniteSet(S), NEW order, IsTotalOrder(order, S), NEW n \in Nat
  PROVE  LET s == Foremost(n, Sorted(S, order)) IN
         /\ s \in Seq(S) /\ Len(s) = Min({n, Cardinality(S)})
         /\ \A x \in S : (\A i \in DOMAIN s : s[i] # x) => \A i \in DOMAIN s : <<s[i], x>> \in order
PROOF
  <1>. DEFINE all == Sorted(S, order)
              c == Cardinality(S)
              k == IF n <= c THEN n ELSE c
              s == Foremost(n, all)
  <1>1. /\ all \in Seq(S) /\ Len(all) = c /\ c \in Nat
        /\ \A i \in 1..c : all[i] \in S /\ Rank(all[i], S, order) = i - 1
        /\ \A x \in S : /\ Rank(x, S, order) + 1 \in 1..c
                        /\ all[Rank(x, S, order) + 1] = x
    BY SortedHasAll
  <1>2. \A x, y \in S : <<x, y>> \in order <=> Rank(x, S, order) < Rank(y, S, order)
    BY RanksAreOrdered
  <1>3. \A x \in S : Rank(x, S, order) \in Nat
    BY RanksAreOrdered
  <1>. HIDE DEF all, c
  <1>4. Min({n, c}) = k /\ k \in 0..c
    BY <1>1, OfTwo
  <1>5. s = SubSeq(all, 1, k)
    BY <1>1, <1>4 DEF Foremost
  <1>. HIDE DEF k, s
  <1>6. s \in Seq(S) /\ Len(s) = k /\ \A i \in 1..k : s[i] = all[i]
    <2>1. k \in 0..Len(all) /\ 1 \in Nat \ {0} /\ 1 <= k + 1 /\ (k - 1) + 1 = k
      BY <1>1, <1>4
    <2>2. \A i \in 1..k : (1 + i) - 1 = i
      OBVIOUS
    <2>. QED BY <1>1, <1>5, <2>1, <2>2, PartOfSequence
  <1>7. ASSUME NEW x \in S, \A i \in DOMAIN s : s[i] # x, NEW j \in DOMAIN s
        PROVE  <<s[j], x>> \in order
    <2>. DEFINE r == Rank(x, S, order)
    <2>1. r \in Nat /\ r + 1 \in 1..c /\ all[r + 1] = x
      BY <1>1, <1>3
    <2>. HIDE DEF r
    <2>2. r + 1 > k
      BY <1>4, <1>6, <1>7, <2>1
    <2>3. j \in 1..k /\ s[j] \in S /\ Rank(s[j], S, order) = j - 1
      BY <1>1, <1>4, <1>6
    <2>4. j - 1 < r
      BY <1>4, <2>1, <2>2, <2>3
    <2>. QED BY <1>2, <2>3, <2>4 DEF r
  <1>. QED BY <1>4, <1>6, <1>7 DEF s, all, c

\* Ids are given once: those of entries differ, and none is above the last.
EntriesOK ==
  /\ lastId \in Nat
  /\ entries \in [Key -> [id : Nat, text : EntryText \cup {NoEntry.text}]]
  /\ \A k \in Key : entries[k].id <= lastId /\ (entries[k].id = 0 => entries[k] = NoEntry)
  /\ \A k, l \in Key : entries[k].id = entries[l].id /\ entries[k].id # 0 => k = l

\* What was ranked has an id that no other entry has or will have.
Hit == [id : Nat \ {0}, score : Nat, key : Key]
Ranking == request.tool = "search" /\ reading = "hits"
HitsOK ==
  Ranking =>
    /\ found \in Seq(Hit)
    /\ \A i \in DOMAIN found : /\ found[i].id <= lastId
                               /\ \A k \in Key : entries[k].id = found[i].id => k = found[i].key
    /\ \A i, j \in DOMAIN found : found[i].id = found[j].id => found[i] = found[j]

\* Scores and boosts are numbers.
LEMMA TextsAreScored ==
  ASSUME EntriesOK, NEW k \in Key
  PROVE  entries[k].text.score \in Nat /\ entries[k].text.boost \in Nat
PROOF
  <1>1. entries[k].text \in EntryText \cup {NoEntry.text}
    BY DEF EntriesOK
  <1>2. NoEntry.text.score = 0 /\ NoEntry.text.boost = 0
    BY DEF NoEntry
  <1>. QED BY <1>1, <1>2, EntryAssumption

\* An entry that is written keeps its id or takes the next one.
LEMMA UpsertGivesIds ==
  ASSUME EntriesOK, Upsert
  PROVE  \E k \in Key, t \in EntryText, id \in Nat \ {0} :
           /\ entries' = [entries EXCEPT ![k] = [id |-> id, text |-> t]]
           /\ entries[k] # NoEntry => id = entries[k].id
           /\ entries[k] = NoEntry => id = lastId + 1
           /\ lastId' \in Nat /\ lastId' >= lastId /\ lastId' >= id
PROOF
  <1>1. PICK k \in Key, t \in EntryText :
          LET id == IF entries[k] = NoEntry THEN NewId ELSE entries[k].id IN
          /\ entries' = [entries EXCEPT ![k] = [id |-> id, text |-> t]]
          /\ lastId' = Max({lastId, id})
    BY DEF Upsert
  <1>. DEFINE id == IF entries[k] = NoEntry THEN lastId + 1 ELSE entries[k].id
  <1>2. /\ entries[k] # NoEntry => id = entries[k].id
        /\ entries[k] = NoEntry => id = lastId + 1
        /\ id \in Nat \ {0} /\ lastId \in Nat
    BY DEF EntriesOK
  <1>3. entries' = [entries EXCEPT ![k] = [id |-> id, text |-> t]] /\ lastId' = Max({lastId, id})
    BY <1>1 DEF NewId
  <1>. HIDE DEF id
  <1>4. lastId \in Int /\ id \in Int
    BY <1>2
  <1>5. Max({lastId, id}) = IF lastId <= id THEN id ELSE lastId
    BY <1>4, OfTwo
  <1>6. lastId' \in Nat /\ lastId' >= lastId /\ lastId' >= id
    BY <1>2, <1>3, <1>5
  <1>. QED BY <1>2, <1>3, <1>6

\* Each step keeps EntriesOK.
LEMMA EntriesStay == EntriesOK /\ [ReadNext]_readVars => EntriesOK'
PROOF
  <1>. SUFFICES ASSUME EntriesOK, [ReadNext]_readVars  PROVE EntriesOK'
    OBVIOUS
  <1>1. CASE Upsert
    <2>1. PICK k \in Key, t \in EntryText, id \in Nat \ {0} :
            /\ entries' = [entries EXCEPT ![k] = [id |-> id, text |-> t]]
            /\ entries[k] # NoEntry => id = entries[k].id
            /\ entries[k] = NoEntry => id = lastId + 1
            /\ lastId' \in Nat /\ lastId' >= lastId /\ lastId' >= id
      BY <1>1, UpsertGivesIds
    <2>2. entries' \in [Key -> [id : Nat, text : EntryText \cup {NoEntry.text}]]
      BY <2>1 DEF EntriesOK
    <2>3. /\ entries'[k] = [id |-> id, text |-> t]
          /\ \A l \in Key : l # k => entries'[l] = entries[l]
      BY <2>1 DEF EntriesOK
    <2>4. \A l \in Key : entries[l].id \in Nat
      BY DEF EntriesOK
    <2>5. \A l \in Key : l # k => entries[l].id # id
      BY <2>1, <2>4 DEF EntriesOK
    <2>6. \A l \in Key : entries'[l].id <= lastId' /\ (entries'[l].id = 0 => entries'[l] = NoEntry)
      BY <2>1, <2>3, <2>4 DEF EntriesOK
    <2>7. \A l, m \in Key : entries'[l].id = entries'[m].id /\ entries'[l].id # 0 => l = m
      BY <2>3, <2>5 DEF EntriesOK
    <2>. QED BY <2>1, <2>2, <2>6, <2>7 DEF EntriesOK
  <1>2. CASE Prune
    <2>1. PICK k \in Key : entries' = [entries EXCEPT ![k] = NoEntry]
      BY <1>2 DEF Prune
    <2>2. lastId' = lastId
      BY <1>2 DEF Prune
    <2>3. entries'[k] = NoEntry /\ \A l \in Key : l # k => entries'[l] = entries[l]
      BY <2>1 DEF EntriesOK
    <2>4. NoEntry.id = 0 /\ NoEntry \in [id : Nat, text : EntryText \cup {NoEntry.text}]
      BY DEF NoEntry
    <2>5. entries' \in [Key -> [id : Nat, text : EntryText \cup {NoEntry.text}]]
      BY <2>1, <2>4 DEF EntriesOK
    <2>6. \A l \in Key : entries'[l].id <= lastId' /\ (entries'[l].id = 0 => entries'[l] = NoEntry)
      BY <2>2, <2>3, <2>4 DEF EntriesOK
    <2>7. \A l, m \in Key : entries'[l].id = entries'[m].id /\ entries'[l].id # 0 => l = m
      BY <2>3, <2>4 DEF EntriesOK
    <2>. QED BY <2>2, <2>5, <2>6, <2>7 DEF EntriesOK
  <1>3. CASE UNCHANGED searchVars
    BY <1>3 DEF EntriesOK, searchVars
  <1>. QED
    BY <1>1, <1>2, <1>3 DEF ReadNext, readVars, ListPage, RankMessages, LoadMessages, ExpandContext, Arrive,
                            RankEntries, LoadEntries, ShowEmail

\* What RankEntries finds has the ids of its entries.
LEMMA RankingStarts ==
  ASSUME EntriesOK, RankEntries  PROVE HitsOK'
PROOF
  <1>. DEFINE K == {k \in Key : entries[k].text.score > 0}
              hit == [k \in K |-> [id |-> entries[k].id, score |-> entries[k].text.score, key |-> k]]
              matches == {hit[k] : k \in K}
              order == {p \in matches \X matches :
                          p[1].score > p[2].score \/ (p[1].score = p[2].score /\ p[1].id < p[2].id)}
  <1>1. matches = {[id |-> entries[k].id, score |-> entries[k].text.score, key |-> k] : k \in K}
    OBVIOUS
  <1>2. found' = Foremost(Limit * PoolFactor, Sorted(matches, order))
    BY <1>1 DEF RankEntries
  <1>3. UNCHANGED <<entries, lastId, request>>
    BY DEF RankEntries, searchVars
  <1>4. ASSUME NEW k \in K
        PROVE  /\ entries[k].id \in Nat \ {0} /\ entries[k].id <= lastId
               /\ entries[k].text.score \in Nat
               /\ \A l \in Key : entries[l].id = entries[k].id => l = k
    <2>1. entries[k].text.score \in Nat /\ entries[k].id \in Nat
      BY TextsAreScored DEF EntriesOK
    <2>2. entries[k] # NoEntry
      BY <2>1 DEF NoEntry
    <2>. QED BY <2>1, <2>2 DEF EntriesOK
  <1>5. \A k \in K : /\ hit[k].id = entries[k].id /\ hit[k].score = entries[k].text.score
                     /\ hit[k].key = k /\ hit[k] \in Hit
    BY <1>4 DEF Hit
  <1>6. IsFiniteSet(matches)
    <2>1. K \in SUBSET Key
      OBVIOUS
    <2>. HIDE DEF K
    <2>2. IsFiniteSet(K)
      BY <2>1, EntryAssumption, FS_Subset
    <2>3. hit \in Surjection(K, matches)
      BY DEF Surjection
    <2>. HIDE DEF hit, matches
    <2>. QED BY <2>2, <2>3, FS_Surjection
  <1>. HIDE DEF K
  <1>7. \A x \in matches : \E k \in K : x = hit[k]
    OBVIOUS
  <1>. HIDE DEF hit
  <1>8. \A x \in matches :
          /\ x \in Hit /\ x.id <= lastId /\ x.key \in K /\ x = hit[x.key]
          /\ \A k \in Key : entries[k].id = x.id => k = x.key
    BY <1>4, <1>5, <1>7
  <1>9. \A x, y \in matches : x.id = y.id => x = y
    <2>. TAKE x, y \in matches
    <2>1. x.key \in K /\ y.key \in K /\ entries[y.key].id = y.id /\ y.key \in Key
      BY <1>5, <1>8 DEF K
    <2>. QED BY <1>8, <2>1
  <1>. HIDE DEF matches
  <1>10. IsTotalOrder(order, matches)
    <2>1. \A x \in matches : x.id \in Nat /\ x.score \in Nat
      BY <1>8 DEF Hit
    <2>2. \A x, y \in matches :
            <<x, y>> \in order <=> x.score > y.score \/ (x.score = y.score /\ x.id < y.id)
      OBVIOUS
    <2>. HIDE DEF order
    <2>. QED BY <1>9, <2>1, <2>2 DEF IsTotalOrder
  <1>. HIDE DEF order
  <1>11. found' \in Seq(matches)
    <2>1. Limit * PoolFactor \in Nat
      BY LimitAssumption
    <2>2. Sorted(matches, order) \in Seq(matches)
      BY <1>6, <1>10, SortedHasAll
    <2>. QED BY <1>2, <2>1, <2>2, ForemostIsPart
  <1>12. found' \in Seq(Hit) /\ \A i \in DOMAIN found' : found'[i] \in matches
    BY <1>8, <1>11, SeqMonotonic
  <1>. QED BY <1>3, <1>8, <1>9, <1>12 DEF HitsOK

\* Each step keeps HitsOK.
LEMMA HitsStay == EntriesOK /\ HitsOK /\ [ReadNext]_readVars => HitsOK'
PROOF
  <1>. SUFFICES ASSUME EntriesOK, HitsOK, [ReadNext]_readVars  PROVE HitsOK'
    OBVIOUS
  <1>1. CASE Upsert
    <2>. SUFFICES ASSUME Ranking'  PROVE HitsOK'
      BY DEF HitsOK
    <2>0. Ranking /\ found' = found
      BY <1>1 DEF Upsert, Ranking
    <2>1. PICK k \in Key, t \in EntryText, id \in Nat \ {0} :
            /\ entries' = [entries EXCEPT ![k] = [id |-> id, text |-> t]]
            /\ entries[k] # NoEntry => id = entries[k].id
            /\ entries[k] = NoEntry => id = lastId + 1
            /\ lastId' \in Nat /\ lastId' >= lastId /\ lastId' >= id
      BY <1>1, UpsertGivesIds
    <2>2. entries'[k].id = id /\ \A l \in Key : l # k => entries'[l] = entries[l]
      BY <2>1 DEF EntriesOK
    <2>3. found \in Seq(Hit) /\ lastId \in Nat
      BY <2>0 DEF HitsOK, EntriesOK
    <2>4. ASSUME NEW i \in DOMAIN found
          PROVE  found[i].id \in Nat /\ found[i].id <= lastId /\ found[i].id <= lastId'
      <3>1. found[i] \in Hit /\ found[i].id <= lastId
        BY <2>0, <2>3 DEF HitsOK
      <3>2. found[i].id \in Nat
        BY <3>1 DEF Hit
      <3>. QED BY <2>1, <2>3, <3>1, <3>2
    <2>5. \A i \in DOMAIN found : \A l \in Key : entries'[l].id = found[i].id => l = found[i].key
      BY <2>0, <2>1, <2>2, <2>3, <2>4 DEF HitsOK
    <2>. QED BY <2>0, <2>3, <2>4, <2>5 DEF HitsOK
  <1>2. CASE Prune
    <2>. SUFFICES ASSUME Ranking'  PROVE HitsOK'
      BY DEF HitsOK
    <2>0. Ranking /\ found' = found /\ lastId' = lastId
      BY <1>2 DEF Prune, Ranking
    <2>1. PICK k \in Key : entries' = [entries EXCEPT ![k] = NoEntry]
      BY <1>2 DEF Prune
    <2>2. entries'[k].id = 0 /\ \A l \in Key : l # k => entries'[l] = entries[l]
      BY <2>1 DEF EntriesOK, NoEntry
    <2>3. found \in Seq(Hit)
      BY <2>0 DEF HitsOK
    <2>4. \A i \in DOMAIN found : found[i] \in Hit /\ found[i].id # 0
      <3>1. \A i \in DOMAIN found : found[i] \in Hit
        BY <2>3
      <3>. QED BY <3>1 DEF Hit
    <2>5. \A i \in DOMAIN found : \A l \in Key : entries'[l].id = found[i].id => l = found[i].key
      BY <2>0, <2>2, <2>4 DEF HitsOK
    <2>. QED BY <2>0, <2>5 DEF HitsOK
  <1>3. CASE RankEntries
    BY <1>3, RankingStarts
  <1>4. CASE LoadEntries
    BY <1>4 DEF LoadEntries, HitsOK, Ranking
  <1>5. CASE ListPage \/ RankMessages \/ LoadMessages \/ ExpandContext \/ ShowEmail
    BY <1>5 DEF ListPage, RankMessages, LoadMessages, ExpandContext, ShowEmail, HitsOK, Ranking
  <1>6. CASE Arrive
    BY <1>6 DEF Arrive, HitsOK, Ranking
  <1>7. CASE UNCHANGED readVars
    BY <1>7 DEF readVars, searchVars, HitsOK, Ranking
  <1>. QED BY <1>1, <1>2, <1>3, <1>4, <1>5, <1>6, <1>7 DEF ReadNext

\* The entry of a hit, with the score of the ranking.
Ranked == {e \in {found[i] : i \in DOMAIN found} : entries[e.key].id = e.id}
ResultOf(e) ==
  [id |-> e.id, key |-> e.key, score |-> e.score, boost |-> entries[e.key].text.boost]

\* What is loaded is one result for every hit whose entry is still there.
LEMMA LoadedAreRanked ==
  ASSUME EntriesOK, HitsOK, Ranking
  PROVE  /\ Loaded = {ResultOf(e) : e \in Ranked}
         /\ Ranked \in SUBSET Hit /\ IsFiniteSet(Ranked)
         /\ \A d, e \in Ranked : d.id = e.id => d = e
PROOF
  <1>. DEFINE hits == {found[i] : i \in DOMAIN found}
  <1>1. found \in Seq(Hit) /\ DOMAIN found = 1..Len(found) /\ Len(found) \in Nat
    BY DEF HitsOK
  <1>2. \A i \in DOMAIN found : found[i] \in Hit
    BY <1>1
  <1>3. \A e \in hits : /\ e \in Hit
                        /\ \A k \in Key : entries[k].id = e.id => k = e.key
    BY <1>2 DEF HitsOK
  <1>4. \A d, e \in hits : d.id = e.id => d = e
    BY DEF HitsOK
  <1>5. IsFiniteSet(hits)
    <2>1. IsFiniteSet(DOMAIN found)
      BY <1>1, FS_Interval
    <2>2. found \in Surjection(DOMAIN found, hits)
      BY <1>1 DEF Surjection
    <2>. HIDE DEF hits
    <2>. QED BY <2>1, <2>2, FS_Surjection
  <1>6. Loaded = UNION {{[id |-> e.id, key |-> k, score |-> e.score, boost |-> entries[k].text.boost]
                           : k \in EntryOf(e.id)} : e \in hits}
    BY DEF Loaded
  <1>7. ASSUME NEW e \in hits
        PROVE  EntryOf(e.id) = IF entries[e.key].id = e.id THEN {e.key} ELSE {}
    <2>1. e.id # 0 /\ e.key \in Key
      BY <1>3 DEF Hit
    <2>. QED BY <1>3, <2>1 DEF EntryOf
  <1>8. Ranked = {e \in hits : entries[e.key].id = e.id}
    BY DEF Ranked
  <1>. HIDE DEF hits
  <1>9. Loaded = {ResultOf(e) : e \in Ranked}
    <2>1. ASSUME NEW r \in Loaded  PROVE r \in {ResultOf(e) : e \in Ranked}
      <3>1. PICK e \in hits :
              r \in {[id |-> e.id, key |-> k, score |-> e.score, boost |-> entries[k].text.boost]
                       : k \in EntryOf(e.id)}
        BY <1>6, <2>1
      <3>2. EntryOf(e.id) = {e.key} /\ entries[e.key].id = e.id
        BY <1>7, <3>1
      <3>3. r = ResultOf(e)
        BY <3>1, <3>2 DEF ResultOf
      <3>. QED BY <1>8, <3>2, <3>3
    <2>2. ASSUME NEW e \in Ranked  PROVE ResultOf(e) \in Loaded
      <3>1. e \in hits /\ EntryOf(e.id) = {e.key}
        BY <1>7, <1>8
      <3>2. ResultOf(e) \in {[id |-> e.id, key |-> k, score |-> e.score,
                               boost |-> entries[k].text.boost] : k \in EntryOf(e.id)}
        BY <3>1 DEF ResultOf
      <3>. QED BY <1>6, <3>1, <3>2
    <2>. QED BY <2>1, <2>2
  <1>10. Ranked \in SUBSET hits
    BY <1>8
  <1>11. IsFiniteSet(Ranked)
    BY <1>5, <1>10, FS_Subset
  <1>. QED BY <1>3, <1>4, <1>9, <1>10, <1>11

\* The best of what is loaded are the best of the hits that are still there.
LEMMA BestOfRanked ==
  ASSUME EntriesOK, HitsOK, Ranking, LoadEntries
  PROVE  LET Score(e) == e.score * entries[e.key].text.boost
             shownIds == {shown'[i].id : i \in DOMAIN shown'}
         IN  /\ \A i \in DOMAIN shown' :
                  \E e \in Ranked : e.id = shown'[i].id /\ e.key = shown'[i].key
             /\ Len(shown') = Min({Limit, Cardinality(Ranked)})
             /\ \A e \in Ranked : e.id \notin shownIds =>
                  \A d \in Ranked : d.id \in shownIds => Score(d) >= Score(e)
PROOF
  <1>. DEFINE Score(e) == e.score * entries[e.key].text.boost
              results == {ResultOf(e) : e \in Ranked}
              order == {p \in results \X results :
                          \/ Final(p[1]) > Final(p[2])
                          \/ Final(p[1]) = Final(p[2]) /\ p[1].id < p[2].id}
  <1>1. /\ Loaded = results /\ Ranked \in SUBSET Hit /\ IsFiniteSet(Ranked)
        /\ \A d, e \in Ranked : d.id = e.id => d = e
    BY LoadedAreRanked
  <1>2. shown' = Foremost(Limit, Sorted(results, order))
    BY <1>1 DEF LoadEntries, Best
  <1>3. \A a, b \in Nat : a * b \in Nat
    OBVIOUS
  <1>4. ASSUME NEW e \in Ranked
        PROVE  /\ Final(ResultOf(e)) = Score(e) /\ Score(e) \in Nat
               /\ ResultOf(e).id = e.id /\ e.id \in Nat /\ ResultOf(e).key = e.key
    <2>1. e.key \in Key /\ e.score \in Nat /\ e.id \in Nat
      BY <1>1 DEF Hit
    <2>2. entries[e.key].text.boost \in Nat
      BY <2>1, TextsAreScored
    <2>. QED BY <1>3, <2>1, <2>2 DEF Final, ResultOf
  <1>. HIDE DEF Score
  <1>5. /\ IsFiniteSet(results) /\ Cardinality(results) = Cardinality(Ranked)
    <2>. DEFINE res == [e \in Ranked |-> ResultOf(e)]
    <2>1. res \in [Ranked -> results] /\ \A r \in results : \E e \in Ranked : res[e] = r
      OBVIOUS
    <2>2. \A d, e \in Ranked : res[d] = res[e] => d = e
      BY <1>1, <1>4
    <2>. HIDE DEF res, results
    <2>3. res \in Surjection(Ranked, results) /\ res \in Injection(Ranked, results)
      BY <2>1, <2>2 DEF Surjection, Injection, IsInjective
    <2>. QED BY <1>1, <2>3, FS_Surjection
  <1>6. \A r \in results : \E e \in Ranked : r = ResultOf(e)
    OBVIOUS
  <1>7. \A e \in Ranked : ResultOf(e) \in results
    OBVIOUS
  <1>. HIDE DEF results
  <1>8. \A r \in results : Final(r) \in Nat /\ r.id \in Nat
    BY <1>4, <1>6
  <1>9. \A r, s \in results : r.id = s.id => r = s
    BY <1>1, <1>4, <1>6
  <1>10. \A r, s \in results :
           <<r, s>> \in order <=> Final(r) > Final(s) \/ (Final(r) = Final(s) /\ r.id < s.id)
    OBVIOUS
  <1>. HIDE DEF order
  <1>11. IsTotalOrder(order, results)
    BY <1>8, <1>9, <1>10 DEF IsTotalOrder
  <1>12. /\ shown' \in Seq(results) /\ Len(shown') = Min({Limit, Cardinality(results)})
         /\ \A x \in results : (\A i \in DOMAIN shown' : shown'[i] # x)
              => \A i \in DOMAIN shown' : <<shown'[i], x>> \in order
    <2>1. Limit \in Nat
      BY LimitAssumption
    <2>. QED BY <1>2, <1>5, <1>11, <2>1, ForemostAreFirst
  <1>13. \A i \in DOMAIN shown' : shown'[i] \in results
    BY <1>12
  <1>14. \A i \in DOMAIN shown' :
           \E e \in Ranked : e.id = shown'[i].id /\ e.key = shown'[i].key
    BY <1>4, <1>6, <1>13
  <1>15. ASSUME NEW e \in Ranked, e.id \notin {shown'[i].id : i \in DOMAIN shown'},
                NEW d \in Ranked, d.id \in {shown'[i].id : i \in DOMAIN shown'}
         PROVE  Score(d) >= Score(e)
    <2>1. PICK i \in DOMAIN shown' : shown'[i].id = d.id
      BY <1>15
    <2>2. shown'[i] = ResultOf(d)
      BY <1>4, <1>7, <1>9, <1>13, <2>1
    <2>3. \A j \in DOMAIN shown' : shown'[j] # ResultOf(e)
      BY <1>4, <1>15
    <2>4. <<ResultOf(d), ResultOf(e)>> \in order
      BY <1>7, <1>12, <2>2, <2>3
    <2>5. Final(ResultOf(d)) >= Final(ResultOf(e))
      BY <1>7, <1>8, <1>10, <2>4
    <2>. QED BY <1>4, <2>5
  <1>. QED BY <1>5, <1>12, <1>14, <1>15 DEF Score

\* A search shows the best of what it ranked, whatever was written in between, for any
\* entries, texts and bounds.
THEOREM BestIsShown == ReadSpec => SearchShowsTheBest
PROOF
  <1>. DEFINE Loads == reading = "hits" /\ request.tool = "search" /\ reading' = "done"
              ShowsTheBest ==
                LET ranked == {e \in {found[i] : i \in DOMAIN found} : entries[e.key].id = e.id}
                    Score(e) == e.score * entries[e.key].text.boost
                    shownIds == {shown'[i].id : i \in DOMAIN shown'}
                IN  /\ \A i \in DOMAIN shown' :
                         \E e \in ranked : e.id = shown'[i].id /\ e.key = shown'[i].key
                    /\ Len(shown') = Min({Limit, Cardinality(ranked)})
                    /\ \A e \in ranked : e.id \notin shownIds =>
                         \A d \in ranked : d.id \in shownIds => Score(d) >= Score(e)
  <1>1. ReadInit => EntriesOK /\ HitsOK
    <2>. SUFFICES ASSUME ReadInit  PROVE EntriesOK /\ HitsOK
      OBVIOUS
    <2>1. NoEntry.id = 0 /\ NoEntry \in [id : Nat, text : EntryText \cup {NoEntry.text}]
      BY DEF NoEntry
    <2>2. EntriesOK
      BY <2>1 DEF ReadInit, EntriesOK
    <2>3. HitsOK
      BY DEF ReadInit, HitsOK, Ranking
    <2>. QED BY <2>2, <2>3
  <1>2. ASSUME EntriesOK, HitsOK, [ReadNext]_readVars, Loads  PROVE ShowsTheBest
    <2>1. LoadEntries /\ Ranking
      BY <1>2 DEF ReadNext, readVars, ListPage, RankMessages, LoadMessages, ExpandContext, Arrive, Upsert,
                  Prune, RankEntries, ShowEmail, Ranking
    <2>. QED BY <1>2, <2>1, BestOfRanked DEF Ranked
  <1>3. EntriesOK /\ HitsOK /\ [ReadNext]_readVars => [Loads => ShowsTheBest]_readVars
    BY <1>2
  <1>. QED BY <1>1, <1>3, EntriesStay, HitsStay, PTL DEF ReadSpec, SearchShowsTheBest

-----------------------------------------------------------------------------
(* The visible body.                                                         *)

\* What is cut from the end of the first n lines only has the given looks, and what is
\* left ends with a line that has not.
LEMMA TrimmedLooks ==
  ASSUME NEW b \in Seq(Lines), NEW n \in 0..Len(b), NEW looks
  PROVE  /\ TrimTrailing(b, n, looks) \in 0..n
         /\ \A i \in (TrimTrailing(b, n, looks) + 1)..n : b[i].looks \in looks
         /\ TrimTrailing(b, n, looks) # 0 => b[TrimTrailing(b, n, looks)].looks \notin looks
PROOF
  <1>. DEFINE S == {0} \cup {i \in 1..n : b[i].looks \notin looks}
  <1>1. S \in SUBSET (0..n) /\ S # {}
    OBVIOUS
  <1>2. Max(S) \in S /\ \A i \in S : i <= Max(S)
    <2>1. n \in Nat
      OBVIOUS
    <2>. HIDE DEF S
    <2>. QED BY <1>1, <2>1, MaxIsGreatest
  <1>3. TrimTrailing(b, n, looks) = Max(S)
    BY DEF TrimTrailing
  <1>. HIDE DEF TrimTrailing
  <1>4. ASSUME NEW i \in (Max(S) + 1)..n  PROVE b[i].looks \in looks
    <2>1. i \in 1..n /\ i \notin S
      BY <1>1, <1>2
    <2>. QED BY <2>1
  <1>5. Max(S) # 0 => b[Max(S)].looks \notin looks
    BY <1>2
  <1>. QED BY <1>1, <1>2, <1>3, <1>4, <1>5

\* The history starts with a line that has something authored above it.
LEMMA CutAtHistory ==
  ASSUME NEW b \in Seq(Lines)
  PROVE  /\ CutHistory(b) \in 0..Len(b)
         /\ CutHistory(b) # Len(b) => StartsHistory(b, CutHistory(b) + 1)
PROOF
  <1>. DEFINE starts == {i \in DOMAIN b : StartsHistory(b, i)}
  <1>1. CASE starts = {}
    BY <1>1 DEF CutHistory
  <1>2. CASE starts # {}
    <2>1. starts \in SUBSET Nat
      OBVIOUS
    <2>2. Min(starts) \in starts
      BY <1>2, <2>1, MinIsLeast
    <2>3. CutHistory(b) = Min(starts) - 1
      BY <1>2 DEF CutHistory
    <2>. QED BY <2>2, <2>3
  <1>. QED BY <1>1, <1>2

\* A mobile signature that is cut off takes only blank lines with it.
LEMMA TrimmedSignature ==
  ASSUME NEW b \in Seq(Lines), NEW n \in 0..Len(b)
  PROVE  /\ TrimTrailingMobileSignature(b, n) \in 0..n
         /\ \A i \in (TrimTrailingMobileSignature(b, n) + 1)..n :
              b[i].looks \in {"blank", "signature"}
PROOF
  <1>1. CASE n >= 2 /\ b[n].looks = "signature" /\ b[n - 1].looks = "blank"
    <2>. DEFINE m == TrimTrailing(b, n - 2, {"blank"})
    <2>1. m \in 0..(n - 2) /\ \A i \in (m + 1)..(n - 2) : b[i].looks \in {"blank"}
      BY <1>1, TrimmedLooks
    <2>2. TrimTrailingMobileSignature(b, n) = m
      BY <1>1 DEF TrimTrailingMobileSignature
    <2>. HIDE DEF m
    <2>3. ASSUME NEW i \in (m + 1)..n  PROVE b[i].looks \in {"blank", "signature"}
      <3>1. i \in (m + 1)..(n - 2) \/ i = n - 1 \/ i = n
        BY <2>1
      <3>. QED BY <1>1, <2>1, <3>1
    <2>. QED BY <2>1, <2>2, <2>3
  <1>2. CASE ~(n >= 2 /\ b[n].looks = "signature" /\ b[n - 1].looks = "blank")
    BY <1>2 DEF TrimTrailingMobileSignature
  <1>. QED BY <1>1, <1>2

\* Above the history only lines that are blank, quoted or a signature are taken away.
LEMMA StrippedLooks ==
  ASSUME NEW b \in Seq(Lines)
  PROVE  /\ StripQuotedReplyBlocks(b) \in 0..CutHistory(b)
         /\ \A i \in (StripQuotedReplyBlocks(b) + 1)..CutHistory(b) :
              b[i].looks \in {"blank", "quoted", "signature"}
PROOF
  <1>. DEFINE c == CutHistory(b)
              t == TrimTrailing(b, c, {"blank", "quoted"})
              n == TrimTrailingMobileSignature(b, t)
  <1>1. c \in 0..Len(b)
    BY CutAtHistory
  <1>. HIDE DEF c
  <1>2. t \in 0..c /\ \A i \in (t + 1)..c : b[i].looks \in {"blank", "quoted"}
    BY <1>1, TrimmedLooks
  <1>. HIDE DEF t
  <1>3. n \in 0..t /\ \A i \in (n + 1)..t : b[i].looks \in {"blank", "signature"}
    BY <1>1, <1>2, TrimmedSignature
  <1>. HIDE DEF n
  <1>4. StripQuotedReplyBlocks(b) = n
    BY DEF StripQuotedReplyBlocks, n, t, c
  <1>5. ASSUME NEW i \in (n + 1)..c  PROVE b[i].looks \in {"blank", "quoted", "signature"}
    <2>1. i \in (n + 1)..t \/ i \in (t + 1)..c
      BY <1>1, <1>2, <1>3
    <2>. QED BY <1>2, <1>3, <2>1
  <1>. QED BY <1>1, <1>2, <1>3, <1>4, <1>5 DEF c

\* A line of text that is not visible stands below a line that starts the history.
LEMMA OnlyHistoryIsCut ==
  ASSUME NEW b \in Body
  PROVE  /\ Visible(b) \in 1..Len(b)
         /\ \A i \in (Visible(b) + 1)..Len(b) : b[i].looks = "text" =>
              \E j \in 2..(i - 1) :
                /\ \/ b[j].looks = "boundary"
                   \/ b[j].looks = "header" /\ \E k \in (j + 1)..(i - 1) : b[k].looks = "header"
                /\ \E k \in 1..(j - 1) : b[k].looks \in {"text", "header", "boundary", "signature"}
PROOF
  <1>. DEFINE n == StripQuotedReplyBlocks(b)
              c == CutHistory(b)
  <1>1. b \in Seq(Lines) /\ Len(b) \in Nat /\ Len(b) >= 1
    BY BodyAssumption
  <1>2. c \in 0..Len(b) /\ (c # Len(b) => StartsHistory(b, c + 1))
    BY <1>1, CutAtHistory
  <1>3. n \in 0..c /\ \A i \in (n + 1)..c : b[i].looks \in {"blank", "quoted", "signature"}
    BY <1>1, StrippedLooks
  <1>4. Visible(b) = IF ShouldFallbackToRaw(b, n) THEN Len(b) ELSE n
    BY DEF Visible
  <1>. HIDE DEF n, c
  <1>5. CASE ShouldFallbackToRaw(b, n)
    BY <1>1, <1>4, <1>5
  <1>6. CASE ~ShouldFallbackToRaw(b, n)
    <2>1. n # 0
      BY <1>6 DEF ShouldFallbackToRaw, SizeOf
    <2>2. Visible(b) = n /\ n \in 1..Len(b)
      BY <1>1, <1>2, <1>3, <1>4, <1>6, <2>1
    <2>3. ASSUME NEW i \in (n + 1)..Len(b), b[i].looks = "text"
          PROVE  \E j \in 2..(i - 1) :
                   /\ \/ b[j].looks = "boundary"
                      \/ /\ b[j].looks = "header"
                         /\ \E k \in (j + 1)..(i - 1) : b[k].looks = "header"
                   /\ \E k \in 1..(j - 1) :
                        b[k].looks \in {"text", "header", "boundary", "signature"}
      <3>1. i > c
        BY <1>2, <1>3, <2>3
      <3>2. StartsHistory(b, c + 1)
        BY <1>1, <1>2, <3>1
      <3>3. PICK k \in 1..c : b[k].looks \notin {"blank", "quoted"}
        BY <1>2, <3>2 DEF StartsHistory, HasAuthoredContent
      <3>4. b[k].looks \in {"text", "header", "boundary", "signature"}
        <4>1. b[k] \in Lines
          BY <1>1, <1>2, <3>3
        <4>. QED BY <3>3, <4>1 DEF Lines, Looks
      <3>5. \/ b[c + 1].looks = "boundary"
            \/ /\ c + 2 <= Len(b)
               /\ b[c + 1].looks = "header" /\ b[c + 2].looks = "header"
        BY <1>1, <1>2, <3>2 DEF StartsHistory, IsQuotedHeaderBlock
      <3>6. i # c + 1 /\ (b[c + 1].looks = "header" /\ b[c + 2].looks = "header" => i # c + 2)
        BY <2>3, <3>5
      <3>7. c + 1 \in 2..(i - 1) /\ k \in 1..((c + 1) - 1)
        BY <1>1, <1>2, <3>1, <3>3, <3>6
      <3>8. \/ b[c + 1].looks = "boundary"
            \/ /\ b[c + 1].looks = "header"
               /\ \E l \in ((c + 1) + 1)..(i - 1) : b[l].looks = "header"
        <4>1. CASE b[c + 1].looks = "boundary"
          BY <4>1
        <4>2. CASE /\ c + 2 <= Len(b)
                   /\ b[c + 1].looks = "header" /\ b[c + 2].looks = "header"
          <5>1. c + 2 \in ((c + 1) + 1)..(i - 1)
            BY <1>1, <1>2, <3>1, <3>6, <4>2
          <5>. QED BY <4>2, <5>1
        <4>. QED BY <3>5, <4>1, <4>2
      <3>. QED BY <3>4, <3>7, <3>8
    <2>. QED BY <2>2, <2>3
  <1>. QED BY <1>5, <1>6

-----------------------------------------------------------------------------
(* Emails.                                                                   *)

\* An email is shown by one step, which shows its visible body.
EmailOK ==
  /\ request \in Request
  /\ request.tool = "get_thread" =>
       /\ reading \in {"rows", "done"}
       /\ reading = "done" => shown = SubSeq(request.body, 1, Visible(request.body))

\* Nothing else happens while an email is shown.
LEMMA EmailStays == EmailOK /\ [ReadNext]_readVars => EmailOK'
PROOF
  <1>. SUFFICES ASSUME EmailOK, [ReadNext]_readVars  PROVE EmailOK'
    OBVIOUS
  <1>1. request' = request
    BY DEF ReadNext, readVars, messageVars, searchVars, ListPage, RankMessages, LoadMessages,
           ExpandContext, Arrive, Upsert, Prune, RankEntries, LoadEntries, ShowEmail
  <1>2. CASE request.tool # "get_thread"
    BY <1>1, <1>2 DEF EmailOK
  <1>3. CASE request.tool = "get_thread"
    <2>1. CASE ShowEmail
      BY <1>1, <2>1 DEF EmailOK, ShowEmail
    <2>2. CASE UNCHANGED readVars
      BY <2>2 DEF EmailOK, readVars
    <2>3. ~(ListPage \/ RankMessages \/ LoadMessages \/ ExpandContext \/ Arrive
              \/ Upsert \/ Prune \/ RankEntries \/ LoadEntries)
      BY <1>3 DEF EmailOK, ListPage, RankMessages, LoadMessages, ExpandContext, Arrive,
                  Upsert, Prune, RankEntries, LoadEntries
    <2>. QED BY <2>1, <2>2, <2>3 DEF ReadNext
  <1>. QED BY <1>2, <1>3

\* No email loses text that its author may have written, whatever bodies there are.
THEOREM AuthoredTextStays == ReadSpec => []AuthoredTextIsKept
PROOF
  <1>1. ReadInit => EmailOK
    BY DEF ReadInit, EmailOK
  <1>2. EmailOK => AuthoredTextIsKept
    <2>. SUFFICES ASSUME EmailOK, request.tool = "get_thread", reading = "done"
         PROVE  AuthoredTextIsKept
      BY DEF AuthoredTextIsKept
    <2>. DEFINE b == request.body
    <2>1. b \in Body
      BY DEF EmailOK, Request
    <2>2. shown = SubSeq(b, 1, Visible(b)) /\ Visible(b) \in 1..Len(b)
      BY <2>1, OnlyHistoryIsCut DEF EmailOK
    <2>3. b \in Seq(Lines)
      BY <2>1, BodyAssumption
    <2>4. Len(shown) = Visible(b)
      BY <2>2, <2>3
    <2>5. shown # <<>>
      BY <2>2, <2>3, <2>4
    <2>. HIDE DEF b
    <2>. QED BY <2>1, <2>4, <2>5, OnlyHistoryIsCut DEF AuthoredTextIsKept, b
  <1>. QED BY <1>1, <1>2, EmailStays, PTL DEF ReadSpec

-----------------------------------------------------------------------------
(* The size of a chunk.                                                      *)

\* A chunk whose pieces have lengths.
HasEnds(chunk) ==
  Len(chunk) \in Nat /\ \A i \in 1..Len(chunk) : Length(chunk[i]) \in Int

\* The size of a chunk is what its partial sums end with.
LEMMA SizeIsASum ==
  ASSUME NEW h \in Int, NEW chunk, HasEnds(chunk)
  PROVE  \E sum \in [0..Len(chunk) -> Int] :
           /\ sum[0] = h - 2
           /\ \A i \in 1..Len(chunk) : sum[i] = sum[i - 1] + Length(chunk[i]) + 2
           /\ Size(h, chunk) = sum[Len(chunk)]
PROOF
  <1>. DEFINE n == Len(chunk)
              step == [i \in 1..n |-> [v \in Int |-> v + Length(chunk[i]) + 2]]
              sum[i \in 0..n] == IF i = 0 THEN h - 2 ELSE sum[i - 1] + Length(chunk[i]) + 2
  <1>1. n \in Nat /\ step \in [1..n -> [Int -> Int]] /\ h - 2 \in Int
    BY DEF HasEnds
  <1>2. PICK g \in [0..n -> Int] :
          g[0] = h - 2 /\ \A i \in 1..n : g[i] = step[i][g[i - 1]]
    <2>1. step \in Steps(n, Int)
      BY <1>1 DEF Steps
    <2>. HIDE DEF step, n, sum
    <2>2. \E g : Follows(g, n, Int, h - 2, step)
      BY <1>1, <2>1, RecursionUpTo
    <2>. QED BY <2>2 DEF Follows
  <1>3. \A i \in 1..n : g[i] = g[i - 1] + Length(chunk[i]) + 2
    <2>. TAKE i \in 1..n
    <2>1. g[i - 1] \in Int
      <3>. HIDE DEF n, step
      <3>. QED BY <1>1, <1>2
    <2>. QED BY <1>2, <2>1
  <1>4. g = [i \in 0..n |-> IF i = 0 THEN h - 2 ELSE g[i - 1] + Length(chunk[i]) + 2]
    <2>1. \A i \in 0..n : g[i] = IF i = 0 THEN h - 2 ELSE g[i - 1] + Length(chunk[i]) + 2
      <3>. HIDE DEF step, n
      <3>. QED BY <1>1, <1>2, <1>3
    <2>. HIDE DEF n
    <2>. QED BY <1>2, <2>1
  <1>5. Size(h, chunk) = sum[n]
    BY DEF Size
  <1>6. sum = CHOOSE f : f = [i \in 0..n |-> IF i = 0 THEN h - 2
                                             ELSE f[i - 1] + Length(chunk[i]) + 2]
    BY DEF sum
  <1>7. sum = [i \in 0..n |-> IF i = 0 THEN h - 2 ELSE sum[i - 1] + Length(chunk[i]) + 2]
    <2>. HIDE DEF sum, n
    <2>. QED BY <1>4, <1>6
  <1>. HIDE DEF sum
  <1>8. \A i \in 0..n : sum[i] = IF i = 0 THEN h - 2 ELSE sum[i - 1] + Length(chunk[i]) + 2
    <2>. HIDE DEF n
    <2>. QED BY <1>7
  <1>. DEFINE T == {i \in 0..n : sum[i] = g[i]}
  <1>9. 0..n \subseteq T
    <2>. HIDE DEF n
    <2>1. 0 \in T
      BY <1>1, <1>2, <1>8
    <2>2. \A i \in 1..n : i - 1 \in T => i \in T
      BY <1>1, <1>3, <1>8
    <2>. HIDE DEF T
    <2>. QED BY <1>1, <2>1, <2>2, UpToInduction
  <1>10. sum[n] = g[n]
    BY <1>1, <1>9
  <1>. QED BY <1>2, <1>3, <1>5, <1>10

\* The pieces that chunks are made of, and chunks.
Part == [slot : Slot, text : Text, from : Nat, to : Nat]
Chunk == Seq(Part)

\* Parts have lengths.
LEMMA ChunkHasEnds == ASSUME NEW chunk \in Chunk  PROVE HasEnds(chunk)
PROOF
  <1>1. Len(chunk) \in Nat /\ \A i \in 1..Len(chunk) : chunk[i] \in Part
    BY DEF Chunk
  <1>2. \A p \in Part : Length(p) \in Int
    BY DEF Part, Length
  <1>. QED BY <1>1, <1>2 DEF HasEnds

\* With nothing in it, a chunk is two short of its header.
LEMMA SizeOfNone == ASSUME NEW h \in Int  PROVE Size(h, <<>>) = h - 2
PROOF
  <1>1. HasEnds(<<>>) /\ Len(<<>>) = 0
    BY DEF HasEnds
  <1>. QED BY <1>1, SizeIsASum

\* A piece adds its length and two line ends.
LEMMA SizeOfMore ==
  ASSUME NEW h \in Int, NEW chunk \in Chunk, NEW piece \in Part
  PROVE  /\ Size(h, chunk) \in Int
         /\ Size(h, Append(chunk, piece)) = Size(h, chunk) + Length(piece) + 2
PROOF
  <1>. DEFINE more == Append(chunk, piece)
              n == Len(chunk)
  <1>1. /\ n \in Nat /\ more \in Chunk /\ Len(more) = n + 1 /\ more[n + 1] = piece
        /\ \A i \in 1..n : more[i] = chunk[i]
    BY DEF Chunk
  <1>. HIDE DEF more
  <1>2. PICK f \in [0..n -> Int] :
          /\ f[0] = h - 2
          /\ \A i \in 1..n : f[i] = f[i - 1] + Length(chunk[i]) + 2
          /\ Size(h, chunk) = f[n]
    BY ChunkHasEnds, SizeIsASum
  <1>. HIDE DEF n
  <1>3. PICK g \in [0..(n + 1) -> Int] :
          /\ g[0] = h - 2
          /\ \A i \in 1..(n + 1) : g[i] = g[i - 1] + Length(more[i]) + 2
          /\ Size(h, more) = g[n + 1]
    <2>1. HasEnds(more)
      BY <1>1, ChunkHasEnds
    <2>2. \E g \in [0..Len(more) -> Int] :
          /\ g[0] = h - 2
          /\ \A i \in 1..Len(more) : g[i] = g[i - 1] + Length(more[i]) + 2
          /\ Size(h, more) = g[Len(more)]
      BY <2>1, SizeIsASum
    <2>. QED BY <1>1, <2>2
  <1>. DEFINE T == {i \in 0..n : g[i] = f[i]}
  <1>4. 0 \in T
    BY <1>1, <1>2, <1>3
  <1>5. ASSUME NEW i \in 1..n, i - 1 \in T  PROVE i \in T
    <2>1. g[i] = g[i - 1] + Length(more[i]) + 2 /\ f[i] = f[i - 1] + Length(chunk[i]) + 2
      BY <1>1, <1>2, <1>3
    <2>2. more[i] = chunk[i] /\ g[i - 1] = f[i - 1]
      BY <1>1, <1>5
    <2>. QED BY <2>1, <2>2
  <1>. HIDE DEF T
  <1>6. 0..n \subseteq T
    BY <1>1, <1>4, <1>5, UpToInduction
  <1>7. n \in T
    BY <1>1, <1>6
  <1>8. g[n] = f[n]
    BY <1>7 DEF T
  <1>9. g[n + 1] = g[n] + Length(piece) + 2
    <2>1. n + 1 \in 1..(n + 1) /\ (n + 1) - 1 = n
      BY <1>1
    <2>. QED BY <1>1, <1>3, <2>1
  <1>10. f[n] \in Int
    BY <1>1, <1>2
  <1>. QED BY <1>2, <1>3, <1>8, <1>9, <1>10 DEF more

\* A chunk of one piece has the header and the piece.
LEMMA SizeOfOne ==
  ASSUME NEW h \in Int, NEW piece \in Part
  PROVE  Size(h, <<piece>>) = h + Length(piece)
PROOF
  <1>1. <<>> \in Chunk /\ Append(<<>>, piece) = <<piece>>
    BY DEF Chunk
  <1>2. Size(h, <<piece>>) = Size(h, <<>>) + Length(piece) + 2
    BY <1>1, SizeOfMore
  <1>3. Length(piece) \in Int
    BY DEF Length, Part
  <1>. QED BY <1>2, <1>3, SizeOfNone

-----------------------------------------------------------------------------
(* The pieces of a text.                                                     *)

\* The words of a text; it starts and ends with one.
Words(x) == (1..x.size) \ White(x)

\* White space is within the text.
LEMMA TextHasWords ==
  ASSUME NEW x \in Text
  PROVE  /\ x.size \in Nat /\ x.size >= 1 /\ White(x) \subseteq 2..(x.size - 1)
         /\ x.lines \subseteq White(x) /\ x.spaces \subseteq White(x)
BY TextAssumption DEF White

\* What is before the last of some positions, or is the other one.
LEMMA LastBeforeIs ==
  ASSUME NEW a \in Nat, NEW b \in Nat, NEW S \in SUBSET ((a + 1)..b), NEW other \in a..b
  PROVE  LastBefore(S, other) \in a..b
PROOF
  <1>1. CASE S = {}
    BY <1>1 DEF LastBefore
  <1>2. CASE S # {}
    <2>1. S \in SUBSET (0..b)
      OBVIOUS
    <2>2. Max(S) \in S
      BY <1>2, <2>1, MaxIsGreatest
    <2>3. Max(S) \in (a + 1)..b
      BY <2>2
    <2>4. LastBefore(S, other) = Max(S) - 1
      BY <1>2 DEF LastBefore
    <2>. HIDE DEF LastBefore
    <2>. QED BY <2>3, <2>4
  <1>. QED BY <1>1, <1>2

\* A text is cut behind where the piece starts and within the limit; a note before the
\* first white space from there on.
LEMMA CutIsWithin ==
  ASSUME NEW k, NEW x \in Text, NEW limit \in Nat \ {0}, NEW a \in 1..x.size,
         x.size - a + 1 > limit
  PROVE  /\ Cut(k, x, a, limit) \in a..x.size
         /\ k # "notebook" => Cut(k, x, a, limit) <= a + limit - 1
         /\ k = "notebook" => \A q \in White(x) : q >= a + limit => Cut(k, x, a, limit) < q
PROOF
  <1>. DEFINE b == a + limit - 1
  <1>1. b \in a..x.size /\ x.size \in Nat /\ a \in Nat /\ b \in Nat
    BY TextHasWords
  <1>2. CutThread(x, a, limit) \in a..b
    <2>1. {p \in x.lines : a < p /\ p < a + limit} \in SUBSET ((a + 1)..b)
      BY TextHasWords
    <2>. HIDE DEF b
    <2>. QED BY <1>1, <2>1, LastBeforeIs DEF CutThread, b
  <1>3. CutChat(x, a, limit) \in a..b
    <2>. DEFINE half == {p \in (a + 1)..(a + limit - 1) : p - a >= limit \div 2}
    <2>1. x.lines \cap half \in SUBSET ((a + 1)..b) /\ x.spaces \cap half \in SUBSET ((a + 1)..b)
      OBVIOUS
    <2>. HIDE DEF half
    <2>2. LastBefore(x.spaces \cap half, b) \in a..b
      <3>. HIDE DEF b
      <3>1. b \in a..b
        BY <1>1
      <3>. QED BY <1>1, <2>1, <3>1, LastBeforeIs
    <2>3. LastBefore(x.lines \cap half, LastBefore(x.spaces \cap half, b)) \in a..b
      <3>. HIDE DEF b
      <3>. QED BY <1>1, <2>1, <2>2, LastBeforeIs
    <2>. QED BY <2>3 DEF CutChat, half
  <1>4. CutDrive(x, a, limit) \in a..b
    BY <1>1 DEF CutDrive
  <1>5. /\ CutNote(x, a, limit) \in a..x.size
        /\ \A q \in White(x) : q >= a + limit => CutNote(x, a, limit) < q
    <2>. DEFINE far == {q \in White(x) : q >= a + limit}
                S == {p - 1 : p \in far} \cup {x.size}
    <2>1. S \in SUBSET (a..x.size) /\ S # {}
      BY <1>1, TextHasWords
    <2>2. S \in SUBSET Nat
      BY <1>1, <2>1
    <2>3. \A q \in White(x) : q >= a + limit => q - 1 \in S
      OBVIOUS
    <2>4. CutNote(x, a, limit) = Min(S)
      BY DEF CutNote
    <2>. HIDE DEF S
    <2>5. Min(S) \in S /\ \A p \in S : Min(S) <= p
      BY <2>1, <2>2, MinIsLeast
    <2>6. Min(S) \in a..x.size
      BY <2>1, <2>5
    <2>7. ASSUME NEW q \in White(x), q >= a + limit  PROVE Min(S) < q
      <3>1. Min(S) <= q - 1
        BY <2>3, <2>5, <2>7
      <3>2. q \in Int
        BY TextHasWords
      <3>. QED BY <1>1, <2>6, <3>1, <3>2
    <2>. QED BY <2>4, <2>6, <2>7
  <1>6. a..b \subseteq a..x.size /\ \A c \in a..b : c <= a + limit - 1
    BY <1>1
  <1>. HIDE DEF b
  <1>7. CASE k = "notebook"
    BY <1>5, <1>7 DEF Cut
  <1>8. CASE k # "notebook"
    <2>1. Cut(k, x, a, limit) \in a..b
      BY <1>2, <1>3, <1>4, <1>8 DEF Cut
    <2>. QED BY <1>6, <1>8, <2>1
  <1>. QED BY <1>7, <1>8

\* What is cut off so far: up to where, and the pieces.
CutState == [at : Nat, pieces : Seq([from : Nat, to : Nat])]

\* A piece that starts with a word, and ends within the limit or, in a note, with the
\* word that the limit is in.
PieceFits(k, x, limit, p) ==
  /\ 1 <= p.from /\ p.from <= p.to /\ p.to <= x.size
  /\ IF k = "notebook" THEN (p.from + limit)..p.to \cap White(x) = {}
                       ELSE p.to - p.from + 1 <= limit

\* The next piece is taken from where the next word starts, and holds all words up to
\* where the text is cut.
LEMMA CutOnceTakesWords ==
  ASSUME NEW k, NEW x \in Text, NEW limit \in Nat \ {0}, NEW s \in CutState,
         Left(k, x, s.at) # {}
  PROVE  LET t == CutOnce(k, x, limit, s)
             n == Len(s.pieces)
         IN  /\ t \in CutState /\ s.at < t.at /\ t.at <= x.size
             /\ Len(t.pieces) = n + 1 /\ \A i \in 1..n : t.pieces[i] = s.pieces[i]
             /\ PieceFits(k, x, limit, t.pieces[n + 1])
             /\ \A w \in Words(x) : s.at < w /\ w <= t.at =>
                  w \in t.pieces[n + 1].from..t.pieces[n + 1].to
PROOF
  <1>. DEFINE left == Left(k, x, s.at)
              a == Min(left)
              end == IF x.size - a + 1 <= limit THEN x.size ELSE Cut(k, x, a, limit)
              piece == IF k = "drive" THEN [from |-> a, to |-> end] ELSE Trimmed(x, a, end)
              t == CutOnce(k, x, limit, s)
              n == Len(s.pieces)
  <1>1. s.at \in Nat /\ s.pieces \in Seq([from : Nat, to : Nat]) /\ n \in Nat
    BY DEF CutState
  <1>2. left \in SUBSET ((s.at + 1)..x.size) /\ left \in SUBSET Nat
    BY <1>1, TextHasWords DEF Left
  <1>3. a \in left /\ \A p \in left : a <= p
    BY <1>2, MinIsLeast
  <1>4. a \in (s.at + 1)..x.size /\ a \in 1..x.size /\ a \in Nat /\ x.size \in Nat
    BY <1>1, <1>2, <1>3, TextHasWords
  <1>5. t = [at |-> end, pieces |-> Append(s.pieces, piece)]
    BY DEF CutOnce
  <1>6. \A w \in Words(x) : s.at < w => a <= w
    <2>1. \A w \in Words(x) : s.at < w => w \in left
      BY <1>1, TextHasWords DEF Words, Left
    <2>. QED BY <1>3, <2>1
  <1>7. k # "drive" => a \notin White(x)
    BY <1>3 DEF Left
  <1>. HIDE DEF left, a
  <1>8. /\ end \in a..x.size
        /\ k # "notebook" => end <= a + limit - 1
        /\ k = "notebook" => \A q \in White(x) : q >= a + limit => end < q
    <2>1. CASE x.size - a + 1 <= limit
      <3>1. end = x.size
        BY <2>1
      <3>2. \A q \in White(x) : q \in Nat /\ q < x.size
        BY TextHasWords
      <3>3. \A q \in White(x) : q >= a + limit => x.size < q
        BY <1>4, <2>1, <3>2
      <3>. HIDE DEF end
      <3>. QED BY <1>4, <2>1, <3>1, <3>3
    <2>2. CASE x.size - a + 1 > limit
      <3>1. end = Cut(k, x, a, limit)
        BY <1>4, <2>2
      <3>. HIDE DEF end
      <3>. QED BY <1>4, <2>2, <3>1, CutIsWithin
    <2>. QED BY <1>4, <2>1, <2>2
  <1>. HIDE DEF end
  <1>9. /\ piece \in [from : Nat, to : Nat] /\ piece.from = a
        /\ a <= piece.to /\ piece.to <= end
        /\ \A w \in Words(x) : a <= w /\ w <= end => w <= piece.to
    <2>1. CASE k = "drive"
      <3>1. piece = [from |-> a, to |-> end]
        BY <2>1
      <3>2. end \in Nat
        BY <1>4, <1>8
      <3>. QED BY <1>4, <1>8, <3>1, <3>2
    <2>2. CASE k # "drive"
      <3>. DEFINE word == (a..end) \ White(x)
      <3>1. piece = [from |-> Min(word), to |-> Max(word)]
        BY <2>2 DEF Trimmed
      <3>2. a \in word /\ word \in SUBSET (0..end) /\ word \in SUBSET Nat /\ end \in Nat
        BY <1>4, <1>7, <1>8, <2>2
      <3>3. Min(word) \in word /\ \A p \in word : Min(word) <= p
        BY <3>2, MinIsLeast
      <3>4. Max(word) \in word /\ \A p \in word : p <= Max(word)
        BY <3>2, MaxIsGreatest
      <3>5. \A p \in word : a <= p /\ p <= end /\ p \in Nat
        BY <1>4, <1>8
      <3>6. \A w \in Words(x) : a <= w /\ w <= end => w \in word
        BY <1>4, <1>8 DEF Words
      <3>. HIDE DEF word
      <3>7. a <= Min(word) /\ Min(word) <= a /\ Min(word) \in Nat
        BY <3>2, <3>3, <3>5
      <3>8. piece.from = a
        BY <1>4, <3>1, <3>7
      <3>9. piece.to = Max(word) /\ Max(word) \in Nat /\ a <= Max(word) /\ Max(word) <= end
        BY <3>1, <3>4, <3>5
      <3>10. piece \in [from : Nat, to : Nat]
        BY <3>1, <3>7, <3>9
      <3>11. \A w \in Words(x) : a <= w /\ w <= end => w <= piece.to
        BY <3>4, <3>6, <3>9
      <3>. QED BY <3>8, <3>9, <3>10, <3>11
    <2>. QED BY <2>1, <2>2
  <1>. HIDE DEF piece
  <1>10. PieceFits(k, x, limit, piece)
    <2>1. 1 <= piece.from /\ piece.from <= piece.to /\ piece.to <= x.size /\ piece.to \in Nat
      BY <1>4, <1>8, <1>9
    <2>2. CASE k = "notebook"
      <3>1. ASSUME NEW q \in (piece.from + limit)..piece.to, q \in White(x)  PROVE FALSE
        <4>1. q >= a + limit /\ q <= end /\ q \in Int /\ end \in Int
          BY <1>4, <1>8, <1>9, <2>1
        <4>. QED BY <1>8, <2>2, <3>1, <4>1
      <3>. QED BY <2>1, <2>2, <3>1 DEF PieceFits
    <2>3. CASE k # "notebook"
      <3>1. piece.to - piece.from + 1 <= limit
        BY <1>4, <1>8, <1>9, <2>1, <2>3
      <3>. QED BY <2>1, <2>3, <3>1 DEF PieceFits
    <2>. QED BY <2>2, <2>3
  <1>11. /\ t.at = end /\ t.pieces = Append(s.pieces, piece)
         /\ t.pieces \in Seq([from : Nat, to : Nat]) /\ Len(t.pieces) = n + 1
         /\ t.pieces[n + 1] = piece /\ \A i \in 1..n : t.pieces[i] = s.pieces[i]
    BY <1>1, <1>5, <1>9
  <1>12. t \in CutState /\ s.at < t.at /\ t.at <= x.size
    <2>1. end \in Nat /\ s.at < end /\ end <= x.size
      BY <1>1, <1>4, <1>8
    <2>. HIDE DEF t, n
    <2>2. t = [at |-> t.at, pieces |-> t.pieces]
      BY <1>5, <1>11
    <2>. QED BY <1>11, <2>1, <2>2 DEF CutState
  <1>13. ASSUME NEW w \in Words(x), s.at < w, w <= end  PROVE w \in a..piece.to
    <2>1. a <= w /\ w <= piece.to /\ w \in Nat
      BY <1>6, <1>9, <1>13, TextHasWords DEF Words
    <2>. QED BY <1>4, <1>9, <2>1
  <1>. HIDE DEF t, n
  <1>14. \A w \in Words(x) : s.at < w /\ w <= t.at =>
           w \in t.pieces[n + 1].from..t.pieces[n + 1].to
    BY <1>9, <1>11, <1>13
  <1>15. PieceFits(k, x, limit, t.pieces[n + 1])
    BY <1>10, <1>11
  <1>. QED BY <1>11, <1>12, <1>14, <1>15 DEF t, n

\* What holds of the pieces after n turns: none is left, or a position has been taken
\* in every turn; the words up to there are in the pieces, and the pieces fit.
CutSoFar(k, x, limit, n, s) ==
  /\ s \in CutState
  /\ Left(k, x, s.at) = {} \/ s.at >= n
  /\ \A i \in 1..Len(s.pieces) : PieceFits(k, x, limit, s.pieces[i])
  /\ \A w \in Words(x) : w <= s.at =>
       \E i \in 1..Len(s.pieces) : w \in s.pieces[i].from..s.pieces[i].to

\* A turn keeps it so.
LEMMA CutOnceKeepsWords ==
  ASSUME NEW k, NEW x \in Text, NEW limit \in Nat \ {0}, NEW n \in Nat \ {0}, NEW s,
         CutSoFar(k, x, limit, n - 1, s)
  PROVE  CutSoFar(k, x, limit, n, CutOnce(k, x, limit, s))
PROOF
  <1>. DEFINE t == CutOnce(k, x, limit, s)
  <1>1. CASE Left(k, x, s.at) = {}
    <2>1. t = s
      BY <1>1 DEF CutOnce
    <2>2. CutSoFar(k, x, limit, n, s)
      BY <1>1 DEF CutSoFar
    <2>. QED BY <2>1, <2>2
  <1>2. CASE Left(k, x, s.at) # {}
    <2>. DEFINE l == Len(s.pieces)
    <2>1. s \in CutState /\ s.at \in Nat /\ l \in Nat /\ s.at >= n - 1
      BY <1>2 DEF CutSoFar, CutState
    <2>2. /\ t \in CutState /\ s.at < t.at /\ t.at <= x.size
          /\ Len(t.pieces) = l + 1 /\ \A i \in 1..l : t.pieces[i] = s.pieces[i]
          /\ PieceFits(k, x, limit, t.pieces[l + 1])
          /\ \A w \in Words(x) : s.at < w /\ w <= t.at =>
               w \in t.pieces[l + 1].from..t.pieces[l + 1].to
      BY <1>2, <2>1, CutOnceTakesWords
    <2>3. t.at \in Nat
      BY <2>2 DEF CutState
    <2>. HIDE DEF t, l
    <2>4. \A i \in 1..(l + 1) : i \in 1..l \/ i = l + 1
      BY <2>1
    <2>5. \A i \in 1..(l + 1) : PieceFits(k, x, limit, t.pieces[i])
      <3>1. \A i \in 1..l : PieceFits(k, x, limit, s.pieces[i])
        BY DEF CutSoFar, l
      <3>. QED BY <2>2, <2>4, <3>1
    <2>6. ASSUME NEW w \in Words(x), w <= t.at
          PROVE  \E i \in 1..(l + 1) : w \in t.pieces[i].from..t.pieces[i].to
      <3>0. w \in Nat
        BY TextHasWords DEF Words
      <3>1. CASE w <= s.at
        <4>1. PICK i \in 1..l : w \in s.pieces[i].from..s.pieces[i].to
          BY <3>1 DEF CutSoFar, l
        <4>2. i \in 1..(l + 1)
          BY <2>1
        <4>. QED BY <2>2, <4>1, <4>2
      <3>2. CASE s.at < w
        <4>1. l + 1 \in 1..(l + 1)
          BY <2>1
        <4>. QED BY <2>2, <2>6, <3>2, <4>1
      <3>. QED BY <2>1, <3>0, <3>1, <3>2
    <2>7. t.at >= n
      BY <2>1, <2>2, <2>3
    <2>. QED BY <2>2, <2>5, <2>6, <2>7 DEF CutSoFar, t
  <1>. QED BY <1>1, <1>2

\* However a text is cut, its words are in the pieces, and the pieces fit.
LEMMA PiecesHaveAllWords ==
  ASSUME NEW k, NEW x \in Text, NEW limit \in Int
  PROVE  LET pieces == Pieces(k, x, limit)
         IN  /\ pieces \in Seq([from : Nat, to : Nat])
             /\ limit > 0 => \A i \in 1..Len(pieces) : PieceFits(k, x, limit, pieces[i])
             /\ \A w \in Words(x) :
                  \E i \in 1..Len(pieces) : w \in pieces[i].from..pieces[i].to
PROOF
  <1>. DEFINE pieces == Pieces(k, x, limit)
              n == x.size
  <1>1. n \in Nat /\ n >= 1
    BY TextHasWords
  <1>2. CASE limit <= 0
    <2>1. pieces = <<[from |-> 1, to |-> n]>>
      BY <1>2 DEF Pieces
    <2>2. pieces \in Seq([from : Nat, to : Nat]) /\ Len(pieces) = 1 /\ 1 \in 1..Len(pieces)
            /\ pieces[1].from = 1 /\ pieces[1].to = n
      BY <1>1, <2>1
    <2>3. \A w \in Words(x) : w \in 1..n
      BY DEF Words
    <2>. HIDE DEF pieces, n
    <2>4. \A w \in Words(x) : \E i \in 1..Len(pieces) : w \in pieces[i].from..pieces[i].to
      BY <2>2, <2>3
    <2>. QED BY <1>2, <2>2, <2>4 DEF pieces
  <1>3. CASE limit > 0
    <2>. DEFINE start == [at |-> 0, pieces |-> <<>>]
                step == [i \in 1..n |-> [s \in CutState |-> CutOnce(k, x, limit, s)]]
    <2>0. limit \in Nat \ {0}
      BY <1>3
    <2>1. start \in CutState
      BY DEF CutState
    <2>2. ASSUME NEW s \in CutState  PROVE CutOnce(k, x, limit, s) \in CutState
      <3>1. CASE Left(k, x, s.at) = {}
        BY <3>1 DEF CutOnce
      <3>2. CASE Left(k, x, s.at) # {}
        BY <2>0, <3>2, CutOnceTakesWords
      <3>. QED BY <3>1, <3>2
    <2>3. step \in Steps(n, CutState)
      BY <2>2 DEF Steps
    <2>4. PICK g : Follows(g, n, CutState, start, step)
      <3>. HIDE DEF n, start, step
      <3>. QED BY <1>1, <2>1, <2>3, RecursionUpTo
    <2>5. \A i \in 0..n : g[i] = IF i = 0 THEN start ELSE CutOnce(k, x, limit, g[i - 1])
      <3>1. \A i \in 1..n : g[i - 1] \in CutState
        BY <1>1, <2>4 DEF Follows
      <3>2. \A i \in 1..n : g[i] = step[i][g[i - 1]]
        BY <2>4 DEF Follows
      <3>3. \A i \in 1..n : g[i] = CutOnce(k, x, limit, g[i - 1])
        BY <3>1, <3>2
      <3>4. g[0] = start
        BY <2>4 DEF Follows
      <3>. HIDE DEF start, step, n
      <3>. QED BY <1>1, <3>3, <3>4
    <2>6. g = [i \in 0..n |-> IF i = 0 THEN start ELSE CutOnce(k, x, limit, g[i - 1])]
      <3>1. g \in [0..n -> CutState]
        BY <2>4 DEF Follows
      <3>. HIDE DEF start, step, n
      <3>. QED BY <2>5, <3>1
    <2>. DEFINE cut[i \in 0..n] ==
                  IF i = 0 THEN [at |-> 0, pieces |-> <<>>] ELSE CutOnce(k, x, limit, cut[i - 1])
    <2>7. pieces = cut[n].pieces
      BY <1>3 DEF Pieces
    <2>8. cut = CHOOSE f : f = [i \in 0..n |-> IF i = 0 THEN start ELSE CutOnce(k, x, limit, f[i - 1])]
      BY DEF cut
    <2>9. cut = [i \in 0..n |-> IF i = 0 THEN start ELSE CutOnce(k, x, limit, cut[i - 1])]
      <3>. HIDE DEF cut, n, start, step
      <3>. QED BY <2>6, <2>8
    <2>. HIDE DEF cut
    <2>. DEFINE T == {i \in 0..n : CutSoFar(k, x, limit, i, cut[i])}
    <2>10. 0 \in T
      <3>1. cut[0] = start /\ 0 \in 0..n
        <4>. HIDE DEF start, n
        <4>. QED BY <1>1, <2>9
      <3>2. start.at = 0 /\ Len(start.pieces) = 0
        OBVIOUS
      <3>3. \A w \in Words(x) : ~(w <= 0)
        BY <1>1 DEF Words
      <3>. HIDE DEF start
      <3>4. CutSoFar(k, x, limit, 0, start)
        BY <2>1, <3>2, <3>3 DEF CutSoFar
      <3>. QED BY <3>1, <3>4
    <2>11. ASSUME NEW i \in 1..n, i - 1 \in T  PROVE i \in T
      <3>1. cut[i] = CutOnce(k, x, limit, cut[i - 1]) /\ i \in 0..n /\ i \in Nat \ {0}
        <4>. HIDE DEF start, n
        <4>. QED BY <1>1, <2>9
      <3>2. CutSoFar(k, x, limit, i - 1, cut[i - 1])
        BY <2>11
      <3>3. CutSoFar(k, x, limit, i, cut[i])
        BY <2>0, <3>1, <3>2, CutOnceKeepsWords
      <3>. QED BY <3>1, <3>3
    <2>12. n \in T
      <3>. HIDE DEF T, n
      <3>1. 0..n \subseteq T
        BY <1>1, <2>10, <2>11, UpToInduction
      <3>. QED BY <1>1, <3>1
    <2>13. CutSoFar(k, x, limit, n, cut[n])
      BY <2>12
    <2>. DEFINE s == cut[n]
    <2>14. \A w \in Words(x) : w <= s.at
      <3>1. s.at \in Nat
        BY <2>13 DEF CutSoFar, CutState
      <3>2. ASSUME NEW w \in Words(x), s.at < w  PROVE FALSE
        <4>1. w \in Left(k, x, s.at)
          BY <1>1, <3>1, <3>2 DEF Words, Left
        <4>2. s.at >= n
          BY <2>13, <4>1 DEF CutSoFar
        <4>. QED BY <1>1, <3>1, <3>2, <4>2 DEF Words
      <3>3. \A w \in Words(x) : w \in Nat
        BY <1>1 DEF Words
      <3>. QED BY <3>1, <3>2, <3>3
    <2>15. s.pieces \in Seq([from : Nat, to : Nat])
      BY <2>13 DEF CutSoFar, CutState
    <2>. HIDE DEF s
    <2>16. pieces = s.pieces
      BY <2>7 DEF s
    <2>17. CutSoFar(k, x, limit, n, s)
      BY <2>13 DEF s
    <2>. HIDE DEF pieces, n
    <2>18. /\ \A i \in 1..Len(pieces) : PieceFits(k, x, limit, pieces[i])
           /\ \A w \in Words(x) :
                \E i \in 1..Len(pieces) : w \in pieces[i].from..pieces[i].to
      BY <2>14, <2>16, <2>17 DEF CutSoFar
    <2>. QED BY <2>15, <2>16, <2>18 DEF pieces
  <1>. QED BY <1>2, <1>3

-----------------------------------------------------------------------------
(* The chunks of a record.                                                   *)

\* The messages of a record.
RecordMessage == [slot : Slot, text : Text]

\* Position w of message m is in one of the pieces of c.
Shows(c, m, w) ==
  \E i \in 1..Len(c) : /\ c[i].slot = m.slot /\ c[i].text = m.text
                       /\ w \in c[i].from..c[i].to

\* The chunk fits, but for a header that leaves no room for text and for the rest of a
\* word at the end of a chunk of a note.
ChunkFits(k, h, c) ==
  \/ Size(h, c) <= ChunkMaxChars \/ h >= ChunkMaxChars
  \/ /\ k = "notebook"
     /\ (c[1].from + ChunkMaxChars)..c[1].to \cap White(c[1].text) = {}

\* The pieces of a message that stands alone show all of it, and fit.
LEMMA AloneShowsAll ==
  ASSUME NEW k, NEW m \in RecordMessage, NEW h \in Nat, k = "notebook" => h = 0
  PROVE  LET chunks == Alone(k, m, ChunkMaxChars - h)
         IN  /\ chunks \in Seq(Chunk)
             /\ \A i \in 1..Len(chunks) : ChunkFits(k, h, chunks[i])
             /\ \A w \in Words(m.text) : \E i \in 1..Len(chunks) : Shows(chunks[i], m, w)
PROOF
  <1>. DEFINE limit == ChunkMaxChars - h
              x == m.text
              pieces == Pieces(k, x, limit)
              n == Len(pieces)
              chunks == Alone(k, m, limit)
  <1>1. x \in Text /\ m.slot \in Slot /\ limit \in Int
    BY ChunkAssumption DEF RecordMessage
  <1>. HIDE DEF limit, x
  <1>2. /\ pieces \in Seq([from : Nat, to : Nat])
        /\ limit > 0 => \A i \in 1..n : PieceFits(k, x, limit, pieces[i])
        /\ \A w \in Words(x) : \E i \in 1..n : w \in pieces[i].from..pieces[i].to
    BY <1>1, PiecesHaveAllWords
  <1>3. chunks = [i \in 1..n |-> <<Piece(m.slot, x, pieces[i])>>]
    BY DEF Alone, x
  <1>. HIDE DEF chunks, pieces
  <1>4. n \in Nat /\ \A i \in 1..n : pieces[i] \in [from : Nat, to : Nat]
    <2>. DEFINE Ends == [from : Nat, to : Nat]
    <2>1. pieces \in Seq(Ends)
      BY <1>2
    <2>. HIDE DEF Ends
    <2>2. n \in Nat /\ \A i \in 1..n : pieces[i] \in Ends
      BY <2>1
    <2>. QED BY <2>2 DEF Ends
  <1>. HIDE DEF n
  <1>5. ASSUME NEW i \in 1..n
        PROVE  LET p == Piece(m.slot, x, pieces[i])
               IN  /\ p \in Part /\ p.slot = m.slot /\ p.text = x
                   /\ p.from = pieces[i].from /\ p.to = pieces[i].to
                   /\ chunks[i] = <<p>> /\ chunks[i] \in Chunk
    <2>1. Piece(m.slot, x, pieces[i]) \in Part
      BY <1>1, <1>4 DEF Piece, Part
    <2>2. <<Piece(m.slot, x, pieces[i])>> \in Chunk
      BY <2>1 DEF Chunk
    <2>. QED BY <1>3, <2>1, <2>2 DEF Piece
  <1>6. chunks \in Seq(Chunk) /\ Len(chunks) = n
    BY <1>3, <1>4, <1>5, IsASeq
  <1>7. ASSUME NEW i \in 1..n  PROVE ChunkFits(k, h, chunks[i])
    <2>. DEFINE p == Piece(m.slot, x, pieces[i])
    <2>1. p \in Part /\ p.text = x /\ p.from = pieces[i].from /\ p.to = pieces[i].to
            /\ chunks[i] = <<p>>
      BY <1>5
    <2>. HIDE DEF p
    <2>2. p.from \in Nat /\ p.to \in Nat /\ h \in Int /\ ChunkMaxChars \in Nat
      BY <2>1, ChunkAssumption DEF Part
    <2>3. CASE limit <= 0
      <3>1. h >= ChunkMaxChars
        BY <2>2, <2>3 DEF limit
      <3>. QED BY <3>1 DEF ChunkFits
    <2>4. CASE limit > 0
      <3>1. PieceFits(k, x, limit, pieces[i])
        BY <1>2, <2>4
      <3>2. CASE k = "notebook"
        <4>1. (p.from + limit)..p.to \cap White(x) = {}
          BY <2>1, <3>1, <3>2 DEF PieceFits
        <4>2. limit = ChunkMaxChars
          BY <2>2, <3>2 DEF limit
        <4>3. chunks[i][1] = p
          BY <2>1
        <4>. QED BY <2>1, <3>2, <4>1, <4>2, <4>3 DEF ChunkFits
      <3>3. CASE k # "notebook"
        <4>1. p.to - p.from + 1 <= limit
          BY <2>1, <3>1, <3>3 DEF PieceFits
        <4>2. Size(h, chunks[i]) = h + (p.to - p.from + 1)
          BY <2>1, <2>2, SizeOfOne DEF Length
        <4>3. Size(h, chunks[i]) <= ChunkMaxChars
          BY <2>2, <4>1, <4>2 DEF limit
        <4>. QED BY <4>3 DEF ChunkFits
      <3>. QED BY <3>2, <3>3
    <2>. QED BY <1>1, <2>3, <2>4
  <1>8. ASSUME NEW w \in Words(x)  PROVE \E i \in 1..n : Shows(chunks[i], m, w)
    <2>1. PICK i \in 1..n : w \in pieces[i].from..pieces[i].to
      BY <1>2
    <2>. DEFINE p == Piece(m.slot, x, pieces[i])
    <2>2. chunks[i] = <<p>> /\ p.slot = m.slot /\ p.text = x /\ w \in p.from..p.to
      BY <1>5, <2>1
    <2>. HIDE DEF p
    <2>3. Len(chunks[i]) = 1 /\ chunks[i][1] = p /\ 1 \in 1..1
      BY <2>2
    <2>4. Shows(chunks[i], m, w)
      BY <2>2, <2>3 DEF Shows, x
    <2>. QED BY <2>4
  <1>. QED BY <1>6, <1>7, <1>8 DEF chunks, limit, x

\* What holds of a transcript after some messages: its chunks and the open one have a
\* size that fits, and show all of the messages.
AddedSoFar(h, ms, n, s) ==
  /\ s \in [chunks : Seq(Chunk), open : Chunk]
  /\ \A i \in 1..Len(s.chunks) : Size(h, s.chunks[i]) <= ChunkMaxChars \/ h >= ChunkMaxChars
  /\ s.open # <<>> => Size(h, s.open) <= ChunkMaxChars
  /\ \A j \in 1..n : \A w \in Words(ms[j].text) :
       \/ Shows(s.open, ms[j], w)
       \/ \E i \in 1..Len(s.chunks) : Shows(s.chunks[i], ms[j], w)

\* The open chunk becomes one of the chunks, if there is something in it.
LEMMA FlushedIsAdded ==
  ASSUME NEW cs \in Seq(Chunk), NEW open \in Chunk
  PROVE  LET all == cs \o Flushed(open)
         IN  /\ all \in Seq(Chunk) /\ Len(all) \in Nat /\ Len(cs) \in Nat /\ Len(cs) <= Len(all)
             /\ \A i \in 1..Len(cs) : all[i] = cs[i]
             /\ \A i \in 1..Len(all) : i \in 1..Len(cs) \/ (open # <<>> /\ all[i] = open)
             /\ open # <<>> => Len(all) \in 1..Len(all) /\ all[Len(all)] = open
PROOF
  <1>1. CASE open = <<>>
    <2>1. Flushed(open) = <<>>
      BY <1>1 DEF Flushed
    <2>2. cs \o Flushed(open) = cs
      BY <2>1, ConcatEmptySeq
    <2>3. Len(cs) \in Nat
      OBVIOUS
    <2>. DEFINE all == cs \o Flushed(open)
    <2>. HIDE DEF all
    <2>4. all = cs
      BY <2>2 DEF all
    <2>5. /\ all \in Seq(Chunk) /\ Len(all) \in Nat /\ Len(cs) \in Nat /\ Len(cs) <= Len(all)
          /\ \A i \in 1..Len(cs) : all[i] = cs[i]
          /\ \A i \in 1..Len(all) : i \in 1..Len(cs) \/ (open # <<>> /\ all[i] = open)
          /\ open # <<>> => Len(all) \in 1..Len(all) /\ all[Len(all)] = open
      BY <1>1, <2>3, <2>4
    <2>. QED BY <2>5 DEF all
  <1>2. CASE open # <<>>
    <2>1. Flushed(open) = <<open>>
      BY <1>2 DEF Flushed
    <2>. DEFINE all == cs \o <<open>>
    <2>2. /\ all \in Seq(Chunk) /\ Len(all) = Len(cs) + 1 /\ Len(cs) \in Nat
          /\ \A i \in 1..Len(cs) : all[i] = cs[i]
          /\ all[Len(cs) + 1] = open
      OBVIOUS
    <2>. HIDE DEF all
    <2>3. \A i \in 1..Len(all) : i \in 1..Len(cs) \/ i = Len(cs) + 1
      BY <2>2
    <2>4. Len(all) \in 1..Len(all) /\ Len(all) \in Nat /\ Len(cs) <= Len(all)
      BY <2>2
    <2>5. /\ all \in Seq(Chunk) /\ Len(all) \in Nat /\ Len(cs) \in Nat /\ Len(cs) <= Len(all)
          /\ \A i \in 1..Len(cs) : all[i] = cs[i]
          /\ \A i \in 1..Len(all) : i \in 1..Len(cs) \/ (open # <<>> /\ all[i] = open)
          /\ open # <<>> => Len(all) \in 1..Len(all) /\ all[Len(all)] = open
      BY <1>2, <2>2, <2>3, <2>4
    <2>. QED BY <2>1, <2>5 DEF all
  <1>. QED BY <1>1, <1>2

\* A message that fits makes a chunk of its own that fits, and is shown by it.
LEMMA WholeShowsAll ==
  ASSUME NEW m \in RecordMessage
  PROVE  /\ Whole(m) \in Part /\ Length(Whole(m)) = m.text.size
         /\ Whole(m).slot = m.slot /\ Whole(m).text = m.text
         /\ \A w \in Words(m.text) : w \in Whole(m).from..Whole(m).to
         /\ <<Whole(m)>> \in Chunk
         /\ \A w \in Words(m.text) : Shows(<<Whole(m)>>, m, w)
PROOF
  <1>. DEFINE p == Whole(m)
  <1>1. m.text \in Text /\ m.slot \in Slot /\ m.text.size \in Nat
    BY TextHasWords DEF RecordMessage
  <1>2. p.slot = m.slot /\ p.text = m.text /\ p.from = 1 /\ p.to = m.text.size /\ p \in Part
    BY <1>1 DEF Whole, Piece, Part
  <1>. HIDE DEF p
  <1>3. Length(p) = m.text.size /\ \A w \in Words(m.text) : w \in p.from..p.to
    BY <1>1, <1>2 DEF Length, Words
  <1>. DEFINE c == <<p>>
  <1>4. c \in Chunk /\ Len(c) = 1 /\ c[1] = p /\ 1 \in 1..1
    BY <1>2 DEF Chunk
  <1>. HIDE DEF c
  <1>5. \A w \in Words(m.text) : Shows(c, m, w)
    BY <1>2, <1>3, <1>4 DEF Shows
  <1>. QED BY <1>2, <1>3, <1>4, <1>5 DEF c, p

\* What a chunk shows it shows with a message more.
LEMMA MoreShowsAll ==
  ASSUME NEW c \in Chunk, NEW m \in RecordMessage
  PROVE  LET d == Append(c, Whole(m))
         IN  /\ d \in Chunk /\ d # <<>>
             /\ \A n \in RecordMessage, w \in Int : Shows(c, n, w) => Shows(d, n, w)
             /\ \A w \in Words(m.text) : Shows(d, m, w)
PROOF
  <1>. DEFINE p == Whole(m)
              d == Append(c, p)
              l == Len(c)
  <1>1. /\ p \in Part /\ p.slot = m.slot /\ p.text = m.text
        /\ \A w \in Words(m.text) : w \in p.from..p.to
    BY WholeShowsAll
  <1>. HIDE DEF p
  <1>2. /\ d \in Chunk /\ Len(d) = l + 1 /\ d[l + 1] = p /\ l \in Nat
        /\ \A i \in 1..l : d[i] = c[i]
    BY <1>1 DEF Chunk
  <1>3. d # <<>>
    BY <1>2
  <1>. HIDE DEF d
  <1>4. \A n \in RecordMessage, w \in Int : Shows(c, n, w) => Shows(d, n, w)
    <2>. SUFFICES ASSUME NEW n \in RecordMessage, NEW w \in Int, Shows(c, n, w)
                  PROVE  Shows(d, n, w)
      OBVIOUS
    <2>1. PICK i \in 1..l : c[i].slot = n.slot /\ c[i].text = n.text /\ w \in c[i].from..c[i].to
      BY DEF Shows
    <2>2. i \in 1..Len(d) /\ d[i] = c[i]
      BY <1>2
    <2>. HIDE DEF l
    <2>. QED BY <2>1, <2>2 DEF Shows
  <1>5. ASSUME NEW w \in Words(m.text)  PROVE Shows(d, m, w)
    <2>1. Len(d) \in 1..Len(d) /\ d[Len(d)] = p
      BY <1>2
    <2>. QED BY <1>1, <2>1 DEF Shows
  <1>. QED BY <1>2, <1>3, <1>4, <1>5 DEF d, p

\* A message more is shown as well, in a chunk of its own or in one that it still fits into.
LEMMA AddMessageKeepsAll ==
  ASSUME NEW k, k # "notebook", NEW h \in Nat,
         NEW ms \in Seq(RecordMessage), NEW n \in 1..Len(ms), NEW s,
         AddedSoFar(h, ms, n - 1, s)
  PROVE  AddedSoFar(h, ms, n, AddMessage(k, h, s, ms[n]))
PROOF
  <1>. DEFINE m == ms[n]
              t == AddMessage(k, h, s, m)
              Fits(c) == Size(h, c) <= ChunkMaxChars \/ h >= ChunkMaxChars
              fit == h + m.text.size <= ChunkMaxChars
              full == s.open # <<>> /\ Size(h, s.open) + 2 + m.text.size > Target
  <1>1. m \in RecordMessage /\ m.text \in Text /\ m.text.size \in Nat
    <2>1. m \in RecordMessage
      OBVIOUS
    <2>. QED BY <2>1, TextHasWords DEF RecordMessage
  <1>2. /\ s.chunks \in Seq(Chunk) /\ s.open \in Chunk /\ h \in Int /\ ChunkMaxChars \in Nat
        /\ \A i \in 1..Len(s.chunks) : Fits(s.chunks[i])
        /\ s.open # <<>> => Size(h, s.open) <= ChunkMaxChars
        /\ Size(h, s.open) \in Int
    <2>1. s.chunks \in Seq(Chunk) /\ s.open \in Chunk /\ h \in Int /\ ChunkMaxChars \in Nat
      BY ChunkAssumption DEF AddedSoFar
    <2>2. Size(h, s.open) \in Int
      <3>1. Whole(m) \in Part
        BY <1>1, WholeShowsAll
      <3>. QED BY <2>1, <3>1, SizeOfMore
    <2>. QED BY <2>1, <2>2 DEF AddedSoFar
  <1>3. \A j \in 1..n : j \in 1..(n - 1) \/ j = n
    OBVIOUS
  <1>4. \A j \in 1..n : ms[j] \in RecordMessage
                          /\ \A w \in Words(ms[j].text) : w \in Int
    BY DEF Words
  <1>. HIDE DEF m
  <1>5. \A j \in 1..n : \A w \in Words(ms[j].text) :
          \/ j = n
          \/ Shows(s.open, ms[j], w)
          \/ \E i \in 1..Len(s.chunks) : Shows(s.chunks[i], ms[j], w)
    BY <1>3 DEF AddedSoFar
  <1>. DEFINE cs == s.chunks \o Flushed(s.open)
  <1>6. /\ cs \in Seq(Chunk) /\ Len(cs) \in Nat
        /\ \A i \in 1..Len(cs) : Fits(cs[i])
        /\ \A j \in 1..n : \A w \in Words(ms[j].text) :
             j = n \/ \E i \in 1..Len(cs) : Shows(cs[i], ms[j], w)
    <2>1. /\ cs \in Seq(Chunk) /\ Len(cs) \in Nat /\ Len(s.chunks) \in Nat
          /\ Len(s.chunks) <= Len(cs)
          /\ \A i \in 1..Len(s.chunks) : cs[i] = s.chunks[i]
          /\ \A i \in 1..Len(cs) : i \in 1..Len(s.chunks) \/ (s.open # <<>> /\ cs[i] = s.open)
          /\ s.open # <<>> => Len(cs) \in 1..Len(cs) /\ cs[Len(cs)] = s.open
      BY <1>2, FlushedIsAdded
    <2>. HIDE DEF cs
    <2>2. \A i \in 1..Len(cs) : Fits(cs[i])
      BY <1>2, <2>1
    <2>3. ASSUME NEW j \in 1..n, NEW w \in Words(ms[j].text), j # n
          PROVE  \E i \in 1..Len(cs) : Shows(cs[i], ms[j], w)
      <3>1. CASE Shows(s.open, ms[j], w)
        <4>1. s.open # <<>>
          BY <3>1 DEF Shows
        <4>. QED BY <2>1, <3>1, <4>1
      <3>2. CASE \E i \in 1..Len(s.chunks) : Shows(s.chunks[i], ms[j], w)
        <4>1. PICK i \in 1..Len(s.chunks) : Shows(s.chunks[i], ms[j], w)
          BY <3>2
        <4>2. i \in 1..Len(cs)
          BY <2>1
        <4>. QED BY <2>1, <4>1, <4>2
      <3>. QED BY <1>5, <2>3, <3>1, <3>2
    <2>. QED BY <2>1, <2>2, <2>3
  <1>7. CASE ~fit
    <2>. DEFINE own == Alone(k, m, ChunkMaxChars - h)
                all == cs \o own
    <2>1. t = [chunks |-> all, open |-> <<>>]
      BY <1>1, <1>2, <1>7 DEF AddMessage
    <2>2. /\ own \in Seq(Chunk) /\ \A i \in 1..Len(own) : ChunkFits(k, h, own[i])
          /\ \A w \in Words(m.text) : \E i \in 1..Len(own) : Shows(own[i], m, w)
      BY <1>1, AloneShowsAll
    <2>. HIDE DEF cs, own
    <2>3. /\ all \in Seq(Chunk) /\ Len(all) = Len(cs) + Len(own) /\ Len(own) \in Nat
          /\ \A i \in 1..Len(cs) : all[i] = cs[i]
          /\ \A i \in 1..Len(own) : all[Len(cs) + i] = own[i]
      BY <1>6, <2>2, ConcatProperties
    <2>. HIDE DEF all
    <2>4. \A i \in 1..Len(all) : Fits(all[i])
      <3>. TAKE i \in 1..Len(all)
      <3>1. CASE i \in 1..Len(cs)
        BY <1>6, <2>3, <3>1
      <3>2. CASE i \notin 1..Len(cs)
        <4>1. PICK j \in 1..Len(own) : i = Len(cs) + j
          <5>1. i - Len(cs) \in 1..Len(own) /\ i = Len(cs) + (i - Len(cs))
            BY <1>6, <2>3, <3>2
          <5>. QED BY <5>1
        <4>2. ChunkFits(k, h, all[i])
          BY <2>2, <2>3, <4>1
        <4>. QED BY <4>2 DEF ChunkFits
      <3>. QED BY <3>1, <3>2
    <2>5. ASSUME NEW j \in 1..n, NEW w \in Words(ms[j].text)
          PROVE  \E i \in 1..Len(all) : Shows(all[i], ms[j], w)
      <3>1. CASE j = n
        <4>1. PICK i \in 1..Len(own) : Shows(own[i], m, w)
          BY <2>2, <3>1 DEF m
        <4>2. Len(cs) + i \in 1..Len(all) /\ all[Len(cs) + i] = own[i]
          BY <1>6, <2>3
        <4>. QED BY <3>1, <4>1, <4>2 DEF m
      <3>2. CASE j # n
        <4>1. PICK i \in 1..Len(cs) : Shows(cs[i], ms[j], w)
          BY <1>6, <3>2
        <4>2. i \in 1..Len(all) /\ all[i] = cs[i]
          BY <1>6, <2>3
        <4>. QED BY <4>1, <4>2
      <3>. QED BY <3>1, <3>2
    <2>6. t.chunks = all /\ t.open = <<>> /\ t \in [chunks : Seq(Chunk), open : Chunk]
      <3>1. <<>> \in Chunk
        BY DEF Chunk
      <3>. QED BY <2>1, <2>3, <3>1
    <2>. HIDE DEF t
    <2>7. AddedSoFar(h, ms, n, t)
      BY <2>4, <2>5, <2>6 DEF AddedSoFar
    <2>. QED BY <2>7 DEF t, m
  <1>8. CASE fit /\ full
    <2>. DEFINE c == <<Whole(m)>>
    <2>1. t = [chunks |-> cs, open |-> c]
      BY <1>1, <1>2, <1>8 DEF AddMessage
    <2>2. /\ Whole(m) \in Part /\ Length(Whole(m)) = m.text.size /\ c \in Chunk
          /\ \A w \in Words(m.text) : Shows(c, m, w)
      BY <1>1, WholeShowsAll
    <2>3. Size(h, c) <= ChunkMaxChars
      <3>1. Size(h, c) = h + m.text.size
        BY <1>2, <2>2, SizeOfOne
      <3>. QED BY <1>8, <3>1
    <2>. HIDE DEF c, cs
    <2>4. t.chunks = cs /\ t.open = c /\ t \in [chunks : Seq(Chunk), open : Chunk]
      BY <1>6, <2>1, <2>2
    <2>. HIDE DEF t
    <2>5. \A j \in 1..n : \A w \in Words(ms[j].text) :
            \/ Shows(t.open, ms[j], w)
            \/ \E i \in 1..Len(t.chunks) : Shows(t.chunks[i], ms[j], w)
      BY <1>6, <2>2, <2>4 DEF m
    <2>6. AddedSoFar(h, ms, n, t)
      BY <1>6, <2>3, <2>4, <2>5 DEF AddedSoFar
    <2>. QED BY <2>6 DEF t, m
  <1>9. CASE fit /\ ~full
    <2>. DEFINE d == Append(s.open, Whole(m))
    <2>1. t = [chunks |-> s.chunks, open |-> d]
      BY <1>1, <1>2, <1>9 DEF AddMessage
    <2>2. /\ Whole(m) \in Part /\ Length(Whole(m)) = m.text.size
      BY <1>1, WholeShowsAll
    <2>3. Size(h, d) <= ChunkMaxChars
      <3>1. Size(h, d) = Size(h, s.open) + m.text.size + 2
        BY <1>2, <2>2, SizeOfMore
      <3>2. CASE s.open = <<>>
        <4>1. Size(h, s.open) = h - 2
          BY <1>2, <3>2, SizeOfNone
        <4>. QED BY <1>1, <1>2, <1>9, <3>1, <4>1
      <3>3. CASE s.open # <<>>
        <4>1. Size(h, s.open) + 2 + m.text.size <= Target /\ Target <= ChunkMaxChars
          BY <1>1, <1>2, <1>9, <3>3 DEF Target
        <4>. QED BY <1>1, <1>2, <3>1, <4>1 DEF Target
      <3>. QED BY <3>2, <3>3
    <2>4. /\ d \in Chunk /\ d # <<>>
          /\ \A l \in RecordMessage, w \in Int : Shows(s.open, l, w) => Shows(d, l, w)
          /\ \A w \in Words(m.text) : Shows(d, m, w)
      BY <1>1, <1>2, MoreShowsAll
    <2>. HIDE DEF d, cs
    <2>5. t.chunks = s.chunks /\ t.open = d /\ t \in [chunks : Seq(Chunk), open : Chunk]
      BY <1>2, <2>1, <2>4
    <2>. HIDE DEF t
    <2>6. \A j \in 1..n : \A w \in Words(ms[j].text) :
            \/ Shows(t.open, ms[j], w)
            \/ \E i \in 1..Len(t.chunks) : Shows(t.chunks[i], ms[j], w)
      BY <1>4, <1>5, <2>4, <2>5 DEF m
    <2>7. AddedSoFar(h, ms, n, t)
      BY <1>2, <2>3, <2>5, <2>6 DEF AddedSoFar
    <2>. QED BY <2>7 DEF t, m
  <1>. QED BY <1>7, <1>8, <1>9

\* A transcript shows all of its messages, in chunks that fit.
LEMMA TranscriptShowsAll ==
  ASSUME NEW k, k # "notebook", NEW h \in Nat, NEW ms \in Seq(RecordMessage)
  PROVE  LET chunks == Transcript(k, h, ms)
         IN  /\ chunks \in Seq(Chunk)
             /\ \A i \in 1..Len(chunks) : ChunkFits(k, h, chunks[i])
             /\ \A j \in 1..Len(ms) : \A w \in Words(ms[j].text) :
                  \E i \in 1..Len(chunks) : Shows(chunks[i], ms[j], w)
PROOF
  <1>. DEFINE n == Len(ms)
              State == [chunks : Seq(Chunk), open : Chunk]
              start == [chunks |-> <<>>, open |-> <<>>]
              So(i, s) == AddedSoFar(h, ms, i, s)
              step == [i \in 1..n |-> [s \in State |->
                         IF So(i - 1, s) THEN AddMessage(k, h, s, ms[i]) ELSE start]]
  <1>1. n \in Nat
    OBVIOUS
  <1>2. start \in State /\ So(0, start)
    <2>1. <<>> \in Chunk /\ <<>> \in Seq(Chunk)
      BY DEF Chunk
    <2>2. start \in State /\ start.open = <<>> /\ Len(start.chunks) = 0
      BY <2>1
    <2>. HIDE DEF start
    <2>. QED BY <2>2 DEF AddedSoFar
  <1>3. ASSUME NEW i \in 1..n, NEW s, So(i - 1, s)
        PROVE  So(i, AddMessage(k, h, s, ms[i]))
    BY <1>3, AddMessageKeepsAll
  <1>4. \A i \in Nat : \A s : So(i, s) => s \in State
    BY DEF AddedSoFar
  <1>. HIDE DEF n, start, State, So
  <1>5. step \in Steps(n, State)
    <2>1. ASSUME NEW i \in 1..n, NEW s \in State
          PROVE  (IF So(i - 1, s) THEN AddMessage(k, h, s, ms[i]) ELSE start) \in State
      <3>1. CASE So(i - 1, s)
        <4>1. i \in Nat
          BY <1>1
        <4>. QED BY <1>3, <1>4, <3>1, <4>1
      <3>2. CASE ~So(i - 1, s)
        BY <1>2, <3>2
      <3>. QED BY <3>1, <3>2
    <2>2. \A i \in 1..n : [s \in State |-> IF So(i - 1, s) THEN AddMessage(k, h, s, ms[i]) ELSE start]
                             \in [State -> State]
      BY <2>1
    <2>. QED BY <2>2 DEF Steps
  <1>6. PICK g : Follows(g, n, State, start, step)
    <2>. HIDE DEF step
    <2>. QED BY <1>1, <1>2, <1>5, RecursionUpTo
  <1>7. \A i \in 1..n :
          g[i] = IF So(i - 1, g[i - 1]) THEN AddMessage(k, h, g[i - 1], ms[i]) ELSE start
    <2>1. \A i \in 1..n : g[i - 1] \in State
      BY <1>1, <1>6 DEF Follows
    <2>2. \A i \in 1..n : g[i] = step[i][g[i - 1]]
      BY <1>6 DEF Follows
    <2>. QED BY <2>1, <2>2
  <1>. HIDE DEF step
  <1>8. g[0] = start /\ g \in [0..n -> State]
    BY <1>6 DEF Follows
  <1>. DEFINE T == {i \in 0..n : So(i, g[i])}
  <1>9. 0..n \subseteq T
    <2>1. 0 \in T
      BY <1>1, <1>2, <1>8
    <2>2. ASSUME NEW i \in 1..n, i - 1 \in T  PROVE i \in T
      <3>1. So(i - 1, g[i - 1]) /\ i \in 0..n
        BY <1>1, <2>2
      <3>2. g[i] = AddMessage(k, h, g[i - 1], ms[i])
        BY <1>7, <3>1
      <3>3. So(i, g[i])
        BY <1>3, <3>1, <3>2
      <3>. QED BY <3>1, <3>3
    <2>. HIDE DEF T
    <2>. QED BY <1>1, <2>1, <2>2, UpToInduction
  <1>10. \A i \in 0..n : g[i] = IF i = 0 THEN start ELSE AddMessage(k, h, g[i - 1], ms[i])
    <2>1. ASSUME NEW i \in 1..n  PROVE So(i - 1, g[i - 1])
      <3>1. i - 1 \in 0..n
        BY <1>1
      <3>. QED BY <1>9, <3>1
    <2>. QED BY <1>1, <1>7, <1>8, <2>1
  <1>11. So(n, g[n])
    <2>1. n \in 0..n
      BY <1>1
    <2>. QED BY <1>9, <2>1
  <1>12. g = [i \in 0..n |-> IF i = 0 THEN start ELSE AddMessage(k, h, g[i - 1], ms[i])]
    BY <1>8, <1>10
  <1>. DEFINE added[i \in 0..n] ==
                IF i = 0 THEN [chunks |-> <<>>, open |-> <<>>]
                ELSE AddMessage(k, h, added[i - 1], ms[i])
              chunks == Transcript(k, h, ms)
  <1>13. chunks = added[n].chunks \o Flushed(added[n].open)
    BY DEF Transcript, n
  <1>14. added = CHOOSE f : f = [i \in 0..n |-> IF i = 0 THEN start
                                                ELSE AddMessage(k, h, f[i - 1], ms[i])]
    BY DEF added, start
  <1>15. added = [i \in 0..n |-> IF i = 0 THEN start
                                 ELSE AddMessage(k, h, added[i - 1], ms[i])]
    <2>. HIDE DEF added
    <2>. QED BY <1>12, <1>14
  <1>. HIDE DEF added
  <1>16. \A i \in 0..n : added[i] = IF i = 0 THEN start
                                    ELSE AddMessage(k, h, added[i - 1], ms[i])
    BY <1>15
  <1>17. added[n] = g[n]
    <2>. DEFINE U == {i \in 0..n : added[i] = g[i]}
    <2>1. 0 \in U
      BY <1>1, <1>10, <1>16
    <2>2. ASSUME NEW i \in 1..n, i - 1 \in U  PROVE i \in U
      <3>1. i \in 0..n /\ i # 0 /\ added[i - 1] = g[i - 1]
        BY <1>1, <2>2
      <3>. QED BY <1>10, <1>16, <3>1
    <2>. HIDE DEF U
    <2>3. 0..n \subseteq U
      BY <1>1, <2>1, <2>2, UpToInduction
    <2>4. n \in U
      BY <1>1, <2>3
    <2>. QED BY <2>4 DEF U
  <1>. DEFINE s == g[n]
  <1>18. So(n, s) /\ chunks = s.chunks \o Flushed(s.open)
    BY <1>11, <1>13, <1>17
  <1>. HIDE DEF s, chunks, T
  <1>19. /\ s.chunks \in Seq(Chunk) /\ s.open \in Chunk
         /\ \A i \in 1..Len(s.chunks) :
              Size(h, s.chunks[i]) <= ChunkMaxChars \/ h >= ChunkMaxChars
         /\ s.open # <<>> => Size(h, s.open) <= ChunkMaxChars
         /\ \A j \in 1..n : \A w \in Words(ms[j].text) :
              \/ Shows(s.open, ms[j], w)
              \/ \E i \in 1..Len(s.chunks) : Shows(s.chunks[i], ms[j], w)
    BY <1>18 DEF AddedSoFar, So
  <1>20. /\ chunks \in Seq(Chunk) /\ Len(chunks) \in Nat /\ Len(s.chunks) \in Nat
         /\ Len(s.chunks) <= Len(chunks)
         /\ \A i \in 1..Len(s.chunks) : chunks[i] = s.chunks[i]
         /\ \A i \in 1..Len(chunks) :
              i \in 1..Len(s.chunks) \/ (s.open # <<>> /\ chunks[i] = s.open)
         /\ s.open # <<>> => Len(chunks) \in 1..Len(chunks) /\ chunks[Len(chunks)] = s.open
    <2>. DEFINE all == s.chunks \o Flushed(s.open)
    <2>1. /\ all \in Seq(Chunk) /\ Len(all) \in Nat /\ Len(s.chunks) \in Nat
          /\ Len(s.chunks) <= Len(all)
          /\ \A i \in 1..Len(s.chunks) : all[i] = s.chunks[i]
          /\ \A i \in 1..Len(all) : i \in 1..Len(s.chunks) \/ (s.open # <<>> /\ all[i] = s.open)
          /\ s.open # <<>> => Len(all) \in 1..Len(all) /\ all[Len(all)] = s.open
      BY <1>19, FlushedIsAdded
    <2>2. chunks = all
      BY <1>18
    <2>. HIDE DEF all
    <2>. QED BY <2>1, <2>2
  <1>21. \A i \in 1..Len(chunks) : ChunkFits(k, h, chunks[i])
    BY <1>19, <1>20 DEF ChunkFits
  <1>22. ASSUME NEW j \in 1..n, NEW w \in Words(ms[j].text)
         PROVE  \E i \in 1..Len(chunks) : Shows(chunks[i], ms[j], w)
    <2>1. CASE Shows(s.open, ms[j], w)
      <3>1. s.open # <<>>
        BY <2>1 DEF Shows
      <3>. QED BY <1>20, <2>1, <3>1
    <2>2. CASE \E i \in 1..Len(s.chunks) : Shows(s.chunks[i], ms[j], w)
      <3>1. PICK i \in 1..Len(s.chunks) : Shows(s.chunks[i], ms[j], w)
        BY <2>2
      <3>2. i \in 1..Len(chunks)
        BY <1>20
      <3>. QED BY <1>20, <3>1, <3>2
    <2>. QED BY <1>19, <2>1, <2>2
  <1>. QED BY <1>20, <1>21, <1>22 DEF chunks, n

\* The record of any kind is shown by its chunks; those of the kinds that are cut fit.
Cutting == {"gmail", "whatsapp", "notebook", "drive"}
LEMMA ChunksShowAll ==
  ASSUME NEW k \in Kind \cup {"history"}, NEW h \in Nat,
         k \notin {"gmail", "whatsapp"} => h = 0,
         NEW ms \in Seq(RecordMessage), k \in Single => Len(ms) <= 1
  PROVE  LET chunks == Chunks(k, h, ms)
         IN  /\ chunks \in Seq(Chunk)
             /\ k \in Cutting => \A i \in 1..Len(chunks) : ChunkFits(k, h, chunks[i])
             /\ \A j \in 1..Len(ms) : \A w \in Words(ms[j].text) :
                  \E i \in 1..Len(chunks) : Shows(chunks[i], ms[j], w)
             /\ k \notin Cutting =>
                  /\ Len(chunks) = Len(ms)
                  /\ \A i \in 1..Len(ms) : chunks[i] = <<Whole(ms[i])>>
PROOF
  <1>. DEFINE chunks == Chunks(k, h, ms)
              Goal == /\ chunks \in Seq(Chunk)
                      /\ k \in Cutting => \A i \in 1..Len(chunks) : ChunkFits(k, h, chunks[i])
                      /\ \A j \in 1..Len(ms) : \A w \in Words(ms[j].text) :
                           \E i \in 1..Len(chunks) : Shows(chunks[i], ms[j], w)
                      /\ k \notin Cutting =>
                           /\ Len(chunks) = Len(ms)
                           /\ \A i \in 1..Len(ms) : chunks[i] = <<Whole(ms[i])>>
  <1>1. CASE ms = <<>>
    <2>1. chunks = <<>>
      BY <1>1 DEF Chunks
    <2>. HIDE DEF chunks
    <2>2. Len(ms) = 0 /\ Len(chunks) = 0 /\ chunks \in Seq(Chunk)
      BY <1>1, <2>1
    <2>3. Goal
      BY <2>2
    <2>. QED BY <2>3 DEF chunks
  <1>2. CASE ms # <<>> /\ k \in {"gmail", "whatsapp"}
    <2>1. chunks = Transcript(k, h, ms)
      <3>1. CASE k = "gmail"
        <4>1. Chunks(k, h, ms) = ThreadTranscript(h, ms)
          BY <1>2, <3>1 DEF Chunks, Single
        <4>2. ThreadTranscript(h, ms) = Transcript("gmail", h, ms)
          BY DEF ThreadTranscript
        <4>. HIDE DEF Goal
        <4>. QED BY <3>1, <4>1, <4>2
      <3>2. CASE k = "whatsapp"
        <4>1. Chunks(k, h, ms) = ChatTranscript(h, ms)
          BY <1>2, <3>2 DEF Chunks, Single
        <4>2. ChatTranscript(h, ms) = Transcript("whatsapp", h, ms)
          BY DEF ChatTranscript
        <4>. HIDE DEF Goal
        <4>. QED BY <3>2, <4>1, <4>2
      <3>. QED BY <1>2, <3>1, <3>2
    <2>2. k # "notebook" /\ k \in Cutting
      BY <1>2 DEF Cutting
    <2>3. /\ Transcript(k, h, ms) \in Seq(Chunk)
          /\ \A i \in 1..Len(Transcript(k, h, ms)) :
               ChunkFits(k, h, Transcript(k, h, ms)[i])
          /\ \A j \in 1..Len(ms) : \A w \in Words(ms[j].text) :
               \E i \in 1..Len(Transcript(k, h, ms)) :
                 Shows(Transcript(k, h, ms)[i], ms[j], w)
      BY <2>2, TranscriptShowsAll
    <2>. HIDE DEF chunks
    <2>4. Goal
      BY <2>1, <2>2, <2>3
    <2>. QED BY <2>4 DEF chunks
  <1>3. CASE ms # <<>> /\ k \in Single
    <2>. DEFINE m == ms[1]
    <2>1. chunks = Alone(k, m, ChunkMaxChars)
      BY <1>3 DEF Chunks, Single
    <2>2. h = 0 /\ k \in Cutting /\ Len(ms) = 1 /\ m \in RecordMessage
      <3>1. Len(ms) # 0 /\ Len(ms) \in Nat
        BY <1>3
      <3>2. Len(ms) = 1
        <4>. DEFINE l == Len(ms)
        <4>1. l <= 1 /\ l # 0 /\ l \in Nat
          BY <1>3, <3>1
        <4>. HIDE DEF l
        <4>2. l = 1
          BY <4>1
        <4>. QED BY <4>2 DEF l
      <3>. QED BY <1>3, <3>2 DEF Single, Cutting
    <2>3. ChunkMaxChars - h = ChunkMaxChars
      BY <2>2, ChunkAssumption
    <2>. HIDE DEF m
    <2>4. /\ Alone(k, m, ChunkMaxChars - h) \in Seq(Chunk)
          /\ \A i \in 1..Len(Alone(k, m, ChunkMaxChars - h)) :
               ChunkFits(k, h, Alone(k, m, ChunkMaxChars - h)[i])
          /\ \A w \in Words(m.text) : \E i \in 1..Len(Alone(k, m, ChunkMaxChars - h)) :
               Shows(Alone(k, m, ChunkMaxChars - h)[i], m, w)
      BY <2>2, AloneShowsAll
    <2>5. chunks = Alone(k, m, ChunkMaxChars - h)
      BY <2>1, <2>3
    <2>. HIDE DEF chunks
    <2>6. \A j \in 1..Len(ms) : ms[j] = m
      BY <2>2 DEF m
    <2>7. Goal
      BY <2>2, <2>4, <2>5, <2>6
    <2>. QED BY <2>7 DEF chunks
  <1>4. CASE ms # <<>> /\ k \notin Cutting
    <2>. DEFINE n == Len(ms)
    <2>1. chunks = [i \in 1..n |-> <<Whole(ms[i])>>]
      BY <1>4 DEF Chunks, Single, Cutting
    <2>2. \A i \in 1..n : ms[i] \in RecordMessage /\ <<Whole(ms[i])>> \in Chunk
      <3>1. \A i \in 1..n : ms[i] \in RecordMessage
        OBVIOUS
      <3>. QED BY <3>1, WholeShowsAll
    <2>. HIDE DEF chunks
    <2>3. chunks \in Seq(Chunk) /\ Len(chunks) = n
          /\ \A i \in 1..n : chunks[i] = <<Whole(ms[i])>>
      BY <2>1, <2>2, IsASeq
    <2>4. \A j \in 1..n : \A w \in Words(ms[j].text) : Shows(chunks[j], ms[j], w)
      BY <2>2, <2>3, WholeShowsAll
    <2>5. Goal
      BY <1>4, <2>3, <2>4
    <2>. QED BY <2>5 DEF chunks
  <1>. QED BY <1>1, <1>2, <1>3, <1>4 DEF Single, Cutting

-----------------------------------------------------------------------------
(* The messages of a record and the rows of its chunks.                      *)

\* Whether a pass takes what is in a slot for a message.
Taken(k, content, s) ==
  content[s] # NoText /\ (k = "whatsapp" => content[s].size > ShortMessage)

\* The messages are what is in the slots taken, each once.
LEMMA MessagesAreTaken ==
  ASSUME NEW k, NEW content \in [Slot -> Text \cup {NoText}]
  PROVE  LET ms == Messages(k, content)
         IN  /\ ms \in Seq(RecordMessage)
             /\ \A j \in 1..Len(ms) : Taken(k, content, ms[j].slot)
             /\ \A i, j \in 1..Len(ms) : ms[i].slot = ms[j].slot => i = j
             /\ \A s \in Slot : Taken(k, content, s) =>
                  \E j \in 1..Len(ms) : ms[j] = [slot |-> s, text |-> content[s]]
PROOF
  <1>. DEFINE taken == {s \in Slot : content[s] # NoText
                                       /\ (k = "whatsapp" => content[s].size > ShortMessage)}
              before == {p \in Slot \X Slot : p[1] < p[2]}
              order == Sorted(taken, before)
              n == Cardinality(taken)
              ms == Messages(k, content)
  <1>1. Slots \in Nat
    BY IndexingAssumption
  <1>2. taken \in SUBSET Slot /\ IsFiniteSet(taken) /\ \A s \in Slot : s \in Nat
    <2>1. IsFiniteSet(Slot)
      BY <1>1, FS_Interval DEF Slot
    <2>2. taken \in SUBSET Slot
      OBVIOUS
    <2>. QED BY <1>1, <2>1, <2>2, FS_Subset DEF Slot
  <1>3. IsTotalOrder(before, taken)
    <2>1. \A x, y \in Slot : <<x, y>> \in before <=> x < y
      OBVIOUS
    <2>. HIDE DEF before, taken
    <2>. QED BY <1>2, <2>1 DEF IsTotalOrder
  <1>4. ms = [i \in 1..n |-> [slot |-> order[i], text |-> content[order[i]]]]
    BY DEF Messages
  <1>5. \A s \in Slot : s \in taken <=> Taken(k, content, s)
    BY DEF Taken
  <1>. HIDE DEF taken, before
  <1>6. /\ order \in Seq(taken) /\ Len(order) = n /\ n \in Nat
        /\ \A i \in 1..n : order[i] \in taken /\ Rank(order[i], taken, before) = i - 1
        /\ \A s \in taken : /\ Rank(s, taken, before) + 1 \in 1..n
                            /\ order[Rank(s, taken, before) + 1] = s
    BY <1>2, <1>3, SortedHasAll
  <1>. HIDE DEF order, n, ms
  <1>7. \A i \in 1..n : /\ ms[i] = [slot |-> order[i], text |-> content[order[i]]]
                        /\ ms[i].slot = order[i] /\ ms[i] \in RecordMessage
    <2>. TAKE i \in 1..n
    <2>1. ms[i] = [slot |-> order[i], text |-> content[order[i]]]
      BY <1>4
    <2>2. order[i] \in Slot /\ content[order[i]] \in Text
      BY <1>2, <1>5, <1>6 DEF Taken
    <2>. QED BY <2>1, <2>2 DEF RecordMessage
  <1>8. ms \in Seq(RecordMessage) /\ Len(ms) = n
    BY <1>4, <1>6, <1>7, IsASeq
  <1>9. \A i, j \in 1..n : order[i] = order[j] => i = j
    BY <1>6
  <1>10. \A s \in Slot : Taken(k, content, s) =>
           \E j \in 1..n : ms[j] = [slot |-> s, text |-> content[s]]
    BY <1>5, <1>6, <1>7
  <1>11. \A j \in 1..n : Taken(k, content, ms[j].slot)
    BY <1>2, <1>5, <1>6, <1>7
  <1>. QED BY <1>7, <1>8, <1>9, <1>10, <1>11 DEF ms

\* The rows of a record are of its chunks; but for documents each chunk that is kept has one.
LEMMA EntriesAreChunks ==
  ASSUME NEW chunks \in Seq(Chunk)
  PROVE  LET rows == Entries(chunks)
         IN  /\ \A key \in DOMAIN rows : \E i \in 1..Len(chunks) : rows[key] = chunks[i]
             /\ (\A i, j \in 1..Len(chunks) : KeyOf(chunks, i) = KeyOf(chunks, j) => i = j) =>
                  \A i \in 1..Len(chunks) : Kept(chunks[i]) =>
                    \E key \in DOMAIN rows : rows[key] = chunks[i]
PROOF
  <1>. DEFINE kept == {i \in 1..Len(chunks) : Kept(chunks[i])}
              keys == {KeyOf(chunks, i) : i \in kept}
              Of(key) == {i \in kept : KeyOf(chunks, i) = key}
              rows == Entries(chunks)
  <1>1. rows = [key \in keys |-> chunks[Max(Of(key))]]
    BY DEF Entries
  <1>2. ASSUME NEW key \in keys  PROVE Max(Of(key)) \in Of(key)
    <2>1. Of(key) # {} /\ Of(key) \in SUBSET (0..Len(chunks)) /\ Len(chunks) \in Nat
      OBVIOUS
    <2>. HIDE DEF Of
    <2>. QED BY <2>1, MaxIsGreatest
  <1>. HIDE DEF rows
  <1>3. DOMAIN rows = keys /\ \A key \in keys : rows[key] = chunks[Max(Of(key))]
    BY <1>1
  <1>4. \A key \in keys : Max(Of(key)) \in 1..Len(chunks)
    BY <1>2
  <1>5. ASSUME \A i, j \in 1..Len(chunks) : KeyOf(chunks, i) = KeyOf(chunks, j) => i = j,
               NEW i \in 1..Len(chunks), Kept(chunks[i])
        PROVE  \E key \in DOMAIN rows : rows[key] = chunks[i]
    <2>. DEFINE key == KeyOf(chunks, i)
    <2>1. key \in keys
      BY <1>5
    <2>2. KeyOf(chunks, Max(Of(key))) = key /\ Max(Of(key)) \in 1..Len(chunks)
      BY <1>2, <2>1
    <2>3. Max(Of(key)) = i
      BY <1>5, <2>2
    <2>. HIDE DEF keys, Of
    <2>. QED BY <1>3, <2>1, <2>3
  <1>. HIDE DEF keys, Of
  <1>6. \A key \in DOMAIN rows : \E i \in 1..Len(chunks) : rows[key] = chunks[i]
    BY <1>3, <1>4
  <1>. QED BY <1>5, <1>6 DEF rows

-----------------------------------------------------------------------------
(* Passes.                                                                   *)

\* The rows of a record that has been read: what they are of, the texts they show, and
\* their keys.
LEMMA RowsShowAll ==
  ASSUME kind \in Kind \cup {"history"}, header \in Nat,
         kind \notin {"gmail", "whatsapp"} => header = 0,
         NEW content \in [Slot -> Text \cup {NoText}],
         kind \in Single => \A s \in Slot : content[s] # NoText => s = 1
  PROVE  LET chunks == Chunks(kind, header, Messages(kind, content))
             rows == Entries(chunks)
         IN  /\ DOMAIN rows \subseteq Nat
             /\ kind \in Cutting => \A key \in DOMAIN rows : ChunkFits(kind, header, rows[key])
             /\ kind # "drive" =>
                  \A s \in Slot : Taken(kind, content, s) =>
                    \A w \in Words(content[s]) :
                      \E i \in 1..Len(chunks) :
                        /\ Shows(chunks[i], [slot |-> s, text |-> content[s]], w)
                        /\ Kept(chunks[i]) => \E key \in DOMAIN rows : rows[key] = chunks[i]
PROOF
  <1>. DEFINE ms == Messages(kind, content)
              chunks == Chunks(kind, header, ms)
              rows == Entries(chunks)
  <1>1. /\ ms \in Seq(RecordMessage)
        /\ \A j \in 1..Len(ms) : Taken(kind, content, ms[j].slot)
        /\ \A i, j \in 1..Len(ms) : ms[i].slot = ms[j].slot => i = j
        /\ \A s \in Slot : Taken(kind, content, s) =>
             \E j \in 1..Len(ms) : ms[j] = [slot |-> s, text |-> content[s]]
    BY MessagesAreTaken
  <1>. HIDE DEF ms
  <1>2. \A j \in 1..Len(ms) : ms[j] \in RecordMessage /\ ms[j].slot \in Slot
    <2>1. \A j \in 1..Len(ms) : ms[j] \in RecordMessage
      BY <1>1
    <2>. QED BY <2>1 DEF RecordMessage
  <1>3. kind \in Single => Len(ms) <= 1
    <2>. SUFFICES ASSUME kind \in Single, Len(ms) > 1  PROVE FALSE
      <3>1. Len(ms) \in Nat
        BY <1>1
      <3>. QED BY <3>1
    <2>1. Len(ms) \in Nat /\ 1 \in 1..Len(ms) /\ 2 \in 1..Len(ms)
      BY <1>1
    <2>2. ms[1].slot = 1 /\ ms[2].slot = 1
      BY <1>1, <1>2, <2>1 DEF Taken
    <2>3. \A i, j \in 1..Len(ms) : ms[i].slot = ms[j].slot => i = j
      BY <1>1
    <2>. QED BY <2>1, <2>2, <2>3
  <1>4. /\ chunks \in Seq(Chunk)
        /\ kind \in Cutting => \A i \in 1..Len(chunks) : ChunkFits(kind, header, chunks[i])
        /\ \A j \in 1..Len(ms) : \A w \in Words(ms[j].text) :
             \E i \in 1..Len(chunks) : Shows(chunks[i], ms[j], w)
        /\ kind \notin Cutting =>
             /\ Len(chunks) = Len(ms)
             /\ \A i \in 1..Len(ms) : chunks[i] = <<Whole(ms[i])>>
    BY <1>1, <1>3, ChunksShowAll
  <1>. HIDE DEF chunks
  <1>5. /\ \A key \in DOMAIN rows : \E i \in 1..Len(chunks) : rows[key] = chunks[i]
        /\ (\A i, j \in 1..Len(chunks) : KeyOf(chunks, i) = KeyOf(chunks, j) => i = j) =>
             \A i \in 1..Len(chunks) : Kept(chunks[i]) =>
               \E key \in DOMAIN rows : rows[key] = chunks[i]
    BY <1>4, EntriesAreChunks
  <1>6. kind \notin Cutting => \A i \in 1..Len(chunks) : chunks[i][1].slot = ms[i].slot
    <2>. SUFFICES ASSUME kind \notin Cutting, NEW i \in 1..Len(chunks)
                  PROVE  chunks[i][1].slot = ms[i].slot
      OBVIOUS
    <2>1. i \in 1..Len(ms) /\ chunks[i] = <<Whole(ms[i])>>
      BY <1>4
    <2>2. Whole(ms[i]).slot = ms[i].slot
      BY <1>2, <2>1, WholeShowsAll
    <2>. QED BY <2>1, <2>2
  <1>7. kind # "drive" =>
          \A i, j \in 1..Len(chunks) : KeyOf(chunks, i) = KeyOf(chunks, j) => i = j
    <2>1. CASE kind \in {"rows", "history"}
      <3>1. kind \notin Cutting
        BY <2>1 DEF Cutting
      <3>2. \A i \in 1..Len(chunks) : KeyOf(chunks, i) = ms[i].slot
        BY <1>6, <2>1, <3>1 DEF KeyOf
      <3>3. Len(chunks) = Len(ms)
        BY <1>4, <3>1
      <3>. QED BY <1>1, <3>2, <3>3
    <2>2. CASE kind \notin {"rows", "history", "drive"}
      BY <2>2 DEF KeyOf
    <2>. QED BY <2>1, <2>2
  <1>8. DOMAIN rows \subseteq Nat
    <2>1. \A i \in 1..Len(chunks) : KeyOf(chunks, i) \in Nat
      <3>. TAKE i \in 1..Len(chunks)
      <3>1. CASE kind \in {"rows", "history"}
        <4>1. kind \notin Cutting
          BY <3>1 DEF Cutting
        <4>2. KeyOf(chunks, i) = ms[i].slot /\ i \in 1..Len(ms)
          BY <1>4, <1>6, <3>1, <4>1 DEF KeyOf
        <4>3. Slot \subseteq Nat
          BY IndexingAssumption DEF Slot
        <4>. QED BY <1>2, <4>2, <4>3
      <3>2. CASE kind = "drive"
        BY <3>2 DEF KeyOf
      <3>3. CASE kind \notin {"rows", "history", "drive"}
        BY <3>3 DEF KeyOf
      <3>. QED BY <3>1, <3>2, <3>3
    <2>. QED BY <2>1 DEF Entries
  <1>. HIDE DEF rows
  <1>9. kind \in Cutting => \A key \in DOMAIN rows : ChunkFits(kind, header, rows[key])
    BY <1>4, <1>5
  <1>10. ASSUME kind # "drive", NEW s \in Slot, Taken(kind, content, s),
                NEW w \in Words(content[s])
         PROVE  \E i \in 1..Len(chunks) :
                  /\ Shows(chunks[i], [slot |-> s, text |-> content[s]], w)
                  /\ Kept(chunks[i]) => \E key \in DOMAIN rows : rows[key] = chunks[i]
    <2>1. PICK j \in 1..Len(ms) : ms[j] = [slot |-> s, text |-> content[s]]
      BY <1>1, <1>10
    <2>2. w \in Words(ms[j].text)
      BY <2>1
    <2>3. PICK i \in 1..Len(chunks) : Shows(chunks[i], ms[j], w)
      BY <1>4, <2>2
    <2>. QED BY <1>5, <1>7, <1>10, <2>1, <2>3
  <1>. QED BY <1>8, <1>9, <1>10 DEF rows, chunks, ms

\* What a pass relies on: a header is of threads and chats only, and a record that is
\* one text has it in slot 1.
RecordOK ==
  /\ TypeOK
  /\ kind \notin {"gmail", "whatsapp"} => header = 0
  /\ \A s \in Slot : ~Used(s) => text[s] = NoText

\* The invariant: with it, the properties.
IndexingOK == RecordOK /\ ReadTextIsFound /\ ChunksFit

\* Types that the proofs use.
LEMMA RecordTypes ==
  ASSUME TypeOK
  PROVE  /\ kind \in Kind \cup {"history"} /\ header \in Nat /\ now \in Nat
         /\ \A s \in Slot : text[s] # NoText => text[s] \in Text /\ text[s].size \in Nat
BY IndexingAssumption, TextHasWords DEF TypeOK

\* What a pass reads is typed; a text that it leaves out is one that it could not see, and
\* of slots without a text it reads nothing.
LEMMA ReadIsSeen ==
  ASSUME RecordOK, Read, UNCHANGED <<kind, header, now, text, written, touched>>
  PROVE  LET content == IF kind \in ReadInPlace THEN text ELSE Cached'
         IN  /\ copy' \in [Slot -> [content : Text \cup {NoText}, at : 0..MaxTime, size : Nat]]
             /\ copied' \in 0..MaxTime /\ meta' \in [source : 0..MaxTime, at : 0..MaxTime]
             /\ faults' \in 0..MaxFault
             /\ content \in [Slot -> Text \cup {NoText}]
             /\ \A s \in Slot : text[s] # NoText => content[s] = text[s] \/ Unseen(s)'
             /\ kind = "notebook" => \A s \in Slot : text[s] = NoText => content[s] = NoText
PROOF
  <1>. DEFINE File == [content : Text \cup {NoText}, at : 0..MaxTime, size : Nat]
              content == IF kind \in ReadInPlace THEN text ELSE Cached'
              Typed == /\ copy' \in [Slot -> File]
                       /\ copied' \in 0..MaxTime
                       /\ meta' \in [source : 0..MaxTime, at : 0..MaxTime]
              Seen == \A s \in Slot : text[s] # NoText => content[s] = text[s] \/ Unseen(s)'
              None == kind = "notebook" => \A s \in Slot : text[s] = NoText => content[s] = NoText
  <1>0. TypeOK /\ kind \in Kind \cup {"history"}
    BY RecordTypes DEF RecordOK
  <1>1. /\ copy \in [Slot -> File] /\ text \in [Slot -> Text \cup {NoText}]
        /\ written \in [Slot -> 0..MaxTime] /\ copied \in 0..MaxTime /\ now \in 0..MaxTime
        /\ touched \in 0..MaxTime /\ meta \in [source : 0..MaxTime, at : 0..MaxTime]
        /\ 0 \in 0..MaxTime /\ faults \in 0..MaxFault /\ MaxFault \in Nat
    BY <1>0, IndexingAssumption DEF TypeOK
  <1>2. faults' \in 0..MaxFault
    BY <1>1 DEF Read
  <1>3. NoCopy \in File
    BY <1>1 DEF NoCopy
  <1>4. Typed => content \in [Slot -> Text \cup {NoText}]
    <2>. SUFFICES ASSUME Typed  PROVE content \in [Slot -> Text \cup {NoText}]
      OBVIOUS
    <2>1. \A s \in Slot : copy'[s].content \in Text \cup {NoText}
      OBVIOUS
    <2>2. Cached' = [s \in Slot |-> copy'[s].content]
      BY DEF Cached
    <2>. QED BY <1>1, <2>1, <2>2
  <1>5. ASSUME kind = "notebook", NEW failed \in SUBSET Slot, Scan(failed)
        PROVE  Typed /\ Seen /\ None
    <2>1. content = [s \in Slot |-> copy'[s].content]
      BY <1>5 DEF ReadInPlace, Cached
    <2>2. copy' = [s \in Slot |-> IF text[s] = NoText THEN NoCopy
                                  ELSE IF CacheHit(s) THEN copy[s] ELSE Extracted(s, failed)]
      BY <1>5 DEF Scan
    <2>3. ASSUME NEW s \in Slot, text[s] # NoText
          PROVE  Extracted(s, failed) \in File
      <3>1. text[s] \in Text \cup {NoText} /\ text[s].size \in Nat /\ written[s] \in 0..MaxTime
        BY <1>0, <1>1, <2>3, RecordTypes
      <3>2. (IF s \in failed THEN NoText ELSE text[s]) \in Text \cup {NoText}
        BY <3>1
      <3>. QED BY <3>1, <3>2 DEF Extracted
    <2>4. \A s \in Slot : copy'[s] \in File
      BY <1>1, <1>3, <2>2, <2>3
    <2>5. copy' \in [Slot -> File]
      BY <2>2, <2>4
    <2>6. Typed
      BY <1>1, <1>5, <2>5 DEF Scan
    <2>7. ASSUME NEW s \in Slot, text[s] # NoText, content[s] # text[s]  PROVE Unseen(s)'
      <3>1. content[s] = copy'[s].content
        BY <2>1
      <3>2. CASE CacheHit(s)
        <4>1. copy'[s] = copy[s]
          BY <2>2, <2>7, <3>2
        <4>. QED BY <1>5, <2>7, <3>1, <3>2, <4>1 DEF Unseen, CacheHit
      <3>3. CASE ~CacheHit(s)
        <4>1. copy'[s] = Extracted(s, failed)
          BY <2>2, <2>7, <3>3
        <4>2. copy'[s].at = written[s] /\ copy'[s].size = text[s].size
          BY <4>1 DEF Extracted
        <4>. QED BY <1>5, <2>7, <3>1, <4>2 DEF Unseen
      <3>. QED BY <3>2, <3>3
    <2>8. \A s \in Slot : text[s] = NoText => content[s] = NoText
      BY <2>1, <2>2 DEF NoCopy
    <2>. HIDE DEF Typed, content
    <2>. QED BY <2>6, <2>7, <2>8
  <1>6. ASSUME kind = "history", Refresh
        PROVE  Typed /\ Seen /\ None
    <2>1. content = [s \in Slot |-> copy'[s].content]
      BY <1>6 DEF ReadInPlace, Cached
    <2>2. CASE Needed
      <3>1. /\ copy' = [s \in Slot |-> [NoCopy EXCEPT !.content = text[s]]]
            /\ copied' = now /\ meta' = [source |-> touched, at |-> now]
        BY <1>6, <2>2 DEF Refresh, Snapshot
      <3>2. \A s \in Slot : [NoCopy EXCEPT !.content = text[s]]
                              = [content |-> text[s], at |-> 0, size |-> 0]
        BY DEF NoCopy
      <3>3. \A s \in Slot : copy'[s] = [content |-> text[s], at |-> 0, size |-> 0]
        BY <3>1, <3>2
      <3>4. copy' \in [Slot -> File]
        <4>1. \A s \in Slot : [content |-> text[s], at |-> 0, size |-> 0] \in File
          BY <1>1
        <4>. QED BY <3>1, <3>2, <4>1
      <3>5. Typed
        BY <1>1, <3>1, <3>4
      <3>6. \A s \in Slot : content[s] = text[s]
        <4>. HIDE DEF content
        <4>1. \A s \in Slot : content[s] = copy'[s].content
          BY <2>1
        <4>2. \A s \in Slot : [content |-> text[s], at |-> 0, size |-> 0].content = text[s]
          OBVIOUS
        <4>. QED BY <3>3, <4>1, <4>2
      <3>. HIDE DEF content, Typed
      <3>. QED BY <1>6, <3>5, <3>6
    <2>3. CASE ~Needed
      <3>1. copy' = copy /\ copied' = copied /\ meta' = meta
        BY <1>6, <2>3 DEF Refresh
      <3>2. Typed
        BY <1>1, <3>1
      <3>3. meta'.source = touched'
        BY <2>3, <3>1 DEF Needed
      <3>4. Seen
        BY <1>6, <2>1, <3>3 DEF Unseen
      <3>. QED BY <1>6, <3>2, <3>4
    <2>. QED BY <2>2, <2>3
  <1>7. ASSUME kind \in ReadInPlace, UNCHANGED <<copy, copied, meta>>
        PROVE  Typed /\ Seen /\ None
    BY <1>1, <1>7 DEF ReadInPlace
  <1>. HIDE DEF Typed, Seen, None
  <1>8. Typed /\ Seen /\ None
    BY <1>5, <1>6, <1>7 DEF Read
  <1>. QED BY <1>2, <1>4, <1>8 DEF Typed, Seen, None

\* A pass keeps the types, and what it has read is found and fits.
LEMMA PassFindsAll ==
  ASSUME IndexingOK, NEW full \in BOOLEAN, Pass(full)
  PROVE  IndexingOK'
PROOF
  <1>. DEFINE content == IF kind \in ReadInPlace THEN text ELSE Cached'
              chunks == Chunks(kind, header, Messages(kind, content))
              rows == Entries(chunks)
  <1>0. RecordOK /\ TypeOK /\ ChunksFit
    BY DEF IndexingOK, RecordOK
  <1>1. /\ Read /\ UNCHANGED <<kind, header, now, text, written, touched, watermark, changes>>
        /\ at' = "stamp" /\ current' = TRUE /\ overtaken' = FALSE
        /\ index' = IF full THEN rows ELSE Upserted(rows, index)
    BY DEF Pass
  <1>2. /\ copy' \in [Slot -> [content : Text \cup {NoText}, at : 0..MaxTime, size : Nat]]
        /\ copied' \in 0..MaxTime /\ meta' \in [source : 0..MaxTime, at : 0..MaxTime]
        /\ faults' \in 0..MaxFault
        /\ content \in [Slot -> Text \cup {NoText}]
        /\ \A s \in Slot : text[s] # NoText => content[s] = text[s] \/ Unseen(s)'
        /\ kind = "notebook" => \A s \in Slot : text[s] = NoText => content[s] = NoText
    BY <1>0, <1>1, ReadIsSeen
  <1>3. /\ kind \in Kind \cup {"history"} /\ header \in Nat
        /\ kind \notin {"gmail", "whatsapp"} => header = 0
        /\ kind \in Single => \A s \in Slot : content[s] # NoText => s = 1
    <2>1. ASSUME kind \in Single, NEW s \in Slot, s # 1  PROVE content[s] = NoText
      <3>1. text[s] = NoText
        BY <1>0, <2>1 DEF RecordOK, Used
      <3>2. CASE kind = "notebook"
        <4>. HIDE DEF content
        <4>. QED BY <1>2, <3>1, <3>2
      <3>3. CASE kind = "drive"
        BY <3>1, <3>3 DEF ReadInPlace
      <3>. QED BY <2>1, <3>2, <3>3 DEF Single
    <2>. HIDE DEF content
    <2>. QED BY <1>0, <2>1, RecordTypes DEF RecordOK
  <1>4. kind \in ReadInPlace => content = text
    OBVIOUS
  <1>. HIDE DEF content
  <1>5. /\ DOMAIN rows \subseteq Nat
        /\ kind \in Cutting => \A key \in DOMAIN rows : ChunkFits(kind, header, rows[key])
        /\ kind # "drive" =>
             \A s \in Slot : Taken(kind, content, s) =>
               \A w \in Words(content[s]) :
                 \E i \in 1..Len(chunks) :
                   /\ Shows(chunks[i], [slot |-> s, text |-> content[s]], w)
                   /\ Kept(chunks[i]) => \E key \in DOMAIN rows : rows[key] = chunks[i]
    BY <1>2, <1>3, RowsShowAll
  <1>6. /\ \A key \in DOMAIN index' : \/ key \in DOMAIN rows /\ index'[key] = rows[key]
                                      \/ key \in DOMAIN index /\ index'[key] = index[key]
        /\ \A key \in DOMAIN rows : key \in DOMAIN index' /\ index'[key] = rows[key]
        /\ DOMAIN index' \subseteq DOMAIN rows \cup DOMAIN index
    <2>. HIDE DEF rows
    <2>. QED BY <1>1 DEF Upserted
  <1>7. TypeOK'
    <2>. HIDE DEF rows
    <2>1. DOMAIN index' \subseteq Nat
      BY <1>0, <1>5, <1>6 DEF TypeOK
    <2>. QED BY <1>0, <1>1, <1>2, <2>1 DEF TypeOK
  <1>8. RecordOK'
    BY <1>0, <1>1, <1>7 DEF RecordOK, Used, Slot
  <1>9. ChunksFit'
    <2>. SUFFICES ASSUME kind \in Cutting, NEW key \in DOMAIN index'
                  PROVE  ChunkFits(kind, header, index'[key])
      BY <1>1 DEF ChunksFit, ChunkFits, Cutting
    <2>1. \A old \in DOMAIN index : ChunkFits(kind, header, index[old])
      BY <1>0 DEF ChunksFit, ChunkFits, Cutting
    <2>. HIDE DEF rows
    <2>. QED BY <1>5, <1>6, <2>1
  <1>10. ReadTextIsFound'
    <2>. SUFFICES ASSUME kind # "drive", NEW s \in Slot, text[s] # NoText, ~Unseen(s)',
                         ~(kind = "whatsapp" /\ text[s].size <= ShortMessage)
                  PROVE  (Words(text[s]) \subseteq
                            UNION {Shown(s, c) : c \in {index[k] : k \in DOMAIN index} \cup LeftOut})'
      BY <1>1 DEF ReadTextIsFound, AllFound, Words
    <2>1. content[s] = text[s] /\ text[s].size \in Nat /\ ShortMessage \in Nat
      BY <1>0, <1>2, RecordTypes, IndexingAssumption
    <2>2. Taken(kind, content, s)
      BY <2>1 DEF Taken
    <2>3. ASSUME NEW w \in Words(text[s])
          PROVE  \E c \in ({index[k] : k \in DOMAIN index} \cup LeftOut)' : w \in Shown(s, c)'
      <3>1. PICK i \in 1..Len(chunks) :
              /\ Shows(chunks[i], [slot |-> s, text |-> text[s]], w)
              /\ Kept(chunks[i]) => \E key \in DOMAIN rows : rows[key] = chunks[i]
        BY <1>5, <2>1, <2>2
      <3>2. PICK all, c : all = chunks /\ c = all[i]
        OBVIOUS
      <3>. HIDE DEF rows, chunks
      <3>3. w \in Shown(s, c)'
        <4>1. PICK j \in 1..Len(c) :
                c[j].slot = s /\ c[j].text = text[s] /\ w \in c[j].from..c[j].to
          BY <3>1, <3>2 DEF Shows
        <4>2. j \in {l \in 1..Len(c) : c[l].slot = s /\ c[l].text = text'[s]}
          BY <1>1, <4>1
        <4>. QED BY <4>1, <4>2 DEF Shown
      <3>4. CASE Kept(c)
        <4>1. PICK key \in DOMAIN rows : rows[key] = c
          BY <3>1, <3>2, <3>4
        <4>2. key \in DOMAIN index' /\ index'[key] = c
          BY <1>6, <4>1
        <4>3. c \in {index'[k] : k \in DOMAIN index'}
          BY <4>2
        <4>. QED BY <3>3, <4>3
      <3>5. CASE ~Kept(c)
        <4>1. kind \in ReadInPlace
          BY <1>3, <3>5 DEF Kept, ReadInPlace
        <4>2. all = Chunks(kind, header, Messages(kind, text))'
          BY <1>1, <1>4, <3>2, <4>1 DEF chunks
        <4>3. ~Kept(c)'
          BY <1>1, <3>5 DEF Kept
        <4>4. i \in {j \in 1..Len(all) : ~Kept(all[j])'}
          BY <3>2, <4>3
        <4>5. LeftOut' = {all[l] : l \in {j \in 1..Len(all) : ~Kept(all[j])'}}
          BY <4>2 DEF LeftOut
        <4>6. c \in LeftOut'
          BY <3>2, <4>4, <4>5
        <4>. QED BY <3>3, <4>6
      <3>. QED BY <3>4, <3>5
    <2>. QED BY <1>1, <2>3
  <1>. QED BY <1>8, <1>9, <1>10 DEF IndexingOK

\* The invariant holds in the beginning and after every step.
LEMMA IndexingStays ==
  /\ Init => IndexingOK
  /\ IndexingOK /\ [Next]_vars => IndexingOK'
PROOF
  <1>1. ASSUME Init  PROVE IndexingOK
    <2>1. kind \in Kinds /\ header \in Headers \cup {0}
      BY <1>1 DEF Init
    <2>2. 1 \in 1..MaxTime /\ 0 \in 0..MaxTime /\ 1 \in 0..MaxTime /\ 0 \in 0..MaxChange
            /\ 0 \in 0..MaxFault
      BY IndexingAssumption
    <2>3. NoCopy \in [content : Text \cup {NoText}, at : 0..MaxTime, size : Nat]
            /\ NoMeta \in [source : 0..MaxTime, at : 0..MaxTime]
      BY <2>2 DEF NoCopy, NoMeta
    <2>4. TypeOK
      BY <1>1, <2>1, <2>2, <2>3 DEF Init, TypeOK
    <2>5. RecordOK
      BY <1>1, <2>4 DEF Init, RecordOK
    <2>6. DOMAIN index = {} /\ current = FALSE
      BY <1>1 DEF Init
    <2>. QED BY <2>5, <2>6 DEF IndexingOK, ReadTextIsFound, ChunksFit
  <1>2. ASSUME IndexingOK, [Next]_vars  PROVE IndexingOK'
    <2>0. RecordOK /\ TypeOK /\ MaxTime \in Nat /\ MaxChange \in Nat /\ MaxFault \in Nat
      BY <1>2, IndexingAssumption DEF IndexingOK, RecordOK
    <2>1. ASSUME UNCHANGED <<kind, header, text, index, copy, written, meta, touched, current>>,
                 TypeOK'
          PROVE  IndexingOK'
      <3>1. RecordOK'
        BY <1>2, <2>1 DEF IndexingOK, RecordOK, Used, Slot
      <3>2. ChunksFit'
        BY <1>2, <2>1 DEF IndexingOK, ChunksFit
      <3>3. \A s \in Slot : Unseen(s) => Unseen(s)'
        BY <2>1 DEF Unseen
      <3>4. LeftOut' = LeftOut
        BY <2>1 DEF LeftOut, Kept
      <3>5. \A s, c : Shown(s, c)' = Shown(s, c)
        BY <2>1 DEF Shown
      <3>6. ReadTextIsFound'
        BY <1>2, <2>1, <3>3, <3>4, <3>5 DEF IndexingOK, ReadTextIsFound, AllFound
      <3>. QED BY <3>1, <3>2, <3>6 DEF IndexingOK
    <2>2. ASSUME UNCHANGED <<kind, header, index>>, current' = FALSE, TypeOK',
                 \A s \in Slot : ~Used(s) => text'[s] = NoText
          PROVE  IndexingOK'
      <3>1. RecordOK'
        BY <1>2, <2>2 DEF IndexingOK, RecordOK, Used, Slot
      <3>2. ChunksFit'
        BY <1>2, <2>2 DEF IndexingOK, ChunksFit
      <3>. QED BY <2>2, <3>1, <3>2 DEF IndexingOK, ReadTextIsFound
    <2>3. CASE Tick
      <3>1. TypeOK'
        BY <2>0, <2>3 DEF Tick, TypeOK
      <3>. QED BY <2>1, <2>3, <3>1 DEF Tick
    <2>4. CASE Restart
      <3>1. NoMeta \in [source : 0..MaxTime, at : 0..MaxTime]
        BY <2>0 DEF NoMeta
      <3>2. faults' \in 0..MaxFault
        BY <2>0, <2>4 DEF Restart, TypeOK
      <3>3. TypeOK'
        BY <2>0, <2>4, <3>1, <3>2 DEF Restart, TypeOK
      <3>. QED BY <2>0, <2>2, <2>4, <3>3 DEF Restart, RecordOK
    <2>5. ASSUME NEW s \in Slot, Change(s)  PROVE IndexingOK'
      <3>1. now \in 0..MaxTime /\ now \in Nat
        BY <2>0 DEF TypeOK
      <3>2. TypeOK'
        <4>1. text' \in [Slot -> Text \cup {NoText}] /\ written' \in [Slot -> 0..MaxTime]
          BY <2>0, <2>5, <3>1 DEF TypeOK, Change
        <4>2. touched' \in 0..MaxTime /\ changes' \in 0..MaxChange /\ overtaken' \in BOOLEAN
          BY <2>0, <2>5, <3>1 DEF TypeOK, Change
        <4>. QED BY <2>0, <2>5, <4>1, <4>2 DEF TypeOK, Change
      <3>3. \A t \in Slot : ~Used(t) => text'[t] = NoText
        BY <2>0, <2>5 DEF Change, RecordOK, TypeOK
      <3>. QED BY <2>2, <2>5, <3>2, <3>3 DEF Change
    <2>6. CASE Pass(TRUE) \/ Pass(FALSE)
      BY <1>2, <2>6, PassFindsAll
    <2>7. CASE CopyFails
      <3>1. copy' \in [Slot -> [content : Text \cup {NoText}, at : 0..MaxTime, size : Nat]]
              /\ copied' \in 0..MaxTime
        <4>1. CASE Snapshot
          <5>1. \A t \in Slot : [NoCopy EXCEPT !.content = text[t]]
                                  \in [content : Text \cup {NoText}, at : 0..MaxTime, size : Nat]
            BY <2>0 DEF TypeOK, NoCopy
          <5>2. now \in 0..MaxTime
            BY <2>0 DEF TypeOK
          <5>. QED BY <4>1, <5>1, <5>2 DEF Snapshot
        <4>2. CASE UNCHANGED <<copy, copied>>
          BY <2>0, <4>2 DEF TypeOK
        <4>. QED BY <2>7, <4>1, <4>2 DEF CopyFails
      <3>2. faults' \in 0..MaxFault
        BY <2>0, <2>7 DEF CopyFails, TypeOK
      <3>3. TypeOK'
        BY <2>0, <2>7, <3>1, <3>2 DEF CopyFails, TypeOK
      <3>. QED BY <2>0, <2>2, <2>7, <3>3 DEF CopyFails, RecordOK
    <2>8. CASE Stamp
      <3>1. TypeOK'
        BY <2>0, <2>8 DEF Stamp, TypeOK
      <3>. QED BY <2>1, <2>8, <3>1 DEF Stamp
    <2>9. CASE UNCHANGED vars
      <3>1. TypeOK'
        BY <2>0, <2>9 DEF vars, TypeOK
      <3>. QED BY <2>1, <2>9, <3>1 DEF vars
    <2>. QED BY <1>2, <2>3, <2>4, <2>5, <2>6, <2>7, <2>8, <2>9 DEF Next
  <1>. QED BY <1>1, <1>2

\* The clock, the watermark, the record, the copy of it and the index stay what they are
\* taken for, however long the daemon runs (indexer.go, scanner.go, snapshot.go).
THEOREM IndexingTypeCorrect == Spec => []TypeOK
PROOF
  <1>1. IndexingOK => TypeOK
    BY DEF IndexingOK, RecordOK
  <1>. QED BY <1>1, IndexingStays, PTL DEF Spec

\* For any texts, limits and numbers of messages, what a pass has read is found in the
\* index until the record changes (app_gmail.go:1320-1467, whatsapp/source.go:357-498,
\* extract.go:60-83, scanner.go:191-225).
THEOREM TextIsFound == Spec => []ReadTextIsFound
PROOF
  <1>1. IndexingOK => ReadTextIsFound
    BY DEF IndexingOK
  <1>. QED BY <1>1, IndexingStays, PTL DEF Spec

\* For any texts and limits, the chunks in the index fit (core/helpers.go:236).
THEOREM NoChunkIsTooLong == Spec => []ChunksFit
PROOF
  <1>1. IndexingOK => ChunksFit
    BY DEF IndexingOK
  <1>. QED BY <1>1, IndexingStays, PTL DEF Spec
================================================================================
