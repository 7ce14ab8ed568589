-------------------------- MODULE SequenceLemmas --------------------------
(***************************************************************************)
(* Facts about sequences, intervals and counting that the proofs of        *)
(* several components need and the library does not state.                 *)
(***************************************************************************)
EXTENDS Integers, Sequences, SequencesExt, FiniteSets, FiniteSetTheorems, SequenceTheorems,
        FunctionTheorems, TLAPS

\* An element is inserted at i: the elements from i on move one place up.
LEMMA InsertAtProps ==
  ASSUME NEW S, NEW s \in Seq(S), NEW i \in 1 .. Len(s) + 1, NEW e \in S
  PROVE  /\ InsertAt(s, i, e) \in Seq(S)
         /\ Len(InsertAt(s, i, e)) = Len(s) + 1
         /\ \A j \in 1 .. Len(s) + 1 :
              InsertAt(s, i, e)[j] = IF j < i THEN s[j] ELSE IF j = i THEN e ELSE s[j - 1]
<1> DEFINE a == SubSeq(s, 1, i - 1)
           b == SubSeq(s, i, Len(s))
           c == a \o <<e>>
<1>1. /\ a \in Seq(S) /\ Len(a) = i - 1 /\ \A j \in 1 .. i - 1 : a[j] = s[j]
  OBVIOUS
<1>2. /\ b \in Seq(S) /\ Len(b) = Len(s) - i + 1 /\ \A j \in 1 .. Len(s) - i + 1 : b[j] = s[i + j - 1]
  OBVIOUS
<1>3. <<e>> \in Seq(S) /\ Len(<<e>>) = 1 /\ <<e>>[1] = e
  OBVIOUS
<1> HIDE DEF a, b
<1>4. /\ c \in Seq(S) /\ Len(c) = i
      /\ \A j \in 1 .. i : c[j] = IF j < i THEN s[j] ELSE e
  BY <1>1, <1>3, ConcatProperties
<1> HIDE DEF c
<1>0. Len(c) + Len(b) = Len(s) + 1
  BY <1>2, <1>4
<1>5. /\ c \o b \in Seq(S) /\ Len(c \o b) = Len(c) + Len(b)
      /\ \A j \in 1 .. Len(c) + Len(b) : (c \o b)[j] = IF j <= Len(c) THEN c[j] ELSE b[j - Len(c)]
  BY <1>4, <1>2, ConcatProperties
<1>6. InsertAt(s, i, e) = c \o b
  BY Zenon DEF InsertAt, a, b, c
<1> DEFINE r == c \o b
<1> HIDE DEF r
<1>7. ASSUME NEW j \in 1 .. Len(s) + 1
      PROVE  r[j] = IF j < i THEN s[j] ELSE IF j = i THEN e ELSE s[j - 1]
  <2>0. r[j] = IF j <= i THEN c[j] ELSE b[j - i]
    BY <1>5, <1>0, <1>4 DEF r
  <2>1. CASE j <= i
    <3>1. j \in 1 .. i
      BY <2>1
    <3>2. c[j] = IF j < i THEN s[j] ELSE e
      BY <1>4, <3>1
    <3>3. QED
      BY <2>0, <2>1, <3>2
  <2>2. CASE j > i
    <3>1. j - i \in 1 .. Len(s) - i + 1 /\ i + (j - i) - 1 = j - 1
      BY <2>2
    <3>2. b[j - i] = s[i + (j - i) - 1]
      BY <1>2, <3>1
    <3>3. QED
      BY <2>0, <2>2, <3>1, <3>2
  <2>3. QED
    BY <2>1, <2>2
<1>8. QED
  BY <1>0, <1>5, <1>6, <1>7 DEF r

\* The element at i is removed: those after it move one place down.
LEMMA RemoveAtProps ==
  ASSUME NEW S, NEW s \in Seq(S), NEW i \in 1 .. Len(s)
  PROVE  /\ RemoveAt(s, i) \in Seq(S)
         /\ Len(RemoveAt(s, i)) = Len(s) - 1
         /\ \A j \in 1 .. Len(s) - 1 : RemoveAt(s, i)[j] = IF j < i THEN s[j] ELSE s[j + 1]
<1> DEFINE a == SubSeq(s, 1, i - 1)
           b == SubSeq(s, i + 1, Len(s))
<1>1. /\ a \in Seq(S) /\ Len(a) = i - 1 /\ \A j \in 1 .. i - 1 : a[j] = s[j]
  OBVIOUS
<1>2. /\ b \in Seq(S) /\ Len(b) = Len(s) - i /\ \A j \in 1 .. Len(s) - i : b[j] = s[i + j]
  OBVIOUS
<1> HIDE DEF a, b
<1>0. Len(a) + Len(b) = Len(s) - 1
  BY <1>1, <1>2
<1>3. /\ a \o b \in Seq(S) /\ Len(a \o b) = Len(a) + Len(b)
      /\ \A j \in 1 .. Len(a) + Len(b) : (a \o b)[j] = IF j <= Len(a) THEN a[j] ELSE b[j - Len(a)]
  BY <1>1, <1>2, ConcatProperties
<1>4. RemoveAt(s, i) = a \o b
  BY Zenon DEF RemoveAt, a, b
<1> DEFINE r == a \o b
<1> HIDE DEF r
<1>5. ASSUME NEW j \in 1 .. Len(s) - 1
      PROVE  r[j] = IF j < i THEN s[j] ELSE s[j + 1]
  <2>0. r[j] = IF j <= Len(a) THEN a[j] ELSE b[j - Len(a)]
    BY <1>3, <1>0 DEF r
  <2>1. CASE j < i
    BY <2>0, <2>1, <1>1
  <2>2. CASE j >= i
    <3>1. j - (i - 1) \in 1 .. Len(s) - i /\ i + (j - (i - 1)) = j + 1
      BY <2>2
    <3>2. b[j - (i - 1)] = s[i + (j - (i - 1))]
      BY <1>2, <3>1
    <3>3. QED
      BY <2>0, <2>2, <3>1, <3>2, <1>1
  <2>3. QED
    BY <2>1, <2>2
<1>6. QED
  BY <1>0, <1>3, <1>4, <1>5 DEF r

\* A set of numbers with an element has a least one.
LEMMA LeastNat ==
  ASSUME NEW S \in SUBSET Nat, S # {}
  PROVE  \E n \in S : \A m \in S : n <= m
<1>1. PICK n \in S : \A m \in S : ~ (<<m, n>> \in OpToRel(<, Nat))
  BY WFMin, NatLessThanWellFounded
<1>2. \A m \in S : ~ (m < n)
  BY <1>1 DEF OpToRel
<1>3. QED
  BY <1>2

\* A set of indices that holds every index below one of its own is the
\* interval from 1 to its cardinality: the binary searches count the ranges that
\* lie before a value, and this makes the count a position.
LEMMA PrefixCount ==
  ASSUME NEW N \in Nat, NEW S \in SUBSET (1 .. N),
         \A i \in S : \A j \in 1 .. i : j \in S
  PROVE  Cardinality(S) \in 0 .. N /\ S = 1 .. Cardinality(S)
<1> DEFINE Out == { i \in Nat : i >= 1 /\ i \notin S }
<1>1. N + 1 \in Out
  OBVIOUS
<1>2. PICK m \in Out : \A i \in Out : m <= i
  BY <1>1, LeastNat
<1>3. m <= N + 1
  BY <1>1, <1>2
<1>4. S = 1 .. m - 1
  <2>1. ASSUME NEW i \in 1 .. m - 1 PROVE i \in S
    <3>1. i \notin Out
      BY <1>2
    <3>2. QED
      BY <3>1
  <2>2. ASSUME NEW i \in S PROVE i <= m - 1
    <3>1. CASE i >= m
      <4>1. m \in 1 .. i
        BY <3>1
      <4>2. QED
        BY <4>1
    <3>2. QED
      BY <3>1
  <2>3. m \in Nat /\ S \subseteq 1 .. N
    OBVIOUS
  <2>4. \A i \in S : i \in Nat /\ i >= 1
    BY <2>3
  <2>5. S \subseteq 1 .. m - 1
    BY <2>2, <2>3, <2>4
  <2>6. 1 .. m - 1 \subseteq S
    BY <2>1
  <2>7. QED
    BY <2>5, <2>6
<1>5. Cardinality(1 .. m - 1) = m - 1
  BY FS_Interval
<1>6. QED
  BY <1>3, <1>4, <1>5


\* The positions in S are numbered from 1 to its cardinality, in their order.
LEMMA Numbering ==
  ASSUME NEW N \in Nat, NEW S \in SUBSET (1 .. N)
  PROVE  /\ Cardinality(S) \in Nat
         /\ \A n \in 1 .. Cardinality(S) :
              \E i \in S : Cardinality({ j \in S : j =< i }) = n
         /\ \A i, k \in S : i < k =>
              Cardinality({ j \in S : j =< i }) < Cardinality({ j \in S : j =< k })
<1> DEFINE upTo(i) == { j \in S : j =< i }
           C(i) == Cardinality(upTo(i))
<1>1. IsFiniteSet(S) /\ Cardinality(S) \in Nat
  <2>1. IsFiniteSet(1 .. N)
    BY FS_Interval
  <2>2. IsFiniteSet(S)
    BY <2>1, FS_Subset
  <2>3. QED
    BY <2>2, FS_CardinalityType
<1>2. ASSUME NEW i PROVE IsFiniteSet(upTo(i)) /\ C(i) \in Nat
  <2>1. upTo(i) \in SUBSET S
    OBVIOUS
  <2>2. IsFiniteSet(upTo(i))
    BY <1>1, <2>1, FS_Subset
  <2>3. QED
    BY <2>2, FS_CardinalityType
<1>3. \A i \in S : i \in Nat /\ 1 =< i /\ i =< N
  OBVIOUS
<1>4. \A i \in Nat : \A j : j \in upTo(i) <=> j \in S /\ j =< i
  OBVIOUS
<1> HIDE DEF upTo
<1>5. C(0) = 0 /\ C(N) = Cardinality(S)
  <2>1. upTo(0) = {}
    <3>1. ASSUME NEW j \in upTo(0) PROVE FALSE
      <4>1. j \in S /\ j =< 0
        BY <1>4
      <4>2. QED
        BY <4>1, <1>3
    <3>2. QED
      BY <3>1
  <2>2. upTo(N) = S
    BY <1>3, <1>4
  <2>3. QED
    BY <2>1, <2>2, FS_EmptySet
<1>6. ASSUME NEW n \in 1 .. Cardinality(S) PROVE \E i \in S : C(i) = n
  <2> DEFINE T == { i \in Nat : C(i) >= n }
  <2>1. N \in T
    BY <1>1, <1>5
  <2>2. PICK m \in T : \A i \in T : m <= i
    BY <2>1, LeastNat
  <2>3. m \in Nat /\ C(m) >= n /\ m # 0
    BY <1>5, <2>2
  <2>4. m - 1 \in Nat
    BY <2>3
  <2>5. C(m - 1) < n
    <3>1. m - 1 \notin T
      <4>1. ~(m <= m - 1)
        BY <2>3
      <4>2. QED
        BY <4>1, <2>2
    <3>2. ~(C(m - 1) >= n)
      BY <3>1, <2>4
    <3>3. C(m - 1) \in Nat
      BY <1>2
    <3>4. QED
      BY <3>2, <3>3
  <2>6. \A j : j \in upTo(m) <=> j \in upTo(m - 1) \/ (j \in S /\ j = m)
    <3>1. \A j \in S : j =< m <=> j =< m - 1 \/ j = m
      BY <1>3, <2>3
    <3>2. \A j : j \in upTo(m) <=> j \in S /\ j =< m
      BY <1>4, <2>3
    <3>3. \A j : j \in upTo(m - 1) <=> j \in S /\ j =< m - 1
      BY <1>4, <2>4
    <3>4. QED
      BY Zenon, <3>1, <3>2, <3>3
  <2>7. m \in S
    <3>1. SUFFICES ASSUME m \notin S PROVE FALSE
      OBVIOUS
    <3>2. upTo(m) = upTo(m - 1)
      BY <2>6, <3>1
    <3>3. C(m) = C(m - 1)
      BY <3>2
    <3>4. C(m - 1) \in Nat
      BY <1>2
    <3> HIDE DEF C
    <3>5. QED
      BY <2>3, <2>5, <3>3, <3>4
  <2>8. C(m) = C(m - 1) + 1
    <3>1. upTo(m) = upTo(m - 1) \union {m}
      BY <2>6, <2>7
    <3>2. m \notin upTo(m - 1)
      BY <1>4, <2>3
    <3>3. IsFiniteSet(upTo(m - 1))
      BY <1>2
    <3>4. Cardinality(upTo(m - 1) \union {m}) = Cardinality(upTo(m - 1)) + 1
      BY <3>2, <3>3, FS_AddElement
    <3>5. QED
      BY Zenon, <3>1, <3>4
  <2>9. C(m) \in Nat /\ C(m - 1) \in Nat
    BY <1>2
  <2> HIDE DEF C, T
  <2>10. C(m) = n
    BY <2>3, <2>5, <2>8, <2>9
  <2>11. QED
    BY <2>7, <2>10
<1>7. ASSUME NEW i \in S, NEW k \in S, i < k PROVE C(i) < C(k)
  <2>1. upTo(i) \union {k} \in SUBSET upTo(k) /\ k \notin upTo(i)
    <3>1. i \in Nat /\ k \in Nat
      BY <1>3
    <3>2. \A j \in S : j =< i => j =< k
      BY <1>3, <1>7, <3>1
    <3>3. k =< k /\ ~(k =< i)
      BY <1>7, <3>1
    <3>4. \A j : j \in upTo(i) <=> j \in S /\ j =< i
      BY <1>4, <3>1
    <3>5. \A j : j \in upTo(k) <=> j \in S /\ j =< k
      BY <1>4, <3>1
    <3>6. QED
      BY Zenon, <3>2, <3>3, <3>4, <3>5
  <2>2. IsFiniteSet(upTo(i)) /\ IsFiniteSet(upTo(k))
    BY <1>2
  <2>3. Cardinality(upTo(i) \union {k}) = C(i) + 1
    BY <2>1, <2>2, FS_AddElement
  <2>4. Cardinality(upTo(i) \union {k}) =< C(k)
    BY <2>1, <2>2, FS_Subset
  <2>5. C(i) \in Nat /\ C(k) \in Nat
    BY <1>2
  <2> HIDE DEF C
  <2>6. QED
    BY <2>3, <2>4, <2>5
<1>8. QED
  BY <1>1, <1>6, <1>7 DEF upTo

\* The numbers of a finite set have different ranks, one each from 0 on: the rank of
\* a number is how many are below it, and the rest is above it.
LEMMA Ranks ==
  ASSUME NEW S \in SUBSET Int, IsFiniteSet(S)
  PROVE  /\ Cardinality(S) \in Nat
         /\ \A i \in S : /\ Cardinality({ j \in S : j < i }) \in 0 .. Cardinality(S) - 1
                         /\ Cardinality({ j \in S : j > i })
                              = Cardinality(S) - 1 - Cardinality({ j \in S : j < i })
         /\ \A i, k \in S :
              Cardinality({ j \in S : j < i }) = Cardinality({ j \in S : j < k }) => i = k
         /\ \A n \in 1 .. Cardinality(S) : \E i \in S : Cardinality({ j \in S : j < i }) = n - 1
<1> DEFINE below(i) == { j \in S : j < i }
           above(i) == { j \in S : j > i }
           C(i) == Cardinality(below(i))
           f == [i \in S |-> C(i)]
           T == 0 .. Cardinality(S) - 1
<1>1. Cardinality(S) \in Nat
  BY FS_CardinalityType
<1>2. ASSUME NEW i
      PROVE  IsFiniteSet(below(i)) /\ C(i) \in Nat /\ IsFiniteSet(above(i)) /\ Cardinality(above(i)) \in Nat
  <2>1. below(i) \in SUBSET S /\ above(i) \in SUBSET S
    OBVIOUS
  <2>2. IsFiniteSet(below(i)) /\ IsFiniteSet(above(i))
    BY <2>1, FS_Subset
  <2>3. QED
    BY <2>2, FS_CardinalityType
<1>3. \A i, j : /\ j \in below(i) <=> j \in S /\ j < i
                /\ j \in above(i) <=> j \in S /\ j > i
  OBVIOUS
<1> HIDE DEF below, above
<1>4. ASSUME NEW i \in S
      PROVE  C(i) \in T /\ Cardinality(above(i)) = Cardinality(S) - 1 - C(i)
  <2>1. IsFiniteSet(above(i) \union {i}) /\ Cardinality(above(i) \union {i}) = Cardinality(above(i)) + 1
    <3>1. i \notin above(i)
      BY <1>3
    <3>2. QED
      BY <3>1, <1>2, FS_AddElement
  <2> DEFINE U == above(i) \union {i}
  <2>2. S = below(i) \union U /\ below(i) \intersect U = {}
    <3>1. \A j \in S : (j < i \/ j > i \/ j = i) /\ ~(j < i /\ j > i) /\ ~(j < i /\ j = i)
      OBVIOUS
    <3>2. \A j : j \in below(i) <=> j \in S /\ j < i
      BY <1>3
    <3>3. \A j : j \in U <=> (j \in S /\ j > i) \/ j = i
      BY <1>3
    <3> HIDE DEF U
    <3>4. QED
      BY Zenon, <3>1, <3>2, <3>3
  <2>3. IsFiniteSet(below(i)) /\ IsFiniteSet(U)
    BY <1>2, <2>1
  <2> HIDE DEF U
  <2>4. Cardinality(below(i) \union U)
          = Cardinality(below(i)) + Cardinality(U) - Cardinality(below(i) \intersect U)
    BY <2>3, FS_Union
  <2>5. Cardinality(below(i) \intersect U) = 0
    BY <2>2, FS_EmptySet
  <2>6. Cardinality(S) = Cardinality(below(i)) + Cardinality(U) - 0
    BY Zenon, <2>2, <2>4, <2>5
  <2>7. C(i) \in Nat /\ Cardinality(above(i)) \in Nat
    BY <1>2
  <2>8. PICK n, b, a : n = Cardinality(S) /\ b = C(i) /\ a = Cardinality(above(i))
    OBVIOUS
  <2>9. Cardinality(U) = a + 1
    BY <2>1, <2>8 DEF U
  <2>10. n \in Nat /\ a \in Nat /\ b \in Nat /\ n = b + (a + 1) - 0
    BY <1>1, <2>6, <2>7, <2>8, <2>9
  <2>11. b \in 0 .. n - 1 /\ a = n - 1 - b
    BY <2>10
  <2>12. QED
    BY <2>8, <2>11
<1>5. ASSUME NEW i \in S, NEW k \in S, i < k PROVE C(i) < C(k)
  <2>1. \A j \in S : (j < i => j < k) /\ ~(i < i)
    BY <1>5
  <2>2. below(i) \union {i} \in SUBSET below(k) /\ i \notin below(i)
    BY Zenon, <1>3, <1>5, <2>1
  <2>3. IsFiniteSet(below(i)) /\ IsFiniteSet(below(k))
    BY <1>2
  <2>4. Cardinality(below(i) \union {i}) = C(i) + 1
    BY <2>2, <2>3, FS_AddElement
  <2>5. Cardinality(below(i) \union {i}) =< C(k)
    BY <2>2, <2>3, FS_Subset
  <2>6. C(i) \in Nat /\ C(k) \in Nat
    BY <1>2
  <2> HIDE DEF C
  <2>7. QED
    BY <2>4, <2>5, <2>6
<1>6. ASSUME NEW i \in S, NEW k \in S, C(i) = C(k) PROVE i = k
  <2>1. i \in Int /\ k \in Int /\ C(i) \in Nat /\ C(k) \in Nat
    BY <1>2
  <2>2. ~(i < k)
    <3>1. ~(C(i) < C(k))
      BY <1>6, <2>1
    <3>2. QED
      BY <3>1, <1>5
  <2>3. ~(k < i)
    <3>1. ~(C(k) < C(i))
      BY <1>6, <2>1
    <3>2. QED
      BY <3>1, <1>5
  <2>4. QED
    BY <2>1, <2>2, <2>3
<1>7. f \in Injection(S, T)
  <2> HIDE DEF C
  <2>1. f \in [S -> T]
    BY <1>4
  <2>2. \A i, k \in S : f[i] = f[k] => i = k
    BY <1>6
  <2>3. QED
    BY <2>1, <2>2, Fun_IsInj
<1>8. IsFiniteSet(T) /\ Cardinality(T) = Cardinality(S)
  <2>1. Cardinality(S) - 1 \in Int /\ 0 \in Int
    BY <1>1
  <2>2. /\ IsFiniteSet(0 .. Cardinality(S) - 1)
        /\ Cardinality(0 .. Cardinality(S) - 1)
             = IF 0 > Cardinality(S) - 1 THEN 0 ELSE Cardinality(S) - 1 - 0 + 1
    BY <2>1, FS_Interval
  <2>3. QED
    BY <1>1, <2>2
<1>9. f \in Surjection(S, T)
  <2> HIDE DEF f, T
  <2>1. Cardinality(S) = Cardinality(T) <=> f \in Surjection(S, T)
    BY <1>7, <1>8, FS_Injection
  <2>2. QED
    BY Zenon, <2>1, <1>8
<1>10. ASSUME NEW n \in 1 .. Cardinality(S) PROVE \E i \in S : C(i) = n - 1
  <2>1. n - 1 \in T
    BY <1>1
  <2> HIDE DEF T, C
  <2>2. \E i \in S : f[i] = n - 1
    <3> HIDE DEF f
    <3>1. QED
      BY <1>9, <2>1 DEF Surjection
  <2>3. QED
    BY <2>2
<1>11. QED
  BY <1>1, <1>4, <1>6, <1>10 DEF below, above

\* A finite set of numbers that is not empty has a least and a greatest one.
LEMMA LeastAndGreatest ==
  ASSUME NEW S \in SUBSET Int, IsFiniteSet(S), S # {}
  PROVE  /\ \E i \in S : \A j \in S : i <= j
         /\ \E i \in S : \A j \in S : j <= i
<1> DEFINE C(i) == Cardinality({ j \in S : j < i })
           A(i) == Cardinality({ j \in S : j > i })
<1>0. /\ Cardinality(S) \in Nat
      /\ \A i \in S : C(i) \in 0 .. Cardinality(S) - 1 /\ A(i) = Cardinality(S) - 1 - C(i)
      /\ \A n \in 1 .. Cardinality(S) : \E i \in S : C(i) = n - 1
  BY Ranks
<1>1. Cardinality(S) \in Nat \ {0}
  BY <1>0, FS_EmptySet
<1>2. ASSUME NEW i \in S
      PROVE  /\ C(i) = 0 => \A j \in S : i <= j
             /\ A(i) = 0 => \A j \in S : j <= i
  <2>1. { j \in S : j < i } \in SUBSET S /\ { j \in S : j > i } \in SUBSET S
    OBVIOUS
  <2>2. IsFiniteSet({ j \in S : j < i }) /\ IsFiniteSet({ j \in S : j > i })
    BY <2>1, FS_Subset
  <2>3. /\ C(i) = 0 => { j \in S : j < i } = {}
        /\ A(i) = 0 => { j \in S : j > i } = {}
    BY <2>2, FS_EmptySet
  <2>4. \A j \in S : i \in Int /\ j \in Int
    OBVIOUS
  <2>5. QED
    BY <2>3, <2>4
<1> HIDE DEF C, A
<1>3. \E i \in S : C(i) = 0
  <2>1. 1 \in 1 .. Cardinality(S) /\ 1 - 1 = 0
    BY <1>1
  <2>2. QED
    BY <1>0, <2>1
<1>4. \E i \in S : A(i) = 0
  <2>1. Cardinality(S) \in 1 .. Cardinality(S)
    BY <1>1
  <2>2. PICK i \in S : C(i) = Cardinality(S) - 1
    BY <1>0, <2>1
  <2>3. A(i) = Cardinality(S) - 1 - C(i)
    BY <1>0
  <2>4. A(i) = 0
    BY <1>1, <2>2, <2>3
  <2>5. QED
    BY <2>4
<1>5. QED
  BY <1>2, <1>3, <1>4

\* A greater number has no lesser rank.
LEMMA RanksGrow ==
  ASSUME NEW S \in SUBSET Int, IsFiniteSet(S), NEW i \in S, NEW k \in S, i < k
  PROVE  Cardinality({ j \in S : j < i }) <= Cardinality({ j \in S : j < k })
<1>1. \A j \in S : j < i => j < k
  OBVIOUS
<1>2. { j \in S : j < i } \in SUBSET { j \in S : j < k } /\ { j \in S : j < k } \in SUBSET S
  BY <1>1
<1>3. IsFiniteSet({ j \in S : j < k })
  BY <1>2, FS_Subset
<1>4. QED
  BY <1>2, <1>3, FS_Subset

\* The numbers of a finite set in their order.
Ascending(S) ==
  [n \in 1 .. Cardinality(S) |-> CHOOSE k \in S : Cardinality({ j \in S : j < k }) = n - 1]

\* Each of them is there once.
LEMMA AscendingProps ==
  ASSUME NEW S \in SUBSET Int, IsFiniteSet(S)
  PROVE  /\ Cardinality(S) \in Nat
         /\ \A n \in 1 .. Cardinality(S) : Ascending(S)[n] \in S
         /\ \A m, n \in 1 .. Cardinality(S) : m < n => Ascending(S)[m] < Ascending(S)[n]
         /\ \A k \in S : \E n \in 1 .. Cardinality(S) : Ascending(S)[n] = k
<1> DEFINE C(k) == Cardinality({ j \in S : j < k })
           N == Cardinality(S)
           s == [n \in 1 .. N |-> CHOOSE k \in S : C(k) = n - 1]
<1>1. /\ N \in Nat
      /\ \A k \in S : C(k) \in 0 .. N - 1
      /\ \A i, k \in S : C(i) = C(k) => i = k
      /\ \A n \in 1 .. N : \E k \in S : C(k) = n - 1
  <2>1. N \in Nat /\ \A k \in S : C(k) \in 0 .. N - 1
    BY Ranks
  <2>2. \A i, k \in S : C(i) = C(k) => i = k
    BY Ranks
  <2>3. \A n \in 1 .. N : \E k \in S : C(k) = n - 1
    BY Ranks
  <2> HIDE DEF C, N
  <2>4. QED
    BY <2>1, <2>2, <2>3
<1>2. \A i, k \in S : i < k => C(i) <= C(k)
  BY RanksGrow
<1> HIDE DEF C, N
<1>3. \A n \in 1 .. N : s[n] \in S /\ C(s[n]) = n - 1
  BY Zenon, <1>1
<1> HIDE DEF s
<1>4. ASSUME NEW m \in 1 .. N, NEW n \in 1 .. N, m < n PROVE s[m] < s[n]
  <2>1. m \in Int /\ n \in Int /\ ~(n - 1 <= m - 1)
    BY <1>1, <1>4
  <2>2. PICK x, y : x = s[m] /\ y = s[n]
    OBVIOUS
  <2>3. x \in S /\ y \in S /\ C(x) = m - 1 /\ C(y) = n - 1
    BY <1>3, <2>2
  <2>4. ~(y < x) /\ x # y
    BY <1>2, <2>1, <2>3
  <2>5. QED
    BY <2>2, <2>3, <2>4
<1>5. ASSUME NEW k \in S PROVE \E n \in 1 .. N : s[n] = k
  <2>1. PICK n : n = C(k) + 1
    OBVIOUS
  <2>2. n \in 1 .. N /\ n - 1 = C(k)
    BY <1>1, <2>1
  <2>3. s[n] \in S /\ C(s[n]) = C(k)
    BY <1>3, <2>2
  <2>4. QED
    BY <1>1, <2>2, <2>3
<1>6. Ascending(S) = s
  BY Zenon DEF Ascending, s, C, N
<1>7. QED
  BY Zenon, <1>1, <1>3, <1>4, <1>5, <1>6 DEF N

\* Nothing of a set is between two numbers that follow each other in it.
LEMMA Neighbours ==
  ASSUME NEW S \in SUBSET Int, IsFiniteSet(S),
         NEW n \in 1 .. Cardinality(S) - 1
  PROVE  /\ n \in 1 .. Cardinality(S) /\ n + 1 \in 1 .. Cardinality(S)
         /\ Ascending(S)[n] \in S /\ Ascending(S)[n + 1] \in S
         /\ Ascending(S)[n] < Ascending(S)[n + 1]
         /\ \A k \in S : k <= Ascending(S)[n] \/ Ascending(S)[n + 1] <= k
<1> DEFINE N == Cardinality(S)
           s == Ascending(S)
<1>1. /\ N \in Nat
      /\ \A m \in 1 .. N : s[m] \in S
      /\ \A l, m \in 1 .. N : l < m => s[l] < s[m]
      /\ \A k \in S : \E m \in 1 .. N : s[m] = k
  BY Zenon, AscendingProps
<1>2. n \in 1 .. N - 1
  OBVIOUS
<1> HIDE DEF N, s
<1>3. n \in 1 .. N /\ n + 1 \in 1 .. N /\ n < n + 1
  BY <1>1, <1>2
<1>4. PICK x, y : x = s[n] /\ y = s[n + 1]
  OBVIOUS
<1>5. x \in S /\ y \in S /\ x < y
  BY <1>1, <1>3, <1>4
<1>6. ASSUME NEW k \in S PROVE k <= x \/ y <= k
  <2>1. PICK m \in 1 .. N : s[m] = k
    BY <1>1
  <2>2. m <= n \/ n + 1 <= m
    BY <1>1, <1>3
  <2>3. CASE m <= n
    <3>1. m = n \/ m < n
      BY <1>1, <1>3, <2>3
    <3>2. k = x \/ k < x
      BY <1>1, <1>3, <1>4, <2>1, <3>1
    <3>3. QED
      BY <1>5, <3>2
  <2>4. CASE n + 1 <= m
    <3>1. m = n + 1 \/ n + 1 < m
      BY <1>1, <1>3, <2>4
    <3>2. k = y \/ y < k
      BY <1>1, <1>3, <1>4, <2>1, <3>1
    <3>3. QED
      BY <1>5, <3>2
  <2>5. QED
    BY <2>2, <2>3, <2>4
<1>7. QED
  BY Zenon, <1>3, <1>4, <1>5, <1>6 DEF N, s

\* Two numbers of a set with nothing of it between them follow each other.
LEMMA FollowingOne ==
  ASSUME NEW S \in SUBSET Int, IsFiniteSet(S), NEW x \in S, NEW z \in S, x < z,
         \A k \in S : k <= x \/ z <= k
  PROVE  \E n \in 1 .. Cardinality(S) - 1 : Ascending(S)[n] = x /\ Ascending(S)[n + 1] = z
<1> DEFINE N == Cardinality(S)
           s == Ascending(S)
<1>1. /\ N \in Nat
      /\ \A m \in 1 .. N : s[m] \in S
      /\ \A l, m \in 1 .. N : l < m => s[l] < s[m]
      /\ \A k \in S : \E m \in 1 .. N : s[m] = k
  BY Zenon, AscendingProps
<1> HIDE DEF N, s
<1>0. x \in Int /\ z \in Int /\ \A k \in S : k \in Int
  OBVIOUS
<1>2. PICK n \in 1 .. N : s[n] = x
  BY <1>1
<1>3. PICK m \in 1 .. N : s[m] = z
  BY <1>1
<1>4. n < m
  <2>1. n = m \/ m < n \/ n < m
    BY <1>1
  <2>2. ~(z < x) /\ x # z
    BY <1>0
  <2>3. QED
    BY <1>1, <1>2, <1>3, <2>1, <2>2
<1>5. n + 1 \in 1 .. N /\ n < n + 1 /\ n \in 1 .. N - 1 /\ (n + 1 = m \/ n + 1 < m)
  BY <1>1, <1>4
<1>6. PICK y : y = s[n + 1]
  OBVIOUS
<1>7. y \in S /\ x < y
  BY <1>1, <1>2, <1>5, <1>6
<1>8. y = z
  <2>1. CASE n + 1 = m
    BY <1>3, <1>6, <2>1
  <2>2. CASE n + 1 < m
    <3>1. y < z
      BY <1>1, <1>3, <1>5, <1>6, <2>2
    <3>2. QED
      BY <1>0, <1>7, <3>1
  <2>3. QED
    BY <1>5, <2>1, <2>2
<1>9. QED
  BY Zenon, <1>2, <1>5, <1>6, <1>8 DEF N, s

-----------------------------------------------------------------------------
(* Ends of sequences *)

\* A sequence t is s, with one element before it.
IsPrepended(t, S, w, s) ==
  /\ t \in Seq(S) /\ t # <<>> /\ Len(t) = Len(s) + 1
  /\ Head(t) = w /\ Tail(t) = s
  /\ t[1] = w /\ \A n \in 2 .. Len(s) + 1 : t[n] = s[n - 1]

\* That is what concatenation does.
LEMMA Prepended ==
  ASSUME NEW S, NEW w \in S, NEW s \in Seq(S)
  PROVE  IsPrepended(<<w>> \o s, S, w, s)
<1> DEFINE t == <<w>> \o s
<1>1. <<w>> \in Seq(S) /\ Len(<<w>>) = 1 /\ <<w>>[1] = w /\ Len(s) \in Nat
  OBVIOUS
<1>2. /\ t \in Seq(S) /\ Len(t) = 1 + Len(s)
      /\ \A n \in 1 .. 1 + Len(s) : t[n] = IF n <= 1 THEN <<w>>[n] ELSE s[n - 1]
  BY <1>1, ConcatProperties
<1> HIDE DEF t
<1>3. t # <<>> /\ Len(t) = Len(s) + 1 /\ t[1] = w
  BY <1>1, <1>2
<1>4. ASSUME NEW n \in 2 .. Len(s) + 1 PROVE t[n] = s[n - 1]
  BY <1>1, <1>2
<1>5. Head(t) = w /\ Tail(t) \in Seq(S) /\ Len(Tail(t)) = Len(s)
  BY <1>1, <1>2, <1>3
<1>6. ASSUME NEW n \in 1 .. Len(s) PROVE Tail(t)[n] = s[n]
  <2>1. Tail(t)[n] = t[n + 1]
    BY <1>2, <1>3, <1>5, HeadTailProperties
  <2>2. PICK m : m = n + 1
    OBVIOUS
  <2>3. m \in 2 .. Len(s) + 1 /\ m - 1 = n
    BY <1>1, <2>2
  <2>4. t[m] = s[n]
    BY <1>4, <2>3
  <2>5. QED
    BY <2>1, <2>2, <2>4
<1>7. Tail(t) = s
  BY <1>5, <1>6, SeqEqual
<1>8. QED
  <2>1. IsPrepended(t, S, w, s)
    BY <1>2, <1>3, <1>4, <1>5, <1>7 DEF IsPrepended
  <2>2. QED
    BY <2>1 DEF t

\* A sequence with one element behind it.
LEMMA Appended ==
  ASSUME NEW S, NEW w \in S, NEW s \in Seq(S)
  PROVE  /\ Append(s, w) \in Seq(S) /\ Append(s, w) # <<>>
         /\ Front(Append(s, w)) = s /\ Last(Append(s, w)) = w
<1> DEFINE t == Append(s, w)
<1>1. /\ t \in Seq(S) /\ t # <<>> /\ Len(t) = Len(s) + 1 /\ t[Len(s) + 1] = w /\ Len(s) \in Nat
      /\ \A n \in 1 .. Len(s) : t[n] = s[n]
  BY AppendProperties
<1> HIDE DEF t
<1>2. Front(t) = SubSeq(t, 1, Len(s)) /\ Last(t) = w
  BY <1>1 DEF Front, Last
<1>3. \A n \in 1 .. Len(s) : t[n] \in S
  BY <1>1
<1>4. /\ SubSeq(t, 1, Len(s)) \in Seq(S) /\ Len(SubSeq(t, 1, Len(s))) = Len(s)
      /\ \A n \in 1 .. Len(s) : SubSeq(t, 1, Len(s))[n] = t[n]
  BY <1>1, <1>3
<1>5. SubSeq(t, 1, Len(s)) = s
  BY <1>1, <1>4, SeqEqual
<1>6. QED
  BY <1>1, <1>2, <1>5 DEF t

\* A sequence is its first element and the others.
LEMMA FirstAndRest ==
  ASSUME NEW S, NEW s \in Seq(S), s # <<>>
  PROVE  Head(s) \in S /\ Tail(s) \in Seq(S) /\ <<Head(s)>> \o Tail(s) = s
<1>1. /\ Head(s) \in S /\ Tail(s) \in Seq(S) /\ Len(Tail(s)) = Len(s) - 1
      /\ \A n \in 1 .. Len(Tail(s)) : Tail(s)[n] = s[n + 1]
      /\ Len(s) \in Nat /\ Len(s) > 0 /\ Head(s) = s[1]
  BY HeadTailProperties
<1>2. PICK h, r, t : h = Head(s) /\ r = Tail(s) /\ t = <<h>> \o r
  OBVIOUS
<1>3. h \in S /\ r \in Seq(S) /\ Len(r) = Len(s) - 1 /\ h = s[1] /\ \A n \in 1 .. Len(r) : r[n] = s[n + 1]
  BY <1>1, <1>2
<1>4. t \in Seq(S) /\ Len(t) = Len(s) /\ t[1] = h /\ \A n \in 2 .. Len(s) : t[n] = r[n - 1]
  <2>1. IsPrepended(t, S, h, r)
    BY <1>2, <1>3, Prepended
  <2>2. QED
    BY <1>1, <1>3, <2>1 DEF IsPrepended
<1>5. ASSUME NEW n \in 1 .. Len(s) PROVE t[n] = s[n]
  <2>1. CASE n = 1
    BY <1>3, <1>4, <2>1
  <2>2. CASE n # 1
    <3>1. n \in 2 .. Len(s) /\ n - 1 \in 1 .. Len(r) /\ n - 1 + 1 = n
      BY <1>1, <1>3, <2>2
    <3>2. QED
      BY <1>3, <1>4, <3>1
  <2>3. QED
    BY <2>1, <2>2
<1>6. t = s
  BY <1>4, <1>5, SeqEqual
<1>7. QED
  BY <1>2, <1>3, <1>6

\* A sequence is its last element behind the others.
LEMMA AllAndLast ==
  ASSUME NEW S, NEW s \in Seq(S), s # <<>>
  PROVE  /\ Front(s) \in Seq(S) /\ Len(Front(s)) = Len(s) - 1 /\ Len(s) \in Nat /\ Len(s) > 0
         /\ \A n \in 1 .. Len(s) - 1 : Front(s)[n] = s[n]
         /\ Last(s) \in S /\ Last(s) = s[Len(s)]
         /\ Append(Front(s), Last(s)) = s
<1>1. PICK r \in Seq(S), w \in S : s = Append(r, w)
  BY SequenceEmptyOrAppend
<1>2. /\ Len(s) = Len(r) + 1 /\ s[Len(r) + 1] = w /\ Len(r) \in Nat
      /\ \A n \in 1 .. Len(r) : s[n] = r[n]
  BY <1>1, AppendProperties
<1>3. Front(s) = r /\ Last(s) = w
  BY <1>1, Appended
<1>4. Len(s) - 1 = Len(r) /\ Len(s) \in Nat /\ Len(s) > 0
  BY <1>2
<1>5. QED
  BY <1>1, <1>2, <1>3, <1>4

\* A sequence u is s, with two of its elements replaced.
IsReplaced(u, S, s, j, a, k, b) ==
  /\ u \in Seq(S) /\ Len(u) = Len(s)
  /\ u[j] = a /\ u[k] = b
  /\ \A l \in 1 .. Len(s) : l # j /\ l # k => u[l] = s[l]

\* That is what EXCEPT does.
LEMMA TwoReplaced ==
  ASSUME NEW S, NEW s \in Seq(S), NEW j \in 1 .. Len(s), NEW k \in 1 .. Len(s), j # k,
         NEW a \in S, NEW b \in S
  PROVE  IsReplaced([s EXCEPT ![j] = a, ![k] = b], S, s, j, a, k, b)
<1> DEFINE u == [s EXCEPT ![j] = a, ![k] = b]
<1>1. Len(s) \in Nat /\ s \in [1 .. Len(s) -> S]
  OBVIOUS
<1>2. /\ u \in [1 .. Len(s) -> S] /\ u[j] = a /\ u[k] = b
      /\ \A l \in 1 .. Len(s) : l # j /\ l # k => u[l] = s[l]
  BY <1>1
<1>3. u \in Seq(S) /\ Len(u) = Len(s)
  BY <1>1, <1>2
<1> HIDE DEF u
<1>4. IsReplaced(u, S, s, j, a, k, b)
  BY <1>2, <1>3 DEF IsReplaced
<1>5. QED
  BY <1>4 DEF u

-----------------------------------------------------------------------------
(* Induction up to a number, and the functions defined by it *)

\* A set that holds 0 and with each number the next holds all numbers.
LEMMA Induction ==
  ASSUME NEW N \in Nat, NEW P, 0 \in P, \A k \in 1 .. N : k - 1 \in P => k \in P
  PROVE  \A k \in 0 .. N : k \in P
<1> DEFINE Out == { k \in 0 .. N : k \notin P }
<1>1. Out \in SUBSET Nat
  OBVIOUS
<1>2. SUFFICES ASSUME Out # {} PROVE FALSE
  OBVIOUS
<1>3. PICK m \in Out : \A k \in Out : m <= k
  BY <1>1, <1>2, LeastNat
<1>4. m \in 1 .. N /\ m \notin P
  BY <1>3
<1>5. m - 1 \in 0 .. N /\ ~(m <= m - 1)
  BY <1>4
<1>6. m - 1 \in P
  BY <1>3, <1>5
<1>7. QED
  BY <1>4, <1>6

\* f begins with a and goes on by F.
IsIteration(f, N, S, a, F) ==
  f \in [0 .. N -> S] /\ f[0] = a /\ \A k \in 1 .. N : f[k] = F[k][f[k - 1]]

\* There is such a function: what a recursive definition over 0 .. N chooses exists.
LEMMA Iterate ==
  ASSUME NEW N \in Nat, NEW S, NEW a \in S, NEW F \in [1 .. N -> [S -> S]]
  PROVE  \E f : IsIteration(f, N, S, a, F)
<1> DEFINE P == { n \in 0 .. N : \E f \in [0 .. n -> S] :
                    f[0] = a /\ \A k \in 1 .. n : f[k] = F[k][f[k - 1]] }
<1>1. 0 \in P
  <2> DEFINE f == [k \in 0 .. 0 |-> a]
  <2>1. f \in [0 .. 0 -> S] /\ f[0] = a /\ 1 .. 0 = {} /\ 0 \in 0 .. N
    OBVIOUS
  <2> HIDE DEF f
  <2>2. \A k \in 1 .. 0 : f[k] = F[k][f[k - 1]]
    BY <2>1
  <2>3. QED
    BY <2>1, <2>2
<1>2. ASSUME NEW n \in 1 .. N, n - 1 \in P PROVE n \in P
  <2>1. PICK f \in [0 .. n - 1 -> S] :
          f[0] = a /\ \A k \in 1 .. n - 1 : f[k] = F[k][f[k - 1]]
    BY <1>2
  <2> DEFINE g == [k \in 0 .. n |-> IF k = n THEN F[n][f[n - 1]] ELSE f[k]]
  <2>2. F[n][f[n - 1]] \in S
    BY n - 1 \in 0 .. n - 1
  <2>3. g \in [0 .. n -> S] /\ g[0] = a
    BY <2>1, <2>2
  <2>4. ASSUME NEW k \in 1 .. n PROVE g[k] = F[k][g[k - 1]]
    <3>1. k - 1 \in 0 .. n - 1 /\ k - 1 # n /\ g[k - 1] = f[k - 1]
      OBVIOUS
    <3>2. CASE k = n
      BY <3>1, <3>2
    <3>3. CASE k # n
      BY <2>1, <3>1, <3>3
    <3>4. QED
      BY <3>2, <3>3
  <2> HIDE DEF g
  <2>5. n \in 0 .. N
    OBVIOUS
  <2>6. QED
    BY <2>3, <2>4, <2>5
<1> HIDE DEF P
<1>0. N \in 0 .. N
  OBVIOUS
<1>3. N \in P
  BY Zenon, <1>0, <1>1, <1>2, Induction
<1>4. PICK f \in [0 .. N -> S] : f[0] = a /\ \A k \in 1 .. N : f[k] = F[k][f[k - 1]]
  BY <1>3 DEF P
<1>5. IsIteration(f, N, S, a, F)
  BY <1>4 DEF IsIteration
<1>6. QED
  BY <1>5
=============================================================================
