------------------------ MODULE IdGenerator_proof ------------------------
(***************************************************************************)
(* Proofs about IdGenerator, for every interval of identifiers and every   *)
(* number of objects that leaves one identifier free.                      *)
(*                                                                         *)
(* The inductive invariant IInv says of the generator, and of what the     *)
(* last save wrote, that the ranges are sorted and apart pairwise (the     *)
(* model's RangesApart compares neighbours only), that they hold exactly   *)
(* the identifiers nobody holds, that nobody shares one, and that at most  *)
(* MaxObjects are in use: so one is free, the deque is never empty, and    *)
(* the iterator never has to be its end().                                 *)
(***************************************************************************)
EXTENDS IdGenerator, SequenceLemmas

-----------------------------------------------------------------------------
(* The inductive invariant *)

Ranges == [first : Ids, last : Ids]

\* Every range holds an identifier, and between any two of them one is missing.
Ordered(r) ==
  /\ \A i \in 1 .. Len(r) : r[i].first =< r[i].last
  /\ \A i, j \in 1 .. Len(r) : i < j => r[i].last + 1 < r[j].first

HeldBy(r, n) == \E i \in 1 .. Len(r) : r[i].first =< n /\ n =< r[i].last

\* The ranges hold the identifiers that nobody holds.
Exact(r, h) == \A n \in Ids : h[n] = 0 <=> HeldBy(r, n)

InUse(h) == { n \in Ids : h[n] > 0 }

\* What is true of the generator's ranges, iterator and holders, and of those a
\* save wrote.
Good(r, c, h) ==
  /\ r \in Seq(Ranges)
  /\ c \in 1 .. Len(r)
  /\ h \in [Ids -> {0, 1}]
  /\ Ordered(r)
  /\ Exact(r, h)
  /\ Cardinality(InUse(h)) =< MaxObjects

Saves == [ranges : Seq(Ranges), currIdx : Nat, holders : [Ids -> Nat]]

IInv ==
  /\ Good(emptyRanges, currentRange, holders)
  /\ saved = NoSave \/ ( /\ saved \in Saves
                         /\ Good(saved.ranges, IndexFromSave(saved.currIdx), saved.holders) )

-----------------------------------------------------------------------------
(* The searches *)

\* The number of identifiers.
LEMMA IdsFinite ==
  /\ IsFiniteSet(Ids)
  /\ Cardinality(Ids) = MaxId - MinId + 1
BY IdsAssumption, FS_Interval DEF Ids

\* The identifiers in use can be counted.
LEMMA InUseFinite ==
  ASSUME NEW h
  PROVE  IsFiniteSet(InUse(h)) /\ Cardinality(InUse(h)) \in Nat
BY IdsFinite, FS_Subset, FS_CardinalityType DEF InUse

\* With at most MaxObjects identifiers in use the deque is not empty.
LEMMA SomeRange ==
  ASSUME NEW r, NEW h, r \in Seq(Ranges), h \in [Ids -> {0, 1}], Exact(r, h),
         Cardinality(InUse(h)) =< MaxObjects
  PROVE  Len(r) > 0
<1>1. SUFFICES ASSUME Len(r) = 0 PROVE FALSE
  BY DEF Ranges
<1>2. \A n \in Ids : h[n] # 0
  BY <1>1 DEF Exact, HeldBy
<1>3. InUse(h) = Ids
  BY <1>2 DEF InUse
<1>4. QED
  BY <1>3, IdsFinite, IdsAssumption

\* lower_bound returns the position that splits the ranges into those that
\* begin before v and those that do not.
LEMMA LowerBoundIs ==
  ASSUME NEW r \in Seq(Ranges), Ordered(r), NEW v \in Ids
  PROVE  /\ LowerBound(r, v) \in 1 .. Len(r) + 1
         /\ \A i \in 1 .. Len(r) : r[i].first < v <=> i < LowerBound(r, v)
<1> DEFINE S == { i \in 1 .. Len(r) : r[i].first < v }
<1>1. ASSUME NEW i \in S, NEW j \in 1 .. i PROVE j \in S
  <2>1. j \in 1 .. Len(r) /\ i \in 1 .. Len(r) /\ r[i] \in Ranges /\ r[j] \in Ranges
    OBVIOUS
  <2>2. j = i \/ r[j].last + 1 < r[i].first
    BY <2>1 DEF Ordered
  <2>3. r[j].first <= r[j].last
    BY <2>1 DEF Ordered
  <2>4. /\ r[i].first \in Int /\ r[i].last \in Int /\ v \in Int
        /\ r[j].first \in Int /\ r[j].last \in Int
    <3>1. /\ r[i].first \in Ids /\ r[i].last \in Ids
          /\ r[j].first \in Ids /\ r[j].last \in Ids
      BY <2>1 DEF Ranges
    <3>2. \A n \in Ids : n \in Int
      BY IdsAssumption DEF Ids
    <3>3. QED
      BY <3>1, <3>2
  <2>5. r[i].first < v
    OBVIOUS
  <2>6. j = i \/ r[j].first < v
    BY <2>2, <2>3, <2>4, <2>5
  <2>7. QED
    BY <2>1, <2>5, <2>6
<1>2. Len(r) \in Nat
  OBVIOUS
<1>3. Cardinality(S) \in 0 .. Len(r) /\ S = 1 .. Cardinality(S)
  BY <1>1, <1>2, PrefixCount
<1>4. LowerBound(r, v) = 1 + Cardinality(S)
  BY DEF LowerBound
<1>5. ASSUME NEW i \in 1 .. Len(r) PROVE r[i].first < v <=> i < 1 + Cardinality(S)
  <2>1. r[i].first < v <=> i \in S
    OBVIOUS
  <2>2. i \in S <=> i \in 1 .. Cardinality(S)
    BY <1>3
  <2>3. QED
    BY <2>1, <2>2, <1>3
<1>6. QED
  BY <1>3, <1>4, <1>5

-----------------------------------------------------------------------------
(* new_id *)

\* One more identifier is in use.
LEMMA TakeCount ==
  ASSUME NEW h \in [Ids -> {0, 1}], NEW n \in Ids, h[n] = 0,
         Cardinality(InUse(h)) < MaxObjects
  PROVE  Cardinality(InUse([h EXCEPT ![n] = @ + 1])) =< MaxObjects
<1>1. InUse([h EXCEPT ![n] = @ + 1]) = InUse(h) \union {n}
  BY DEF InUse
<1>2. IsFiniteSet(InUse(h)) /\ Cardinality(InUse(h)) \in Nat
  BY InUseFinite
<1>3. Cardinality(InUse(h) \union {n}) =< Cardinality(InUse(h)) + 1
  BY <1>2, FS_AddElement
<1>4. Cardinality(InUse(h)) + 1 =< MaxObjects
  BY <1>2, IdsAssumption
<1>5. Cardinality(InUse(h) \union {n}) =< MaxObjects
  <2>1. Cardinality(InUse(h) \union {n}) \in Nat
    BY <1>2, FS_AddElement
  <2>2. QED
    BY <1>2, <1>3, <1>4, <2>1, IdsAssumption
<1>6. QED
  BY Zenon, <1>1, <1>5

\* One identifier less is in use.
LEMMA GiveCount ==
  ASSUME NEW h \in [Ids -> {0, 1}], NEW n \in Ids, h[n] = 1,
         Cardinality(InUse(h)) =< MaxObjects
  PROVE  Cardinality(InUse([h EXCEPT ![n] = @ - 1])) =< MaxObjects
<1>1. InUse([h EXCEPT ![n] = @ - 1]) \subseteq InUse(h)
  BY DEF InUse
<1>2. Cardinality(InUse([h EXCEPT ![n] = @ - 1])) =< Cardinality(InUse(h))
  BY <1>1, InUseFinite, FS_Subset
<1>3. IsFiniteSet(InUse(h)) /\ IsFiniteSet(InUse([h EXCEPT ![n] = @ - 1]))
  BY <1>1, InUseFinite, FS_Subset
<1>4. PICK before \in Nat, after \in Nat :
        before = Cardinality(InUse(h)) /\ after = Cardinality(InUse([h EXCEPT ![n] = @ - 1]))
  BY <1>3, FS_CardinalityType
<1>5. after =< before /\ before =< MaxObjects
  BY Zenon, <1>2, <1>4
<1>6. after =< MaxObjects
  BY <1>5, IdsAssumption
<1>7. QED
  BY Zenon, <1>4, <1>6

\* No identifier is in two ranges.
LEMMA HeldOnce ==
  ASSUME NEW r \in Seq(Ranges), Ordered(r), NEW n \in Ids,
         NEW i \in 1 .. Len(r), NEW j \in 1 .. Len(r),
         r[i].first =< n, n =< r[i].last, r[j].first =< n, n =< r[j].last
  PROVE  i = j
<1>1. r[i] \in Ranges /\ r[j] \in Ranges
  OBVIOUS
<1>2. /\ r[i].first \in Int /\ r[i].last \in Int /\ n \in Int
      /\ r[j].first \in Int /\ r[j].last \in Int
  BY <1>1, IdsAssumption DEF Ranges, Ids
<1>3. i < j => r[i].last + 1 < r[j].first
  BY DEF Ordered
<1>4. j < i => r[j].last + 1 < r[i].first
  BY DEF Ordered
<1>5. ~ (i < j) /\ ~ (j < i)
  BY <1>2, <1>3, <1>4
<1>6. QED
  BY <1>5

\* new_id hands out an identifier that nobody holds, shrinks its range or
\* erases it, and leaves the generator good.
LEMMA NewIdGood ==
  ASSUME NewId, Good(emptyRanges, currentRange, holders)
  PROVE  /\ holders[emptyRanges[currentRange].first] = 0
         /\ emptyRanges[currentRange].first \in Ids
         /\ holders' = [holders EXCEPT ![emptyRanges[currentRange].first] = 1]
         /\ Good(emptyRanges', currentRange', holders')
<1> DEFINE r == emptyRanges
           c == currentRange
           h == holders
           n == r[c].first
           rest == [r EXCEPT ![c].first = @ + 1]
           erased == RemoveAt(r, c)
<1>1. /\ r \in Seq(Ranges) /\ c \in 1 .. Len(r) /\ h \in [Ids -> {0, 1}]
      /\ Ordered(r) /\ Exact(r, h) /\ Cardinality(InUse(h)) =< MaxObjects
  BY DEF Good
<1>2. n \in Ids /\ n \in Int /\ r[c].last \in Ids /\ r[c].last \in Int /\ n =< r[c].last
  <2>1. r[c] \in Ranges /\ r[c].first =< r[c].last
    BY <1>1 DEF Ordered
  <2>2. n \in Ids /\ r[c].last \in Ids
    BY <2>1 DEF Ranges
  <2>3. QED
    BY <2>1, <2>2, IdsAssumption DEF Ids
<1>3. h[n] = 0
  BY <1>1, <1>2 DEF Exact, HeldBy
<1>4. h' = [h EXCEPT ![n] = @ + 1] /\ Cardinality(InUse(h)) < MaxObjects
  BY DEF NewId, Used, InUse
<1>5. h' = [h EXCEPT ![n] = 1] /\ h' \in [Ids -> {0, 1}]
  BY <1>1, <1>2, <1>3, <1>4
<1>6. Cardinality(InUse(h')) =< MaxObjects
  BY <1>1, <1>2, <1>3, <1>4, TakeCount
<1>7. ASSUME NEW m \in Ids
      PROVE  h'[m] = 0 <=> (m # n /\ HeldBy(r, m))
  BY <1>1, <1>2, <1>5 DEF Exact
<1>8. CASE ~IsEmpty(rest[c]) /\ r' = rest /\ c' = c
  <2>1. /\ Len(rest) = Len(r)
        /\ rest[c] = [r[c] EXCEPT !.first = n + 1]
        /\ \A i \in 1 .. Len(r) : i # c => rest[i] = r[i]
    BY <1>1
  <2>2. rest[c].first = n + 1 /\ rest[c].last = r[c].last
    BY <2>1, <1>1 DEF Ranges
  <2>3. n + 1 =< r[c].last /\ n + 1 \in Ids
    BY <1>8, <1>2, <2>2, IdsAssumption DEF IsEmpty, Ids
  <2>4. rest[c] \in Ranges
    <3>1. r[c] \in Ranges
      BY <1>1
    <3>2. [r[c] EXCEPT !.first = n + 1] \in Ranges
      BY <3>1, <2>3 DEF Ranges
    <3>3. QED
      BY <3>2, <2>1
  <2>5. rest \in Seq(Ranges)
    BY <2>1, <2>4, <1>1
  <2>6. Ordered(rest)
    <3>1. \A i \in 1 .. Len(rest) : rest[i].first =< rest[i].last
      BY <1>1, <2>1, <2>2, <2>3 DEF Ordered
    <3>2. ASSUME NEW i \in 1 .. Len(rest), NEW j \in 1 .. Len(rest), i < j
          PROVE  rest[i].last + 1 < rest[j].first
      <4>1. rest[i].last = r[i].last /\ rest[j].first \in {r[j].first, r[j].first + 1}
        BY <2>1, <2>2
      <4>2. r[i].last + 1 < r[j].first
        BY <1>1, <2>1, <3>2 DEF Ordered
      <4>3. r[i] \in Ranges /\ r[j] \in Ranges
        BY <1>1, <2>1
      <4>4. QED
        BY <4>1, <4>2, <4>3, IdsAssumption DEF Ranges, Ids
    <3>3. QED
      BY <3>1, <3>2 DEF Ordered
  <2>7. ASSUME NEW m \in Ids
        PROVE  HeldBy(rest, m) <=> (m # n /\ HeldBy(r, m))
    <3>0. m \in Int
      BY IdsAssumption DEF Ids
    <3>1. ASSUME HeldBy(rest, m) PROVE m # n /\ HeldBy(r, m)
      <4>1. PICK i \in 1 .. Len(r) : rest[i].first =< m /\ m =< rest[i].last
        BY <3>1, <2>1 DEF HeldBy
      <4>2. CASE i = c
        <5>1. n + 1 =< m /\ m =< r[c].last
          BY <4>1, <4>2, <2>2
        <5>2. m # n /\ n =< m /\ r[c].first =< m /\ m =< r[c].last
          BY <5>1, <1>2, <3>0
        <5>3. QED
          BY <5>2, <1>1 DEF HeldBy
      <4>3. CASE i # c
        <5>1. r[i].first =< m /\ m =< r[i].last
          BY <4>1, <4>3, <2>1
        <5>2. m # n
          BY <5>1, <4>3, <1>1, <1>2, HeldOnce
        <5>3. QED
          BY <5>1, <5>2 DEF HeldBy
      <4>4. QED
        BY <4>2, <4>3
    <3>2. ASSUME m # n, HeldBy(r, m) PROVE HeldBy(rest, m)
      <4>1. PICK i \in 1 .. Len(r) : r[i].first =< m /\ m =< r[i].last
        BY <3>2 DEF HeldBy
      <4>2. CASE i = c
        <5>1. rest[c].first =< m /\ m =< rest[c].last
          BY <4>1, <4>2, <2>2, <3>2, <3>0, <1>2
        <5>2. QED
          BY <5>1, <2>1, <1>1 DEF HeldBy
      <4>3. CASE i # c
        BY <4>1, <4>3, <2>1 DEF HeldBy
      <4>4. QED
        BY <4>2, <4>3
    <3>3. QED
      BY <3>1, <3>2
  <2>8. Exact(r', h')
    BY <1>7, <1>8, <2>7 DEF Exact
  <2>9. QED
    BY <1>1, <1>2, <1>3, <1>5, <1>6, <1>8, <2>1, <2>5, <2>6, <2>8 DEF Good
<1>9. CASE IsEmpty(rest[c]) /\ r' = erased /\ c' = StepForward(erased, c)
  <2>1. rest[c].first = n + 1 /\ rest[c].last = r[c].last
    BY <1>1 DEF Ranges
  <2>2. n = r[c].last
    BY <2>1, <1>2, <1>9 DEF IsEmpty
  <2>3. /\ erased \in Seq(Ranges)
        /\ Len(erased) = Len(r) - 1
        /\ \A j \in 1 .. Len(r) - 1 : erased[j] = IF j < c THEN r[j] ELSE r[j + 1]
    BY <1>1, RemoveAtProps
  <2> DEFINE from(j) == IF j < c THEN j ELSE j + 1
  <2>4. \A j \in 1 .. Len(erased) :
           from(j) \in 1 .. Len(r) /\ from(j) # c /\ erased[j] = r[from(j)]
    BY <1>1, <2>3
  <2>5. \A i, j \in 1 .. Len(erased) : i < j => from(i) < from(j)
    BY <1>1, <2>3
  <2>6. \A i \in 1 .. Len(r) : i # c => \E j \in 1 .. Len(erased) : from(j) = i
    <3>1. ASSUME NEW i \in 1 .. Len(r), i < c PROVE i \in 1 .. Len(erased) /\ from(i) = i
      BY <1>1, <2>3, <3>1
    <3>2. ASSUME NEW i \in 1 .. Len(r), i > c PROVE i - 1 \in 1 .. Len(erased) /\ from(i - 1) = i
      BY <1>1, <2>3, <3>2
    <3>3. ASSUME NEW i \in 1 .. Len(r), i # c PROVE \E j \in 1 .. Len(erased) : from(j) = i
      <4>1. CASE i < c
        BY <4>1, <3>1
      <4>2. CASE i > c
        BY <4>2, <3>2
      <4>3. QED
        BY <3>3, <4>1, <4>2, <1>1
    <3>4. QED
      BY <3>3
  <2> HIDE DEF from, erased
  <2>7. Ordered(erased)
    BY <1>1, <2>4, <2>5 DEF Ordered
  <2>8. ASSUME NEW m \in Ids
        PROVE  HeldBy(erased, m) <=> (m # n /\ HeldBy(r, m))
    <3>1. ASSUME HeldBy(erased, m) PROVE m # n /\ HeldBy(r, m)
      <4>1. PICK i \in 1 .. Len(erased) : erased[i].first =< m /\ m =< erased[i].last
        BY <3>1 DEF HeldBy
      <4>2. r[from(i)].first =< m /\ m =< r[from(i)].last /\ from(i) \in 1 .. Len(r) /\ from(i) # c
        BY <4>1, <2>4
      <4>3. m # n
        BY <4>2, <1>1, <1>2, HeldOnce
      <4>4. QED
        BY <4>2, <4>3 DEF HeldBy
    <3>2. ASSUME m # n, HeldBy(r, m) PROVE HeldBy(erased, m)
      <4>1. PICK i \in 1 .. Len(r) : r[i].first =< m /\ m =< r[i].last
        BY <3>2 DEF HeldBy
      <4>2. i # c
        BY <4>1, <2>2, <3>2, <1>2, IdsAssumption DEF Ids
      <4>3. PICK j \in 1 .. Len(erased) : from(j) = i
        BY <4>2, <2>6
      <4>4. QED
        BY <4>1, <4>3, <2>4 DEF HeldBy
    <3>3. QED
      BY <3>1, <3>2
  <2>9. Exact(r', h')
    BY <1>7, <1>9, <2>8 DEF Exact
  <2>10. Len(r') > 0 /\ r' \in Seq(Ranges)
    BY <1>5, <1>6, <1>9, <2>3, <2>9, SomeRange
  <2>11. c' \in 1 .. Len(r')
    BY <1>1, <1>9, <2>3, <2>10 DEF StepForward, EndOf
  <2>12. QED
    BY <1>2, <1>3, <1>5, <1>6, <1>9, <2>7, <2>9, <2>10, <2>11 DEF Good
<1>10. QED
  BY <1>8, <1>9 DEF NewId

-----------------------------------------------------------------------------
(* reuse_id *)

\* reuse_id takes back an identifier that somebody holds: a range of its own,
\* the end of the range to its left, the start of the range to its right, or
\* what joins the two; the generator stays good.
LEMMA ReuseIdGood ==
  ASSUME NEW v \in Ids, ReuseId(v), Good(emptyRanges, currentRange, holders)
  PROVE  /\ holders[v] = 1
         /\ holders' = [holders EXCEPT ![v] = 0]
         /\ Good(emptyRanges', currentRange', holders')
<1> DEFINE r == emptyRanges
           c == currentRange
           h == holders
           p == LowerBound(r, v)
           left == JoinsLeft(r, p, v)
           rght == JoinsRight(r, p, v)
<1>1. /\ r \in Seq(Ranges) /\ c \in 1 .. Len(r) /\ h \in [Ids -> {0, 1}]
      /\ Ordered(r) /\ Exact(r, h) /\ Cardinality(InUse(h)) =< MaxObjects
  BY DEF Good
<1>2. v \in Int /\ Ids \subseteq Int
  BY IdsAssumption DEF Ids
<1>3. h[v] = 1 /\ h' = [h EXCEPT ![v] = @ - 1]
  BY <1>1 DEF ReuseId
<1>4. h' = [h EXCEPT ![v] = 0] /\ h' \in [Ids -> {0, 1}]
  BY <1>1, <1>3
<1>5. Cardinality(InUse(h')) =< MaxObjects
  BY <1>1, <1>3, GiveCount
<1>6. ASSUME NEW m \in Ids PROVE h'[m] = 0 <=> (m = v \/ HeldBy(r, m))
  BY <1>1, <1>4 DEF Exact
<1>7. ~HeldBy(r, v)
  BY <1>1, <1>3 DEF Exact
<1>8. /\ p \in 1 .. Len(r) + 1
      /\ \A i \in 1 .. Len(r) : r[i].first < v <=> i < p
  BY <1>1, LowerBoundIs
<1>9. \A i \in 1 .. Len(r) :
        /\ r[i] \in Ranges /\ r[i].first \in Ids /\ r[i].last \in Ids
        /\ r[i].first \in Int /\ r[i].last \in Int
        /\ r[i].first =< r[i].last
  <2>1. \A i \in 1 .. Len(r) : r[i] \in Ranges /\ r[i].first =< r[i].last
    BY <1>1 DEF Ordered
  <2>2. QED
    BY <2>1, <1>2 DEF Ranges
<1>10. \A i \in 1 .. Len(r) : (i < p => r[i].last < v) /\ (i >= p => v < r[i].first)
  BY <1>2, <1>7, <1>8, <1>9 DEF HeldBy
<1>11. \A i, j \in 1 .. Len(r) : i < j => r[i].last + 1 < r[j].first
  BY <1>1 DEF Ordered
<1>12. SUFFICES /\ r' \in Seq(Ranges)
                /\ c' \in 1 .. Len(r')
                /\ Ordered(r')
                /\ \A m \in Ids : HeldBy(r', m) <=> (m = v \/ HeldBy(r, m))
  BY <1>3, <1>4, <1>5, <1>6, <1>12 DEF Good, Exact
<1> HIDE DEF p
<1>13. ASSUME ~left PROVE \A i \in 1 .. Len(r) : i < p => r[i].last + 1 < v
  <2>1. SUFFICES ASSUME NEW i \in 1 .. Len(r), i < p PROVE r[i].last + 1 < v
    OBVIOUS
  <2>2. p - 1 \in 1 .. Len(r) /\ p > 1
    BY <2>1, <1>8
  <2>3. r[p - 1].last + 1 # v /\ r[p - 1].last < v
    <3>1. r[p - 1].last + 1 # v
      BY <1>13, <2>2 DEF JoinsLeft
    <3>2. p - 1 < p
      BY <1>8
    <3>3. QED
      BY <3>1, <3>2, <2>2, <1>10
  <2>4. r[p - 1].last + 1 < v
    BY <2>2, <2>3, <1>2, <1>9
  <2>5. i = p - 1 \/ r[i].last + 1 < r[p - 1].first
    BY <2>1, <2>2, <1>8, <1>11
  <2>6. QED
    BY <2>1, <2>2, <2>4, <2>5, <1>2, <1>9
<1>14. ASSUME ~rght PROVE \A i \in 1 .. Len(r) : i >= p => v + 1 < r[i].first
  <2>1. SUFFICES ASSUME NEW i \in 1 .. Len(r), i >= p PROVE v + 1 < r[i].first
    OBVIOUS
  <2>2. p \in 1 .. Len(r) /\ p # EndOf(r)
    BY <2>1, <1>8 DEF EndOf
  <2>3. r[p].first - 1 # v /\ v < r[p].first
    BY <1>14, <2>2, <1>10 DEF JoinsRight
  <2>4. v + 1 < r[p].first
    BY <2>2, <2>3, <1>2, <1>9
  <2>5. i = p \/ r[p].last + 1 < r[i].first
    BY <2>1, <2>2, <1>8, <1>11
  <2>6. QED
    BY <2>1, <2>2, <2>4, <2>5, <1>2, <1>9
<1>15. ASSUME left
       PROVE  p - 1 \in 1 .. Len(r) /\ r[p - 1].last + 1 = v
  BY <1>8, <1>15 DEF JoinsLeft
<1>16. ASSUME rght
       PROVE  p \in 1 .. Len(r) /\ r[p].first = v + 1
  BY <1>2, <1>8, <1>9, <1>16 DEF JoinsRight, EndOf
<1>17. CASE ~left /\ ~rght /\ InsertRange(v, p)
  <2> DEFINE e == WithFirstLast(v, v)
             s == InsertAt(r, p, e)
             from(j) == IF j < p THEN j ELSE j - 1
  <2>1. e \in Ranges /\ e.first = v /\ e.last = v
    BY DEF WithFirstLast, Ranges
  <2>2. /\ s \in Seq(Ranges)
        /\ Len(s) = Len(r) + 1
        /\ \A j \in 1 .. Len(r) + 1 :
             s[j] = IF j < p THEN r[j] ELSE IF j = p THEN e ELSE r[j - 1]
    BY <1>1, <1>8, <2>1, InsertAtProps
  <2>3. r' = s /\ c' \in 1 .. Len(s)
    BY <1>1, <1>8, <1>17, <2>2 DEF InsertRange, IndexAfterInsert
  <2>4. /\ p \in 1 .. Len(s) /\ s[p] = e
        /\ \A j \in 1 .. Len(s) : j # p =>
             /\ from(j) \in 1 .. Len(r) /\ s[j] = r[from(j)]
             /\ (j < p <=> from(j) < p)
    BY <1>8, <2>2
  <2>5. \A i, j \in 1 .. Len(s) : (i # p /\ j # p /\ i < j) => from(i) < from(j)
    BY <1>8, <2>2
  <2>6. \A i \in 1 .. Len(r) : \E j \in 1 .. Len(s) : j # p /\ from(j) = i
    <3>1. \A i \in 1 .. Len(r) : i < p => (i \in 1 .. Len(s) /\ i # p /\ from(i) = i)
      BY <1>8, <2>2
    <3>2. \A i \in 1 .. Len(r) : i >= p => (i + 1 \in 1 .. Len(s) /\ i + 1 # p /\ from(i + 1) = i)
      BY <1>8, <2>2
    <3> HIDE DEF from, s
    <3>3. ASSUME NEW i \in 1 .. Len(r) PROVE \E j \in 1 .. Len(s) : j # p /\ from(j) = i
      <4>1. CASE i < p
        BY <4>1, <3>1
      <4>2. CASE i >= p
        BY <4>2, <3>2
      <4>3. QED
        BY <4>1, <4>2, <1>8
    <3>4. QED
      BY <3>3
  <2> HIDE DEF from, s, e
  <2>7. Ordered(s)
    <3>1. \A i \in 1 .. Len(s) : s[i].first =< s[i].last
      <4>1. s[p].first =< s[p].last
        BY <1>2, <2>1, <2>4
      <4>2. ASSUME NEW i \in 1 .. Len(s), i # p PROVE s[i].first =< s[i].last
        <5>1. from(i) \in 1 .. Len(r) /\ s[i] = r[from(i)]
          BY <2>4, <4>2
        <5>2. QED
          BY <1>9, <5>1
      <4>3. QED
        BY <4>1, <4>2
    <3>2. ASSUME NEW i \in 1 .. Len(s), NEW j \in 1 .. Len(s), i < j
          PROVE  s[i].last + 1 < s[j].first
      <4>1. CASE i = p
        <5>1. j # p /\ from(j) \in 1 .. Len(r) /\ from(j) >= p /\ s[j] = r[from(j)]
          BY <3>2, <4>1, <2>4, <2>2, <1>8
        <5>2. QED
          BY <4>1, <5>1, <2>1, <2>4, <1>14, <1>17
      <4>2. CASE j = p
        <5>1. i # p /\ from(i) \in 1 .. Len(r) /\ from(i) < p /\ s[i] = r[from(i)]
          BY <3>2, <4>2, <2>4, <2>2, <1>8
        <5>2. QED
          BY <4>2, <5>1, <2>1, <2>4, <1>13, <1>17
      <4>3. CASE i # p /\ j # p
        BY <3>2, <4>3, <2>4, <2>5, <1>11
      <4>4. QED
        BY <4>1, <4>2, <4>3
    <3>3. QED
      BY <3>1, <3>2 DEF Ordered
  <2>8. ASSUME NEW m \in Ids PROVE HeldBy(s, m) <=> (m = v \/ HeldBy(r, m))
    <3>1. ASSUME HeldBy(s, m) PROVE m = v \/ HeldBy(r, m)
      <4>1. PICK j \in 1 .. Len(s) : s[j].first =< m /\ m =< s[j].last
        BY <3>1 DEF HeldBy
      <4>2. CASE j = p
        BY <4>1, <4>2, <2>1, <2>4, <1>2
      <4>3. CASE j # p
        BY <4>1, <4>3, <2>4 DEF HeldBy
      <4>4. QED
        BY <4>2, <4>3
    <3>2. ASSUME m = v PROVE HeldBy(s, m)
      BY <3>2, <2>1, <2>4, <1>2 DEF HeldBy
    <3>3. ASSUME HeldBy(r, m) PROVE HeldBy(s, m)
      <4>1. PICK i \in 1 .. Len(r) : r[i].first =< m /\ m =< r[i].last
        BY <3>3 DEF HeldBy
      <4>2. PICK j \in 1 .. Len(s) : j # p /\ from(j) = i
        BY <2>6
      <4>3. QED
        BY <4>1, <4>2, <2>4 DEF HeldBy
    <3>4. QED
      BY <3>1, <3>2, <3>3
  <2>9. QED
    BY <2>2, <2>3, <2>7, <2>8
<1>18. CASE left /\ ~rght /\ r' = [r EXCEPT ![p - 1].last = v] /\ c' = c
  <2> DEFINE s == [r EXCEPT ![p - 1].last = v]
             q == p - 1
  <2>1. q \in 1 .. Len(r) /\ r[q].last + 1 = v /\ q < p
    BY <1>8, <1>15, <1>18
  <2>2. /\ Len(s) = Len(r)
        /\ s[q] = [r[q] EXCEPT !.last = v]
        /\ \A i \in 1 .. Len(r) : i # q => s[i] = r[i]
    BY <1>1, <2>1
  <2>3. s[q] \in Ranges /\ s[q].first = r[q].first /\ s[q].last = v
    <3>1. r[q] \in Ranges
      BY <1>9, <2>1
    <3>2. QED
      BY <3>1, <2>2 DEF Ranges
  <2>4. s \in Seq(Ranges)
    BY <1>1, <2>1, <2>2, <2>3
  <2> HIDE DEF s, q
  <2>5. Ordered(s)
    <3>1. ASSUME NEW i \in 1 .. Len(s) PROVE s[i].first =< s[i].last
      <4>1. r[i].first =< r[i].last /\ r[i].first \in Int /\ r[i].last \in Int
        BY <1>9, <2>2
      <4>2. CASE i = q
        BY <4>1, <4>2, <1>2, <2>1, <2>3
      <4>3. CASE i # q
        BY <4>1, <4>3, <2>2
      <4>4. QED
        BY <4>2, <4>3
    <3>2. ASSUME NEW i \in 1 .. Len(s), NEW j \in 1 .. Len(s), i < j
          PROVE  s[i].last + 1 < s[j].first
      <4>1. s[j].first = r[j].first
        BY <2>2, <2>3
      <4>2. CASE i = q
        <5>1. j >= p /\ j \in 1 .. Len(r)
          BY <3>2, <4>2, <2>2, <1>8 DEF q
        <5>2. QED
          BY <5>1, <4>1, <4>2, <2>3, <1>14, <1>18
      <4>3. CASE i # q
        BY <3>2, <4>1, <4>3, <2>2, <1>11
      <4>4. QED
        BY <4>2, <4>3
    <3>3. QED
      BY <3>1, <3>2 DEF Ordered
  <2>6. ASSUME NEW m \in Ids PROVE HeldBy(s, m) <=> (m = v \/ HeldBy(r, m))
    <3>0. m \in Int
      BY <1>2
    <3>1. (s[q].first =< m /\ m =< s[q].last)
            <=> (m = v \/ (r[q].first =< m /\ m =< r[q].last))
      BY <3>0, <1>2, <1>9, <2>1, <2>3
    <3>2. QED
      BY <3>1, <2>1, <2>2 DEF HeldBy
  <2>7. QED
    BY <1>1, <1>18, <2>2, <2>4, <2>5, <2>6 DEF s
<1>19. CASE ~left /\ rght /\ r' = [r EXCEPT ![p].first = v] /\ c' = c
  <2> DEFINE s == [r EXCEPT ![p].first = v]
  <2>1. p \in 1 .. Len(r) /\ r[p].first = v + 1
    BY <1>16, <1>19
  <2>2. /\ Len(s) = Len(r)
        /\ s[p] = [r[p] EXCEPT !.first = v]
        /\ \A i \in 1 .. Len(r) : i # p => s[i] = r[i]
    BY <1>1, <2>1
  <2>3. s[p] \in Ranges /\ s[p].first = v /\ s[p].last = r[p].last
    <3>1. r[p] \in Ranges
      BY <1>9, <2>1
    <3>2. QED
      BY <3>1, <2>2 DEF Ranges
  <2>4. s \in Seq(Ranges)
    BY <1>1, <2>1, <2>2, <2>3
  <2> HIDE DEF s
  <2>5. Ordered(s)
    <3>1. ASSUME NEW i \in 1 .. Len(s) PROVE s[i].first =< s[i].last
      <4>1. r[i].first =< r[i].last /\ r[i].first \in Int /\ r[i].last \in Int
        BY <1>9, <2>2
      <4>2. CASE i = p
        BY <4>1, <4>2, <1>2, <2>1, <2>3
      <4>3. CASE i # p
        BY <4>1, <4>3, <2>2
      <4>4. QED
        BY <4>2, <4>3
    <3>2. ASSUME NEW i \in 1 .. Len(s), NEW j \in 1 .. Len(s), i < j
          PROVE  s[i].last + 1 < s[j].first
      <4>1. s[i].last = r[i].last
        BY <2>2, <2>3
      <4>2. CASE j = p
        <5>1. i < p /\ i \in 1 .. Len(r)
          BY <3>2, <4>2, <2>2
        <5>2. QED
          BY <5>1, <4>1, <4>2, <2>3, <1>13, <1>19
      <4>3. CASE j # p
        BY <3>2, <4>1, <4>3, <2>2, <1>11
      <4>4. QED
        BY <4>2, <4>3
    <3>3. QED
      BY <3>1, <3>2 DEF Ordered
  <2>6. ASSUME NEW m \in Ids PROVE HeldBy(s, m) <=> (m = v \/ HeldBy(r, m))
    <3>0. m \in Int
      BY <1>2
    <3>1. (s[p].first =< m /\ m =< s[p].last)
            <=> (m = v \/ (r[p].first =< m /\ m =< r[p].last))
      BY <3>0, <1>2, <1>9, <2>1, <2>3
    <3>2. QED
      BY <3>1, <2>1, <2>2 DEF HeldBy
  <2>7. QED
    BY <1>1, <1>19, <2>2, <2>4, <2>5, <2>6 DEF s
<1>20. CASE left /\ rght /\ MergeRanges(p)
  <2> DEFINE w == [r EXCEPT ![p - 1].last = r[p].last]
             q == p - 1
             s == RemoveAt(w, p)
             from(j) == IF j < p THEN j ELSE j + 1
  <2>1. /\ q \in 1 .. Len(r) /\ p \in 1 .. Len(r) /\ q < p
        /\ r[q].last + 1 = v /\ r[p].first = v + 1
    BY <1>8, <1>15, <1>16, <1>20
  <2>2. /\ Len(w) = Len(r)
        /\ w[q] = [r[q] EXCEPT !.last = r[p].last]
        /\ \A i \in 1 .. Len(r) : i # q => w[i] = r[i]
    BY <1>1, <2>1
  <2>3. w[q] \in Ranges /\ w[q].first = r[q].first /\ w[q].last = r[p].last
    <3>1. r[q] \in Ranges /\ r[p].last \in Ids
      BY <1>9, <2>1
    <3>2. QED
      BY <3>1, <2>2 DEF Ranges
  <2>4. w \in Seq(Ranges)
    BY <1>1, <2>1, <2>2, <2>3
  <2> HIDE DEF w
  <2>5. /\ s \in Seq(Ranges)
        /\ Len(s) = Len(r) - 1
        /\ \A j \in 1 .. Len(r) - 1 : s[j] = IF j < p THEN w[j] ELSE w[j + 1]
    BY <2>1, <2>2, <2>4, RemoveAtProps
  <2>6. r' = s /\ c' \in 1 .. Len(s)
    BY <1>1, <1>20, <2>1, <2>5 DEF MergeRanges, IndexAfterErase, w
  <2>7. /\ q \in 1 .. Len(s) /\ s[q] = w[q] /\ from(q) = q
        /\ \A j \in 1 .. Len(s) :
             /\ from(j) \in 1 .. Len(r) /\ from(j) # p
             /\ (j # q => from(j) # q)
             /\ s[j] = w[from(j)]
    BY <2>1, <2>5
  <2>8. \A i, j \in 1 .. Len(s) : i < j => from(i) < from(j)
    BY <2>1, <2>5
  <2>9. \A i \in 1 .. Len(r) : i # p => \E j \in 1 .. Len(s) : from(j) = i
    <3>1. \A i \in 1 .. Len(r) : i < p => (i \in 1 .. Len(s) /\ from(i) = i)
      BY <2>1, <2>5
    <3>2. \A i \in 1 .. Len(r) : i > p => (i - 1 \in 1 .. Len(s) /\ from(i - 1) = i)
      BY <2>1, <2>5
    <3> HIDE DEF from, s
    <3>3. ASSUME NEW i \in 1 .. Len(r), i # p PROVE \E j \in 1 .. Len(s) : from(j) = i
      <4>1. CASE i < p
        BY <4>1, <3>1
      <4>2. CASE i > p
        BY <4>2, <3>2
      <4>3. QED
        BY <3>3, <4>1, <4>2, <2>1
    <3>4. QED
      BY <3>3
  <2>10. \A j \in 1 .. Len(s) : j # q => s[j] = r[from(j)]
    BY <2>2, <2>7
  <2> HIDE DEF from, s, q
  <2>11. s[q].first = r[q].first /\ s[q].last = r[p].last
    BY <2>3, <2>7
  <2>12. Ordered(s)
    <3>1. \A i \in 1 .. Len(s) : s[i].first =< s[i].last
      <4>1. r[q].first =< r[p].last
        BY <1>2, <1>9, <2>1
      <4>2. QED
        BY <4>1, <1>9, <2>7, <2>10, <2>11
    <3>2. ASSUME NEW i \in 1 .. Len(s), NEW j \in 1 .. Len(s), i < j
          PROVE  s[i].last + 1 < s[j].first
      <4>1. s[j].first = r[from(j)].first
        BY <2>7, <2>10, <2>11
      <4>2. CASE i = q
        <5>1. from(j) > p
          BY <3>2, <4>2, <2>1, <2>7, <2>8 DEF q
        <5>2. QED
          BY <5>1, <4>1, <4>2, <2>1, <2>7, <2>11, <1>11
      <4>3. CASE i # q
        BY <3>2, <4>1, <4>3, <2>7, <2>8, <2>10, <1>11
      <4>4. QED
        BY <4>2, <4>3
    <3>3. QED
      BY <3>1, <3>2 DEF Ordered
  <2>13. ASSUME NEW m \in Ids PROVE HeldBy(s, m) <=> (m = v \/ HeldBy(r, m))
    <3>0. m \in Int
      BY <1>2
    <3>1. (s[q].first =< m /\ m =< s[q].last)
            <=> \/ m = v
                \/ r[q].first =< m /\ m =< r[q].last
                \/ r[p].first =< m /\ m =< r[p].last
      BY <3>0, <1>2, <1>9, <2>1, <2>11
    <3>2. ASSUME HeldBy(s, m) PROVE m = v \/ HeldBy(r, m)
      <4>1. PICK j \in 1 .. Len(s) : s[j].first =< m /\ m =< s[j].last
        BY <3>2 DEF HeldBy
      <4>2. CASE j = q
        BY <4>1, <4>2, <3>1, <2>1 DEF HeldBy
      <4>3. CASE j # q
        BY <4>1, <4>3, <2>7, <2>10 DEF HeldBy
      <4>4. QED
        BY <4>2, <4>3
    <3>3. ASSUME m = v PROVE HeldBy(s, m)
      BY <3>1, <3>3, <2>7 DEF HeldBy
    <3>4. ASSUME HeldBy(r, m) PROVE HeldBy(s, m)
      <4>1. PICK i \in 1 .. Len(r) : r[i].first =< m /\ m =< r[i].last
        BY <3>4 DEF HeldBy
      <4>2. CASE i = p \/ i = q
        BY <4>1, <4>2, <3>1, <2>7 DEF HeldBy
      <4>3. CASE i # p /\ i # q
        <5>1. PICK j \in 1 .. Len(s) : from(j) = i
          BY <4>3, <2>9
        <5>2. j # q
          BY <4>3, <5>1, <2>7
        <5>3. QED
          BY <4>1, <5>1, <5>2, <2>10 DEF HeldBy
      <4>4. QED
        BY <4>2, <4>3
    <3>5. QED
      BY <3>2, <3>3, <3>4
  <2>14. QED
    BY <2>5, <2>6, <2>12, <2>13
<1>21. QED
  BY <1>17, <1>18, <1>19, <1>20 DEF ReuseId, p

-----------------------------------------------------------------------------
(* u_clear, save and load *)

\* A save is not the absence of one.
LEMMA NoSaveIsNoSave ==
  ASSUME NEW s \in Saves
  PROVE  s # NoSave /\ s.holders # NoSave
BY NoSaveAssumption DEF Saves, Ranges, Ids

\* The deque with one range is right when nobody holds an identifier.
LEMMA ClearGood == Good(<<WithFirstLast(MinId, MaxId)>>, 1, NoHolders)
<1> DEFINE e == WithFirstLast(MinId, MaxId)
           s == <<e>>
<1>1. MinId \in Ids /\ MaxId \in Ids
  BY IdsAssumption DEF Ids
<1>2. e \in Ranges /\ e.first = MinId /\ e.last = MaxId
  BY <1>1 DEF WithFirstLast, Ranges
<1> HIDE DEF e
<1>3. s \in Seq(Ranges) /\ Len(s) = 1 /\ s[1] = e
  BY <1>2
<1> HIDE DEF s
<1>4. Ordered(s)
  BY <1>2, <1>3, IdsAssumption DEF Ordered
<1>5. NoHolders \in [Ids -> {0, 1}] /\ InUse(NoHolders) = {}
  BY DEF NoHolders, InUse
<1>6. \A n \in Ids : NoHolders[n] = 0
  BY DEF NoHolders
<1>7. \A n \in Ids : MinId =< n /\ n =< MaxId
  BY DEF Ids
<1>8. Exact(s, NoHolders)
  BY <1>2, <1>3, <1>6, <1>7 DEF Exact, HeldBy
<1>9. Cardinality(InUse(NoHolders)) =< MaxObjects
  BY <1>5, FS_EmptySet, IdsAssumption
<1>10. 1 \in 1 .. Len(s)
  BY <1>3
<1>11. QED
  BY <1>3, <1>4, <1>5, <1>8, <1>9, <1>10 DEF Good, s, e

\* The types Good implies.
LEMMA GoodTypes ==
  ASSUME NEW r, NEW c, NEW h, Good(r, c, h)
  PROVE  r \in Seq(Ranges) /\ c \in 1 .. Len(r) /\ h \in [Ids -> Nat]
BY DEF Good

\* What save writes is good.
LEMMA SaveGood ==
  ASSUME IInv, Save
  PROVE  saved' \in Saves /\ saved'.holders = holders /\ IInv'
<1>1. Good(emptyRanges, currentRange, holders)
  BY DEF IInv
<1>2. /\ saved' = [ranges |-> emptyRanges, currIdx |-> currentRange - 1, holders |-> holders]
      /\ emptyRanges' = emptyRanges /\ currentRange' = currentRange /\ holders' = holders
  BY DEF Save
<1>3. emptyRanges \in Seq(Ranges) /\ currentRange - 1 \in Nat /\ holders \in [Ids -> Nat]
      /\ IndexFromSave(currentRange - 1) = currentRange
  BY <1>1, GoodTypes DEF IndexFromSave
<1>4. saved' \in Saves
  BY <1>2, <1>3 DEF Saves
<1>5. saved'.ranges = emptyRanges /\ saved'.currIdx = currentRange - 1 /\ saved'.holders = holders
  BY <1>2
<1>6. QED
  BY <1>1, <1>2, <1>3, <1>4, <1>5 DEF IInv

\* What load brings back is good.
LEMMA LoadGood ==
  ASSUME IInv, Load
  PROVE  saved \in Saves /\ holders' = saved.holders /\ IInv'
BY DEF IInv, Load

-----------------------------------------------------------------------------
(* The invariant is inductive *)

\* A new generator satisfies the invariant.
THEOREM InitIInv == Init => IInv
BY ClearGood DEF Init, IInv

\* Every operation of the generator keeps the invariant.
THEOREM NextIInv == IInv /\ [Next]_vars => IInv'
<1> SUFFICES ASSUME IInv, [Next]_vars PROVE IInv'
  OBVIOUS
<1>1. CASE NewId
  <2>1. saved' = saved
    BY <1>1 DEF NewId
  <2>2. QED
    BY <1>1, <2>1, NewIdGood DEF IInv
<1>2. ASSUME NEW val \in Ids, ReuseId(val) PROVE IInv'
  <2>1. saved' = saved
    BY <1>2 DEF ReuseId
  <2>2. QED
    BY <1>2, <2>1, ReuseIdGood DEF IInv
<1>3. CASE Clear
  BY <1>3, ClearGood DEF Clear, IInv
<1>4. CASE Save
  BY <1>4, SaveGood
<1>5. CASE Load
  BY <1>5, LoadGood
<1>6. CASE UNCHANGED vars
  BY <1>6 DEF vars, IInv
<1>7. QED
  BY <1>1, <1>2, <1>3, <1>4, <1>5, <1>6 DEF Next

\* The invariant holds in every reachable state.
THEOREM Invariance == Spec => []IInv
BY InitIInv, NextIInv, PTL DEF Spec

-----------------------------------------------------------------------------
(* The invariants the runs check *)

\* The binary search of is_free_id finds the range that holds v, if one does.
LEMMA IsFreeIdIs ==
  ASSUME Good(emptyRanges, currentRange, holders), NEW v \in Ids
  PROVE  IsFreeId(v) <=> HeldBy(emptyRanges, v)
<1> DEFINE r == emptyRanges
           S == { i \in 1 .. Len(r) : r[i].first =< v }
           k == Cardinality(S)
<1>1. r \in Seq(Ranges) /\ Ordered(r) /\ Len(r) \in Nat
  BY DEF Good
<1>2. v \in Int /\ Ids \subseteq Int
  BY IdsAssumption DEF Ids
<1>3. \A i \in 1 .. Len(r) :
        r[i].first \in Int /\ r[i].last \in Int /\ r[i].first =< r[i].last
  <2>1. \A i \in 1 .. Len(r) : r[i] \in Ranges /\ r[i].first =< r[i].last
    BY <1>1 DEF Ordered
  <2>2. QED
    BY <2>1, <1>2 DEF Ranges
<1>4. \A i, j \in 1 .. Len(r) : i < j => r[i].last + 1 < r[j].first
  BY <1>1 DEF Ordered
<1>5. ASSUME NEW i \in S, NEW j \in 1 .. i PROVE j \in S
  <2>1. j \in 1 .. Len(r) /\ i \in 1 .. Len(r) /\ r[i].first =< v
    OBVIOUS
  <2>2. j = i \/ r[j].last + 1 < r[i].first
    BY <2>1, <1>4
  <2>3. QED
    BY <2>1, <2>2, <1>2, <1>3
<1>6. k \in 0 .. Len(r) /\ S = 1 .. k
  BY <1>1, <1>5, PrefixCount
<1>7. IsFreeId(v) <=> k > 0 /\ r[k].first =< v /\ v < r[k].last + 1
  BY DEF IsFreeId
<1> HIDE DEF k
<1>8. ASSUME IsFreeId(v) PROVE HeldBy(r, v)
  <2>1. k \in 1 .. Len(r)
    BY <1>6, <1>7, <1>8
  <2>2. r[k].first =< v /\ v =< r[k].last
    BY <2>1, <1>2, <1>3, <1>7, <1>8
  <2>3. QED
    BY <2>1, <2>2 DEF HeldBy
<1>9. ASSUME HeldBy(r, v) PROVE IsFreeId(v)
  <2>1. PICK i \in 1 .. Len(r) : r[i].first =< v /\ v =< r[i].last
    BY <1>9 DEF HeldBy
  <2>2. i \in 1 .. k
    BY <2>1, <1>6
  <2>3. k \in 1 .. Len(r) /\ k \in S
    BY <2>2, <1>6
  <2>4. r[k].first =< v
    BY <2>3
  <2>5. ~(i < k)
    BY <2>1, <2>3, <2>4, <1>2, <1>3, <1>4
  <2>6. i = k
    BY <2>2, <2>3, <2>5
  <2>7. QED
    BY <2>1, <2>3, <2>6, <1>2, <1>3, <1>7
<1>10. QED
  BY <1>8, <1>9

\* The state keeps its type: the iterator is in the deque or its end().
THEOREM TypesHold == Spec => []TypeOK
<1>1. IInv => TypeOK
  BY DEF IInv, Good, TypeOK, EndOf, Ranges
<1>2. QED
  BY <1>1, Invariance, PTL

\* The ranges are never empty, never overlap and never touch: reuse_id merges
\* what it could have merged, and the binary searches find sorted ranges.
THEOREM RangesStayApart == Spec => []RangesApart
<1>1. IInv => RangesApart
  <2> SUFFICES ASSUME IInv PROVE RangesApart
    OBVIOUS
  <2> DEFINE r == emptyRanges
  <2>1. r \in Seq(Ranges) /\ Ordered(r)
    BY DEF IInv, Good
  <2>2. DOMAIN r = 1 .. Len(r)
    BY <2>1
  <2>3. ASSUME NEW i \in 1 .. Len(r) PROVE ~IsEmpty(r[i])
    <3>1. r[i] \in Ranges /\ r[i].first =< r[i].last
      BY <2>1 DEF Ordered
    <3>2. r[i].first \in Int /\ r[i].last \in Int
      BY <3>1, IdsAssumption DEF Ranges, Ids
    <3>3. QED
      BY <3>1, <3>2 DEF IsEmpty
  <2>4. ASSUME NEW i \in 1 .. Len(r) - 1 PROVE r[i].last + 1 < r[i + 1].first
    <3>1. i \in 1 .. Len(r) /\ i + 1 \in 1 .. Len(r) /\ i < i + 1
      BY <2>1
    <3>2. QED
      BY <3>1, <2>1 DEF Ordered
  <2>5. QED
    BY <2>2, <2>3, <2>4 DEF RangesApart
<1>2. QED
  BY <1>1, Invariance, PTL

\* The iterator that new_id dereferences is never end().
THEOREM CurrentRangeStaysValid == Spec => []CurrentRangeValid
<1>1. IInv => CurrentRangeValid
  BY DEF IInv, Good, CurrentRangeValid
<1>2. QED
  BY <1>1, Invariance, PTL

\* The ranges hold exactly the identifiers that nobody holds, and is_free_id
\* says so of every one.
THEOREM FreeIdsStayExact == Spec => []FreeIdsExact
<1>1. IInv => FreeIdsExact
  <2> SUFFICES ASSUME IInv PROVE FreeIdsExact
    OBVIOUS
  <2> DEFINE r == emptyRanges
  <2>1. /\ Good(r, currentRange, holders)
        /\ r \in Seq(Ranges) /\ Exact(r, holders) /\ holders \in [Ids -> {0, 1}]
    BY DEF IInv, Good
  <2>2. \A n \in Ids : n \notin Used <=> HeldBy(r, n)
    BY <2>1 DEF Exact, Used
  <2>8. \A i \in 1 .. Len(r) : r[i] \in Ranges
    BY <2>1
  <2>3. ASSUME NEW n \in MembersOf(r) PROVE n \in Ids /\ HeldBy(r, n)
    <3>1. PICK i \in 1 .. Len(r) : n \in r[i].first .. r[i].last
      BY <2>1 DEF MembersOf, ToSet
    <3>2. r[i].first \in Ids /\ r[i].last \in Ids
      BY <2>8 DEF Ranges
    <3>3. n \in Ids
      BY <3>1, <3>2, IdsAssumption DEF Ids
    <3>4. QED
      BY <3>1, <3>3 DEF HeldBy
  <2>4. ASSUME NEW n \in Ids, HeldBy(r, n) PROVE n \in MembersOf(r)
    <3>1. PICK i \in 1 .. Len(r) : r[i].first =< n /\ n =< r[i].last
      BY <2>4 DEF HeldBy
    <3>2. r[i].first \in Ids /\ r[i].last \in Ids
      BY <2>8 DEF Ranges
    <3>3. n \in r[i].first .. r[i].last
      BY <3>1, <3>2, IdsAssumption DEF Ids
    <3>4. r[i] \in ToSet(r)
      BY <2>1 DEF ToSet
    <3>5. QED
      BY <3>3, <3>4 DEF MembersOf
  <2>5. MembersOf(r) = Ids \ Used
    BY <2>2, <2>3, <2>4
  <2>6. \A v \in Ids : IsFreeId(v) <=> v \notin Used
    BY <2>1, <2>2, IsFreeIdIs
  <2>7. QED
    BY <2>5, <2>6 DEF FreeIdsExact
<1>2. QED
  BY <1>1, Invariance, PTL

-----------------------------------------------------------------------------
(* Refinement *)

\* The deque of ranges implements the set of free handles: an identifier is
\* handed out only when nobody holds it and taken back only from its holder,
\* across saves and loads.
THEOREM Refinement == Spec => ImplementsAllocator
<1> USE DEF Allocator!Ids, Allocator!NoHolders, Ids, NoHolders
<1>1. Init => Allocator!Init
  BY DEF Init, Allocator!Init
<1>2. IInv /\ IInv' /\ [Next]_vars => [Allocator!Next]_(Allocator!vars)
  <2> SUFFICES ASSUME IInv, IInv', [Next]_vars
               PROVE  [Allocator!Next]_(Allocator!vars)
    OBVIOUS
  <2>1. CASE NewId
    <3>1. UNCHANGED saved
      BY <2>1 DEF NewId
    <3>2. PICK n \in Ids : holders[n] = 0 /\ holders' = [holders EXCEPT ![n] = 1]
      BY <2>1, NewIdGood DEF IInv
    <3>3. Allocator!New
      BY <3>1, <3>2 DEF Allocator!New
    <3>4. QED
      BY <3>3 DEF Allocator!Next
  <2>2. ASSUME NEW val \in Ids, ReuseId(val) PROVE Allocator!Next
    <3>1. UNCHANGED saved
      BY <2>2 DEF ReuseId
    <3>2. holders[val] = 1 /\ holders' = [holders EXCEPT ![val] = 0]
      BY <2>2, ReuseIdGood DEF IInv
    <3>3. Allocator!Reuse
      BY <3>1, <3>2 DEF Allocator!Reuse
    <3>4. QED
      BY <3>3 DEF Allocator!Next
  <2>3. CASE Clear
    BY <2>3 DEF Clear, Allocator!Clear, Allocator!Next
  <2>4. CASE Save
    <3>1. saved' # NoSave /\ saved'.holders = holders
      BY <2>4, SaveGood, NoSaveIsNoSave
    <3>2. UNCHANGED holders
      BY <2>4 DEF Save
    <3>3. Allocator!Save
      BY <3>1, <3>2 DEF Allocator!Save
    <3>4. QED
      BY <3>3 DEF Allocator!Next
  <2>5. CASE Load
    <3>1. saved # NoSave /\ saved.holders # NoSave /\ holders' = saved.holders
      BY <2>5, LoadGood, NoSaveIsNoSave
    <3>2. UNCHANGED saved
      BY <2>5 DEF Load
    <3>3. Allocator!Load
      BY <3>1, <3>2 DEF Allocator!Load
    <3>4. QED
      BY <3>3 DEF Allocator!Next
  <2>6. CASE UNCHANGED vars
    BY <2>6 DEF vars, Allocator!vars
  <2>7. QED
    BY <2>1, <2>2, <2>3, <2>4, <2>5, <2>6 DEF Next
<1>3. QED
  BY <1>1, <1>2, Invariance, PTL DEF Spec, ImplementsAllocator, Allocator!Spec
=============================================================================
