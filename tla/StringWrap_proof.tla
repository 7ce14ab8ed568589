--------------------------- MODULE StringWrap_proof ---------------------------
(***************************************************************************)
(* JString.wrap for every text, every number of characters per line, and   *)
(* every number of sweeps.                                                 *)
(*                                                                         *)
(*   KeepsWords      whatever is cut and moved, the lines hold the words   *)
(*                   of the text, and a script gets them: IInv             *)
(*   GetsNoWorse     no move brings the lengths further apart              *)
(***************************************************************************)
EXTENDS StringWrap, SequenceLemmas

Chars == {Letter, Blank, Malformed}

\* The words of a text: ranges, which may be empty.
Words == { w \in (1 .. End) \X (1 .. End) : w[1] <= w[2] }

-----------------------------------------------------------------------------
(* Sums and lengths *)

\* A sum is what adding one number after the other makes.
LEMMA SumRec ==
  ASSUME NEW s \in Seq(Int)
  PROVE  \E f : /\ f \in [0 .. Len(s) -> Int] /\ SumSeq(s) = f[Len(s)]
                /\ f[0] = 0
                /\ \A k \in 1 .. Len(s) : f[k] = f[k - 1] + s[k]
<1> DEFINE N == Len(s)
           sum[k \in 0 .. N] == IF k = 0 THEN 0 ELSE sum[k - 1] + s[k]
           F == [k \in 1 .. N |-> [x \in Int |-> x + s[k]]]
<1>0. N \in Nat /\ 0 \in Int /\ \A k \in 1 .. N : s[k] \in Int
  OBVIOUS
<1>1. SumSeq(s) = sum[N]
  BY DEF SumSeq
<1>2. F \in [1 .. N -> [Int -> Int]]
  BY <1>0
<1>3. \A x \in Int, k \in 1 .. N : F[k][x] = x + s[k]
  OBVIOUS
<1> HIDE DEF N, F
<1>4. PICK f \in [0 .. N -> Int] : f[0] = 0 /\ \A k \in 1 .. N : f[k] = F[k][f[k - 1]]
  <2>1. PICK f : IsIteration(f, N, Int, 0, F)
    BY <1>0, <1>2, Iterate
  <2>2. QED
    BY <2>1 DEF IsIteration
<1>5. ASSUME NEW k \in 1 .. N PROVE f[k - 1] \in Int /\ f[k] = f[k - 1] + s[k]
  <2>1. k - 1 \in 0 .. N
    BY <1>0
  <2>2. f[k - 1] \in Int
    BY <2>1
  <2>3. QED
    BY Zenon, <1>3, <1>4, <2>2
<1>6. f = [k \in 0 .. N |-> IF k = 0 THEN 0 ELSE f[k - 1] + s[k]]
  BY <1>0, <1>4, <1>5
<1>7. sum = [k \in 0 .. N |-> IF k = 0 THEN 0 ELSE sum[k - 1] + s[k]]
  BY <1>6
<1> HIDE DEF sum
<1>8. sum[0] = 0 /\ \A k \in 1 .. N : sum[k] = sum[k - 1] + s[k]
  BY <1>0, <1>7
<1> DEFINE P == { k \in 0 .. N : sum[k] \in Int }
<1>9. \A k \in 0 .. N : k \in P
  <2>1. 0 \in P
    BY <1>0, <1>8
  <2>2. ASSUME NEW k \in 1 .. N, k - 1 \in P PROVE k \in P
    <3>1. sum[k] = sum[k - 1] + s[k] /\ s[k] \in Int /\ sum[k - 1] \in Int
      BY <1>0, <1>8, <2>2
    <3>2. sum[k] \in Int /\ k \in 0 .. N
      BY <1>0, <3>1
    <3>3. QED
      BY <3>2
  <2> HIDE DEF P
  <2>3. QED
    BY <1>0, <2>1, <2>2, Induction
<1>10. sum \in [0 .. N -> Int]
  BY <1>7, <1>9
<1>11. QED
  BY <1>1, <1>8, <1>10 DEF N

\* The sum of numbers and one more.
LEMMA SumStep ==
  ASSUME NEW s \in Seq(Int), NEW t \in Seq(Int), Len(s) = Len(t) + 1,
         \A k \in 1 .. Len(t) : t[k] = s[k]
  PROVE  SumSeq(s) = SumSeq(t) + s[Len(s)]
<1> DEFINE N == Len(t)
<1>0. N \in Nat /\ Len(s) = N + 1
  BY LenProperties
<1>1. PICK f : /\ SumSeq(s) = f[N + 1] /\ f[0] = 0
               /\ \A k \in 1 .. N + 1 : f[k] = f[k - 1] + s[k]
  <2>1. PICK f : /\ SumSeq(s) = f[Len(s)] /\ f[0] = 0
                 /\ \A k \in 1 .. Len(s) : f[k] = f[k - 1] + s[k]
    BY SumRec
  <2>2. QED
    BY Zenon, <1>0, <2>1
<1>2. PICK g : /\ SumSeq(t) = g[N] /\ g[0] = 0
               /\ \A k \in 1 .. N : g[k] = g[k - 1] + t[k]
  BY Zenon, SumRec
<1> HIDE DEF N
<1> DEFINE P == { k \in 0 .. N : f[k] = g[k] }
<1>3. \A k \in 0 .. N : k \in P
  <2>1. 0 \in P
    BY <1>0, <1>1, <1>2
  <2>2. ASSUME NEW k \in 1 .. N, k - 1 \in P PROVE k \in P
    <3>1. f[k - 1] = g[k - 1] /\ k \in 1 .. N + 1 /\ k \in 0 .. N /\ t[k] = s[k]
      BY <1>0, <2>2 DEF N
    <3>2. f[k] = g[k]
      BY <1>1, <1>2, <3>1
    <3>3. QED
      BY <3>1, <3>2
  <2> HIDE DEF P
  <2>3. QED
    BY Zenon, <1>0, <2>1, <2>2, Induction
<1>4. f[N] = g[N] /\ f[N + 1] = f[N + 1 - 1] + s[N + 1] /\ N + 1 - 1 = N
  BY <1>0, <1>1, <1>3
<1>5. QED
  BY <1>0, <1>1, <1>2, <1>4

\* Lengths of words and lines are numbers.
LEMMA CountTypes ==
  /\ \A w \in Words : w[1] \in Int /\ w[2] \in Int /\ Size(w) \in Nat
  /\ \A line \in Seq(Words) : charCount(line) \in Int
<1>1. ASSUME NEW w \in Words PROVE w[1] \in Int /\ w[2] \in Int /\ Size(w) \in Nat
  BY DEF Words, Size
<1>2. ASSUME NEW line \in Seq(Words) PROVE charCount(line) \in Int
  <2> DEFINE sizes == [k \in 1 .. Len(line) |-> Size(line[k])]
  <2>1. sizes \in Seq(Int)
    <3>1. \A k \in 1 .. Len(line) : line[k] \in Words
      OBVIOUS
    <3>2. \A k \in 1 .. Len(line) : Size(line[k]) \in Int
      BY <1>1, <3>1
    <3>3. Len(line) \in Nat
      OBVIOUS
    <3>4. QED
      BY <3>2, <3>3
  <2> HIDE DEF sizes
  <2>2. PICK f : f \in [0 .. Len(sizes) -> Int] /\ SumSeq(sizes) = f[Len(sizes)]
    BY <2>1, SumRec
  <2>3. SumSeq(sizes) \in Int
    BY <2>1, <2>2
  <2>4. charCount(line) = SumSeq(sizes) + (IF line = <<>> THEN 0 ELSE Len(line) - 1)
    BY DEF charCount, sizes
  <2>5. QED
    BY <2>3, <2>4
<1>3. QED
  BY <1>1, <1>2

\* The length grows by each word and a blank.
LEMMA LengthStep ==
  ASSUME NEW line \in Seq(Words)
  PROVE  /\ LengthTo(line, 0) = 0
         /\ \A n \in 0 .. Len(line) : LengthTo(line, n) \in Int
         /\ \A n \in 1 .. Len(line) : LengthTo(line, n) = LengthTo(line, n - 1) + Size(line[n]) + 1
<1> DEFINE sizes(n) == [k \in 1 .. n |-> Size(line[k])]
<1>0. Len(line) \in Nat /\ \A k \in 1 .. Len(line) : Size(line[k]) \in Int
  BY CountTypes
<1>1. ASSUME NEW n \in 0 .. Len(line)
      PROVE  /\ sizes(n) \in Seq(Int) /\ Len(sizes(n)) = n
             /\ SumSeq(sizes(n)) \in Int
             /\ n = 0 => SumSeq(sizes(n)) = 0
  <2>1. n \in Nat /\ \A k \in 1 .. n : Size(line[k]) \in Int
    BY <1>0
  <2>2. sizes(n) \in Seq(Int) /\ Len(sizes(n)) = n
    BY <2>1
  <2> HIDE DEF sizes
  <2>3. PICK f : f \in [0 .. n -> Int] /\ SumSeq(sizes(n)) = f[n] /\ f[0] = 0
    BY <2>2, SumRec
  <2>4. QED
    BY <2>1, <2>2, <2>3
<1>2. ASSUME NEW n \in 0 .. Len(line) PROVE LengthTo(line, n) = SumSeq(sizes(n)) + n
  <2>1. CASE n = 0
    <3>1. SumSeq(sizes(n)) = 0 /\ LengthTo(line, n) = 0
      BY <1>1, <2>1 DEF LengthTo
    <3> HIDE DEF sizes
    <3>2. QED
      BY <2>1, <3>1
  <2>2. CASE n # 0
    <3> DEFINE part == SubSeq(line, 1, n)
    <3>1. n \in 1 .. Len(line)
      BY <1>0, <2>2
    <3>2. Len(part) = n /\ part # <<>> /\ \A k \in 1 .. n : part[k] = line[k]
      BY <1>0, <3>1
    <3> HIDE DEF part
    <3>3. [k \in 1 .. Len(part) |-> Size(part[k])] = sizes(n)
      BY <3>2
    <3>4. charCount(part) = SumSeq(sizes(n)) + (n - 1)
      BY <3>2, <3>3 DEF charCount
    <3>5. SumSeq(sizes(n)) \in Int /\ n \in Int
      BY <1>1, <3>1
    <3>6. QED
      BY <2>2, <3>4, <3>5 DEF LengthTo, part
  <2>3. QED
    BY <2>1, <2>2
<1>3. ASSUME NEW n \in 1 .. Len(line) PROVE SumSeq(sizes(n)) = SumSeq(sizes(n - 1)) + Size(line[n])
  <2>1. n \in 0 .. Len(line) /\ n - 1 \in 0 .. Len(line) /\ n = n - 1 + 1
    BY <1>0
  <2>2. \A k \in 1 .. n - 1 : sizes(n - 1)[k] = sizes(n)[k]
    BY <1>0
  <2>3. sizes(n)[n] = Size(line[n])
    OBVIOUS
  <2>4. /\ sizes(n) \in Seq(Int) /\ sizes(n - 1) \in Seq(Int)
        /\ Len(sizes(n)) = n /\ Len(sizes(n - 1)) = n - 1
    BY <1>1, <2>1
  <2> HIDE DEF sizes
  <2>5. SumSeq(sizes(n)) = SumSeq(sizes(n - 1)) + sizes(n)[Len(sizes(n))]
    BY <2>1, <2>2, <2>4, SumStep
  <2>6. QED
    BY <2>3, <2>4, <2>5
<1>4. ASSUME NEW n \in 1 .. Len(line)
      PROVE  LengthTo(line, n) = LengthTo(line, n - 1) + Size(line[n]) + 1
  <2>1. n \in 0 .. Len(line) /\ n - 1 \in 0 .. Len(line)
    BY <1>0
  <2>2. /\ SumSeq(sizes(n)) \in Int /\ SumSeq(sizes(n - 1)) \in Int /\ Size(line[n]) \in Int
        /\ LengthTo(line, n) = SumSeq(sizes(n)) + n
        /\ LengthTo(line, n - 1) = SumSeq(sizes(n - 1)) + (n - 1)
    BY <1>0, <1>1, <1>2, <2>1
  <2> HIDE DEF sizes
  <2>3. QED
    BY <1>3, <2>2
<1>5. ASSUME NEW n \in 0 .. Len(line) PROVE LengthTo(line, n) \in Int
  <2>1. SumSeq(sizes(n)) \in Int /\ n \in Int /\ LengthTo(line, n) = SumSeq(sizes(n)) + n
    BY <1>0, <1>1, <1>2
  <2> HIDE DEF sizes
  <2>2. QED
    BY <2>1
<1>6. QED
  BY <1>4, <1>5 DEF LengthTo
-----------------------------------------------------------------------------
(* Texts of lines *)

\* What is appended for a word.
Piece(w) == Append(SubSeq(csource, w[1], w[2] - 1), Blank)

\* It is the word and a blank.
LEMMA PieceProps ==
  ASSUME csource \in Seq(Chars), NEW w \in Words
  PROVE  /\ Piece(w) \in Seq(Chars) /\ Len(Piece(w)) = Size(w) + 1
         /\ SubSeq(Piece(w), 1, Size(w)) = SubSeq(csource, w[1], w[2] - 1)
         /\ Piece(w)[Size(w) + 1] = Blank
<1> DEFINE word == SubSeq(csource, w[1], w[2] - 1)
<1>1. w[1] \in 1 .. Len(csource) + 1 /\ w[2] \in 1 .. Len(csource) + 1 /\ w[1] <= w[2] /\ Len(csource) \in Nat
  BY DEF Words, End
<1>2. Size(w) \in Nat /\ Size(w) = w[2] - w[1] /\ Blank \in Chars
  BY <1>1 DEF Size, Chars
<1>3. word \in Seq(Chars) /\ Len(word) = Size(w)
  BY <1>1, <1>2
<1> HIDE DEF word
<1>4. /\ Append(word, Blank) \in Seq(Chars) /\ Len(Append(word, Blank)) = Size(w) + 1
      /\ Append(word, Blank)[Size(w) + 1] = Blank
      /\ SubSeq(Append(word, Blank), 1, Size(w)) = word
  BY <1>2, <1>3
<1>5. QED
  BY <1>4 DEF Piece, word

\* A text is what appending one word after the other makes.
LEMMA TextRec ==
  ASSUME csource \in Seq(Chars), NEW line \in Seq(Words)
  PROVE  \E f : /\ toUTF8String(line) = f[Len(line)]
                /\ f[0] = <<>>
                /\ \A n \in 0 .. Len(line) : f[n] \in Seq(Chars)
                /\ \A n \in 1 .. Len(line) : f[n] = f[n - 1] \o Piece(line[n])
<1> DEFINE N == Len(line)
           text[n \in 0 .. N] ==
             IF n = 0 THEN <<>> ELSE text[n - 1] \o Piece(line[n])
           F == [n \in 1 .. N |-> [t \in Seq(Chars) |-> t \o Piece(line[n])]]
<1>0. N \in Nat /\ <<>> \in Seq(Chars) /\ \A n \in 1 .. N : Piece(line[n]) \in Seq(Chars)
  BY PieceProps
<1>1. toUTF8String(line) = text[N]
  BY DEF toUTF8String, Piece
<1>2. /\ F \in [1 .. N -> [Seq(Chars) -> Seq(Chars)]]
      /\ \A n \in 1 .. N : \A t \in Seq(Chars) : F[n][t] = t \o Piece(line[n])
  BY <1>0
<1> HIDE DEF N, F
<1>3. PICK f : /\ f \in [0 .. N -> Seq(Chars)] /\ f[0] = <<>>
               /\ \A n \in 1 .. N : f[n] = F[n][f[n - 1]]
  <2>1. PICK f : IsIteration(f, N, Seq(Chars), <<>>, F)
    BY <1>0, <1>2, Iterate
  <2>2. QED
    BY <2>1 DEF IsIteration
<1>4. ASSUME NEW n \in 1 .. N PROVE f[n] = f[n - 1] \o Piece(line[n])
  <2>1. n - 1 \in 0 .. N
    BY <1>0
  <2>2. f[n - 1] \in Seq(Chars)
    BY <1>3, <2>1
  <2>3. QED
    BY Zenon, <1>2, <1>3, <2>2
<1>5. f = [n \in 0 .. N |-> IF n = 0 THEN <<>> ELSE f[n - 1] \o Piece(line[n])]
  <2>1. \A n \in 0 .. N : f[n] = IF n = 0 THEN <<>> ELSE f[n - 1] \o Piece(line[n])
    <3>1. \A n \in 0 .. N : n = 0 \/ n \in 1 .. N
      BY <1>0
    <3>2. QED
      BY Zenon, <1>3, <1>4, <3>1
  <2>2. QED
    BY Zenon, <1>3, <2>1
<1>6. text = [n \in 0 .. N |-> IF n = 0 THEN <<>> ELSE text[n - 1] \o Piece(line[n])]
  BY <1>5
<1> HIDE DEF text
<1>7. text[0] = <<>> /\ \A n \in 1 .. N : text[n] = text[n - 1] \o Piece(line[n])
  <2>1. 0 \in 0 .. N /\ \A n \in 1 .. N : n \in 0 .. N /\ n # 0
    BY <1>0
  <2>2. QED
    BY Zenon, <1>6, <2>1
<1> DEFINE P == { n \in 0 .. N : text[n] \in Seq(Chars) }
<1>8. \A n \in 0 .. N : n \in P
  <2>1. 0 \in P
    <3>1. 0 \in 0 .. N
      BY <1>0
    <3>2. QED
      BY Zenon, <1>0, <1>7, <3>1
  <2>2. ASSUME NEW n \in 1 .. N, n - 1 \in P PROVE n \in P
    <3>1. text[n] = text[n - 1] \o Piece(line[n]) /\ text[n - 1] \in Seq(Chars)
      BY <1>7, <2>2
    <3>2. text[n] \in Seq(Chars) /\ n \in 0 .. N
      BY <1>0, <3>1
    <3>3. QED
      BY <3>2
  <2> HIDE DEF P
  <2>3. QED
    BY Zenon, <1>0, <2>1, <2>2, Induction
<1>9. QED
  BY <1>1, <1>7, <1>8 DEF N

\* A part of a text is not changed by what is appended.
LEMMA PartOfFirst ==
  ASSUME NEW t \in Seq(Chars), NEW u \in Seq(Chars),
         NEW a \in Int, NEW b \in Int, 1 <= a, b <= Len(t)
  PROVE  SubSeq(t \o u, a, b) = SubSeq(t, a, b)
<1> DEFINE both == t \o u
<1>1. /\ both \in Seq(Chars) /\ Len(both) = Len(t) + Len(u)
      /\ \A k \in 1 .. Len(t) : both[k] = t[k]
      /\ Len(t) \in Nat /\ Len(u) \in Nat
  OBVIOUS
<1> HIDE DEF both
<1>2. CASE a <= b
  <2>1. /\ SubSeq(both, a, b) \in Seq(Chars) /\ Len(SubSeq(both, a, b)) = b - a + 1
        /\ SubSeq(t, a, b) \in Seq(Chars) /\ Len(SubSeq(t, a, b)) = b - a + 1
    BY <1>1, <1>2
  <2>2. ASSUME NEW k \in 1 .. b - a + 1
        PROVE  /\ SubSeq(both, a, b)[k] = both[a + k - 1] /\ SubSeq(t, a, b)[k] = t[a + k - 1]
               /\ a + k - 1 \in 1 .. Len(t)
    BY <1>1, <1>2
  <2>3. \A k \in 1 .. b - a + 1 : SubSeq(both, a, b)[k] = SubSeq(t, a, b)[k]
    BY <1>1, <2>2
  <2>4. QED
    BY <2>1, <2>3, SeqEqual
<1>3. CASE a > b
  <2>1. SubSeq(both, a, b) = <<>> /\ SubSeq(t, a, b) = <<>>
    BY <1>1, <1>3
  <2>2. QED
    BY <2>1
<1>4. QED
  BY <1>2, <1>3 DEF both

\* Parts of two texts are where they were in each.
LEMMA PartsOfBoth ==
  ASSUME NEW t \in Seq(Chars), NEW u \in Seq(Chars)
  PROVE  /\ t \o u \in Seq(Chars) /\ Len(t \o u) = Len(t) + Len(u)
         /\ \A k \in 1 .. Len(t) : (t \o u)[k] = t[k]
         /\ \A k \in 1 .. Len(u) : (t \o u)[Len(t) + k] = u[k]
         /\ \A b \in 0 .. Len(u) : SubSeq(t \o u, Len(t) + 1, Len(t) + b) = SubSeq(u, 1, b)
<1> DEFINE both == t \o u
<1>1. /\ both \in Seq(Chars) /\ Len(both) = Len(t) + Len(u)
      /\ \A k \in 1 .. Len(t) : both[k] = t[k]
      /\ \A k \in 1 .. Len(u) : both[Len(t) + k] = u[k]
      /\ Len(t) \in Nat /\ Len(u) \in Nat
  OBVIOUS
<1> HIDE DEF both
<1>2. ASSUME NEW b \in 0 .. Len(u)
      PROVE  SubSeq(both, Len(t) + 1, Len(t) + b) = SubSeq(u, 1, b)
  <2>1. b \in Nat /\ b <= Len(u) /\ Len(t) + b - (Len(t) + 1) + 1 = b
    BY <1>1
  <2>2. /\ SubSeq(both, Len(t) + 1, Len(t) + b) \in Seq(Chars)
        /\ Len(SubSeq(both, Len(t) + 1, Len(t) + b)) = b
        /\ SubSeq(u, 1, b) \in Seq(Chars) /\ Len(SubSeq(u, 1, b)) = b
    BY <1>1, <2>1
  <2>3. ASSUME NEW k \in 1 .. b
        PROVE  /\ SubSeq(both, Len(t) + 1, Len(t) + b)[k] = both[Len(t) + k]
               /\ SubSeq(u, 1, b)[k] = u[k] /\ k \in 1 .. Len(u)
    BY <1>1, <2>1
  <2>4. \A k \in 1 .. b : SubSeq(both, Len(t) + 1, Len(t) + b)[k] = SubSeq(u, 1, b)[k]
    BY <1>1, <2>3
  <2>5. QED
    BY <2>2, <2>4, SeqEqual
<1>3. QED
  BY <1>1, <1>2 DEF both

\* What a line is written as is its text.
LEMMA TextOfLine ==
  ASSUME csource \in Seq(Chars), NEW line \in Seq(Words)
  PROVE  IsTextOf(toUTF8String(line), line)
<1> DEFINE N == Len(line)
           L(n) == LengthTo(line, n)
           Word(n) == SubSeq(csource, line[n][1], line[n][2] - 1)
           Holds(t, n) == /\ 0 <= L(n - 1) /\ L(n) <= Len(t) /\ L(n - 1) < L(n)
                          /\ SubSeq(t, L(n - 1) + 1, L(n) - 1) = Word(n)
                          /\ t[L(n)] = Blank
<1>0. /\ N \in Nat /\ L(0) = 0 /\ \A n \in 0 .. N : L(n) \in Int
      /\ \A n \in 1 .. N : line[n] \in Words /\ L(n) = L(n - 1) + Size(line[n]) + 1 /\ Size(line[n]) \in Nat
  BY LengthStep, CountTypes
<1>1. PICK f : /\ toUTF8String(line) = f[N] /\ f[0] = <<>>
               /\ \A n \in 0 .. N : f[n] \in Seq(Chars)
               /\ \A n \in 1 .. N : f[n] = f[n - 1] \o Piece(line[n])
  BY TextRec
<1> DEFINE P == { n \in 0 .. N : Len(f[n]) = L(n) /\ \A m \in 1 .. n : Holds(f[n], m) }
<1> HIDE DEF N, L
<1>2. 0 \in P
  <2>1. Len(f[0]) = 0 /\ 0 \in 0 .. N /\ 1 .. 0 = {}
    BY <1>0, <1>1
  <2> HIDE DEF Holds
  <2>2. QED
    BY <1>0, <2>1
<1>3. ASSUME NEW n \in 1 .. N, n - 1 \in P PROVE n \in P
  <2>0. PICK t, u, s : t = f[n - 1] /\ u = Piece(line[n]) /\ s = Size(line[n])
    OBVIOUS
  <2>1. /\ n - 1 \in 0 .. N /\ n \in 0 .. N /\ line[n] \in Words /\ s \in Nat
        /\ L(n - 1) \in Int /\ L(n) \in Int /\ L(n) = L(n - 1) + s + 1
    BY <1>0, <2>0
  <2>2. t \in Seq(Chars) /\ Len(t) = L(n - 1) /\ f[n] = t \o u
    BY <1>1, <1>3, <2>0, <2>1
  <2>3. \A m \in 1 .. n - 1 : Holds(t, m)
    BY <1>3, <2>0
  <2>4. u \in Seq(Chars) /\ Len(u) = s + 1 /\ SubSeq(u, 1, s) = Word(n) /\ u[s + 1] = Blank
    BY <2>0, <2>1, PieceProps
  <2>5. Len(f[n]) = L(n) /\ Len(t) \in Nat
    BY <2>1, <2>2, <2>4, PartsOfBoth
  <2>6. ASSUME NEW m \in 1 .. n - 1 PROVE Holds(f[n], m)
    <3>1. /\ m \in 0 .. N /\ m - 1 \in 0 .. N /\ L(m) \in Int /\ L(m - 1) \in Int
          /\ 0 <= L(m - 1) /\ L(m) <= Len(t) /\ L(m - 1) < L(m)
      <4>1. m \in 0 .. N /\ m - 1 \in 0 .. N
        BY <1>0
      <4>2. 0 <= L(m - 1) /\ L(m) <= Len(t) /\ L(m - 1) < L(m)
        BY <2>3
      <4>3. QED
        BY Zenon, <1>0, <4>1, <4>2
    <3>2. SubSeq(f[n], L(m - 1) + 1, L(m) - 1) = SubSeq(t, L(m - 1) + 1, L(m) - 1)
      <4>1. PICK a, b : a = L(m - 1) + 1 /\ b = L(m) - 1
        OBVIOUS
      <4>2. a \in Int /\ b \in Int /\ 1 <= a /\ b <= Len(t)
        BY <2>5, <3>1, <4>1
      <4>3. SubSeq(t \o u, a, b) = SubSeq(t, a, b)
        BY <2>2, <2>4, <4>2, PartOfFirst
      <4>4. QED
        BY <2>2, <4>1, <4>3
    <3>3. f[n][L(m)] = t[L(m)]
      <4>1. L(m) \in 1 .. Len(t)
        BY <2>5, <3>1
      <4>2. QED
        BY <2>2, <2>4, <4>1, PartsOfBoth
    <3>4. L(m) <= Len(f[n])
      BY <2>1, <2>2, <2>5, <3>1
    <3>5. QED
      BY <2>3, <3>1, <3>2, <3>3, <3>4
  <2>7. Holds(f[n], n)
    <3>1. SubSeq(f[n], L(n - 1) + 1, L(n) - 1) = Word(n)
      <4>1. s \in 0 .. Len(u) /\ L(n) - 1 = Len(t) + s
        BY <2>1, <2>2, <2>4
      <4>2. SubSeq(t \o u, Len(t) + 1, Len(t) + s) = SubSeq(u, 1, s)
        BY <2>2, <2>4, <4>1, PartsOfBoth
      <4>3. QED
        BY <2>2, <2>4, <4>1, <4>2
    <3>2. f[n][L(n)] = Blank
      <4>1. s + 1 \in 1 .. Len(u) /\ L(n) = Len(t) + (s + 1)
        BY <2>1, <2>2, <2>4
      <4>2. (t \o u)[Len(t) + (s + 1)] = u[s + 1]
        BY <2>2, <2>4, <4>1, PartsOfBoth
      <4>3. QED
        BY <2>2, <2>4, <4>1, <4>2
    <3>3. 0 <= L(n - 1) /\ L(n) <= Len(f[n]) /\ L(n - 1) < L(n)
      BY <2>1, <2>2, <2>5
    <3>4. QED
      BY <3>1, <3>2, <3>3
  <2>8. \A m \in 1 .. n : m \in 1 .. n - 1 \/ m = n
    BY <1>0
  <2> HIDE DEF Holds
  <2>9. \A m \in 1 .. n : Holds(f[n], m)
    BY <2>6, <2>7, <2>8
  <2>10. QED
    BY <2>1, <2>5, <2>9
<1> HIDE DEF P
<1>4. N \in P
  <2>1. N \in 0 .. N
    BY <1>0
  <2>2. QED
    BY Zenon, <1>0, <1>2, <1>3, <2>1, Induction
<1>5. Len(f[N]) = L(N) /\ \A n \in 1 .. N : Holds(f[N], n)
  BY Zenon, <1>4 DEF P
<1>6. QED
  BY <1>1, <1>5 DEF N, L, IsTextOf
-----------------------------------------------------------------------------
(* Cutting a range *)

HasNoBlank(w) == \A p \in w[1] .. w[2] - 1 : csource[p] # Blank

\* The range a .. b - 1 is cut at its blanks.
IsSplit(line, a, b) ==
  /\ line \in Seq(Words)
  /\ \A n \in 1 .. Len(line) :
       /\ a <= line[n][1] /\ line[n][2] <= b
       /\ HasNoBlank(line[n])
       /\ line[n][1] = a \/ csource[line[n][1] - 1] = Blank
       /\ line[n][2] = b \/ csource[line[n][2]] = Blank
  /\ \A m, n \in 1 .. Len(line) : m < n => line[m][2] <= line[n][1]
  /\ \A w \in Words :
       /\ a <= w[1] /\ w[1] < w[2] /\ w[2] <= b
       /\ HasNoBlank(w)
       /\ w[1] = a \/ csource[w[1] - 1] = Blank
       /\ w[2] = b \/ csource[w[2]] = Blank
       => \E n \in 1 .. Len(line) : line[n] = w

\* split_range cuts a range at its blanks.
LEMMA SplitProps ==
  ASSUME csource \in Seq(Chars), NEW a \in 1 .. End, NEW b \in 1 .. End, a <= b
  PROVE  IsSplit(split_range(a, b), a, b)
<1> DEFINE cuts == {a - 1, b} \union { p \in a .. b - 1 : is_blank_or_space(p) }
           N == Cardinality(cuts)
           s == Ascending(cuts)
           line == split_range(a, b)
<1>0. a \in Int /\ b \in Int /\ End \in Int /\ 1 <= a /\ b <= End
  BY DEF End
<1>1. cuts \in SUBSET Int /\ IsFiniteSet(cuts)
  <2>1. cuts \in SUBSET (a - 1 .. b)
    BY <1>0
  <2>2. a - 1 .. b \in SUBSET Int /\ IsFiniteSet(a - 1 .. b)
    BY <1>0, FS_Interval
  <2>3. QED
    BY Zenon, <2>1, <2>2, FS_Subset
<1>2. /\ \A p \in cuts : p \in a - 1 .. b /\ (p = a - 1 \/ p = b \/ csource[p] = Blank)
      /\ a - 1 \in cuts /\ b \in cuts
      /\ \A p \in a .. b - 1 : csource[p] = Blank => p \in cuts
  BY <1>0 DEF is_blank_or_space
<1>3. line = [n \in 1 .. N - 1 |-> <<s[n] + 1, s[n + 1]>>]
  <2>1. N \in Nat
    BY <1>1, FS_CardinalityType
  <2>2. \A n \in 1 .. N - 1 : n \in 1 .. N /\ n + 1 \in 1 .. N
    BY <2>1
  <2> DEFINE cut(n) == CHOOSE p \in cuts : Cardinality({ q \in cuts : q < p }) = n - 1
  <2>3. \A n \in 1 .. N : s[n] = cut(n)
    BY DEF Ascending
  <2>4. line = [n \in 1 .. N - 1 |-> <<cut(n) + 1, cut(n + 1)>>]
    BY DEF split_range
  <2> HIDE DEF cut, cuts, N, s, line
  <2>5. QED
    BY <2>2, <2>3, <2>4
<1>4. N \in Nat
  BY <1>1, FS_CardinalityType
<1>5. \A n \in 1 .. N - 1 :
        /\ n \in 1 .. N /\ n + 1 \in 1 .. N /\ s[n] \in cuts /\ s[n + 1] \in cuts
        /\ s[n] < s[n + 1]
        /\ \A p \in cuts : p <= s[n] \/ s[n + 1] <= p
  BY Zenon, <1>1, Neighbours
<1>6. ASSUME NEW p \in cuts, NEW q \in cuts, p < q, \A k \in cuts : k <= p \/ q <= k
      PROVE  \E n \in 1 .. N - 1 : s[n] = p /\ s[n + 1] = q
  <2> HIDE DEF cuts
  <2>1. QED
    BY <1>1, <1>6, FollowingOne
<1>7. \A m, n \in 1 .. N : m < n => s[m] < s[n]
  BY Zenon, <1>1, AscendingProps
<1> HIDE DEF cuts, N, s, line
<1>8. line \in [1 .. N - 1 -> Int \X Int] /\ Len(line) = N - 1
  <2>1. N - 1 \in Nat
    <3>1. N # 0
      BY <1>1, <1>2, FS_EmptySet DEF N
    <3>2. QED
      BY <1>4, <3>1
  <2>2. \A n \in 1 .. N - 1 : <<s[n] + 1, s[n + 1]>> \in Int \X Int
    <3>1. \A p \in cuts : p \in Int
      BY <1>0, <1>2
    <3>2. QED
      BY <1>5, <3>1
  <2>3. QED
    BY <1>3, <2>1, <2>2
<1>9. ASSUME NEW n \in 1 .. N - 1
      PROVE  /\ line[n] \in Words
             /\ a <= line[n][1] /\ line[n][2] <= b
             /\ HasNoBlank(line[n])
             /\ line[n][1] = a \/ csource[line[n][1] - 1] = Blank
             /\ line[n][2] = b \/ csource[line[n][2]] = Blank
  <2>1. PICK x, y : x = s[n] /\ y = s[n + 1]
    OBVIOUS
  <2>2. /\ x \in cuts /\ y \in cuts /\ x < y
        /\ \A p \in cuts : p <= x \/ y <= p
    BY <1>5, <2>1
  <2>3. /\ x \in a - 1 .. b /\ (x = a - 1 \/ x = b \/ csource[x] = Blank)
        /\ y \in a - 1 .. b /\ (y = a - 1 \/ y = b \/ csource[y] = Blank)
    BY <1>2, <2>2
  <2>4. PICK w : w = <<x + 1, y>>
    OBVIOUS
  <2>5. line[n] = w
    BY <1>3, <2>1, <2>4
  <2>6. x \in Int /\ y \in Int /\ w[1] = x + 1 /\ w[2] = y
    BY <1>0, <2>3, <2>4
  <2>7. w \in Words /\ a <= w[1] /\ w[2] <= b
    BY <1>0, <2>2, <2>3, <2>4 DEF Words
  <2>8. HasNoBlank(w)
    <3>1. ASSUME NEW p \in x + 1 .. y - 1, csource[p] = Blank PROVE FALSE
      <4>1. p \in a .. b - 1 /\ ~(p <= x) /\ ~(y <= p)
        BY <1>0, <2>2, <2>3, <2>6
      <4>2. p \in cuts
        BY <1>2, <3>1, <4>1
      <4>3. QED
        BY <2>2, <4>1, <4>2
    <3>2. QED
      BY <2>6, <3>1 DEF HasNoBlank
  <2>9. (w[1] = a \/ csource[w[1] - 1] = Blank) /\ (w[2] = b \/ csource[w[2]] = Blank)
    <3>1. x # b /\ y # a - 1 /\ w[1] - 1 = x
      BY <1>0, <2>2, <2>3, <2>6
    <3>2. x = a - 1 => w[1] = a
      BY <1>0, <2>6
    <3>3. QED
      BY <2>3, <2>6, <3>1, <3>2
  <2>10. QED
    BY Zenon, <2>5, <2>7, <2>8, <2>9
<1>10. line \in Seq(Words)
  BY <1>8, <1>9
<1>11. ASSUME NEW m \in 1 .. N - 1, NEW n \in 1 .. N - 1, m < n PROVE line[m][2] <= line[n][1]
  <2>1. PICK x, y : x = s[n] /\ y = s[m + 1]
    OBVIOUS
  <2>2. x \in cuts /\ y \in cuts /\ n \in 1 .. N /\ m + 1 \in 1 .. N
    BY <1>5, <2>1
  <2>3. m + 1 = n \/ m + 1 < n
    BY <1>4, <1>11
  <2>4. x = y \/ y < x
    BY <1>7, <2>1, <2>2, <2>3
  <2>5. x \in Int /\ y \in Int
    BY <1>0, <1>2, <2>2
  <2>6. line[m][2] = y /\ line[n][1] = x + 1
    BY <1>3, <2>1
  <2>7. QED
    BY <2>4, <2>5, <2>6
<1>12. ASSUME NEW w \in Words, a <= w[1], w[1] < w[2], w[2] <= b, HasNoBlank(w),
             w[1] = a \/ csource[w[1] - 1] = Blank,
             w[2] = b \/ csource[w[2]] = Blank
       PROVE  \E n \in 1 .. Len(line) : line[n] = w
  <2>1. PICK p, q : p = w[1] - 1 /\ q = w[2]
    OBVIOUS
  <2>2. p \in Int /\ q \in Int /\ w = <<p + 1, q>> /\ w[1] = p + 1
    BY <1>0, <2>1 DEF Words
  <2>3. p < q /\ a - 1 <= p /\ q <= b
    BY <1>0, <1>12, <2>1, <2>2
  <2>4. p \in cuts
    <3>1. CASE w[1] = a
      BY <1>2, <2>1, <3>1
    <3>2. CASE w[1] # a
      <4>1. p \in a .. b - 1
        BY <1>0, <2>2, <2>3, <3>2
      <4>2. QED
        BY <1>2, <1>12, <2>1, <3>2, <4>1
    <3>3. QED
      BY <3>1, <3>2
  <2>5. q \in cuts
    <3>1. CASE q = b
      BY <1>2, <3>1
    <3>2. CASE q # b
      <4>1. q \in a .. b - 1
        BY <1>0, <2>2, <2>3, <3>2
      <4>2. QED
        BY <1>2, <1>12, <2>1, <3>2, <4>1
    <3>3. QED
      BY <3>1, <3>2
  <2>6. ASSUME NEW k \in cuts PROVE k <= p \/ q <= k
    <3>1. SUFFICES ASSUME ~(k <= p), ~(q <= k) PROVE FALSE
      OBVIOUS
    <3>2. k \in a - 1 .. b /\ (k = a - 1 \/ k = b \/ csource[k] = Blank)
      BY <1>2
    <3>3. k \in p + 1 .. q - 1 /\ k # a - 1 /\ k # b
      BY <1>0, <2>2, <2>3, <3>1, <3>2
    <3>4. csource[k] # Blank
      BY <1>12, <2>1, <2>2, <3>3 DEF HasNoBlank
    <3>5. QED
      BY <3>2, <3>3, <3>4
  <2>7. PICK n \in 1 .. N - 1 : s[n] = p /\ s[n + 1] = q
    BY <1>6, <2>3, <2>4, <2>5, <2>6
  <2>8. line[n] = w
    BY <1>3, <2>2, <2>7
  <2>9. QED
    BY <1>8, <2>8
<1>13. IsSplit(line, a, b)
  BY Zenon, <1>8, <1>9, <1>10, <1>11, <1>12 DEF IsSplit
<1>14. QED
  BY <1>13 DEF line

-----------------------------------------------------------------------------
(* Moving words *)

\* All words of lines, empty ones too.
AllWords(set) == { WordAt(set, p) : p \in Places(set) }

\* A place is a line's number and a word's number in it.
LEMMA PlaceProps ==
  ASSUME NEW set
  PROVE  /\ \A p \in Places(set) : \E l \in 1 .. Len(set) : \E n \in 1 .. Len(set[l]) : p = <<l, n>>
         /\ \A l \in 1 .. Len(set) : \A n \in 1 .. Len(set[l]) : <<l, n>> \in Places(set)
BY DEF Places

\* g takes the places of t to those of s, one for one, in order and word for word.
Corresponds(g, t, s) ==
  /\ \A p \in Places(t) : g[p] \in Places(s) /\ WordAt(t, p) = WordAt(s, g[p])
  /\ \A p, q \in Places(t) : Before(p, q) <=> Before(g[p], g[q])
  /\ \A q \in Places(s) : \E p \in Places(t) : g[p] = q

\* Lines whose places correspond hold the same words in the same order.
LEMMA SameWords ==
  ASSUME NEW s, NEW t, NEW g, Corresponds(g, t, s)
  PROVE  AllWords(t) = AllWords(s) /\ (InOrder(s) <=> InOrder(t))
<1>0. /\ \A p \in Places(t) : g[p] \in Places(s) /\ WordAt(t, p) = WordAt(s, g[p])
      /\ \A p, q \in Places(t) : Before(p, q) <=> Before(g[p], g[q])
      /\ \A q \in Places(s) : \E p \in Places(t) : g[p] = q
  BY DEF Corresponds
<1>1. AllWords(t) = AllWords(s)
  <2>1. \A p \in Places(t) : WordAt(t, p) \in AllWords(s)
    BY <1>0 DEF AllWords
  <2>2. \A q \in Places(s) : \E p \in Places(t) : WordAt(s, q) = WordAt(t, p)
    BY <1>0
  <2>3. QED
    BY Zenon, <2>1, <2>2 DEF AllWords
<1>2. ASSUME InOrder(s), NEW p \in Places(t), NEW q \in Places(t), Before(p, q)
      PROVE  WordAt(t, p)[2] <= WordAt(t, q)[1]
  <2>1. g[p] \in Places(s) /\ g[q] \in Places(s) /\ Before(g[p], g[q])
    BY Zenon, <1>0, <1>2
  <2>2. WordAt(t, p) = WordAt(s, g[p]) /\ WordAt(t, q) = WordAt(s, g[q])
    BY Zenon, <1>0
  <2>3. QED
    BY <1>2, <2>1, <2>2 DEF InOrder
<1>3. ASSUME InOrder(t), NEW p \in Places(s), NEW q \in Places(s), Before(p, q)
      PROVE  WordAt(s, p)[2] <= WordAt(s, q)[1]
  <2>1. PICK x \in Places(t) : g[x] = p
    BY <1>0
  <2>2. PICK y \in Places(t) : g[y] = q
    BY <1>0
  <2>3. WordAt(t, x) = WordAt(s, p) /\ WordAt(t, y) = WordAt(s, q) /\ Before(x, y)
    BY Zenon, <1>0, <1>3, <2>1, <2>2
  <2>4. QED
    BY <1>3, <2>3 DEF InOrder
<1>4. QED
  BY <1>1, <1>2, <1>3 DEF InOrder

\* A word goes from the end of line k - 1 to the beginning of line k.
LEMMA TakeKeeps ==
  ASSUME NEW set \in Seq(Seq(Words)), NEW k \in 2 .. Len(set)
  PROVE  /\ TakeFromBefore(set, k) \in Seq(Seq(Words))
         /\ AllWords(TakeFromBefore(set, k)) = AllWords(set)
         /\ InOrder(set) <=> InOrder(TakeFromBefore(set, k))
<1>1. CASE set[k - 1] = <<>>
  BY <1>1 DEF TakeFromBefore
<1>2. CASE set[k - 1] # <<>>
  <2>j. PICK j : j = k - 1
    OBVIOUS
  <2> DEFINE from == set[k - 1]
             to == set[k]
             w == Last(from)
             t == TakeFromBefore(set, k)
             g == [p \in Places(t) |->
                    IF p = <<k, 1>> THEN <<j, Len(from)>>
                    ELSE IF p[1] = k THEN <<k, p[2] - 1>> ELSE p]
  <2>0. k \in Int /\ k - 1 \in 1 .. Len(set) /\ k \in 1 .. Len(set) /\ Len(set) \in Nat /\ k # k - 1
         /\ j \in Int /\ k \in Int /\ j \in 1 .. Len(set) /\ j + 1 = k /\ j # k
    BY <2>j
  <2>1. /\ from \in Seq(Words) /\ to \in Seq(Words) /\ from # <<>>
        /\ \A l \in 1 .. Len(set) : set[l] \in Seq(Words)
    BY <1>2, <2>0
  <2>2. /\ Front(from) \in Seq(Words) /\ Len(from) \in Nat /\ Len(from) > 0
        /\ Len(Front(from)) = Len(from) - 1
        /\ \A n \in 1 .. Len(from) - 1 : Front(from)[n] = from[n]
        /\ w = from[Len(from)] /\ w \in Words
    BY <2>1, AllAndLast
  <2>3. /\ <<w>> \o to \in Seq(Words) /\ Len(to) \in Nat /\ Len(<<w>> \o to) = Len(to) + 1
        /\ (<<w>> \o to)[1] = w /\ \A n \in 2 .. Len(to) + 1 : (<<w>> \o to)[n] = to[n - 1]
    <3>1. w \in Words /\ to \in Seq(Words)
      BY Zenon, <2>1, <2>2
    <3> HIDE DEF w, to
    <3>2. IsPrepended(<<w>> \o to, Words, w, to)
      BY <3>1, Prepended
    <3>3. QED
      BY <3>1, <3>2 DEF IsPrepended
  <2> HIDE DEF w, from, to, t
  <2>4. IsReplaced(t, Seq(Words), set, j, Front(from), k, <<w>> \o to)
    <3>1. t = [set EXCEPT ![j] = Front(from), ![k] = <<w>> \o to]
      BY <2>0, <2>j, <2>1 DEF TakeFromBefore, w, from, to, t
    <3>2. QED
      BY <2>0, <2>2, <2>3, <3>1, TwoReplaced
  <2>41. /\ t \in Seq(Seq(Words)) /\ Len(t) = Len(set)
         /\ from = set[j] /\ to = set[k]
         /\ t[j] = Front(from) /\ t[k] = <<w>> \o to
         /\ \A l \in 1 .. Len(set) : l # j /\ l # k => t[l] = set[l]
         /\ \A n \in 1 .. Len(to) + 1 : n # 1 => n - 1 \in 1 .. Len(to) /\ t[k][n] = to[n - 1]
    <3>1. from = set[j] /\ to = set[k]
      BY <2>j DEF from, to
    <3>2. /\ t \in Seq(Seq(Words)) /\ Len(t) = Len(set)
          /\ t[j] = Front(from) /\ t[k] = <<w>> \o to
          /\ \A l \in 1 .. Len(set) : l # j /\ l # k => t[l] = set[l]
      BY <2>4 DEF IsReplaced
    <3>3. ASSUME NEW n \in 1 .. Len(to) + 1, n # 1
          PROVE  n - 1 \in 1 .. Len(to) /\ t[k][n] = to[n - 1]
      <4>1. n \in 2 .. Len(to) + 1 /\ n - 1 \in 1 .. Len(to)
        BY <2>3, <3>3
      <4>2. QED
        BY <2>3, <3>2, <4>1
    <3>4. QED
      BY <3>1, <3>2, <3>3
  <2>42. /\ Len(t[k]) = Len(to) + 1 /\ Len(t[j]) = Len(from) - 1
         /\ Len(set[k]) = Len(to) /\ Len(set[j]) = Len(from)
         /\ \A n \in 1 .. Len(from) - 1 : t[j][n] = set[j][n]
    BY <2>2, <2>3, <2>41
  <2>43. Len(t[j]) = Len(from) - 1 /\ Len(set[j]) = Len(from) /\ Len(from) \in Int
         /\ Len(t) = Len(set)
    BY <2>2, <2>41, <2>42
  <2>5. ASSUME NEW p \in Places(t)
        PROVE  g[p] \in Places(set) /\ WordAt(t, p) = WordAt(set, g[p])
    <3>0. PICK l \in 1 .. Len(t) : \E n \in 1 .. Len(t[l]) : p = <<l, n>>
      BY PlaceProps
    <3>1. PICK n \in 1 .. Len(t[l]) : p = <<l, n>>
      BY <3>0
    <3>2. CASE l = k /\ n = 1
      <4>1. g[p] = <<j, Len(from)>> /\ WordAt(t, p) = w
        BY <2>3, <2>41, <3>1, <3>2 DEF WordAt
      <4>2. Len(from) \in 1 .. Len(from)
        BY <2>2
      <4>3. <<j, Len(from)>> \in Places(set) /\ WordAt(set, <<j, Len(from)>>) = w
        BY <2>0, <2>2, <2>41, <4>2, PlaceProps DEF WordAt
      <4>4. QED
        BY <4>1, <4>3
    <3>3. CASE l = k /\ n # 1
      <4>1. n - 1 \in 1 .. Len(to) /\ t[k][n] = to[n - 1]
        BY <2>3, <2>41, <2>42, <3>1, <3>3
      <4>2. g[p] = <<k, n - 1>>
        BY <3>1, <3>3
      <4>3. <<k, n - 1>> \in Places(set)
        BY <2>0, <2>41, <4>1, PlaceProps
      <4>4. QED
        BY <2>41, <3>1, <3>3, <4>1, <4>2, <4>3 DEF WordAt
    <3>4. CASE l # k
      <4>1. g[p] = p
        BY <3>1, <3>4
      <4>2. l \in 1 .. Len(set) /\ n \in 1 .. Len(set[l]) /\ t[l][n] = set[l][n]
        <5>1. CASE l = j
          <6>1. n \in 1 .. Len(from) - 1 /\ n \in 1 .. Len(from)
            BY <2>43, <5>1
          <6>2. QED
            BY <2>0, <2>42, <5>1, <6>1
        <5>2. CASE l # j
          BY <2>41, <3>1, <3>4, <5>2
        <5>3. QED
          BY <5>1, <5>2
      <4>3. QED
        BY <3>1, <4>1, <4>2, PlaceProps DEF WordAt
    <3>5. QED
      BY <3>2, <3>3, <3>4
  <2>6. ASSUME NEW p \in Places(t), NEW q \in Places(t)
        PROVE  Before(p, q) <=> Before(g[p], g[q])
    <3>0. PICK a \in 1 .. Len(t) : \E b \in 1 .. Len(t[a]) : p = <<a, b>>
      BY PlaceProps
    <3>1. PICK b \in 1 .. Len(t[a]) : p = <<a, b>>
      BY <3>0
    <3>01. PICK c \in 1 .. Len(t) : \E d \in 1 .. Len(t[c]) : q = <<c, d>>
      BY PlaceProps
    <3>2. PICK d \in 1 .. Len(t[c]) : q = <<c, d>>
      BY <3>01
    <3>3. a \in Int /\ c \in Int /\ b \in Int /\ d \in Int /\ b >= 1 /\ d >= 1
      BY <3>1, <3>2
    <3>4. (a = j => b < Len(from)) /\ (c = j => d < Len(from))
      <4>1. a = j => b \in 1 .. Len(from) - 1
        BY <2>43
      <4>2. c = j => d \in 1 .. Len(from) - 1
        BY <2>43
      <4>3. QED
        BY <2>43, <4>1, <4>2
    <3>5. Before(p, q) <=> a < c \/ (a = c /\ b < d)
      BY <3>1, <3>2 DEF Before
    <3>6. /\ g[p] = IF a = k /\ b = 1 THEN <<j, Len(from)>> ELSE IF a = k THEN <<k, b - 1>> ELSE <<a, b>>
          /\ g[q] = IF c = k /\ d = 1 THEN <<j, Len(from)>> ELSE IF c = k THEN <<k, d - 1>> ELSE <<c, d>>
      BY <3>1, <3>2
    <3> HIDE DEF g
    <3>7. PICK m, e, f, x, y :
            /\ m = Len(from) /\ e = g[p][1] /\ f = g[p][2] /\ x = g[q][1] /\ y = g[q][2]
      OBVIOUS
    <3>8. /\ e = IF a = k /\ b = 1 THEN j ELSE a
          /\ f = IF a = k /\ b = 1 THEN m ELSE IF a = k THEN b - 1 ELSE b
          /\ x = IF c = k /\ d = 1 THEN j ELSE c
          /\ y = IF c = k /\ d = 1 THEN m ELSE IF c = k THEN d - 1 ELSE d
      <4>1. CASE a = k /\ b = 1
        BY <3>6, <3>7, <4>1
      <4>2. CASE a = k /\ b # 1
        BY <3>6, <3>7, <4>2
      <4>3. CASE a # k
        BY <3>6, <3>7, <4>3
      <4>4. QED
        BY <4>1, <4>2, <4>3
    <3>9. /\ m \in Int /\ j \in Int /\ k \in Int /\ j + 1 = k
          /\ (a = j => b < m) /\ (c = j => d < m)
      BY <2>0, <2>43, <3>4, <3>7
    <3>10. e \in Int /\ f \in Int /\ x \in Int /\ y \in Int
      BY <3>3, <3>8, <3>9
    <3>11. e < x \/ (e = x /\ f < y) <=> a < c \/ (a = c /\ b < d)
      <4>1. CASE a # k /\ c # k
        BY <3>8, <4>1
      <4>2. CASE a = k /\ c # k
        BY <3>3, <3>8, <3>9, <3>10, <4>2
      <4>3. CASE a # k /\ c = k
        BY <3>3, <3>8, <3>9, <3>10, <4>3
      <4>4. CASE a = k /\ c = k
        BY <3>3, <3>8, <3>9, <3>10, <4>4
      <4>5. QED
        BY <4>1, <4>2, <4>3, <4>4
    <3>12. QED
      BY <3>5, <3>7, <3>11 DEF Before
  <2>7. ASSUME NEW q \in Places(set) PROVE \E p \in Places(t) : g[p] = q
    <3>0. PICK l \in 1 .. Len(set) : \E n \in 1 .. Len(set[l]) : q = <<l, n>>
      BY PlaceProps
    <3>1. PICK n \in 1 .. Len(set[l]) : q = <<l, n>>
      BY <3>0
    <3>2. CASE l = k
      <4>1. n + 1 \in 1 .. Len(t[k]) /\ n + 1 # 1 /\ n + 1 - 1 = n
        BY <2>3, <2>42, <3>1, <3>2
      <4>2. <<k, n + 1>> \in Places(t)
        BY <2>0, <2>41, <4>1, PlaceProps
      <4>3. g[<<k, n + 1>>] = q
        BY <3>1, <3>2, <4>1, <4>2
      <4>4. QED
        BY <4>2, <4>3
    <3>3. CASE l = j /\ n = Len(from)
      <4>1. 1 \in 1 .. Len(t[k])
        BY <2>3, <2>42
      <4>2. <<k, 1>> \in Places(t)
        BY <2>0, <2>41, <4>1, PlaceProps
      <4>3. g[<<k, 1>>] = q
        BY <3>1, <3>3, <4>2
      <4>4. QED
        BY <4>2, <4>3
    <3>4. CASE l # k /\ ~(l = j /\ n = Len(from))
      <4>1. l \in 1 .. Len(t) /\ n \in 1 .. Len(t[l])
        <5>1. CASE l = j
          BY <2>0, <2>43, <3>4, <5>1
        <5>2. CASE l # j
          BY <2>41, <3>1, <3>4, <5>2
        <5>3. QED
          BY <5>1, <5>2
      <4>2. q \in Places(t)
        BY <3>1, <4>1, PlaceProps
      <4>3. g[q] = q
        BY <3>1, <3>4, <4>2
      <4>4. QED
        BY <4>2, <4>3
    <3>5. QED
      BY <3>2, <3>3, <3>4
  <2>8. AllWords(t) = AllWords(set) /\ (InOrder(set) <=> InOrder(t))
    <3> HIDE DEF g
    <3>1. Corresponds(g, t, set)
      BY Zenon, <2>5, <2>6, <2>7 DEF Corresponds
    <3>2. QED
      BY <3>1, SameWords
  <2>9. QED
    BY <2>41, <2>8 DEF t
<1>3. QED
  BY <1>1, <1>2

\* Taking a word back undoes giving it.
LEMMA TakeUndoesGive ==
  ASSUME NEW set \in Seq(Seq(Words)), NEW k \in 2 .. Len(set), set[k] # <<>>
  PROVE  /\ GiveToBefore(set, k) \in Seq(Seq(Words)) /\ Len(GiveToBefore(set, k)) = Len(set)
         /\ TakeFromBefore(GiveToBefore(set, k), k) = set
<1> DEFINE from == set[k]
           to == set[k - 1]
           w == Head(from)
           u == GiveToBefore(set, k)
<1>j. PICK j : j = k - 1
  OBVIOUS
<1>0. j \in 1 .. Len(set) /\ k \in 1 .. Len(set) /\ Len(set) \in Nat /\ k # j
  BY <1>j
<1>1. from \in Seq(Words) /\ to \in Seq(Words) /\ from # <<>>
  BY <1>0, <1>j
<1>2. w \in Words /\ Tail(from) \in Seq(Words) /\ <<w>> \o Tail(from) = from
  BY <1>1, FirstAndRest
<1> HIDE DEF w, from, to, u
<1>3. /\ Append(to, w) \in Seq(Words) /\ Append(to, w) # <<>>
      /\ Front(Append(to, w)) = to /\ Last(Append(to, w)) = w
  <2>1. w \in Words /\ to \in Seq(Words)
    BY Zenon, <1>1, <1>2
  <2>2. QED
    BY <2>1, Appended
<1>4. u = [set EXCEPT ![k] = Tail(from), ![j] = Append(to, w)]
  BY Zenon, <1>0, <1>j, <1>1 DEF GiveToBefore, w, from, to, u
<1>5. /\ u \in Seq(Seq(Words)) /\ Len(u) = Len(set)
      /\ u[j] = Append(to, w) /\ u[k] = Tail(from)
      /\ \A l \in 1 .. Len(set) : l # j /\ l # k => u[l] = set[l]
  <2>1. Append(to, w) \in Seq(Words) /\ Tail(from) \in Seq(Words)
    BY <1>2, <1>3
  <2>2. IsReplaced(u, Seq(Words), set, k, Tail(from), j, Append(to, w))
    BY <1>0, <1>4, <2>1, TwoReplaced
  <2>3. QED
    BY <2>2 DEF IsReplaced
<1>6. TakeFromBefore(u, k) = [u EXCEPT ![j] = to, ![k] = from]
  <2>1. TakeFromBefore(u, k) = [u EXCEPT ![j] = Front(u[j]), ![k] = <<Last(u[j])>> \o u[k]]
    BY <1>0, <1>j, <1>3, <1>5 DEF TakeFromBefore
  <2>2. QED
    BY <1>2, <1>3, <1>5, <2>1
<1>7. [u EXCEPT ![j] = to, ![k] = from] = set
  <2>1. set[j] = to /\ set[k] = from
    BY <1>j DEF from, to
  <2>2. PICK v : v = [u EXCEPT ![j] = to, ![k] = from]
    OBVIOUS
  <2>3. /\ v \in Seq(Seq(Words)) /\ Len(v) = Len(set) /\ v[j] = to /\ v[k] = from
        /\ \A l \in 1 .. Len(set) : l # j /\ l # k => v[l] = u[l]
    <3>1. j \in 1 .. Len(u) /\ k \in 1 .. Len(u) /\ j # k /\ u \in Seq(Seq(Words)) /\ Len(u) = Len(set)
      BY <1>0, <1>5
    <3>2. IsReplaced(v, Seq(Words), u, j, to, k, from)
      BY <1>1, <2>2, <3>1, TwoReplaced
    <3>3. QED
      BY <3>1, <3>2 DEF IsReplaced
  <2>4. \A l \in 1 .. Len(set) : v[l] = set[l]
    BY <1>5, <2>1, <2>3
  <2>5. v = set
    BY <2>3, <2>4, SeqEqual
  <2>6. QED
    BY <2>2, <2>5
<1>8. QED
  BY <1>5, <1>6, <1>7 DEF u

\* Giving a word back undoes taking it.
LEMMA GiveUndoesTake ==
  ASSUME NEW set \in Seq(Seq(Words)), NEW k \in 2 .. Len(set), set[k - 1] # <<>>
  PROVE  /\ TakeFromBefore(set, k) \in Seq(Seq(Words)) /\ Len(TakeFromBefore(set, k)) = Len(set)
         /\ GiveToBefore(TakeFromBefore(set, k), k) = set
<1> DEFINE from == set[k - 1]
           to == set[k]
           w == Last(from)
           u == TakeFromBefore(set, k)
<1>j. PICK j : j = k - 1
  OBVIOUS
<1>0. j \in 1 .. Len(set) /\ k \in 1 .. Len(set) /\ Len(set) \in Nat /\ k # j
  BY <1>j
<1>1. from \in Seq(Words) /\ to \in Seq(Words) /\ from # <<>>
  BY <1>0, <1>j
<1>2. w \in Words /\ Front(from) \in Seq(Words) /\ Append(Front(from), w) = from
  BY <1>1, AllAndLast
<1> HIDE DEF w, from, to, u
<1>3. /\ <<w>> \o to \in Seq(Words) /\ <<w>> \o to # <<>>
      /\ Tail(<<w>> \o to) = to /\ Head(<<w>> \o to) = w
  <2>1. w \in Words /\ to \in Seq(Words)
    BY Zenon, <1>1, <1>2
  <2>2. QED
    <3>1. IsPrepended(<<w>> \o to, Words, w, to)
      BY <2>1, Prepended
    <3>2. QED
      BY <3>1 DEF IsPrepended
<1>4. u = [set EXCEPT ![j] = Front(from), ![k] = <<w>> \o to]
  BY <1>0, <1>j, <1>1 DEF TakeFromBefore, w, from, to, u
<1>5. /\ u \in Seq(Seq(Words)) /\ Len(u) = Len(set)
      /\ u[j] = Front(from) /\ u[k] = <<w>> \o to
      /\ \A l \in 1 .. Len(set) : l # j /\ l # k => u[l] = set[l]
  <2>1. Front(from) \in Seq(Words) /\ <<w>> \o to \in Seq(Words)
    BY <1>2, <1>3
  <2>2. IsReplaced(u, Seq(Words), set, j, Front(from), k, <<w>> \o to)
    BY <1>0, <1>4, <2>1, TwoReplaced
  <2>3. QED
    BY <2>2 DEF IsReplaced
<1>6. GiveToBefore(u, k) = [u EXCEPT ![k] = to, ![j] = from]
  <2>1. GiveToBefore(u, k) = [u EXCEPT ![k] = Tail(u[k]), ![j] = Append(u[j], Head(u[k]))]
    BY <1>0, <1>j, <1>3, <1>5 DEF GiveToBefore
  <2>2. QED
    BY <1>2, <1>3, <1>5, <2>1
<1>7. [u EXCEPT ![k] = to, ![j] = from] = set
  <2>1. set[j] = from /\ set[k] = to
    BY <1>j DEF from, to
  <2>2. PICK v : v = [u EXCEPT ![k] = to, ![j] = from]
    OBVIOUS
  <2>3. /\ v \in Seq(Seq(Words)) /\ Len(v) = Len(set) /\ v[j] = from /\ v[k] = to
        /\ \A l \in 1 .. Len(set) : l # j /\ l # k => v[l] = u[l]
    <3>1. j \in 1 .. Len(u) /\ k \in 1 .. Len(u) /\ j # k /\ u \in Seq(Seq(Words)) /\ Len(u) = Len(set)
      BY <1>0, <1>5
    <3>2. IsReplaced(v, Seq(Words), u, k, to, j, from)
      BY <1>1, <2>2, <3>1, TwoReplaced
    <3>3. QED
      BY <3>1, <3>2 DEF IsReplaced
  <2>4. \A l \in 1 .. Len(set) : v[l] = set[l]
    BY <1>5, <2>1, <2>3
  <2>5. v = set
    BY <2>3, <2>4, SeqEqual
  <2>6. QED
    BY <2>2, <2>5
<1>8. QED
  BY <1>5, <1>6, <1>7 DEF u

\* A word goes from the beginning of line k to the end of line k - 1.
LEMMA GiveKeeps ==
  ASSUME NEW set \in Seq(Seq(Words)), NEW k \in 2 .. Len(set)
  PROVE  /\ GiveToBefore(set, k) \in Seq(Seq(Words))
         /\ AllWords(GiveToBefore(set, k)) = AllWords(set)
         /\ InOrder(set) <=> InOrder(GiveToBefore(set, k))
<1>1. CASE set[k] = <<>>
  BY <1>1 DEF GiveToBefore
<1>2. CASE set[k] # <<>>
  <2>1. PICK u : u = GiveToBefore(set, k)
    OBVIOUS
  <2>2. u \in Seq(Seq(Words)) /\ Len(u) = Len(set) /\ TakeFromBefore(u, k) = set
    BY <1>2, <2>1, TakeUndoesGive
  <2>3. k \in 2 .. Len(u)
    BY <2>2
  <2>4. AllWords(set) = AllWords(u) /\ (InOrder(u) <=> InOrder(set))
    BY <2>2, <2>3, TakeKeeps
  <2>5. QED
    BY <2>1, <2>2, <2>4
<1>3. QED
  BY <1>1, <1>2

\* Making a line longer or shorter moves a word or nothing; the reverse moves it back.
LEMMA IncrProps ==
  ASSUME NEW set \in Seq(Seq(Words)), NEW k \in 1 .. Len(set), NEW b \in BOOLEAN
  PROVE  /\ doIncr(set, k, b) \in Seq(Seq(Words)) /\ Len(doIncr(set, k, b)) = Len(set)
         /\ AllWords(doIncr(set, k, b)) = AllWords(set)
         /\ InOrder(set) <=> InOrder(doIncr(set, k, b))
         /\ doIncr(set, k, b) = set \/ revert(doIncr(set, k, b), k, b) = set
<1> DEFINE u == doIncr(set, k, b)
           m == IF k # 1 THEN k ELSE 2
<1>0. k \in Int /\ Len(set) \in Nat /\ 1 <= k /\ k <= Len(set)
  OBVIOUS
<1>1. CASE m \in 2 .. Len(set)
  <2>1. \/ u = TakeFromBefore(set, m) /\ \A v : Len(v) = Len(set) => revert(v, k, b) = GiveToBefore(v, m)
        \/ u = GiveToBefore(set, m) /\ \A v : Len(v) = Len(set) => revert(v, k, b) = TakeFromBefore(v, m)
    <3>1. k = 1 => m = 2 /\ Len(set) >= 2
      BY <1>0, <1>1
    <3>2. k # 1 => m = k
      OBVIOUS
    <3> HIDE DEF m
    <3>3. QED
      BY <3>1, <3>2 DEF doIncr, revert, incrLength, decrLength
  <2> HIDE DEF u, m
  <2>2. CASE u = TakeFromBefore(set, m) /\ \A v : Len(v) = Len(set) => revert(v, k, b) = GiveToBefore(v, m)
    <3>1. u \in Seq(Seq(Words)) /\ AllWords(u) = AllWords(set) /\ (InOrder(set) <=> InOrder(u))
      BY <1>1, <2>2, TakeKeeps
    <3>2. CASE set[m - 1] = <<>>
      <4>1. u = set
        BY <2>2, <3>2 DEF TakeFromBefore
      <4>2. QED
        BY <3>1, <4>1 DEF u
    <3>3. CASE set[m - 1] # <<>>
      <4>1. Len(u) = Len(set) /\ GiveToBefore(u, m) = set
        BY <1>1, <2>2, <3>3, GiveUndoesTake
      <4>2. QED
        BY <2>2, <3>1, <4>1 DEF u
    <3>4. QED
      BY <3>2, <3>3
  <2>3. CASE u = GiveToBefore(set, m) /\ \A v : Len(v) = Len(set) => revert(v, k, b) = TakeFromBefore(v, m)
    <3>1. u \in Seq(Seq(Words)) /\ AllWords(u) = AllWords(set) /\ (InOrder(set) <=> InOrder(u))
      BY <1>1, <2>3, GiveKeeps
    <3>2. CASE set[m] = <<>>
      <4>1. u = set
        BY <2>3, <3>2 DEF GiveToBefore
      <4>2. QED
        BY <3>1, <4>1 DEF u
    <3>3. CASE set[m] # <<>>
      <4>1. Len(u) = Len(set) /\ TakeFromBefore(u, m) = set
        BY <1>1, <2>3, <3>3, TakeUndoesGive
      <4>2. QED
        BY <2>3, <3>1, <4>1 DEF u
    <3>4. QED
      BY <3>2, <3>3
  <2>4. QED
    BY <2>1, <2>2, <2>3
<1>2. CASE m \notin 2 .. Len(set)
  <2>1. k = 1 /\ ~(Len(set) >= 2)
    BY <1>0, <1>2
  <2>2. u = set
    BY <2>1 DEF doIncr, incrLength, decrLength
  <2>3. QED
    BY <2>2
<1>3. QED
  BY <1>1, <1>2

-----------------------------------------------------------------------------
(* Breaks and distances *)

\* A number of parts that are as long together is not exceeded by the quotient.
LEMMA QuotientBound ==
  ASSUME NEW n \in Nat, NEW d \in Nat, d > 0, NEW e \in Int, e * d >= n
  PROVE  n \div d \in 0 .. e
<1>1. PICK q : q = n \div d
  OBVIOUS
<1>2. q \in Int /\ q >= 0 /\ q * d <= n
  BY <1>1
<1>3. q * d <= e * d
  BY <1>2
<1>4. q <= e
  <2>1. SUFFICES ASSUME e < q PROVE FALSE
    BY <1>2
  <2>2. (q - e) * d = q * d - e * d
    BY <1>2
  <2>3. (q - e) * d > 0
    BY <1>2, <2>1
  <2>4. QED
    BY <1>2, <1>3, <2>2, <2>3
<1>5. QED
  BY <1>1, <1>2, <1>4

\* The least and the greatest number of a finite set are in it.
LEMMA MaxMinIn ==
  ASSUME NEW S \in SUBSET Int, IsFiniteSet(S), S # {}
  PROVE  Max(S) \in S /\ Min(S) \in S
BY LeastAndGreatest DEF Max, Min

\* A line is broken at a blank or at the end of the text.
LEMMA BreakProps ==
  ASSUME csource \in Seq(Chars), charsPerLine \in Int, charsPerLine > 0,
         first \in 1 .. End, first # End, FillsLine
  PROVE  nearestBreak \in first .. End /\ (nearestBreak = End \/ csource[nearestBreak] = Blank)
<1> DEFINE middle == first + (CplNumerator \div CplDenominator)
           L == {first} \union { p \in first .. middle : is_blank_or_space(p) }
           R == {End} \union { p \in middle .. End : is_blank_or_space(p) }
           left == Max(L)
           right == Min(R)
<1>0. /\ Len(csource) \in Nat /\ End = Len(csource) + 1 /\ End \in Int /\ first \in Int
      /\ 1 <= first /\ first < End
  BY DEF End
<1>1. middle \in first .. End
  <2>1. PICK n, d : n = CplNumerator /\ d = CplDenominator
    OBVIOUS
  <2>2. n \in Nat /\ d \in Nat /\ d > 0
    BY <1>0, <2>1 DEF CplNumerator, CplDenominator
  <2>3. (End - first) * d >= n
    BY <2>1 DEF FillsLine
  <2>4. n \div d \in 0 .. End - first
    BY <1>0, <2>2, <2>3, QuotientBound
  <2>5. PICK q : q = n \div d
    OBVIOUS
  <2>6. middle = first + q
    BY <2>1, <2>5
  <2> HIDE DEF middle
  <2>7. QED
    BY <1>0, <2>4, <2>5, <2>6
<1> HIDE DEF middle
<1>2. L \in SUBSET (first .. End) /\ R \in SUBSET (first .. End) /\ L # {} /\ R # {}
  BY <1>0, <1>1
<1>3. first .. End \in SUBSET Int /\ IsFiniteSet(first .. End)
  BY <1>0, FS_Interval
<1>4. L \in SUBSET Int /\ IsFiniteSet(L) /\ R \in SUBSET Int /\ IsFiniteSet(R)
  BY <1>2, <1>3, FS_Subset
<1>5. left \in L /\ right \in R
  <2> HIDE DEF L, R
  <2>1. QED
    BY <1>2, <1>4, MaxMinIn
<1>6. (nearestBreak = left /\ left # first) \/ nearestBreak = right
  BY DEF nearestBreak, middle
<1> HIDE DEF left, right
<1>7. /\ left # first => left = End \/ csource[left] = Blank
      /\ right = End \/ csource[right] = Blank
  BY <1>5 DEF is_blank_or_space
<1>8. left \in first .. End /\ right \in first .. End
  BY <1>2, <1>5
<1>9. QED
  BY <1>6, <1>7, <1>8

\* The distance of lines' lengths from each other is a number.
LEMMA MeanSquareType ==
  ASSUME NEW set \in Seq(Seq(Words))
  PROVE  meanSquare(set) \in Int
<1> DEFINE N == Len(set)
           counts == Counts(set)
           squares == [k \in 1 .. N |-> charDiffIn(set, k) * charDiffIn(set, k)]
<1>1. N \in Nat /\ \A k \in 1 .. N : charCount(set[k]) \in Int
  BY CountTypes
<1>2. counts \in Seq(Int)
  BY <1>1 DEF Counts
<1> HIDE DEF counts
<1>3. SumSeq(counts) \in Int
  <2>1. PICK f : f \in [0 .. Len(counts) -> Int] /\ SumSeq(counts) = f[Len(counts)]
    BY <1>2, SumRec
  <2>2. Len(counts) \in 0 .. Len(counts)
    BY <1>2
  <2>3. QED
    BY <2>1, <2>2
<1>4. ASSUME NEW k \in 1 .. N PROVE charDiffIn(set, k) * charDiffIn(set, k) \in Int
  <2>1. PICK c, m, t : c = charCount(set[k]) /\ m = SumSeq(counts) /\ t = Len(set)
    OBVIOUS
  <2>2. c \in Int /\ m \in Int /\ t \in Int /\ charDiffIn(set, k) = t * c - m
    BY <1>1, <1>3, <2>1 DEF charDiffIn, counts
  <2>3. t * c - m \in Int
    BY <2>2
  <2>4. QED
    BY <2>2, <2>3
<1>5. squares \in Seq(Int)
  BY <1>1, <1>4
<1> HIDE DEF squares
<1>6. PICK f : f \in [0 .. Len(squares) -> Int] /\ SumSeq(squares) = f[Len(squares)]
  BY <1>5, SumRec
<1>7. Len(squares) \in 0 .. Len(squares)
  BY <1>5
<1>8. QED
  BY <1>6, <1>7 DEF meanSquare, squares

-----------------------------------------------------------------------------
(* The inductive invariant *)

TypeOK ==
  /\ csource \in Seq(Chars)
  /\ charsPerLine \in Int
  /\ at \in {"call", "split", "sweep", "done"}
  /\ lines \in Seq(Seq(Words))
  /\ first \in 1 .. End
  /\ i \in Nat
  /\ at = "sweep" => i >= 1

\* What a moment of the function is like: a line begins at the beginning of the
\* text or at a blank, and words are only of what has been cut.
Progress ==
  /\ at = "call" => lines = <<>> /\ first = Begin
  /\ at # "done" => result = None
  /\ at = "split" => charsPerLine > 0
  /\ first = Begin \/ first = End \/ csource[first] = Blank
  /\ \A w \in AllWords(lines) : w[2] <= first

IInv == TypeOK /\ Progress /\ WordsKept

\* What a line set holds is ranges of the text.
LEMMA WordTypes ==
  ASSUME NEW set \in Seq(Seq(Words))
  PROVE  AllWords(set) \in SUBSET Words
<1>1. ASSUME NEW p \in Places(set) PROVE WordAt(set, p) \in Words
  <2>1. PICK l \in 1 .. Len(set) : \E n \in 1 .. Len(set[l]) : p = <<l, n>>
    BY PlaceProps
  <2>2. PICK n \in 1 .. Len(set[l]) : p = <<l, n>>
    BY <2>1
  <2>3. set[l] \in Seq(Words)
    OBVIOUS
  <2>4. set[l][n] \in Words
    BY <2>3
  <2>5. QED
    BY <2>2, <2>4 DEF WordAt
<1>2. QED
  BY <1>1 DEF AllWords

\* One more line adds its words, behind the others.
LEMMA AppendProps ==
  ASSUME NEW set \in Seq(Seq(Words)), NEW line \in Seq(Words)
  PROVE  /\ Append(set, line) \in Seq(Seq(Words))
         /\ AllWords(Append(set, line)) = AllWords(set) \union { line[n] : n \in 1 .. Len(line) }
         /\ \A c : /\ InOrder(set)
                   /\ \A w \in AllWords(set) : w[2] <= c
                   /\ \A n \in 1 .. Len(line) : c <= line[n][1]
                   /\ \A m, n \in 1 .. Len(line) : m < n => line[m][2] <= line[n][1]
                   /\ c \in Int
                   => InOrder(Append(set, line))
<1> DEFINE t == Append(set, line)
           K == Len(set) + 1
<1>1. /\ t \in Seq(Seq(Words)) /\ Len(t) = K /\ t[K] = line /\ Len(set) \in Nat
      /\ \A l \in 1 .. Len(set) : t[l] = set[l]
      /\ \A l \in 1 .. Len(set) : l \in 1 .. K /\ l # K
      /\ \A l \in 1 .. K : l = K \/ l \in 1 .. Len(set)
      /\ K \in 1 .. K
  OBVIOUS
<1> HIDE DEF t, K
<1>2. ASSUME NEW p \in Places(t)
      PROVE  \/ p \in Places(set) /\ WordAt(t, p) = WordAt(set, p) /\ p[1] \in 1 .. Len(set)
             \/ \E n \in 1 .. Len(line) : p = <<K, n>> /\ WordAt(t, p) = line[n]
  <2>1. PICK l \in 1 .. Len(t) : \E n \in 1 .. Len(t[l]) : p = <<l, n>>
    BY PlaceProps
  <2>2. PICK n \in 1 .. Len(t[l]) : p = <<l, n>>
    BY <2>1
  <2>3. CASE l = K
    BY <1>1, <2>2, <2>3 DEF WordAt
  <2>4. CASE l \in 1 .. Len(set)
    <3>1. t[l] = set[l] /\ n \in 1 .. Len(set[l])
      BY <1>1, <2>4
    <3>2. QED
      BY <2>2, <2>4, <3>1, PlaceProps DEF WordAt
  <2>5. QED
    BY <1>1, <2>3, <2>4
<1>3. ASSUME NEW p \in Places(set) PROVE p \in Places(t) /\ WordAt(t, p) = WordAt(set, p)
  <2>1. PICK l \in 1 .. Len(set) : \E n \in 1 .. Len(set[l]) : p = <<l, n>>
    BY PlaceProps
  <2>2. PICK n \in 1 .. Len(set[l]) : p = <<l, n>>
    BY <2>1
  <2>3. l \in 1 .. Len(t) /\ n \in 1 .. Len(t[l]) /\ t[l] = set[l]
    BY <1>1
  <2>4. QED
    BY <2>2, <2>3, PlaceProps DEF WordAt
<1>4. ASSUME NEW n \in 1 .. Len(line) PROVE <<K, n>> \in Places(t) /\ WordAt(t, <<K, n>>) = line[n]
  BY <1>1, PlaceProps DEF WordAt
<1>5. AllWords(t) = AllWords(set) \union { line[n] : n \in 1 .. Len(line) }
  <2>1. ASSUME NEW w \in AllWords(t) PROVE w \in AllWords(set) \union { line[n] : n \in 1 .. Len(line) }
    <3>1. PICK p \in Places(t) : w = WordAt(t, p)
      BY DEF AllWords
    <3>2. QED
      BY <1>2, <3>1 DEF AllWords
  <2>2. ASSUME NEW w \in AllWords(set) PROVE w \in AllWords(t)
    BY <1>3 DEF AllWords
  <2>3. ASSUME NEW n \in 1 .. Len(line) PROVE line[n] \in AllWords(t)
    BY <1>4 DEF AllWords
  <2>4. QED
    BY <2>1, <2>2, <2>3
<1>6. ASSUME InOrder(set), NEW c \in Int,
             \A w \in AllWords(set) : w[2] <= c,
             \A n \in 1 .. Len(line) : c <= line[n][1],
             \A m, n \in 1 .. Len(line) : m < n => line[m][2] <= line[n][1],
             NEW p \in Places(t), NEW q \in Places(t), Before(p, q)
      PROVE  WordAt(t, p)[2] <= WordAt(t, q)[1]
  <2>1. CASE p \in Places(set) /\ WordAt(t, p) = WordAt(set, p) /\ p[1] \in 1 .. Len(set)
    <3>1. CASE q \in Places(set) /\ WordAt(t, q) = WordAt(set, q) /\ q[1] \in 1 .. Len(set)
      BY <1>6, <2>1, <3>1 DEF InOrder
    <3>2. CASE \E n \in 1 .. Len(line) : q = <<K, n>> /\ WordAt(t, q) = line[n]
      <4>1. PICK n \in 1 .. Len(line) : WordAt(t, q) = line[n]
        BY <3>2
      <4>2. WordAt(set, p) \in AllWords(set)
        BY <2>1 DEF AllWords
      <4>3. WordAt(set, p)[2] <= c /\ c <= line[n][1]
        BY <1>6, <4>2
      <4>4. WordAt(set, p) \in Words /\ line[n] \in Words
        BY <4>2, WordTypes
      <4>5. WordAt(set, p)[2] \in Int /\ line[n][1] \in Int
        BY <4>4, CountTypes
      <4>6. QED
        BY <2>1, <4>1, <4>3, <4>5
    <3>3. QED
      BY <1>2, <3>1, <3>2
  <2>2. CASE \E n \in 1 .. Len(line) : p = <<K, n>> /\ WordAt(t, p) = line[n]
    <3>1. PICK m \in 1 .. Len(line) : p = <<K, m>> /\ WordAt(t, p) = line[m]
      BY <2>2
    <3>2. CASE q \in Places(set) /\ q[1] \in 1 .. Len(set)
      <4>1. p[1] = K /\ q[1] < K /\ q[1] \in Int /\ K \in Int
        BY <3>1, <3>2, <1>1 DEF K
      <4>2. FALSE
        BY <1>6, <4>1 DEF Before
      <4>3. QED
        BY <4>2
    <3>3. CASE \E n \in 1 .. Len(line) : q = <<K, n>> /\ WordAt(t, q) = line[n]
      <4>1. PICK n \in 1 .. Len(line) : q = <<K, n>> /\ WordAt(t, q) = line[n]
        BY <3>3
      <4>2. p[1] = K /\ q[1] = K /\ p[2] = m /\ q[2] = n /\ ~(K < K)
        BY <1>1, <3>1, <4>1 DEF K
      <4>3. m < n
        BY <1>6, <4>2 DEF Before
      <4>4. QED
        BY <1>6, <3>1, <4>1, <4>3
    <3>4. QED
      BY <1>2, <3>2, <3>3
  <2>3. QED
    BY <1>2, <2>1, <2>2
<1>7. QED
  BY <1>1, <1>5, <1>6 DEF t, InOrder

-----------------------------------------------------------------------------
(* Each step keeps it *)

\* The words before a break are those before the line, and those of the line.
LEMMA CutWords ==
  ASSUME csource \in Seq(Chars), NEW a \in 1 .. End, NEW b \in 1 .. End, a <= b,
         a = 1 \/ csource[a] = Blank, b = End \/ csource[b] = Blank,
         NEW line, IsSplit(line, a, b)
  PROVE  WordsBefore(b) =
           WordsBefore(a) \union { w \in { line[n] : n \in 1 .. Len(line) } : Size(w) # 0 }
<1>0. /\ a \in Int /\ b \in Int /\ End \in Int /\ 1 <= a /\ b <= End /\ a <= b
      /\ Len(csource) \in Nat /\ End = Len(csource) + 1
  BY DEF End
<1>1. \A e \in 1 .. End : \A w : w \in WordsBefore(e) <=>
        /\ w \in (1 .. e) \X (1 .. e)
        /\ w[1] < w[2]
        /\ HasNoBlank(w)
        /\ w[1] = 1 \/ csource[w[1] - 1] = Blank
        /\ w[2] = e \/ csource[w[2]] = Blank
  BY DEF WordsBefore, HasNoBlank
<1>2. line \in Seq(Words)
  BY DEF IsSplit
<1>3. ASSUME NEW w \in WordsBefore(a) PROVE w \in WordsBefore(b)
  <2>1. /\ w \in (1 .. a) \X (1 .. a) /\ w[1] < w[2] /\ HasNoBlank(w)
        /\ w[1] = 1 \/ csource[w[1] - 1] = Blank
        /\ w[2] = a \/ csource[w[2]] = Blank
    BY <1>1
  <2>2. w \in (1 .. b) \X (1 .. b)
    BY <1>0, <2>1
  <2>3. w[2] = a => a # 1
    BY <1>0, <2>1
  <2>4. csource[w[2]] = Blank
    BY <2>1, <2>3
  <2>5. QED
    BY <1>1, <2>1, <2>2, <2>4
<1>4. ASSUME NEW n \in 1 .. Len(line), Size(line[n]) # 0 PROVE line[n] \in WordsBefore(b)
  <2>1. PICK w : w = line[n]
    OBVIOUS
  <2>2. /\ w \in Words /\ a <= w[1] /\ w[2] <= b /\ HasNoBlank(w)
        /\ w[1] = a \/ csource[w[1] - 1] = Blank
        /\ w[2] = b \/ csource[w[2]] = Blank
    BY <1>2, <2>1 DEF IsSplit
  <2>3. w \in (1 .. End) \X (1 .. End) /\ w[1] <= w[2] /\ w[1] \in Int /\ w[2] \in Int
    BY <1>0, <2>2 DEF Words
  <2>4. w[1] < w[2]
    BY <1>4, <2>1, <2>3 DEF Size
  <2>5. w \in (1 .. b) \X (1 .. b)
    BY <1>0, <2>2, <2>3, <2>4
  <2>6. w[1] = 1 \/ csource[w[1] - 1] = Blank
    <3>1. CASE w[1] = a /\ a # 1
      <4>1. w[1] \in w[1] .. w[2] - 1 /\ csource[w[1]] = Blank
        BY <2>3, <2>4, <3>1
      <4>2. QED
        BY <2>2, <4>1 DEF HasNoBlank
    <3>2. QED
      BY <2>2, <3>1
  <2>7. QED
    BY <1>1, <2>1, <2>2, <2>4, <2>5, <2>6
<1>5. ASSUME NEW w \in WordsBefore(b)
      PROVE  w \in WordsBefore(a) \/ (Size(w) # 0 /\ \E n \in 1 .. Len(line) : line[n] = w)
  <2>1. /\ w \in (1 .. b) \X (1 .. b) /\ w[1] < w[2] /\ HasNoBlank(w)
        /\ w[1] = 1 \/ csource[w[1] - 1] = Blank
        /\ w[2] = b \/ csource[w[2]] = Blank
    BY <1>1
  <2>2. w[1] \in 1 .. b /\ w[2] \in 1 .. b /\ w[1] \in Int /\ w[2] \in Int
    BY <1>0, <2>1
  <2>3. CASE w[2] <= a
    <3>1. w \in (1 .. a) \X (1 .. a)
      BY <1>0, <2>1, <2>2, <2>3
    <3>2. w[2] = a \/ csource[w[2]] = Blank
      BY <1>0, <2>1, <2>2, <2>3
    <3>3. QED
      BY <1>1, <2>1, <3>1, <3>2
  <2>4. CASE ~(w[2] <= a)
    <3>1. a <= w[1]
      <4>1. CASE a = 1
        BY <2>2, <4>1
      <4>2. CASE a # 1
        <5>1. SUFFICES ASSUME ~(a <= w[1]) PROVE FALSE
          OBVIOUS
        <5>2. a \in w[1] .. w[2] - 1 /\ csource[a] = Blank
          BY <1>0, <2>2, <2>4, <4>2, <5>1
        <5>3. QED
          BY <2>1, <5>2 DEF HasNoBlank
      <4>3. QED
        BY <4>1, <4>2
    <3>2. w[1] = a \/ csource[w[1] - 1] = Blank
      BY <1>0, <2>1, <2>2, <3>1
    <3>3. w \in Words /\ w[2] <= b /\ Size(w) # 0
      BY <1>0, <2>1, <2>2 DEF Words, Size
    <3>4. QED
      BY <2>1, <3>1, <3>2, <3>3 DEF IsSplit
  <2>5. QED
    BY <2>3, <2>4
<1>6. QED
  BY <1>3, <1>4, <1>5

\* One turn of the first pass.
LEMMA AddLineKeeps ==
  ASSUME IInv, AddLine
  PROVE  IInv'
<1> DEFINE selected == IF FillsLine THEN nearestBreak ELSE End
           line == split_range(first, selected)
<1>0. /\ csource \in Seq(Chars) /\ charsPerLine \in Int /\ charsPerLine > 0
      /\ first \in 1 .. End /\ first # End /\ lines \in Seq(Seq(Words))
      /\ first = 1 \/ csource[first] = Blank
      /\ at = "split" /\ result = None
      /\ i \in Nat
      /\ \A w \in AllWords(lines) : w[2] <= first
  BY DEF IInv, TypeOK, Progress, AddLine, Begin
<1>1. /\ lines' = Append(lines, line) /\ first' = selected
      /\ UNCHANGED <<csource, charsPerLine, at, loop, i, oldDelta, result>>
  BY DEF AddLine
<1>2. End \in Int /\ End' = End /\ Words' = Words
  BY <1>0, <1>1 DEF End, Words
<1>3. selected \in first .. End /\ (selected = End \/ csource[selected] = Blank)
  BY <1>0, <1>2, BreakProps
<1> HIDE DEF selected
<1>4. selected \in 1 .. End /\ first <= selected /\ selected \in Int /\ first \in Int
  BY <1>0, <1>2, <1>3
<1>5. IsSplit(line, first, selected)
  BY <1>0, <1>4, SplitProps
<1> HIDE DEF line
<1>6. line \in Seq(Words)
  BY <1>5 DEF IsSplit
<1>7. /\ lines' \in Seq(Seq(Words))
      /\ AllWords(lines') = AllWords(lines) \union { line[n] : n \in 1 .. Len(line) }
  BY <1>0, <1>1, <1>6, AppendProps
<1>8. TypeOK'
  BY <1>0, <1>1, <1>2, <1>4, <1>7 DEF TypeOK
<1>9. InOrder(lines')
  <2>1. /\ \A n \in 1 .. Len(line) : first <= line[n][1]
        /\ \A m, n \in 1 .. Len(line) : m < n => line[m][2] <= line[n][1]
    BY <1>5 DEF IsSplit
  <2>2. InOrder(lines)
    BY DEF IInv, WordsKept
  <2>3. QED
    BY <1>0, <1>1, <1>4, <1>6, <2>1, <2>2, AppendProps
<1>10. WordsOf(lines') = WordsBefore(selected)
  <2>1. WordsOf(lines) = WordsBefore(first)
    BY DEF IInv, WordsKept
  <2>2. \A set : WordsOf(set) = { w \in AllWords(set) : Size(w) # 0 }
    BY DEF WordsOf, AllWords
  <2>3. WordsBefore(selected) =
          WordsBefore(first) \union { w \in { line[n] : n \in 1 .. Len(line) } : Size(w) # 0 }
    BY <1>0, <1>3, <1>4, <1>5, CutWords
  <2>4. WordsOf(lines') = { w \in AllWords(lines') : Size(w) # 0 }
    BY <2>2
  <2>5. WordsOf(lines) = { w \in AllWords(lines) : Size(w) # 0 }
    BY <2>2
  <2>6. QED
    BY <1>7, <2>1, <2>3, <2>4, <2>5
<1>11. WordsBefore(first)' = WordsBefore(selected)
  BY <1>1 DEF WordsBefore
<1>12. WordsKept'
  <2>1. WordsOf(lines)' = WordsOf(lines') /\ InOrder(lines)' = InOrder(lines')
    BY DEF WordsOf, InOrder, Places, WordAt, Before, Size
  <2>2. result' = None
    BY <1>0, <1>1
  <2>3. QED
    BY <1>9, <1>10, <1>11, <2>1, <2>2 DEF WordsKept, None
<1>13. Progress'
  <2>1. \A w \in AllWords(lines') : w[2] <= selected
    <3>1. ASSUME NEW w \in AllWords(lines) PROVE w[2] <= selected
      <4>1. w[2] \in Int /\ w[2] <= first
        BY <1>0, WordTypes, CountTypes
      <4>2. QED
        BY <1>4, <4>1
    <3>2. \A n \in 1 .. Len(line) : line[n][2] <= selected
      BY <1>5 DEF IsSplit
    <3>3. QED
      BY <1>7, <3>1, <3>2
  <2>2. AllWords(lines)' = AllWords(lines')
    BY DEF AllWords, Places, WordAt
  <2>3. at' = "split" /\ result' = None /\ charsPerLine' > 0
    BY <1>0, <1>1
  <2>4. first' = End' \/ csource'[first'] = Blank
    BY <1>1, <1>2, <1>3
  <2>5. QED
    BY <1>1, <2>1, <2>2, <2>3, <2>4 DEF Progress, None
<1>14. QED
  BY <1>8, <1>12, <1>13 DEF IInv

\* What one line of a sweep makes of the lines, and what they keep.
LEMMA RebalanceProps ==
  ASSUME TypeOK, Rebalance
  PROVE  /\ lines' \in Seq(Seq(Words)) /\ Len(lines') = Len(lines)
         /\ AllWords(lines') = AllWords(lines)
         /\ InOrder(lines) <=> InOrder(lines')
         /\ meanSquare(lines') <= meanSquare(lines)
<1>1. PICK b : b = (charDiffIn(lines, i) < 0)
  OBVIOUS
<1>2. PICK tried : tried = doIncr(lines, i, b)
  OBVIOUS
<1>3. lines' = IF meanSquare(tried) > meanSquare(lines) THEN revert(tried, i, b) ELSE tried
  BY <1>1, <1>2 DEF Rebalance
<1>4. lines \in Seq(Seq(Words)) /\ i \in 1 .. Len(lines) /\ b \in BOOLEAN
  BY <1>1 DEF TypeOK, Rebalance
<1>5. /\ tried \in Seq(Seq(Words)) /\ Len(tried) = Len(lines)
      /\ AllWords(tried) = AllWords(lines)
      /\ InOrder(lines) <=> InOrder(tried)
      /\ tried = lines \/ revert(tried, i, b) = lines
  BY <1>2, <1>4, IncrProps
<1>6. meanSquare(tried) \in Int /\ meanSquare(lines) \in Int
  BY <1>4, <1>5, MeanSquareType
<1>7. CASE meanSquare(tried) > meanSquare(lines)
  <2>1. lines' = lines
    BY <1>3, <1>5, <1>6, <1>7
  <2>2. QED
    BY <1>4, <1>6, <2>1
<1>8. CASE ~(meanSquare(tried) > meanSquare(lines))
  <2>1. lines' = tried
    BY <1>3, <1>8
  <2>2. meanSquare(tried) <= meanSquare(lines)
    BY <1>6, <1>8
  <2>3. QED
    BY <1>5, <2>1, <2>2
<1>9. QED
  BY <1>7, <1>8

\* One line of a sweep.
LEMMA RebalanceKeeps ==
  ASSUME IInv, Rebalance
  PROVE  IInv'
<1>0. /\ at = "sweep" /\ i <= Len(lines) /\ i' = i + 1 /\ i \in Nat
      /\ UNCHANGED <<csource, charsPerLine, at, first, loop, oldDelta, result>>
      /\ TypeOK /\ Progress /\ WordsKept /\ result = None
  BY DEF IInv, TypeOK, Progress, Rebalance
<1>1. /\ lines' \in Seq(Seq(Words)) /\ AllWords(lines') = AllWords(lines)
      /\ InOrder(lines) <=> InOrder(lines')
  BY <1>0, RebalanceProps
<1>2. End' = End /\ Words' = Words /\ Chars' = Chars
  BY <1>0 DEF End, Words, Chars
<1>3. TypeOK'
  BY <1>0, <1>1, <1>2 DEF TypeOK
<1>4. Progress'
  <2>1. AllWords(lines)' = AllWords(lines')
    BY DEF AllWords, Places, WordAt
  <2>2. QED
    BY <1>0, <1>1, <1>2, <2>1 DEF Progress, None, Begin
<1>5. WordsKept'
  <2>1. \A set : WordsOf(set) = { w \in AllWords(set) : Size(w) # 0 }
    BY DEF WordsOf, AllWords
  <2>2. WordsOf(lines') = { w \in AllWords(lines') : Size(w) # 0 }
    BY <2>1
  <2>3. WordsOf(lines) = { w \in AllWords(lines) : Size(w) # 0 }
    BY <2>1
  <2>4. WordsOf(lines') = WordsOf(lines)
    BY <1>1, <2>2, <2>3
  <2>5. WordsOf(lines)' = WordsOf(lines') /\ InOrder(lines)' = InOrder(lines')
    BY DEF WordsOf, InOrder, Places, WordAt, Before, Size
  <2>6. WordsBefore(first)' = WordsBefore(first)
    BY <1>0 DEF WordsBefore
  <2>7. QED
    BY <1>0, <1>1, <2>4, <2>5, <2>6 DEF WordsKept, None
<1>6. QED
  BY <1>3, <1>4, <1>5 DEF IInv

\* A step that leaves text and lines as they are keeps what is said of them.
LEMMA OthersKeep ==
  ASSUME IInv, UNCHANGED <<csource, charsPerLine, lines, first>>,
         i' \in Nat, at' \in {"call", "split", "sweep", "done"},
         at' = "sweep" => i' >= 1,
         at' = "call" => at = "call",
         at' = "split" => charsPerLine > 0,
         at' # "done" => result' = None,
         result' # None => /\ Len(result') = Len(lines)
                           /\ \A k \in 1 .. Len(lines) : IsTextOf(result'[k], lines[k])
  PROVE  IInv'
<1>1. End' = End /\ Words' = Words /\ Chars' = Chars
  BY DEF End, Words, Chars
<1>2. TypeOK'
  BY <1>1 DEF IInv, TypeOK
<1>3. Progress'
  <2>1. AllWords(lines)' = AllWords(lines)
    BY DEF AllWords, Places, WordAt
  <2>2. QED
    BY <1>1, <2>1 DEF IInv, Progress, None, Begin
<1>4. WordsKept'
  <2>1. WordsOf(lines)' = WordsOf(lines) /\ InOrder(lines)' = InOrder(lines)
    BY DEF WordsOf, InOrder, Places, WordAt, Before, Size
  <2>2. WordsBefore(first)' = WordsBefore(first)
    BY DEF WordsBefore
  <2>3. ASSUME result' # None, NEW k \in 1 .. Len(lines) PROVE IsTextOf(result[k], lines[k])'
    <3>1. IsTextOf(result'[k], lines[k])
      BY <2>3
    <3>2. QED
      BY <3>1 DEF IsTextOf
  <2>4. QED
    BY <2>1, <2>2, <2>3 DEF IInv, WordsKept, None
<1>5. QED
  BY <1>2, <1>3, <1>4 DEF IInv

\* At the beginning nothing is cut.
LEMMA InitKeeps ==
  ASSUME Init, WrapAssumption
  PROVE  IInv
<1>1. /\ csource \in Seq(Chars) /\ charsPerLine \in Int /\ at = "call" /\ lines = <<>>
      /\ first = 1 /\ i = 0 /\ result = None
  <2>1. PICK call \in Calls : csource = call[1] /\ charsPerLine = call[2]
    BY DEF Init
  <2>2. call \in Seq(Chars) \X Int
    BY DEF WrapAssumption, Chars
  <2>3. QED
    BY <2>1, <2>2 DEF Init, Begin
<1>2. Len(csource) \in Nat /\ 1 \in 1 .. End
  BY <1>1 DEF End
<1>3. TypeOK
  BY <1>1, <1>2 DEF TypeOK
<1>4. Places(lines) = {}
  BY <1>1 DEF Places
<1>5. Progress
  BY <1>1, <1>4 DEF Progress, AllWords, Begin
<1>6. WordsBefore(first) = {}
  <2>1. \A x \in 1 .. 1, y \in 1 .. 1 : ~(x < y)
    OBVIOUS
  <2>2. QED
    BY <1>1, <2>1 DEF WordsBefore
<1>7. WordsKept
  BY <1>1, <1>4, <1>6 DEF WordsKept, WordsOf, InOrder
<1>8. QED
  BY <1>3, <1>5, <1>7 DEF IInv

\* Every step keeps it.
LEMMA StepKeeps ==
  ASSUME IInv, [Next]_vars
  PROVE  IInv'
<1>0. /\ i \in Nat /\ at \in {"call", "split", "sweep", "done"} /\ (at = "sweep" => i >= 1)
      /\ lines \in Seq(Seq(Words)) /\ csource \in Seq(Chars)
      /\ (at # "done" => result = None) /\ (at = "split" => charsPerLine > 0)
      /\ (at = "call" => lines = <<>>) /\ charsPerLine \in Int
      /\ (result # None => /\ Len(result) = Len(lines)
                           /\ \A k \in 1 .. Len(lines) : IsTextOf(result[k], lines[k]))
  BY DEF IInv, TypeOK, Progress, WordsKept
<1>1. CASE Call
  <2>1. UNCHANGED <<csource, charsPerLine, lines, first, i>> /\ at = "call"
    BY <1>1 DEF Call
  <2>2. CASE IsRefused \/ csource = <<>>
    <3>1. at' = "done" /\ (result' = None \/ result' = <<>>)
      BY <1>1, <2>2 DEF Call
    <3>2. QED
      BY <1>0, <2>1, <3>1, OthersKeep
  <2>3. CASE ~(IsRefused \/ csource = <<>>)
    <3>1. at' = "split" /\ result' = result /\ charsPerLine > 0
      BY <1>0, <1>1, <2>3 DEF Call, IsRefused
    <3>2. QED
      BY <1>0, <2>1, <3>1, OthersKeep
  <2>4. QED
    BY <2>2, <2>3
<1>2. CASE AddLine
  BY <1>2, AddLineKeeps
<1>3. CASE StartSweeping
  <2>1. UNCHANGED <<csource, charsPerLine, lines, first, result>> /\ at' = "sweep" /\ i' = 1 /\ at = "split"
    BY <1>3 DEF StartSweeping
  <2>2. QED
    BY <1>0, <2>1, OthersKeep
<1>4. CASE Rebalance
  BY <1>4, RebalanceKeeps
<1>5. CASE NextSweep
  <2>1. UNCHANGED <<csource, charsPerLine, at, lines, first, result>> /\ i' = 1 /\ at = "sweep"
    BY <1>5 DEF NextSweep
  <2>2. QED
    BY <1>0, <2>1, OthersKeep
<1>6. CASE Return
  <2>1. UNCHANGED <<csource, charsPerLine, lines, first, i>> /\ at' = "done" /\ result' = utf8Strings(lines)
    BY <1>6 DEF Return
  <2>2. Len(result') = Len(lines) /\ \A k \in 1 .. Len(lines) : result'[k] = toUTF8String(lines[k])
    BY <1>0, <2>1 DEF utf8Strings
  <2>3. ASSUME NEW k \in 1 .. Len(lines) PROVE IsTextOf(result'[k], lines[k])
    <3>1. lines[k] \in Seq(Words)
      BY <1>0
    <3>2. IsTextOf(toUTF8String(lines[k]), lines[k])
      BY <1>0, <3>1, TextOfLine
    <3>3. QED
      BY <2>2, <3>2
  <2>4. QED
    BY <1>0, <2>1, <2>2, <2>3, OthersKeep
<1>7. CASE UNCHANGED vars
  <2>1. UNCHANGED <<csource, charsPerLine, at, lines, first, i, result>>
    BY <1>7 DEF vars
  <2>2. QED
    BY <1>0, <2>1, OthersKeep
<1>8. QED
  BY <1>1, <1>2, <1>3, <1>4, <1>5, <1>6, <1>7 DEF Next

-----------------------------------------------------------------------------
(* Theorems *)

\* IInv holds of every call of JString.wrap.
THEOREM Invariance == Spec => []IInv
<1>1. Init => IInv
  BY WrapAssumption, InitKeeps
<1>2. IInv /\ [Next]_vars => IInv'
  BY StepKeeps
<1>3. QED
  BY <1>1, <1>2, PTL DEF Spec

\* For every text and width: the lines hold the words of the text they were made
\* from, each whole, once and in order, and the texts a script gets are theirs.
THEOREM KeepsWords == Spec => []WordsKept
<1>1. IInv => WordsKept
  BY DEF IInv
<1>2. QED
  BY <1>1, Invariance, PTL

\* For every text and width: no turn of a sweep brings the lengths of the lines
\* further apart, a move that would is taken back word for word.
THEOREM GetsNoWorse == Spec => NeverWorse
<1> DEFINE NoWorse == at = "sweep" /\ at' = "sweep" => meanSquare(lines') <= meanSquare(lines)
<1>1. IInv /\ [Next]_vars => [NoWorse]_vars
  <2>1. SUFFICES ASSUME IInv, Next, at = "sweep", at' = "sweep"
                 PROVE  meanSquare(lines') <= meanSquare(lines)
    OBVIOUS
  <2>2. TypeOK /\ meanSquare(lines) \in Int
    BY <2>1, MeanSquareType DEF IInv, TypeOK
  <2>3. CASE Rebalance
    BY <2>2, <2>3, RebalanceProps
  <2>4. CASE NextSweep
    <3>1. lines' = lines
      BY <2>4 DEF NextSweep
    <3>2. QED
      BY <2>2, <3>1
  <2>5. ~Call /\ ~AddLine /\ ~StartSweeping /\ ~Return
    BY <2>1 DEF Call, AddLine, StartSweeping, Return
  <2>6. QED
    BY <2>1, <2>3, <2>4, <2>5 DEF Next
<1>2. QED
  BY <1>1, Invariance, PTL DEF Spec, NeverWorse
=============================================================================
