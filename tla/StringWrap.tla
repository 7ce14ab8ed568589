----------------------------- MODULE StringWrap -----------------------------
(***************************************************************************)
(* JString.wrap: breaks a text at blanks onto lines of almost equal size.  *)
(*                                                                         *)
(*   api_3/tes_string.h        the function of the script API              *)
(*   api_3/string_wrapper.cpp  the lines and how they are made             *)
(*                                                                         *)
(* A first pass cuts the text into lines; sweeps over the lines then move  *)
(* words between neighbours where that brings the lengths closer together. *)
(* A step is one turn of a loop of the code.  A character is a letter, a   *)
(* blank or a byte that is not UTF-8; a word is the range of positions it  *)
(* was cut from.  The code's floats are compared as the fractions they     *)
(* round.                                                                  *)
(***************************************************************************)
EXTENDS Integers, Sequences, FiniteSets, SequencesExt

CONSTANTS Calls,     \* the pairs of a text and a charactersPerLine to wrap
          MaxLoops,  \* the sweeps over all lines before it gives up, 40
          MaxLines   \* bound: lines of the first pass, which may be without end

Letter == "x"
Blank == " "
Malformed == "?"

ASSUME WrapAssumption ==
  /\ Calls \subseteq Seq({Letter, Blank, Malformed}) \X Int
  /\ MaxLoops \in Nat
  /\ MaxLines \in Nat

VARIABLES
  csource,       \* the text
  charsPerLine,
  at,            \* "call", "split", "sweep" or "done"
  lines,         \* line_set: for each line its words
  first,         \* where the next line of the first pass starts
  loop,          \* the sweeps begun
  i,             \* the line the sweep is at
  oldDelta,      \* the mean square when the sweep began
  result         \* what the script gets: None or the text of each line

vars == <<csource, charsPerLine, at, lines, first, loop, i, oldDelta, result>>

None == <<"None">>

Begin == 1
End == Len(csource) + 1

-----------------------------------------------------------------------------
(* A line and its words *)

\* The character past the end is the string's terminator, which is none.
is_blank_or_space(p) == p # End /\ csource[p] = Blank

SumSeq(s) ==
  LET sum[k \in 0 .. Len(s)] == IF k = 0 THEN 0 ELSE sum[k - 1] + s[k]
  IN sum[Len(s)]

Size(word) == word[2] - word[1]

\* The words of a line and one blank between each two of them.
charCount(line) ==
  SumSeq([k \in 1 .. Len(line) |-> Size(line[k])]) + (IF line = <<>> THEN 0 ELSE Len(line) - 1)

\* The words of a range, cut at every blank: two blanks have an empty word between them.
split_range(from, to) ==
  LET cuts == {from - 1, to} \union { p \in from .. to - 1 : is_blank_or_space(p) }
      cut(n) == CHOOSE p \in cuts : Cardinality({ q \in cuts : q < p }) = n - 1
  IN [n \in 1 .. Cardinality(cuts) - 1 |-> <<cut(n) + 1, cut(n + 1)>>]

\* Every word with a blank after it, the last one too.
toUTF8String(line) ==
  LET text[n \in 0 .. Len(line)] ==
        IF n = 0 THEN <<>>
        ELSE text[n - 1] \o Append(SubSeq(csource, line[n][1], line[n][2] - 1), Blank)
  IN text[Len(line)]

utf8Strings(set) == [k \in 1 .. Len(set) |-> toUTF8String(set[k])]

-----------------------------------------------------------------------------
(* The first pass *)

\* charactersPerLine() is the fraction total * max / (max + total).
CplNumerator == Len(csource) * charsPerLine
CplDenominator == Len(csource) + charsPerLine

\* Is what is left as long as a line, or longer?
FillsLine == (End - first) * CplDenominator >= CplNumerator

\* A wrong variant: the break may be the blank the line starts at.
nearestBreakNotFirst ==
  LET middle == first + (CplNumerator \div CplDenominator)
      left == Max({first} \union {p \in first .. middle : is_blank_or_space(p)})
      right == Min({End} \union {p \in middle .. End : is_blank_or_space(p)})
  IN IF 10 * (middle - left) < 12 * (right - middle) THEN left ELSE right

\* The blank before the middle or, unless that one is clearly nearer, the one after it.
nearestBreak ==
  LET middle == first + (CplNumerator \div CplDenominator)
      left == Max({first} \union {p \in first .. middle : is_blank_or_space(p)})
      right == Min({End} \union {p \in middle .. End : is_blank_or_space(p)})
  IN IF left # first /\ 10 * (middle - left) < 12 * (right - middle) THEN left ELSE right

\* One turn of initialSet()'s loop.
AddLine ==
  /\ at = "split"
  /\ first # End
  /\ Len(lines) < MaxLines
  /\ LET selected == IF FillsLine THEN nearestBreak ELSE End
     IN /\ lines' = Append(lines, split_range(first, selected))
        /\ first' = selected
  /\ UNCHANGED <<csource, charsPerLine, at, loop, i, oldDelta, result>>

-----------------------------------------------------------------------------
(* Moving words between lines *)

Counts(set) == [k \in 1 .. Len(set) |-> charCount(set[k])]

\* charDiffIn(), times the number of lines.
charDiffIn(set, k) == Len(set) * charCount(set[k]) - SumSeq(Counts(set))

\* meanSquare(), times the cube of the number of lines.
meanSquare(set) == SumSeq([k \in 1 .. Len(set) |-> charDiffIn(set, k) * charDiffIn(set, k)])

\* A wrong variant: the word moved to the next line is put at its end.
TakeFromBeforeAtEnd(set, k) ==
  IF set[k - 1] = <<>> THEN set
  ELSE [set EXCEPT ![k - 1] = Front(@), ![k] = Append(@, Last(set[k - 1]))]

\* The last word of line k - 1 becomes the first of line k, and the other way round.
TakeFromBefore(set, k) ==
  IF set[k - 1] = <<>> THEN set
  ELSE [set EXCEPT ![k - 1] = Front(@), ![k] = <<Last(set[k - 1])>> \o @]

GiveToBefore(set, k) ==
  IF set[k] = <<>> THEN set
  ELSE [set EXCEPT ![k] = Tail(@), ![k - 1] = Append(@, Head(set[k]))]

\* The first line has no line before it and deals with the second.
incrLength(set, k) ==
  IF k # 1 THEN TakeFromBefore(set, k)
  ELSE IF Len(set) >= 2 THEN GiveToBefore(set, 2) ELSE set

decrLength(set, k) ==
  IF k # 1 THEN GiveToBefore(set, k)
  ELSE IF Len(set) >= 2 THEN TakeFromBefore(set, 2) ELSE set

doIncr(set, k, increase) == IF increase THEN incrLength(set, k) ELSE decrLength(set, k)

\* A wrong variant: the operation is repeated, not reversed.
revertSame(set, k, increase) == doIncr(set, k, increase)

\* operation::revert: the opposite of what was done.
revert(set, k, increase) == doIncr(set, k, ~increase)

\* One line of a sweep: make it longer or shorter, and take that back if the lengths are further apart.
Rebalance ==
  /\ at = "sweep"
  /\ i <= Len(lines)
  /\ \E needIncr \in {charDiffIn(lines, i) < 0} :
       \E tried \in {doIncr(lines, i, needIncr)} :
         lines' = IF meanSquare(tried) > meanSquare(lines) THEN revert(tried, i, needIncr) ELSE tried
  /\ i' = i + 1
  /\ UNCHANGED <<csource, charsPerLine, at, first, loop, oldDelta, result>>

-----------------------------------------------------------------------------
(* The function *)

\* The guards of wrap_string(): these give None or an empty array at once.
IsRefused == charsPerLine <= 0 \/ \E p \in 1 .. Len(csource) : csource[p] = Malformed

Call ==
  /\ at = "call"
  /\ IF IsRefused \/ csource = <<>>
     THEN /\ at' = "done"
          /\ result' = IF IsRefused THEN None ELSE <<>>
     ELSE at' = "split" /\ UNCHANGED result
  /\ UNCHANGED <<csource, charsPerLine, lines, first, loop, i, oldDelta>>

\* The first pass is over; the sweeps begin.
StartSweeping ==
  /\ at = "split"
  /\ first = End
  /\ at' = "sweep"
  /\ loop' = 1
  /\ i' = 1
  /\ oldDelta' = meanSquare(lines)
  /\ UNCHANGED <<csource, charsPerLine, lines, first, result>>

\* A sweep is over.  There is another one if it changed the mean square and there were fewer than MaxLoops.
IsBalanced == meanSquare(lines) = oldDelta \/ loop = MaxLoops

NextSweep ==
  /\ at = "sweep"
  /\ i > Len(lines)
  /\ ~IsBalanced
  /\ loop' = loop + 1
  /\ i' = 1
  /\ oldDelta' = meanSquare(lines)
  /\ UNCHANGED <<csource, charsPerLine, at, lines, first, result>>

\* wrap() puts the text of each line into a new JArray.
Return ==
  /\ at = "sweep"
  /\ i > Len(lines)
  /\ IsBalanced
  /\ at' = "done"
  /\ result' = utf8Strings(lines)
  /\ UNCHANGED <<csource, charsPerLine, lines, first, loop, i, oldDelta>>

Init ==
  /\ \E call \in Calls : csource = call[1] /\ charsPerLine = call[2]
  /\ at = "call"
  /\ lines = <<>>
  /\ first = Begin
  /\ loop = 0
  /\ i = 0
  /\ oldDelta = 0
  /\ result = None

Next == Call \/ AddLine \/ StartSweeping \/ Rebalance \/ NextSweep \/ Return

Spec == Init /\ [][Next]_vars

\* The thread that runs the function goes on.
FairSpec == Spec /\ WF_vars(Next)

-----------------------------------------------------------------------------
(* Properties *)

\* The words of the text before e: the longest ranges without a blank.
WordsBefore(e) ==
  { w \in (1 .. e) \X (1 .. e) :
      /\ w[1] < w[2]
      /\ \A p \in w[1] .. w[2] - 1 : csource[p] # Blank
      /\ w[1] = 1 \/ csource[w[1] - 1] = Blank
      /\ w[2] = e \/ csource[w[2]] = Blank }

\* Where words are, in the order they are read in.
Places(set) == UNION { {k} \X (1 .. Len(set[k])) : k \in 1 .. Len(set) }
Before(p, q) == p[1] < q[1] \/ (p[1] = q[1] /\ p[2] < q[2])
WordAt(set, p) == set[p[1]][p[2]]

InOrder(set) ==
  \A p, q \in Places(set) : Before(p, q) => WordAt(set, p)[2] <= WordAt(set, q)[1]
WordsOf(set) == { w \in { WordAt(set, p) : p \in Places(set) } : Size(w) # 0 }

\* The length of the first n words of a line, each with a blank after it.
LengthTo(line, n) == IF n = 0 THEN 0 ELSE charCount(SubSeq(line, 1, n)) + 1

\* A text is that of a line: of the length counted for it, with each word in its place.
IsTextOf(text, line) ==
  /\ Len(text) = LengthTo(line, Len(line))
  /\ \A n \in 1 .. Len(line) :
       LET from == LengthTo(line, n - 1)
           to == LengthTo(line, n)
       IN /\ SubSeq(text, from + 1, to - 1) = SubSeq(csource, line[n][1], line[n][2] - 1)
          /\ text[to] = Blank

\* At every moment the lines hold the words of the text they were made from,
\* each whole, once and in order, whatever was cut and moved; and the lines a
\* script gets read as these words, their lengths being those that were balanced.
WordsKept ==
  /\ WordsOf(lines) = WordsBefore(first)
  /\ InOrder(lines)
  /\ result # None =>
       /\ Len(result) = Len(lines)
       /\ \A k \in 1 .. Len(lines) : IsTextOf(result[k], lines[k])

\* "almost equal size" (tes_string.h:52): once the lines are cut, their
\* lengths never move further apart, from the first sweep to the last.
NeverWorse ==
  [][at = "sweep" /\ at' = "sweep" => meanSquare(lines') <= meanSquare(lines)]_vars

\* The lines are to be shorter than a character: a text of one character, or lines of 1.
\* The break nearest to a blank is then that blank, again and again.
IsStuckAtBlanks ==
  ~IsRefused /\ CplNumerator < CplDenominator /\ \E p \in 1 .. Len(csource) : csource[p] = Blank

\* Every call ends, the first pass at the end of the text and the sweeps in their turn,
\* but for a text of one blank and, with lines of 1, every text that has a blank: the
\* first pass never gets past that blank, and makes empty lines for ever.
Finishes == ~IsStuckAtBlanks => <>(at = "done")
=============================================================================
