---------------------------- MODULE IdGenerator ----------------------------
(***************************************************************************)
(* The identifier generator of the object registry                         *)
(* (object/id_generator.h).                                                *)
(*                                                                         *)
(* The free identifiers are kept as a deque of closed ranges, sorted and   *)
(* pairwise apart, and an iterator into the deque says where the next      *)
(* identifier is taken from.  The iterator is an index here; the one past  *)
(* the last range, Len(emptyRanges) + 1, is the deque's end().             *)
(*                                                                         *)
(* holders counts the objects that hold each identifier: the registry      *)
(* takes one for an object and gives it back once, when that object is     *)
(* destroyed (object_registry::u_removeObject), so ReuseId is guarded by   *)
(* it.                                                                     *)
(***************************************************************************)
EXTENDS Integers, Sequences, FiniteSets, SequencesExt

CONSTANTS MinId, MaxId,     \* min_identifier and max_identifier
          MaxObjects,       \* bound: objects with a handle at the same time
          NoSave            \* no session has been saved yet

ASSUME IdsAssumption ==
  /\ MinId \in Nat
  /\ MaxId \in Nat
  /\ MinId =< MaxId
  /\ MaxObjects \in Nat
  /\ MaxObjects =< MaxId - MinId

ASSUME NoSaveAssumption ==
  /\ NoSave \notin [MinId .. MaxId -> Nat]
  /\ NoSave \notin [ranges  : Seq([first : MinId .. MaxId, last : MinId .. MaxId]),
                     currIdx : Nat,
                     holders : [MinId .. MaxId -> Nat]]

VARIABLES emptyRanges,      \* _empty_ranges
          currentRange,     \* _current_range, as an index of emptyRanges
          holders,          \* how many objects hold each identifier
          saved             \* what the last save wrote

vars == <<emptyRanges, currentRange, holders, saved>>

Ids == MinId .. MaxId

EndOf(ranges) == Len(ranges) + 1

WithFirstLast(first, last) == [first |-> first, last |-> last]

IsEmptyOffByOne(range) == range.first > range.last + 1

IsEmpty(range) == range.first > range.last

NoHolders == [n \in Ids |-> 0]

Used == { n \in Ids : holders[n] > 0 }

MembersOf(ranges) ==
  UNION { r.first .. r.last : r \in ToSet(ranges) }

\* u_clear: one range with every identifier.
Init ==
  /\ emptyRanges = <<WithFirstLast(MinId, MaxId)>>
  /\ currentRange = 1
  /\ holders = NoHolders
  /\ saved = NoSave

-----------------------------------------------------------------------------
(* new_id *)

\* A generator that has run out derefences begin() of an empty deque.
CanAllocate == emptyRanges # <<>>

\* When the range is used up, the next one is current, or the first after the
\* last.
StepForwardNoWrap(ranges, index) == index

StepForward(ranges, index) == IF index = EndOf(ranges) THEN 1 ELSE index

\* The identifiers of a range are taken in increasing order.
NewId ==
  /\ Cardinality(Used) < MaxObjects
  /\ CanAllocate
  /\ LET n      == emptyRanges[currentRange].first
         rest   == [emptyRanges EXCEPT ![currentRange].first = @ + 1]
         erased == RemoveAt(emptyRanges, currentRange)
     IN  /\ holders' = [holders EXCEPT ![n] = @ + 1]
         /\ \/ /\ ~IsEmpty(rest[currentRange])
               /\ emptyRanges' = rest
               /\ UNCHANGED currentRange
            \/ /\ IsEmpty(rest[currentRange])
               /\ emptyRanges' = erased
               /\ currentRange' = StepForward(erased, currentRange)
  /\ UNCHANGED saved

-----------------------------------------------------------------------------
(* reuse_id *)

\* std::lower_bound over the ranges' first identifiers.
LowerBound(ranges, val) ==
  1 + Cardinality({ i \in 1 .. Len(ranges) : ranges[i].first < val })

JoinsLeft(ranges, right, val) ==
  /\ right > 1
  /\ ranges[right - 1].last + 1 = val

\* Wrong variants, which the properties must reject: a bound tested the wrong
\* way round, and a range that is never extended downwards.
JoinsRightLoose(ranges, right, val) ==
  /\ right # EndOf(ranges)
  /\ ranges[right].first - 1 >= val

JoinsRightNever(ranges, right, val) == FALSE

JoinsRight(ranges, right, val) ==
  /\ right # EndOf(ranges)
  /\ ranges[right].first - 1 = val

\* The iterator's index after a range was inserted at right.
IndexAfterInsert(right) == currentRange + (IF currentRange < right THEN 0 ELSE 1)

\* The iterator's index after the range at right was erased.
IndexAfterErase(right) == currentRange - (IF currentRange < right THEN 0 ELSE 1)

InsertRange(val, right) ==
  /\ emptyRanges' = InsertAt(emptyRanges, right, WithFirstLast(val, val))
  /\ currentRange' = IndexAfterInsert(right)

MergeRanges(right) ==
  /\ emptyRanges' =
       RemoveAt([emptyRanges EXCEPT ![right - 1].last = emptyRanges[right].last],
                right)
  /\ currentRange' = IndexAfterErase(right)

ReuseId(val) ==
  LET right == LowerBound(emptyRanges, val)
      left  == JoinsLeft(emptyRanges, right, val)
      rght  == JoinsRight(emptyRanges, right, val)
  IN  /\ holders[val] > 0
      /\ holders' = [holders EXCEPT ![val] = @ - 1]
      /\ \/ ~left /\ ~rght /\ InsertRange(val, right)
         \/ left /\ rght /\ MergeRanges(right)
         \/ /\ left /\ ~rght
            /\ emptyRanges' = [emptyRanges EXCEPT ![right - 1].last = val]
            /\ UNCHANGED currentRange
         \/ /\ ~left /\ rght
            /\ emptyRanges' = [emptyRanges EXCEPT ![right].first = val]
            /\ UNCHANGED currentRange
      /\ UNCHANGED saved

-----------------------------------------------------------------------------
(* u_clear, save and load *)

Clear ==
  /\ emptyRanges' = <<WithFirstLast(MinId, MaxId)>>
  /\ currentRange' = 1
  /\ holders' = NoHolders
  /\ UNCHANGED saved

\* The archive holds the ranges and the iterator's distance from begin().
Save ==
  /\ saved' = [ranges  |-> emptyRanges,
               currIdx |-> currentRange - 1,
               holders |-> holders]
  /\ UNCHANGED <<emptyRanges, currentRange, holders>>

IndexFromSave(idx) == idx + 1

Load ==
  /\ saved # NoSave
  /\ emptyRanges' = saved.ranges
  /\ currentRange' = IndexFromSave(saved.currIdx)
  /\ holders' = saved.holders
  /\ UNCHANGED saved

Next ==
  \/ NewId
  \/ \E val \in Ids : ReuseId(val)
  \/ Clear
  \/ Save
  \/ Load

Spec == Init /\ [][Next]_vars

-----------------------------------------------------------------------------
(* is_free_id *)

\* The range before std::upper_bound is the only one that can hold val.
IsFreeId(val) ==
  LET left == Cardinality({ i \in 1 .. Len(emptyRanges) :
                            emptyRanges[i].first =< val })
  IN  /\ left > 0
      /\ emptyRanges[left].first =< val
      /\ val < emptyRanges[left].last + 1

-----------------------------------------------------------------------------
(* Properties *)

\* The shape of the state; the iterator is in the deque or its end().
TypeOK ==
  /\ emptyRanges \in Seq([first : Ids, last : Ids])
  /\ currentRange \in 1 .. EndOf(emptyRanges)
  /\ holders \in [Ids -> Nat]

\* No identifier is lost and none is given out twice: after any number of
\* merges, splits and reloads the ranges hold the identifiers that are not in
\* use, and is_free_id says so of each.
FreeIdsExact ==
  /\ MembersOf(emptyRanges) = Ids \ Used
  /\ \A val \in Ids : IsFreeId(val) <=> val \notin Used

\* The deque is what the binary searches of reuse_id and is_free_id need: its
\* ranges are non-empty, sorted and neither overlap nor touch (reuse_id merges
\* the ones that would).  is_valid (id_generator.h) asks for less.
RangesApart ==
  /\ \A i \in DOMAIN emptyRanges : ~IsEmpty(emptyRanges[i])
  /\ \A i \in 1 .. Len(emptyRanges) - 1 :
       emptyRanges[i].last + 1 < emptyRanges[i + 1].first

\* reuse_id asserts that the iterator it leaves behind is not end(); new_id
\* dereferences it.
CurrentRangeValid == emptyRanges # <<>> => currentRange \in DOMAIN emptyRanges

Allocator ==
  INSTANCE IdAllocator
    WITH savedHolders <- IF saved = NoSave THEN NoSave ELSE saved.holders

\* The ranges are an implementation of the set of identifiers in use: an
\* identifier handed out was in use by nobody.
ImplementsAllocator == Allocator!Spec
=============================================================================
