----------------------------- MODULE Reading_proof -----------------------------
(***************************************************************************)
(* What a script reads of a container, at once or in a loop, for every set *)
(* of keys, forms and values.                                              *)
(***************************************************************************)
EXTENDS Reading, SequenceLemmas

Items == [type : Int, value : Int]
Kinds == {"array", "map", "integer_map", "form_map"}

\* The container: an array's items are a sequence, a map has finitely many keys.
ContainerOK ==
  /\ container = [kind |-> container.kind, at |-> container.at]
  /\ container.kind \in Kinds
  /\ IsArray => at \in Seq(Items)
  /\ ~IsArray => at \in [Keys -> Items] /\ Keys \subseteq KeysOf(container.kind) /\ IsFiniteSet(Keys)

\* The loop.
ScriptOK ==
  \/ script = Idle
  \/ /\ script \in [pc : {"loop", "done"}, way : Ways, key : Int, end : Items, seen : Seq(Int)]
     /\ script.end \in Ends(script.way)
     /\ IsArray => script.key \in Nat

TypeOK ==
  /\ ContainerOK
  /\ ScriptOK
  /\ expired \subseteq Forms
  /\ stayed \subseteq Keys
  /\ cut \in BOOLEAN

\* A key the loop passes over.
Passed(k) == ~IsArray /\ AsKey(k) = AsKey(script.end.value)

\* A loop that has not lost its place, and is not one of JMap with an end key of its own.
KeepsPlace == ~cut /\ ~(container.kind = "map" /\ script.end.value # 0)

\* What a loop was given: all that stayed and is not ahead of it, in order but where it
\* began again because the form it was at was deleted.
LoopOK ==
  /\ script.way = "find" => \A k \in stayed : IsEqual(at[k], script.end)
  /\ script.pc = "loop" /\ script.seen # <<>> => script.seen[Len(script.seen)] = script.key
  /\ KeepsPlace => \A n \in 2 .. Len(script.seen) :
                    script.seen[n - 1] < script.seen[n] \/ Passed(script.seen[n - 1])
  /\ script.pc = "loop" /\ KeepsPlace /\ ~Passed(script.key) =>
       \A k \in stayed : Passed(k) \/ k \in Range(script.seen) \/ k > script.key
  /\ script.pc = "done" /\ KeepsPlace =>
       \A k \in stayed : Passed(k) \/ k \in Range(script.seen)

IInv == TypeOK /\ LoopOK

-----------------------------------------------------------------------------
(* Keys and items *)

\* The member of a set with one is that one.
LEMMA OnlyMember == ASSUME NEW x PROVE Only({x}) = x
BY DEF Only

\* Every value a script writes is an item, as a number that Lua writes is.
LEMMA ValuesAreItems ==
  /\ Values \subseteq Items
  /\ \A v \in Values : FromLua(v) \in Items
  /\ Null \in Items
BY ReadingAssumption
   DEF Items, FromLua, FltItem, Null, NullType, Integer, Real, FormType, Object, String, IsNumber

\* The keys of a container are integers, finitely many; an array's are its places.
LEMMA KeysProps ==
  ASSUME ContainerOK
  PROVE  /\ Keys \subseteq Int /\ IsFiniteSet(Keys) /\ Count \in Nat
         /\ \A k \in Keys : at[k] \in Items
         /\ IsArray => Count = Len(at) /\ Keys = 1 .. Count
<1>1. CASE IsArray
  <2>1. at \in Seq(Items) /\ Keys = 1 .. Len(at) /\ Len(at) \in Nat
    BY <1>1 DEF ContainerOK, Keys
  <2>2. IsFiniteSet(1 .. Len(at)) /\ Cardinality(1 .. Len(at)) = Len(at)
    BY <2>1, FS_Interval
  <2>3. Count = Len(at)
    BY Zenon, <2>1, <2>2 DEF Count
  <2>4. \A k \in 1 .. Len(at) : at[k] \in Items
    BY <2>1
  <2>5. QED
    BY <2>1, <2>2, <2>3, <2>4
<1>2. CASE ~IsArray
  <2>1. at \in [Keys -> Items] /\ Keys \subseteq KeysOf(container.kind) /\ IsFiniteSet(Keys)
    BY <1>2 DEF ContainerOK
  <2>2. KeysOf(container.kind) \subseteq Int
    BY <1>2, ReadingAssumption DEF ContainerOK, KeysOf, Kinds, IsArray
  <2>3. Count \in Nat
    BY <2>1, FS_CardinalityType DEF Count
  <2>4. QED
    BY <1>2, <2>1, <2>2, <2>3
<1>3. QED
  BY <1>1, <1>2

\* Some of the keys of a container have a first one.
LEMMA MinProps ==
  ASSUME ContainerOK, NEW S \in SUBSET Keys, S # {}
  PROVE  /\ Min(S) \in S /\ \A j \in S : Min(S) <= j
         /\ Max(S) \in S /\ \A j \in S : j <= Max(S)
<1>1. S \in SUBSET Int /\ IsFiniteSet(S)
  <2>1. Keys \subseteq Int /\ IsFiniteSet(Keys)
    BY KeysProps
  <2>2. IsFiniteSet(S)
    BY <2>1, FS_Subset
  <2>3. QED
    BY <2>1, <2>2
<1>2. /\ \E i \in S : \A j \in S : i <= j
      /\ \E i \in S : \A j \in S : j <= i
  BY <1>1, LeastAndGreatest
<1>3. QED
  BY <1>1, <1>2 DEF Min, Max

\* The first of some keys is none or the least.
LEMMA FirstProps ==
  ASSUME ContainerOK, NEW S \in SUBSET Keys
  PROVE  \/ S = {} /\ First(S) = {}
         \/ \E m \in S : First(S) = {m} /\ \A j \in S : m <= j
<1>1. CASE S = {}
  BY <1>1 DEF First
<1>2. CASE S # {}
  BY <1>2, MinProps DEF First
<1>3. QED
  BY <1>1, <1>2

\* A loop that runs is of its kind of container.
LEMMA LoopFields ==
  ASSUME TypeOK, script # Idle
  PROVE  /\ script \in [pc : {"loop", "done"}, way : Ways, key : Int, end : Items, seen : Seq(Int)]
         /\ script.end.value \in Int
         /\ IsArray => script.key \in Nat /\ script.way \in {"ipairs", "find"}
         /\ ~IsArray => script.way \in {"nextKey", "pairs"}
         /\ script.way = "pairs" => script.end.value = 0
         /\ container.kind = "integer_map" => script.way = "nextKey"
<1>1. /\ script \in [pc : {"loop", "done"}, way : Ways, key : Int, end : Items, seen : Seq(Int)]
      /\ script.end \in Ends(script.way)
      /\ IsArray => script.key \in Nat
  BY DEF TypeOK, ScriptOK
<1>2. script.way \in Ways /\ script.end \in Items /\ script.end.value \in Int
  BY <1>1 DEF Items
<1>3. container.kind \in Kinds
  BY DEF TypeOK, ContainerOK
<1>4. /\ IsArray => script.way \in {"ipairs", "find"}
      /\ ~IsArray => script.way \in {"nextKey", "pairs"}
      /\ container.kind = "integer_map" => script.way = "nextKey"
  BY <1>2, <1>3 DEF Ways, Kinds, IsArray
<1>5. script.way = "pairs" => script.end.value = 0
  BY <1>1 DEF Ends, IntItem
<1>6. QED
  BY <1>1, <1>2, <1>4, <1>5

\* A loop that keeps its place begins where its key is passed over.
LEMMA BeginsIsPassed ==
  ASSUME TypeOK, script.pc = "loop", KeepsPlace
  PROVE  Begins(script) <=> Passed(script.key)
<1>1. script # Idle /\ container.kind \in Kinds
  BY DEF TypeOK, ContainerOK, Idle, Loop
<1>2. /\ script.way = "pairs" => script.end.value = 0
      /\ container.kind = "integer_map" => script.way = "nextKey"
      /\ container.kind = "map" => script.end.value = 0
  BY <1>1, LoopFields DEF KeepsPlace
<1>3. container.kind # "integer_map" => AsKey(0) = 0
  BY DEF AsKey, AsForm
<1>4. CASE IsArray
  BY <1>4 DEF Begins, Passed
<1>5. CASE ~IsArray /\ (script.way = "pairs" \/ container.kind = "map")
  <2>1. container.kind # "integer_map" /\ script.end.value = 0
    BY <1>2, <1>5
  <2>2. Begins(script) <=> AsKey(script.key) = 0
    BY <1>5, <2>1 DEF Begins, IsValidKey
  <2>3. QED
    BY <1>3, <1>5, <2>1, <2>2 DEF Passed
<1>6. CASE ~IsArray /\ ~(script.way = "pairs" \/ container.kind = "map")
  BY <1>6 DEF Begins, Passed
<1>7. QED
  BY <1>4, <1>5, <1>6

-----------------------------------------------------------------------------
(* The next key of a loop *)

\* The keys a loop has yet to come to, and those of them it must not miss.
Ahead == { k \in Keys : Passed(script.key) \/ k > script.key }
Wanted == { k \in Ahead : ~Passed(k) /\ (script.way = "find" => IsEqual(at[k], script.end)) }

\* The loop goes on with a key that is ahead, and with the first of those that it must
\* not miss if it does not come before.
FirstWanted(next) ==
  \/ next = {} /\ Wanted = {}
  \/ \E m \in Ahead : /\ next = {m}
                      /\ ~Passed(m)
                      /\ \A k \in Wanted : m <= k

\* The place for an index from 0 on is the next, if the array is as long.
LEMMA PlacesAtProps ==
  ASSUME ContainerOK, IsArray, NEW i \in Int
  PROVE  /\ i \in 0 .. Count - 1 => PlacesAt(i) = {i + 1}
         /\ i >= Count => PlacesAt(i) = {}
         /\ i < 0 /\ -i <= Count => PlacesAt(i) = {Count + i + 1}
<1>1. Count \in Nat
  BY KeysProps
<1>2. /\ i \in 0 .. Count - 1 => ConvertReadIndex(Count, i) = {i}
      /\ i >= Count => ConvertReadIndex(Count, i) = {}
      /\ i < 0 /\ -i <= Count => ConvertReadIndex(Count, i) = {Count + i}
  BY <1>1 DEF ConvertReadIndex
<1>3. QED
  BY <1>2 DEF PlacesAt

\* A search from an index on finds the first item that is equal.
LEMMA FindValForward ==
  ASSUME ContainerOK, IsArray, NEW value, NEW start \in Nat
  PROVE  LET hits == { k \in Keys : k > start /\ IsEqual(at[k], value) }
         IN  FindVal(value, start) = IF hits = {} THEN -1 ELSE Min(hits) - 1
<1>1. Keys = 1 .. Count /\ Count \in Nat
  BY KeysProps
<1> DEFINE hits == { k \in Keys : k > start /\ IsEqual(at[k], value) }
           all == { k \in Keys : IsEqual(at[k], value) }
           from == Only(PlacesAt(start))
<1>2. CASE start >= Count
  <2>1. PlacesAt(start) = {}
    BY <1>2, PlacesAtProps
  <2>2. hits = {}
    BY <1>1, <1>2
  <2>3. FindVal(value, start) = -1
    BY <2>1 DEF FindVal
  <2>4. QED
    BY <2>2, <2>3
<1>3. CASE start < Count
  <2>1. PlacesAt(start) = {start + 1}
    BY <1>1, <1>3, PlacesAtProps
  <2>2. from = start + 1
    BY <2>1, OnlyMember
  <2>3. { k \in all : k >= from } = hits
    BY <1>1, <2>2
  <2>4. FindVal(value, start)
          = IF { k \in all : k >= from } = {} THEN -1 ELSE Min({ k \in all : k >= from }) - 1
    BY <2>1 DEF FindVal
  <2>5. QED
    BY <2>3, <2>4
<1>4. QED
  BY <1>1, <1>2, <1>3

\* An array's loop: by places, or from item to item that is equal to the end.
LEMMA NextOfArray ==
  ASSUME TypeOK, script.pc = "loop", IsArray
  PROVE  FirstWanted(NextOf(script))
<1>0. ContainerOK /\ script # Idle
  BY DEF TypeOK, Idle, Loop
<1>1. /\ script.key \in Nat /\ script.way \in {"ipairs", "find"}
  BY <1>0, LoopFields
<1>2. Keys = 1 .. Count /\ Count \in Nat
  BY <1>0, KeysProps
<1>3. Ahead = { k \in Keys : k > script.key } /\ \A k : ~Passed(k)
  BY DEF Ahead, Passed
<1>4. CASE script.way = "ipairs"
  <2>1. NextOf(script) = IF script.key < Count THEN {script.key + 1} ELSE {}
    BY <1>4 DEF NextOf
  <2>2. Wanted = Ahead
    BY <1>3, <1>4 DEF Wanted
  <2>3. CASE script.key < Count
    <3>1. script.key + 1 \in Ahead /\ \A k \in Ahead : script.key + 1 <= k
      BY <1>1, <1>2, <1>3, <2>3
    <3>2. QED
      BY <1>3, <2>1, <2>2, <2>3, <3>1 DEF FirstWanted
  <2>4. CASE ~(script.key < Count)
    <3>1. Ahead = {}
      BY <1>1, <1>2, <1>3, <2>4
    <3>2. QED
      BY <2>1, <2>2, <2>4, <3>1 DEF FirstWanted
  <2>5. QED
    BY <2>3, <2>4
<1>5. CASE script.way = "find"
  <2> DEFINE hits == { k \in Keys : k > script.key /\ IsEqual(at[k], script.end) }
  <2>1. NextOf(script) = { i + 1 : i \in {FindVal(script.end, script.key)} \ {-1} }
    BY <1>5 DEF NextOf
  <2>2. FindVal(script.end, script.key) = IF hits = {} THEN -1 ELSE Min(hits) - 1
    BY <1>0, <1>1, FindValForward
  <2>3. Wanted = hits /\ hits \in SUBSET Ahead
    BY <1>3, <1>5 DEF Wanted
  <2>4. CASE hits = {}
    <3>1. NextOf(script) = {}
      BY <2>1, <2>2, <2>4
    <3>2. QED
      BY <2>3, <2>4, <3>1 DEF FirstWanted
  <2>5. CASE hits # {}
    <3>1. PICK m : m = Min(hits)
      OBVIOUS
    <3>2. hits \in SUBSET Keys
      OBVIOUS
    <3> HIDE DEF hits
    <3>3. m \in hits /\ \A j \in hits : m <= j
      BY <1>0, <2>5, <3>1, <3>2, MinProps
    <3>4. m \in 1 .. Count
      BY <1>2, <3>2, <3>3
    <3>5. NextOf(script) = {m}
      BY <2>1, <2>2, <2>5, <3>1, <3>4
    <3>6. QED
      BY <1>3, <2>3, <3>3, <3>5 DEF FirstWanted
  <2>6. QED
    BY <2>4, <2>5
<1>6. QED
  BY <1>1, <1>4, <1>5

\* nextKey of JIntMap and JFormMap, from the end key or a key of the map on.
LEMMA NextOfPapyrusMap ==
  ASSUME TypeOK, script.pc = "loop", container.kind \in {"integer_map", "form_map"},
         script.way = "nextKey", Passed(script.key) \/ FindIterator(script.key) = {script.key}
  PROVE  FirstWanted(NextOf(script))
<1>0. ContainerOK /\ script # Idle /\ ~IsArray
  BY DEF TypeOK, Idle, Loop, IsArray
<1> DEFINE key == script.key
           end == script.end.value
<1>1. Passed(key) <=> AsKey(key) = AsKey(end)
  BY <1>0 DEF Passed
<1> DEFINE S == { j \in Ahead : AsKey(j) # AsKey(end) }
<1>2. KeysAfter(key, end) = Ahead
  <2>1. KeysAfter(key, end)
          = IF AsKey(key) = AsKey(end) THEN Keys ELSE { j \in Keys : \E f \in FindIterator(key) : j > f }
    BY DEF KeysAfter
  <2>2. CASE Passed(key)
    BY <1>1, <2>1, <2>2 DEF Ahead
  <2>3. CASE ~Passed(key)
    <3>1. { j \in Keys : \E f \in FindIterator(key) : j > f } = { j \in Keys : j > key }
      BY <2>3
    <3>2. QED
      BY <1>1, <2>1, <2>3, <3>1 DEF Ahead
  <2>4. QED
    BY <2>2, <2>3
<1>3. NextOf(script) = First(S)
  <2>1. NextOf(script) = NextKeyForPapyrus(key, end)
    BY DEF NextOf
  <2>2. NextKeyForPapyrus(key, end) = First({ j \in KeysAfter(key, end) : AsKey(j) # AsKey(end) })
    BY DEF NextKeyForPapyrus
  <2>3. QED
    BY Zenon, <1>2, <2>1, <2>2
<1>4. Wanted \subseteq S /\ S \in SUBSET Ahead /\ S \in SUBSET Keys
  BY <1>0 DEF Wanted, Passed, Ahead
<1>5. \A m \in S : ~Passed(m)
  BY DEF Passed
<1> HIDE DEF S
<1>6. \/ S = {} /\ First(S) = {}
      \/ \E m \in S : First(S) = {m} /\ \A j \in S : m <= j
  BY <1>0, <1>4, FirstProps
<1>7. QED
  BY <1>3, <1>4, <1>5, <1>6 DEF FirstWanted

\* nextKey of JMap and of Lua, unless Lua is at a deleted form or comes to one.
LEMMA NextOfNextKey ==
  ASSUME TypeOK, script.pc = "loop", KeepsPlace, container.kind \in {"map", "form_map"},
         script.way = "pairs" \/ container.kind = "map",
         Begins(script) \/ FindIterator(script.key) = {script.key},
         script.way = "pairs" => \A k \in NextKey(script.key) : AsKey(k) # 0
  PROVE  FirstWanted(NextOf(script))
<1>0. ContainerOK /\ script # Idle /\ ~IsArray
  BY DEF TypeOK, Idle, Loop, IsArray
<1> DEFINE key == script.key
<1>1. script.end.value = 0 /\ AsKey(0) = 0 /\ script.way \in {"nextKey", "pairs"}
  BY <1>0, LoopFields DEF KeepsPlace, AsKey, AsForm
<1>2. Begins(script) <=> Passed(key)
  BY BeginsIsPassed
<1>3. Begins(script) <=> ~IsValidKey(key)
  BY <1>0 DEF Begins
<1>4. ~Passed(key) => Found(key) = {key}
  BY <1>2, <1>3 DEF Found, FindIterator
<1>5. NextOf(script) = NextKey(key) /\ NextKey(key) = First(Ahead)
  <2>1. NextOf(script) = NextKey(key)
    BY <1>1 DEF NextOf
  <2>2. NextKey(key) = First(IF IsValidKey(key) THEN { j \in Keys : Found(key) # {} /\ j > key } ELSE Keys)
    BY DEF NextKey
  <2>3. (IF IsValidKey(key) THEN { j \in Keys : Found(key) # {} /\ j > key } ELSE Keys) = Ahead
    BY <1>2, <1>3, <1>4 DEF Ahead
  <2>4. QED
    BY Zenon, <2>1, <2>2, <2>3
<1>6. \A k \in NextKey(key) : ~Passed(k)
  <2>1. \A k : Passed(k) <=> AsKey(k) = 0
    BY <1>0, <1>1 DEF Passed
  <2>2. CASE script.way = "pairs"
    BY <2>1, <2>2
  <2>3. CASE container.kind = "map"
    <3>1. Keys \subseteq Names
      BY <1>0, <2>3 DEF ContainerOK, KeysOf
    <3>2. \A k \in Keys : AsKey(k) # 0
      BY <3>1, <2>3, ReadingAssumption DEF AsKey
    <3>3. Ahead \in SUBSET Keys
      BY DEF Ahead
    <3>4. First(Ahead) \subseteq Ahead
      BY <1>0, <3>3, FirstProps
    <3>5. QED
      BY <1>5, <2>1, <3>2, <3>3, <3>4
  <2>4. QED
    BY <2>2, <2>3
<1>7. Wanted \subseteq Ahead /\ Ahead \in SUBSET Keys
  BY DEF Wanted, Ahead
<1>8. \/ Ahead = {} /\ First(Ahead) = {}
      \/ \E m \in Ahead : First(Ahead) = {m} /\ \A j \in Ahead : m <= j
  BY <1>0, <1>7, FirstProps
<1>9. QED
  BY <1>5, <1>6, <1>7, <1>8 DEF FirstWanted

\* What a loop goes on with is none or one of the keys of the container.
LEMMA NextOfKeys ==
  ASSUME TypeOK, script.pc = "loop"
  PROVE  NextOf(script) = {} \/ \E m \in Keys : NextOf(script) = {m}
<1>0. ContainerOK /\ script # Idle
  BY DEF TypeOK, Idle, Loop
<1>1. CASE IsArray
  BY <1>1, NextOfArray DEF FirstWanted, Ahead
<1>2. CASE ~IsArray
  <2>1. script.way \in {"nextKey", "pairs"} /\ container.kind \in Kinds
    BY <1>0, <1>2, LoopFields DEF ContainerOK
  <2>2. CASE script.way = "nextKey" /\ container.kind # "map"
    <3>1. NextOf(script) = NextKeyForPapyrus(script.key, script.end.value)
      BY <2>2 DEF NextOf
    <3>2. KeysAfter(script.key, script.end.value) \subseteq Keys
      BY DEF KeysAfter
    <3>3. PICK S \in SUBSET Keys : NextKeyForPapyrus(script.key, script.end.value) = First(S)
      BY <3>2, Zenon DEF NextKeyForPapyrus
    <3>4. QED
      BY <3>1, <3>3, <1>0, FirstProps
  <2>3. CASE script.way = "pairs" \/ container.kind = "map"
    <3>1. NextOf(script) = NextKey(script.key)
      BY <2>1, <2>3 DEF NextOf
    <3>2. QED
      BY <3>1, <1>0, FirstProps DEF NextKey
  <2>4. QED
    BY <2>1, <2>2, <2>3
<1>3. QED
  BY <1>1, <1>2

-----------------------------------------------------------------------------
(* Steps of other scripts and of the game *)

\* What the loop knows of the container is its kind.
LEMMA SameKind ==
  ASSUME TypeOK, container'.kind = container.kind, UNCHANGED script
  PROVE  ScriptOK' /\ IsArray' = IsArray
<1>1. IsArray' = IsArray /\ Ways' = Ways
  BY DEF IsArray, Ways
<1>2. ASSUME NEW way PROVE Ends(way)' = Ends(way)
  BY DEF Ends
<1>3. Ends(script.way)' = Ends(script.way)
  BY <1>2
<1>4. ScriptOK
  BY DEF TypeOK
<1>5. QED
  BY <1>1, <1>3, <1>4 DEF ScriptOK, Idle

\* Items are set, or keys removed: what stayed still matches, and no key moved.
LEMMA BecomeStep ==
  ASSUME IInv, NEW items, Become(items),
         IsArray => items \in Seq(Items),
         ~IsArray => /\ items \in [DOMAIN items -> Items]
                     /\ DOMAIN items \subseteq KeysOf(container.kind)
                     /\ IsFiniteSet(DOMAIN items)
  PROVE  IInv'
<1>1. /\ container' = [container EXCEPT !.at = items]
      /\ stayed' = { k \in stayed \intersect DOMAIN items :
                       script.way = "find" => IsEqual(items[k], script.end) }
      /\ UNCHANGED <<expired, script, cut>>
  BY DEF Become
<1>2. TypeOK /\ LoopOK /\ ContainerOK /\ container = [kind |-> container.kind, at |-> container.at]
  BY DEF IInv, TypeOK, ContainerOK
<1>3. /\ container' = [kind |-> container.kind, at |-> items]
      /\ container'.kind = container.kind /\ container'.at = items
  BY <1>1, <1>2
<1>4. at' = items /\ Keys' = DOMAIN items
  BY <1>3 DEF at, Keys
<1>5. ScriptOK' /\ IsArray' = IsArray
  BY <1>1, <1>2, <1>3, SameKind
<1>6. ContainerOK'
  BY <1>2, <1>3, <1>4, <1>5 DEF ContainerOK
<1>7. TypeOK'
  BY <1>1, <1>2, <1>4, <1>5, <1>6 DEF TypeOK
<1>8. /\ KeepsPlace' = KeepsPlace
      /\ \A i, j : IsEqual(i, j)' = IsEqual(i, j)
      /\ \A k : Passed(k)' = Passed(k)
  BY <1>1, <1>3, <1>5 DEF KeepsPlace, IsEqual, AsItem, AsForm, AsKey, Passed
<1>9. stayed' \subseteq stayed /\ \A k \in stayed' : script.way = "find" => IsEqual(items[k], script.end)
  BY <1>1
<1>10. LoopOK'
  <2>1. script'.way = "find" => \A k \in stayed' : IsEqual(at[k], script.end)'
    BY <1>1, <1>4, <1>8, <1>9
  <2>2. QED
    BY <1>1, <1>2, <1>8, <1>9, <2>1 DEF LoopOK
<1>11. QED
  BY <1>7, <1>10 DEF IInv

\* Items from place k on move: those before k stay where they are, and a loop past k
\* has lost its place.
LEMMA ShiftStep ==
  ASSUME IInv, IsArray, NEW k \in 1 .. Count + 1, NEW items \in Seq(Items), Len(items) >= k - 1,
         \A j \in 1 .. k - 1 : items[j] = at[j],
         Shift(k, items)
  PROVE  IInv'
<1>1. /\ container' = [container EXCEPT !.at = items]
      /\ stayed' = { j \in stayed : j < k }
      /\ cut' = (cut \/ (script.pc = "loop" /\ k <= script.key))
      /\ UNCHANGED <<expired, script>>
  BY DEF Shift
<1>2. TypeOK /\ LoopOK /\ ContainerOK /\ container = [kind |-> container.kind, at |-> container.at]
  BY DEF IInv, TypeOK, ContainerOK
<1>3. /\ container' = [kind |-> container.kind, at |-> items]
      /\ container'.kind = container.kind /\ container'.at = items
  BY <1>1, <1>2
<1>4. at' = items /\ Keys' = DOMAIN items
  BY <1>3 DEF at, Keys
<1>5. ScriptOK' /\ IsArray' = IsArray
  BY <1>1, <1>2, <1>3, SameKind
<1>6. ContainerOK'
  BY <1>2, <1>3, <1>4, <1>5 DEF ContainerOK
<1>7. Keys = 1 .. Count /\ Count \in Nat
  BY <1>2, KeysProps
<1>8. /\ stayed' \subseteq stayed
      /\ \A j \in stayed' : j \in 1 .. k - 1 /\ items[j] = at[j] /\ j \in DOMAIN items
  BY <1>1, <1>2, <1>7 DEF TypeOK
<1>9. cut' \in BOOLEAN /\ (~cut' => ~cut)
  BY <1>1, <1>2 DEF TypeOK
<1>10. TypeOK'
  BY <1>1, <1>2, <1>4, <1>5, <1>6, <1>8, <1>9 DEF TypeOK
<1>11. /\ KeepsPlace' => KeepsPlace
       /\ \A i, j : IsEqual(i, j)' = IsEqual(i, j)
       /\ \A j : Passed(j)' = Passed(j)
  BY <1>1, <1>3, <1>5, <1>9 DEF KeepsPlace, IsEqual, AsItem, AsForm, AsKey, Passed
<1>12. LoopOK'
  <2>1. script'.way = "find" => \A j \in stayed' : IsEqual(at[j], script.end)'
    BY <1>1, <1>2, <1>4, <1>8, <1>11 DEF LoopOK
  <2>2. QED
    BY <1>1, <1>2, <1>8, <1>9, <1>11, <2>1 DEF LoopOK
<1>13. QED
  BY <1>10, <1>12 DEF IInv

\* A form that is deleted reads as None from then on, and items that were equal still are.
LEMMA DeletedStays ==
  ASSUME NEW f, expired' = expired \union {f}, UNCHANGED container
  PROVE  /\ \A i, j : AsForm(i) = AsForm(j) => AsForm(i)' = AsForm(j)'
         /\ \A i, j : AsKey(i) = AsKey(j) => AsKey(i)' = AsKey(j)'
<1>1. \A i : AsForm(i)' = IF AsForm(i) = f THEN 0 ELSE AsForm(i)
  <2>1. SUFFICES ASSUME NEW i PROVE AsForm(i)' = IF AsForm(i) = f THEN 0 ELSE AsForm(i)
    OBVIOUS
  <2>2. QED
    BY DEF AsForm
<1>2. QED
  BY <1>1 DEF AsKey

\* A form is deleted: the loop is where it was, or begins again.
LEMMA DeleteFormStep ==
  ASSUME IInv, NEW f \in Forms, DeleteForm(f)
  PROVE  IInv'
<1>1. expired' = expired \union {f} /\ UNCHANGED <<container, script, stayed, cut>>
  BY DEF DeleteForm
<1>2. TypeOK /\ LoopOK /\ ContainerOK
  BY DEF IInv, TypeOK
<1>3. IsArray' = IsArray /\ at' = at /\ Keys' = Keys
  BY <1>1 DEF IsArray, at, Keys
<1>4. ScriptOK'
  BY <1>1, <1>2, SameKind
<1>5. ContainerOK'
  BY <1>1, <1>2, <1>3 DEF ContainerOK
<1>6. TypeOK'
  BY <1>1, <1>2, <1>3, <1>4, <1>5 DEF TypeOK
<1>7. /\ \A i, j : AsForm(i) = AsForm(j) => AsForm(i)' = AsForm(j)'
      /\ \A i, j : AsKey(i) = AsKey(j) => AsKey(i)' = AsKey(j)'
  BY <1>1, DeletedStays
<1>8. \A k : Passed(k) => Passed(k)'
  BY <1>1, <1>3, <1>7 DEF Passed
<1>9. KeepsPlace' = KeepsPlace
  BY <1>1 DEF KeepsPlace
<1>10. script.way = "find" => \A k \in stayed : IsEqual(at[k], script.end)'
  <2>1. SUFFICES ASSUME script.way = "find", NEW k \in stayed PROVE IsEqual(at[k], script.end)'
    OBVIOUS
  <2>2. script # Idle
    BY <2>1 DEF Idle, Loop
  <2>3. at[k] \in Items /\ script.end \in Items
    <3>1. k \in Keys
      BY <1>2 DEF TypeOK
    <3>2. QED
      BY <1>2, <2>2, <3>1, KeysProps, LoopFields
  <2>4. PICK i, j : i = at[k] /\ j = script.end
    OBVIOUS
  <2>5. IsEqual(i, j) /\ i \in Items /\ j \in Items
    BY <1>2, <2>1, <2>3, <2>4 DEF LoopOK
  <2>6. AsItem(i)' = AsItem(j)'
    BY <1>7, <2>5 DEF IsEqual, AsItem, FormItem, Items
  <2>7. QED
    BY <1>1, <1>3, <2>4, <2>6 DEF IsEqual
<1>11. LoopOK'
  <2>1. script'.way = "find" => \A k \in stayed' : IsEqual(at[k], script.end)'
    BY <1>1, <1>10
  <2>2. QED
    BY <1>1, <1>2, <1>8, <1>9, <2>1 DEF LoopOK
<1>12. QED
  BY <1>6, <1>11 DEF IInv

-----------------------------------------------------------------------------
(* Steps of the loop *)

\* A loop begins: everything that matches is ahead of it.
LEMMA StartLoopStep ==
  ASSUME IInv, StartLoop
  PROVE  IInv'
<1>1. TypeOK /\ LoopOK /\ ContainerOK
  BY DEF IInv, TypeOK
<1>2. PICK way \in Ways : \E end \in Ends(way) :
        /\ script' = Loop("loop", way, IF IsArray THEN 0 ELSE end.value, end, <<>>)
        /\ stayed' = Matching(way, end, Keys)
  BY DEF StartLoop
<1>3. PICK end \in Ends(way) :
        /\ script' = Loop("loop", way, IF IsArray THEN 0 ELSE end.value, end, <<>>)
        /\ stayed' = Matching(way, end, Keys)
  BY <1>2
<1>4. cut' = FALSE /\ UNCHANGED <<container, expired>>
  BY DEF StartLoop
<1>5. /\ script'.pc = "loop" /\ script'.way = way /\ script'.end = end /\ script'.seen = <<>>
      /\ script'.key = IF IsArray THEN 0 ELSE end.value
  BY <1>3 DEF Loop
<1>6. IsArray' = IsArray /\ at' = at /\ Keys' = Keys /\ Ways' = Ways
  BY <1>4 DEF IsArray, at, Keys, Ways
<1>7. container.kind \in Kinds
  BY <1>1 DEF ContainerOK
<1>8. end \in Items /\ end.value \in Int
  <2>1. CASE way = "find"
    <3>1. end \in Values \union {FormItem(0)}
      BY <1>3, <2>1 DEF Ends
    <3>2. FormItem(0) \in Items
      BY DEF FormItem, Items, FormType
    <3>3. QED
      BY <3>1, <3>2, ValuesAreItems DEF Items
  <2>2. CASE way # "find"
    <3>1. KeysOf(container.kind) \subseteq Int /\ EndKeys \subseteq Int
      BY <1>7, ReadingAssumption DEF KeysOf, Kinds
    <3>2. way \in {"ipairs", "nextKey", "pairs"}
      BY <1>7, <2>2 DEF Ways, Kinds, IsArray
    <3>3. \E n \in Int : end = IntItem(n)
      BY <1>3, <3>1, <3>2 DEF Ends
    <3>4. QED
      BY <3>3 DEF IntItem, Items, Integer
  <2>3. QED
    BY <2>1, <2>2
<1>9. ScriptOK'
  <2>1. script' \in [pc : {"loop", "done"}, way : Ways', key : Int, end : Items, seen : Seq(Int)]
    BY <1>3, <1>6, <1>8 DEF Loop
  <2>2. (script.end \in Ends(script.way))'
    BY <1>3, <1>4, <1>5 DEF Ends
  <2>3. IsArray => script'.key \in Nat
    BY <1>5
  <2>4. QED
    BY <1>6, <2>1, <2>2, <2>3 DEF ScriptOK
<1>10. ContainerOK'
  BY <1>1, <1>4, <1>6 DEF ContainerOK
<1>11. stayed' \subseteq Keys /\ (way = "find" => \A k \in stayed' : IsEqual(at[k], end))
  BY <1>3 DEF Matching
<1>12. TypeOK'
  BY <1>1, <1>4, <1>6, <1>9, <1>10, <1>11 DEF TypeOK
<1>13. script'.way = "find" => \A k \in stayed' : IsEqual(at[k], script.end)'
  BY <1>4, <1>5, <1>6, <1>11 DEF IsEqual, AsItem, AsForm
<1>14. ~Passed(script.key)' => \A k \in stayed' : k > script'.key
  <2>1. CASE IsArray
    <3>1. Keys = 1 .. Count /\ Count \in Nat
      BY <1>1, <2>1, KeysProps
    <3>2. QED
      BY <1>5, <1>11, <2>1, <3>1
  <2>2. CASE ~IsArray
    BY <1>4, <1>5, <1>6, <2>2 DEF Passed, AsKey, AsForm
  <2>3. QED
    BY <2>1, <2>2
<1>15. LoopOK'
  BY <1>5, <1>13, <1>14 DEF LoopOK
<1>16. QED
  BY <1>12, <1>15 DEF IInv

\* A loop that is over is left.
LEMMA EndLoopStep ==
  ASSUME IInv, EndLoop
  PROVE  IInv'
<1>1. script' = Idle /\ stayed' = {} /\ cut' = FALSE /\ UNCHANGED <<container, expired>>
  BY DEF EndLoop
<1>2. IsArray' = IsArray /\ at' = at /\ Keys' = Keys
  BY <1>1 DEF IsArray, at, Keys
<1>3. ContainerOK'
  BY <1>1, <1>2 DEF IInv, TypeOK, ContainerOK
<1>4. ScriptOK'
  BY <1>1 DEF ScriptOK, Idle
<1>5. TypeOK'
  BY <1>1, <1>2, <1>3, <1>4 DEF IInv, TypeOK
<1>6. LoopOK'
  BY <1>1 DEF LoopOK, Idle, Loop
<1>7. QED
  BY <1>5, <1>6 DEF IInv

\* A loop whose place is not lost goes on with the first key that it must not miss.
LEMMA NextIsFirstWanted ==
  ASSUME TypeOK, script.pc = "loop", KeepsPlace, ~LuaLost,
         IsArray \/ Begins(script) \/ FindIterator(script.key) = {script.key},
         ~(script.way = "pairs" /\ \E k \in NextKey(script.key) : AsKey(k) = 0)
  PROVE  FirstWanted(NextOf(script))
<1>1. script # Idle /\ container.kind \in Kinds
  BY DEF TypeOK, ContainerOK, Idle, Loop
<1>2. CASE IsArray
  BY <1>2, NextOfArray
<1>3. CASE ~IsArray
  <2>1. script.way \in {"nextKey", "pairs"} /\ (container.kind = "integer_map" => script.way = "nextKey")
    BY <1>1, <1>3, LoopFields
  <2>2. CASE script.way = "nextKey" /\ container.kind # "map"
    <3>1. container.kind \in {"integer_map", "form_map"}
      BY <1>1, <1>3, <2>2 DEF Kinds, IsArray
    <3>2. Begins(script) <=> Passed(script.key)
      BY BeginsIsPassed
    <3>3. QED
      BY <1>3, <2>2, <3>1, <3>2, NextOfPapyrusMap
  <2>3. CASE script.way = "pairs" \/ container.kind = "map"
    <3>1. container.kind \in {"map", "form_map"}
      BY <1>1, <1>3, <2>1, <2>3 DEF Kinds, IsArray
    <3>2. QED
      BY <1>3, <2>3, <3>1, NextOfNextKey
  <2>4. QED
    BY <2>1, <2>2, <2>3
<1>4. QED
  BY <1>2, <1>3

\* A sequence with one more element at its end.
LEMMA AppendKey ==
  ASSUME NEW s \in Seq(Int), NEW m \in Int
  PROVE  /\ Append(s, m) \in Seq(Int) /\ Len(Append(s, m)) = Len(s) + 1
         /\ \A n \in 1 .. Len(s) : Append(s, m)[n] = s[n]
         /\ Append(s, m)[Len(s) + 1] = m
         /\ \A k : k \in Range(s) \/ k = m <=> k \in Range(Append(s, m))
<1>1. /\ Append(s, m) \in Seq(Int) /\ Len(Append(s, m)) = Len(s) + 1 /\ Len(s) \in Nat
      /\ \A n \in 1 .. Len(s) : Append(s, m)[n] = s[n]
      /\ Append(s, m)[Len(s) + 1] = m
  OBVIOUS
<1>2. DOMAIN s = 1 .. Len(s) /\ DOMAIN Append(s, m) = 1 .. Len(s) + 1
  BY <1>1
<1>3. PICK r : r = Append(s, m)
  OBVIOUS
<1>4. \A n \in 1 .. Len(s) + 1 : n \in 1 .. Len(s) \/ n = Len(s) + 1
  BY <1>1
<1>5. 1 .. Len(s) \subseteq 1 .. Len(s) + 1 /\ Len(s) + 1 \in 1 .. Len(s) + 1
  BY <1>1
<1>6. ASSUME NEW k PROVE k \in Range(s) \/ k = m <=> k \in Range(r)
  BY Zenon, <1>1, <1>2, <1>3, <1>4, <1>5 DEF Range
<1>7. QED
  BY <1>1, <1>3, <1>6

\* The loop goes on: with its place not lost, nothing that stayed is left behind.
LEMMA AdvanceStep ==
  ASSUME IInv, Advance
  PROVE  IInv'
<1> DEFINE next == IF LuaLost THEN {} ELSE NextOf(script)
           seen == script.seen
           ends == next = {} \/ Passed(Only(next))
<1>1. /\ script.pc = "loop"
      /\ ends => script' = [script EXCEPT !.pc = "done"]
      /\ ~ends => script' = [script EXCEPT !.key = Only(next), !.seen = Append(seen, Only(next))]
      /\ cut' = \/ cut
                \/ LuaLost
                \/ ~IsArray /\ ~Begins(script) /\ FindIterator(script.key) # {script.key}
                \/ script.way = "pairs" /\ \E k \in NextKey(script.key) : AsKey(k) = 0
      /\ UNCHANGED <<container, expired, stayed>>
  BY DEF Advance, Passed
<1>2. TypeOK /\ LoopOK /\ ContainerOK /\ script # Idle
  BY <1>1 DEF IInv, TypeOK, Idle, Loop
<1>3. /\ script \in [pc : {"loop", "done"}, way : Ways, key : Int, end : Items, seen : Seq(Int)]
      /\ script.end \in Ends(script.way)
  BY <1>2 DEF TypeOK, ScriptOK
<1>4. IsArray' = IsArray /\ at' = at /\ Keys' = Keys /\ Ways' = Ways
  BY <1>1 DEF IsArray, at, Keys, Ways
<1>5. next = {} \/ \E m \in Keys : next = {m}
  BY <1>1, <1>2, NextOfKeys
<1>6. Keys \subseteq Int /\ (IsArray => Keys \subseteq Nat)
  BY <1>2, KeysProps
<1>7. seen \in Seq(Int)
  BY <1>3
<1> HIDE DEF next, seen
<1>8. ASSUME ~ends
      PROVE  \E m \in Keys : /\ next = {m}
                             /\ script' = [script EXCEPT !.key = m, !.seen = Append(seen, m)]
  <2>1. PICK m \in Keys : next = {m}
    BY <1>5, <1>8
  <2>2. Only(next) = m
    BY <2>1, OnlyMember
  <2>3. QED
    BY <1>1, <1>8, <2>1, <2>2
<1>9. /\ script' \in [pc : {"loop", "done"}, way : Ways, key : Int, end : Items, seen : Seq(Int)]
      /\ script'.way = script.way /\ script'.end = script.end
      /\ IsArray => script'.key \in Nat
  <2>1. CASE ends
    <3>1. IsArray => script.key \in Nat
      BY <1>2, LoopFields
    <3>2. QED
      BY <1>1, <1>3, <2>1, <3>1
  <2>2. CASE ~ends
    <3>1. PICK m \in Keys : script' = [script EXCEPT !.key = m, !.seen = Append(seen, m)]
      BY <1>8, <2>2
    <3>2. m \in Int /\ (IsArray => m \in Nat) /\ Append(seen, m) \in Seq(Int)
      BY <1>6, <1>7
    <3>3. QED
      BY <1>3, <3>1, <3>2
  <2>3. QED
    BY <2>1, <2>2
<1>10. ScriptOK'
  <2>1. (script.end \in Ends(script.way))'
    BY <1>1, <1>3, <1>9 DEF Ends
  <2>2. QED
    BY <1>4, <1>9, <2>1 DEF ScriptOK
<1>11. ContainerOK'
  BY <1>1, <1>2, <1>4 DEF ContainerOK
<1>12. cut' \in BOOLEAN
  BY <1>1, <1>2 DEF TypeOK
<1>13. TypeOK'
  BY <1>1, <1>2, <1>4, <1>10, <1>11, <1>12 DEF TypeOK
<1>14. (\A k : Passed(k)' = Passed(k)) /\ (KeepsPlace' => ~cut' /\ KeepsPlace)
  BY <1>1, <1>4, <1>9 DEF Passed, AsKey, AsForm, KeepsPlace
<1>15. script'.way = "find" => \A k \in stayed' : IsEqual(at[k], script.end)'
  BY <1>1, <1>2, <1>4, <1>9 DEF LoopOK, IsEqual, AsItem, AsForm
<1>16. ASSUME KeepsPlace'
       PROVE  next = NextOf(script) /\ FirstWanted(next)
  <2>1. ~cut' /\ KeepsPlace
    BY <1>14, <1>16
  <2>2. ~LuaLost /\ next = NextOf(script)
    BY <1>1, <2>1 DEF next
  <2>3. IsArray \/ Begins(script) \/ FindIterator(script.key) = {script.key}
    BY <1>1, <2>1
  <2>4. ~(script.way = "pairs" /\ \E k \in NextKey(script.key) : AsKey(k) = 0)
    BY <1>1, <2>1
  <2>5. FirstWanted(NextOf(script))
    BY <1>1, <1>2, <2>1, <2>2, <2>3, <2>4, NextIsFirstWanted
  <2>6. QED
    BY <2>2, <2>5
<1>17. ASSUME KeepsPlace'
       PROVE  \A k \in stayed : k \in Wanted \/ Passed(k) \/ (~Passed(script.key) /\ k \in Range(script.seen))
  <2>1. stayed \subseteq Keys /\ KeepsPlace
    BY <1>2, <1>14, <1>17 DEF TypeOK
  <2>2. \A k \in stayed : k \in Ahead => k \in Wanted \/ Passed(k)
    BY <1>2 DEF LoopOK, Wanted
  <2>3. QED
    BY <1>1, <1>2, <2>1, <2>2 DEF LoopOK, Ahead
<1>18. CASE ends
  <2>1. script'.pc = "done" /\ script'.seen = script.seen
    BY <1>1, <1>3, <1>18
  <2>2. KeepsPlace' => Wanted = {}
    <3>1. \A m : next = {m} => Only(next) = m
      BY OnlyMember
    <3>2. QED
      BY <1>16, <1>18, <3>1 DEF FirstWanted
  <2>3. LoopOK'
    BY <1>1, <1>2, <1>14, <1>15, <1>17, <2>1, <2>2 DEF LoopOK
  <2>4. QED
    BY <1>13, <2>3 DEF IInv
<1>19. CASE ~ends
  <2>1. PICK m \in Keys : /\ next = {m}
                          /\ script' = [script EXCEPT !.key = m, !.seen = Append(seen, m)]
    BY <1>8, <1>19
  <2>2. PICK s : s = Append(seen, m)
    OBVIOUS
  <2>3. script'.pc = "loop" /\ script'.key = m /\ script'.seen = s
    BY <1>1, <1>3, <2>1, <2>2
  <2>4. m \in Int /\ Len(seen) \in Nat
    BY <1>6, <1>7
  <2>5. /\ Len(s) = Len(seen) + 1
        /\ \A n \in 1 .. Len(seen) : s[n] = seen[n]
        /\ s[Len(seen) + 1] = m
        /\ \A k : k \in Range(seen) \/ k = m <=> k \in Range(s)
    BY <1>7, <2>2, <2>4, AppendKey
  <2>6. s[Len(s)] = m
    BY <2>5
  <2>7. ASSUME KeepsPlace', NEW n \in 2 .. Len(s) PROVE s[n - 1] < s[n] \/ Passed(s[n - 1])
    <3>1. CASE n \in 2 .. Len(seen)
      <4>1. seen[n - 1] < seen[n] \/ Passed(seen[n - 1])
        BY <1>2, <1>14, <2>7, <3>1 DEF LoopOK, seen
      <4>2. s[n - 1] = seen[n - 1] /\ s[n] = seen[n]
        BY <2>4, <2>5, <3>1
      <4>3. QED
        BY <4>1, <4>2
    <3>2. CASE n = Len(seen) + 1
      <4>1. seen # <<>> /\ Len(seen) \in 1 .. Len(seen)
        BY <2>4, <2>5, <2>7, <3>2
      <4>2. s[n] = m /\ s[n - 1] = seen[Len(seen)]
        BY <2>4, <2>5, <3>2, <4>1
      <4>3. seen[Len(seen)] = script.key
        BY <1>1, <1>2, <4>1 DEF LoopOK, seen
      <4>4. Passed(script.key) \/ script.key < m
        BY <1>3, <1>16, <2>1, <2>4, <2>7 DEF FirstWanted, Ahead
      <4>5. QED
        BY <4>2, <4>3, <4>4
    <3>3. QED
      BY <2>4, <2>5, <2>7, <3>1, <3>2
  <2>8. ASSUME KeepsPlace', NEW k \in stayed PROVE Passed(k) \/ k \in Range(s) \/ k > m
    <3>1. k \in Int
      BY <1>2, <1>6 DEF TypeOK
    <3>2. CASE k \in Wanted
      <4>1. m <= k
        BY <1>16, <2>1, <2>8, <3>2 DEF FirstWanted
      <4>2. QED
        BY <2>4, <2>5, <3>1, <4>1
    <3>3. CASE k \in Range(script.seen)
      BY <2>5, <3>3 DEF seen
    <3>4. QED
      BY <1>17, <2>8, <3>2, <3>3
  <2>9. LoopOK'
    BY <1>1, <1>14, <1>15, <2>3, <2>6, <2>7, <2>8 DEF LoopOK
  <2>10. QED
    BY <1>13, <2>9 DEF IInv
<1>20. QED
  BY <1>18, <1>19

-----------------------------------------------------------------------------
(* Every step *)

\* An item of a map is set.
LEMMA SetItemStep ==
  ASSUME IInv, NEW k \in KeysOf(container.kind), NEW value \in Items, SetItem(k, value)
  PROVE  IInv'
<1> DEFINE items == [j \in Keys \union {k} |-> IF j = k THEN value ELSE at[j]]
<1>1. ~IsArray /\ Become(items)
  BY DEF SetItem
<1>2. ContainerOK
  BY DEF IInv, TypeOK
<1>3. \A j \in Keys : at[j] \in Items
  BY <1>2, KeysProps
<1>4. items \in [DOMAIN items -> Items] /\ DOMAIN items = Keys \union {k}
  BY <1>3
<1>5. Keys \subseteq KeysOf(container.kind) /\ IsFiniteSet(Keys)
  BY <1>1, <1>2 DEF ContainerOK
<1>6. IsFiniteSet(Keys \union {k})
  BY <1>5, FS_AddElement
<1>7. QED
  <2> HIDE DEF items
  <2>1. QED
    BY <1>1, <1>4, <1>5, <1>6, BecomeStep

\* A key of a map is removed.
LEMMA RemoveKeyStep ==
  ASSUME IInv, NEW k, RemoveKey(k)
  PROVE  IInv'
<1> DEFINE items == [j \in Keys \ {k} |-> at[j]]
<1>1. ~IsArray /\ Become(items)
  BY DEF RemoveKey
<1>2. ContainerOK
  BY DEF IInv, TypeOK
<1>3. \A j \in Keys : at[j] \in Items
  BY <1>2, KeysProps
<1>4. items \in [DOMAIN items -> Items] /\ DOMAIN items = Keys \ {k}
  BY <1>3
<1>5. Keys \subseteq KeysOf(container.kind) /\ IsFiniteSet(Keys)
  BY <1>1, <1>2 DEF ContainerOK
<1>6. IsFiniteSet(Keys \ {k})
  BY <1>5, FS_RemoveElement
<1>7. QED
  <2> HIDE DEF items
  <2>1. QED
    BY <1>1, <1>4, <1>5, <1>6, BecomeStep

\* An index that a script may give is a place in the array, or past it.
LEMMA IndexesProps ==
  ASSUME ContainerOK, IsArray, NEW index \in Indexes
  PROVE  /\ PlacesAt(index) \subseteq 1 .. Count
         /\ PlacesAt(LuaIndex(index)) \subseteq 1 .. Count
         /\ ConvertWriteIndex(Count, index) \subseteq 0 .. Count
         /\ index \in Int
<1>1. Count \in Nat /\ MaxCount \in Nat
  BY KeysProps, ReadingAssumption
<1>2. index \in Int /\ -index <= Count
  BY <1>1 DEF Indexes
<1>3. QED
  BY <1>1, <1>2 DEF PlacesAt, LuaIndex, ConvertReadIndex, ConvertWriteIndex

\* An item of an array is replaced.
LEMMA ReplaceItemStep ==
  ASSUME IInv, NEW k \in 1 .. Count, NEW value \in Items, IsArray, Become([at EXCEPT ![k] = value])
  PROVE  IInv'
<1>1. ContainerOK
  BY DEF IInv, TypeOK
<1>2. at \in Seq(Items) /\ k \in 1 .. Len(at)
  BY <1>1, KeysProps DEF ContainerOK
<1>3. PICK items : items = [at EXCEPT ![k] = value]
  OBVIOUS
<1>4. items \in Seq(Items)
  <2>1. PICK s : s = at
    OBVIOUS
  <2>2. s \in Seq(Items) /\ k \in 1 .. Len(s)
    BY <1>2, <2>1
  <2>3. [s EXCEPT ![k] = value] \in Seq(Items)
    BY <2>2, ExceptSeq
  <2>4. QED
    BY <1>3, <2>1, <2>3
<1>5. QED
  BY <1>3, <1>4, BecomeStep

\* An item is inserted into an array.
LEMMA InsertStep ==
  ASSUME IInv, NEW index \in Indexes, NEW value \in Items, Insert(index, value)
  PROVE  IInv'
<1>1. ContainerOK /\ IsArray
  BY DEF IInv, TypeOK, Insert
<1>2. PICK i \in ConvertWriteIndex(Count, index) : Shift(i + 1, InsertAt(at, i + 1, value))
  BY DEF Insert
<1>3. i \in 0 .. Count /\ Count \in Nat /\ Count = Len(at) /\ at \in Seq(Items)
  BY <1>1, IndexesProps, KeysProps DEF ContainerOK
<1>4. PICK s, k : s = at /\ k = i + 1
  OBVIOUS
<1>5. s \in Seq(Items) /\ k \in 1 .. Len(s) + 1
  BY <1>3, <1>4
<1>6. PICK items : items = InsertAt(s, k, value)
  OBVIOUS
<1>7. /\ items \in Seq(Items) /\ Len(items) = Len(s) + 1
      /\ \A j \in 1 .. Len(s) + 1 : items[j] = IF j < k THEN s[j] ELSE IF j = k THEN value ELSE s[j - 1]
  <2>1. PICK S : S = Items
    OBVIOUS
  <2>2. s \in Seq(S) /\ value \in S /\ k \in 1 .. Len(s) + 1
    BY <1>5, <2>1
  <2>3. /\ InsertAt(s, k, value) \in Seq(S) /\ Len(InsertAt(s, k, value)) = Len(s) + 1
        /\ \A j \in 1 .. Len(s) + 1 :
             InsertAt(s, k, value)[j] = IF j < k THEN s[j] ELSE IF j = k THEN value ELSE s[j - 1]
    BY <2>2, InsertAtProps
  <2>4. QED
    BY Zenon, <1>6, <2>1, <2>3
<1>8. k \in 1 .. Count + 1 /\ Len(items) >= k - 1 /\ \A j \in 1 .. k - 1 : items[j] = at[j]
  BY <1>3, <1>4, <1>5, <1>7
<1>9. Shift(k, items)
  BY <1>2, <1>4, <1>6
<1>10. QED
  BY <1>1, <1>7, <1>8, <1>9, ShiftStep

\* An item of an array is removed.
LEMMA EraseIndexStep ==
  ASSUME IInv, NEW index \in Indexes, EraseIndex(index)
  PROVE  IInv'
<1>1. ContainerOK /\ IsArray
  BY DEF IInv, TypeOK, EraseIndex
<1>2. PICK k \in PlacesAt(index) : Shift(k, RemoveAt(at, k))
  BY DEF EraseIndex
<1>3. k \in 1 .. Count /\ Count \in Nat /\ Count = Len(at) /\ at \in Seq(Items)
  BY <1>1, IndexesProps, KeysProps DEF ContainerOK
<1>4. PICK s : s = at
  OBVIOUS
<1>5. s \in Seq(Items) /\ k \in 1 .. Len(s)
  BY <1>3, <1>4
<1>6. PICK items : items = RemoveAt(s, k)
  OBVIOUS
<1>7. /\ items \in Seq(Items) /\ Len(items) = Len(s) - 1
      /\ \A j \in 1 .. Len(s) - 1 : items[j] = IF j < k THEN s[j] ELSE s[j + 1]
  BY <1>5, <1>6, RemoveAtProps
<1>8. k \in 1 .. Count + 1 /\ Len(items) >= k - 1 /\ \A j \in 1 .. k - 1 : items[j] = at[j]
  BY <1>3, <1>4, <1>5, <1>7
<1>9. Shift(k, items)
  BY <1>2, <1>4, <1>6
<1>10. QED
  BY <1>1, <1>7, <1>8, <1>9, ShiftStep

\* Every step keeps the invariant.
LEMMA IInvStep ==
  ASSUME IInv, [Next]_vars
  PROVE  IInv'
<1>0. ContainerOK
  BY DEF IInv, TypeOK
<1>1. CASE StartLoop
  BY <1>1, StartLoopStep
<1>2. CASE Advance
  BY <1>2, AdvanceStep
<1>3. CASE EndLoop
  BY <1>3, EndLoopStep
<1>4. ASSUME NEW v \in Values, NEW k \in KeysOf(container.kind), SetItem(k, v) \/ LuaSetKey(k, v)
      PROVE  IInv'
  <2>1. v \in Items /\ FromLua(v) \in Items
    BY ValuesAreItems
  <2>2. SetItem(k, v) \/ SetItem(k, FromLua(v)) \/ RemoveKey(k)
    BY <1>4 DEF LuaSetKey
  <2>3. PICK w : w = FromLua(v)
    OBVIOUS
  <2>4. QED
    BY <2>1, <2>2, <2>3, SetItemStep, RemoveKeyStep
<1>5. ASSUME NEW v \in Values, NEW i \in Indexes,
             Insert(i, v) \/ ReplaceItem(i, v) \/ LuaSetIndex(i, v)
      PROVE  IInv'
  <2>1. v \in Items /\ FromLua(v) \in Items
    BY ValuesAreItems
  <2>2. CASE Insert(i, v)
    BY <2>1, <2>2, InsertStep
  <2>3. CASE ReplaceItem(i, v)
    <3>1. PICK k \in PlacesAt(i) : IsArray /\ Become([at EXCEPT ![k] = v])
      BY <2>3 DEF ReplaceItem
    <3>2. k \in 1 .. Count
      BY <1>0, <3>1, IndexesProps
    <3>3. QED
      BY <2>1, <3>1, <3>2, ReplaceItemStep
  <2>4. CASE LuaSetIndex(i, v)
    <3>1. PICK k \in PlacesAt(LuaIndex(i)) : IsArray /\ Become([at EXCEPT ![k] = FromLua(v)])
      BY <2>4 DEF LuaSetIndex, ReplaceItem
    <3>2. k \in 1 .. Count
      BY <1>0, <3>1, IndexesProps
    <3>3. PICK w : w = FromLua(v)
      OBVIOUS
    <3>4. QED
      BY <2>1, <3>1, <3>2, <3>3, ReplaceItemStep
  <2>5. QED
    BY <1>5, <2>2, <2>3, <2>4
<1>6. ASSUME NEW k \in KeysOf(container.kind), RemoveKey(k) PROVE IInv'
  BY <1>6, RemoveKeyStep
<1>7. ASSUME NEW i \in Indexes, EraseIndex(i) PROVE IInv'
  BY <1>7, EraseIndexStep
<1>8. ASSUME NEW f \in Forms, DeleteForm(f) PROVE IInv'
  BY <1>8, DeleteFormStep
<1>9. CASE UNCHANGED vars
  <2>1. UNCHANGED <<container, expired, script, stayed, cut>>
    BY <1>9 DEF vars
  <2>2. IsArray' = IsArray /\ at' = at /\ Keys' = Keys
    BY <2>1 DEF IsArray, at, Keys
  <2>3. TypeOK /\ LoopOK
    BY DEF IInv
  <2>4. ScriptOK'
    BY <2>1, <2>3, SameKind
  <2>5. ContainerOK'
    BY <1>0, <2>1, <2>2 DEF ContainerOK
  <2>6. TypeOK'
    BY <2>1, <2>2, <2>3, <2>4, <2>5 DEF TypeOK
  <2>7. LoopOK'
    BY <2>1, <2>2, <2>3 DEF LoopOK, KeepsPlace, Passed, IsEqual, AsItem, AsForm, AsKey
  <2>8. QED
    BY <2>6, <2>7 DEF IInv
<1>10. QED
  BY <1>1, <1>2, <1>3, <1>4, <1>5, <1>6, <1>7, <1>8, <1>9 DEF Next

\* A container is new at first, and no loop runs.
LEMMA IInvInit ==
  ASSUME Init
  PROVE  IInv
<1>1. PICK kind \in Kinds : container = New(kind)
  BY DEF Init, Kinds
<1>2. container = [kind |-> kind, at |-> <<>>] /\ container.kind = kind /\ at = <<>> /\ Keys = {}
  BY <1>1 DEF New, at, Keys
<1>3. expired = {} /\ script = Idle /\ stayed = {} /\ cut = FALSE
  BY DEF Init
<1>4. IsFiniteSet({}) /\ <<>> \in [{} -> Items]
  BY FS_EmptySet
<1>5. ContainerOK
  BY <1>2, <1>4 DEF ContainerOK
<1>6. TypeOK
  BY <1>3, <1>5 DEF TypeOK, ScriptOK
<1>7. LoopOK
  BY <1>3 DEF LoopOK, Idle, Loop
<1>8. QED
  BY <1>6, <1>7 DEF IInv

\* The type invariant, and what a loop has seen, hold always.
THEOREM Invariant == Spec => []IInv
<1>1. Init => IInv
  BY IInvInit
<1>2. IInv /\ [Next]_vars => IInv'
  BY IInvStep
<1>3. QED
  BY <1>1, <1>2, PTL DEF Spec

\* A loop that was over when the container had no further key for it was given every key
\* that was there, and matched, all along, in order until the form it was at was deleted
\* and it began again: what it was given goes up to where it is, or all is ahead of it,
\* and at its end nothing is left ahead.
THEOREM NothingStayingMissed == Spec => []IterationsVisitStaying
<1>1. IInv => IterationsVisitStaying
  BY DEF IInv, LoopOK, KeepsPlace, IterationsVisitStaying, Passed
<1>2. QED
  BY <1>1, Invariant, PTL

-----------------------------------------------------------------------------
(* What is read at once *)

\* Reading what was read changes nothing.
LEMMA ReadAgain ==
  ASSUME NEW i \in Items, NEW t \in Types
  PROVE  /\ ReadAs(t, AsItem(i)) = ReadAs(t, i)
         /\ ReadAs(t, Null) = Default(t)
         /\ i.type = t => ReadAs(t, i) = AsItem(i)
         /\ AsItem(i).type = i.type /\ AsItem(i) = [type |-> i.type, value |-> AsItem(i).value]
         /\ AsItem(AsItem(i)) = AsItem(i)
<1>1. i = [type |-> i.type, value |-> i.value] /\ t \in {2, 3, 4, 5, 6}
  BY DEF Items, Types, Integer, Real, FormType, Object, String
<1>2. AsForm(AsForm(i.value)) = AsForm(i.value)
  BY DEF AsForm
<1>3. CASE i.type = FormType
  <2>1. AsItem(i) = [type |-> FormType, value |-> AsForm(i.value)]
    BY <1>3 DEF AsItem, FormItem
  <2>2. AsItem([type |-> FormType, value |-> AsForm(i.value)])
          = [type |-> FormType, value |-> AsForm(AsForm(i.value))]
    BY DEF AsItem, FormItem
  <2>3. QED
    BY <1>1, <1>2, <1>3, <2>1, <2>2
       DEF ReadAs, Null, Default, IsNumber, NullType, Integer, Real, FormType, Object, String
<1>4. CASE i.type # FormType
  <2>1. AsItem(i) = i
    BY <1>4 DEF AsItem
  <2>2. QED
    BY <1>1, <1>4, <2>1
       DEF ReadAs, Null, Default, IsNumber, NullType, Integer, Real, FormType, Object, String
<1>5. QED
  BY <1>3, <1>4

\* An array item by item.
LEMMA ArrayItemsAgree ==
  ASSUME ContainerOK, IsArray, NEW t \in Types, NEW k \in Keys
  PROVE  /\ ItemAtIndex(t, k - 1, Default(t)) = AllItems(t)[k]
         /\ ItemAtIndex(t, k - 1 - Count, Default(t)) = AllItems(t)[k]
         /\ ReadAs(t, LuaAt(k)) = AllItems(t)[k] /\ LuaAt(k - 1 - Count) = LuaAt(k)
         /\ LuaAt(k) = AsItem(at[k])
<1>1. Keys = 1 .. Count /\ Count \in Nat /\ at[k] \in Items
  BY KeysProps
<1>2. PICK a, b : a = k - 1 /\ b = k - 1 - Count
  OBVIOUS
<1>3. a \in 0 .. Count - 1 /\ b \in Int /\ b < 0 /\ -b <= Count /\ a + 1 = k /\ Count + b + 1 = k
  BY <1>1, <1>2
<1>4. PlacesAt(a) = {k} /\ PlacesAt(b) = {k}
  BY <1>1, <1>3, PlacesAtProps
<1>5. LuaIndex(k) = a /\ LuaIndex(b) = b
  BY <1>1, <1>2, <1>3 DEF LuaIndex
<1>6. Only({k}) = k /\ Only({at[k]}) = at[k]
  BY OnlyMember
<1>7. AllItems(t)[k] = ReadAs(t, at[k])
  BY DEF AllItems
<1>8. ItemAtIndex(t, a, Default(t)) = ReadAs(t, at[k]) /\ ItemAtIndex(t, b, Default(t)) = ReadAs(t, at[k])
  BY <1>4, <1>6 DEF ItemAtIndex
<1>9. LuaAt(k) = AsItem(at[k]) /\ LuaAt(b) = AsItem(at[k])
  <2>1. { at[j] : j \in {k} } = {at[k]}
    OBVIOUS
  <2>2. LuaAt(k) = LuaValue({at[k]}) /\ LuaAt(b) = LuaValue({at[k]})
    BY Zenon, <1>4, <1>5, <2>1 DEF LuaAt
  <2>3. QED
    BY <1>6, <2>2 DEF LuaValue
<1>10. ReadAs(t, AsItem(at[k])) = ReadAs(t, at[k])
  BY <1>1, ReadAgain
<1>11. QED
  BY Zenon, <1>2, <1>7, <1>8, <1>9, <1>10

\* A search backwards from the last item.
LEMMA FindValBackward ==
  ASSUME ContainerOK, IsArray, Count > 0, NEW value
  PROVE  LET hits == { k \in Keys : IsEqual(at[k], value) }
         IN  FindVal(value, -1) = IF hits = {} THEN -1 ELSE Max(hits)
<1>1. Keys = 1 .. Count /\ Count \in Nat
  BY KeysProps
<1> DEFINE all == { k \in Keys : IsEqual(at[k], value) }
           from == Only(PlacesAt(-1))
<1>2. PlacesAt(-1) = {Count}
  <2>1. PICK i : i = -1
    OBVIOUS
  <2>2. PlacesAt(i) = {Count + i + 1}
    BY <1>1, <2>1, PlacesAtProps
  <2>3. QED
    BY <1>1, <2>1, <2>2
<1>3. from = Count
  BY <1>2, OnlyMember
<1>4. { k \in all : k <= from } = all
  BY <1>1, <1>3
<1>5. FindVal(value, -1) = IF { k \in all : k <= from } = {} THEN -1 ELSE Max({ k \in all : k <= from })
  BY <1>2 DEF FindVal
<1>6. QED
  BY <1>4, <1>5

\* A search from a place on stays there if the item there is equal, and only then.
LEMMA FindValThere ==
  ASSUME ContainerOK, IsArray, NEW v, NEW k \in Keys
  PROVE  FindVal(v, k - 1) = k - 1 <=> IsEqual(at[k], v)
<1>1. Keys = 1 .. Count /\ Count \in Nat
  BY KeysProps
<1>2. PICK start \in Nat : start = k - 1
  BY <1>1
<1>3. PICK ahead : ahead = { j \in Keys : j > start /\ IsEqual(at[j], v) }
  OBVIOUS
<1>4. FindVal(v, start) = IF ahead = {} THEN -1 ELSE Min(ahead) - 1
  BY <1>3, FindValForward
<1>5. ahead \in SUBSET Keys /\ \A j \in ahead : j \in Int /\ j >= k
  BY <1>1, <1>2, <1>3
<1>6. k \in ahead <=> IsEqual(at[k], v)
  BY <1>1, <1>2, <1>3
<1>7. CASE ahead = {}
  BY <1>1, <1>2, <1>4, <1>6, <1>7
<1>8. CASE ahead # {}
  <2>1. PICK m : m = Min(ahead)
    OBVIOUS
  <2>2. m \in ahead /\ \A j \in ahead : m <= j
    BY <1>5, <1>8, <2>1, MinProps
  <2>3. FindVal(v, start) = m - 1 /\ m \in Int /\ k \in Int
    BY <1>1, <1>4, <1>5, <1>8, <2>1, <2>2
  <2>4. m = k <=> k \in ahead
    BY <1>5, <2>2, <2>3
  <2>5. m - 1 = k - 1 <=> m = k
    BY <2>3
  <2>6. QED
    BY Zenon, <1>2, <1>6, <2>3, <2>4, <2>5
<1>9. QED
  BY <1>7, <1>8

\* A search tells what is counted, from the front, from the back and from each place on.
LEMMA SearchesAgree ==
  ASSUME ContainerOK, IsArray, NEW v
  PROVE  /\ FindVal(v, 0) = -1 <=> CountItem(v) = 0
         /\ FindVal(v, -1) = -1 <=> CountItem(v) = 0
         /\ FindVal(v, 0) # -1 => IsEqual(LuaAt(FindVal(v, 0) + 1), v)
         /\ CountItem(v) = Cardinality({ k \in Keys : FindVal(v, k - 1) = k - 1 })
<1>1. Keys = 1 .. Count /\ Count \in Nat /\ IsFiniteSet(Keys)
  BY KeysProps
<1> DEFINE hits == { k \in Keys : IsEqual(at[k], v) }
           hits0 == { k \in Keys : k > 0 /\ IsEqual(at[k], v) }
<1>2. hits0 = hits
  BY <1>1
<1>3. FindVal(v, 0) = IF hits = {} THEN -1 ELSE Min(hits) - 1
  <2>1. PICK start \in Nat : start = 0
    OBVIOUS
  <2>2. FindVal(v, start) = IF { k \in Keys : k > start /\ IsEqual(at[k], v) } = {} THEN -1
                            ELSE Min({ k \in Keys : k > start /\ IsEqual(at[k], v) }) - 1
    BY FindValForward
  <2>3. QED
    BY Zenon, <1>2, <2>1, <2>2
<1>4. CountItem(v) = Cardinality(hits)
  BY DEF CountItem
<1>5. hits \in SUBSET Keys
  OBVIOUS
<1>6. Count > 0 => FindVal(v, -1) = IF hits = {} THEN -1 ELSE Max(hits)
  BY FindValBackward
<1>7. Count = 0 => FindVal(v, -1) = -1
  BY DEF FindVal, PlacesAt, ConvertReadIndex
<1>8. { k \in Keys : FindVal(v, k - 1) = k - 1 } = hits
  BY FindValThere
<1>9. \A k \in hits : IsEqual(at[k], v)
  OBVIOUS
<1> HIDE DEF hits
<1>10. IsFiniteSet(hits)
  BY <1>1, <1>5, FS_Subset
<1>11. Cardinality(hits) = 0 <=> hits = {}
  BY <1>10, FS_EmptySet
<1>12. CASE hits = {}
  <2>1. FindVal(v, 0) = -1 /\ FindVal(v, -1) = -1
    BY <1>1, <1>3, <1>6, <1>7, <1>12
  <2>2. CountItem(v) = 0
    BY <1>4, <1>11, <1>12
  <2>3. Cardinality({ k \in Keys : FindVal(v, k - 1) = k - 1 }) = CountItem(v)
    BY Zenon, <1>4, <1>8
  <2>4. QED
    BY Zenon, <2>1, <2>2, <2>3
<1>13. CASE hits # {}
  <2>1. PICK lo, hi : lo = Min(hits) /\ hi = Max(hits)
    OBVIOUS
  <2>2. lo \in hits /\ hi \in hits
    BY <1>5, <1>13, <2>1, MinProps
  <2>3. lo \in 1 .. Count /\ hi \in 1 .. Count /\ Count > 0
    BY <1>1, <1>5, <2>2
  <2>4. FindVal(v, 0) = lo - 1 /\ FindVal(v, -1) = hi
    BY <1>3, <1>6, <1>13, <2>1, <2>3
  <2>5. FindVal(v, 0) # -1 /\ FindVal(v, -1) # -1 /\ FindVal(v, 0) + 1 = lo
    BY <2>3, <2>4
  <2>6. IsEqual(LuaAt(lo), v)
    <3>1. at[lo] \in Items /\ lo \in Keys /\ Integer \in Types
      BY <1>5, <2>2, KeysProps DEF Types
    <3>2. LuaAt(lo) = AsItem(at[lo]) /\ AsItem(AsItem(at[lo])) = AsItem(at[lo])
      BY <3>1, ArrayItemsAgree, ReadAgain
    <3>3. QED
      BY <1>9, <2>2, <3>2 DEF IsEqual
  <2>7. QED
    BY Zenon, <1>4, <1>8, <1>11, <1>13, <2>5, <2>6
<1>14. QED
  BY <1>12, <1>13

\* A map's keys in their order, each once.
LEMMA PlacesProps ==
  ASSUME ContainerOK
  PROVE  /\ \A n \in 1 .. Count : /\ Places(container)[n] \in Keys
                                  /\ Cardinality({ j \in Keys : j < Places(container)[n] }) = n - 1
         /\ \A k \in Keys : \E n \in 1 .. Count : Places(container)[n] = k
<1> DEFINE C(k) == Cardinality({ j \in Keys : j < k })
           K == Keys
<1>1. Keys \in SUBSET Int /\ IsFiniteSet(Keys)
  BY KeysProps
<1>2. /\ Count \in Nat
      /\ \A k \in Keys : C(k) \in 0 .. Count - 1
      /\ \A i, k \in Keys : C(i) = C(k) => i = k
      /\ \A n \in 1 .. Count : \E k \in Keys : C(k) = n - 1
  <2>1. PICK S : S = Keys
    OBVIOUS
  <2>2. /\ Cardinality(S) \in Nat
        /\ \A i \in S : /\ Cardinality({ j \in S : j < i }) \in 0 .. Cardinality(S) - 1
                        /\ Cardinality({ j \in S : j > i })
                             = Cardinality(S) - 1 - Cardinality({ j \in S : j < i })
        /\ \A i, k \in S :
             Cardinality({ j \in S : j < i }) = Cardinality({ j \in S : j < k }) => i = k
        /\ \A n \in 1 .. Cardinality(S) : \E i \in S : Cardinality({ j \in S : j < i }) = n - 1
    <3>1. S \in SUBSET Int /\ IsFiniteSet(S)
      BY <1>1, <2>1
    <3>2. QED
      BY <3>1, Ranks
  <2>3. QED
    BY Zenon, <2>1, <2>2 DEF Count
<1>3. Places(container) = [n \in 1 .. Count |-> CHOOSE k \in Keys : C(k) = n - 1]
  BY Zenon DEF Places, Keys, at, Count
<1> HIDE DEF C
<1>4. ASSUME NEW n \in 1 .. Count PROVE Places(container)[n] \in Keys /\ C(Places(container)[n]) = n - 1
  <2>1. \E k \in Keys : C(k) = n - 1
    BY <1>2
  <2>2. Places(container)[n] = CHOOSE k \in Keys : C(k) = n - 1
    BY <1>3
  <2>3. QED
    BY Zenon, <2>1, <2>2
<1>5. ASSUME NEW k \in Keys PROVE \E n \in 1 .. Count : Places(container)[n] = k
  <2>1. PICK n : n = C(k) + 1
    OBVIOUS
  <2>2. n \in 1 .. Count /\ n - 1 = C(k)
    BY <1>2, <2>1
  <2>3. QED
    BY <1>2, <1>4, <2>2
<1>6. QED
  BY <1>4, <1>5 DEF C

\* The key of an index is the same from either end.
LEMMA NthKeys ==
  ASSUME ContainerOK, NEW n \in 1 .. Count
  PROVE  /\ GetNthKey(n - 1) = {Places(container)[n]}
         /\ GetNthKey(n - 1 - Count) = {Places(container)[n]}
<1> DEFINE p == Places(container)[n]
           C(k) == Cardinality({ j \in Keys : j < k })
           A(k) == Cardinality({ j \in Keys : j > k })
<1>1. p \in Keys /\ C(p) = n - 1
  BY PlacesProps
<1>2. /\ Count \in Nat
      /\ \A k \in Keys : C(k) \in 0 .. Count - 1 /\ A(k) = Count - 1 - C(k)
      /\ \A i, k \in Keys : C(i) = C(k) => i = k
  <2>1. PICK S : S = Keys
    OBVIOUS
  <2>2. /\ Cardinality(S) \in Nat
        /\ \A i \in S : /\ Cardinality({ j \in S : j < i }) \in 0 .. Cardinality(S) - 1
                        /\ Cardinality({ j \in S : j > i })
                             = Cardinality(S) - 1 - Cardinality({ j \in S : j < i })
        /\ \A i, k \in S :
             Cardinality({ j \in S : j < i }) = Cardinality({ j \in S : j < k }) => i = k
    <3>1. S \in SUBSET Int /\ IsFiniteSet(S)
      BY <2>1, KeysProps
    <3>2. QED
      BY <3>1, Ranks
  <2>3. QED
    BY Zenon, <2>1, <2>2 DEF Count
<1>3. PICK i : i = n - 1
  OBVIOUS
<1>4. NthFrom(i) = IF i < Count \div 2 THEN { k \in Keys : C(k) = i }
                   ELSE { k \in Keys : A(k) = Count - 1 - i }
  BY DEF NthFrom
<1> HIDE DEF C, A, p
<1>5. { k \in Keys : C(k) = i } = {p}
  BY <1>1, <1>2, <1>3
<1>6. { k \in Keys : A(k) = Count - 1 - i } = {p}
  <2>1. \A k \in Keys : A(k) = Count - 1 - i <=> C(k) = i
    BY <1>2, <1>3
  <2>2. QED
    BY Zenon, <1>5, <2>1
<1>7. NthFrom(i) = {p}
  BY <1>4, <1>5, <1>6
<1>8. ConvertReadIndex(Count, n - 1) = {i} /\ ConvertReadIndex(Count, n - 1 - Count) = {i}
  BY <1>2, <1>3 DEF ConvertReadIndex
<1>9. UNION { NthFrom(j) : j \in {i} } = {p}
  BY <1>7
<1>10. QED
  BY Zenon, <1>8, <1>9 DEF GetNthKey, p

\* A map by key, by the number of the key and from Lua.
LEMMA MapReadsAgree ==
  ASSUME ContainerOK, ~IsArray
  PROVE  /\ \A n \in 1 .. Count : \A t \in Types :
              GetItem(t, AllKeysPArray[n], ReadAs(t, AllValues[n])) = ReadAs(t, AllValues[n])
         /\ \A k \in KeysOf(container.kind) :
              /\ HasKey(k) <=> (IsValidKey(k) /\ k \in Range(AllKeysPArray))
              /\ \A t \in Types : ReadAs(t, LuaGet(k)) = GetItem(t, k, Default(t))
<1> DEFINE P == Places(container)
<1>1. /\ \A n \in 1 .. Count : P[n] \in Keys
      /\ \A k \in Keys : \E n \in 1 .. Count : P[n] = k
  BY PlacesProps
<1>2. \A n \in 1 .. Count : AllKeys[n] = P[n] /\ AllValues[n] = at[P[n]] /\ AllKeysPArray[n] = AsKey(P[n])
  BY Zenon DEF AllKeys, AllValues, AllKeysPArray
<1> HIDE DEF P
<1>3. DOMAIN AllKeysPArray = 1 .. Count
  BY DEF AllKeysPArray
<1>4. \A k : AsKey(k) = k \/ (AsKey(k) = 0 /\ ~IsValidKey(k) /\ ~IsValidKey(0))
  <2>1. SUFFICES ASSUME NEW k, AsKey(k) # k
                 PROVE  AsKey(k) = 0 /\ ~IsValidKey(k) /\ ~IsValidKey(0)
    OBVIOUS
  <2>2. container.kind = "form_map" /\ AsForm(k) = 0
    BY <2>1 DEF AsKey, AsForm
  <2>3. AsForm(0) = 0
    BY DEF AsForm
  <2>4. QED
    BY <2>2, <2>3 DEF IsValidKey, AsKey
<1>5. \A k \in Keys : at[k] \in Items
  BY KeysProps
<1>6. ASSUME NEW n \in 1 .. Count, NEW t \in Types
      PROVE  GetItem(t, AllKeysPArray[n], ReadAs(t, AllValues[n])) = ReadAs(t, AllValues[n])
  <2>1. PICK k \in Keys : k = P[n]
    BY <1>1
  <2>2. AllValues[n] = at[k] /\ AllKeysPArray[n] = AsKey(k)
    BY <1>2, <2>1
  <2>3. GetItem(t, AsKey(k), ReadAs(t, at[k])) = ReadAs(t, at[k])
    <3>1. CASE AsKey(k) = k
      BY <3>1 DEF GetItem
    <3>2. CASE AsKey(k) = 0 /\ ~IsValidKey(0)
      BY <3>2 DEF GetItem, Found
    <3>3. QED
      BY <1>4, <3>1, <3>2
  <2>4. QED
    BY <2>2, <2>3
<1>7. ASSUME NEW k
      PROVE  HasKey(k) <=> (IsValidKey(k) /\ k \in Range(AllKeysPArray))
  <2>1. HasKey(k) <=> IsValidKey(k) /\ k \in Keys
    BY DEF HasKey, ValueType, Found
  <2>2. k \in Range(AllKeysPArray) <=> \E n \in 1 .. Count : k = AsKey(P[n])
    BY <1>2, <1>3 DEF Range
  <2>3. IsValidKey(k) => (k \in Keys <=> \E j \in Keys : k = AsKey(j))
    BY <1>4
  <2>4. QED
    BY <1>1, <2>1, <2>2, <2>3
<1>8. ASSUME NEW k, NEW t \in Types
      PROVE  ReadAs(t, LuaGet(k)) = GetItem(t, k, Default(t))
  <2>1. CASE Found(k) = {}
    <3>1. LuaGet(k) = Null /\ GetItem(t, k, Default(t)) = Default(t)
      BY <2>1 DEF LuaGet, LuaValue, GetItem
    <3>2. ReadAs(t, Null) = Default(t)
      BY ReadAgain, ValuesAreItems
    <3>3. QED
      BY <3>1, <3>2
  <2>2. CASE Found(k) # {}
    <3>1. Found(k) = {k} /\ k \in Keys
      BY <2>2 DEF Found
    <3>2. { at[j] : j \in Found(k) } = {at[k]}
      BY <3>1
    <3>3. LuaGet(k) = AsItem(at[k])
      BY <3>2, OnlyMember DEF LuaGet, LuaValue
    <3>4. GetItem(t, k, Default(t)) = ReadAs(t, at[k])
      BY <3>1 DEF GetItem
    <3>5. ReadAs(t, AsItem(at[k])) = ReadAs(t, at[k])
      BY <1>5, <3>1, ReadAgain
    <3>6. QED
      BY <3>3, <3>4, <3>5
  <2>3. QED
    BY <2>1, <2>2
<1>9. QED
  BY <1>6, <1>7, <1>8

\* The ways to read a container tell the same, a search from the back its success only.
THEOREM ReadsTellTheSame == Spec => []ReadsAgree
<1>1. ASSUME IInv PROVE ReadsAgree
  <2>1. ContainerOK
    BY <1>1 DEF IInv, TypeOK
  <2>2. CASE IsArray
    BY <2>1, <2>2, ArrayItemsAgree, SearchesAgree DEF ReadsAgree
  <2>3. CASE ~IsArray
    <3>1. \A n \in 1 .. Count : /\ GetNthKey(n - 1) = {Places(container)[n]}
                                /\ GetNthKey(n - 1 - Count) = {Places(container)[n]}
      BY <2>1, NthKeys
    <3>2. \A n \in 1 .. Count : AllKeys[n] = Places(container)[n]
      BY Zenon DEF AllKeys
    <3>3. \A n \in 1 .. Count : GetNthKey(n - 1) = {AllKeys[n]} /\ GetNthKey(n - 1 - Count) = {AllKeys[n]}
      BY Zenon, <3>1, <3>2
    <3>4. QED
      BY Zenon, <2>1, <2>3, <3>3, MapReadsAgree DEF ReadsAgree
  <2>4. QED
    BY <2>2, <2>3
<1>2. QED
  BY <1>1, Invariant, PTL

\* Places f + 1 to l + 1 of the array are written to the same places of the target.
LEMMA Written ==
  ASSUME ContainerOK, IsArray, NEW t, NEW default, NEW target, NEW first, NEW last, NEW read,
         DOMAIN target = Keys, Len(target) = Count,
         NEW f \in 0 .. Count - 1, NEW l \in f .. Count - 1,
         ConvertReadIndex(Count, first) = {f}, ConvertReadIndex(Count, last) = {l},
         PlacesAt(read) = {f + 1}
  PROVE  WriteToPapyrusArray(target, t, first, last, read, default)
           = [succeed |-> TRUE,
              array |-> [n \in Keys |-> IF n \in f + 1 .. l + 1
                                        THEN ReadStrictly(t, at[n], default) ELSE target[n]]]
<1>1. Count \in Nat /\ Keys = 1 .. Count
  BY KeysProps
<1>2. /\ Only(ConvertReadIndex(Len(target), first)) = f
      /\ Only(ConvertReadIndex(Len(target), last)) = l
      /\ Only(PlacesAt(read)) = f + 1
  BY OnlyMember
<1>3. ~(\/ ConvertReadIndex(Len(target), first) = {} \/ ConvertReadIndex(Len(target), last) = {}
        \/ PlacesAt(read) = {} \/ l < f \/ f + 1 + l - f > Count)
  BY <1>1
<1> DEFINE new == [n \in Keys |-> IF n \in f + 1 .. l + 1
                                  THEN ReadStrictly(t, at[f + 1 + n - f - 1], default) ELSE target[n]]
<1>4. WriteToPapyrusArray(target, t, first, last, read, default) = [succeed |-> TRUE, array |-> new]
  BY <1>2, <1>3 DEF WriteToPapyrusArray
<1>5. \A n \in Keys : f + 1 + n - f - 1 = n
  BY <1>1
<1>6. new = [n \in Keys |-> IF n \in f + 1 .. l + 1 THEN ReadStrictly(t, at[n], default) ELSE target[n]]
  BY <1>5
<1>7. QED
  BY Zenon, <1>4, <1>6

\* An array into one of the script's own, at once or in two pieces.
LEMMA PiecesAgree ==
  ASSUME ContainerOK, IsArray, Count > 0, NEW t, NEW default
  PROVE  LET empty == [k \in Keys |-> Null]
             whole == WriteToPapyrusArray(empty, t, 0, -1, 0, default)
         IN  /\ whole = [succeed |-> TRUE, array |-> [n \in Keys |-> ReadStrictly(t, at[n], default)]]
             /\ \A m \in 1 .. Count - 1 :
                  LET front == WriteToPapyrusArray(empty, t, 0, m - 1, 0, default)
                  IN  /\ front.succeed
                      /\ WriteToPapyrusArray(front.array, t, m, -1, m - Count, default) = whole
<1>1. Count \in Nat /\ Keys = 1 .. Count
  BY KeysProps
<1> DEFINE empty == [k \in Keys |-> Null]
           all == [n \in Keys |-> ReadStrictly(t, at[n], default)]
<1>2. DOMAIN empty = Keys /\ Len(empty) = Count /\ \A n \in Keys : empty[n] = Null
  BY <1>1
<1>3. PICK o, e : o = 0 /\ e = -1
  OBVIOUS
<1>4. PICK last : last = Count - 1
  OBVIOUS
<1>5. o \in 0 .. Count - 1 /\ last \in o .. Count - 1 /\ last + 1 = Count /\ o + 1 = 1
  BY <1>1, <1>3, <1>4
<1>6. ConvertReadIndex(Count, o) = {o} /\ ConvertReadIndex(Count, e) = {last}
  BY <1>1, <1>3, <1>4 DEF ConvertReadIndex
<1>7. PlacesAt(o) = {o + 1}
  BY <1>5, PlacesAtProps
<1> HIDE DEF empty
<1>8. WriteToPapyrusArray(empty, t, o, e, o, default)
        = [succeed |-> TRUE,
           array |-> [n \in Keys |-> IF n \in o + 1 .. last + 1
                                     THEN ReadStrictly(t, at[n], default) ELSE empty[n]]]
  BY <1>2, <1>5, <1>6, <1>7, Written
<1>9. [n \in Keys |-> IF n \in o + 1 .. last + 1 THEN ReadStrictly(t, at[n], default) ELSE empty[n]] = all
  BY <1>1, <1>5
<1>10. WriteToPapyrusArray(empty, t, o, e, o, default) = [succeed |-> TRUE, array |-> all]
  BY Zenon, <1>8, <1>9
<1>11. ASSUME NEW m \in 1 .. Count - 1
       PROVE  /\ WriteToPapyrusArray(empty, t, o, m - 1, o, default).succeed
              /\ WriteToPapyrusArray(WriteToPapyrusArray(empty, t, o, m - 1, o, default).array,
                                     t, m, e, m - Count, default)
                   = [succeed |-> TRUE, array |-> all]
  <2>1. PICK l, back : l = m - 1 /\ back = m - Count
    OBVIOUS
  <2>2. /\ l \in o .. Count - 1 /\ l + 1 = m /\ m \in 0 .. Count - 1 /\ last \in m .. Count - 1
        /\ back \in Int /\ back < 0 /\ -back <= Count /\ Count + back + 1 = m + 1
    BY <1>1, <1>3, <1>4, <2>1
  <2>3. ConvertReadIndex(Count, l) = {l} /\ ConvertReadIndex(Count, m) = {m}
    BY <1>1, <2>1 DEF ConvertReadIndex
  <2>4. PlacesAt(back) = {m + 1}
    BY <2>2, PlacesAtProps
  <2> DEFINE piece == [n \in Keys |-> IF n \in o + 1 .. l + 1
                                      THEN ReadStrictly(t, at[n], default) ELSE empty[n]]
  <2>5. WriteToPapyrusArray(empty, t, o, l, o, default) = [succeed |-> TRUE, array |-> piece]
    <3>1. /\ DOMAIN empty = Keys /\ Len(empty) = Count
          /\ o \in 0 .. Count - 1 /\ l \in o .. Count - 1
          /\ ConvertReadIndex(Count, o) = {o} /\ ConvertReadIndex(Count, l) = {l}
          /\ PlacesAt(o) = {o + 1}
      BY Zenon, <1>2, <1>5, <1>6, <1>7, <2>2, <2>3
    <3>2. QED
      BY <3>1, Written
  <2>6. DOMAIN piece = Keys /\ Len(piece) = Count
    BY <1>1
  <2>7. \A n \in Keys : n \notin m + 1 .. last + 1 => piece[n] = ReadStrictly(t, at[n], default)
    BY <1>1, <1>5, <2>2
  <2> HIDE DEF piece
  <2>8. WriteToPapyrusArray(piece, t, m, e, back, default)
          = [succeed |-> TRUE,
             array |-> [n \in Keys |-> IF n \in m + 1 .. last + 1
                                       THEN ReadStrictly(t, at[n], default) ELSE piece[n]]]
    BY <1>6, <2>2, <2>3, <2>4, <2>6, Written
  <2>9. [n \in Keys |-> IF n \in m + 1 .. last + 1
                        THEN ReadStrictly(t, at[n], default) ELSE piece[n]] = all
    BY <2>7
  <2>10. WriteToPapyrusArray(empty, t, o, l, o, default).succeed
         /\ WriteToPapyrusArray(empty, t, o, l, o, default).array = piece
    BY <2>5
  <2>11. QED
    BY Zenon, <2>1, <2>8, <2>9, <2>10
<1>12. QED
  BY Zenon, <1>3, <1>10, <1>11 DEF empty

\* What a script copies of an array is the same at once and in pieces, and is the items.
THEOREM CopiesAgree == Spec => []PapyrusArraysAgree
<1>1. ASSUME IInv, script = Idle, IsArray, Count > 0, NEW t \in Types \ {Object}
      PROVE  LET whole == WriteToPapyrusArray([k \in Keys |-> Null], t, 0, -1, 0, Default(t))
             IN  /\ whole.succeed
                 /\ \A m \in 1 .. Count - 1 :
                      LET front == WriteToPapyrusArray([k \in Keys |-> Null], t, 0, m - 1, 0, Default(t))
                      IN  /\ front.succeed
                          /\ WriteToPapyrusArray(front.array, t, m, -1, m - Count, Default(t)) = whole
                 /\ (\A k \in Keys : at[k].type = t /\ IsLocal(AsItem(at[k])))
                      => FromArray(t, whole.array) = [k \in Keys |-> AsItem(at[k])]
                 /\ \A k \in Keys : at[k].type = t \/ ~(IsNumber(at[k]) /\ t \in {Integer, Real})
                                      => whole.array[k] = AllItems(t)[k]
  <2>1. ContainerOK
    BY <1>1 DEF IInv, TypeOK
  <2>2. \A k \in Keys : at[k] \in Items
    BY <2>1, KeysProps
  <2>3. PICK whole : whole = WriteToPapyrusArray([k \in Keys |-> Null], t, 0, -1, 0, Default(t))
    OBVIOUS
  <2>4. PICK d : d = Default(t)
    OBVIOUS
  <2>5. whole = [succeed |-> TRUE, array |-> [n \in Keys |-> ReadStrictly(t, at[n], d)]]
    BY <1>1, <2>1, <2>3, <2>4, PiecesAgree
  <2>6. whole.succeed /\ whole.array = [n \in Keys |-> ReadStrictly(t, at[n], d)]
    BY <2>5
  <2>7. \A m \in 1 .. Count - 1 :
          LET front == WriteToPapyrusArray([k \in Keys |-> Null], t, 0, m - 1, 0, d)
          IN  /\ front.succeed
              /\ WriteToPapyrusArray(front.array, t, m, -1, m - Count, d) = whole
    BY <1>1, <2>1, <2>3, <2>4, PiecesAgree
  <2>8. ASSUME \A k \in Keys : at[k].type = t /\ IsLocal(AsItem(at[k]))
        PROVE  FromArray(t, whole.array) = [k \in Keys |-> AsItem(at[k])]
    <3>1. FromArray(t, whole.array)
            = [n \in Keys |-> [type |-> t, value |-> IF t = FormType THEN WeakFormId(whole.array[n].value)
                                                     ELSE whole.array[n].value]]
      BY <2>6 DEF FromArray
    <3>2. ASSUME NEW n \in Keys
          PROVE  [type |-> t, value |-> IF t = FormType THEN WeakFormId(whole.array[n].value)
                                        ELSE whole.array[n].value] = AsItem(at[n])
      <4>1. whole.array[n] = AsItem(at[n])
        BY <2>6, <2>8 DEF ReadStrictly
      <4>2. AsItem(at[n]).type = t /\ AsItem(at[n]) = [type |-> t, value |-> AsItem(at[n]).value]
        BY Zenon, <1>1, <2>2, <2>8, ReadAgain
      <4>3. t = FormType => WeakFormId(AsItem(at[n]).value) = AsItem(at[n]).value
        BY Zenon, <2>8, <4>2 DEF IsLocal
      <4>4. QED
        BY Zenon, <4>1, <4>2, <4>3
    <3>3. QED
      BY Zenon, <3>1, <3>2
  <2>9. ASSUME NEW k \in Keys, at[k].type = t \/ ~(IsNumber(at[k]) /\ t \in {Integer, Real})
        PROVE  whole.array[k] = AllItems(t)[k]
    <3>1. AllItems(t)[k] = ReadAs(t, at[k]) /\ whole.array[k] = ReadStrictly(t, at[k], d)
      BY <2>6 DEF AllItems
    <3>2. CASE at[k].type = t
      <4>1. ReadAs(t, at[k]) = AsItem(at[k])
        BY <1>1, <2>2, <3>2, ReadAgain
      <4>2. QED
        BY <3>1, <3>2, <4>1 DEF ReadStrictly
    <3>3. CASE at[k].type # t
      BY <2>4, <2>9, <3>1, <3>3 DEF ReadStrictly, ReadAs
    <3>4. QED
      BY <3>2, <3>3
  <2>10. QED
    BY Zenon, <2>3, <2>4, <2>6, <2>7, <2>8, <2>9
<1>2. IInv => PapyrusArraysAgree
  BY Zenon, <1>1 DEF PapyrusArraysAgree
<1>3. QED
  BY <1>2, Invariant, PTL
=============================================================================
