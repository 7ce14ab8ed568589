-------------------------------- MODULE Reading --------------------------------
(***************************************************************************)
(* One container that a script reads step by step while other scripts      *)
(* change it and the game deletes forms.                                   *)
(*                                                                         *)
(*   collections/functions.h                    indexes, keys, nextKey     *)
(*   collections/item.h                         reading an item as a type  *)
(*   api_3/tes_array.h, tes_map.h               what Papyrus reads         *)
(*   collections/lua_native_funcs.hpp, jc.lua   what Lua reads and writes  *)
(*                                                                         *)
(* A call holds the container's lock and is one step; a loop is many.      *)
(* Keys are integers, 0 the key that is not one: "" of a JMap, None of a   *)
(* JFormMap; names are not "".  The identifier of a deleted form is not    *)
(* given out again: see FormObserver for that.                             *)
(***************************************************************************)
EXTENDS Containers

CONSTANTS Names,    \* keys of maps
          Numbers,  \* keys of integer maps
          EndKeys,  \* the end keys of loops over integer maps
          Forms,    \* keys of form maps
          LocalFormID,  \* the identifier of a form without its mod
          Values,   \* items
          MaxCount  \* bound: items of an array

ASSUME ReadingAssumption ==
  /\ Names \subseteq Nat \ {0} /\ Forms \subseteq Nat \ {0}
  /\ Numbers \subseteq Int /\ EndKeys \subseteq Int /\ MaxCount \in Nat
  /\ Values \subseteq [type : NullType .. String, value : Int]
  /\ \A v \in Values : v.type = FormType => v.value \in Forms
  /\ LocalFormID \in [Forms -> Forms]

VARIABLES
  container,  \* its kind and items
  expired,    \* the forms that were deleted
  script,     \* the loop: how it reads, its last key, its end, the keys it was given
  stayed,     \* the keys that were there, and matched, all the time of the loop
  cut         \* whether the loop's place in the container was lost

vars == <<container, expired, script, stayed, cut>>

at == container.at
Keys == DOMAIN at
Count == Cardinality(Keys)
IsArray == container.kind = "array"

KeysOf(kind) == CASE kind = "array" -> {}
                  [] kind = "map" -> Names
                  [] kind = "integer_map" -> Numbers
                  [] kind = "form_map" -> Forms

-----------------------------------------------------------------------------
(* Items and keys as they are read *)

\* form_ref::get: a deleted form reads as None.
AsForm(f) == IF f \in expired THEN 0 ELSE f
AsKey(k) == IF container.kind = "form_map" THEN AsForm(k) ELSE k
AsItem(i) == IF i.type = FormType THEN FormItem(AsForm(i.value)) ELSE i

\* item::isEqual: all deleted forms are equal.
IsEqual(i, j) == AsItem(i) = AsItem(j)

Types == {Integer, Real, FormType, Object, String}
Default(t) == [type |-> t, value |-> 0]

\* item::readAs: numbers are converted, all else is the default of the type.
ReadAs(t, i) ==
  IF i.type = t \/ (IsNumber(i) /\ t \in {Integer, Real})
  THEN AsItem([type |-> t, value |-> i.value]) ELSE Default(t)

\* item::get: the type must be the item's.
ReadStrictly(t, i, default) == IF i.type = t THEN AsItem(i) ELSE default

\* map_key_checker; a form that was deleted is None in the script's variable.
IsValidKey(k) == container.kind = "integer_map" \/ AsKey(k) # 0

Found(k) == IF IsValidKey(k) THEN {k} \intersect Keys ELSE {}

-----------------------------------------------------------------------------
(* JArray *)

\* doReadOp: the places for an index, at most one.
PlacesAt(index) == { i + 1 : i \in ConvertReadIndex(Count, index) }

ItemAtIndex(t, index, default) ==
  IF PlacesAt(index) = {} THEN default ELSE ReadAs(t, at[Only(PlacesAt(index))])

ValueTypeAt(index) == { at[k].type : k \in PlacesAt(index) }

AllItems(t) == [k \in Keys |-> ReadAs(t, at[k])]

\* From a negative index it searches backwards and returns one more than the index.
FindVal(value, start) ==
  LET from == Only(PlacesAt(start))
      hits == { k \in Keys : IsEqual(at[k], value) }
      ahead == { k \in hits : k >= from }
      behind == { k \in hits : k <= from }
  IN  CASE PlacesAt(start) = {} -> -1
        [] start >= 0 /\ PlacesAt(start) # {} -> IF ahead = {} THEN -1 ELSE Min(ahead) - 1
        [] start < 0 /\ PlacesAt(start) # {} -> IF behind = {} THEN -1 ELSE Max(behind)

CountItem(value) == Cardinality({ k \in Keys : IsEqual(at[k], value) })

\* make_weak_form_id of a form, which loses the form's mod; None stays None.
WeakFormId(f) == IF f = 0 THEN 0 ELSE LocalFormID[f]

\* fromArray: the items of a new array.
FromArray(t, values) ==
  [n \in DOMAIN values |->
     [type |-> t, value |-> IF t = FormType THEN WeakFormId(values[n].value) ELSE values[n].value]]

\* A wrong variant: the last index is not written.
WriteExclusively(target, t, first, last, read, default) ==
  LET f == Only(ConvertReadIndex(Len(target), first))
      l == Only(ConvertReadIndex(Len(target), last))
      r == Only(PlacesAt(read))
  IN  [succeed |-> TRUE,
       array |-> [n \in DOMAIN target |-> IF f + 1 <= n /\ n <= l
                                          THEN ReadStrictly(t, at[r + n - f - 1], default) ELSE target[n]]]

\* writeToPapyrusArray writes all of the indexes or none.
WriteToPapyrusArray(target, t, first, last, read, default) ==
  LET fs == ConvertReadIndex(Len(target), first)
      ls == ConvertReadIndex(Len(target), last)
      f == Only(fs)
      l == Only(ls)
      r == Only(PlacesAt(read))
      refused == fs = {} \/ ls = {} \/ PlacesAt(read) = {} \/ l < f \/ r + l - f > Count
  IN  [succeed |-> ~refused,
       array |-> IF refused THEN target
                 ELSE [n \in DOMAIN target |-> IF n \in f + 1 .. l + 1
                                               THEN ReadStrictly(t, at[r + n - f - 1], default)
                                               ELSE target[n]]]

-----------------------------------------------------------------------------
(* JMap, JIntMap, JFormMap *)

GetItem(t, k, default) == IF Found(k) = {} THEN default ELSE ReadAs(t, at[k])
ValueType(k) == { at[j].type : j \in Found(k) }
HasKey(k) == ValueType(k) # {}

AllKeys == [n \in 1 .. Count |-> Places(container)[n]]
AllValues == [n \in 1 .. Count |-> at[Places(container)[n]]]
AllKeysPArray == [n \in 1 .. Count |-> AsKey(AllKeys[n])]

\* A wrong variant: from the end it steps once too often.
NthFromEndPast(i) ==
  IF i < Count \div 2 THEN { k \in Keys : Cardinality({ j \in Keys : j < k }) = i }
  ELSE { k \in Keys : Cardinality({ j \in Keys : j > k }) = Count - i }

\* The key of an index is counted from the nearer end.
NthFrom(i) ==
  IF i < Count \div 2 THEN { k \in Keys : Cardinality({ j \in Keys : j < k }) = i }
  ELSE { k \in Keys : Cardinality({ j \in Keys : j > k }) = Count - 1 - i }

GetNthKey(index) == UNION { NthFrom(i) : i \in ConvertReadIndex(Count, index) }

\* The first of some keys, if there is one.
First(keys) == IF keys = {} THEN {} ELSE {Min(keys)}

\* nextKey of JMap and of Lua's pairs: the key after k, the first after none.
NextKey(k) == First(IF IsValidKey(k) THEN { j \in Keys : Found(k) # {} /\ j > k } ELSE Keys)

\* u_find_iterator: None is found where the first key is a deleted form.
FindIterator(k) ==
  IF IsValidKey(k) THEN {k} \intersect Keys ELSE { j \in First(Keys) : AsKey(j) = 0 }

\* The keys after one a script gives; from the end key on they are all.
KeysAfter(k, end) ==
  IF AsKey(k) = AsKey(end) THEN Keys ELSE { j \in Keys : \E f \in FindIterator(k) : j > f }

\* A wrong variant: the keys equal to the end key are not passed over.
NextKeyUnskipped(k, end) == First(KeysAfter(k, end))

\* nextKey of JIntMap and JFormMap: keys that equal the end key are passed over, with
\* None as the end key those whose form was deleted.
NextKeyForPapyrus(k, end) == First({ j \in KeysAfter(k, end) : AsKey(j) # AsKey(end) })

-----------------------------------------------------------------------------
(* Lua *)

\* jc.lua's convertIndex: 0 becomes the last item.
LuaIndex(index) == IF index >= 0 THEN index - 1 ELSE index

\* JCToLuaValue_fromItem and returnLuaValue: Null is nil, as is what is not there.
LuaValue(items) == IF items = {} THEN Null ELSE AsItem(Only(items))
LuaAt(index) == LuaValue({ at[k] : k \in PlacesAt(LuaIndex(index)) })
LuaGet(k) == LuaValue({ at[j] : j \in Found(k) })

\* returnJCValue and JCValue_fillItem: Lua has one type of numbers.
FromLua(i) == IF IsNumber(i) THEN FltItem(i.value) ELSE i

-----------------------------------------------------------------------------
(* Loops *)

Loop(pc, way, key, end, seen) == [pc |-> pc, way |-> way, key |-> key, end |-> end, seen |-> seen]
Idle == Loop("idle", "none", 0, Null, <<>>)

\* Lua has no integer maps: wrapJCHandle asserts.  The end is a key or what is searched.
Ways == CASE container.kind = "array" -> {"ipairs", "find"}
          [] container.kind = "map" -> {"nextKey", "pairs"}
          [] container.kind = "form_map" -> {"nextKey", "pairs"}
          [] container.kind = "integer_map" -> {"nextKey"}

Ends(way) ==
  CASE way = "find" -> Values \union {FormItem(0)}
    [] way = "nextKey" /\ container.kind = "integer_map" -> { IntItem(n) : n \in EndKeys }
    [] way = "nextKey" /\ container.kind # "integer_map" -> { IntItem(k) : k \in {0} \union KeysOf(container.kind) }
    [] way \in {"ipairs", "pairs"} -> {IntItem(0)}

Matching(way, end, keys) ==
  IF way = "find" THEN { k \in keys : IsEqual(at[k], end) } ELSE keys

Init ==
  /\ container \in { New(kind) : kind \in {"array", "map", "integer_map", "form_map"} }
  /\ expired = {}
  /\ script = Idle
  /\ stayed = {}
  /\ cut = FALSE

StartLoop ==
  /\ script = Idle
  /\ \E way \in Ways : \E end \in Ends(way) :
       /\ script' = Loop("loop", way, IF IsArray THEN 0 ELSE end.value, end, <<>>)
       /\ stayed' = Matching(way, end, Keys)
  /\ cut' = FALSE
  /\ UNCHANGED <<container, expired>>

\* The key the loop goes on with, if there is one.
NextOf(loop) ==
  CASE loop.way = "ipairs" -> IF loop.key < Count THEN {loop.key + 1} ELSE {}
    [] loop.way = "find" -> { i + 1 : i \in {FindVal(loop.end, loop.key)} \ {-1} }
    [] loop.way = "nextKey" /\ container.kind # "map" -> NextKeyForPapyrus(loop.key, loop.end.value)
    [] loop.way = "pairs" \/ (loop.way = "nextKey" /\ container.kind = "map") -> NextKey(loop.key)

\* Whether a call gives the first key.  A loop begins with the end key, and again when
\* the form it was at was deleted, if None is the end key.  nextKey of JMap begins with
\* "" only: with an end key of its own a loop begins behind that key.
Begins(loop) ==
  /\ ~IsArray
  /\ IF loop.way = "pairs" \/ container.kind = "map" THEN ~IsValidKey(loop.key)
     ELSE AsKey(loop.key) = AsKey(loop.end.value)

\* JFormMap_nextKey watches the identifier of a deleted form anew, and finds no such key.
LuaLost == script.way = "pairs" /\ script.key # 0 /\ AsKey(script.key) = 0

\* One call of the loop, which ends at the end key; for Lua that is the identifier 0.
Advance ==
  /\ script.pc = "loop"
  /\ LET next == IF LuaLost THEN {} ELSE NextOf(script)
     IN  IF next = {} \/ (~IsArray /\ AsKey(Only(next)) = AsKey(script.end.value))
         THEN script' = [script EXCEPT !.pc = "done"]
         ELSE script' = [script EXCEPT !.key = Only(next), !.seen = Append(@, Only(next))]
  /\ cut' = \/ cut
            \/ LuaLost
            \/ ~IsArray /\ ~Begins(script) /\ FindIterator(script.key) # {script.key}
            \/ script.way = "pairs" /\ \E k \in NextKey(script.key) : AsKey(k) = 0
  /\ UNCHANGED <<container, expired, stayed>>

EndLoop ==
  /\ script.pc = "done"
  /\ script' = Idle
  /\ stayed' = {}
  /\ cut' = FALSE
  /\ UNCHANGED <<container, expired>>

-----------------------------------------------------------------------------
(* Other scripts and the game *)

\* The items become items; keys that are gone or match no more have not stayed.
Become(items) ==
  /\ container' = [container EXCEPT !.at = items]
  /\ stayed' = { k \in stayed \intersect DOMAIN items :
                   script.way = "find" => IsEqual(items[k], script.end) }
  /\ UNCHANGED <<expired, script, cut>>

SetItem(k, value) ==
  /\ ~IsArray /\ IsValidKey(k)
  /\ Become([j \in Keys \union {k} |-> IF j = k THEN value ELSE at[j]])

RemoveKey(k) == ~IsArray /\ Found(k) # {} /\ Become([j \in Keys \ {k} |-> at[j]])

\* An array's items from place k on move: the loop has lost its place if it was past k.
Shift(k, items) ==
  /\ container' = [container EXCEPT !.at = items]
  /\ stayed' = { j \in stayed : j < k }
  /\ cut' = (cut \/ (script.pc = "loop" /\ k <= script.key))
  /\ UNCHANGED <<expired, script>>

Insert(index, value) ==
  /\ IsArray /\ Count < MaxCount
  /\ \E i \in ConvertWriteIndex(Count, index) : Shift(i + 1, InsertAt(at, i + 1, value))

EraseIndex(index) == IsArray /\ \E k \in PlacesAt(index) : Shift(k, RemoveAt(at, k))

ReplaceItem(index, value) ==
  IsArray /\ \E k \in PlacesAt(index) : Become([at EXCEPT ![k] = value])

\* jc.lua's __newindex: nil is None in an array and removes a key of a map.
LuaSetIndex(index, value) == ReplaceItem(LuaIndex(index), FromLua(value))

LuaSetKey(k, value) ==
  /\ container.kind \in {"map", "form_map"}
  /\ IF value = Null THEN RemoveKey(k) ELSE SetItem(k, FromLua(value))

DeleteForm(f) ==
  /\ f \notin expired
  /\ expired' = expired \union {f}
  /\ UNCHANGED <<container, script, stayed, cut>>

Indexes == -Count .. MaxCount

Next ==
  \/ StartLoop \/ Advance \/ EndLoop
  \/ \E v \in Values :
       \/ \E k \in KeysOf(container.kind) : SetItem(k, v) \/ LuaSetKey(k, v)
       \/ \E i \in Indexes : Insert(i, v) \/ ReplaceItem(i, v) \/ LuaSetIndex(i, v)
  \/ \E k \in KeysOf(container.kind) : RemoveKey(k)
  \/ \E i \in Indexes : EraseIndex(i)
  \/ \E f \in Forms : DeleteForm(f)

Spec == Init /\ [][Next]_vars

-----------------------------------------------------------------------------
(* Properties *)

\* A loop that was over when the container had no further key for it was given every
\* key that was there, and matched, all along, but for those equal to its end key: other
\* scripts that add, set and remove keys meanwhile, and forms that are deleted, hide
\* nothing from it.  It was given the keys in order, each once, until the form of the
\* last one was deleted while None was the end key: nextKey then begins again at the
\* first key, and the script is given again what it had.
\* Left out: loops that lost their place, because the key they were at was removed,
\* items before it moved, its form was deleted in a loop with an end key of its own, or
\* Lua met a deleted form; and JMap's loops with an end key other than "".
IterationsVisitStaying ==
  LET OwnEndOfJMap == container.kind = "map" /\ script.end.value # 0
      EndsNow(k) == ~IsArray /\ AsKey(k) = AsKey(script.end.value)
  IN  script.pc = "done" /\ ~cut /\ ~OwnEndOfJMap =>
        /\ \A k \in stayed : EndsNow(k) \/ k \in Range(script.seen)
        /\ \A n \in 2 .. Len(script.seen) :
             script.seen[n - 1] < script.seen[n] \/ EndsNow(script.seen[n - 1])

\* The many ways to read a container tell the same: an array item by item from either
\* end, whole, from Lua, and searched, from the front, from the back and from each place
\* on, against its count; a map by key, by the number of the key, by its lists of keys
\* and values, and from Lua.  Of a search from the back only its success is compared:
\* the index it returns is one more than that of the item.
ReadsAgree ==
  IF IsArray
  THEN /\ \A t \in Types : \A k \in Keys :
            /\ ItemAtIndex(t, k - 1, Default(t)) = AllItems(t)[k]
            /\ ItemAtIndex(t, k - 1 - Count, Default(t)) = AllItems(t)[k]
            /\ ReadAs(t, LuaAt(k)) = AllItems(t)[k] /\ LuaAt(k - 1 - Count) = LuaAt(k)
       /\ \A v \in Values :
            /\ FindVal(v, 0) = -1 <=> CountItem(v) = 0
            /\ FindVal(v, -1) = -1 <=> CountItem(v) = 0
            /\ FindVal(v, 0) # -1 => IsEqual(LuaAt(FindVal(v, 0) + 1), v)
            /\ CountItem(v) = Cardinality({ k \in Keys : FindVal(v, k - 1) = k - 1 })
  ELSE /\ \A n \in 1 .. Count :
            /\ GetNthKey(n - 1) = {AllKeys[n]} /\ GetNthKey(n - 1 - Count) = {AllKeys[n]}
            /\ \A t \in Types : LET read == ReadAs(t, AllValues[n])
                               IN  GetItem(t, AllKeysPArray[n], read) = read
       /\ \A k \in KeysOf(container.kind) :
            /\ HasKey(k) <=> (IsValidKey(k) /\ k \in Range(AllKeysPArray))
            /\ \A t \in Types : ReadAs(t, LuaGet(k)) = GetItem(t, k, Default(t))

\* An item that keeps its value when it is made from what a script has of it.
IsLocal(item) == item.type = FormType => WeakFormId(item.value) = item.value

\* A script that copies an array into one of its own gets the same whether at once or in
\* two pieces, the second counted from the ends; what it gets is the items of the type,
\* so that an array made of them is the array if all were and no form has a mod to lose,
\* and is what asIntArray and the like give where no number is of the other type.
PapyrusArraysAgree ==
  script = Idle /\ IsArray /\ Count > 0 =>
    \A t \in Types \ {Object} :
      LET whole == WriteToPapyrusArray([k \in Keys |-> Null], t, 0, -1, 0, Default(t))
      IN  /\ whole.succeed
          /\ \A m \in 1 .. Count - 1 :
               LET front == WriteToPapyrusArray([k \in Keys |-> Null], t, 0, m - 1, 0, Default(t))
               IN  /\ front.succeed
                   /\ WriteToPapyrusArray(front.array, t, m, -1, m - Count, Default(t)) = whole
          /\ (\A k \in Keys : at[k].type = t /\ IsLocal(AsItem(at[k]))) =>
               FromArray(t, whole.array) = [k \in Keys |-> AsItem(at[k])]
          /\ \A k \in Keys : at[k].type = t \/ ~(IsNumber(at[k]) /\ t \in {Integer, Real})
                             => whole.array[k] = AllItems(t)[k]
=============================================================================
