------------------------------ MODULE Containers ------------------------------
(***************************************************************************)
(* Items, containers, and the access of an item by a path.                 *)
(*                                                                         *)
(*   collections/item.h                              items, their order    *)
(*   collections/collections_types.h, functions.h    arrays and maps       *)
(*   collections/access.*                            paths                 *)
(*   collections/operators.h                         "@maxInt" and others  *)
(*                                                                         *)
(* A heap is a sequence of containers: what an item refers to is a place   *)
(* in it.  Values are integers, names too: the case-insensitive order of   *)
(* names is theirs.  The functions of the code that may yield nothing      *)
(* yield a set with at most one member.  A path is given as its elements;  *)
(* text that is not a path is <<>>.                                        *)
(***************************************************************************)
EXTENDS Integers, Sequences, FiniteSets, SequencesExt

\* item_type
NullType == 1
Integer == 2
Real == 3
FormType == 4
Object == 5
String == 6

Null == [type |-> NullType, value |-> 0]
IntItem(n) == [type |-> Integer, value |-> n]
FltItem(n) == [type |-> Real, value |-> n]
FormItem(f) == [type |-> FormType, value |-> f]
StrItem(n) == [type |-> String, value |-> n]
ObjItem(o) == [type |-> Object, value |-> o]

IsNumber(i) == i.type \in {Integer, Real}

\* A wrong variant: objects and strings have no order.
LessUnlessPointers(i, j) ==
  IF i.type = j.type THEN i.type < Object /\ i.value < j.value ELSE i.type < j.type

\* operator <: None < integer < real < form < object < string, then by value.
Less(i, j) == IF i.type = j.type THEN i.value < j.value ELSE i.type < j.type

\* The member of a set that has one.
Only(S) == CHOOSE x \in S : TRUE

\* The objects among the items of a set.
ObjectsOf(items) == { i.value : i \in { j \in items : j.type = Object } }

-----------------------------------------------------------------------------
(* Containers *)

\* Keys, which are the elements of a path as well.
Name(n) == [t |-> "string", v |-> n]
Index(n) == [t |-> "int32", v |-> n]
FormKey(f) == [t |-> "form_ref", v |-> f]

KeyType(kind) == CASE kind \in {"array", "integer_map"} -> "int32"
                   [] kind = "map" -> "string"
                   [] kind = "form_map" -> "form_ref"

KindFor(key) == CASE key.t = "int32" -> "integer_map"
                  [] key.t = "string" -> "map"
                  [] key.t = "form_ref" -> "form_map"

New(kind) == [kind |-> kind, at |-> <<>>]

\* Places in a container, in the order of an iteration, and the keys for them.
Places(c) ==
  LET D == DOMAIN c.at
  IN  [n \in 1 .. Cardinality(D) |-> CHOOSE k \in D : Cardinality({ j \in D : j < k }) = n - 1]
KeyAt(c, k) == CASE c.kind = "array" -> Index(k - 1)
                 [] c.kind = "integer_map" -> Index(k)
                 [] c.kind = "map" -> Name(k)
                 [] c.kind = "form_map" -> FormKey(k)

\* A key of a map as an item.
KeyItem(c, k) == CASE c.kind = "map" -> StrItem(k)
                   [] c.kind = "form_map" -> FormItem(k)
                   [] c.kind = "integer_map" -> IntItem(k)

ConvertIndex(count, pyIndex) ==
  LET i == IF pyIndex >= 0 THEN pyIndex ELSE count + pyIndex
  IN  IF i >= 0 /\ i < count THEN {i} ELSE {}

\* u_get: the place of a key, if the container has it and has keys of its type.
Place(c, key) ==
  IF key.t # KeyType(c.kind) THEN {}
  ELSE IF c.kind = "array" THEN { i + 1 : i \in ConvertIndex(Len(c.at), key.v) }
  ELSE {key.v} \intersect DOMAIN c.at

UGet(h, o, key) == { h[o].at[k] : k \in Place(h[o], key) }

\* u_set: maps take any key of their type.
Settable(c, key) == Place(c, key) # {} \/ (key.t = KeyType(c.kind) /\ c.kind # "array")

USet(h, o, key, value) ==
  LET k == IF h[o].kind = "array" THEN Only(Place(h[o], key)) ELSE key.v
  IN  [h EXCEPT ![o].at = (k :> value) @@ @]

-----------------------------------------------------------------------------
(* Indexes of scripts: array_functions *)

ConvertReadIndex(count, pyIndex) ==
  LET i == IF pyIndex >= 0 THEN pyIndex ELSE count + pyIndex
  IN  IF count > 0 /\ i < count THEN {i} ELSE {}

ConvertWriteIndex(count, pyIndex) ==
  LET i == IF pyIndex >= 0 THEN pyIndex ELSE count + pyIndex + 1
  IN  IF i <= count THEN {i} ELSE {}

-----------------------------------------------------------------------------
(* ca: the access that tests and setters use *)

\* constant_accessor: the container that all elements but the last lead to.
ConstantAccess(h, o, path) ==
  LET after[n \in 0 .. Len(path)] ==
        IF n = 0 THEN {o} ELSE ObjectsOf(UNION { UGet(h, c, path[n]) : c \in after[n - 1] })
  IN  IF path = <<>> THEN {} ELSE after[Len(path) - 1]

Get(h, o, path) == UNION { UGet(h, c, Last(path)) : c \in ConstantAccess(h, o, path) }

\* A wrong variant: what is missing is created as a map.
CreateMapOnly(s, c, path, n) ==
  IF n = Len(path) THEN USet(s, c, path[n], Null)
  ELSE Append(USet(s, c, path[n], ObjItem(Len(s) + 1)), New("map"))

\* creative_accessor where there is no item: with another element to come the new
\* item is a container whose kind the type of that key tells.
CreateItem(s, c, path, n) ==
  IF n = Len(path) THEN USet(s, c, path[n], Null)
  ELSE Append(USet(s, c, path[n], ObjItem(Len(s) + 1)), New(KindFor(path[n + 1])))

Created(h, c, path, n) ==
  IF UGet(h, c, path[n]) = {} /\ Settable(h[c], path[n]) THEN CreateItem(h, c, path, n) ELSE h

\* The heap and the container that is reached, if one is.
Reached(h, at) == [heap |-> h, at |-> at]

Entered(h, c, path, n) ==
  Reached(h, IF n = Len(path) THEN {c} ELSE ObjectsOf(UGet(h, c, path[n])))

CreativeAccess(h, o, path) ==
  LET step(s, n) ==
        IF s.at = {} THEN s
        ELSE Entered(Created(s.heap, Only(s.at), path, n), Only(s.at), path, n)
      after[n \in 0 .. Len(path)] ==
        IF n = 0 THEN Reached(h, IF path = <<>> THEN {} ELSE {o}) ELSE step(after[n - 1], n)
  IN  after[Len(path)]

Access(h, o, path, creative) ==
  IF creative THEN CreativeAccess(h, o, path) ELSE Reached(h, ConstantAccess(h, o, path))

\* visit_value: the heap to change and the item at the path, if there is one.
VisitAt(s, key) == [heap |-> s.heap, at |-> s.at, found |-> UNION { UGet(s.heap, c, key) : c \in s.at }]

VisitValue(h, o, path, creative) ==
  IF path = <<>> THEN [heap |-> h, at |-> {}, found |-> {}]
  ELSE VisitAt(Access(h, o, path, creative), Last(path))

\* The visited item becomes value, if there is one.
Visited(r, path, value) ==
  [heap |-> IF r.found = {} THEN r.heap ELSE USet(r.heap, Only(r.at), Last(path), value),
   succeed |-> r.found # {}]

\* assign: the creative way sets the key whether it has an item or not.
AssignAt(s, path, value) ==
  IF s.at # {} /\ Settable(s.heap[Only(s.at)], Last(path))
  THEN [heap |-> USet(s.heap, Only(s.at), Last(path), value), succeed |-> TRUE]
  ELSE [heap |-> s.heap, succeed |-> FALSE]

Assign(h, o, path, value, creative) ==
  IF creative THEN AssignAt(CreativeAccess(h, o, path), path, value)
  ELSE Visited(VisitValue(h, o, path, FALSE), path, value)

-----------------------------------------------------------------------------
(* path_resolving: what getters use *)

\* A wrong variant: the rule for "[" knows no integer maps.
RuleWithoutIntegerMap(h, o, key) ==
  IF key.t = "string" THEN IF h[o].kind = "map" THEN UGet(h, o, key) ELSE {}
  ELSE CASE h[o].kind = "array" -> UGet(h, o, Index(IF key.t = "int32" THEN key.v ELSE 0))
         [] h[o].kind = "form_map" -> UGet(h, o, FormKey(IF key.t = "form_ref" THEN key.v ELSE 0))
         [] OTHER -> {}

\* mapRule and arrayRule: a form between brackets reads as index 0 of an array or
\* an integer map, a number as the form 0 of a form map.
Rule(h, o, key) ==
  IF key.t = "string" THEN IF h[o].kind = "map" THEN UGet(h, o, key) ELSE {}
  ELSE CASE h[o].kind \in {"array", "integer_map"} ->
              UGet(h, o, Index(IF key.t = "int32" THEN key.v ELSE 0))
         [] h[o].kind = "form_map" -> UGet(h, o, FormKey(IF key.t = "form_ref" THEN key.v ELSE 0))
         [] OTHER -> {}

\* A path that goes on where an item is missing, or is no object, yields nothing.
Resolve(h, o, path) ==
  FoldLeft(LAMBDA node, key : UNION { Rule(h, c, key) : c \in ObjectsOf(node) },
           {ObjItem(o)}, path)

\* resolve for an item: a value that is no object has the empty path only.
ResolveItem(h, i, path) ==
  IF i.type = Object THEN Resolve(h, i.value, path)
  ELSE IF path = <<>> THEN {i} ELSE {}

-----------------------------------------------------------------------------
(* Collection operators *)

Greater(i, j) == IF i.value > j.value THEN i.value ELSE j.value
Lesser(i, j) == IF i.value < j.value THEN i.value ELSE j.value

\* A wrong variant: the maximum starts at 0.
ApplyFromZero(op, val, state) ==
  CASE op = "maxInt" -> IF val.type = Integer THEN IntItem(Greater(val, state)) ELSE state
    [] op = "minInt" -> IF val.type = Integer THEN IntItem(Lesser(val, state)) ELSE state
    [] OTHER -> state

\* Of numbers of both types the result is a float as soon as there are two.
Apply(op, val, state) ==
  LET takes == CASE op \in {"maxInt", "minInt"} -> val.type = Integer
                 [] op \in {"maxFlt", "minFlt"} -> val.type = Real
                 [] op \in {"maxNum", "minNum"} -> IsNumber(val)
      best == IF op \in {"maxInt", "maxFlt", "maxNum"} THEN Greater(val, state) ELSE Lesser(val, state)
  IN  IF ~takes THEN state
      ELSE IF state = Null THEN val
      ELSE IF op \in {"maxInt", "minInt"} THEN IntItem(best) ELSE FltItem(best)

\* operatorRule: the container at path, the operator, and what follows it.  For a
\* map that is ".key" or ".value" and a path from there (part), for an array a path.
ResolveOperator(h, o, path, op, part, rest) ==
  LET over(c) ==
        LET visited(k) == IF h[c].kind = "array" \/ part = "value" THEN h[c].at[k]
                          ELSE KeyItem(h[c], k)
            visit(state, k) ==
              LET found == ResolveItem(h, visited(k), rest)
              IN  IF found = {} THEN state ELSE Apply(op, Only(found), state)
        IN  FoldLeft(visit, Null, Places(h[c]))
  IN  { over(c) : c \in ObjectsOf(Resolve(h, o, path)) }
=============================================================================
