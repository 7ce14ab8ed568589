------------------------------- MODULE ScriptApi -------------------------------
(***************************************************************************)
(* What scripts do with containers: JArray, JMap, JIntMap, JFormMap,       *)
(* JValue, JDB, JFormDB and JAtomic.                                       *)
(*                                                                         *)
(*   api_3/tes_array.h, tes_map.h, tes_object.h     containers             *)
(*   api_3/tes_db.h, tes_form_db.h                  the root and entries   *)
(*   api_3/tes_atomic.h                             atomic access          *)
(*                                                                         *)
(* The state is the heap of one domain, its root, a map, at 1.  Each call  *)
(* is one step: it holds the lock of a container whenever it reads or      *)
(* changes it, and scripts that work on the same containers at the same    *)
(* time are not modelled.  Nor are lifetimes: no object disappears.        *)
(* What calls return is an operator where properties are about it.         *)
(***************************************************************************)
EXTENDS Files

CONSTANTS Names,     \* the names of keys in maps
          IntKeys,   \* the keys of integer maps
          Numbers,   \* the integers among items
          Forms,     \* the forms, keys of form maps
          Paths,     \* the paths of scripts
          PoolKey,   \* the name of the map of pools, "__tempPools"
          MaxCells,  \* bound: containers
          MaxItems   \* bound: items in all containers together

ASSUME ScriptApiAssumption ==
  /\ Names \subseteq Nat /\ IntKeys \subseteq Int /\ Numbers \subseteq Int /\ Forms \subseteq FormIds \ {0}
  /\ PoolKey \in Nat
  /\ MaxCells \in Nat \ {0} /\ MaxItems \in Nat
  /\ \A p \in Paths : \A n \in DOMAIN p :
       \/ p[n] \in { Name(a) : a \in Names } \union { FormKey(f) : f \in Forms }
       \/ p[n].v \in Int /\ p[n] = Index(p[n].v)

VARIABLE heap

Root == 1
Kinds == {"array", "map", "integer_map", "form_map"}
Objects == DOMAIN heap
Arrays == { o \in Objects : heap[o].kind = "array" }
Maps == Objects \ Arrays

\* Calls with a path, and arguments for Lua, are those for integers.
IntItems == { IntItem(n) : n \in Numbers }

\* What a script may pass as a value.
Values == {Null} \union IntItems \union { ObjItem(o) : o \in Objects }

\* The keys a script may pass to a map of some kind.
KeysFor(kind) == CASE kind = "map" -> { Name(n) : n \in Names }
                   [] kind = "integer_map" -> { Index(n) : n \in IntKeys }
                   [] kind = "form_map" -> { FormKey(f) : f \in Forms }

ItemCount(h) == FoldLeft(LAMBDA n, c : n + Cardinality(DOMAIN c.at), 0, h)

\* A call leaves h behind; one that changes nothing is a stuttering step.
Becomes(h) ==
  /\ h # heap
  /\ Len(h) <= MaxCells
  /\ ItemCount(h) <= MaxItems
  /\ heap' = h

Init == heap = <<New("map")>>

-----------------------------------------------------------------------------
(* JArray.  Scripts' indexes count back to the last item, or to the end, only: the *)
(* other items have the same index from the start.                                *)

Positions(o) == -1 .. Len(heap[o].at)

ArrayBecomes(o, a) == Becomes([heap EXCEPT ![o].at = a])

Inserted(a, i, b) == SubSeq(a, 1, i) \o b \o SubSeq(a, i + 1, Len(a))
Erased(a, first, last) == SubSeq(a, 1, first) \o SubSeq(a, last + 2, Len(a))

ObjectWithSize(n) == Becomes(Append(heap, [New("array") EXCEPT !.at = [i \in 1 .. n |-> Null]]))

AddItemAt(o, value, pyIndex) ==
  \E i \in ConvertWriteIndex(Len(heap[o].at), pyIndex) :
    ArrayBecomes(o, Inserted(heap[o].at, i, <<value>>))

AddFromArray(o, another, pyIndex) ==
  /\ o # another
  /\ \E i \in ConvertWriteIndex(Len(heap[o].at), pyIndex) :
       ArrayBecomes(o, Inserted(heap[o].at, i, heap[another].at))

\* One form after the other is inserted at the same place, each without its mod.
AddFromFormList(o, forms, pyIndex) ==
  \E i \in ConvertWriteIndex(Len(heap[o].at), pyIndex) :
    ArrayBecomes(o, FoldLeft(LAMBDA a, f : Inserted(a, i, <<FormItem(WeakFormId(f))>>), heap[o].at, forms))

ReplaceItemAtIndex(o, pyIndex, value) ==
  \E i \in ConvertReadIndex(Len(heap[o].at), pyIndex) :
    ArrayBecomes(o, [heap[o].at EXCEPT ![i + 1] = value])

EraseIndex(o, pyIndex) ==
  \E i \in ConvertReadIndex(Len(heap[o].at), pyIndex) :
    ArrayBecomes(o, Erased(heap[o].at, i, i))

EraseRange(o, first, last) ==
  \E i \in ConvertIndex(Len(heap[o].at), first),
     j \in ConvertIndex(Len(heap[o].at), last) :
    i <= j /\ ArrayBecomes(o, Erased(heap[o].at, i, j))

EraseItem(o, value) == ArrayBecomes(o, SelectSeq(heap[o].at, LAMBDA i : i # value))

SwapItems(o, first, second) ==
  \E i \in ConvertIndex(Len(heap[o].at), first),
     j \in ConvertIndex(Len(heap[o].at), second) :
    ArrayBecomes(o, [heap[o].at EXCEPT ![i + 1] = heap[o].at[j + 1], ![j + 1] = heap[o].at[i + 1]])

Sorted(a) == SortSeq(a, Less)

\* std::unique: of equal neighbours the first stays.
Unique(a) == FoldLeft(LAMBDA b, i : IF b # <<>> /\ Last(b) = i THEN b ELSE Append(b, i), <<>>, Sorted(a))

Rearrange(o) == \E a \in {Sorted(heap[o].at), Unique(heap[o].at), Reverse(heap[o].at)} :
                  ArrayBecomes(o, a)

SubArray(o, start, end) ==
  /\ 0 <= start /\ start < end /\ end <= Len(heap[o].at)
  /\ Becomes(Append(heap, [New("array") EXCEPT !.at = SubSeq(heap[o].at, start + 1, end)]))

JArray ==
  \/ \E n \in 0 .. MaxItems : ObjectWithSize(n)
  \/ \E o \in Arrays :
       \/ \E value \in Values :
            \/ \E i \in Positions(o) : AddItemAt(o, value, i)
            \/ \E i \in Positions(o) : ReplaceItemAtIndex(o, i, value)
            \/ EraseItem(o, value)
       \/ \E another \in Arrays, i \in Positions(o) : AddFromArray(o, another, i)
       \/ \E f \in Forms, i \in Positions(o) : AddFromFormList(o, <<f>>, i)
       \/ \E i \in Positions(o) : EraseIndex(o, i)
       \/ \E i, j \in Positions(o) : EraseRange(o, i, j) \/ SwapItems(o, i, j) \/ SubArray(o, i, j)
       \/ Rearrange(o)

-----------------------------------------------------------------------------
(* JMap, JIntMap, JFormMap, and what JValue does with any container *)

Create(kind) == Becomes(Append(heap, New(kind)))

SetItem(o, key, value) == Becomes(USet(heap, o, key, value))

InsertItem(o, key, value) == UGet(heap, o, key) = {} /\ SetItem(o, key, value)

Without(at, k) == [x \in DOMAIN at \ {k} |-> at[x]]

RemoveKey(o, key) ==
  \E k \in Place(heap[o], key) : Becomes([heap EXCEPT ![o].at = Without(@, k)])

AddPairs(o, source, overrideDuplicates) ==
  /\ o # source
  /\ heap[o].kind = heap[source].kind
  /\ Becomes([heap EXCEPT ![o].at = IF overrideDuplicates THEN heap[source].at @@ @
                                    ELSE @ @@ heap[source].at])

AllValues(o) == Becomes(Append(heap, [New("array") EXCEPT
                  !.at = [i \in 1 .. Cardinality(DOMAIN heap[o].at) |->
                            heap[o].at[Places(heap[o])[i]]]]))

AllKeys(o) == Becomes(Append(heap, [New("array") EXCEPT
                !.at = [i \in 1 .. Cardinality(DOMAIN heap[o].at) |->
                          KeyItem(heap[o], Places(heap[o])[i])]]))

Clear(o) == Becomes([heap EXCEPT ![o].at = <<>>])

SolveSetter(o, path, value, createMissingKeys) ==
  Becomes(Assign(heap, o, path, value, createMissingKeys).heap)

\* The type of what a path leads to, no_item if it leads nowhere.
NoItem == 0
SolvedValueType(h, o, path) ==
  LET found == Get(h, o, path) IN IF found = {} THEN NoItem ELSE Only(found).type

HasPath(h, o, path) == SolvedValueType(h, o, path) # NoItem

\* What solveInt and the other getters read: the default if the path leads nowhere.
ResolveGetter(h, o, path, default) ==
  LET found == Resolve(h, o, path) IN IF found = {} THEN default ELSE Only(found)

\* JLua.setStr and the others: an argument for a script in Lua is put into the map
\* they are passed, or into a new one.
PushArg(key, value, transport) ==
  IF transport = 0
  THEN Becomes(USet(Append(heap, New("map")), Len(heap) + 1, key, value))
  ELSE SetItem(transport, key, value)

\* deepCopy, shallowCopy, and a document written and read again.
Copy(o) ==
  /\ Len(heap) < MaxCells
  /\ \E h \in {DeepCopy(heap, o), ShallowCopy(heap, o), Read(heap, ToJsonString(heap, o))} : Becomes(h)

JMapAndJValue ==
  \/ \E kind \in Kinds : Create(kind)
  \/ \E o \in Maps :
       \/ \E key \in KeysFor(heap[o].kind) :
            \/ RemoveKey(o, key)
            \/ \E value \in Values : SetItem(o, key, value) \/ InsertItem(o, key, value)
       \/ \E source \in Maps, override \in BOOLEAN : AddPairs(o, source, override)
       \/ AllValues(o)
       \/ AllKeys(o)
  \/ \E n \in Names, value \in IntItems, transport \in {0} \union { o \in Maps : heap[o].kind = "map" } :
       PushArg(Name(n), value, transport)
  \/ \E o \in Objects :
       \/ Clear(o)
       \/ Copy(o)
       \/ \E path \in Paths, value \in IntItems, create \in BOOLEAN :
            SolveSetter(o, path, value, create)

-----------------------------------------------------------------------------
(* JDB, whose functions are those above for the root, pools, and JFormDB *)

SetObj(key, o) ==
  IF o = 0 THEN RemoveKey(Root, key) ELSE SetItem(Root, key, ObjItem(o))

\* The object of a kind that a container has at a key.
ObjectAt(h, o, key, kinds) == { x \in ObjectsOf(UGet(h, o, key)) : h[x].kind \in kinds }

\* A container of a heap: one that is known, or the new one that h ends with.
At(h, o) == [heap |-> h, at |-> o]

\* A wrong variant: a new storage is not made known to the root.
UnstoredFormStorage(h, storageName) ==
  LET known == ObjectAt(h, Root, storageName, {"form_map"})
  IN  IF known # {} THEN At(h, Only(known))
      ELSE At(Append(h, New("form_map")), Len(h) + 1)

MakeFormStorage(h, storageName) ==
  LET known == ObjectAt(h, Root, storageName, {"form_map"})
  IN  IF known # {} THEN At(h, Only(known))
      ELSE At(USet(Append(h, New("form_map")), Root, storageName, ObjItem(Len(h) + 1)), Len(h) + 1)

EntryOf(s, form) ==
  LET known == ObjectAt(s.heap, s.at, form, {"map"})
      entry == Len(s.heap) + 1
  IN  IF known # {} THEN At(s.heap, Only(known))
      ELSE At(USet(Append(s.heap, New("map")), s.at, form, ObjItem(entry)), entry)

MakeMapEntry(h, storageName, form) == EntryOf(MakeFormStorage(h, storageName), form)

\* What is at the path of a pool, if it is an array; a new array is put there else.
Pool(r, path) ==
  LET known == { x \in ObjectsOf(r.found) : r.heap[x].kind = "array" }
      fresh == Len(r.heap) + 1
  IN  IF known # {} THEN At(r.heap, Only(known))
      ELSE At(Assign(Append(r.heap, New("array")), Root, path, ObjItem(fresh), FALSE).heap, fresh)

Pushed(s, value) == [s.heap EXCEPT ![s.at].at = Append(@, value)]

\* addToPool: the pool is an array below the root, made when it is missing or no array.
AddToPool(value, poolName) ==
  LET path == <<Name(PoolKey), Name(poolName)>>
      r == VisitValue(heap, Root, path, TRUE)
  IN  r.found # {} /\ Becomes(Pushed(Pool(r, path), value))

CleanPool(poolName) ==
  \E pools \in ObjectAt(heap, Root, Name(PoolKey), {"map"}) : RemoveKey(pools, Name(poolName))

FindEntry(h, storageName, form) ==
  UNION { ObjectsOf(UGet(h, fmap, form)) : fmap \in ObjectAt(h, Root, storageName, {"form_map"}) }

FindMapEntry(h, storageName, form) ==
  { x \in FindEntry(h, storageName, form) : h[x].kind = "map" }

\* Paths of JFormDB: ".storage" and something more.  As a key (is_key) what follows
\* the mark of the second element is used, as a path the mark as well.
FormPaths == { p \in Paths : Len(p) > 1 /\ p[1].t = "string" }
KeyPaths == { p \in FormPaths : Len(p) = 2 /\ p[2].t = "string" }

Stored(e, key, value) == USet(e.heap, e.at, key, value)

FormDbSetItem(h, form, path, value) == Stored(MakeMapEntry(h, path[1], form), path[2], value)

FormDbGetItem(h, form, path) ==
  UNION { UGet(h, e, path[2]) : e \in FindMapEntry(h, path[1], form) }

Solved(e, path, value, createMissingKeys) == Assign(e.heap, e.at, path, value, createMissingKeys)

\* The entry is created whether keys are to be created or not.
FormDbSolveSetter(h, form, path, value, createMissingKeys) ==
  Solved(MakeMapEntry(h, path[1], form), Tail(path), value, createMissingKeys)

FormDbSolveGetter(h, form, path) ==
  UNION { Resolve(h, e, Tail(path)) : e \in FindEntry(h, path[1], form) }

SetEntry(storageName, form, o) ==
  IF o # 0
  THEN Becomes(Stored(MakeFormStorage(heap, storageName), form, ObjItem(o)))
  ELSE \E fmap \in ObjectAt(heap, Root, storageName, {"form_map"}) : RemoveKey(fmap, form)

\* The setters with a path, allKeys and allValues are above, for the root among all.
JDB ==
  \/ \E n \in Names :
       \/ CleanPool(n)
       \/ \E o \in Objects : AddToPool(ObjItem(o), n)
  \/ \E n \in Names, o \in Objects \union {0} : SetObj(Name(n), o)

JFormDB ==
  \/ \E n \in Names, f \in Forms :
       \/ Becomes(MakeMapEntry(heap, Name(n), FormKey(f)).heap)
       \/ \E o \in Objects \union {0} : SetEntry(Name(n), FormKey(f), o)
       \/ \E x \in FindMapEntry(heap, Name(n), FormKey(f)) : AllKeys(x) \/ AllValues(x)
  \/ \E f \in Forms, value \in IntItems :
       \/ \E path \in KeyPaths : Becomes(FormDbSetItem(heap, FormKey(f), path, value))
       \/ \E path \in FormPaths, create \in BOOLEAN :
            Becomes(FormDbSolveSetter(heap, FormKey(f), path, value, create).heap)

-----------------------------------------------------------------------------
(* JAtomic, for integers *)

\* The functions of fetchAdd and exchange.
Applied(func, x, y) == IF func = "plus" THEN x + y ELSE y

\* performAtomicFunction_: None is replaced, an item of another type left alone.
Performed(func, i, input, initial) ==
  CASE i = Null -> IntItem(Applied(func, initial, input))
    [] i.type = Integer -> IntItem(Applied(func, i.value, input))
    [] OTHER -> i

\* fetchAdd, with what leads to the numbers of the instance.
FetchAdd(i) ==
  { x \in { Performed("plus", i, m - n, 0) : m \in Numbers, n \in Numbers \union {0} } :
      x.type = Integer => x.value \in Numbers }

\* compareExchange.
CompareExchange(i, desired, expected) == IF i = IntItem(expected) THEN IntItem(desired) ELSE i

\* What a call may make of the item it visits.
PerformAtomicFunction(i) ==
  FetchAdd(i)
    \union { Performed("exchange", i, n, n) : n \in Numbers }
    \union { CompareExchange(i, m, n) : m \in Numbers, n \in Numbers }

\* A path that leads to no item has created none.
JAtomic ==
  \E o \in Objects, path \in Paths, create \in BOOLEAN :
    \E r \in {VisitValue(heap, o, path, create)} :
      \E i \in r.found : \E value \in PerformAtomicFunction(i) :
        Becomes(Visited(r, path, value).heap)

Next == JArray \/ JMapAndJValue \/ JDB \/ JFormDB \/ JAtomic

Spec == Init /\ [][Next]_heap

-----------------------------------------------------------------------------
(* Properties *)

\* JValue.deepCopy of any graph of containers, shared and cyclic ones included,
\* yields the same graph made of new objects only, and changes no other object.
DeepCopyIsSeparate ==
  \A o \in Objects :
    LET h == DeepCopy(heap, o)
        copy == Len(heap) + 1
    IN  /\ Isomorphic(heap, o, h, copy)
        /\ SubSeq(h, 1, Len(heap)) = heap
        /\ Reachable(h, copy) \intersect Objects = {}

\* What JValue.writeToFile writes among other files readFromDirectory reads back as the
\* same graph: the references of a document find the very objects that stood there, and
\* the strings for forms name the forms, in whatever mod, light mods left out.  Files
\* that are no documents or have another extension are not in the map.  JContainers
\* lists the files that are read, and removes the one that was written, or all.
DocumentsReadBack ==
  LET file(n, extension) == FilePath("JCData", n, extension)
      others == (file(1, ".json") :> NoDocument) @@ (file(2, ".txt") :> ToJsonString(heap, Root))
  IN  \A o \in Objects :
        LET files == WriteToFile(others, heap, o, file(3, ".json"))
            h == ReadFromDirectory(files, heap, "JCData", ".json")
            read == h[Len(heap) + 1].at
        IN  /\ DOMAIN read = {3}
            /\ Isomorphic(heap, o, h, read[3].value)
            /\ FilesIn(files, "JCData", ".json") \subseteq ContentsOfDirectoryAtPath(files, "JCData", ".json")
            /\ RemoveFileAtPath(files, file(3, ".json")) = others
            /\ ~FileExistsAtPath(RemoveFileAtPath(files, DirectoryPath("JCData")), file(3, ".json"))

\* No object below o contains itself.
Acyclic(h, o) ==
  \A x \in Reachable(h, o) : \A y \in Children(h, {x}) : x \notin Reachable(h, y)

\* The items of the containers of heap that differ in h, new ones included.
Changed(h) ==
  UNION { {o} \X { k \in DOMAIN heap[o].at \union DOMAIN h[o].at :
                     \/ k \notin DOMAIN heap[o].at
                     \/ k \notin DOMAIN h[o].at
                     \/ heap[o].at[k] # h[o].at[k] } : o \in Objects }

\* A setter with createMissingKeys that returns true is read back by the getter,
\* if no object contains itself, and has changed one item of what there was; one
\* that returns false has not left half of the path behind, the path being well-formed.
CreativeSetterReadsBack ==
  \A o \in Objects, p \in Paths :
    LET r == Assign(heap, o, p, IntItem(0), TRUE)
    IN  IF r.succeed
        THEN /\ Acyclic(heap, o) => Resolve(r.heap, o, p) = {IntItem(0)}
             /\ Cardinality(Changed(r.heap)) <= 1
        ELSE r.heap = heap

\* The two implementations of paths agree: what hasPath finds the getters find, of the
\* type solvedValueType says, and conversely if the path has no form between brackets.
PathsAgree ==
  \A o \in Objects, p \in Paths \ {<<>>} :
    LET missing == [type |-> NoItem]
        got == ResolveGetter(heap, o, p, missing)
    IN  /\ HasPath(heap, o, p) => got.type = SolvedValueType(heap, o, p)
        /\ Get(heap, o, p) \subseteq Resolve(heap, o, p)
        /\ (\A n \in DOMAIN p : p[n].t # "form_ref") => (HasPath(heap, o, p) <=> got # missing)

\* Whatever a mod has stored in JDB under the storage's name, an item that JFormDB
\* sets its two getters find, if no object contains itself.
FormDbReadsBack ==
  \A f \in Forms, p \in KeyPaths :
    Acyclic(heap, Root) =>
      LET h == FormDbSetItem(heap, FormKey(f), p, IntItem(0))
      IN  /\ FormDbGetItem(h, FormKey(f), p) = {IntItem(0)}
          /\ FormDbSolveGetter(h, FormKey(f), p) = {IntItem(0)}

\* After JArray.unique the array is a set, whatever types its items have: what is
\* equal has become neighbours by the order of items.
UniqueIsSet ==
  \A o \in Arrays :
    LET a == Unique(heap[o].at)
    IN  /\ \A i, j \in DOMAIN a : a[i] = a[j] => i = j
        /\ { a[i] : i \in DOMAIN a } = { heap[o].at[i] : i \in DOMAIN heap[o].at }

\* "@maxInt" and "@minInt" are the extremes of a container's integers, negative ones
\* and other items among them or not.
OperatorsPick ==
  \A o \in Objects :
    LET ints == { heap[o].at[k].value :
                    k \in { x \in DOMAIN heap[o].at : heap[o].at[x].type = Integer } }
        picked(op) == ResolveOperator(heap, o, <<>>, op, "value", <<>>)
    IN  /\ picked("maxInt") = IF ints = {} THEN {Null} ELSE {IntItem(Max(ints))}
        /\ picked("minInt") = IF ints = {} THEN {Null} ELSE {IntItem(Min(ints))}
=============================================================================
