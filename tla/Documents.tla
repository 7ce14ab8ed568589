------------------------------- MODULE Documents -------------------------------
(***************************************************************************)
(* Deep copies, and JSON documents written and read back.                  *)
(*                                                                         *)
(*   collections/copying.h              a graph of containers is copied    *)
(*   collections/json_serialization.h   or written as a tree, where an     *)
(*                                      object that was written already is *)
(*                                      a string "__reference|path"        *)
(***************************************************************************)
EXTENDS Containers, FormHandling

-----------------------------------------------------------------------------
(* copying *)

\* A wrong variant: the copy is not remembered.
UniqueCopyForgotten(s, origin) ==
  LET copy == Len(s.heap) + 1
  IN  [heap |-> Append(s.heap, s.heap[origin]),
       copied |-> [x \in DOMAIN s.copied \union {origin} |-> copy],
       todo |-> Append(s.todo, copy)]

\* unique_copy: the copy made before, or a shallow one whose items are still to do.
UniqueCopy(s, origin) ==
  LET copy == Len(s.heap) + 1
  IN  IF origin \in DOMAIN s.copied THEN s
      ELSE [heap |-> Append(s.heap, s.heap[origin]),
            copied |-> (origin :> copy) @@ s.copied,
            todo |-> Append(s.todo, copy)]

\* copy_child_objects, for the next copy.
CopyChildObjects(s) ==
  LET c == Head(s.todo)
      child(t, k) ==
        LET i == t.heap[c].at[k]
            u == UniqueCopy(t, i.value)
        IN  IF i.type = Object THEN [u EXCEPT !.heap[c].at[k] = ObjItem(u.copied[i.value])] ELSE t
  IN  FoldLeft(child, [s EXCEPT !.todo = Tail(@)], Places(s.heap[c]))

\* The copy of an object of h, the first of the new ones.
DeepCopy(h, origin) ==
  FoldLeft(LAMBDA s, n : IF s.todo = <<>> THEN s ELSE CopyChildObjects(s),
           UniqueCopy([heap |-> h, copied |-> <<>>, todo |-> <<>>], origin), h).heap

ShallowCopy(h, origin) == Append(h, h[origin])

-----------------------------------------------------------------------------
(* json_serializer *)

\* The key of a place in a document: a form is a string there, or left out.
DocumentKeys(c, k) == IF c.kind = "form_map" THEN FormToString(k) ELSE {k}
WrittenPlaces(c) == SelectSeq(Places(c), LAMBDA k : DocumentKeys(c, k) # {})

\* Strings "__reference|path" and "__formData|mod|number" in a document.
ReferenceText == 7
FormText == 8
Reference(path) == [type |-> ReferenceText, value |-> path]

\* create_value for an item that is no object.
Written(i) ==
  LET texts == FormToString(i.value)
  IN  IF i.type # FormType THEN i
      ELSE IF texts = {} THEN Null ELSE [type |-> FormText, value |-> CHOOSE t \in texts : TRUE]

\* fill_json_object for the next object that has a placeholder: an object seen for
\* the first time gets one, and the way to it through this container is its path.
FillJsonObject(s, n) ==
  LET o == s.found[n]
      see(t, k) ==
        LET i == t.heap[o].at[k]
        IN  IF i.type # Object \/ i.value \in DOMAIN t.path THEN t
            ELSE [t EXCEPT !.found = Append(@, i.value),
                           !.path = (i.value :> Append(t.path[o], KeyAt(t.heap[o], k))) @@ @]
  IN  IF n > Len(s.found) THEN s ELSE FoldLeft(see, s, WrittenPlaces(s.heap[o]))

Serialized(h, root) ==
  FoldLeft(FillJsonObject, [heap |-> h, found |-> <<root>>, path |-> (root :> <<>>)],
           [n \in 1 .. Len(h) |-> n])

\* The document: its objects in the order of their placeholders, the root first.
\* The item that made an object's placeholder holds it, any other one a reference.
Write(h, root) ==
  LET s == Serialized(h, root)
      place(x) == CHOOSE n \in 1 .. Len(s.found) : s.found[n] = x
      value(o, k) ==
        LET i == h[o].at[k]
            holds == s.path[i.value] = Append(s.path[o], KeyAt(h[o], k))
        IN  IF i.type # Object THEN Written(i)
            ELSE IF holds THEN ObjItem(place(i.value)) ELSE Reference(s.path[i.value])
      written(c) == UNION { DocumentKeys(c, k) : k \in DOMAIN c.at }
  IN  [n \in 1 .. Len(s.found) |->
         LET c == h[s.found[n]]
         IN  [kind |-> c.kind,
              at |-> [key \in written(c) |->
                        value(s.found[n], CHOOSE k \in DOMAIN c.at : key \in DocumentKeys(c, k))]]]

-----------------------------------------------------------------------------
(* json_deserializer *)

\* A path with forms as strings is read element by element.
Parsed(key) ==
  IF key.t # "form_ref" THEN {key}
  ELSE { FormKey(f) : f \in UNION { StringToForm(t) : t \in FormToString(key.v) } }

AtPath(h, root, path) ==
  IF \E n \in DOMAIN path : Parsed(path[n]) = {} THEN {}
  ELSE ObjectsOf(Get(h, root, [n \in DOMAIN path |-> CHOOSE key \in Parsed(path[n]) : TRUE]))

\* A wrong variant: the empty path is not known as the root's.
ReferredNotRoot(h, root, path) == AtPath(h, root, path)

\* resolve_references: the object at a path, "" is the root.
Referred(h, root, path) == IF path = <<>> THEN {root} ELSE AtPath(h, root, path)

\* The places that the keys of a document become.
ReadPlaces(kind, key) == IF kind = "form_map" THEN StringToForm(key) ELSE {key}

\* fill_object: items are what make_item made of the document's values.
Filled(node, items) ==
  [kind |-> node.kind,
   at |-> [k \in UNION { ReadPlaces(node.kind, key) : key \in DOMAIN node.at } |->
             items[CHOOSE key \in DOMAIN node.at : k \in ReadPlaces(node.kind, key)]]]

\* make_item for an item that is no reference: the form 0 where the mod of a form's
\* string is not loaded.
Made(base, i) ==
  IF i.type = Object THEN ObjItem(base + i.value)
  ELSE IF i.type = FormText THEN FormItem(CHOOSE f \in StringToForm(i.value) \union {0} :
                                            StringToForm(i.value) # {} => f \in StringToForm(i.value))
  ELSE i

\* _object_from_json: placeholders are filled, references stay null until the end and
\* for ever where the path leads to no object.  Returns the heap; the root is the
\* first new object.  The paths of a document lead through placeholders only, so the
\* order in which references are resolved does not matter.
Read(h, document) ==
  LET filled(resolved) ==
        h \o [n \in 1 .. Len(document) |->
                Filled(document[n], [key \in DOMAIN document[n].at |->
                  LET i == document[n].at[key]
                  IN  IF i.type = ReferenceText THEN resolved[i.value] ELSE Made(Len(h), i)])]
      references(at) == { at[k].value : k \in { x \in DOMAIN at : at[x].type = ReferenceText } }
      paths == UNION { references(document[n].at) : n \in DOMAIN document }
      unresolved == filled([path \in paths |-> Null])
  IN  filled([path \in paths |->
        LET xs == Referred(unresolved, Len(h) + 1, path)
        IN  IF xs = {} THEN Null ELSE ObjItem(Only(xs))])

-----------------------------------------------------------------------------
(* What copies and documents should preserve *)

\* What the objects of S refer to, and what can be reached from an object.
Children(h, S) == UNION { ObjectsOf({ h[o].at[k] : k \in DOMAIN h[o].at }) : o \in S }
Reachable(h, o) == FoldLeft(LAMBDA S, x : S \union Children(h, S), {o}, h)

\* The graphs of two objects are the same but for the objects' identities: scalars,
\* sharing and cycles included.
Isomorphic(h, o, g, p) ==
  \E f \in [Reachable(h, o) -> Reachable(g, p)] :
    /\ f[o] = p
    /\ \A x, y \in DOMAIN f : f[x] = f[y] => x = y
    /\ \A x \in DOMAIN f :
         /\ g[f[x]].kind = h[x].kind
         /\ DOMAIN g[f[x]].at = DOMAIN h[x].at
         /\ \A k \in DOMAIN h[x].at :
              LET i == h[x].at[k]
              IN  g[f[x]].at[k] = IF i.type = Object THEN ObjItem(f[i.value]) ELSE i
=============================================================================
