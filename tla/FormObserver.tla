---------------------------- MODULE FormObserver ----------------------------
(***************************************************************************)
(* References to the game's forms: entries that every reference to a form  *)
(* shares, the observer that watches them through weak pointers, and the   *)
(* keys of a form map, which change their order when a form is deleted.    *)
(*                                                                         *)
(*   forms/form_observer.h, .hpp      entries, references, the observer    *)
(*   collections/collections_types.h  form_map                             *)
(*   collections/bind_traits.h        forms as arguments of an API call    *)
(*   collections/functions.h, api_3/tes_map.h                              *)
(*                                    operations on a form map             *)
(*                                                                         *)
(* The game creates and deletes forms and tells the observer of a deletion *)
(* at once.  A call that takes a form runs in steps of its thread: the     *)
(* argument arrives, the form is watched, the container is written.  Each  *)
(* locked region is one step.  Saving and loading happen between calls.    *)
(***************************************************************************)
EXTENDS Naturals, Sequences, FiniteSets, SequencesExt

CONSTANTS Forms,        \* the form identifiers in use
          TextForms,    \* those that scripts name in text: JSON, paths, Lua
          LocalFormID,  \* what TESForm::GetLocalFormID makes of an identifier
          Slots,        \* the places for a form as a value in a container
          Threads,
          MaxEntries,   \* bound: entries of one identifier at a time
          MaxKeys       \* bound: keys in the form map

ASSUME FormAssumption ==
  /\ Forms \subseteq Nat \ {0}
  /\ TextForms \subseteq Forms
  /\ LocalFormID \in [Forms -> Forms]
  /\ MaxEntries \in Nat
  /\ MaxKeys \in Nat

VARIABLES
  exists,     \* the forms the game has
  deleted,    \* the entries whose _deleted is set
  watched,    \* _watched_forms: the cell of the watched entry, 0 for none
  value,      \* the form an item of a container refers to
  keys,       \* the keys of a form map in the order of the map
  iteration,  \* the last key a script's loop over the form map was given
  call,       \* the call each thread is in
  saved       \* what the last save wrote

vars == <<exists, deleted, watched, value, keys, iteration, call, saved>>

-----------------------------------------------------------------------------
(* Entries and references *)

\* An entry for form f and the memory cell it is in.  A form_ref is a pointer to an entry or null.
Entries == Forms \X (1 .. MaxEntries)
Null == <<0, 0>>
Refs == Entries \union {Null}

IsExpired(ref) == ref = Null \/ ref \in deleted

GetRaw(ref) == ref[1]

Get(ref) == IF IsExpired(ref) THEN 0 ELSE GetRaw(ref)

\* A wrong variant: by what get() returns, which changes when a form is deleted.
StableRankByGet(ref) == 2 * Get(ref) + (IF IsExpired(ref) THEN 1 ELSE 0)

\* stable_less_comparer: by raw identifier, the expired after the living.
StableRank(ref) == 2 * GetRaw(ref) + (IF IsExpired(ref) THEN 1 ELSE 0)

\* What containers and calls refer to: the entries that are not freed.
Held ==
  ({ value[s] : s \in Slots } \union { keys[i] : i \in DOMAIN keys }
     \union { call[t].ref : t \in Threads }) \ {Null}

\* weak_ptr::lock on the observer's entry for f: null when nothing holds it.
LockWeak(f) == IF <<f, watched[f]>> \in Held THEN <<f, watched[f]>> ELSE Null

-----------------------------------------------------------------------------
(* Calls *)

\* fn "setForm"    a form argument stored as a value (form_ref)
\*    "setKey"     a form argument that becomes a key (form_ref_lightweight)
\*    "jsonValue"  an identifier read from text, stored as a value
Frame(pc, fn, form, ref) == [pc |-> pc, fn |-> fn, form |-> form, ref |-> ref]
Idle == Frame("idle", "none", 0, Null)

Fns == {"setForm", "setKey", "jsonValue"}

AllIdle == \A t \in Threads : call[t] = Idle

Init ==
  /\ exists = {}
  /\ deleted = {}
  /\ watched = [f \in Forms |-> 0]
  /\ value = [s \in Slots |-> Null]
  /\ keys = <<>>
  /\ iteration = 0
  /\ call = [t \in Threads |-> Idle]
  /\ saved = [value |-> value, keys |-> keys, watched |-> {}]

\* The game makes a form, possibly with the identifier of one that was deleted.
CreateForm(f) ==
  /\ f \notin exists
  /\ exists' = exists \union {f}
  /\ UNCHANGED <<deleted, watched, value, keys, iteration, call, saved>>

\* A wrong variant: the entry is forgotten and not flagged.
OnFormDeletedUnwatch(f) ==
  /\ f \in exists
  /\ exists' = exists \ {f}
  /\ watched' = [watched EXCEPT ![f] = 0]
  /\ UNCHANGED <<deleted, value, keys, iteration, call, saved>>

\* form_observer::on_form_deleted: the watched entry of the form, if something
\* still refers to it, is flagged.
OnFormDeleted(f) ==
  /\ f \in exists
  /\ exists' = exists \ {f}
  /\ deleted' = deleted \union ({LockWeak(f)} \ {Null})
  /\ UNCHANGED <<watched, value, keys, iteration, call, saved>>

\* An API call begins.  Papyrus passes a form that exists; text names any.  A
\* value is watched under the local identifier of the form, a key under its own.
Begin(t, fn, f) ==
  /\ call[t] = Idle
  /\ f \in IF fn = "jsonValue" THEN TextForms ELSE exists
  /\ call' = [call EXCEPT ![t] = Frame("watch", fn, f, Null)]
  /\ UNCHANGED <<exists, deleted, watched, value, keys, iteration, saved>>

\* make_weak_form_id of a form takes GetLocalFormID, of an identifier takes it as
\* it is; so does form_ref_lightweight::to_form_ref.
WatchedId(fn, f) == IF fn = "setForm" THEN LocalFormID[f] ELSE f

\* form_entry::make in free memory, of which the first cell is taken.
NewEntry(f, entry) ==
  LET free == { n \in 1 .. MaxEntries : <<f, n>> \notin Held }
  IN  \E n \in free : entry = <<f, n>> /\ \A m \in free : n =< m

\* The entries nobody refers to any more are freed, their flags with them.
FreeEntries == deleted' = deleted \intersect Held'

\* A wrong variant: an entry whose form was deleted is used for the new form.
WatchFormReviving(t) ==
  /\ call[t].pc = "watch"
  /\ LET f     == WatchedId(call[t].fn, call[t].form)
         found == LockWeak(f)
     IN  \E entry \in Entries :
           /\ IF found = Null THEN NewEntry(f, entry) ELSE entry = found
           /\ deleted' = deleted \ {entry}
           /\ watched' = [watched EXCEPT ![f] = entry[2]]
           /\ call' = [call EXCEPT ![t].pc = "store", ![t].ref = entry]
  /\ UNCHANGED <<exists, value, keys, iteration, saved>>

\* form_observer::watch_form under the observer's lock: the living entry is
\* shared; one that was deleted or that nobody refers to is replaced.
WatchForm(t) ==
  /\ call[t].pc = "watch"
  /\ LET f     == WatchedId(call[t].fn, call[t].form)
         found == LockWeak(f)
     IN  \E entry \in Entries :
           /\ IF found = Null \/ found \in deleted
              THEN NewEntry(f, entry) ELSE entry = found
           /\ deleted' = deleted \ {entry}
           /\ watched' = [watched EXCEPT ![f] = entry[2]]
           /\ call' = [call EXCEPT ![t].pc = "store", ![t].ref = entry]
  /\ UNCHANGED <<exists, value, keys, iteration, saved>>

\* The item is assigned under the container's lock; what it held is dropped.
StoreValue(t, s) ==
  /\ call[t].pc = "store"
  /\ call[t].fn \in {"setForm", "jsonValue"}
  /\ value' = [value EXCEPT ![s] = call[t].ref]
  /\ call' = [call EXCEPT ![t] = Idle]
  /\ UNCHANGED <<exists, watched, keys, iteration, saved>>
  /\ FreeEntries

\* An item with a form is overwritten or erased.
EraseValue(s) ==
  /\ value[s] # Null
  /\ value' = [value EXCEPT ![s] = Null]
  /\ UNCHANGED <<exists, watched, keys, iteration, call, saved>>
  /\ FreeEntries

-----------------------------------------------------------------------------
(* The form map *)

\* std::lower_bound: the first key that is not less than rank.
LowerBound(rank) ==
  LET least == { i \in DOMAIN keys : StableRank(keys[i]) >= rank }
  IN  IF least = {} THEN Len(keys) + 1
      ELSE CHOOSE i \in least : \A j \in least : i =< j

\* form_map::_find with a form_ref_lightweight f: 0 for end().
FindKey(f) ==
  LET i == LowerBound(2 * f)
  IN  IF i \in DOMAIN keys /\ Get(keys[i]) = f THEN i ELSE 0

InsertKey(i, ref) == InsertAt(keys, i, ref)
RemoveAtKey(i) == RemoveAt(keys, i)

\* u_get_or_create(key.to_form_ref()): operator[] of the map.
StoreKey(t) ==
  /\ call[t].pc = "store"
  /\ call[t].fn = "setKey"
  /\ LET ref == call[t].ref
         i   == LowerBound(StableRank(ref))
     IN  IF i \in DOMAIN keys /\ StableRank(keys[i]) = StableRank(ref)
         THEN UNCHANGED keys
         ELSE Len(keys) < MaxKeys /\ keys' = InsertKey(i, ref)
  /\ call' = [call EXCEPT ![t] = Idle]
  /\ UNCHANGED <<exists, watched, value, iteration, saved>>
  /\ FreeEntries

\* JFormMap.removeKey with a form that exists.
RemoveKey(f) ==
  /\ f \in exists
  /\ FindKey(f) # 0
  /\ keys' = RemoveAtKey(FindKey(f))
  /\ UNCHANGED <<exists, watched, value, iteration, call, saved>>
  /\ FreeEntries

\* A wrong variant: one key too far.
FollowingTwice(f) ==
  IF f = 0 THEN 1
  ELSE IF FindKey(f) = 0 THEN Len(keys) + 1 ELSE FindKey(f) + 2

\* nextKey_forPapyrus: where the search for the key after f begins.  When f is no
\* key any more the loop ends.
Following(f) ==
  IF f = 0 THEN 1
  ELSE IF FindKey(f) = 0 THEN Len(keys) + 1 ELSE FindKey(f) + 1

\* The script's variable reads None once its form was deleted, which starts the
\* loop over.
PreviousKey == IF iteration \in exists THEN iteration ELSE 0

\* JFormMap.nextKey(map, previousKey, None): keys without a loaded form are
\* skipped (KeyCompareForNextKey), 0 is the end.
NextKey ==
  LET valid == { i \in Following(PreviousKey) .. Len(keys) : Get(keys[i]) \in exists }
  IN  /\ iteration' = IF valid = {} THEN 0
                      ELSE Get(keys[CHOOSE i \in valid : \A j \in valid : i =< j])
      /\ UNCHANGED <<exists, deleted, watched, value, keys, call, saved>>

-----------------------------------------------------------------------------
(* Saving and loading *)

\* form_ref::save: an expired reference is written as null.
SaveRef(ref) == IF IsExpired(ref) THEN Null ELSE ref

\* form_observer::save: the entries something refers to; the deleted ones among them
\* are not watched any more by whoever reads them.
SavedEntries == { LockWeak(f) : f \in Forms } \ ({Null} \union deleted)

\* u_remove_expired_forms, then the containers, then the observer's entries.
Save ==
  /\ AllIdle
  /\ watched' = [f \in Forms |-> IF LockWeak(f) = Null THEN 0 ELSE watched[f]]
  /\ saved' = [value   |-> [s \in Slots |-> SaveRef(value[s])],
               keys    |-> [i \in DOMAIN keys |-> SaveRef(keys[i])],
               watched |-> SavedEntries]
  /\ UNCHANGED <<exists, deleted, value, keys, iteration, call>>

\* form_observer::load: the entries that came back alive, by identifier.
LoadedWatch(f) ==
  IF \E n \in 1 .. MaxEntries : <<f, n>> \in saved.watched
  THEN CHOOSE n \in 1 .. MaxEntries : <<f, n>> \in saved.watched
  ELSE 0

\* form_map::u_onLoaded: the keys that came back as null go.
OnLoaded(loaded) ==
  LET left   == { i \in DOMAIN loaded : loaded[i] # Null }
      nth(n) == CHOOSE i \in left : Cardinality({ j \in left : j =< i }) = n
  IN  [n \in 1 .. Cardinality(left) |-> loaded[nth(n)]]

\* The observer and the containers are cleared, then everything is read; the
\* pointers in the archive come back shared as they were written.  Which forms exist
\* then is up to the game: resolve_handle returns every identifier as it is.
Load ==
  /\ AllIdle
  /\ exists' \in SUBSET Forms
  /\ value' = saved.value
  /\ keys' = OnLoaded(saved.keys)
  /\ deleted' = {}
  /\ watched' = [f \in Forms |-> LoadedWatch(f)]
  /\ iteration' = 0
  /\ UNCHANGED <<call, saved>>

\* form_ref::load from a save of a release that wrote identifiers: a living one is
\* watched again, in the observer that was cleared, and shared from then on.
LoadOlderRef(ref) == IF ref = Null THEN Null ELSE <<GetRaw(ref), 1>>

\* item::load, form_map::load of such a save.
LoadOlderValues == [s \in Slots |-> LoadOlderRef(saved.value[s])]
LoadOlderKeys == [i \in DOMAIN saved.keys |-> LoadOlderRef(saved.keys[i])]

\* The same containers saved by an older release are read.
LoadOlder ==
  /\ AllIdle
  /\ UNCHANGED <<call, saved>>
  /\ exists' \in SUBSET Forms
  /\ value' = LoadOlderValues
  /\ keys' = OnLoaded(LoadOlderKeys)
  /\ deleted' = {}
  /\ watched' = [f \in Forms |-> IF <<f, 1>> \in Held' THEN 1 ELSE 0]
  /\ iteration' = 0

Next ==
  \/ \E f \in Forms : CreateForm(f) \/ OnFormDeleted(f) \/ RemoveKey(f)
  \/ \E t \in Threads :
       \/ \E fn \in Fns, f \in Forms : Begin(t, fn, f)
       \/ WatchForm(t) \/ StoreKey(t)
       \/ \E s \in Slots : StoreValue(t, s)
  \/ \E s \in Slots : EraseValue(s)
  \/ NextKey \/ Save \/ Load \/ LoadOlder

Spec == Init /\ [][Next]_vars

-----------------------------------------------------------------------------
(* Properties *)

TypeOK ==
  /\ exists \subseteq Forms
  /\ deleted \subseteq Entries
  /\ watched \in [Forms -> 0 .. MaxEntries]
  /\ value \in [Slots -> Refs]
  /\ keys \in Seq(Refs) /\ Len(keys) =< MaxKeys
  /\ iteration \in Forms \union {0}
  /\ call \in [Threads -> [pc : {"idle", "watch", "store"}, fn : Fns \union {"none"},
                            form : Forms \union {0}, ref : Refs]]

\* "both form refs should expire in the same moment of time, should point to the
\* same form-entry" (form_observer.hpp, dynamic_form_id): all living references
\* to one identifier share the entry the observer watches, whatever was deleted,
\* recycled, saved and loaded before, so that one deletion reaches all of them.
LivingShareWatched == \A ref \in Held \ deleted : watched[ref[1]] = ref[2]

\* A reference that expired stays expired, also when a new form gets the same
\* identifier: until its entry is freed or another save is loaded.
ExpiredForGood ==
  [][\A ref \in Held \intersect Held' :
       ref \in deleted => ref \in deleted' \/ Load \/ LoadOlder]_vars

\* A form map is searched as a sorted sequence (std::lower_bound, std::map) although
\* deletions change the rank of its keys where they stand: the keys stay sorted, and
\* a form is found exactly when a living reference to it is among them.
KeysSearchable ==
  /\ \A i, j \in DOMAIN keys : i < j => StableRank(keys[i]) =< StableRank(keys[j])
  /\ \A f \in Forms : FindKey(f) # 0 <=> \E i \in DOMAIN keys : Get(keys[i]) = f

\* JFormMap.nextKey: "returns the next key".  As long as the previous key is in
\* the map, the next one is the least loaded form above it, whatever was deleted
\* and recycled since the loop began.
NextKeyIsNext ==
  [][NextKey /\ (PreviousKey = 0 \/ FindKey(PreviousKey) # 0)
     => LET above == { f \in exists : f > PreviousKey
                                      /\ \E i \in DOMAIN keys : Get(keys[i]) = f }
        IN  IF above = {} THEN iteration' = 0
            ELSE iteration' \in above /\ \A f \in above : iteration' =< f]_vars
=============================================================================
