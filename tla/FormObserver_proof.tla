------------------------ MODULE FormObserver_proof ------------------------
(***************************************************************************)
(* Proofs about FormObserver, for any forms, slots, threads and bounds.    *)
(*                                                                         *)
(* The inductive invariant IInv says that the living references to a form  *)
(* are the entry the observer watches; that the keys of the form map are   *)
(* sorted by the rank of the code, the living ones strictly, so that none  *)
(* appears twice; and that a save holds entries the saved observer         *)
(* watches, with the keys in strict order of their identifiers.  The order *)
(* of the keys survives a deletion because of the sharing: the deletion    *)
(* moves all references to the form up by one rank, at once, and no key    *)
(* has a rank in between.                                                  *)
(***************************************************************************)
EXTENDS FormObserver, SequenceLemmas

-----------------------------------------------------------------------------
(* Types *)

\* Null refers to no form; an entry is one of a form, in a cell.
LEMMA RefFacts ==
  /\ Null \in Refs /\ Null \notin Entries /\ Null[1] = 0
  /\ \A ref \in Refs : ref # Null <=> ref \in Entries
  /\ \A ref \in Entries :
       /\ ref \in Refs
       /\ ref[1] \in Forms /\ ref[1] \in Nat /\ ref[1] > 0
       /\ ref[2] \in 1 .. MaxEntries /\ ref[2] # 0
       /\ ref = <<ref[1], ref[2]>>
<1>1. Null[1] = 0
  BY DEF Null
<1>2. \A ref \in Entries :
       /\ ref[1] \in Forms /\ ref[2] \in 1 .. MaxEntries
       /\ ref = <<ref[1], ref[2]>>
  BY DEF Entries
<1>3. \A ref \in Entries : ref[1] \in Nat /\ ref[1] > 0 /\ ref[2] # 0
  BY <1>2, FormAssumption
<1>4. Null \notin Entries
  BY <1>1, <1>3
<1>5. QED
  BY <1>1, <1>2, <1>3, <1>4 DEF Refs

\* A call and its frame.
Calls == [pc : {"idle", "watch", "store"}, fn : Fns \union {"none"},
          form : Forms \union {0}, ref : Refs]

SavedOK == saved \in [value : [Slots -> Refs], keys : Seq(Refs), watched : SUBSET Entries]

Types ==
  /\ TypeOK
  /\ SavedOK /\ Len(saved.keys) =< MaxKeys
  /\ \A t \in Threads : call[t].pc # "idle" => call[t].form \in Forms

\* The types hold initially.
LEMMA InitTypes == Init => Types
<1> SUFFICES ASSUME Init PROVE Types
  OBVIOUS
<1> USE RefFacts, FormAssumption
<1>1. Idle \in Calls /\ Idle.pc = "idle"
  BY DEF Idle, Frame, Calls
<1>2. call \in [Threads -> Calls] /\ \A t \in Threads : call[t].pc = "idle"
  BY <1>1 DEF Init
<1>3. value \in [Slots -> Refs]
  BY DEF Init
<1>4. keys \in Seq(Refs) /\ Len(keys) =< MaxKeys
  BY DEF Init
<1>5. saved.keys = keys /\ SavedOK
  BY <1>3, <1>4 DEF Init, SavedOK
<1>6. watched \in [Forms -> 0 .. MaxEntries]
  BY DEF Init
<1>7. exists \subseteq Forms /\ deleted \subseteq Entries /\ iteration = 0
  BY DEF Init
<1>8. QED
  BY <1>2, <1>3, <1>4, <1>5, <1>6, <1>7 DEF Types, TypeOK, Calls

\* What is referred to is an entry.
LEMMA HeldEntries == Types => Held \subseteq Entries
BY RefFacts DEF Types, TypeOK, Held

LEMMA LockWeakIs ==
  ASSUME Types, NEW f \in Forms
  PROVE  \/ LockWeak(f) = Null /\ <<f, watched[f]>> \notin Held
         \/ LockWeak(f) = <<f, watched[f]>> /\ LockWeak(f) \in Held /\ LockWeak(f) \in Entries
BY HeldEntries DEF LockWeak

\* watch_form shares the living entry or makes one nobody refers to, when the
\* watched one is gone.
LEMMA WatchIs ==
  ASSUME Types, NEW t \in Threads, WatchForm(t)
  PROVE  \E entry \in Entries :
           /\ \/ /\ entry \notin Held
                 /\ LockWeak(entry[1]) = Null \/ LockWeak(entry[1]) \in deleted
              \/ entry = LockWeak(entry[1]) /\ entry \notin deleted
           /\ deleted' = deleted \ {entry}
           /\ watched' = [watched EXCEPT ![entry[1]] = entry[2]]
           /\ call' = [call EXCEPT ![t] = [pc |-> "store", fn |-> call[t].fn,
                                           form |-> call[t].form, ref |-> entry]]
<1> DEFINE f == WatchedId(call[t].fn, call[t].form)
           found == LockWeak(f)
<1>1. call[t] \in Calls /\ call[t].form \in Forms
  BY DEF WatchForm, Types, TypeOK, Calls
<1>2. f \in Forms
  BY <1>1, FormAssumption DEF WatchedId
<1>3. PICK entry \in Entries :
        /\ IF found = Null \/ found \in deleted
           THEN NewEntry(f, entry) ELSE entry = found
        /\ deleted' = deleted \ {entry}
        /\ watched' = [watched EXCEPT ![f] = entry[2]]
        /\ call' = [call EXCEPT ![t].pc = "store", ![t].ref = entry]
  BY DEF WatchForm
<1>4. [call EXCEPT ![t].pc = "store", ![t].ref = entry]
        = [call EXCEPT ![t] = [pc |-> "store", fn |-> call[t].fn,
                               form |-> call[t].form, ref |-> entry]]
  <2> DEFINE c == [call EXCEPT ![t].pc = "store", ![t].ref = entry]
             d == [call EXCEPT ![t] = [pc |-> "store", fn |-> call[t].fn,
                                       form |-> call[t].form, ref |-> entry]]
  <2>1. call \in [Threads -> Calls]
    BY DEF Types, TypeOK, Calls
  <2>2. c[t] = [[call[t] EXCEPT !.pc = "store"] EXCEPT !.ref = entry]
    BY <2>1
  <2>3. [[call[t] EXCEPT !.pc = "store"] EXCEPT !.ref = entry] = d[t]
    <3>1. call[t] = [pc |-> call[t].pc, fn |-> call[t].fn, form |-> call[t].form, ref |-> call[t].ref]
      BY <1>1 DEF Calls
    <3>2. [call[t] EXCEPT !.pc = "store"]
            = [pc |-> "store", fn |-> call[t].fn, form |-> call[t].form, ref |-> call[t].ref]
      BY <3>1
    <3>3. d[t] = [pc |-> "store", fn |-> call[t].fn, form |-> call[t].form, ref |-> entry]
      BY <2>1
    <3>4. [[pc |-> "store", fn |-> call[t].fn, form |-> call[t].form, ref |-> call[t].ref]
             EXCEPT !.ref = entry]
            = [pc |-> "store", fn |-> call[t].fn, form |-> call[t].form, ref |-> entry]
      OBVIOUS
    <3>5. QED
      BY Zenon, <3>2, <3>3, <3>4
  <2>4. \A u \in Threads : c[u] = d[u]
    BY <2>1, <2>2, <2>3
  <2>5. c = [u \in Threads |-> c[u]] /\ d = [u \in Threads |-> d[u]]
    BY <2>1
  <2> HIDE DEF c, d
  <2>6. c = d
    BY <2>4, <2>5
  <2>7. QED
    BY <2>6 DEF c, d
<1>5. CASE found = Null \/ found \in deleted
  <2>1. NewEntry(f, entry)
    BY <1>3, <1>5
  <2>2. entry \notin Held /\ entry[1] = f
    BY <2>1 DEF NewEntry
  <2>3. QED
    BY <1>3, <1>4, <1>5, <2>2
<1>6. CASE ~(found = Null \/ found \in deleted)
  <2>1. entry = found /\ entry \notin deleted /\ entry # Null
    BY <1>3, <1>6
  <2>2. entry[1] = f
    <3>1. entry = <<f, watched[f]>>
      BY <1>2, <2>1, LockWeakIs
    <3>2. QED
      BY <3>1
  <2>3. QED
    BY <1>3, <1>4, <2>1, <2>2
<1>7. QED
  BY <1>5, <1>6

\* Nothing is held after a step but what was held before.
Drops == watched' = watched /\ Held' \subseteq Held /\ deleted' = deleted \intersect Held'

\* Storing a value moves the reference of the call and drops the one it replaces.
LEMMA StoreValueDrops ==
  ASSUME Types, NEW t \in Threads, NEW s \in Slots, StoreValue(t, s)
  PROVE  Drops /\ Types'
<1>1. call[t] \in Calls /\ call[t].ref \in Refs /\ Idle \in Calls /\ Idle.ref = Null /\ Idle.pc = "idle"
  BY RefFacts DEF Types, TypeOK, Calls, Idle, Frame
<1>2. /\ value' = [value EXCEPT ![s] = call[t].ref] /\ value' \in [Slots -> Refs]
      /\ call' = [call EXCEPT ![t] = Idle] /\ call' \in [Threads -> Calls]
      /\ keys' = keys /\ watched' = watched
      /\ deleted' = deleted \intersect Held'
  BY <1>1 DEF StoreValue, FreeEntries, Types, TypeOK, Calls
<1>3. \A u \in Threads : call'[u].ref = Null \/ call'[u].ref = call[u].ref
  BY <1>1, <1>2 DEF Types, TypeOK
<1>4. \A u \in Slots : value'[u] = value[u] \/ value'[u] = call[t].ref
  BY <1>2 DEF Types, TypeOK
<1>5. Held' \subseteq Held
  BY <1>2, <1>3, <1>4 DEF Held
<1>6. \A u \in Threads : call'[u].pc # "idle" => call'[u].form \in Forms
  BY <1>1, <1>2 DEF Types, TypeOK
<1>7. UNCHANGED <<exists, iteration, saved>>
  BY DEF StoreValue
<1>8. QED
  BY <1>2, <1>5, <1>6, <1>7 DEF Drops, Types, TypeOK, SavedOK, Calls

\* watch_form keeps the types.
LEMMA WatchTypes ==
  ASSUME Types, NEW t \in Threads, WatchForm(t)
  PROVE  Types'
<1>1. PICK entry \in Entries :
        /\ deleted' = deleted \ {entry}
        /\ watched' = [watched EXCEPT ![entry[1]] = entry[2]]
        /\ call' = [call EXCEPT ![t] = [pc |-> "store", fn |-> call[t].fn,
                                        form |-> call[t].form, ref |-> entry]]
  BY WatchIs
<1>2. call \in [Threads -> Calls] /\ call[t].form \in Forms
  BY DEF WatchForm, Types, TypeOK, Calls
<1>3. [pc |-> "store", fn |-> call[t].fn, form |-> call[t].form, ref |-> entry] \in Calls
  BY <1>2, RefFacts DEF Calls
<1>4. call' \in [Threads -> Calls]
  BY <1>1, <1>2, <1>3
<1>5. \A u \in Threads : call'[u].pc # "idle" => call'[u].form \in Forms
  BY <1>1, <1>2 DEF Types
<1>6. watched' \in [Forms -> 0 .. MaxEntries]
  BY <1>1, RefFacts, FormAssumption DEF Types, TypeOK
<1>7. UNCHANGED <<exists, value, keys, iteration, saved>>
  BY DEF WatchForm
<1>8. QED
  BY <1>1, <1>4, <1>5, <1>6, <1>7 DEF Types, TypeOK, SavedOK, Calls

\* After watch_form the living references to the form share the entry it
\* returns: either that is the one they shared, or there is none.
LEMMA WatchShares ==
  ASSUME Types, LivingShareWatched, NEW t \in Threads, WatchForm(t)
  PROVE  LivingShareWatched'
<1>1. PICK entry \in Entries :
        /\ \/ /\ entry \notin Held
              /\ LockWeak(entry[1]) = Null \/ LockWeak(entry[1]) \in deleted
           \/ entry = LockWeak(entry[1]) /\ entry \notin deleted
        /\ deleted' = deleted \ {entry}
        /\ watched' = [watched EXCEPT ![entry[1]] = entry[2]]
        /\ call' = [call EXCEPT ![t] = [pc |-> "store", fn |-> call[t].fn,
                                        form |-> call[t].form, ref |-> entry]]
  BY WatchIs
<1>2. UNCHANGED <<value, keys>>
  BY DEF WatchForm
<1>3. call \in [Threads -> Calls] /\ watched \in [Forms -> 0 .. MaxEntries]
  BY DEF Types, TypeOK, Calls
<1>4. \A u \in Threads : call'[u].ref = call[u].ref \/ call'[u].ref = entry
  BY <1>1, <1>3
<1>5. Held' \subseteq Held \union {entry}
  BY <1>2, <1>4 DEF Held
<1>6. SUFFICES ASSUME NEW ref \in Held' \ deleted' PROVE watched'[ref[1]] = ref[2]
  BY DEF LivingShareWatched
<1>7. CASE ref = entry
  BY <1>1, <1>3, <1>7, RefFacts
<1>8. CASE ref # entry
  <2>1. ref \in Held /\ ref \notin deleted /\ ref \in Entries
    BY <1>1, <1>5, <1>8, HeldEntries
  <2>2. watched[ref[1]] = ref[2] /\ ref = <<ref[1], ref[2]>> /\ ref[1] \in Forms
    BY <2>1, RefFacts DEF LivingShareWatched
  <2>3. LockWeak(ref[1]) = ref
    BY <2>1, <2>2 DEF LockWeak
  <2>4. ref[1] # entry[1]
    BY <1>1, <1>8, <2>1, <2>3, RefFacts
  <2>5. QED
    BY <1>1, <1>3, <2>2, <2>4
<1>9. QED
  BY <1>7, <1>8

\* Dropping references keeps the sharing.
LEMMA DropsShare ==
  ASSUME LivingShareWatched, Drops
  PROVE  LivingShareWatched'
BY DEF LivingShareWatched, Drops

\* A deletion changes the rank of no key but those of the entry it flags.
LEMMA DeletedIs ==
  ASSUME Types, LivingShareWatched, NEW f \in Forms, OnFormDeleted(f)
  PROVE  /\ Types'
         /\ Held' = Held /\ keys' = keys /\ UNCHANGED <<watched, saved>>
         /\ deleted \subseteq deleted'
         /\ \A ref \in Held : ref \notin deleted =>
              (ref \in deleted' <=> ref[1] = f)
<1>1. /\ deleted' = deleted \union ({LockWeak(f)} \ {Null})
      /\ UNCHANGED <<watched, value, keys, iteration, call, saved>>
      /\ exists' = exists \ {f}
  BY DEF OnFormDeleted
<1>2. Held' = Held
  BY <1>1 DEF Held
<1>3. deleted' \subseteq Entries
  BY <1>1, LockWeakIs DEF Types, TypeOK
<1>4. ASSUME NEW ref \in Held, ref \notin deleted
      PROVE  ref \in deleted' <=> ref[1] = f
  <2>1. ref \in Entries /\ ref = <<ref[1], ref[2]>> /\ watched[ref[1]] = ref[2] /\ ref # Null
    BY <1>4, HeldEntries, RefFacts DEF LivingShareWatched
  <2>2. ref[1] = f => LockWeak(f) = ref
    BY <2>1 DEF LockWeak
  <2>3. ref = LockWeak(f) => ref[1] = f
    <3>1. CASE ref = LockWeak(f)
      <4>1. ref = <<f, watched[f]>>
        BY <3>1, <2>1, LockWeakIs
      <4>2. QED
        BY <4>1
    <3>2. QED
      BY <3>1
  <2>4. QED
    BY <1>1, <1>4, <2>1, <2>2, <2>3
<1>5. QED
  BY <1>1, <1>2, <1>3, <1>4 DEF Types, TypeOK, SavedOK

-----------------------------------------------------------------------------
(* The order of the keys *)

\* stable_less_comparer as a function of the flagged entries.
Alive(ref, gone) == ref # Null /\ ref \notin gone

Rank(ref, gone) == IF Alive(ref, gone) THEN 2 * ref[1] ELSE 2 * ref[1] + 1

\* Sorted, and two keys of the same rank are both expired.
SortedFor(ks, gone) ==
  \A i, j \in 1 .. Len(ks) : i < j =>
    /\ Rank(ks[i], gone) =< Rank(ks[j], gone)
    /\ Alive(ks[i], gone) => Rank(ks[i], gone) < Rank(ks[j], gone)

KeysSorted == SortedFor(keys, deleted)

\* The rank of the code is the rank of the proof.
LEMMA RankFacts ==
  ASSUME NEW ref \in Refs
  PROVE  /\ StableRank(ref) \in Nat
         /\ ref[1] \in Nat
         /\ StableRank(ref) = Rank(ref, deleted)
<1>1. ref[1] \in Nat
  BY RefFacts
<1>2. QED
  BY <1>1 DEF StableRank, GetRaw, IsExpired, Rank, Alive

\* The sorted keys, by the rank of the code.
LEMMA SortedRanks ==
  ASSUME Types, KeysSorted
  PROVE  /\ keys \in Seq(Refs) /\ Len(keys) \in Nat /\ DOMAIN keys = 1 .. Len(keys)
         /\ \A i, j \in 1 .. Len(keys) : i < j => StableRank(keys[i]) =< StableRank(keys[j])
<1>1. keys \in Seq(Refs)
  BY DEF Types, TypeOK
<1>2. \A i \in 1 .. Len(keys) : StableRank(keys[i]) = Rank(keys[i], deleted)
  BY <1>1, RankFacts
<1>3. QED
  BY <1>1, <1>2 DEF KeysSorted, SortedFor

\* lower_bound splits sorted keys into those below the rank and the others.
LEMMA LowerBoundIs ==
  ASSUME Types, KeysSorted, NEW rank \in Nat
  PROVE  /\ LowerBound(rank) \in 1 .. Len(keys) + 1
         /\ \A i \in 1 .. Len(keys) : StableRank(keys[i]) < rank <=> i < LowerBound(rank)
<1> DEFINE least == { i \in DOMAIN keys : StableRank(keys[i]) >= rank }
           k == LowerBound(rank)
<1>1. keys \in Seq(Refs) /\ Len(keys) \in Nat /\ DOMAIN keys = 1 .. Len(keys)
  BY DEF Types, TypeOK
<1>2. \A i \in 1 .. Len(keys) : StableRank(keys[i]) \in Nat
  BY <1>1, RankFacts
<1>3. CASE least = {}
  <2>1. k = Len(keys) + 1
    BY <1>3 DEF LowerBound
  <2>2. \A i \in 1 .. Len(keys) : ~(StableRank(keys[i]) >= rank)
    BY <1>1, <1>3
  <2>3. \A i \in 1 .. Len(keys) : StableRank(keys[i]) < rank
    BY <1>2, <2>2
  <2>4. QED
    BY <1>1, <2>1, <2>3
<1>4. CASE least # {}
  <2>1. k = CHOOSE i \in least : \A j \in least : i =< j
    BY <1>4 DEF LowerBound
  <2>2. \E i \in least : \A j \in least : i <= j
    <3>1. least \in SUBSET Nat
      BY <1>1
    <3>2. QED
      BY <1>4, <3>1, LeastNat
  <2>3. k \in least /\ \A j \in least : k =< j
    BY <2>1, <2>2
  <2>4. k \in 1 .. Len(keys) /\ StableRank(keys[k]) >= rank
    BY <1>1, <2>3
  <2> HIDE DEF k
  <2>5. ASSUME NEW i \in 1 .. Len(keys), i < k PROVE StableRank(keys[i]) < rank
    <3>1. i \notin least
      BY <2>3, <2>4, <2>5
    <3>2. ~(StableRank(keys[i]) >= rank)
      BY <1>1, <3>1
    <3>3. QED
      BY <1>2, <3>2
  <2>6. ASSUME NEW i \in 1 .. Len(keys), i >= k PROVE ~(StableRank(keys[i]) < rank)
    <3>1. StableRank(keys[k]) =< StableRank(keys[i])
      <4>1. CASE i = k
        BY <1>2, <4>1
      <4>2. CASE i # k
        BY <4>2, <2>4, <2>6, SortedRanks
      <4>3. QED
        BY <4>1, <4>2
    <3>2. QED
      BY <1>2, <2>4, <3>1
  <2>7. ASSUME NEW i \in 1 .. Len(keys) PROVE StableRank(keys[i]) < rank <=> i < k
    BY <2>4, <2>5, <2>6
  <2>8. QED
    BY <1>1, <2>4, <2>7 DEF k
<1>5. QED
  BY <1>3, <1>4

\* A reference yields f when it is alive and refers to f: the ranks that are twice
\* an identifier are those of living references.
LEMMA GetIs ==
  ASSUME NEW ref \in Refs, NEW f \in Forms
  PROVE  /\ Get(ref) = f <=> ref # Null /\ ref \notin deleted /\ ref[1] = f
         /\ Get(ref) = f <=> StableRank(ref) = 2 * f
<1>1. f \in Nat /\ f > 0
  BY FormAssumption
<1>2. Get(ref) = f <=> ref # Null /\ ref \notin deleted /\ ref[1] = f
  BY <1>1 DEF Get, IsExpired, GetRaw
<1>3. ref[1] \in Nat /\ Null[1] = 0
  BY RefFacts
<1>4. QED
  BY <1>1, <1>2, <1>3, RankFacts DEF Rank, Alive

\* The search finds the key that yields f, if one does.
LEMMA FindKeyIs ==
  ASSUME Types, KeysSorted, NEW f \in Forms
  PROVE  /\ FindKey(f) \in 0 .. Len(keys)
         /\ FindKey(f) # 0 => Get(keys[FindKey(f)]) = f
         /\ \A i \in 1 .. Len(keys) : Get(keys[i]) = f =>
              /\ FindKey(f) # 0
              /\ FindKey(f) =< i
         /\ FindKey(f) # 0 => \A i \in 1 .. Len(keys) :
              i < FindKey(f) <=> StableRank(keys[i]) < 2 * f
<1> DEFINE k == LowerBound(2 * f)
<1>1. keys \in Seq(Refs) /\ Len(keys) \in Nat /\ DOMAIN keys = 1 .. Len(keys)
  BY DEF Types, TypeOK
<1>2. f \in Nat /\ 2 * f \in Nat /\ f # 0
  BY FormAssumption
<1>3. /\ k \in 1 .. Len(keys) + 1
      /\ \A i \in 1 .. Len(keys) : StableRank(keys[i]) < 2 * f <=> i < k
  BY <1>2, LowerBoundIs
<1>4. FindKey(f) = IF k \in DOMAIN keys /\ Get(keys[k]) = f THEN k ELSE 0
  BY DEF FindKey
<1> HIDE DEF k
<1>5. ASSUME NEW i \in 1 .. Len(keys), Get(keys[i]) = f
      PROVE  FindKey(f) # 0 /\ FindKey(f) =< i
  <2>1. StableRank(keys[i]) = 2 * f
    BY <1>1, <1>5, GetIs
  <2>2. ~(i < k)
    BY <1>2, <1>3, <2>1
  <2>3. k \in 1 .. Len(keys)
    BY <1>1, <1>3, <2>2
  <2>4. StableRank(keys[k]) =< StableRank(keys[i])
    <3>1. CASE i = k
      BY <1>2, <2>1, <3>1
    <3>2. CASE i # k
      BY <1>3, <2>2, <2>3, <3>2, SortedRanks
    <3>3. QED
      BY <3>1, <3>2
  <2>5. ~(StableRank(keys[k]) < 2 * f)
    BY <1>3, <2>3
  <2>6. StableRank(keys[k]) \in Nat
    BY <1>1, <2>3, RankFacts
  <2>7. StableRank(keys[k]) = 2 * f
    BY <1>2, <2>1, <2>4, <2>5, <2>6
  <2>8. Get(keys[k]) = f
    BY <1>1, <2>3, <2>7, GetIs
  <2>9. QED
    BY <1>1, <1>4, <2>2, <2>3, <2>8
<1>6. QED
  BY <1>1, <1>3, <1>4, <1>5

\* Sorted keys are searchable.
LEMMA SortedSearchable == Types /\ KeysSorted => KeysSearchable
<1> SUFFICES ASSUME Types, KeysSorted PROVE KeysSearchable
  OBVIOUS
<1>1. DOMAIN keys = 1 .. Len(keys)
  BY DEF Types, TypeOK
<1>2. ASSUME NEW f \in Forms
      PROVE  FindKey(f) # 0 <=> \E i \in DOMAIN keys : Get(keys[i]) = f
  BY <1>1, FindKeyIs
<1>3. QED
  BY <1>1, <1>2, SortedRanks DEF KeysSearchable

\* A key that is stored goes where it keeps the order.
LEMMA StoreKeyKeeps ==
  ASSUME Types, KeysSorted, NEW t \in Threads, StoreKey(t)
  PROVE  Drops /\ Types' /\ KeysSorted'
<1> DEFINE ref == call[t].ref
           i == LowerBound(StableRank(ref))
<1>1. /\ call \in [Threads -> Calls] /\ ref \in Refs
      /\ Idle \in Calls /\ Idle.ref = Null /\ Idle.pc = "idle"
  BY RefFacts DEF Types, TypeOK, Calls, Idle, Frame
<1>2. /\ call' = [call EXCEPT ![t] = Idle] /\ call' \in [Threads -> Calls]
      /\ UNCHANGED <<exists, watched, value, iteration, saved>>
      /\ deleted' = deleted \intersect Held'
  BY <1>1 DEF StoreKey, FreeEntries
<1>3. \A u \in Threads : call'[u].ref = Null \/ call'[u].ref = call[u].ref
  BY <1>1, <1>2
<1>4. \A u \in Threads : call'[u].pc # "idle" => call'[u].form \in Forms
  BY <1>1, <1>2 DEF Types
<1>5. keys \in Seq(Refs) /\ Len(keys) \in Nat /\ Len(keys) =< MaxKeys /\ DOMAIN keys = 1 .. Len(keys)
  BY DEF Types, TypeOK
<1>6. /\ i \in 1 .. Len(keys) + 1
      /\ \A j \in 1 .. Len(keys) : Rank(keys[j], deleted) < Rank(ref, deleted) <=> j < i
  <2>1. \A j \in 1 .. Len(keys) : StableRank(keys[j]) = Rank(keys[j], deleted)
    BY <1>5, RankFacts
  <2>2. StableRank(ref) = Rank(ref, deleted) /\ StableRank(ref) \in Nat
    BY <1>1, RankFacts
  <2>3. /\ i \in 1 .. Len(keys) + 1
        /\ \A j \in 1 .. Len(keys) : StableRank(keys[j]) < StableRank(ref) <=> j < i
    BY <2>2, LowerBoundIs
  <2>4. QED
    BY <2>1, <2>2, <2>3
<1>7. SUFFICES /\ keys' \in Seq(Refs) /\ Len(keys') =< MaxKeys
               /\ \A j \in 1 .. Len(keys') :
                    keys'[j] = ref \/ \E k \in 1 .. Len(keys) : keys'[j] = keys[k]
               /\ SortedFor(keys', deleted)
  <2>1. DOMAIN keys' = 1 .. Len(keys')
    BY <1>7
  <2>2. Held' \subseteq Held
    <3>1. ASSUME NEW x, x \in Held' PROVE x \in Held
      <4>1. /\ x # Null
            /\ \/ \E s \in Slots : x = value'[s]
               \/ \E n \in DOMAIN keys' : x = keys'[n]
               \/ \E u \in Threads : x = call'[u].ref
        BY <3>1 DEF Held
      <4>2. CASE \E s \in Slots : x = value'[s]
        BY <1>2, <4>1, <4>2 DEF Held
      <4>3. CASE \E n \in DOMAIN keys' : x = keys'[n]
        <5>1. x = ref \/ \E k \in DOMAIN keys : x = keys[k]
          BY <1>5, <1>7, <2>1, <4>3
        <5>2. QED
          BY <4>1, <5>1 DEF Held
      <4>4. CASE \E u \in Threads : x = call'[u].ref
        BY <1>3, <4>1, <4>4 DEF Held
      <4>5. QED
        BY <4>1, <4>2, <4>3, <4>4
    <3>2. QED
      BY <3>1
  <2>3. Types' /\ Drops
    BY <1>2, <1>4, <1>7, <2>2 DEF Drops, Types, TypeOK, SavedOK, Calls
  <2>4. \A j \in 1 .. Len(keys') : /\ Rank(keys'[j], deleted') = Rank(keys'[j], deleted)
                                  /\ Alive(keys'[j], deleted') = Alive(keys'[j], deleted)
    BY <1>2, <2>1 DEF Rank, Alive, Held
  <2>5. QED
    BY <1>7, <2>3, <2>4 DEF KeysSorted, SortedFor
<1> HIDE DEF i, ref
<1>8. CASE keys' = keys
  BY <1>5, <1>8 DEF KeysSorted
<1>9. CASE /\ keys' = InsertAt(keys, i, ref) /\ Len(keys) < MaxKeys
           /\ i \in 1 .. Len(keys) => Rank(keys[i], deleted) # Rank(ref, deleted)
  <2>1. /\ keys' \in Seq(Refs)
        /\ Len(keys') = Len(keys) + 1
        /\ \A j \in 1 .. Len(keys) + 1 :
             keys'[j] = IF j < i THEN keys[j] ELSE IF j = i THEN ref ELSE keys[j - 1]
    <3>1. /\ InsertAt(keys, i, ref) \in Seq(Refs)
          /\ Len(InsertAt(keys, i, ref)) = Len(keys) + 1
          /\ \A j \in 1 .. Len(keys) + 1 :
               InsertAt(keys, i, ref)[j] =
                 IF j < i THEN keys[j] ELSE IF j = i THEN ref ELSE keys[j - 1]
      <4>1. ref \in Refs /\ keys \in Seq(Refs) /\ i \in 1 .. Len(keys) + 1
        BY <1>1, <1>5, <1>6
      <4>2. QED
        BY <4>1, InsertAtProps
    <3>2. QED
      BY <1>9, <3>1
  <2>2. Len(keys') =< MaxKeys
    BY <1>5, <1>9, <2>1, FormAssumption
  <2>3. \A j \in 1 .. Len(keys') :
          keys'[j] = ref \/ \E k \in 1 .. Len(keys) : keys'[j] = keys[k]
    BY <1>5, <1>6, <2>1
  <2>4. ASSUME NEW j \in 1 .. Len(keys'), NEW k \in 1 .. Len(keys'), j < k
        PROVE  /\ Rank(keys'[j], deleted) =< Rank(keys'[k], deleted)
               /\ Alive(keys'[j], deleted) =>
                    Rank(keys'[j], deleted) < Rank(keys'[k], deleted)
    <3>1. \A n \in 1 .. Len(keys) : Rank(keys[n], deleted) \in Nat
      BY <1>5, RankFacts
    <3>2. Rank(ref, deleted) \in Nat
      BY <1>1, RankFacts DEF ref
    <3>3. \A m, n \in 1 .. Len(keys) : m < n =>
            /\ Rank(keys[m], deleted) =< Rank(keys[n], deleted)
            /\ Alive(keys[m], deleted) => Rank(keys[m], deleted) < Rank(keys[n], deleted)
      BY DEF KeysSorted, SortedFor
    <3>4. CASE j < i /\ k < i
      BY <1>5, <1>6, <2>1, <2>4, <3>3, <3>4
    <3>5. CASE j < i /\ k = i
      BY <1>5, <1>6, <2>1, <2>4, <3>1, <3>2, <3>5
    <3>6. CASE j < i /\ k > i
      <4>1. keys'[j] = keys[j] /\ keys'[k] = keys[k - 1] /\ j < k - 1
            /\ j \in 1 .. Len(keys) /\ k - 1 \in 1 .. Len(keys)
        BY <1>5, <1>6, <2>1, <2>4, <3>6
      <4>2. QED
        BY <4>1, <3>3
    <3>7. CASE j = i /\ k > i
      <4>1. keys'[j] = ref /\ keys'[k] = keys[k - 1]
            /\ k - 1 \in 1 .. Len(keys) /\ ~(k - 1 < i)
        BY <1>5, <1>6, <2>1, <2>4, <3>7
      <4>2. i \in 1 .. Len(keys) /\ Rank(keys[i], deleted) # Rank(ref, deleted)
        BY <1>5, <1>6, <1>9, <4>1
      <4>3. ~(Rank(keys[i], deleted) < Rank(ref, deleted))
        BY <1>6, <4>2
      <4>4. Rank(ref, deleted) < Rank(keys[i], deleted)
        BY <3>1, <3>2, <4>2, <4>3
      <4>5. Rank(keys[i], deleted) =< Rank(keys[k - 1], deleted)
        <5>1. CASE k - 1 = i
          BY <3>1, <4>2, <5>1
        <5>2. CASE k - 1 # i
          BY <3>3, <4>1, <4>2, <5>2
        <5>3. QED
          BY <5>1, <5>2
      <4>6. QED
        BY <4>1, <4>2, <4>4, <4>5, <3>1, <3>2
    <3>8. CASE j > i /\ k > i
      <4>1. keys'[j] = keys[j - 1] /\ keys'[k] = keys[k - 1] /\ j - 1 < k - 1
            /\ j - 1 \in 1 .. Len(keys) /\ k - 1 \in 1 .. Len(keys)
        BY <1>5, <1>6, <2>1, <2>4, <3>8
      <4>2. QED
        BY <4>1, <3>3
    <3>9. QED
      BY <1>5, <1>6, <2>1, <2>4, <3>4, <3>5, <3>6, <3>7, <3>8
  <2>5. QED
    BY <2>1, <2>2, <2>3, <2>4 DEF SortedFor
<1>10. QED
  <2>1. \/ keys' = keys
        \/ /\ ~(i \in DOMAIN keys /\ StableRank(keys[i]) = StableRank(ref))
           /\ Len(keys) < MaxKeys /\ keys' = InsertAt(keys, i, ref)
    BY DEF StoreKey, InsertKey, i, ref
  <2>2. StableRank(ref) = Rank(ref, deleted)
        /\ \A j \in 1 .. Len(keys) : StableRank(keys[j]) = Rank(keys[j], deleted)
    BY <1>1, <1>5, RankFacts
  <2>3. QED
    BY <1>5, <1>8, <1>9, <2>1, <2>2

\* Removing a key keeps the order.
LEMMA RemoveKeyKeeps ==
  ASSUME Types, KeysSorted, NEW f \in Forms, RemoveKey(f)
  PROVE  Drops /\ Types' /\ KeysSorted'
<1> DEFINE i == FindKey(f)
<1>1. /\ UNCHANGED <<exists, watched, value, iteration, call, saved>>
      /\ deleted' = deleted \intersect Held'
      /\ keys' = RemoveAt(keys, i) /\ i # 0
  BY DEF RemoveKey, FreeEntries, RemoveAtKey
<1>2. keys \in Seq(Refs) /\ Len(keys) \in Nat /\ Len(keys) =< MaxKeys /\ DOMAIN keys = 1 .. Len(keys)
  BY DEF Types, TypeOK
<1>3. i \in 1 .. Len(keys)
  BY <1>1, <1>2, FindKeyIs
<1> HIDE DEF i
<1>4. /\ keys' \in Seq(Refs)
      /\ Len(keys') = Len(keys) - 1
      /\ \A j \in 1 .. Len(keys) - 1 : keys'[j] = IF j < i THEN keys[j] ELSE keys[j + 1]
  BY <1>1, <1>2, <1>3, RemoveAtProps
<1>5. DOMAIN keys' = 1 .. Len(keys') /\ Len(keys') =< MaxKeys
  BY <1>2, <1>4, FormAssumption
<1>6. \A j \in 1 .. Len(keys') : \E k \in 1 .. Len(keys) : keys'[j] = keys[k]
  BY <1>2, <1>3, <1>4
<1>7. Held' \subseteq Held
  BY <1>1, <1>2, <1>5, <1>6 DEF Held
<1>8. Types' /\ Drops
  BY <1>1, <1>4, <1>5, <1>7 DEF Drops, Types, TypeOK, SavedOK, Calls
<1>9. \A j \in 1 .. Len(keys') : /\ Rank(keys'[j], deleted') = Rank(keys'[j], deleted)
                                /\ Alive(keys'[j], deleted') = Alive(keys'[j], deleted)
  BY <1>1, <1>5 DEF Rank, Alive, Held
<1>10. ASSUME NEW j \in 1 .. Len(keys'), NEW k \in 1 .. Len(keys'), j < k
       PROVE  /\ Rank(keys'[j], deleted) =< Rank(keys'[k], deleted)
              /\ Alive(keys'[j], deleted) =>
                   Rank(keys'[j], deleted) < Rank(keys'[k], deleted)
  <2> DEFINE from(n) == IF n < i THEN n ELSE n + 1
  <2>1. /\ keys'[j] = keys[from(j)] /\ keys'[k] = keys[from(k)]
        /\ from(j) < from(k) /\ from(j) \in 1 .. Len(keys) /\ from(k) \in 1 .. Len(keys)
    BY <1>2, <1>3, <1>4, <1>10
  <2> HIDE DEF from
  <2>2. QED
    BY <2>1 DEF KeysSorted, SortedFor
<1>11. QED
  BY <1>8, <1>9, <1>10 DEF KeysSorted, SortedFor

\* The keys that a deletion moves up in rank are those of one entry, and no key
\* ranks between a form's living entry and its deleted one.
LEMMA DeletedKeepsOrder ==
  ASSUME Types, LivingShareWatched, KeysSorted, NEW f \in Forms, OnFormDeleted(f)
  PROVE  KeysSorted'
<1>1. /\ keys' = keys /\ deleted \subseteq deleted'
      /\ \A ref \in Held : ref \notin deleted => (ref \in deleted' <=> ref[1] = f)
  BY DeletedIs
<1>2. keys \in Seq(Refs) /\ Len(keys) \in Nat /\ DOMAIN keys = 1 .. Len(keys)
  BY DEF Types, TypeOK
<1>3. f \in Nat
  BY FormAssumption
<1>4. ASSUME NEW i \in 1 .. Len(keys), NEW j \in 1 .. Len(keys), i < j
      PROVE  /\ Rank(keys[i], deleted') =< Rank(keys[j], deleted')
             /\ Alive(keys[i], deleted') =>
                  Rank(keys[i], deleted') < Rank(keys[j], deleted')
  <2>1. /\ Rank(keys[i], deleted) =< Rank(keys[j], deleted)
        /\ Alive(keys[i], deleted) => Rank(keys[i], deleted) < Rank(keys[j], deleted)
    BY <1>4 DEF KeysSorted, SortedFor
  <2>2. ASSUME NEW k \in 1 .. Len(keys)
        PROVE  /\ keys[k][1] \in Nat
               /\ Rank(keys[k], deleted) =
                    IF Alive(keys[k], deleted) THEN 2 * keys[k][1] ELSE 2 * keys[k][1] + 1
               /\ Rank(keys[k], deleted') =
                    IF Alive(keys[k], deleted') THEN 2 * keys[k][1] ELSE 2 * keys[k][1] + 1
               /\ Alive(keys[k], deleted') = (Alive(keys[k], deleted) /\ keys[k][1] # f)
    <3>1. keys[k] \in Refs /\ (keys[k] # Null => keys[k] \in Held)
      BY <1>2 DEF Held
    <3>2. keys[k][1] \in Nat
      BY <3>1, RefFacts
    <3>3. Alive(keys[k], deleted') = (Alive(keys[k], deleted) /\ keys[k][1] # f)
      BY <1>1, <3>1 DEF Alive
    <3>4. QED
      BY <3>2, <3>3 DEF Rank
  <2> DEFINE a == keys[i][1]
             b == keys[j][1]
  <2>3. a \in Nat /\ b \in Nat
    BY <2>2
  <2>4. CASE Alive(keys[i], deleted')
    <3>1. Rank(keys[i], deleted) = 2 * a /\ Rank(keys[i], deleted') = 2 * a
      BY <2>2, <2>4
    <3>2. 2 * a < Rank(keys[j], deleted)
      BY <2>1, <2>2, <2>4, <3>1
    <3>3. \/ Rank(keys[j], deleted') = Rank(keys[j], deleted)
          \/ Rank(keys[j], deleted') = Rank(keys[j], deleted) + 1
      <4>1. \/ Rank(keys[j], deleted) = 2 * b /\ Rank(keys[j], deleted') = 2 * b
            \/ Rank(keys[j], deleted) = 2 * b /\ Rank(keys[j], deleted') = 2 * b + 1
            \/ Rank(keys[j], deleted) = 2 * b + 1 /\ Rank(keys[j], deleted') = 2 * b + 1
        BY <2>2
      <4>2. QED
        BY <2>3, <4>1
    <3>4. Rank(keys[j], deleted) \in Nat
      BY <2>2
    <3> HIDE DEF a, b
    <3>5. QED
      BY <2>3, <3>1, <3>2, <3>3, <3>4
  <2>5. CASE ~Alive(keys[i], deleted')
    <3>1. Rank(keys[i], deleted') = 2 * a + 1
      BY <2>2, <2>5
    <3>2. CASE ~Alive(keys[j], deleted')
      <4>1. Rank(keys[j], deleted') = 2 * b + 1
        BY <2>2, <3>2
      <4>2. \/ Rank(keys[i], deleted) = 2 * a
            \/ Rank(keys[i], deleted) = 2 * a + 1
        BY <2>2
      <4>3. \/ Rank(keys[j], deleted) = 2 * b
            \/ Rank(keys[j], deleted) = 2 * b + 1
        BY <2>2
      <4> HIDE DEF a, b
      <4>4. a =< b
        BY <2>1, <2>3, <4>2, <4>3
      <4>5. QED
        BY <2>3, <2>5, <3>1, <4>1, <4>4
    <3>3. CASE Alive(keys[j], deleted')
      <4>1. /\ Rank(keys[j], deleted') = 2 * b /\ Rank(keys[j], deleted) = 2 * b
            /\ b # f
        BY <2>2, <3>3
      <4>2. CASE Alive(keys[i], deleted)
        <5>1. Rank(keys[i], deleted) = 2 * a
          BY <2>2, <4>2
        <5>2. 2 * a < 2 * b
          BY <2>1, <4>1, <4>2, <5>1
        <5> HIDE DEF a, b
        <5>3. 2 * a + 1 =< 2 * b
          BY <2>3, <5>2
        <5>4. QED
          BY <2>5, <3>1, <4>1, <5>3
      <4>3. CASE ~Alive(keys[i], deleted)
        <5>1. Rank(keys[i], deleted) = 2 * a + 1
          BY <2>2, <4>3
        <5>2. QED
          BY <2>1, <2>5, <3>1, <4>1, <5>1
      <4>4. QED
        BY <4>2, <4>3
    <3>4. QED
      BY <3>2, <3>3
  <2>6. QED
    BY <2>4, <2>5
<1>5. QED
  BY <1>1, <1>4 DEF KeysSorted, SortedFor

-----------------------------------------------------------------------------
(* Saving and loading *)

\* What is true of a save.
SavedInv ==
  /\ \A a, b \in saved.watched : a[1] = b[1] => a = b
  /\ \A s \in Slots : saved.value[s] = Null \/ saved.value[s] \in saved.watched
  /\ \A i \in 1 .. Len(saved.keys) :
       saved.keys[i] = Null \/ saved.keys[i] \in saved.watched
  /\ \A i, j \in 1 .. Len(saved.keys) :
       i < j /\ saved.keys[i] # Null /\ saved.keys[j] # Null
         => saved.keys[i][1] < saved.keys[j][1]

\* What a save writes of a reference: itself when it is alive, and then it is the
\* watched entry; null otherwise.
LEMMA SaveRefIs ==
  ASSUME Types, LivingShareWatched, NEW ref \in Held \union {Null}
  PROVE  /\ SaveRef(ref) \in Refs
         /\ SaveRef(ref) # Null => SaveRef(ref) = ref /\ ref \notin deleted
                                    /\ ref \in SavedEntries /\ LockWeak(ref[1]) = ref
<1>1. CASE IsExpired(ref)
  BY <1>1, RefFacts DEF SaveRef
<1>2. CASE ~IsExpired(ref)
  <2>1. SaveRef(ref) = ref /\ ref \in Held /\ ref \notin deleted /\ ref # Null
    BY <1>2 DEF SaveRef, IsExpired
  <2>2. ref \in Entries /\ ref \in Refs /\ ref[1] \in Forms
        /\ ref = <<ref[1], ref[2]>> /\ watched[ref[1]] = ref[2]
    BY <2>1, HeldEntries, RefFacts DEF LivingShareWatched
  <2>3. LockWeak(ref[1]) = ref
    BY <2>1, <2>2 DEF LockWeak
  <2>4. QED
    BY <2>1, <2>2, <2>3 DEF SavedEntries
<1>3. QED
  BY <1>1, <1>2

\* A save holds references to the entries that the saved observer watches.
LEMMA SaveKeeps ==
  ASSUME Types, LivingShareWatched, KeysSorted, Save
  PROVE  Types' /\ LivingShareWatched' /\ KeysSorted' /\ SavedInv'
<1>1. /\ watched' = [f \in Forms |-> IF LockWeak(f) = Null THEN 0 ELSE watched[f]]
      /\ saved' = [value   |-> [s \in Slots |-> SaveRef(value[s])],
                   keys    |-> [i \in DOMAIN keys |-> SaveRef(keys[i])],
                   watched |-> SavedEntries]
      /\ UNCHANGED <<exists, deleted, value, keys, iteration, call>>
  BY DEF Save
<1>2. keys \in Seq(Refs) /\ Len(keys) \in Nat /\ DOMAIN keys = 1 .. Len(keys) /\ Len(keys) =< MaxKeys
  BY DEF Types, TypeOK
<1>3. value \in [Slots -> Refs] /\ watched \in [Forms -> 0 .. MaxEntries]
  BY DEF Types, TypeOK
<1>4. \A s \in Slots : value[s] \in Held \union {Null}
  BY DEF Held
<1>5. \A i \in 1 .. Len(keys) : keys[i] \in Held \union {Null}
  BY <1>2 DEF Held
<1>6. /\ saved'.value = [s \in Slots |-> SaveRef(value[s])]
      /\ saved'.keys = [i \in 1 .. Len(keys) |-> SaveRef(keys[i])]
      /\ saved'.watched = SavedEntries
  BY <1>1, <1>2
<1>7. saved'.value \in [Slots -> Refs]
  BY <1>4, <1>6, SaveRefIs
<1>8. saved'.keys \in Seq(Refs) /\ Len(saved'.keys) = Len(keys)
  <2>1. \A i \in 1 .. Len(keys) : SaveRef(keys[i]) \in Refs
    BY <1>5, SaveRefIs
  <2>2. [i \in 1 .. Len(keys) |-> SaveRef(keys[i])] \in [1 .. Len(keys) -> Refs]
    BY <2>1
  <2>3. saved'.keys \in [1 .. Len(keys) -> Refs]
    BY <1>6, <2>2
  <2>4. QED
    BY <1>2, <2>3, IsASeq, LenProperties
<1>9. SavedEntries \subseteq Entries
  BY LockWeakIs DEF SavedEntries
<1>10. SavedOK'
  BY <1>1, <1>6, <1>7, <1>8, <1>9 DEF SavedOK
<1>11. watched' \in [Forms -> 0 .. MaxEntries]
  BY <1>1, <1>3, FormAssumption
<1>12. Types'
  BY <1>1, <1>2, <1>8, <1>10, <1>11 DEF Types, TypeOK
<1>13. Held' = Held
  BY <1>1 DEF Held
<1>14. LivingShareWatched'
  <2>1. SUFFICES ASSUME NEW ref \in Held \ deleted PROVE watched'[ref[1]] = ref[2]
    BY <1>1, <1>13 DEF LivingShareWatched
  <2>2. ref \in Entries /\ ref # Null /\ ref[1] \in Forms /\ ref = <<ref[1], ref[2]>>
        /\ watched[ref[1]] = ref[2]
    BY HeldEntries, RefFacts DEF LivingShareWatched
  <2>3. LockWeak(ref[1]) = ref
    BY <2>2 DEF LockWeak
  <2>4. QED
    BY <1>1, <2>2, <2>3
<1>15. KeysSorted'
  BY <1>1 DEF KeysSorted
<1>16. SavedInv'
  <2>1. \A a, b \in SavedEntries : a[1] = b[1] => a = b
    <3>1. \A a \in SavedEntries : a = LockWeak(a[1])
      <4>1. SUFFICES ASSUME NEW f \in Forms, LockWeak(f) # Null
                     PROVE  LockWeak(f)[1] = f
        BY DEF SavedEntries
      <4>2. LockWeak(f) = <<f, watched[f]>>
        BY <4>1, LockWeakIs
      <4>3. QED
        BY <4>2
    <3>2. QED
      BY <3>1
  <2>2. \A s \in Slots : saved'.value[s] = Null \/ saved'.value[s] \in SavedEntries
    BY <1>4, <1>6, SaveRefIs
  <2>3. \A i \in 1 .. Len(saved'.keys) :
          /\ saved'.keys[i] = SaveRef(keys[i])
          /\ saved'.keys[i] = Null \/ (saved'.keys[i] \in SavedEntries /\ saved'.keys[i] = keys[i]
                                        /\ keys[i] \notin deleted)
    BY <1>5, <1>6, <1>8, SaveRefIs
  <2>4. ASSUME NEW i \in 1 .. Len(saved'.keys), NEW j \in 1 .. Len(saved'.keys), i < j,
               saved'.keys[i] # Null, saved'.keys[j] # Null
        PROVE  saved'.keys[i][1] < saved'.keys[j][1]
    <3>1. /\ saved'.keys[i] = keys[i] /\ keys[i] \notin deleted /\ keys[i] # Null
          /\ saved'.keys[j] = keys[j] /\ keys[j] \notin deleted /\ keys[j] # Null
      BY <2>3, <2>4
    <3>2. Rank(keys[i], deleted) < Rank(keys[j], deleted)
      BY <1>8, <2>4, <3>1 DEF KeysSorted, SortedFor, Alive
    <3>3. keys[i] \in Refs /\ keys[j] \in Refs
      BY <1>2, <1>8
    <3>4. keys[i][1] \in Nat /\ keys[j][1] \in Nat
      BY <3>3, RefFacts
    <3>5. QED
      BY <3>1, <3>2, <3>4 DEF Rank, Alive
  <2>5. QED
    BY <1>6, <2>1, <2>2, <2>3, <2>4 DEF SavedInv
<1>17. QED
  BY <1>12, <1>14, <1>15, <1>16

\* The keys that are left keep their order.
LEMMA OnLoadedIs ==
  ASSUME NEW s \in Seq(Refs)
  PROVE  /\ OnLoaded(s) \in Seq(Refs)
         /\ Len(OnLoaded(s)) =< Len(s)
         /\ \E g : /\ \A n \in 1 .. Len(OnLoaded(s)) :
                         /\ g[n] \in 1 .. Len(s)
                         /\ OnLoaded(s)[n] = s[g[n]]
                         /\ s[g[n]] # Null
                   /\ \A m, n \in 1 .. Len(OnLoaded(s)) : m < n => g[m] < g[n]
<1> DEFINE left == { i \in DOMAIN s : s[i] # Null }
           upTo(i) == Cardinality({ j \in left : j =< i })
           nth(n) == CHOOSE i \in left : upTo(i) = n
           o == [n \in 1 .. Cardinality(left) |-> s[nth(n)]]
           g == [n \in 1 .. Cardinality(left) |-> nth(n)]
<1>1. Len(s) \in Nat /\ DOMAIN s = 1 .. Len(s)
  OBVIOUS
<1>2. left \in SUBSET (1 .. Len(s))
  BY <1>1
<1>3. OnLoaded(s) = o
  BY DEF OnLoaded
<1>4. /\ Cardinality(left) \in Nat
      /\ \A n \in 1 .. Cardinality(left) : \E i \in left : upTo(i) = n
      /\ \A i, k \in left : i < k => upTo(i) < upTo(k)
  <2> HIDE DEF left
  <2>1. QED
    BY <1>1, <1>2, Numbering
<1>5. Cardinality(left) =< Len(s)
  <2> HIDE DEF left
  <2>1. PICK N \in Nat : N = Len(s)
    BY <1>1
  <2>2. IsFiniteSet(1 .. N) /\ Cardinality(1 .. N) = N
    BY FS_Interval
  <2>3. Cardinality(left) =< Cardinality(1 .. N)
    BY <1>2, <2>1, <2>2, FS_Subset
  <2>4. QED
    BY <2>1, <2>2, <2>3
<1>6. ASSUME NEW n \in 1 .. Cardinality(left)
      PROVE  nth(n) \in left /\ upTo(nth(n)) = n
  <2> HIDE DEF left, upTo
  <2>1. \E i \in left : upTo(i) = n
    BY <1>4
  <2>2. QED
    BY <2>1
<1>7. \A n \in 1 .. Cardinality(left) : nth(n) \in 1 .. Len(s) /\ s[nth(n)] # Null /\ s[nth(n)] \in Refs
  <2>1. \A i \in left : i \in 1 .. Len(s) /\ s[i] # Null /\ s[i] \in Refs
    BY <1>1
  <2> HIDE DEF left, upTo, nth
  <2>2. QED
    BY <1>6, <2>1
<1>8. ASSUME NEW m \in 1 .. Cardinality(left), NEW n \in 1 .. Cardinality(left), m < n
      PROVE  nth(m) < nth(n)
  <2> HIDE DEF left, upTo, nth
  <2>1. nth(m) \in left /\ nth(n) \in left /\ nth(m) \in Nat /\ nth(n) \in Nat
    BY <1>6, <1>7
  <2>2. upTo(nth(m)) = m /\ upTo(nth(n)) = n
    BY <1>6
  <2>3. nth(n) # nth(m)
    BY <2>2, <1>8
  <2>4. ~(nth(n) < nth(m))
    <3>1. nth(n) < nth(m) => n < m
      BY <1>4, <2>1, <2>2
    <3>2. QED
      BY <1>4, <1>8, <3>1
  <2>5. QED
    BY <2>1, <2>3, <2>4
<1> HIDE DEF left, upTo, nth
<1>9. o \in [1 .. Cardinality(left) -> Refs]
  BY <1>7
<1>10. o \in Seq(Refs) /\ Len(o) = Cardinality(left)
  BY <1>4, <1>9, IsASeq, LenProperties
<1>11. /\ \A n \in 1 .. Len(o) : g[n] \in 1 .. Len(s) /\ o[n] = s[g[n]] /\ s[g[n]] # Null
       /\ \A m, n \in 1 .. Len(o) : m < n => g[m] < g[n]
  BY <1>7, <1>8, <1>10
<1> HIDE DEF o, g
<1>12. QED
  BY <1>3, <1>5, <1>10, <1>11

\* An idle thread refers to nothing.
LEMMA IdleHolds ==
  ASSUME AllIdle
  PROVE  \A t \in Threads : call[t].ref = Null /\ call[t].pc = "idle"
BY DEF AllIdle, Idle, Frame

\* A load brings back the entries that were alive, each watched again.
LEMMA LoadKeeps ==
  ASSUME Types, SavedInv, Load
  PROVE  Types' /\ LivingShareWatched' /\ KeysSorted'
<1>1. /\ exists' \subseteq Forms /\ value' = saved.value /\ keys' = OnLoaded(saved.keys)
      /\ deleted' = {} /\ watched' = [f \in Forms |-> LoadedWatch(f)] /\ iteration' = 0
      /\ call' = call /\ saved' = saved /\ AllIdle
  BY DEF Load
<1>2. /\ saved.value \in [Slots -> Refs] /\ saved.keys \in Seq(Refs)
      /\ saved.watched \subseteq Entries /\ Len(saved.keys) =< MaxKeys /\ Len(saved.keys) \in Nat
  BY DEF Types, SavedOK
<1>3. /\ keys' \in Seq(Refs) /\ Len(keys') \in Nat /\ DOMAIN keys' = 1 .. Len(keys')
      /\ Len(keys') =< Len(saved.keys)
  BY <1>1, <1>2, OnLoadedIs
<1>4. PICK g : /\ \A n \in 1 .. Len(keys') :
                    /\ g[n] \in 1 .. Len(saved.keys)
                    /\ keys'[n] = saved.keys[g[n]]
                    /\ saved.keys[g[n]] # Null
              /\ \A m, n \in 1 .. Len(keys') : m < n => g[m] < g[n]
  <2> DEFINE o == OnLoaded(saved.keys)
  <2>1. \E g : /\ \A n \in 1 .. Len(o) :
                   /\ g[n] \in 1 .. Len(saved.keys)
                   /\ o[n] = saved.keys[g[n]]
                   /\ saved.keys[g[n]] # Null
             /\ \A m, n \in 1 .. Len(o) : m < n => g[m] < g[n]
    BY <1>2, OnLoadedIs
  <2>2. keys' = o
    BY <1>1
  <2> HIDE DEF o
  <2>3. QED
    BY <2>1, <2>2
<1>5. ASSUME NEW f \in Forms
      PROVE  /\ LoadedWatch(f) \in 0 .. MaxEntries
             /\ \A ref \in saved.watched : ref[1] = f => LoadedWatch(f) = ref[2]
  <2>1. CASE \E n \in 1 .. MaxEntries : <<f, n>> \in saved.watched
    <3>1. LoadedWatch(f) \in 1 .. MaxEntries /\ <<f, LoadedWatch(f)>> \in saved.watched
      BY <2>1 DEF LoadedWatch
    <3>2. ASSUME NEW ref \in saved.watched, ref[1] = f PROVE LoadedWatch(f) = ref[2]
      <4>1. ref = <<f, LoadedWatch(f)>>
        BY <3>1, <3>2 DEF SavedInv
      <4>2. QED
        BY <4>1
    <3>3. QED
      BY <3>1, <3>2, FormAssumption
  <2>2. CASE ~\E n \in 1 .. MaxEntries : <<f, n>> \in saved.watched
    <3>1. \A ref \in saved.watched : ref[1] # f
      BY <1>2, <2>2, RefFacts
    <3>2. QED
      BY <2>2, <3>1, FormAssumption DEF LoadedWatch
  <2>3. QED
    BY <2>1, <2>2
<1>6. watched' \in [Forms -> 0 .. MaxEntries]
  BY <1>1, <1>5
<1>7. Types'
  BY <1>1, <1>2, <1>3, <1>6, FormAssumption DEF Types, TypeOK, SavedOK
<1>8. ASSUME NEW ref \in Held' PROVE ref \in saved.watched
  <2>1. \/ \E s \in Slots : ref = saved.value[s]
        \/ \E i \in 1 .. Len(keys') : ref = keys'[i]
    BY <1>1, <1>3, <1>8, IdleHolds DEF Held
  <2>2. ref # Null
    BY <1>8 DEF Held
  <2>3. QED
    BY <1>4, <2>1, <2>2 DEF SavedInv
<1>9. LivingShareWatched'
  BY <1>1, <1>2, <1>5, <1>8, RefFacts DEF LivingShareWatched
<1>10. ASSUME NEW m \in 1 .. Len(keys'), NEW n \in 1 .. Len(keys'), m < n
       PROVE  Rank(keys'[m], {}) < Rank(keys'[n], {}) /\ Rank(keys'[m], {}) =< Rank(keys'[n], {})
  <2>1. /\ g[m] \in 1 .. Len(saved.keys) /\ g[n] \in 1 .. Len(saved.keys) /\ g[m] < g[n]
        /\ keys'[m] = saved.keys[g[m]] /\ keys'[n] = saved.keys[g[n]]
        /\ keys'[m] # Null /\ keys'[n] # Null
    BY <1>4, <1>10
  <2>2. keys'[m][1] < keys'[n][1]
    BY <2>1 DEF SavedInv
  <2>3. keys'[m] \in Refs /\ keys'[n] \in Refs
    BY <1>3
  <2>4. keys'[m][1] \in Nat /\ keys'[n][1] \in Nat
    BY <2>3, RefFacts
  <2>5. Rank(keys'[m], {}) = 2 * keys'[m][1] /\ Rank(keys'[n], {}) = 2 * keys'[n][1]
    BY <2>1 DEF Rank, Alive
  <2>6. QED
    BY <2>2, <2>4, <2>5
<1>11. QED
  BY <1>1, <1>7, <1>9, <1>10 DEF KeysSorted, SortedFor

\* A save of an older release brings back one entry for each identifier.
LEMMA LoadOlderKeeps ==
  ASSUME Types, SavedInv, LoadOlder
  PROVE  Types' /\ LivingShareWatched' /\ KeysSorted'
<1>1. /\ exists' \subseteq Forms /\ value' = LoadOlderValues /\ keys' = OnLoaded(LoadOlderKeys)
      /\ deleted' = {} /\ iteration' = 0
      /\ watched' = [f \in Forms |-> IF <<f, 1>> \in Held' THEN 1 ELSE 0]
      /\ call' = call /\ saved' = saved /\ AllIdle
  BY DEF LoadOlder
<1>2. /\ saved.value \in [Slots -> Refs] /\ saved.keys \in Seq(Refs)
      /\ Len(saved.keys) =< MaxKeys /\ Len(saved.keys) \in Nat
      /\ DOMAIN saved.keys = 1 .. Len(saved.keys)
  BY DEF Types, SavedOK
<1>3. \A ref \in Refs :
        /\ LoadOlderRef(ref) \in Refs
        /\ ref = Null => LoadOlderRef(ref) = Null
        /\ ref # Null => /\ LoadOlderRef(ref) \in Entries
                         /\ LoadOlderRef(ref) # Null
                         /\ LoadOlderRef(ref) = <<ref[1], 1>>
  <2>1. SUFFICES ASSUME NEW ref \in Refs, ref # Null
                 PROVE  <<ref[1], 1>> \in Entries
    BY RefFacts DEF LoadOlderRef, GetRaw
  <2>2. ref[1] \in Forms /\ ref[2] \in 1 .. MaxEntries
    BY <2>1, RefFacts
  <2>3. 1 \in 1 .. MaxEntries
    BY <2>2, FormAssumption
  <2>4. QED
    BY <2>2, <2>3 DEF Entries
<1>4. value' \in [Slots -> Refs]
  BY <1>1, <1>2, <1>3 DEF LoadOlderValues
<1>5. LoadOlderKeys \in Seq(Refs) /\ Len(LoadOlderKeys) = Len(saved.keys)
      /\ \A i \in 1 .. Len(saved.keys) : LoadOlderKeys[i] = LoadOlderRef(saved.keys[i])
  <2>1. LoadOlderKeys = [i \in 1 .. Len(saved.keys) |-> LoadOlderRef(saved.keys[i])]
    BY <1>2 DEF LoadOlderKeys
  <2>2. \A i \in 1 .. Len(saved.keys) : LoadOlderRef(saved.keys[i]) \in Refs
    BY <1>2, <1>3
  <2>3. LoadOlderKeys \in [1 .. Len(saved.keys) -> Refs]
    BY <2>1, <2>2
  <2>4. LoadOlderKeys \in Seq(Refs) /\ Len(LoadOlderKeys) = Len(saved.keys)
    BY <1>2, <2>3, IsASeq, LenProperties
  <2>5. QED
    BY <2>1, <2>4
<1> DEFINE old == LoadOlderKeys
<1> HIDE DEF old
<1>6. /\ keys' \in Seq(Refs) /\ Len(keys') \in Nat /\ DOMAIN keys' = 1 .. Len(keys')
      /\ Len(keys') =< Len(saved.keys)
  BY <1>1, <1>5, OnLoadedIs
<1>7. PICK g : /\ \A n \in 1 .. Len(keys') :
                    /\ g[n] \in 1 .. Len(saved.keys)
                    /\ keys'[n] = LoadOlderKeys[g[n]]
                    /\ LoadOlderKeys[g[n]] # Null
              /\ \A m, n \in 1 .. Len(keys') : m < n => g[m] < g[n]
  <2> DEFINE o == OnLoaded(LoadOlderKeys)
  <2>1. \E g : /\ \A n \in 1 .. Len(o) :
                   /\ g[n] \in 1 .. Len(LoadOlderKeys)
                   /\ o[n] = LoadOlderKeys[g[n]]
                   /\ LoadOlderKeys[g[n]] # Null
             /\ \A m, n \in 1 .. Len(o) : m < n => g[m] < g[n]
    BY <1>5, OnLoadedIs
  <2>2. keys' = o
    BY <1>1
  <2> HIDE DEF o
  <2>3. QED
    BY <2>1, <2>2, <1>5
<1>8. \A n \in 1 .. Len(keys') :
        /\ saved.keys[g[n]] \in Refs /\ saved.keys[g[n]] # Null
        /\ keys'[n] = <<saved.keys[g[n]][1], 1>>
  BY <1>2, <1>3, <1>5, <1>7
<1>15. \A s \in Slots : value'[s] = LoadOlderRef(saved.value[s]) /\ saved.value[s] \in Refs
  BY <1>1, <1>2 DEF LoadOlderValues
<1>16. ASSUME NEW ref \in Held'
       PROVE  \E r \in Entries : ref = <<r[1], 1>> /\ ref \in Entries
  <2>1. \A t \in Threads : call'[t].ref = Null
    BY <1>1, IdleHolds
  <2>2. ref # Null
    BY <1>16 DEF Held
  <2>3. \/ \E s \in Slots : ref = value'[s]
        \/ \E i \in 1 .. Len(keys') : ref = keys'[i]
    BY <1>6, <1>16, <2>1, <2>2 DEF Held
  <2>4. CASE \E s \in Slots : ref = value'[s]
    BY <1>3, <1>15, <2>2, <2>4, RefFacts
  <2>5. CASE \E i \in 1 .. Len(keys') : ref = keys'[i]
    <3>1. PICK i \in 1 .. Len(keys') : ref = keys'[i]
      BY <2>5
    <3>2. ref \in Entries /\ saved.keys[g[i]] \in Entries /\ ref = <<saved.keys[g[i]][1], 1>>
      BY <1>6, <1>8, <2>2, <3>1, RefFacts
    <3>3. QED
      BY <3>2
  <2>6. QED
    BY <2>3, <2>4, <2>5
<1>9. watched' \in [Forms -> 0 .. MaxEntries]
  <2>1. ASSUME NEW f \in Forms, <<f, 1>> \in Held' PROVE 1 \in 0 .. MaxEntries
    <3>1. <<f, 1>> \in Entries
      BY <2>1, <1>16
    <3>2. <<f, 1>>[2] \in 1 .. MaxEntries
      BY <3>1, RefFacts
    <3>3. QED
      BY <3>2, FormAssumption
  <2>2. QED
    BY <1>1, <2>1, FormAssumption
<1>10. Types'
  BY <1>1, <1>2, <1>4, <1>6, <1>9, FormAssumption DEF Types, TypeOK, SavedOK
<1>11. ASSUME NEW ref \in Held' PROVE ref[1] \in Forms /\ ref = <<ref[1], 1>> /\ ref[2] = 1
  <2>1. PICK r \in Entries : ref = <<r[1], 1>>
    BY <1>16
  <2>2. ref[1] = r[1] /\ ref[2] = 1
    BY <2>1
  <2>3. QED
    BY <2>1, <2>2, RefFacts
<1>12. LivingShareWatched'
  BY <1>1, <1>11 DEF LivingShareWatched
<1>13. ASSUME NEW m \in 1 .. Len(keys'), NEW n \in 1 .. Len(keys'), m < n
       PROVE  Rank(keys'[m], {}) < Rank(keys'[n], {}) /\ Rank(keys'[m], {}) =< Rank(keys'[n], {})
  <2>1. /\ g[m] \in 1 .. Len(saved.keys) /\ g[n] \in 1 .. Len(saved.keys) /\ g[m] < g[n]
    BY <1>7, <1>13
  <2>2. saved.keys[g[m]][1] < saved.keys[g[n]][1]
    BY <1>8, <2>1 DEF SavedInv
  <2>3. keys'[m][1] = saved.keys[g[m]][1] /\ keys'[n][1] = saved.keys[g[n]][1]
    BY <1>8
  <2>4. saved.keys[g[m]][1] \in Nat /\ saved.keys[g[n]][1] \in Nat
    BY <1>8, RefFacts
  <2>5. keys'[m] # Null /\ keys'[n] # Null
    BY <1>5, <1>7
  <2>6. Rank(keys'[m], {}) = 2 * keys'[m][1] /\ Rank(keys'[n], {}) = 2 * keys'[n][1]
    BY <2>5 DEF Rank, Alive
  <2>7. PICK a \in Nat, b \in Nat : a = saved.keys[g[m]][1] /\ b = saved.keys[g[n]][1]
    BY <2>4
  <2>8. a < b
    BY Zenon, <2>2, <2>7
  <2>9. Rank(keys'[m], {}) = 2 * a /\ Rank(keys'[n], {}) = 2 * b
    BY Zenon, <2>3, <2>6, <2>7
  <2>10. QED
    BY <2>8, <2>9
<1>14. QED
  BY <1>1, <1>10, <1>12, <1>13 DEF KeysSorted, SortedFor

-----------------------------------------------------------------------------
(* The other steps *)

\* Erasing a value drops its reference.
LEMMA EraseValueDrops ==
  ASSUME Types, NEW s \in Slots, EraseValue(s)
  PROVE  Drops /\ Types'
<1>1. /\ value' = [value EXCEPT ![s] = Null] /\ value' \in [Slots -> Refs]
      /\ UNCHANGED <<exists, watched, keys, iteration, call, saved>>
      /\ deleted' = deleted \intersect Held'
  BY RefFacts DEF EraseValue, FreeEntries, Types, TypeOK
<1>2. \A u \in Slots : value'[u] = value[u] \/ value'[u] = Null
  BY <1>1 DEF Types, TypeOK
<1>3. Held' \subseteq Held
  BY <1>1, <1>2 DEF Held
<1>4. QED
  BY <1>1, <1>3 DEF Drops, Types, TypeOK, SavedOK

\* Only flags of entries that nothing refers to are dropped.
LEMMA DropsKeepOrder ==
  ASSUME Types, KeysSorted, Drops, keys' = keys
  PROVE  KeysSorted'
<1>1. keys \in Seq(Refs) /\ DOMAIN keys = 1 .. Len(keys)
  BY DEF Types, TypeOK
<1>2. \A i \in 1 .. Len(keys) : Rank(keys[i], deleted') = Rank(keys[i], deleted)
                              /\ Alive(keys[i], deleted') = Alive(keys[i], deleted)
  BY <1>1 DEF Rank, Alive, Held, Drops
<1>3. QED
  BY <1>2 DEF KeysSorted, SortedFor

\* watch_form changes no flag of an entry that is a key.
LEMMA WatchKeepsOrder ==
  ASSUME Types, KeysSorted, NEW t \in Threads, WatchForm(t)
  PROVE  KeysSorted'
<1>1. PICK entry \in Entries :
        /\ entry \notin Held \/ entry \notin deleted
        /\ deleted' = deleted \ {entry}
  BY WatchIs
<1>2. keys' = keys /\ keys \in Seq(Refs) /\ DOMAIN keys = 1 .. Len(keys)
  BY DEF WatchForm, Types, TypeOK
<1>3. \A i \in 1 .. Len(keys) : Rank(keys[i], deleted') = Rank(keys[i], deleted)
                              /\ Alive(keys[i], deleted') = Alive(keys[i], deleted)
  BY <1>1, <1>2 DEF Rank, Alive, Held
<1>4. QED
  BY <1>2, <1>3 DEF KeysSorted, SortedFor

\* A call that begins refers to nothing yet.
LEMMA BeginKeeps ==
  ASSUME Types, NEW t \in Threads, NEW fn \in Fns, NEW f \in Forms, Begin(t, fn, f)
  PROVE  Types' /\ Held' \subseteq Held
<1>1. /\ call' = [call EXCEPT ![t] = Frame("watch", fn, f, Null)]
      /\ UNCHANGED <<exists, deleted, watched, value, keys, iteration, saved>>
      /\ call \in [Threads -> Calls]
  BY DEF Begin, Types, TypeOK, Calls
<1>2. /\ Frame("watch", fn, f, Null) \in Calls
      /\ Frame("watch", fn, f, Null).ref = Null
      /\ Frame("watch", fn, f, Null).form = f
  BY RefFacts DEF Frame, Calls
<1>3. call' \in [Threads -> Calls]
  BY <1>1, <1>2
<1>4. \A u \in Threads : /\ call'[u].ref = Null \/ call'[u].ref = call[u].ref
                         /\ call'[u].pc # "idle" => call'[u].form \in Forms
  BY <1>1, <1>2 DEF Types
<1>5. Held' \subseteq Held
  BY <1>1, <1>4 DEF Held
<1>6. QED
  BY <1>1, <1>3, <1>4, <1>5 DEF Types, TypeOK, SavedOK, Calls


\* Where the search for the next key begins: behind the keys up to the previous.
LEMMA FollowingIs ==
  ASSUME Types, KeysSorted
  PROVE  /\ PreviousKey \in Forms \union {0}
         /\ Following(PreviousKey) \in 1 .. Len(keys) + 1
         /\ PreviousKey = 0 \/ FindKey(PreviousKey) # 0 =>
              \A i \in 1 .. Len(keys) : Get(keys[i]) \in Forms =>
                (i >= Following(PreviousKey) <=> Get(keys[i]) > PreviousKey)
<1> DEFINE p == PreviousKey
           k == FindKey(p)
<1>1. p \in Forms \union {0}
  BY DEF PreviousKey, Types, TypeOK
<1>2. keys \in Seq(Refs) /\ Len(keys) \in Nat
  BY DEF Types, TypeOK
<1> HIDE DEF p
<1>3. CASE p = 0
  <2>1. Following(p) = 1
    BY <1>3 DEF Following
  <2>2. \A f \in Forms : f > 0
    BY FormAssumption
  <2>3. ASSUME NEW i \in 1 .. Len(keys), Get(keys[i]) \in Forms
        PROVE  i >= 1 <=> Get(keys[i]) > 0
    BY <1>2, <2>2, <2>3
  <2>4. 1 \in 1 .. Len(keys) + 1
    BY <1>2
  <2>5. QED
    BY <1>1, <1>3, <2>1, <2>3, <2>4 DEF p
<1>4. CASE p # 0
  <2>1. p \in Forms /\ p \in Nat
    BY <1>1, <1>4, FormAssumption
  <2>2. /\ k \in 0 .. Len(keys)
        /\ k # 0 => Get(keys[k]) = p
        /\ k # 0 => \A i \in 1 .. Len(keys) : i < k <=> StableRank(keys[i]) < 2 * p
    BY <2>1, FindKeyIs
  <2>3. Following(p) = IF k = 0 THEN Len(keys) + 1 ELSE k + 1
    BY <1>4 DEF Following
  <2> HIDE DEF k
  <2>4. ASSUME k # 0, NEW i \in 1 .. Len(keys), Get(keys[i]) \in Forms
        PROVE  i >= k + 1 <=> Get(keys[i]) > p
    <3> DEFINE f == Get(keys[i])
    <3>1. f \in Forms /\ f \in Nat /\ k \in 1 .. Len(keys)
      BY <2>2, <2>4, FormAssumption
    <3>2. StableRank(keys[i]) = 2 * f /\ StableRank(keys[k]) = 2 * p
      BY <1>2, <2>1, <2>2, <2>4, <3>1, GetIs
    <3>3. CASE i < k
      <4>1. 2 * f < 2 * p
        BY <2>2, <2>4, <3>2, <3>3
      <4> HIDE DEF f
      <4>2. QED
        BY <2>1, <3>1, <3>3, <4>1 DEF f
    <3>4. CASE i = k
      BY <2>1, <2>2, <2>4, <3>1, <3>4
    <3>5. CASE i > k
      <4>1. Alive(keys[k], deleted)
        BY <1>2, <2>1, <2>2, <2>4, <3>1, GetIs DEF Alive
      <4>2. Rank(keys[k], deleted) < Rank(keys[i], deleted)
        BY <3>1, <3>5, <4>1 DEF KeysSorted, SortedFor
      <4>3. 2 * p < 2 * f
        BY <1>2, <3>1, <3>2, <4>2, RankFacts
      <4> HIDE DEF f
      <4>4. QED
        BY <2>1, <3>1, <3>5, <4>3 DEF f
    <3>6. QED
      BY <3>1, <3>3, <3>4, <3>5
  <2>5. QED
    BY <1>1, <1>2, <1>4, <2>2, <2>3, <2>4 DEF p, k
<1>5. QED
  BY <1>3, <1>4

\* nextKey returns the first key behind the previous one that names a loaded form.
LEMMA NextKeyReturns ==
  ASSUME Types, KeysSorted, NextKey
  PROVE  \/ /\ iteration' = 0
            /\ \A i \in 1 .. Len(keys) :
                 i >= Following(PreviousKey) => Get(keys[i]) \notin exists
         \/ \E k \in 1 .. Len(keys) :
              /\ iteration' = Get(keys[k]) /\ Get(keys[k]) \in exists
              /\ k >= Following(PreviousKey)
              /\ \A i \in 1 .. Len(keys) :
                   i >= Following(PreviousKey) /\ Get(keys[i]) \in exists => k =< i
<1> DEFINE valid == { i \in Following(PreviousKey) .. Len(keys) : Get(keys[i]) \in exists }
<1>1. iteration' = IF valid = {} THEN 0
                   ELSE Get(keys[CHOOSE i \in valid : \A j \in valid : i =< j])
  BY DEF NextKey
<1>2. Following(PreviousKey) \in 1 .. Len(keys) + 1 /\ Len(keys) \in Nat
  BY FollowingIs DEF Types, TypeOK
<1>3. \A i \in 1 .. Len(keys) :
        i \in valid <=> i >= Following(PreviousKey) /\ Get(keys[i]) \in exists
  BY <1>2
<1>4. valid \in SUBSET Nat /\ valid \subseteq 1 .. Len(keys)
  BY <1>2
<1> HIDE DEF valid
<1>5. CASE valid = {}
  BY <1>1, <1>3, <1>5
<1>6. CASE valid # {}
  <2>1. \E i \in valid : \A j \in valid : i <= j
    BY <1>4, <1>6, LeastNat
  <2>2. PICK k \in valid : (\A j \in valid : k =< j) /\ iteration' = Get(keys[k])
    BY <1>1, <1>6, <2>1
  <2>3. k \in 1 .. Len(keys)
    BY <1>4
  <2>4. QED
    BY <1>3, <2>2, <2>3
<1>7. QED
  BY <1>5, <1>6

-----------------------------------------------------------------------------
(* The inductive invariant *)

IInv == Types /\ LivingShareWatched /\ KeysSorted /\ SavedInv

\* The invariant holds initially.
THEOREM InitIInv == Init => IInv
<1> SUFFICES ASSUME Init PROVE IInv
  OBVIOUS
<1>1. Types
  BY InitTypes
<1>2. Held = {}
  BY DEF Init, Held, Idle, Frame
<1>3. LivingShareWatched
  BY <1>2 DEF LivingShareWatched
<1>4. KeysSorted
  BY DEF Init, KeysSorted, SortedFor
<1>5. SavedInv
  BY DEF Init, SavedInv
<1>6. QED
  BY <1>1, <1>3, <1>4, <1>5 DEF IInv

\* A step that leaves the forms' entries and what refers to them alone.
LEMMA Untouched ==
  ASSUME IInv, Types', Held' \subseteq Held, UNCHANGED <<deleted, watched, keys, saved>>
  PROVE  IInv'
BY DEF IInv, LivingShareWatched, KeysSorted, SavedInv

\* Every step of the game, of a call, of a save and of a load keeps it.
THEOREM NextIInv == IInv /\ [Next]_vars => IInv'
<1> SUFFICES ASSUME IInv, [Next]_vars PROVE IInv'
  OBVIOUS
<1> USE DEF IInv
<1>1. ASSUME NEW f \in Forms, CreateForm(f) PROVE IInv'
  <2>1. exists' \subseteq Forms /\ UNCHANGED <<deleted, watched, value, keys, iteration, call, saved>>
    BY <1>1 DEF CreateForm, Types, TypeOK
  <2>2. Types' /\ Held' = Held
    BY <2>1 DEF Types, TypeOK, SavedOK, Held
  <2>3. QED
    BY <2>1, <2>2, Untouched
<1>2. ASSUME NEW f \in Forms, OnFormDeleted(f) PROVE IInv'
  <2>1. Types' /\ KeysSorted'
    BY <1>2, DeletedIs, DeletedKeepsOrder
  <2>2. LivingShareWatched'
    BY <1>2, DeletedIs DEF LivingShareWatched
  <2>3. SavedInv'
    BY <1>2, DeletedIs DEF SavedInv
  <2>4. QED
    BY <2>1, <2>2, <2>3
<1>3. ASSUME NEW f \in Forms, RemoveKey(f) PROVE IInv'
  <2>1. saved' = saved
    BY <1>3 DEF RemoveKey
  <2>2. QED
    BY <1>3, <2>1, RemoveKeyKeeps, DropsShare DEF SavedInv
<1>4. ASSUME NEW t \in Threads, NEW fn \in Fns, NEW f \in Forms, Begin(t, fn, f) PROVE IInv'
  <2>1. UNCHANGED <<deleted, watched, keys, saved>>
    BY <1>4 DEF Begin
  <2>2. QED
    BY <1>4, <2>1, BeginKeeps, Untouched
<1>5. ASSUME NEW t \in Threads, WatchForm(t) PROVE IInv'
  <2>1. saved' = saved
    BY <1>5 DEF WatchForm
  <2>2. QED
    BY <1>5, <2>1, WatchTypes, WatchShares, WatchKeepsOrder DEF SavedInv
<1>6. ASSUME NEW t \in Threads, StoreKey(t) PROVE IInv'
  <2>1. saved' = saved
    BY <1>6 DEF StoreKey
  <2>2. QED
    BY <1>6, <2>1, StoreKeyKeeps, DropsShare DEF SavedInv
<1>7. ASSUME NEW t \in Threads, NEW s \in Slots, StoreValue(t, s) PROVE IInv'
  <2>1. saved' = saved /\ keys' = keys
    BY <1>7 DEF StoreValue
  <2>2. QED
    BY <1>7, <2>1, StoreValueDrops, DropsShare, DropsKeepOrder DEF SavedInv
<1>8. ASSUME NEW s \in Slots, EraseValue(s) PROVE IInv'
  <2>1. saved' = saved /\ keys' = keys
    BY <1>8 DEF EraseValue
  <2>2. QED
    BY <1>8, <2>1, EraseValueDrops, DropsShare, DropsKeepOrder DEF SavedInv
<1>9. CASE NextKey
  <2>1. UNCHANGED <<exists, deleted, watched, value, keys, call, saved>>
    BY <1>9 DEF NextKey
  <2>2. iteration' \in Forms \union {0}
    BY <1>9, NextKeyReturns DEF Types, TypeOK
  <2>3. Types' /\ Held' = Held
    BY <2>1, <2>2 DEF Types, TypeOK, SavedOK, Held
  <2>4. QED
    BY <2>1, <2>3, Untouched
<1>10. CASE Save
  BY <1>10, SaveKeeps
<1>11. CASE Load
  <2>1. saved' = saved
    BY <1>11 DEF Load
  <2>2. QED
    BY <1>11, <2>1, LoadKeeps DEF SavedInv
<1>12. CASE LoadOlder
  <2>1. saved' = saved
    BY <1>12 DEF LoadOlder
  <2>2. QED
    BY <1>12, <2>1, LoadOlderKeeps DEF SavedInv
<1>13. CASE UNCHANGED vars
  <2>1. UNCHANGED <<exists, deleted, watched, value, keys, iteration, call, saved>>
    BY <1>13 DEF vars
  <2>2. Types' /\ Held' = Held
    BY <2>1 DEF Types, TypeOK, SavedOK, Held
  <2>3. QED
    BY <2>1, <2>2, Untouched
<1>14. QED
  BY <1>1, <1>2, <1>3, <1>4, <1>5, <1>6, <1>7, <1>8, <1>9, <1>10, <1>11, <1>12, <1>13 DEF Next

\* The invariant holds in every reachable state.
THEOREM Invariance == Spec => []IInv
BY InitIInv, NextIInv, PTL DEF Spec

-----------------------------------------------------------------------------
(* The properties *)

\* The state keeps its type.
THEOREM TypesHold == Spec => []TypeOK
<1>1. IInv => TypeOK
  BY DEF IInv, Types
<1>2. QED
  BY <1>1, Invariance, PTL

\* All living references to one identifier share the entry that the observer
\* watches, so that one deletion reaches all of them.
THEOREM LivingAreShared == Spec => []LivingShareWatched
<1>1. IInv => LivingShareWatched
  BY DEF IInv
<1>2. QED
  BY <1>1, Invariance, PTL

\* The binary search of a form map finds exactly the living keys, although
\* deletions change the rank of keys where they stand.
THEOREM KeysStaySearchable == Spec => []KeysSearchable
<1>1. IInv => KeysSearchable
  BY SortedSearchable DEF IInv
<1>2. QED
  BY <1>1, Invariance, PTL

\* An expired reference does not come back to life, not even when a new form
\* gets the identifier.
THEOREM ExpiryIsFinal == Spec => ExpiredForGood
<1>1. IInv /\ [Next]_vars =>
        [\A ref \in Held \intersect Held' :
           ref \in deleted => ref \in deleted' \/ Load \/ LoadOlder]_vars
  <2> SUFFICES ASSUME IInv, Next, NEW ref \in Held \intersect Held', ref \in deleted,
                      ~Load, ~LoadOlder
               PROVE  ref \in deleted'
    OBVIOUS
  <2>1. ASSUME NEW t \in Threads, WatchForm(t) PROVE ref \in deleted'
    BY <2>1, WatchIs DEF IInv
  <2>2. ASSUME NEW f \in Forms, OnFormDeleted(f) PROVE ref \in deleted'
    BY <2>2 DEF OnFormDeleted
  <2>3. CASE deleted' = deleted
    BY <2>3
  <2>4. CASE FreeEntries
    BY <2>4 DEF FreeEntries
  <2>5. QED
    BY <2>1, <2>2, <2>3, <2>4
       DEF Next, CreateForm, RemoveKey, Begin, StoreKey, StoreValue, EraseValue, NextKey, Save
<1>2. QED
  BY <1>1, Invariance, PTL DEF Spec, ExpiredForGood

\* nextKey returns the least loaded form above the previous key.
THEOREM LoopsVisitTheNextKey == Spec => NextKeyIsNext
<1> DEFINE above == { f \in exists : f > PreviousKey
                                     /\ \E i \in DOMAIN keys : Get(keys[i]) = f }
           A == NextKey /\ (PreviousKey = 0 \/ FindKey(PreviousKey) # 0)
                => IF above = {} THEN iteration' = 0
                   ELSE iteration' \in above /\ \A f \in above : iteration' =< f
<1>1. IInv /\ [Next]_vars => [A]_vars
  <2> SUFFICES ASSUME IInv, NextKey, PreviousKey = 0 \/ FindKey(PreviousKey) # 0
               PROVE  IF above = {} THEN iteration' = 0
                      ELSE iteration' \in above /\ \A f \in above : iteration' =< f
    OBVIOUS
  <2>1. Types /\ KeysSorted /\ DOMAIN keys = 1 .. Len(keys) /\ exists \subseteq Forms
    BY DEF IInv, Types, TypeOK
  <2>2. \A i \in 1 .. Len(keys) : Get(keys[i]) \in exists =>
          (i >= Following(PreviousKey) <=> Get(keys[i]) > PreviousKey)
    BY <2>1, FollowingIs
  <2>3. \A f : f \in above <=> \E i \in 1 .. Len(keys) :
          f = Get(keys[i]) /\ f \in exists /\ i >= Following(PreviousKey)
    BY <2>1, <2>2
  <2> HIDE DEF above
  <2>4. CASE /\ iteration' = 0
             /\ \A i \in 1 .. Len(keys) :
                  i >= Following(PreviousKey) => Get(keys[i]) \notin exists
    BY <2>3, <2>4
  <2>5. ASSUME NEW k \in 1 .. Len(keys),
               iteration' = Get(keys[k]), Get(keys[k]) \in exists,
               k >= Following(PreviousKey),
               \A i \in 1 .. Len(keys) :
                 i >= Following(PreviousKey) /\ Get(keys[i]) \in exists => k =< i
        PROVE  iteration' \in above /\ \A f \in above : iteration' =< f
    <3>1. iteration' \in above
      BY <2>3, <2>5
    <3>2. ASSUME NEW f \in above PROVE iteration' =< f
      <4>1. PICK i \in 1 .. Len(keys) : f = Get(keys[i]) /\ f \in exists /\ i >= Following(PreviousKey)
        BY <2>3
      <4>2. k =< i
        BY <2>5, <4>1
      <4>3. f \in Forms /\ f \in Nat /\ iteration' \in Forms /\ iteration' \in Nat
        BY <2>1, <2>5, <4>1, FormAssumption
      <4>4. CASE k = i
        BY <2>5, <4>1, <4>3, <4>4
      <4>5. CASE k < i
        <5>1. StableRank(keys[k]) =< StableRank(keys[i])
          BY <2>1, <4>5, SortedRanks
        <5>2. keys[k] \in Refs /\ keys[i] \in Refs
          BY <2>1, SortedRanks
        <5>3. StableRank(keys[k]) = 2 * iteration' /\ StableRank(keys[i]) = 2 * f
          BY <2>5, <4>1, <4>3, <5>2, GetIs
        <5>4. 2 * iteration' =< 2 * f
          BY <5>1, <5>3
        <5>5. \A x, y \in Nat : 2 * x =< 2 * y => x =< y
          OBVIOUS
        <5>6. QED
          BY <4>3, <5>4, <5>5
      <4>6. QED
        BY <4>2, <4>4, <4>5
    <3>3. QED
      BY <3>1, <3>2
  <2>6. QED
    BY <2>1, <2>4, <2>5, NextKeyReturns
<1>2. QED
  BY <1>1, Invariance, PTL DEF Spec, NextKeyIsNext
=============================================================================
