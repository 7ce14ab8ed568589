---------------------------- MODULE Session_proof ----------------------------
(***************************************************************************)
(* What holds of Session for every finite number of objects and domains:   *)
(* counts are exact also while a load rebuilds them, the timers run, what  *)
(* nothing owns is in a queue, the cached root is the root, and a load     *)
(* gives back what was worth keeping of the save.                          *)
(***************************************************************************)
EXTENDS Session, FiniteSetTheorems, TLAPS

\* What Save and OtherSave write.
Archives ==
  [version : {"current", "pre_gc", "unsupported"},
   domains : SUBSET Domains,
   home    : [Objects -> Domains \union {None}],
   item    : [Objects -> Objects \union {None}],
   tes     : [Objects -> Nat],
   queued  : SUBSET Objects,
   root    : [Domains -> Objects \union {None}]]

\* The load is idle or at one of its stages, and then there is something to load.
LoadOK ==
  /\ load = Stage(load.pc, load.todo, load.garbage, load.late)
  /\ load.todo \subseteq Domains /\ load.late \subseteq Domains
  /\ load.pc \in {"idle", "read", "mark", "collect"}
  /\ load.pc = "idle" => load = NotLoading
  /\ load.pc # "idle" => disk \in Archives

DiskOK == disk \in Archives \union {NoSave}

Types == TypeOK /\ LoadOK /\ DiskOK

-----------------------------------------------------------------------------
(* Types *)

LEMMA NoneApart ==
  /\ None \notin Objects /\ None \notin Domains
  /\ IsFiniteSet(Objects) /\ IsFiniteSet(Names)
  /\ \A S \in SUBSET Objects : IsFiniteSet(S) /\ Cardinality(S) \in Nat
<1>1. /\ None \notin Objects /\ None \notin Domains
      /\ IsFiniteSet(Objects) /\ IsFiniteSet(Names)
  BY SessionAssumption DEF Domains
<1>2. ASSUME NEW S \in SUBSET Objects
      PROVE  IsFiniteSet(S) /\ Cardinality(S) \in Nat
  BY <1>1, FS_Subset, FS_CardinalityType
<1>3. QED
  BY <1>1, <1>2

LEMMA MinusType ==
  ASSUME NEW n \in Nat, NEW k \in Nat
  PROVE  Minus(n, k) \in Nat
BY DEF Minus

LEMMA ReferNat ==
  ASSUME NEW c, NEW o
  PROVE  Refers(c, o) \in Nat /\ Refers(c, o) \in {0, 1}
BY DEF Refers

LEMMA NotIdle ==
  ASSUME LoadOK
  PROVE  Idle <=> load.pc = "idle"
BY DEF LoadOK, Idle, NotLoading, Stage

LEMMA AssignTypes ==
  ASSUME TypeOK, NEW c \in Objects, NEW v \in Objects \union {None}, Assign(c, v)
  PROVE  /\ item' \in [Objects -> Objects \union {None}]
         /\ refCount' \in [Objects -> Nat]
         /\ queued' \subseteq Objects
<1>1. item' \in [Objects -> Objects \union {None}]
  BY DEF Assign, TypeOK
<1>2. refCount' \in [Objects -> Nat]
  <2>1. ASSUME NEW o \in Objects
        PROVE  Minus(refCount[o] + (IF o = v THEN 1 ELSE 0), Refers(c, o)) \in Nat
    <3>1. refCount[o] + (IF o = v THEN 1 ELSE 0) \in Nat
      BY DEF TypeOK
    <3>2. QED
      BY <3>1, MinusType, ReferNat
  <2>2. QED
    BY <2>1 DEF Assign
<1>3. queued' \subseteq Objects
  BY DEF Assign, Pushed, TypeOK
<1>4. QED
  BY <1>1, <1>2, <1>3

LEMMA DeleteSelfTypes ==
  ASSUME TypeOK, NEW x \in Objects, DeleteSelf(x)
  PROVE  /\ home' \in [Objects -> Domains \union {None}]
         /\ initialized' \subseteq Objects
         /\ item' \in [Objects -> Objects \union {None}]
         /\ refCount' \in [Objects -> Nat]
         /\ tesRefCount' \in [Objects -> Nat]
         /\ queued' \subseteq Objects
         /\ stack' \subseteq Objects
<1>1. refCount' \in [Objects -> Nat]
  <2>1. \A o \in Objects : Minus(refCount[o], Refers(x, o)) \in Nat
    BY MinusType, ReferNat DEF TypeOK
  <2>2. QED
    BY <2>1 DEF DeleteSelf
<1>2. queued' \subseteq Objects
  BY DEF DeleteSelf, Pushed, TypeOK
<1>3. QED
  BY <1>1, <1>2 DEF DeleteSelf, TypeOK

LEMMA TesReleaseTypes ==
  ASSUME TypeOK, NEW S \in SUBSET Objects, NEW n \in Nat, TesRelease(S, n)
  PROVE  tesRefCount' \in [Objects -> Nat] /\ queued' \subseteq Objects
<1>1. \A o \in Objects : Minus(tesRefCount[o], n) \in Nat
  BY MinusType DEF TypeOK
<1>2. QED
  BY <1>1 DEF TesRelease, Pushed, TypeOK

LEMMA ClearTypes ==
  ASSUME TypeOK, NEW D, ClearState(D)
  PROVE  /\ root' \in [Domains -> Objects \union {None}]
         /\ cachedRoot' \in [Domains -> Objects \union {None}]
         /\ home' \in [Objects -> Domains \union {None}]
         /\ initialized' \subseteq Objects
         /\ item' \in [Objects -> Objects \union {None}]
         /\ refCount' \in [Objects -> Nat]
         /\ tesRefCount' \in [Objects -> Nat]
         /\ queued' \subseteq Objects
         /\ stack' \subseteq Objects
BY DEF ClearState, ForgetRoots, ClearObjects, TypeOK

LEMMA ArchiveTypes ==
  ASSUME TypeOK, NEW version \in {"current", "pre_gc", "unsupported"},
         NEW D \in SUBSET Domains, NEW tes \in [Objects -> Nat]
  PROVE  Archive(version, D, tes) \in Archives
BY DEF Archive, Archives, TypeOK

LEMMA InitTypes == Init => Types
BY SessionAssumption DEF Init, Types, TypeOK, LoadOK, DiskOK, NotLoading, Stage, Domains

LEMMA UseDomainTypes ==
  ASSUME TypeOK, NEW d \in Domains, UseDomain(d)
  PROVE  domains' \subseteq Names /\ running' \subseteq Domains
BY DEF TypeOK, UseDomain, Domains

LEMMA ClearMasterTypes ==
  ASSUME TypeOK, ClearMaster
  PROVE  domains' \subseteq Names
BY DEF TypeOK, ClearMaster

\* Nothing happens to a load or the saved game while scripts run.
LEMMA SameLoad ==
  ASSUME LoadOK, DiskOK, UNCHANGED <<load, disk>>
  PROVE  LoadOK' /\ DiskOK'
BY DEF LoadOK, DiskOK, Archives, Stage

\* A tick during a load leaves it at its stage.
LEMMA TickLoad ==
  ASSUME TypeOK, LoadOK, DiskOK, NEW o \in Objects, TickRelease(o)
  PROVE  /\ LoadOK' /\ DiskOK' /\ UNCHANGED disk /\ (Idle' <=> Idle)
         /\ load'.pc = load.pc /\ load'.todo = load.todo /\ load'.garbage = load.garbage
<1>1. CASE Idle /\ UNCHANGED load
  BY <1>1, SameLoad DEF TickRelease, Idle
<1>2. CASE /\ ~Idle
           /\ load' = [load EXCEPT !.late = @ \union {home[o]}]
  <2>1. load' = Stage(load.pc, load.todo, load.garbage, load.late \union {home[o]})
    BY <1>2 DEF LoadOK, Stage
  <2>2. load.pc # "idle" /\ UNCHANGED disk /\ home[o] \in Domains
    BY <1>2, NotIdle DEF TickRelease, TypeOK
  <2>3. /\ load'.pc = load.pc /\ load'.todo = load.todo /\ load'.garbage = load.garbage
        /\ load'.late = load.late \union {home[o]}
    BY <2>1 DEF Stage
  <2>4. LoadOK'
    <3>1. disk' = disk /\ load'.late \subseteq Domains
      BY <2>2, <2>3 DEF LoadOK
    <3>2. load' = Stage(load'.pc, load'.todo, load'.garbage, load'.late)
      BY <2>1, <2>3
    <3>3. Archives' = Archives /\ Domains' = Domains
      BY DEF Archives, Domains
    <3>4. QED
      BY <2>2, <2>3, <3>1, <3>2, <3>3 DEF LoadOK
  <2>5. ~Idle'
    BY <2>2, <2>3 DEF Idle, NotLoading, Stage
  <2>6. QED
    BY <1>2, <2>2, <2>3, <2>4, <2>5 DEF DiskOK, Archives, NoSave
<1>3. QED
  BY <1>1, <1>2 DEF TickRelease

LEMMA ScriptTypes ==
  ASSUME Types, NEW o \in Objects,
         \/ \E d \in Domains : NewObject(d, o)
         \/ \E v \in Objects \union {None} : SetItem(o, v)
         \/ Retain(o) \/ Release(o) \/ LuaHold(o) \/ LuaDrop(o) \/ TickRelease(o)
  PROVE  Types'
<1> USE DEF Types
<1>1. ASSUME NEW d \in Domains, NewObject(d, o)
      PROVE  Types'
  <2>1. domains' \subseteq Names /\ running' \subseteq Domains
    BY <1>1, UseDomainTypes DEF NewObject
  <2>2. TypeOK'
    BY <1>1, <2>1 DEF NewObject, Script, SameRoots, TypeOK
  <2>3. QED
    BY <1>1, <2>2, SameLoad DEF NewObject, Script
<1>2. ASSUME NEW v \in Objects \union {None}, SetItem(o, v)
      PROVE  Types'
  <2>1. TypeOK'
    BY <1>2, AssignTypes DEF SetItem, Script, SameDomains, SameRoots, TypeOK
  <2>2. QED
    BY <1>2, <2>1, SameLoad DEF SetItem, Script
<1>3. CASE Retain(o)
  <2>1. TypeOK'
    BY <1>3 DEF Retain, Script, SameDomains, SameRoots, TypeOK
  <2>2. QED
    BY <1>3, <2>1, SameLoad DEF Retain, Script
<1>4. CASE Release(o)
  <2>1. TypeOK'
    BY <1>4, TesReleaseTypes DEF Release, Script, SameDomains, SameRoots, TypeOK
  <2>2. QED
    BY <1>4, <2>1, SameLoad DEF Release, Script
<1>5. CASE LuaHold(o) \/ LuaDrop(o)
  <2>1. TypeOK'
    BY <1>5 DEF LuaHold, LuaDrop, Pushed, Script, SameDomains, SameRoots, TypeOK
  <2>2. QED
    BY <1>5, <2>1, SameLoad DEF LuaHold, LuaDrop, Script
<1>6. CASE TickRelease(o)
  <2>1. CASE DeleteSelf(o)
    BY <1>6, <2>1, DeleteSelfTypes, TickLoad DEF TickRelease, SameDomains, SameRoots, TypeOK
  <2>2. CASE ~DeleteSelf(o)
    BY <1>6, <2>2, TickLoad DEF TickRelease, SameDomains, SameRoots, TypeOK
  <2>3. QED
    BY <2>1, <2>2
<1>7. QED
  BY <1>1, <1>2, <1>3, <1>4, <1>5, <1>6

LEMMA RootTypes ==
  ASSUME Types, NEW d \in Domains, Root(d)
  PROVE  Types'
<1> USE DEF Types
<1>1. domains' \subseteq Names /\ running' \subseteq Domains
  BY UseDomainTypes DEF Root
<1>2. UNCHANGED <<activeNames, load, disk, item, refCount, stack>>
  BY DEF Root, Script
<1>3. CASE root[d] \in Live
  BY <1>1, <1>2, <1>3, SameLoad DEF Root, TypeOK, Live
<1>4. CASE root[d] \notin Live
  <2>1. PICK x \in Objects \ Live :
          /\ home' = [home EXCEPT ![x] = d]
          /\ initialized' = initialized \union {x}
          /\ SetRoot(d, x)
          /\ cachedRoot' = [cachedRoot EXCEPT ![d] = x]
    BY <1>4 DEF Root
  <2>2. TypeOK'
    BY <1>1, <1>2, <2>1 DEF SetRoot, TypeOK
  <2>3. QED
    BY <1>2, <2>2, SameLoad
<1>5. QED
  BY <1>3, <1>4

LEMMA TagTypes ==
  ASSUME Types, NEW found \in SUBSET Objects, ReleaseObjectsWithTag(found)
  PROVE  Types'
<1>1. TesRelease(found, MaxTesRetains + 1) /\ MaxTesRetains + 1 \in Nat
  BY SessionAssumption DEF ReleaseObjectsWithTag, FilterObjects
<1>2. TypeOK'
  BY <1>1, TesReleaseTypes
     DEF ReleaseObjectsWithTag, FilterObjects, Script, SameDomains, SameRoots, Types, TypeOK
<1>3. QED
  BY <1>2, SameLoad DEF ReleaseObjectsWithTag, FilterObjects, Script, Types

LEMMA EventTypes ==
  ASSUME Types,
         \/ Revert \/ Restart \/ Save
         \/ \E version \in {"pre_gc", "unsupported"} : OtherSave(version)
         \/ LoadBegin
  PROVE  Types'
<1> USE DEF Types
<1>1. CASE Revert
  <2>1. TypeOK'
    BY <1>1, ClearTypes DEF Revert, ClearMaster, Domains, TypeOK
  <2>2. QED
    BY <1>1, <2>1, SameLoad DEF Revert
<1>2. CASE Restart
  <2>1. TypeOK'
    BY <1>2, ClearTypes DEF Restart, Domains, TypeOK
  <2>2. QED
    BY <1>2, <2>1, SameLoad DEF Restart
<1>3. CASE Save
  <2>1. TypeOK'
    BY <1>3 DEF Save, SameDomains, SameRoots, objects, TypeOK
  <2>2. Contexts \in SUBSET Domains
    BY DEF Contexts, Domains, TypeOK
  <2>3. disk' \in Archives
    BY <1>3, <2>2, ArchiveTypes DEF Save, TypeOK
  <2>4. QED
    BY <1>3, <2>1, <2>3 DEF Save, LoadOK, DiskOK, Idle, NotLoading, Stage, Archives
<1>4. ASSUME NEW version \in {"pre_gc", "unsupported"}, OtherSave(version)
      PROVE  Types'
  <2>1. TypeOK'
    BY <1>4 DEF OtherSave, SameDomains, SameRoots, objects, TypeOK
  <2> DEFINE tes == [o \in Objects |->
                       IF o = root[Default] THEN Minus(tesRefCount[o], 1) ELSE tesRefCount[o]]
  <2>2. tes \in [Objects -> Nat]
    BY MinusType DEF TypeOK
  <2>3. (IF version = "pre_gc" THEN {Default} ELSE {}) \in SUBSET Domains
    BY DEF Domains
  <2>4. disk' \in Archives
    <3>1. disk' = Archive(version, IF version = "pre_gc" THEN {Default} ELSE {}, tes)
      BY <1>4 DEF OtherSave
    <3>2. QED
      BY <2>2, <2>3, <3>1, ArchiveTypes
  <2>5. QED
    BY <1>4, <2>1, <2>4 DEF OtherSave, LoadOK, DiskOK, Idle, NotLoading, Stage, Archives
<1>5. CASE LoadBegin
  <2>1. TypeOK'
    BY <1>5, ClearTypes DEF LoadBegin, ClearMaster, Domains, TypeOK
  <2>2. QED
    BY <1>5, <2>1 DEF LoadBegin, LoadOK, DiskOK, Stage, NotLoading, Archives
<1>6. QED
  BY <1>1, <1>2, <1>3, <1>4, <1>5

LEMMA LoadDomainTypes ==
  ASSUME Types, NEW d \in Domains, LoadDomain(d)
  PROVE  Types'
<1>1. disk \in Archives
  BY DEF LoadDomain, LoadedQueue, Types, LoadOK
<1>2. domains' \subseteq Names /\ running' \subseteq Domains
  BY DEF LoadDomain, LoadedQueue, Types, TypeOK, Domains
<1>3. refCount' \in [Objects -> Nat]
  <2>1. \A o : LoadedRefCount(o) \in Nat
    BY NoneApart DEF LoadedRefCount
  <2>2. QED
    BY <2>1 DEF LoadDomain, LoadedQueue, Types, TypeOK
<1>4. TypeOK'
  BY <1>1, <1>2, <1>3 DEF LoadDomain, LoadedQueue, Types, TypeOK, Archives
<1>5. QED
  BY <1>1, <1>4 DEF LoadDomain, LoadedQueue, Types, LoadOK, DiskOK, Stage, Archives

LEMMA LoadTypes ==
  ASSUME Types, LoadFail \/ LoadEnd \/ Mark \/ LoadDone
  PROVE  Types'
<1> USE DEF Types
<1>1. CASE LoadFail
  <2>1. TypeOK'
    <3>1. domains' \subseteq Names
      BY <1>1, SessionAssumption DEF LoadFail, LoadOK, Archives, Domains, TypeOK
    <3>2. QED
      BY <1>1, <3>1, ClearTypes DEF LoadFail, Started, Domains, TypeOK
  <2>2. QED
    BY <1>1, <2>1 DEF LoadFail, IsNotSupported, LoadOK, DiskOK, NotLoading, Stage
<1>2. CASE LoadEnd
  <2>1. UpdatedTes \in [Objects -> Nat]
    BY DEF UpdatedTes, TypeOK
  <2>2. TypeOK'
    BY <1>2, <2>1 DEF LoadEnd, IsNotSupported, ForgetRoots, Live, TypeOK
  <2>3. QED
    BY <1>2, <2>2 DEF LoadEnd, IsNotSupported, LoadOK, DiskOK, Stage, Archives
<1>3. CASE Mark
  BY <1>3 DEF Mark, SameDomains, SameRoots, objects, TypeOK, LoadOK, DiskOK, Stage, Archives
<1>4. CASE LoadDone
  <2>1. TypeOK'
    BY <1>4 DEF LoadDone, Started, Contexts, Domains, SameRoots, objects, TypeOK
  <2>2. QED
    BY <1>4, <2>1 DEF LoadDone, LoadOK, DiskOK, NotLoading, Stage
<1>5. QED
  BY <1>1, <1>2, <1>3, <1>4

LEMMA CollectTypes ==
  ASSUME Types, NEW o \in Objects, Collect(o)
  PROVE  Types'
<1>1. TypeOK'
  <2>1. CASE DeleteSelf(o)
    BY <2>1, DeleteSelfTypes DEF Collect, SameDomains, SameRoots, Types, TypeOK
  <2>2. CASE ~DeleteSelf(o)
    BY <2>2, AssignTypes DEF Collect, SameDomains, SameRoots, Types, TypeOK
  <2>3. QED
    BY <2>1, <2>2
<1>2. QED
  BY <1>1 DEF Collect, Types, LoadOK, DiskOK, Stage, Archives

LEMMA TypesStep == Types /\ [Next]_vars => Types'
<1>1. SUFFICES ASSUME Types, [Next]_vars PROVE Types'
  OBVIOUS
<1>2. CASE UNCHANGED vars
  BY <1>1, <1>2, SameLoad DEF vars, objects, Types, TypeOK
<1>3. CASE Next
  BY <1>1, <1>3, ScriptTypes, RootTypes, TagTypes, EventTypes, LoadDomainTypes, LoadTypes, CollectTypes
     DEF Next, Domains
<1>4. QED
  BY <1>1, <1>2, <1>3

LEMMA TypesAlways == Spec => []Types
BY InitTypes, TypesStep, PTL DEF Spec

\* The state is well-typed, loads and broken loads included.
THEOREM TypeCorrect == Spec => []TypeOK
<1>1. Types => TypeOK
  BY DEF Types
<1>2. QED
  BY <1>1, TypesAlways, PTL

-----------------------------------------------------------------------------
(* Timers *)

LEMMA UseDomainTimers ==
  ASSUME TypeOK, running = Contexts, NEW d, UseDomain(d)
  PROVE  running' = Contexts'
BY DEF UseDomain, Contexts

LEMMA TimersStep ==
  ASSUME Types, TimersRun, [Next]_vars
  PROVE  TimersRun'
<1>1. LoadOK /\ LoadOK' /\ TypeOK
  BY TypesStep DEF Types
<1>2. CASE UNCHANGED <<domains, running>> /\ UNCHANGED load
  BY <1>2 DEF TimersRun, Idle, Contexts
<1>3. CASE UNCHANGED vars
  BY <1>2, <1>3 DEF vars
<1>4. ASSUME NEW d \in Domains, NEW o \in Objects, NewObject(d, o)
      PROVE  TimersRun'
  BY <1>1, <1>4, UseDomainTimers DEF NewObject, Script, TimersRun
<1>5. ASSUME NEW d \in Domains, Root(d)
      PROVE  TimersRun'
  BY <1>1, <1>5, UseDomainTimers DEF Root, Script, TimersRun
<1>6. ASSUME NEW o \in Objects,
             \/ \E v \in Objects \union {None} : SetItem(o, v)
             \/ Retain(o) \/ Release(o) \/ LuaHold(o) \/ LuaDrop(o) \/ TickRelease(o)
      PROVE  TimersRun'
  <2>1. CASE TickRelease(o)
    BY <1>1, <2>1, TickLoad DEF TickRelease, SameDomains, TimersRun, Contexts, Types
  <2>2. QED
    BY <1>2, <1>6, <2>1 DEF SetItem, Retain, Release, LuaHold, LuaDrop, Script, SameDomains
<1>7. ASSUME NEW found \in SUBSET Objects, ReleaseObjectsWithTag(found)
      PROVE  TimersRun'
  BY <1>2, <1>7 DEF ReleaseObjectsWithTag, FilterObjects, Script, SameDomains
<1>8. CASE Revert \/ Restart
  BY <1>8 DEF Revert, Restart, ClearMaster, TimersRun, Contexts
<1>9. ASSUME Save \/ \E version \in {"pre_gc", "unsupported"} : OtherSave(version)
      PROVE  TimersRun'
  BY <1>2, <1>9 DEF Save, OtherSave, SameDomains
<1>10. CASE LoadBegin \/ LoadEnd \/ Mark
  BY <1>10 DEF LoadBegin, LoadEnd, IsNotSupported, Mark, TimersRun, Idle, NotLoading, Stage
<1>11. ASSUME NEW d \in Domains, LoadDomain(d)
       PROVE  TimersRun'
  <2>1. load'.pc = "read"
    BY <1>1, <1>11 DEF LoadDomain, LoadedQueue, LoadOK, Stage
  <2>2. QED
    BY <2>1 DEF TimersRun, Idle, NotLoading, Stage
<1>12. ASSUME NEW o \in Objects, Collect(o)
       PROVE  TimersRun'
  <2>1. load'.pc = "collect"
    BY <1>1, <1>12 DEF Collect, LoadOK, Stage
  <2>2. QED
    BY <2>1 DEF TimersRun, Idle, NotLoading, Stage
<1>13. CASE LoadFail \/ LoadDone
  BY <1>13 DEF LoadFail, IsNotSupported, LoadDone, Started, TimersRun, Contexts
<1>14. QED
  BY <1>3, <1>4, <1>5, <1>6, <1>7, <1>8, <1>9, <1>10, <1>11, <1>12, <1>13 DEF Next

\* Outside of loads the timers of all contexts run, however many domains there are:
\* inactive ones that a broken load left behind as well.
THEOREM TimersCorrect == Spec => []TimersRun
<1>1. Init => TimersRun
  BY DEF Init, TimersRun, Contexts
<1>2. Types /\ TimersRun /\ [Next]_vars => TimersRun'
  BY TimersStep
<1>3. QED
  BY <1>1, <1>2, TypesAlways, PTL DEF Spec

\* While a load runs the queue of the default context stands still: it exists before
\* every load, and only the contexts that a load creates start their timer at once.
DefaultWaits == load.pc # "idle" => Default \notin running

LEMMA DefaultWaitsStep ==
  ASSUME Types, DefaultWaits, [Next]_vars
  PROVE  DefaultWaits'
<1>1. LoadOK /\ TypeOK /\ Default \notin Names
  BY SessionAssumption DEF Types
<1>2. CASE UNCHANGED <<running, load>>
  BY <1>2 DEF DefaultWaits
<1>3. CASE UNCHANGED vars
  BY <1>2, <1>3 DEF vars
<1>4. CASE load.pc = "idle" /\ UNCHANGED load
  BY <1>4 DEF DefaultWaits
<1>5. ASSUME NEW d \in Domains, NEW o \in Objects, NewObject(d, o)
      PROVE  DefaultWaits'
  BY <1>1, <1>4, <1>5, NotIdle DEF NewObject, Script
<1>6. ASSUME NEW d \in Domains, Root(d)
      PROVE  DefaultWaits'
  BY <1>1, <1>4, <1>6, NotIdle DEF Root, Script
<1>7. ASSUME NEW o \in Objects,
             \/ \E v \in Objects \union {None} : SetItem(o, v)
             \/ Retain(o) \/ Release(o) \/ LuaHold(o) \/ LuaDrop(o) \/ TickRelease(o)
      PROVE  DefaultWaits'
  <2>1. CASE TickRelease(o)
    BY <1>1, <2>1, TickLoad DEF TickRelease, SameDomains, DefaultWaits, Types
  <2>2. QED
    BY <1>2, <1>7, <2>1 DEF SetItem, Retain, Release, LuaHold, LuaDrop, Script, SameDomains
<1>8. ASSUME NEW found \in SUBSET Objects, ReleaseObjectsWithTag(found)
      PROVE  DefaultWaits'
  BY <1>2, <1>8 DEF ReleaseObjectsWithTag, FilterObjects, Script, SameDomains
<1>9. CASE Revert \/ Restart
  BY <1>1, <1>9, NotIdle DEF Revert, Restart, DefaultWaits
<1>10. CASE Save \/ \E version \in {"pre_gc", "unsupported"} : OtherSave(version)
  BY <1>2, <1>10 DEF Save, OtherSave, SameDomains
<1>11. CASE LoadBegin \/ LoadEnd
  BY <1>1, <1>11 DEF LoadBegin, LoadEnd, IsNotSupported, DefaultWaits, TypeOK
<1>12. ASSUME NEW d \in Domains, LoadDomain(d)
       PROVE  DefaultWaits'
  <2>1. load.pc # "idle" /\ running' = IF d \in Contexts THEN running ELSE running \union {d}
    BY <1>12 DEF LoadDomain, LoadedQueue
  <2>2. Default \in Contexts
    BY DEF Contexts
  <2>3. QED
    BY <2>1, <2>2 DEF DefaultWaits
<1>13. ASSUME NEW o \in Objects, Collect(o)
       PROVE  DefaultWaits'
  <2>1. load.pc # "idle" /\ UNCHANGED running
    BY <1>13 DEF Collect, SameDomains
  <2>2. QED
    BY <2>1 DEF DefaultWaits
<1>14. CASE Mark
  <2>1. load.pc # "idle" /\ UNCHANGED running
    BY <1>14 DEF Mark, SameDomains
  <2>2. QED
    BY <2>1 DEF DefaultWaits
<1>15. CASE LoadFail \/ LoadDone
  <2>1. load'.pc = "idle"
    BY <1>15 DEF LoadFail, IsNotSupported, LoadDone, NotLoading, Stage
  <2>2. QED
    BY <2>1 DEF DefaultWaits
<1>16. QED
  BY <1>3, <1>5, <1>6, <1>7, <1>8, <1>9, <1>10, <1>11, <1>12, <1>13, <1>14, <1>15 DEF Next

LEMMA DefaultWaitsAlways == Spec => []DefaultWaits
<1>1. Init => DefaultWaits
  BY DEF Init, DefaultWaits, NotLoading, Stage
<1>2. Types /\ DefaultWaits /\ [Next]_vars => DefaultWaits'
  BY DefaultWaitsStep
<1>3. QED
  BY <1>1, <1>2, TypesAlways, PTL DEF Spec

-----------------------------------------------------------------------------
(* Counts *)

Referrers(o) == { c \in Objects : item[c] = o }

\* Items lead to objects of the container's context; the counts are those of items.
ItemsAtHome ==
  \A c \in Objects : item[c] # None => home[c] # None /\ home[item[c]] = home[c]

CountsOfItems == \A o \in Objects : refCount[o] = Cardinality(Referrers(o))

\* So it is in the saved game, and what is read of it is in its context.
SavedAtHome ==
  disk \in Archives =>
    \A c \in Objects : disk.item[c] # None =>
      disk.home[c] # None /\ disk.home[disk.item[c]] = disk.home[c]

ReadAtHome == load.pc = "read" => \A o \in Objects : home[o] \in {None, disk.home[o]}

Counts == ItemsAtHome /\ CountsOfItems
CountsInv == Counts /\ SavedAtHome /\ ReadAtHome

LEMMA ReferrersFinite ==
  ASSUME NEW o
  PROVE  IsFiniteSet(Referrers(o)) /\ Cardinality(Referrers(o)) \in Nat
BY NoneApart DEF Referrers

\* One reference more, one less.
LEMMA ReferrersMore ==
  ASSUME NEW o, NEW c
  PROVE  Cardinality(Referrers(o) \union {c}) =
           IF c \in Referrers(o) THEN Cardinality(Referrers(o)) ELSE Cardinality(Referrers(o)) + 1
BY ReferrersFinite, FS_AddElement

LEMMA ReferrersLess ==
  ASSUME NEW o, NEW c
  PROVE  Cardinality(Referrers(o) \ {c}) =
           IF c \in Referrers(o) THEN Cardinality(Referrers(o)) - 1 ELSE Cardinality(Referrers(o))
BY ReferrersFinite, FS_RemoveElement

LEMMA NoReferrers ==
  ASSUME NEW o, Cardinality(Referrers(o)) = 0
  PROVE  \A c \in Objects : item[c] # o
BY ReferrersFinite, FS_EmptySet DEF Referrers

\* A cell without an object has no item, and no item refers to it.
LEMMA DeadHaveNoReferrers ==
  ASSUME TypeOK, Counts, NEW o \in Objects, home[o] = None
  PROVE  item[o] = None /\ \A c \in Objects : item[c] # o
BY NoneApart DEF Counts, ItemsAtHome

LEMMA SameCounts ==
  ASSUME Counts, UNCHANGED <<home, item, refCount>>
  PROVE  Counts'
BY DEF Counts, ItemsAtHome, CountsOfItems, Referrers

LEMMA NewCounts ==
  ASSUME TypeOK, Counts, NEW o \in Objects \ Live, NEW d \in Domains,
         home' = [home EXCEPT ![o] = d], UNCHANGED <<item, refCount>>
  PROVE  Counts'
<1>1. item[o] = None /\ \A c \in Objects : item[c] # o
  BY DeadHaveNoReferrers DEF Live
<1>2. ItemsAtHome'
  BY <1>1 DEF Counts, ItemsAtHome, TypeOK
<1>3. QED
  BY <1>2 DEF Counts, CountsOfItems, Referrers

LEMMA AssignCounts ==
  ASSUME TypeOK, Counts, NEW c \in Objects,
         NEW v \in Objects \union {None}, v # item[c] \/ v = None,
         v # None => home[c] # None /\ home[v] = home[c],
         Assign(c, v), UNCHANGED home
  PROVE  Counts'
<1>1. item' = [item EXCEPT ![c] = v]
  BY DEF Assign
<1>2. ItemsAtHome'
  BY <1>1, NoneApart DEF Counts, ItemsAtHome, TypeOK
<1>3. ASSUME NEW o \in Objects
      PROVE  refCount'[o] = Cardinality(Referrers(o)')
  <2>1. refCount'[o] = Minus(refCount[o] + (IF o = v THEN 1 ELSE 0), Refers(c, o))
    BY DEF Assign
  <2>2. refCount[o] = Cardinality(Referrers(o)) /\ refCount[o] \in Nat
    BY DEF Counts, CountsOfItems, TypeOK
  <2>3. c \in Referrers(o) <=> item[c] = o
    BY DEF Referrers
  <2>4. CASE o = v
    <3>1. c \notin Referrers(o)
      BY <2>3, <2>4, NoneApart
    <3>2. Referrers(o)' = Referrers(o) \union {c}
      BY <1>1, <2>4 DEF Referrers, TypeOK
    <3>3. QED
      BY <2>1, <2>2, <2>3, <2>4, <3>1, <3>2, ReferrersMore DEF Minus, Refers
  <2>5. CASE o # v
    <3>1. Referrers(o)' = Referrers(o) \ {c}
      BY <1>1, <2>5 DEF Referrers, TypeOK
    <3>2. Cardinality(Referrers(o) \ {c}) \in Nat
      BY NoneApart DEF Referrers
    <3>3. QED
      BY <2>1, <2>2, <2>3, <2>5, <3>1, <3>2, ReferrersLess DEF Minus, Refers
  <2>6. QED
    BY <2>4, <2>5
<1>4. QED
  BY <1>2, <1>3 DEF Counts, CountsOfItems

LEMMA DeleteSelfCounts ==
  ASSUME TypeOK, Counts, NEW x \in Objects, refCount[x] = 0, DeleteSelf(x)
  PROVE  Counts'
<1>1. /\ home' = [home EXCEPT ![x] = None]
      /\ item' = [item EXCEPT ![x] = None]
  BY DEF DeleteSelf
<1>2. \A c \in Objects : item[c] # x
  BY NoReferrers DEF Counts, CountsOfItems
<1>3. ItemsAtHome'
  BY <1>1, <1>2 DEF Counts, ItemsAtHome, TypeOK
<1>4. ASSUME NEW o \in Objects
      PROVE  refCount'[o] = Cardinality(Referrers(o)')
  <2>1. refCount'[o] = IF o = x THEN 0 ELSE Minus(refCount[o], Refers(x, o))
    BY DEF DeleteSelf
  <2>2. refCount[o] = Cardinality(Referrers(o)) /\ refCount[o] \in Nat
    BY DEF Counts, CountsOfItems, TypeOK
  <2>3. Referrers(o)' = Referrers(o) \ {x}
    BY <1>1, NoneApart DEF Referrers, TypeOK
  <2>4. x \in Referrers(o) <=> item[x] = o
    BY DEF Referrers
  <2>5. Cardinality(Referrers(o) \ {x}) \in Nat
    BY NoneApart DEF Referrers
  <2>6. CASE o = x
    BY <1>2, <2>1, <2>2, <2>3, <2>4, <2>6, ReferrersLess
  <2>7. CASE o # x
    BY <2>1, <2>2, <2>3, <2>4, <2>5, <2>7, ReferrersLess DEF Minus, Refers
  <2>8. QED
    BY <2>6, <2>7
<1>5. QED
  BY <1>3, <1>4 DEF Counts, CountsOfItems

\* Contexts are cleared and deleted as a whole: what stays refers to what stays.
LEMMA KeptCounts ==
  ASSUME TypeOK, Counts, NEW D,
         LET kept == { o \in Live : home[o] \notin D }
         IN  /\ home' = [o \in Objects |-> IF o \in kept THEN home[o] ELSE None]
             /\ item' = [o \in Objects |-> IF o \in kept THEN item[o] ELSE None]
             /\ refCount' = [o \in Objects |-> IF o \in kept THEN refCount[o] ELSE 0]
  PROVE  Counts'
<1> DEFINE kept == { o \in Live : home[o] \notin D }
<1>1. /\ home' = [o \in Objects |-> IF o \in kept THEN home[o] ELSE None]
      /\ item' = [o \in Objects |-> IF o \in kept THEN item[o] ELSE None]
      /\ refCount' = [o \in Objects |-> IF o \in kept THEN refCount[o] ELSE 0]
  OBVIOUS
<1>2. \A c \in Objects : item[c] # None => item[c] \in Objects /\ (c \in kept <=> item[c] \in kept)
  BY DEF Counts, ItemsAtHome, Live, TypeOK
<1> HIDE DEF kept
<1>3. ItemsAtHome'
  BY <1>1, <1>2 DEF Counts, ItemsAtHome, TypeOK
<1>4. ASSUME NEW o \in Objects
      PROVE  refCount'[o] = Cardinality(Referrers(o)')
  <2>1. CASE o \in kept
    <3>1. Referrers(o)' = Referrers(o)
      BY <1>1, <1>2, <2>1, NoneApart DEF Referrers
    <3>2. QED
      BY <1>1, <2>1, <3>1 DEF Counts, CountsOfItems
  <2>2. CASE o \notin kept
    <3>1. Referrers(o)' = {}
      BY <1>1, <1>2, <2>2, NoneApart DEF Referrers
    <3>2. QED
      BY <1>1, <2>2, <3>1, FS_EmptySet
  <2>3. QED
    BY <2>1, <2>2
<1>5. QED
  BY <1>3, <1>4 DEF Counts, CountsOfItems

\* A context is read beside those read before: no reference leads from one to another.
LEMMA LoadDomainCounts ==
  ASSUME Types, CountsInv, NEW d \in Domains, LoadDomain(d)
  PROVE  CountsInv'
<1>1. /\ disk \in Archives /\ UNCHANGED disk
      /\ \A o \in Objects : home[o] \in {None, disk.home[o]}
  BY DEF LoadDomain, LoadedQueue, Types, LoadOK, CountsInv, ReadAtHome
<1>2. /\ home' = [o \in Objects |-> IF o \in Loaded(d) THEN d ELSE home[o]]
      /\ item' = [o \in Objects |-> IF o \in Loaded(d) THEN disk.item[o] ELSE item[o]]
      /\ refCount' = [o \in Objects |-> IF o \in Loaded(d) THEN LoadedRefCount(o) ELSE refCount[o]]
  BY DEF LoadDomain, LoadedQueue
<1>3. d # None /\ \A o \in Objects : o \in Loaded(d) <=> disk.home[o] = d
  BY NoneApart DEF Loaded
<1>4. \A c \in Objects : disk.item[c] # None =>
        /\ disk.item[c] \in Objects
        /\ disk.home[c] # None /\ disk.home[disk.item[c]] = disk.home[c]
  BY <1>1 DEF CountsInv, SavedAtHome, Archives
<1>5. \A c \in Objects : item[c] # None =>
        item[c] \in Objects /\ home[c] # None /\ home[item[c]] = home[c]
  BY DEF CountsInv, Counts, ItemsAtHome, Types, TypeOK
<1>6. \A c \in Objects : item[c] # None => (c \in Loaded(d) <=> item[c] \in Loaded(d))
  BY <1>1, <1>3, <1>5
<1>7. \A c \in Objects : c \in Loaded(d) /\ disk.item[c] # None => disk.item[c] \in Loaded(d)
  BY <1>3, <1>4
<1>8. ItemsAtHome'
  BY <1>2, <1>3, <1>4, <1>5, <1>6, <1>7 DEF ItemsAtHome
<1>9. ASSUME NEW o \in Objects
      PROVE  refCount'[o] = Cardinality(Referrers(o)')
  <2>1. CASE o \in Loaded(d)
    <3>1. { c \in Objects : home'[c] # None /\ item'[c] = o } = { c \in Objects : item'[c] = o }
      BY <1>8, NoneApart DEF ItemsAtHome
    <3>2. QED
      BY <1>2, <2>1, <3>1 DEF LoadedRefCount, Referrers
  <2>2. CASE o \notin Loaded(d)
    <3>1. \A c \in Objects : item'[c] = o <=> item[c] = o
      BY <1>2, <1>6, <1>7, <2>2, NoneApart
    <3>2. Referrers(o)' = Referrers(o)
      BY <3>1 DEF Referrers
    <3>3. QED
      BY <1>2, <2>2, <3>2 DEF CountsInv, Counts, CountsOfItems
  <2>3. QED
    BY <2>1, <2>2
<1>10. SavedAtHome' /\ ReadAtHome'
  BY <1>1, <1>2, <1>3 DEF CountsInv, SavedAtHome, ReadAtHome
<1>11. QED
  BY <1>8, <1>9, <1>10 DEF CountsInv, Counts, CountsOfItems

LEMMA ArchiveAtHome ==
  ASSUME Types, Counts, NEW version, NEW D \in SUBSET Domains, NEW tes,
         disk' = Archive(version, D, tes)
  PROVE  SavedAtHome'
<1>1. /\ disk'.home = [o \in Objects |-> IF home[o] \in D THEN home[o] ELSE None]
      /\ disk'.item = [o \in Objects |-> IF home[o] \in D THEN item[o] ELSE None]
  BY DEF Archive
<1>2. QED
  BY <1>1, NoneApart DEF SavedAtHome, Counts, ItemsAtHome, Types, TypeOK

\* Outside of loads nothing of the archive matters.
LEMMA SameSaved ==
  ASSUME LoadOK, Idle, SavedAtHome, UNCHANGED <<load, disk>>
  PROVE  SavedAtHome' /\ ReadAtHome'
BY DEF LoadOK, Idle, NotLoading, Stage, SavedAtHome, ReadAtHome

LEMMA CountsStep ==
  ASSUME Types, CountsInv, [Next]_vars
  PROVE  CountsInv'
<1> USE DEF CountsInv
<1>1. TypeOK /\ LoadOK /\ LoadOK'
  BY TypesStep DEF Types
<1>2. CASE UNCHANGED vars
  BY <1>2, SameCounts DEF vars, objects, SavedAtHome, ReadAtHome
<1>3. ASSUME NEW d \in Domains, NEW o \in Objects, NewObject(d, o)
      PROVE  CountsInv'
  BY <1>1, <1>3, NewCounts, SameSaved DEF NewObject, Script
<1>4. ASSUME NEW c \in Objects, NEW v \in Objects \union {None}, SetItem(c, v)
      PROVE  CountsInv'
  BY <1>1, <1>4, AssignCounts, SameSaved DEF SetItem, Script, Live
<1>5. ASSUME NEW o \in Objects, Retain(o) \/ Release(o) \/ LuaHold(o) \/ LuaDrop(o)
      PROVE  CountsInv'
  BY <1>1, <1>5, SameCounts, SameSaved DEF Retain, Release, LuaHold, LuaDrop, Script
<1>6. ASSUME NEW found \in SUBSET Objects, ReleaseObjectsWithTag(found)
      PROVE  CountsInv'
  BY <1>1, <1>6, SameCounts, SameSaved DEF ReleaseObjectsWithTag, FilterObjects, Script
<1>7. ASSUME NEW d \in Domains, Root(d)
      PROVE  CountsInv'
  <2>1. Idle /\ UNCHANGED <<load, disk, item, refCount>>
    BY <1>7 DEF Root, Script
  <2>2. CASE UNCHANGED home
    BY <1>1, <2>1, <2>2, SameCounts, SameSaved
  <2>3. ASSUME NEW o \in Objects \ Live, home' = [home EXCEPT ![o] = d]
        PROVE  CountsInv'
    BY <1>1, <2>1, <2>3, NewCounts, SameSaved
  <2>4. QED
    BY <1>7, <2>2, <2>3 DEF Root
<1>8. ASSUME NEW o \in Objects, TickRelease(o)
      PROVE  CountsInv'
  <2>1. load'.pc = load.pc /\ UNCHANGED disk /\ SavedAtHome'
    BY <1>1, <1>8, TickLoad DEF SavedAtHome, Types
  <2>2. CASE refCount[o] = 0 /\ DeleteSelf(o)
    <3>1. Counts'
      BY <1>1, <2>2, DeleteSelfCounts
    <3>2. ReadAtHome'
      BY <1>1, <2>1, <2>2 DEF DeleteSelf, ReadAtHome, TypeOK
    <3>3. QED
      BY <2>1, <3>1, <3>2
  <2>3. CASE UNCHANGED <<home, item, refCount>>
    BY <2>1, <2>3, SameCounts DEF ReadAtHome
  <2>4. QED
    BY <1>8, <2>2, <2>3 DEF TickRelease
<1>9. ASSUME Revert \/ Restart \/ LoadFail
      PROVE  CountsInv'
  <2>1. Counts'
    BY <1>1, <1>9, KeptCounts
         DEF Revert, Restart, LoadFail, IsNotSupported, ClearMaster, ClearState, ClearObjects
  <2>2. SavedAtHome' /\ ReadAtHome'
    BY <1>9 DEF Revert, Restart, LoadFail, IsNotSupported, Idle, NotLoading, Stage, SavedAtHome, ReadAtHome
  <2>3. QED
    BY <2>1, <2>2
<1>10. CASE Save
  <2>1. Contexts \in SUBSET Domains
    BY <1>1 DEF Contexts, Domains, TypeOK
  <2>2. SavedAtHome'
    BY <1>10, <2>1, ArchiveAtHome DEF Save
  <2>3. ReadAtHome'
    BY <1>10 DEF Save, Idle, NotLoading, Stage, ReadAtHome
  <2>4. QED
    BY <1>10, <2>2, <2>3, SameCounts DEF Save, objects
<1>11. ASSUME NEW version \in {"pre_gc", "unsupported"}, OtherSave(version)
       PROVE  CountsInv'
  <2>1. (IF version = "pre_gc" THEN {Default} ELSE {}) \in SUBSET Domains
    BY DEF Domains
  <2>2. SavedAtHome'
    BY <1>11, <2>1, ArchiveAtHome DEF OtherSave
  <2>3. ReadAtHome'
    BY <1>11 DEF OtherSave, Idle, NotLoading, Stage, ReadAtHome
  <2>4. QED
    BY <1>11, <2>2, <2>3, SameCounts DEF OtherSave, objects
<1>12. CASE LoadBegin
  <2>1. ClearObjects(Domains) /\ UNCHANGED disk
    BY <1>12 DEF LoadBegin, ClearMaster, ClearState
  <2>2. Counts'
    BY <1>1, <2>1, KeptCounts DEF ClearObjects
  <2>3. \A o \in Objects : home'[o] = None
    BY <1>1, <2>1 DEF ClearObjects, Live, TypeOK
  <2>4. QED
    BY <2>1, <2>2, <2>3 DEF SavedAtHome, ReadAtHome
<1>13. ASSUME NEW d \in Domains, LoadDomain(d)
       PROVE  CountsInv'
  BY <1>13, LoadDomainCounts
<1>14. CASE LoadEnd
  <2> DEFINE A == activeNames \union {Default}
             kept == { o \in Live : home[o] \notin Domains \ A }
  <2>1. kept = Live \ { o \in Live : home[o] \notin A }
    BY <1>1 DEF Live, TypeOK
  <2>2. /\ home' = [o \in Objects |-> IF o \in kept THEN home[o] ELSE None]
        /\ item' = [o \in Objects |-> IF o \in kept THEN item[o] ELSE None]
        /\ refCount' = [o \in Objects |-> IF o \in kept THEN refCount[o] ELSE 0]
    BY <1>14, <2>1 DEF LoadEnd, IsNotSupported
  <2>3. Counts'
    BY <1>1, <2>2, KeptCounts
  <2>4. SavedAtHome' /\ ReadAtHome'
    BY <1>14 DEF LoadEnd, IsNotSupported, Stage, SavedAtHome, ReadAtHome
  <2>5. QED
    BY <2>3, <2>4
<1>15. ASSUME Mark \/ LoadDone
       PROVE  CountsInv'
  <2>1. Counts'
    BY <1>15, SameCounts DEF Mark, LoadDone, objects
  <2>2. SavedAtHome' /\ ReadAtHome'
    BY <1>15 DEF Mark, LoadDone, NotLoading, Stage, SavedAtHome, ReadAtHome
  <2>3. QED
    BY <2>1, <2>2
<1>16. ASSUME NEW o \in Objects, Collect(o)
       PROVE  CountsInv'
  <2>1. load'.pc = "collect" /\ UNCHANGED disk
    BY <1>1, <1>16 DEF Collect, LoadOK, Stage
  <2>2. CASE refCount[o] = 0 /\ DeleteSelf(o)
    BY <1>1, <2>1, <2>2, DeleteSelfCounts DEF SavedAtHome, ReadAtHome
  <2>3. CASE Assign(o, None) /\ UNCHANGED home
    BY <1>1, <2>1, <2>3, AssignCounts DEF SavedAtHome, ReadAtHome
  <2>4. QED
    BY <1>16, <2>2, <2>3 DEF Collect, NoOwners
<1>17. QED
  BY <1>2, <1>3, <1>4, <1>5, <1>6, <1>7, <1>8, <1>9, <1>10, <1>11, <1>12, <1>13, <1>14,
     <1>15, <1>16 DEF Next

LEMMA CountsAlways == Spec => []CountsInv
<1>1. Init => CountsInv
  <2>1. SUFFICES ASSUME Init PROVE CountsInv
    OBVIOUS
  <2>2. /\ \A c \in Objects : item[c] = None /\ refCount[c] = 0
        /\ load = NotLoading /\ disk = NoSave
    BY <2>1 DEF Init
  <2>3. ASSUME NEW o \in Objects
        PROVE  refCount[o] = Cardinality(Referrers(o))
    <3>1. \A c \in Objects : item[c] # o
      BY <2>2, NoneApart
    <3>2. Referrers(o) = {}
      BY <3>1 DEF Referrers
    <3>3. QED
      BY <2>2, <3>2, FS_EmptySet
  <2>4. ItemsAtHome
    BY <2>2 DEF ItemsAtHome
  <2>5. SavedAtHome
    <3>1. disk \notin Archives
      <4>1. \A a \in Archives : a.version # "none"
        BY DEF Archives
      <4>2. QED
        BY <2>2, <4>1 DEF NoSave
    <3>2. QED
      BY <3>1 DEF SavedAtHome
  <2>6. ReadAtHome
    BY <2>2 DEF ReadAtHome, NotLoading, Stage
  <2>7. QED
    BY <2>3, <2>4, <2>5, <2>6 DEF CountsInv, Counts, CountsOfItems
<1>2. Types /\ CountsInv /\ [Next]_vars => CountsInv'
  BY CountsStep
<1>3. QED
  BY <1>1, <1>2, TypesAlways, PTL DEF Spec

\* The counts that a load rebuilds are those of the items, at each step of it and in
\* each order in which contexts are read and garbage is collected.
THEOREM CountersCorrect == Spec => []CountersExact
<1>1. Types /\ CountsInv => CountersExact
  <2>1. SUFFICES ASSUME Types, CountsInv, NEW o \in Live
                 PROVE  refCount[o] = Cardinality({ c \in Live : item[c] = o })
    BY DEF CountersExact
  <2>2. o \in Objects /\ o # None
    BY <2>1, NoneApart DEF Live
  <2>3. \A c \in Objects : item[c] = o => c \in Live
    BY <2>1, <2>2 DEF Live, CountsInv, Counts, ItemsAtHome
  <2>4. { c \in Live : item[c] = o } = Referrers(o)
    BY <2>3 DEF Live, Referrers
  <2>5. QED
    BY <2>1, <2>2, <2>4 DEF CountsInv, Counts, CountsOfItems
<1>2. QED
  BY <1>1, TypesAlways, CountsAlways, PTL

-----------------------------------------------------------------------------
(* What nothing owns *)

\* Objects get their context before the collector looks for garbage, and what nothing
\* owns is either garbage still to be collected or in its queue.
OwnedOrGarbage ==
  /\ load.pc # "read" => Live \subseteq initialized
  /\ load.pc \in {"idle", "collect"} => \A o \in Live : NoOwners(o) => o \in load.garbage

\* Releasing what S lists leaves nothing without an owner outside of the queue.
LEMMA PushedOwned ==
  ASSUME NEW o \in initialized, NEW S, o \in S, NEW count, NEW tes, NEW held
  PROVE  \/ count[o] # 0 \/ tes[o] # 0 \/ o \in held
         \/ o \in queued \union Pushed(S, count, tes, held)
BY DEF Pushed

LEMMA AssignOwned ==
  ASSUME TypeOK, Live \subseteq initialized, NEW c \in Objects,
         NEW v \in Objects \union {None}, Assign(c, v),
         UNCHANGED <<home, initialized, tesRefCount, stack>>,
         NEW o \in Live, ~NoOwners(o)
  PROVE  ~NoOwners(o)'
<1> DEFINE count == [x \in Objects |-> Minus(refCount[x] + (IF x = v THEN 1 ELSE 0), Refers(c, x))]
<1>1. /\ refCount' = count
      /\ queued' = queued \union Pushed({item[c]} \ {None}, count, tesRefCount, stack)
  BY DEF Assign
<1>2. o \in Objects /\ o \in initialized /\ o # None
  BY NoneApart DEF Live
<1>3. CASE item[c] = o
  <2>1. \/ count[o] # 0 \/ tesRefCount[o] # 0 \/ o \in stack
        \/ o \in queued \union Pushed({item[c]} \ {None}, count, tesRefCount, stack)
    BY <1>2, <1>3, PushedOwned
  <2>2. QED
    BY <1>1, <2>1 DEF NoOwners
<1>4. CASE item[c] # o
  <2>1. refCount[o] \in Nat
    BY <1>2 DEF TypeOK
  <2>2. refCount[o] # 0 => count[o] # 0
    BY <1>2, <1>4, <2>1 DEF Minus, Refers
  <2>3. QED
    BY <1>1, <2>2 DEF NoOwners
<1>5. QED
  BY <1>3, <1>4

LEMMA DeleteSelfOwned ==
  ASSUME TypeOK, Live \subseteq initialized, NEW x \in Objects, DeleteSelf(x),
         NEW o \in Live, o # x, ~NoOwners(o)
  PROVE  ~NoOwners(o)'
<1> DEFINE count == [y \in Objects |-> IF y = x THEN 0 ELSE Minus(refCount[y], Refers(x, y))]
<1>1. /\ refCount' = count
      /\ tesRefCount' = [tesRefCount EXCEPT ![x] = 0]
      /\ stack' = stack \ {x}
      /\ queued' = (queued \ {x}) \union Pushed({item[x]} \ {None, x}, count, tesRefCount, stack)
  BY DEF DeleteSelf
<1>2. o \in Objects /\ o \in initialized /\ o # None /\ tesRefCount'[o] = tesRefCount[o]
  BY <1>1, NoneApart DEF Live, TypeOK
<1>3. CASE item[x] = o
  <2>1. \/ count[o] # 0 \/ tesRefCount[o] # 0 \/ o \in stack
        \/ o \in queued \union Pushed({item[x]} \ {None, x}, count, tesRefCount, stack)
    BY <1>2, <1>3, PushedOwned
  <2>2. QED
    BY <1>1, <1>2, <2>1 DEF NoOwners
<1>4. CASE item[x] # o
  <2>1. refCount[o] \in Nat
    BY <1>2 DEF TypeOK
  <2>2. refCount[o] # 0 => count[o] # 0
    BY <1>2, <1>4, <2>1 DEF Minus, Refers
  <2>3. QED
    BY <1>1, <1>2, <2>2 DEF NoOwners
<1>5. QED
  BY <1>3, <1>4

LEMMA TesReleaseOwned ==
  ASSUME TypeOK, Live \subseteq initialized, NEW S \in SUBSET Objects, NEW n \in Nat,
         TesRelease(S, n), UNCHANGED <<refCount, stack>>,
         NEW o \in Live, ~NoOwners(o)
  PROVE  ~NoOwners(o)'
<1> DEFINE tes == [x \in Objects |-> IF x \in S THEN Minus(tesRefCount[x], n) ELSE tesRefCount[x]]
           R == { x \in S : tesRefCount[x] > 0 }
<1>1. tesRefCount' = tes /\ queued' = queued \union Pushed(R, refCount, tes, stack)
  BY DEF TesRelease
<1>2. o \in Objects /\ o \in initialized /\ tesRefCount[o] \in Nat
  BY DEF Live, TypeOK
<1>3. CASE o \in R
  <2>1. \/ refCount[o] # 0 \/ tes[o] # 0 \/ o \in stack
        \/ o \in queued \union Pushed(R, refCount, tes, stack)
    BY <1>2, <1>3, PushedOwned
  <2>2. QED
    BY <1>1, <2>1 DEF NoOwners
<1>4. CASE o \notin R
  <2>1. tesRefCount[o] # 0 => tes[o] # 0
    BY <1>2, <1>4 DEF Minus
  <2>2. QED
    BY <1>1, <2>1 DEF NoOwners
<1>5. QED
  BY <1>3, <1>4

\* A step outside of loads that takes owners away from no live object but to its queue.
LEMMA IdleOwned ==
  ASSUME LoadOK, Idle, OwnedOrGarbage, UNCHANGED load,
         Live' \subseteq initialized',
         \A o \in Live' : o \notin Live \/ ~NoOwners(o) => ~NoOwners(o)'
  PROVE  OwnedOrGarbage'
BY DEF LoadOK, Idle, NotLoading, Stage, OwnedOrGarbage

LEMMA ScriptOwned ==
  ASSUME Types, OwnedOrGarbage, Idle, UNCHANGED load, NEW o \in Objects,
         \/ \E d \in Domains : NewObject(d, o)
         \/ \E v \in Objects \union {None} : SetItem(o, v)
         \/ Retain(o) \/ Release(o) \/ LuaHold(o) \/ LuaDrop(o)
  PROVE  OwnedOrGarbage'
<1>1. LoadOK /\ TypeOK /\ Live \subseteq initialized
  BY DEF Types, OwnedOrGarbage, Idle, NotLoading, Stage
<1>2. ASSUME NEW d \in Domains, NewObject(d, o)
      PROVE  OwnedOrGarbage'
  <2>1. Live' = Live \union {o}
    BY <1>1, <1>2, NoneApart DEF NewObject, Live, TypeOK
  <2>2. \A x \in Live' : x \notin Live \/ ~NoOwners(x) => ~NoOwners(x)'
    BY <1>2, <2>1 DEF NewObject, NoOwners
  <2>3. QED
    BY <1>1, <1>2, <2>1, <2>2, IdleOwned DEF NewObject
<1>3. ASSUME NEW v \in Objects \union {None}, SetItem(o, v)
      PROVE  OwnedOrGarbage'
  <2>1. /\ UNCHANGED <<home, initialized, tesRefCount, stack>> /\ Assign(o, v)
        /\ Live' = Live
    BY <1>3 DEF SetItem, Live
  <2>2. \A x \in Live' : x \notin Live \/ ~NoOwners(x) => ~NoOwners(x)'
    BY <1>1, <2>1, AssignOwned
  <2>3. QED
    BY <1>1, <2>1, <2>2, IdleOwned
<1>4. CASE Retain(o) \/ LuaHold(o)
  <2>1. Live' = Live /\ UNCHANGED initialized
    BY <1>4 DEF Retain, LuaHold, Live
  <2>2. \A x \in Live : ~NoOwners(x) => ~NoOwners(x)'
    BY <1>1, <1>4 DEF Retain, LuaHold, NoOwners, TypeOK, Live
  <2>3. QED
    BY <1>1, <2>1, <2>2, IdleOwned
<1>5. CASE Release(o)
  <2>1. /\ UNCHANGED <<home, initialized, refCount, stack>> /\ TesRelease({o}, 1)
        /\ Live' = Live
    BY <1>5 DEF Release, Live
  <2>2. \A x \in Live' : x \notin Live \/ ~NoOwners(x) => ~NoOwners(x)'
    BY <1>1, <2>1, TesReleaseOwned
  <2>3. QED
    BY <1>1, <2>1, <2>2, IdleOwned
<1>6. CASE LuaDrop(o)
  <2>1. /\ UNCHANGED <<home, initialized, refCount, tesRefCount>>
        /\ stack' = stack \ {o} /\ Live' = Live
        /\ queued' = queued \union Pushed({o}, refCount, tesRefCount, stack')
    BY <1>6 DEF LuaDrop, Live
  <2>2. ASSUME NEW x \in Live, ~NoOwners(x)
        PROVE  ~NoOwners(x)'
    <3>1. CASE x = o
      <4>1. \/ refCount[x] # 0 \/ tesRefCount[x] # 0 \/ x \in stack'
            \/ x \in queued \union Pushed({o}, refCount, tesRefCount, stack')
        BY <1>1, <3>1, PushedOwned
      <4>2. QED
        BY <2>1, <4>1 DEF NoOwners
    <3>2. CASE x # o
      BY <2>1, <2>2, <3>2 DEF NoOwners
    <3>3. QED
      BY <3>1, <3>2
  <2>3. QED
    BY <1>1, <2>1, <2>2, IdleOwned
<1>7. QED
  BY <1>2, <1>3, <1>4, <1>5, <1>6

LEMMA RootOwned ==
  ASSUME Types, OwnedOrGarbage, NEW d \in Domains, Root(d)
  PROVE  OwnedOrGarbage'
<1>1. /\ LoadOK /\ TypeOK /\ Idle /\ UNCHANGED <<load, refCount, stack>>
      /\ Live \subseteq initialized
  BY DEF Root, Script, Types, OwnedOrGarbage, Idle, NotLoading, Stage
<1>2. CASE UNCHANGED <<home, initialized, tesRefCount, queued>>
  BY <1>1, <1>2, IdleOwned DEF Live, NoOwners
<1>3. ASSUME NEW o \in Objects \ Live,
             /\ home' = [home EXCEPT ![o] = d]
             /\ initialized' = initialized \union {o}
             /\ SetRoot(d, o)
      PROVE  OwnedOrGarbage'
  <2>1. Live' = Live \union {o}
    BY <1>1, <1>3, NoneApart DEF Live, TypeOK
  <2>2. queued' = queued \union {o} /\ \A x \in Live : tesRefCount'[x] = tesRefCount[x]
    BY <1>1, <1>3 DEF SetRoot, TypeOK, Live
  <2>3. \A x \in Live' : x \notin Live \/ ~NoOwners(x) => ~NoOwners(x)'
    BY <1>1, <2>1, <2>2 DEF NoOwners
  <2>4. QED
    BY <1>1, <1>3, <2>1, <2>3, IdleOwned
<1>4. QED
  BY <1>2, <1>3 DEF Root

\* Both of what the timer and the collector do with an object keep others owned.
LEMMA TickOwned ==
  ASSUME Types, OwnedOrGarbage, NEW o \in Objects, TickRelease(o)
  PROVE  OwnedOrGarbage'
<1>1. /\ load'.pc = load.pc /\ load'.todo = load.todo /\ load'.garbage = load.garbage
      /\ (Idle' <=> Idle) /\ TypeOK
  BY TickLoad DEF Types
<1>2. CASE DeleteSelf(o)
  <2>1. Live' = Live \ {o} /\ initialized' = initialized \ {o}
    BY <1>1, <1>2, NoneApart DEF DeleteSelf, Live, TypeOK
  <2>2. CASE load.pc = "read"
    BY <1>1, <2>2 DEF OwnedOrGarbage
  <2>3. CASE load.pc # "read"
    <3>1. \A x \in Live' : ~NoOwners(x) => ~NoOwners(x)'
      BY <1>1, <1>2, <2>1, <2>3, DeleteSelfOwned DEF OwnedOrGarbage
    <3>2. QED
      BY <1>1, <2>1, <2>3, <3>1 DEF OwnedOrGarbage
  <2>4. QED
    BY <2>2, <2>3
<1>3. CASE /\ ~(refCount[o] = 0 /\ tesRefCount[o] = 0 /\ o \notin stack)
           /\ queued' = queued \ {o}
           /\ UNCHANGED <<home, initialized, item, refCount, tesRefCount, stack>>
  <2>1. Live' = Live /\ UNCHANGED initialized
    BY <1>3 DEF Live
  <2>2. \A x \in Live : ~NoOwners(x) => ~NoOwners(x)'
    BY <1>3 DEF NoOwners
  <2>3. QED
    BY <1>1, <2>1, <2>2 DEF OwnedOrGarbage
<1>4. QED
  BY <1>2, <1>3 DEF TickRelease

LEMMA CollectOwned ==
  ASSUME Types, OwnedOrGarbage, NEW o \in Objects, Collect(o)
  PROVE  OwnedOrGarbage'
<1>1. /\ TypeOK /\ Live \subseteq initialized
      /\ load.pc = "collect" /\ load'.pc = "collect" /\ load'.garbage = load.garbage \ {o}
  BY DEF Collect, Types, LoadOK, Stage, OwnedOrGarbage
<1>2. CASE DeleteSelf(o)
  <2>1. Live' = Live \ {o} /\ initialized' = initialized \ {o}
    BY <1>1, <1>2, NoneApart DEF DeleteSelf, Live, TypeOK
  <2>2. \A x \in Live' : ~NoOwners(x) => ~NoOwners(x)'
    BY <1>1, <1>2, <2>1, DeleteSelfOwned
  <2>3. QED
    BY <1>1, <2>1, <2>2 DEF OwnedOrGarbage
<1>3. CASE ~NoOwners(o) /\ Assign(o, None) /\ UNCHANGED <<home, initialized, tesRefCount, stack>>
  <2>1. Live' = Live
    BY <1>3 DEF Live
  <2>2. \A x \in Live : ~NoOwners(x) => ~NoOwners(x)'
    BY <1>1, <1>3, AssignOwned
  <2>3. QED
    BY <1>1, <1>3, <2>1, <2>2 DEF OwnedOrGarbage
<1>4. QED
  BY <1>2, <1>3 DEF Collect

\* What nothing owns is garbage: no object refers to it, so no visit arrives at it.
LEMMA MarkOwned ==
  ASSUME Types, CountsInv, OwnedOrGarbage, Mark
  PROVE  OwnedOrGarbage'
<1> DEFINE S == UNION { Roots(d) : d \in Contexts }
           T == { x \in Live : ~NoOwners(x) }
<1>1. /\ load.pc = "mark" /\ load'.pc = "collect" /\ load'.garbage = NonReachable(S)
      /\ Live' = Live /\ UNCHANGED <<initialized, refCount, tesRefCount, stack, queued>>
  BY DEF Mark, Stage, objects, Live
<1>2. ASSUME NEW o \in Live, NoOwners(o)
      PROVE  o \in NonReachable(S)
  <2>1. S \subseteq T /\ T \in SUBSET Live /\ o \notin T
    BY <1>2 DEF Roots, NoOwners
  <2>2. ASSUME NEW x \in T
        PROVE  item[x] \in T \union {None}
    <3>1. SUFFICES ASSUME item[x] # None PROVE item[x] \in Live /\ ~NoOwners(item[x])
      OBVIOUS
    <3>2. item[x] \in Live
      BY <3>1 DEF Live, CountsInv, Counts, ItemsAtHome, Types, TypeOK
    <3>3. refCount[item[x]] # 0
      <4>1. refCount[item[x]] = Cardinality(Referrers(item[x])) /\ x \in Objects
        BY <3>2 DEF CountsInv, Counts, CountsOfItems, Live
      <4>2. QED
        BY <4>1, NoReferrers
    <3>4. QED
      BY <3>2, <3>3 DEF NoOwners
  <2>3. QED
    BY <2>1, <2>2 DEF NonReachable
<1>3. Live \subseteq initialized
  BY <1>1 DEF OwnedOrGarbage
<1>4. \A o \in Live : NoOwners(o)' => NoOwners(o)
  BY <1>1 DEF NoOwners
<1>5. QED
  BY <1>1, <1>2, <1>3, <1>4 DEF OwnedOrGarbage

LEMMA OwnedStep ==
  ASSUME Types, CountsInv, OwnedOrGarbage, [Next]_vars
  PROVE  OwnedOrGarbage'
<1>1. LoadOK /\ TypeOK
  BY DEF Types
<1>2. CASE UNCHANGED <<home, initialized, refCount, tesRefCount, stack, queued, load>>
  BY <1>2 DEF OwnedOrGarbage, Live, NoOwners
<1>3. CASE UNCHANGED vars
  BY <1>2, <1>3 DEF vars, objects
<1>4. ASSUME NEW o \in Objects,
             \/ \E d \in Domains : NewObject(d, o)
             \/ \E v \in Objects \union {None} : SetItem(o, v)
             \/ Retain(o) \/ Release(o) \/ LuaHold(o) \/ LuaDrop(o)
      PROVE  OwnedOrGarbage'
  <2>1. Idle /\ UNCHANGED load
    BY <1>4 DEF NewObject, SetItem, Retain, Release, LuaHold, LuaDrop, Script
  <2>2. QED
    BY <1>4, <2>1, ScriptOwned
<1>5. ASSUME NEW found \in SUBSET Objects, ReleaseObjectsWithTag(found)
      PROVE  OwnedOrGarbage'
  <2>1. /\ Idle /\ UNCHANGED <<load, home, initialized, refCount, stack>> /\ Live' = Live
        /\ TesRelease(found, MaxTesRetains + 1) /\ MaxTesRetains + 1 \in Nat
    BY <1>5, SessionAssumption DEF ReleaseObjectsWithTag, FilterObjects, Script, Live
  <2>2. Live \subseteq initialized
    BY <2>1 DEF OwnedOrGarbage, Idle, NotLoading, Stage
  <2>3. \A x \in Live' : x \notin Live \/ ~NoOwners(x) => ~NoOwners(x)'
    BY <1>1, <2>1, <2>2, TesReleaseOwned
  <2>4. QED
    BY <1>1, <2>1, <2>2, <2>3, IdleOwned
<1>6. ASSUME NEW d \in Domains, Root(d)
      PROVE  OwnedOrGarbage'
  BY <1>6, RootOwned
<1>7. ASSUME NEW o \in Objects, TickRelease(o) \/ Collect(o)
      PROVE  OwnedOrGarbage'
  BY <1>7, TickOwned, CollectOwned
<1>8. CASE Revert \/ Restart \/ LoadBegin \/ LoadFail
  <2>1. ClearObjects(Domains)
    BY <1>8 DEF Revert, Restart, LoadBegin, LoadFail, IsNotSupported, ClearMaster, ClearState
  <2>2. Live' = {}
    BY <1>1, <2>1 DEF ClearObjects, Live, TypeOK
  <2>3. QED
    BY <2>2 DEF OwnedOrGarbage
<1>9. ASSUME Save \/ \E version \in {"pre_gc", "unsupported"} : OtherSave(version)
      PROVE  OwnedOrGarbage'
  BY <1>2, <1>9 DEF Save, OtherSave, objects
<1>10. ASSUME NEW d \in Domains, LoadDomain(d)
       PROVE  OwnedOrGarbage'
  BY <1>1, <1>10 DEF LoadDomain, LoadedQueue, LoadOK, Stage, OwnedOrGarbage
<1>11. CASE LoadEnd
  <2>1. load'.pc = "mark"
    BY <1>11 DEF LoadEnd, IsNotSupported, Stage
  <2>2. Live' \subseteq initialized'
    BY <1>11 DEF LoadEnd, IsNotSupported, Live
  <2>3. QED
    BY <2>1, <2>2 DEF OwnedOrGarbage
<1>12. CASE Mark
  BY <1>12, MarkOwned
<1>13. CASE LoadDone
  <2>1. /\ load.pc = "collect" /\ load.garbage = {} /\ load'.pc = "idle"
        /\ UNCHANGED objects /\ Live' = Live
    BY <1>13 DEF LoadDone, NotLoading, Stage, objects, Live
  <2>2. QED
    BY <2>1 DEF OwnedOrGarbage, objects, NoOwners
<1>14. QED
  BY <1>3, <1>4, <1>5, <1>6, <1>7, <1>8, <1>9, <1>10, <1>11, <1>12, <1>13 DEF Next

LEMMA OwnedAlways == Spec => []OwnedOrGarbage
<1>1. Init => OwnedOrGarbage
  BY DEF Init, OwnedOrGarbage, Live
<1>2. Types /\ CountsInv /\ OwnedOrGarbage /\ [Next]_vars => OwnedOrGarbage'
  BY OwnedStep
<1>3. QED
  BY <1>1, <1>2, TypesAlways, CountsAlways, PTL DEF Spec

\* Between the game's events nothing is forgotten: every object has an owner, or its
\* queue will release it, whatever is saved, loaded and collected.
THEOREM UnownedCorrect == Spec => []UnownedIsQueued
<1>1. OwnedOrGarbage => UnownedIsQueued
  BY DEF OwnedOrGarbage, UnownedIsQueued, Idle, NotLoading, Stage
<1>2. QED
  BY <1>1, OwnedAlways, PTL

-----------------------------------------------------------------------------
(* Roots *)

\* A root is in its domain and retained; that of an old save is from the end of a
\* load on.
RootsRetained ==
  \A d \in Domains : root[d] # None =>
    /\ home[root[d]] = d
    /\ \/ tesRefCount[root[d]] > 0
       \/ load.pc = "read" /\ disk.version = "pre_gc" /\ d = Default

SavedRootsRetained ==
  disk \in Archives => \A d \in Domains : disk.root[d] # None =>
    /\ disk.home[disk.root[d]] = d
    /\ disk.tes[disk.root[d]] > 0 \/ (disk.version = "pre_gc" /\ d = Default)

\* No pointer to a root is kept while a load runs.
CachedRoots ==
  \A d \in Domains : cachedRoot[d] # None => Idle /\ cachedRoot[d] = root[d]

RootsInv == RootsRetained /\ SavedRootsRetained /\ CachedRoots

\* What the steps of scripts have in common: no root loses its context or its last
\* user retention.
LEMMA KeptRoots ==
  ASSUME Types, RootsInv, load.pc # "read",
         UNCHANGED <<root, cachedRoot, disk>>, Idle => Idle', load'.pc # "read",
         \A o \in Live : tesRefCount[o] > 0 /\ (\E d \in Domains : root[d] = o)
                          => home'[o] = home[o] /\ tesRefCount'[o] > 0
  PROVE  RootsInv'
<1>1. RootsRetained'
  <2>1. SUFFICES ASSUME NEW d \in Domains, root[d] # None
                 PROVE  home'[root[d]] = d /\ tesRefCount'[root[d]] > 0
    BY DEF RootsRetained
  <2>2. home[root[d]] = d /\ tesRefCount[root[d]] > 0 /\ root[d] \in Objects
    BY <2>1 DEF RootsInv, RootsRetained, Types, TypeOK
  <2>3. QED
    BY <2>1, <2>2, NoneApart DEF Live
<1>2. SavedRootsRetained' /\ CachedRoots'
  BY DEF RootsInv, SavedRootsRetained, CachedRoots
<1>3. QED
  BY <1>1, <1>2 DEF RootsInv

\* Of a root one retention is not the scripts' own.
LEMMA OwnRetainsOfRoot ==
  ASSUME NEW o \in Objects, tesRefCount[o] \in Nat, OwnRetains(o) > 0,
         NEW d \in Domains, root[d] = o
  PROVE  tesRefCount[o] > 1
<1> DEFINE D == { x \in Domains : root[x] = o }
<1>1. IsFiniteSet(Domains)
  BY NoneApart, FS_AddElement DEF Domains
<1>2. IsFiniteSet(D) /\ Cardinality(D) \in Nat /\ D # {}
  BY <1>1, FS_Subset, FS_CardinalityType
<1>3. Cardinality(D) # 0
  BY <1>2, FS_EmptySet
<1>4. QED
  BY <1>2, <1>3 DEF OwnRetains

LEMMA ClearedRoots ==
  ASSUME ClearState(Domains), SavedRootsRetained'
  PROVE  RootsInv'
BY DEF ClearState, ForgetRoots, RootsInv, RootsRetained, CachedRoots

LEMMA ScriptRoots ==
  ASSUME Types, RootsInv, NEW o \in Objects,
         \/ \E d \in Domains : NewObject(d, o)
         \/ \E v \in Objects \union {None} : SetItem(o, v)
         \/ Retain(o) \/ Release(o) \/ LuaHold(o) \/ LuaDrop(o)
  PROVE  RootsInv'
<1>1. /\ Idle /\ UNCHANGED <<load, disk, root, cachedRoot>> /\ load.pc = "idle"
      /\ Idle' /\ TypeOK
  BY DEF NewObject, SetItem, Retain, Release, LuaHold, LuaDrop, Script, SameRoots, Idle,
         NotLoading, Stage, Types
<1>2. CASE \E d \in Domains : NewObject(d, o)
  <2>1. o \notin Live /\ UNCHANGED tesRefCount /\ \E d \in Domains : home' = [home EXCEPT ![o] = d]
    BY <1>2 DEF NewObject
  <2>2. \A x \in Live : home'[x] = home[x]
    BY <1>1, <2>1 DEF Live, TypeOK
  <2>3. QED
    BY <1>1, <2>1, <2>2, KeptRoots
<1>3. CASE \/ \E v \in Objects \union {None} : SetItem(o, v)
           \/ LuaHold(o) \/ LuaDrop(o)
  <2>1. UNCHANGED <<home, tesRefCount>>
    BY <1>3 DEF SetItem, LuaHold, LuaDrop
  <2>2. QED
    BY <1>1, <2>1, KeptRoots
<1>4. CASE Retain(o)
  <2>1. UNCHANGED home /\ tesRefCount' = [tesRefCount EXCEPT ![o] = @ + 1]
    BY <1>4 DEF Retain
  <2>2. \A x \in Objects : tesRefCount'[x] >= tesRefCount[x] /\ tesRefCount[x] \in Nat
    BY <1>1, <2>1 DEF TypeOK
  <2>3. \A x \in Objects : tesRefCount[x] > 0 => tesRefCount'[x] > 0
    BY <1>1, <2>1 DEF TypeOK
  <2>4. QED
    BY <1>1, <2>1, <2>3, KeptRoots DEF Live
<1>5. CASE Release(o)
  <2>1. UNCHANGED home /\ OwnRetains(o) > 0
        /\ tesRefCount' = [x \in Objects |-> IF x \in {o} THEN Minus(tesRefCount[x], 1)
                                             ELSE tesRefCount[x]]
    BY <1>5 DEF Release, TesRelease
  <2>2. ASSUME NEW x \in Live, tesRefCount[x] > 0, \E d \in Domains : root[d] = x
        PROVE  tesRefCount'[x] > 0
    <3>1. x \in Objects /\ tesRefCount[x] \in Nat
      BY <1>1 DEF Live, TypeOK
    <3>2. x = o => tesRefCount[x] > 1
      BY <2>1, <2>2, <3>1, OwnRetainsOfRoot
    <3>3. QED
      BY <2>1, <2>2, <3>1, <3>2 DEF Minus
  <2>3. QED
    BY <1>1, <2>1, <2>2, KeptRoots
<1>6. QED
  BY <1>2, <1>3, <1>4, <1>5

\* A tick during a load could only delete a root that is not yet retained; that is the
\* default domain's, whose queue does not tick.
LEMMA TickRoots ==
  ASSUME Types, DefaultWaits, RootsInv, NEW o \in Objects, TickRelease(o)
  PROVE  RootsInv'
<1>1. /\ UNCHANGED <<disk, root, cachedRoot>> /\ TypeOK /\ home[o] \in running
      /\ load'.pc = load.pc /\ load'.todo = load.todo /\ (Idle' <=> Idle)
      /\ \/ tesRefCount[o] = 0 /\ DeleteSelf(o)
         \/ UNCHANGED <<home, tesRefCount>>
  BY TickLoad DEF TickRelease, SameRoots, Types
<1>2. ASSUME NEW x \in Objects, x # o
      PROVE  home'[x] = home[x] /\ tesRefCount'[x] = tesRefCount[x]
  BY <1>1, <1>2 DEF DeleteSelf, TypeOK
<1>3. ASSUME NEW d \in Domains, root[d] # None
      PROVE  /\ home'[root[d]] = d
             /\ \/ tesRefCount'[root[d]] > 0
                \/ load.pc = "read" /\ disk.version = "pre_gc" /\ d = Default
  <2>1. PICK r \in Objects : r = root[d]
    BY <1>1, <1>3 DEF TypeOK
  <2>2. /\ home[r] = d
        /\ \/ tesRefCount[r] > 0
           \/ load.pc = "read" /\ disk.version = "pre_gc" /\ d = Default
    BY <1>3, <2>1 DEF RootsInv, RootsRetained
  <2>3. CASE r # o
    BY <1>2, <2>1, <2>2, <2>3
  <2>4. CASE r = o
    <3>1. tesRefCount[o] > 0
      BY <1>1, <2>2, <2>4 DEF DefaultWaits
    <3>2. UNCHANGED <<home, tesRefCount>>
      BY <1>1, <3>1
    <3>3. QED
      BY <2>1, <2>2, <3>2
  <2>5. QED
    BY <2>3, <2>4
<1>4. RootsRetained'
  BY <1>1, <1>3 DEF RootsRetained
<1>5. SavedRootsRetained' /\ CachedRoots'
  BY <1>1 DEF RootsInv, SavedRootsRetained, CachedRoots, Idle
<1>6. QED
  BY <1>4, <1>5 DEF RootsInv

LEMMA TagRoots ==
  ASSUME ~TaggedRoots, Types, RootsInv, NEW found \in SUBSET Objects, ReleaseObjectsWithTag(found)
  PROVE  RootsInv'
<1>1. /\ Idle /\ UNCHANGED <<load, disk, root, cachedRoot, home>> /\ load.pc = "idle" /\ Idle'
      /\ \A o \in found, d \in Domains : root[d] # o
  BY DEF ReleaseObjectsWithTag, FilterObjects, Script, SameRoots, Idle, NotLoading, Stage
<1>2. \A o \in Objects : o \notin found => tesRefCount'[o] = tesRefCount[o]
  BY DEF ReleaseObjectsWithTag, FilterObjects, TesRelease
<1>3. QED
  BY <1>1, <1>2, KeptRoots DEF Live

LEMMA RootRoots ==
  ASSUME Types, RootsInv, NEW d \in Domains, Root(d)
  PROVE  RootsInv'
<1>1. /\ TypeOK /\ Idle /\ Idle' /\ UNCHANGED <<load, disk>> /\ load.pc = "idle"
      /\ root \in [Domains -> Objects \union {None}]
      /\ cachedRoot \in [Domains -> Objects \union {None}]
  BY DEF Root, Script, Types, TypeOK, Idle, NotLoading, Stage
<1>2. SavedRootsRetained'
  BY <1>1 DEF RootsInv, SavedRootsRetained
<1>3. \A x \in Domains : root[x] # None => home[root[x]] = x /\ tesRefCount[root[x]] > 0
  BY <1>1 DEF RootsInv, RootsRetained
<1>4. \A x \in Domains : cachedRoot[x] # None => cachedRoot[x] = root[x]
  BY DEF RootsInv, CachedRoots
<1>5. CASE /\ cachedRoot' = [cachedRoot EXCEPT ![d] = root[d]]
           /\ UNCHANGED <<home, tesRefCount, root>>
  <2>1. RootsRetained'
    BY <1>1, <1>3, <1>5 DEF RootsRetained
  <2>2. CachedRoots'
    BY <1>1, <1>4, <1>5 DEF CachedRoots
  <2>3. QED
    BY <1>2, <2>1, <2>2 DEF RootsInv
<1>6. ASSUME NEW o \in Objects \ Live,
             /\ home' = [home EXCEPT ![o] = d]
             /\ SetRoot(d, o)
             /\ cachedRoot' = [cachedRoot EXCEPT ![d] = o]
      PROVE  RootsInv'
  <2>1. root' = [root EXCEPT ![d] = o] /\ tesRefCount' = [tesRefCount EXCEPT ![o] = @ + 1]
    BY <1>6 DEF SetRoot
  <2>2. home'[o] = d /\ tesRefCount'[o] > 0
    BY <1>1, <1>6, <2>1 DEF TypeOK
  <2>3. ASSUME NEW x \in Domains, x # d, root[x] # None
        PROVE  home'[root[x]] = x /\ tesRefCount'[root[x]] > 0
    <3>1. root[x] # o /\ root[x] \in Objects
      BY <1>1, <1>3, <2>3, NoneApart DEF Live
    <3>2. QED
      BY <1>1, <1>3, <1>6, <2>1, <2>3, <3>1 DEF TypeOK
  <2>4. RootsRetained'
    BY <1>1, <2>1, <2>2, <2>3 DEF RootsRetained
  <2>5. CachedRoots'
    BY <1>1, <1>4, <1>6, <2>1 DEF CachedRoots
  <2>6. QED
    BY <1>2, <2>4, <2>5 DEF RootsInv
<1>7. QED
  BY <1>5, <1>6 DEF Root

LEMMA SaveRoots ==
  ASSUME Types, RootsInv, Save \/ \E version \in {"pre_gc", "unsupported"} : OtherSave(version)
  PROVE  RootsInv'
<1>1. /\ TypeOK /\ load.pc = "idle" /\ Idle /\ Idle' /\ UNCHANGED <<load, root, cachedRoot, objects>>
  BY DEF Save, OtherSave, SameRoots, Types, Idle, NotLoading, Stage
<1>2. \A d \in Domains : root[d] # None =>
        root[d] \in Objects /\ home[root[d]] = d /\ tesRefCount[root[d]] > 0
  BY <1>1 DEF RootsInv, RootsRetained, TypeOK
<1>3. RootsRetained' /\ CachedRoots'
  BY <1>1, <1>2 DEF RootsInv, RootsRetained, CachedRoots, objects
<1>4. SavedRootsRetained'
  <2>1. CASE Save
    <3>1. /\ disk'.home = [o \in Objects |-> IF home[o] \in Contexts THEN home[o] ELSE None]
          /\ disk'.tes = [o \in Objects |-> IF home[o] \in Contexts THEN tesRefCount[o] ELSE 0]
          /\ disk'.root = [d \in Domains |-> IF d \in Contexts THEN root[d] ELSE None]
      BY <2>1 DEF Save, Archive
    <3>2. QED
      BY <1>2, <3>1 DEF SavedRootsRetained
  <2>2. CASE OtherSave("pre_gc")
    <3>1. /\ disk'.home = [o \in Objects |-> IF home[o] \in {Default} THEN home[o] ELSE None]
          /\ disk'.root = [d \in Domains |-> IF d \in {Default} THEN root[d] ELSE None]
          /\ disk'.version = "pre_gc"
      BY <2>2 DEF OtherSave, Archive
    <3>2. QED
      BY <1>2, <3>1 DEF SavedRootsRetained
  <2>3. CASE OtherSave("unsupported")
    <3>1. disk'.root = [d \in Domains |-> IF d \in {} THEN root[d] ELSE None]
      BY <2>3 DEF OtherSave, Archive
    <3>2. QED
      BY <3>1 DEF SavedRootsRetained
  <2>4. QED
    BY <2>1, <2>2, <2>3
<1>5. QED
  BY <1>3, <1>4 DEF RootsInv

LEMMA LoadDomainRoots ==
  ASSUME Types, CountsInv, RootsInv, NEW d \in Domains, LoadDomain(d)
  PROVE  RootsInv'
<1>1. /\ TypeOK /\ load.pc = "read" /\ load'.pc = "read"
      /\ disk \in Archives /\ UNCHANGED <<disk, cachedRoot>>
      /\ \A o \in Objects : home[o] \in {None, disk.home[o]}
  BY DEF LoadDomain, LoadedQueue, Types, LoadOK, Stage, CountsInv, ReadAtHome
<1>2. /\ home' = [o \in Objects |-> IF o \in Loaded(d) THEN d ELSE home[o]]
      /\ tesRefCount' = [o \in Objects |-> IF o \in Loaded(d) THEN disk.tes[o] ELSE tesRefCount[o]]
      /\ root' = [root EXCEPT ![d] = disk.root[d]]
  BY DEF LoadDomain, LoadedQueue
<1>3. ASSUME NEW x \in Domains, root'[x] # None
      PROVE  /\ home'[root'[x]] = x
             /\ tesRefCount'[root'[x]] > 0 \/ (disk.version = "pre_gc" /\ x = Default)
  <2>1. CASE x = d
    <3>1. root'[x] = disk.root[d] /\ disk.root[d] \in Objects
      BY <1>1, <1>2, <1>3, <2>1 DEF TypeOK, Archives
    <3>2. /\ disk.home[disk.root[d]] = d
          /\ disk.tes[disk.root[d]] > 0 \/ (disk.version = "pre_gc" /\ d = Default)
      BY <1>1, <1>3, <3>1 DEF RootsInv, SavedRootsRetained
    <3>3. QED
      BY <1>2, <2>1, <3>1, <3>2 DEF Loaded
  <2>2. CASE x # d
    <3>1. root'[x] = root[x] /\ root[x] \in Objects
      BY <1>1, <1>2, <1>3, <2>2 DEF TypeOK
    <3>2. /\ home[root[x]] = x
          /\ tesRefCount[root[x]] > 0 \/ (disk.version = "pre_gc" /\ x = Default)
      BY <1>3, <3>1 DEF RootsInv, RootsRetained
    <3>3. root[x] \notin Loaded(d)
      BY <1>1, <2>2, <3>1, <3>2, NoneApart DEF Loaded
    <3>4. QED
      BY <1>2, <3>1, <3>2, <3>3
  <2>3. QED
    BY <2>1, <2>2
<1>4. CachedRoots'
  <2>1. \A x \in Domains : cachedRoot[x] = None
    BY <1>1 DEF RootsInv, CachedRoots, Idle, NotLoading, Stage
  <2>2. QED
    BY <1>1, <2>1 DEF CachedRoots
<1>5. QED
  BY <1>1, <1>3, <1>4 DEF RootsInv, RootsRetained, SavedRootsRetained

\* Whatever the save lacked, the root of each active domain is retained now.
LEMMA LoadEndRoots ==
  ASSUME Types, RootsInv, LoadEnd
  PROVE  RootsInv'
<1> DEFINE A == activeNames \union {Default}
           kept == { o \in Live : home[o] \in A }
<1>1. /\ TypeOK /\ load.pc = "read" /\ load'.pc = "mark" /\ UNCHANGED disk
      /\ ForgetRoots(Domains \ A)
  BY DEF LoadEnd, IsNotSupported, Types, Stage
<1>2. kept = Live \ { o \in Live : home[o] \notin A }
  OBVIOUS
<1>3. /\ home' = [o \in Objects |-> IF o \in kept THEN home[o] ELSE None]
      /\ tesRefCount' = [o \in Objects |-> IF o \in kept THEN UpdatedTes[o] ELSE 0]
  BY <1>2 DEF LoadEnd, IsNotSupported
<1>4. ASSUME NEW d \in Domains, root'[d] # None
      PROVE  home'[root'[d]] = d /\ tesRefCount'[root'[d]] > 0
  <2>1. d \in A /\ root'[d] = root[d] /\ root[d] \in Objects
    BY <1>1, <1>4 DEF ForgetRoots, TypeOK
  <2>2. /\ home[root[d]] = d
        /\ tesRefCount[root[d]] > 0 \/ (disk.version = "pre_gc" /\ d = Default)
    BY <1>4, <2>1 DEF RootsInv, RootsRetained
  <2>3. root[d] \in kept
    BY <2>1, <2>2, NoneApart DEF Live
  <2>4. UpdatedTes[root[d]] > 0
    <3>1. tesRefCount[root[d]] \in Nat
      BY <1>1, <2>1 DEF TypeOK
    <3>2. CASE disk.version = "pre_gc" /\ root[d] = root[Default]
      BY <2>1, <2>3, <3>1, <3>2 DEF UpdatedTes
    <3>3. CASE ~(disk.version = "pre_gc" /\ root[d] = root[Default])
      BY <2>1, <2>2, <3>1, <3>3 DEF UpdatedTes
    <3>4. QED
      BY <3>2, <3>3
  <2>5. QED
    BY <1>3, <2>1, <2>2, <2>3, <2>4
<1>5. CachedRoots'
  <2>1. \A x \in Domains : cachedRoot[x] = None
    BY <1>1 DEF RootsInv, CachedRoots, Idle, NotLoading, Stage
  <2>2. QED
    BY <1>1, <2>1 DEF ForgetRoots, CachedRoots
<1>6. QED
  BY <1>1, <1>4, <1>5 DEF RootsInv, RootsRetained, SavedRootsRetained

LEMMA CollectRoots ==
  ASSUME Types, RootsInv, NEW o \in Objects, Collect(o)
  PROVE  RootsInv'
<1>1. /\ TypeOK /\ load.pc = "collect" /\ load'.pc = "collect"
      /\ UNCHANGED <<root, cachedRoot, disk>>
  BY DEF Collect, Types, LoadOK, Stage, SameRoots
<1>2. \/ tesRefCount[o] = 0 /\ DeleteSelf(o)
      \/ UNCHANGED <<home, tesRefCount>>
  BY DEF Collect, NoOwners
<1>3. \A x \in Live : tesRefCount[x] > 0 => home'[x] = home[x] /\ tesRefCount'[x] > 0
  BY <1>1, <1>2 DEF DeleteSelf, Live, TypeOK
<1>4. ~Idle
  BY <1>1 DEF Idle, NotLoading, Stage
<1>5. QED
  BY <1>1, <1>3, <1>4, KeptRoots

LEMMA RootsStep ==
  ASSUME ~TaggedRoots, Types, CountsInv, DefaultWaits, RootsInv, [Next]_vars
  PROVE  RootsInv'
<1>1. CASE UNCHANGED vars
  BY <1>1 DEF vars, objects, RootsInv, RootsRetained, SavedRootsRetained, CachedRoots, Idle
<1>2. ASSUME NEW o \in Objects,
             \/ \E d \in Domains : NewObject(d, o)
             \/ \E v \in Objects \union {None} : SetItem(o, v)
             \/ Retain(o) \/ Release(o) \/ LuaHold(o) \/ LuaDrop(o) \/ TickRelease(o)
      PROVE  RootsInv'
  BY <1>2, ScriptRoots, TickRoots
<1>3. ASSUME NEW found \in SUBSET Objects, ReleaseObjectsWithTag(found)
      PROVE  RootsInv'
  BY <1>3, TagRoots
<1>4. ASSUME NEW d \in Domains, Root(d) \/ LoadDomain(d)
      PROVE  RootsInv'
  BY <1>4, RootRoots, LoadDomainRoots
<1>5. CASE Revert \/ Restart \/ LoadBegin \/ LoadFail
  <2>1. ClearState(Domains) /\ UNCHANGED disk
    BY <1>5 DEF Revert, Restart, LoadBegin, LoadFail, IsNotSupported, ClearMaster
  <2>2. SavedRootsRetained'
    BY <2>1 DEF RootsInv, SavedRootsRetained
  <2>3. QED
    BY <2>1, <2>2, ClearedRoots
<1>6. CASE Save \/ \E version \in {"pre_gc", "unsupported"} : OtherSave(version)
  BY <1>6, SaveRoots
<1>7. CASE LoadEnd
  BY <1>7, LoadEndRoots
<1>8. CASE Mark \/ LoadDone
  <2>1. /\ load.pc # "read" /\ load'.pc # "read" /\ ~Idle
        /\ UNCHANGED <<root, cachedRoot, disk, home, tesRefCount>>
    BY <1>8 DEF Mark, LoadDone, NotLoading, Stage, SameRoots, objects, Idle
  <2>2. QED
    BY <2>1, KeptRoots
<1>9. ASSUME NEW o \in Objects, Collect(o)
      PROVE  RootsInv'
  BY <1>9, CollectRoots
<1>10. QED
  BY <1>1, <1>2, <1>3, <1>4, <1>5, <1>6, <1>7, <1>8, <1>9 DEF Next

LEMMA RootsAlways ==
  ASSUME ~TaggedRoots
  PROVE  Spec => []RootsInv
<1>1. Init => RootsInv
  <2>1. SUFFICES ASSUME Init PROVE RootsInv
    OBVIOUS
  <2>2. \A a \in Archives : a.version # "none"
    BY DEF Archives
  <2>3. disk \notin Archives
    BY <2>1, <2>2 DEF Init, NoSave
  <2>4. \A d \in Domains : root[d] = None /\ cachedRoot[d] = None
    BY <2>1 DEF Init
  <2>5. QED
    BY <2>3, <2>4 DEF RootsInv, RootsRetained, SavedRootsRetained, CachedRoots
<1>2. Types /\ CountsInv /\ DefaultWaits /\ RootsInv /\ [Next]_vars => RootsInv'
  BY RootsStep
<1>3. QED
  BY <1>1, <1>2, TypesAlways, CountsAlways, DefaultWaitsAlways, PTL DEF Spec

\* The pointer that root() keeps is the root, in its domain and retained, through every
\* sequence of reverts, saves, loads of old and broken saves and restarts, as long as
\* no script gives a root its tag.  Also while timers tick during a load.
THEOREM RootsCorrect ==
  ASSUME ~TaggedRoots
  PROVE  Spec => []CachedRootIsRoot
<1>1. RootsInv => CachedRootIsRoot
  BY DEF RootsInv, RootsRetained, CachedRoots, CachedRootIsRoot, Idle, NotLoading, Stage
<1>2. QED
  BY <1>1, RootsAlways, PTL

-----------------------------------------------------------------------------
(* What a load gives back *)

\* The saved game is whole: what it has is in one of its domains.
SavedWhole ==
  disk \in Archives =>
    /\ \A o \in Objects :
         /\ disk.home[o] \in disk.domains \union {None}
         /\ disk.home[o] = None =>
              disk.item[o] = None /\ disk.tes[o] = 0 /\ o \notin disk.queued
    /\ \A d \in Domains : d \notin disk.domains => disk.root[d] = None
    /\ disk.version # "unsupported" => Default \in disk.domains
    /\ disk.version = "pre_gc" => disk.domains = {Default}

\* The domains that were read so far, and those whose queues kept still since.
Read == disk.domains \ load.todo
Still == Domains \ load.late

\* o is what the save says, or deleted.
AsSaved(o) ==
  home[o] # None =>
    home[o] = disk.home[o] /\ item[o] = disk.item[o] /\ tesRefCount[o] >= disk.tes[o]

\* While the archive is read: what was read is as it was saved, there is nothing else,
\* and nothing is gone but from domains whose queue did not keep still.
ReadInv ==
  /\ stack = {} /\ initialized = {} /\ Default \in Still
  /\ load.todo \subseteq disk.domains /\ Read \subseteq Contexts
  /\ \A o \in Objects :
       /\ AsSaved(o) /\ (o \in queued => o \in disk.queued)
       /\ home[o] # None => home[o] \in Read /\ tesRefCount[o] = disk.tes[o]
       /\ disk.home[o] \in Read \intersect Still =>
            home[o] # None /\ (o \in queued <=> o \in disk.queued)
       /\ o \in WorthKeeping(load.late) /\ disk.home[o] \in Read => home[o] # None
  /\ \A d \in Domains : root[d] = IF d \in Read THEN disk.root[d] ELSE None

RootsAsSaved == \A d \in ActiveContexts : root[d] = disk.root[d]

\* When all is read: the active domains are as they were saved, and of an old save the
\* root is retained.
MarkInv ==
  /\ stack = {} /\ Default \in Still
  /\ \A o \in Objects :
       /\ AsSaved(o)
       /\ home[o] # None =>
            /\ home[o] \in ActiveContexts \intersect Contexts
            /\ disk.version = "pre_gc" /\ o = disk.root[Default] => tesRefCount[o] > 0
            /\ \/ tesRefCount[o] = 0 \/ disk.tes[o] > 0
               \/ disk.version = "pre_gc" /\ o = disk.root[Default]
       /\ disk.home[o] \in ActiveContexts \intersect Still =>
            home[o] # None /\ (o \in queued <=> o \in disk.queued)
  /\ \A o \in WorthKeeping(load.late) : home[o] # None
  /\ RootsAsSaved

\* While garbage is collected: what is worth keeping is no garbage and stays as it was;
\* of the rest the items are cleared one by one.
KeptAsSaved(o) ==
  /\ home[o] # None /\ AsSaved(o)
  /\ o \in disk.queued /\ disk.home[o] \in Still => o \in queued
  /\ o \notin load.garbage

CollectInv ==
  /\ stack = {} /\ Default \in Still
  /\ \A o \in WorthKeeping(load.late) : KeptAsSaved(o)
  /\ \A o \in Live \ WorthKeeping(load.late) :
       home[o] \in Still => tesRefCount[o] = 0 /\ (o \in load.garbage \/ item[o] = None)
  /\ RootsAsSaved

RestoreInv ==
  /\ SavedWhole
  /\ load.pc = "read" => ReadInv
  /\ load.pc = "mark" => MarkInv
  /\ load.pc = "collect" => CollectInv

-----------------------------------------------------------------------------
(* What is worth keeping *)

Persistent(late) ==
  { o \in Objects : /\ disk.home[o] \in ActiveContexts
                    /\ \/ disk.tes[o] > 0
                       \/ o \in disk.queued /\ disk.home[o] \notin late
                       \/ disk.version = "pre_gc" /\ o = disk.root[Default] }

ClosedInSave(S) == \A o \in S : disk.item[o] \in S \union {None}

LEMMA WorthIsLeast ==
  ASSUME NEW L
  PROVE  WorthKeeping(L) = { o \in Objects : \A S \in SUBSET Objects :
                               Persistent(L) \subseteq S /\ ClosedInSave(S) => o \in S }
BY DEF WorthKeeping, Persistent, ClosedInSave

LEMMA WorthInClosed ==
  ASSUME NEW L, NEW S \in SUBSET Objects, Persistent(L) \subseteq S, ClosedInSave(S)
  PROVE  WorthKeeping(L) \subseteq S
BY WorthIsLeast

LEMMA NotWorth ==
  ASSUME NEW L, NEW o \in Objects, o \notin WorthKeeping(L)
  PROVE  \E S \in SUBSET Objects : Persistent(L) \subseteq S /\ ClosedInSave(S) /\ o \notin S
BY WorthIsLeast

LEMMA PersistentWorth ==
  ASSUME NEW L, NEW o \in Persistent(L)
  PROVE  o \in WorthKeeping(L)
BY WorthIsLeast DEF Persistent

LEMMA WorthClosed ==
  ASSUME disk \in Archives, NEW L, NEW o \in WorthKeeping(L)
  PROVE  disk.item[o] \in WorthKeeping(L) \union {None}
<1>1. SUFFICES ASSUME disk.item[o] # None, disk.item[o] \notin WorthKeeping(L) PROVE FALSE
  OBVIOUS
<1>2. o \in Objects
  BY WorthIsLeast
<1>3. PICK v \in Objects : v = disk.item[o]
  BY <1>1, <1>2 DEF Archives
<1>4. PICK S \in SUBSET Objects : Persistent(L) \subseteq S /\ ClosedInSave(S) /\ v \notin S
  BY <1>1, <1>3, NotWorth
<1>5. o \in S
  BY <1>4, WorthInClosed
<1>6. QED
  BY <1>1, <1>3, <1>4, <1>5 DEF ClosedInSave

\* Each of them has an owner among them or outside of the containers.
LEMMA WorthOwned ==
  ASSUME disk \in Archives, NEW L, NEW o \in WorthKeeping(L), o \notin Persistent(L)
  PROVE  \E c \in WorthKeeping(L) : disk.item[c] = o
<1>1. SUFFICES ASSUME \A c \in WorthKeeping(L) : disk.item[c] # o PROVE FALSE
  OBVIOUS
<1> DEFINE S == WorthKeeping(L) \ {o}
<1>2. WorthKeeping(L) \subseteq Objects
  BY WorthIsLeast
<1>3. Persistent(L) \subseteq S
  BY PersistentWorth
<1>4. ClosedInSave(S)
  BY <1>1, WorthClosed DEF ClosedInSave
<1>5. WorthKeeping(L) \subseteq S
  BY <1>2, <1>3, <1>4, WorthInClosed
<1>6. QED
  BY <1>5

\* The more queues have released something, the less is worth keeping.
LEMMA WorthLess ==
  ASSUME disk \in Archives, NEW L, NEW M, L \subseteq M
  PROVE  WorthKeeping(M) \subseteq WorthKeeping(L)
<1>1. Persistent(M) \subseteq Persistent(L)
  BY DEF Persistent
<1>2. Persistent(M) \subseteq WorthKeeping(L)
  BY <1>1, PersistentWorth
<1>3. ClosedInSave(WorthKeeping(L)) /\ WorthKeeping(L) \subseteq Objects
  BY WorthClosed, WorthIsLeast DEF ClosedInSave
<1>4. QED
  BY <1>2, <1>3, WorthInClosed

\* Other domains have as much that is worth keeping as before a queue released something.
LEMMA WorthElsewhere ==
  ASSUME SavedAtHome, disk \in Archives, NEW L, NEW d, d # None,
         NEW o \in WorthKeeping(L), disk.home[o] # d
  PROVE  o \in WorthKeeping(L \union {d})
<1> DEFINE S == WorthKeeping(L \union {d}) \union { x \in Objects : disk.home[x] = d }
<1>1. WorthKeeping(L \union {d}) \subseteq Objects
  BY WorthIsLeast
<1>2. Persistent(L) \subseteq S
  <2>1. ASSUME NEW x \in Persistent(L), disk.home[x] # d
        PROVE  x \in Persistent(L \union {d})
    BY <2>1 DEF Persistent
  <2>2. Persistent(L) \subseteq Objects
    BY DEF Persistent
  <2>3. QED
    BY <2>1, <2>2, PersistentWorth
<1>3. ASSUME NEW x \in S
      PROVE  disk.item[x] \in S \union {None}
  <2>1. CASE x \in WorthKeeping(L \union {d})
    BY <2>1, WorthClosed
  <2>2. CASE x \in Objects /\ disk.home[x] = d
    BY <2>2 DEF SavedAtHome, Archives
  <2>3. QED
    BY <2>1, <2>2
<1>4. WorthKeeping(L) \subseteq S
  BY <1>1, <1>2, <1>3, WorthInClosed DEF ClosedInSave
<1>5. QED
  BY <1>4

LEMMA WorthSame ==
  ASSUME UNCHANGED <<disk, activeNames>>, load'.late = load.late
  PROVE  WorthKeeping(load.late)' = WorthKeeping(load.late)
BY DEF WorthKeeping, ActiveContexts

\* What is worth keeping is in the active domains: references stay in their context.
LEMMA WorthActive ==
  ASSUME Types, SavedAtHome, disk \in Archives, NEW L, NEW o \in WorthKeeping(L)
  PROVE  o \in Objects /\ disk.home[o] \in ActiveContexts
<1> DEFINE A == { x \in Objects : disk.home[x] \in ActiveContexts }
<1>1. Persistent(L) \subseteq A /\ A \in SUBSET Objects
  BY DEF Persistent
<1>2. ASSUME NEW x \in A
      PROVE  disk.item[x] \in A \union {None}
  <2>1. SUFFICES ASSUME disk.item[x] # None PROVE disk.item[x] \in A
    OBVIOUS
  <2>2. disk.item[x] \in Objects
    BY <2>1 DEF Archives
  <2>3. disk.home[disk.item[x]] = disk.home[x]
    BY <2>1 DEF SavedAtHome
  <2>4. QED
    BY <2>2, <2>3
<1>3. ClosedInSave(A)
  BY <1>2 DEF ClosedInSave
<1>4. WorthKeeping(L) \subseteq A
  BY <1>1, <1>3, WorthInClosed
<1>5. QED
  BY <1>4

\* What a queue deletes is from then on not worth keeping: nothing retained it, and no
\* container that is referred to it.
LEMMA DeletedNotWorth ==
  ASSUME Types, CountsInv, SavedWhole, disk \in Archives, NEW L, L \subseteq Domains,
         Default \notin L, NEW o \in Objects, home[o] \in L, refCount[o] = 0, tesRefCount[o] = 0,
         AsSaved(o),
         \A c \in WorthKeeping(L) : disk.home[c] = home[o] => home[c] # None /\ AsSaved(c)
  PROVE  o \notin WorthKeeping(L)
<1>1. SUFFICES ASSUME o \in WorthKeeping(L) PROVE FALSE
  OBVIOUS
<1>2. home[o] # None /\ disk.home[o] = home[o] /\ disk.tes[o] \in Nat /\ tesRefCount[o] >= disk.tes[o]
  BY NoneApart DEF AsSaved, Archives
<1>3. o \notin Persistent(L)
  <2>1. disk.version # "pre_gc"
    BY <1>2 DEF SavedWhole
  <2>2. ~(disk.tes[o] > 0)
    BY <1>2
  <2>3. QED
    BY <1>2, <2>1, <2>2 DEF Persistent
<1>4. PICK c \in WorthKeeping(L) : disk.item[c] = o
  BY <1>1, <1>3, WorthOwned
<1>5. c \in Objects /\ disk.home[c] = home[o]
  <2>1. c \in Objects
    BY WorthIsLeast
  <2>2. QED
    BY <1>2, <1>4, <2>1, NoneApart DEF CountsInv, SavedAtHome
<1>6. item[c] = o
  BY <1>4, <1>5 DEF AsSaved
<1>7. Referrers(o) = {}
  BY NoReferrers DEF CountsInv, Counts, CountsOfItems, Referrers
<1>8. QED
  BY <1>5, <1>6, <1>7 DEF Referrers

-----------------------------------------------------------------------------
(* The steps of a load *)

LEMMA ArchiveWhole ==
  ASSUME Types, NEW version \in {"current", "pre_gc", "unsupported"}, NEW D \in SUBSET Domains,
         version # "unsupported" => Default \in D, version = "pre_gc" => D = {Default},
         NEW tes, disk' = Archive(version, D, tes)
  PROVE  SavedWhole'
<1>1. /\ disk'.version = version /\ disk'.domains = D
      /\ disk'.home = [o \in Objects |-> IF home[o] \in D THEN home[o] ELSE None]
      /\ disk'.item = [o \in Objects |-> IF home[o] \in D THEN item[o] ELSE None]
      /\ disk'.tes = [o \in Objects |-> IF home[o] \in D THEN tes[o] ELSE 0]
      /\ disk'.queued = { o \in queued : home[o] \in D }
      /\ disk'.root = [d \in Domains |-> IF d \in D THEN root[d] ELSE None]
  BY DEF Archive
<1>2. None \notin D
  BY NoneApart
<1>3. ASSUME NEW o \in Objects
      PROVE  /\ disk'.home[o] \in disk'.domains \union {None}
             /\ disk'.home[o] = None =>
                  disk'.item[o] = None /\ disk'.tes[o] = 0 /\ o \notin disk'.queued
  BY <1>1, <1>2
<1>4. \A d \in Domains : d \notin disk'.domains => disk'.root[d] = None
  BY <1>1
<1>5. QED
  BY <1>1, <1>3, <1>4 DEF SavedWhole

\* A load begins with nothing.
LEMMA BeginRestore ==
  ASSUME Types, SavedWhole, LoadBegin
  PROVE  RestoreInv'
<1>1. /\ UNCHANGED disk /\ load' = Stage("read", disk.domains, {}, {})
      /\ ForgetRoots(Domains) /\ ClearObjects(Domains) /\ TypeOK
  BY DEF LoadBegin, ClearMaster, ClearState, Types
<1>2. { o \in Live : home[o] \notin Domains } = {}
  BY <1>1 DEF Live, TypeOK
<1>3. /\ \A o \in Objects : home'[o] = None
      /\ stack' = {} /\ queued' = {} /\ initialized' = {}
  BY <1>1, <1>2 DEF ClearObjects
<1>4. \A d \in Domains : root'[d] = None
  BY <1>1 DEF ForgetRoots
<1>5. load'.pc = "read" /\ load'.todo = disk'.domains /\ load'.late = {}
  BY <1>1 DEF Stage
<1>6. Read' = {} /\ Default \in Still'
  BY <1>5 DEF Read, Still, Domains
<1>7. ReadInv'
  BY <1>3, <1>4, <1>5, <1>6 DEF ReadInv, AsSaved
<1>8. SavedWhole'
  BY <1>1 DEF SavedWhole
<1>9. QED
  BY <1>5, <1>7, <1>8 DEF RestoreInv

LEMMA DomainRestore ==
  ASSUME Types, ReadInv, NEW d \in Domains, LoadDomain(d)
  PROVE  ReadInv'
<1>1. /\ disk \in Archives /\ UNCHANGED <<activeNames, disk, stack, initialized>> /\ TypeOK
      /\ d \in load.todo /\ load'.todo = load.todo \ {d} /\ load'.late = load.late
      /\ d # None /\ None \notin Domains
  BY NoneApart DEF LoadDomain, LoadedQueue, Types, LoadOK, Stage
<1>2. /\ home' = [o \in Objects |-> IF o \in Loaded(d) THEN d ELSE home[o]]
      /\ item' = [o \in Objects |-> IF o \in Loaded(d) THEN disk.item[o] ELSE item[o]]
      /\ tesRefCount' = [o \in Objects |-> IF o \in Loaded(d) THEN disk.tes[o] ELSE tesRefCount[o]]
      /\ queued' = queued \union (disk.queued \intersect Loaded(d))
      /\ root' = [root EXCEPT ![d] = disk.root[d]]
      /\ domains' = domains \union ({d} \ {Default})
  BY DEF LoadDomain, LoadedQueue
<1>3. /\ load'.todo \subseteq disk'.domains /\ Read' = Read \union {d}
      /\ d \notin Read /\ Read \subseteq Contexts /\ Still' = Still
  BY <1>1 DEF ReadInv, Read, Still
<1>4. Read' \subseteq Contexts'
  BY <1>2, <1>3 DEF Contexts
<1>5. WorthKeeping(load.late)' = WorthKeeping(load.late)
  BY <1>1, WorthSame
<1>6. ASSUME NEW o \in Objects
      PROVE  /\ AsSaved(o)' /\ (o \in queued' => o \in disk'.queued)
             /\ home'[o] # None => home'[o] \in Read' /\ tesRefCount'[o] = disk'.tes[o]
             /\ disk'.home[o] \in Read' \intersect Still' =>
                  home'[o] # None /\ (o \in queued' <=> o \in disk'.queued)
             /\ o \in WorthKeeping(load.late)' /\ disk'.home[o] \in Read' => home'[o] # None
  <2>1. /\ AsSaved(o) /\ (o \in queued => o \in disk.queued)
        /\ home[o] # None => home[o] \in Read /\ tesRefCount[o] = disk.tes[o]
        /\ disk.home[o] \in Read \intersect Still =>
             home[o] # None /\ (o \in queued <=> o \in disk.queued)
        /\ o \in WorthKeeping(load.late) /\ disk.home[o] \in Read => home[o] # None
    BY DEF ReadInv
  <2>2. CASE disk.home[o] = d
    <3>1. o \in Loaded(d) /\ disk.tes[o] \in Nat
      BY <1>1, <2>2 DEF Loaded, Archives
    <3>2. /\ home'[o] = d /\ item'[o] = disk.item[o] /\ tesRefCount'[o] = disk.tes[o]
          /\ o \in queued' <=> o \in disk.queued
      BY <1>2, <2>1, <3>1
    <3>3. QED
      BY <1>1, <1>3, <2>2, <3>1, <3>2 DEF AsSaved
  <2>3. CASE disk.home[o] # d
    <3>1. o \notin Loaded(d)
      BY <2>3 DEF Loaded
    <3>2. /\ home'[o] = home[o] /\ item'[o] = item[o] /\ tesRefCount'[o] = tesRefCount[o]
          /\ o \in queued' <=> o \in queued
      BY <1>2, <3>1
    <3>3. QED
      BY <1>1, <1>3, <1>5, <2>1, <2>3, <3>2 DEF AsSaved
  <2>4. QED
    BY <2>2, <2>3
<1>7. ASSUME NEW x \in Domains
      PROVE  root'[x] = IF x \in Read' THEN disk.root[x] ELSE None
  <2>1. root[x] = IF x \in Read THEN disk.root[x] ELSE None
    BY DEF ReadInv
  <2>2. QED
    BY <1>1, <1>2, <1>3, <2>1 DEF TypeOK
<1>8. stack' = {} /\ initialized' = {} /\ Default \in Still'
  BY <1>1, <1>3 DEF ReadInv
<1>9. QED
  BY <1>1, <1>3, <1>4, <1>6, <1>7, <1>8 DEF ReadInv

\* The contexts of the active domains are left, whole.
LEMMA EndRestore ==
  ASSUME Types, SavedAtHome, SavedWhole, ReadInv, LoadEnd
  PROVE  MarkInv'
<1>1. /\ disk \in Archives /\ UNCHANGED <<activeNames, disk, stack>> /\ TypeOK
      /\ load.todo = {} /\ disk.version # "unsupported" /\ load'.late = load.late
      /\ None \notin Domains /\ None \notin Objects
      /\ domains' = domains \intersect activeNames
      /\ ForgetRoots(Domains \ ActiveContexts)
  BY NoneApart DEF LoadEnd, IsNotSupported, Types, LoadOK, Stage, ActiveContexts
<1>2. /\ ActiveContexts' = ActiveContexts /\ ActiveContexts \subseteq Domains
      /\ Still' = Still /\ WorthKeeping(load.late)' = WorthKeeping(load.late)
  BY <1>1, WorthSame DEF ActiveContexts, Domains, TypeOK, Still
<1>3. Read = disk.domains /\ Default \in disk.domains /\ Read \subseteq Contexts
  BY <1>1 DEF Read, ReadInv, SavedWhole
<1> DEFINE kept == { o \in Live : home[o] \in ActiveContexts }
<1>4. kept = Live \ { o \in Live : home[o] \notin ActiveContexts }
  OBVIOUS
<1>5. /\ home' = [o \in Objects |-> IF o \in kept THEN home[o] ELSE None]
      /\ item' = [o \in Objects |-> IF o \in kept THEN item[o] ELSE None]
      /\ tesRefCount' = [o \in Objects |-> IF o \in kept THEN UpdatedTes[o] ELSE 0]
      /\ queued' = queued \intersect kept
  BY <1>4 DEF LoadEnd, IsNotSupported, ActiveContexts
<1>6. \A o \in Objects : o \in kept <=> home[o] \in ActiveContexts
  BY <1>1, <1>2 DEF Live
<1>7. \A d \in Domains : root[d] = disk.root[d]
  BY <1>1, <1>3 DEF ReadInv, SavedWhole
<1> HIDE DEF kept
<1>8. ASSUME NEW o \in Objects
      PROVE  /\ AsSaved(o)'
             /\ home'[o] # None =>
                  /\ home'[o] \in ActiveContexts' \intersect Contexts'
                  /\ disk'.version = "pre_gc" /\ o = disk'.root[Default] => tesRefCount'[o] > 0
                  /\ \/ tesRefCount'[o] = 0 \/ disk'.tes[o] > 0
                     \/ disk'.version = "pre_gc" /\ o = disk'.root[Default]
             /\ disk'.home[o] \in ActiveContexts' \intersect Still' =>
                  home'[o] # None /\ (o \in queued' <=> o \in disk'.queued)
             /\ o \in WorthKeeping(load.late) => home'[o] # None
  <2>1. disk.home[o] \in disk.domains \union {None}
    BY <1>1 DEF SavedWhole
  <2>2. /\ AsSaved(o)
        /\ home[o] # None => home[o] \in Read /\ tesRefCount[o] = disk.tes[o]
        /\ disk.home[o] \in Read \intersect Still =>
             home[o] # None /\ (o \in queued <=> o \in disk.queued)
        /\ o \in WorthKeeping(load.late) /\ disk.home[o] \in Read => home[o] # None
    BY DEF ReadInv
  <2>3. disk.home[o] \in ActiveContexts => disk.home[o] \in Read
    BY <1>1, <1>2, <1>3, <2>1
  <2>4. o \in WorthKeeping(load.late) => disk.home[o] \in ActiveContexts
    BY <1>1, WorthActive
  <2>5. CASE o \notin kept
    <3>1. home'[o] = None
      BY <1>5, <2>5
    <3>2. home[o] \notin ActiveContexts
      BY <1>6, <2>5
    <3>3. QED
      BY <1>1, <1>2, <2>2, <2>3, <2>4, <3>1, <3>2 DEF AsSaved
  <2>6. CASE o \in kept
    <3>1. home[o] \in ActiveContexts /\ home[o] # None /\ home'[o] = home[o] /\ o \in Live
      BY <1>1, <1>2, <1>5, <1>6, <2>6 DEF Live
    <3>2. home[o] \in Contexts'
      <4>1. home[o] \in Contexts
        BY <1>3, <2>2, <3>1
      <4>2. QED
        BY <1>1, <3>1, <4>1 DEF Contexts, ActiveContexts
    <3>3. /\ home[o] = disk.home[o] /\ item'[o] = disk.item[o]
          /\ tesRefCount'[o] = UpdatedTes[o]
      BY <1>5, <2>2, <2>6, <3>1 DEF AsSaved
    <3>4. tesRefCount[o] = disk.tes[o] /\ disk.tes[o] \in Nat
      BY <1>1, <2>2, <3>1 DEF Archives
    <3>5. UpdatedTes[o] = IF disk.version = "pre_gc" /\ o = disk.root[Default]
                          THEN tesRefCount[o] + 1 ELSE tesRefCount[o]
      <4>1. root[Default] = disk.root[Default]
        BY <1>7 DEF Domains
      <4>2. QED
        BY <3>1, <4>1 DEF UpdatedTes
    <3>6. /\ tesRefCount'[o] >= disk.tes[o]
          /\ disk.version = "pre_gc" /\ o = disk.root[Default] => tesRefCount'[o] > 0
          /\ \/ tesRefCount'[o] = 0 \/ disk.tes[o] > 0
             \/ disk.version = "pre_gc" /\ o = disk.root[Default]
      BY <3>3, <3>4, <3>5
    <3>7. o \in queued' <=> o \in queued
      BY <1>5, <2>6
    <3>8. QED
      BY <1>1, <1>2, <2>2, <2>3, <3>1, <3>2, <3>3, <3>6, <3>7 DEF AsSaved
  <2>7. QED
    BY <2>5, <2>6
<1>9. ASSUME NEW d \in ActiveContexts
      PROVE  root'[d] = disk.root[d]
  <2>1. d \in Domains /\ root'[d] = root[d]
    BY <1>1, <1>2 DEF ForgetRoots
  <2>2. QED
    BY <1>7, <2>1
<1>10. stack' = {} /\ Default \in Still'
  BY <1>1, <1>2 DEF ReadInv
<1>11. WorthKeeping(load.late) \subseteq Objects
  BY WorthIsLeast
<1>12. QED
  BY <1>1, <1>2, <1>8, <1>9, <1>10, <1>11 DEF MarkInv, RootsAsSaved

\* The collector finds what is not worth keeping, and nothing else of the domains whose
\* queues kept still: its roots are what scripts and queues own, and an old save's root,
\* which is retained by now.
LEMMA MarkRestore ==
  ASSUME Types, CountsInv, MarkInv, Mark
  PROVE  CollectInv'
<1> DEFINE R == UNION { Roots(d) : d \in Contexts }
           W == WorthKeeping(load.late)
           P == Persistent(load.late)
<1>1. /\ disk \in Archives /\ UNCHANGED <<activeNames, disk, objects, root>> /\ TypeOK
      /\ load.pc = "mark" /\ load'.garbage = NonReachable(R) /\ load'.late = load.late
      /\ None \notin Domains /\ None \notin Objects
      /\ ActiveContexts \subseteq Domains /\ ActiveContexts' = ActiveContexts
  BY NoneApart DEF Mark, SameRoots, Types, LoadOK, Stage, ActiveContexts, Domains, TypeOK
<1>2. ASSUME NEW o \in Objects
      PROVE  /\ AsSaved(o)
             /\ home[o] # None =>
                  /\ home[o] \in ActiveContexts \intersect Contexts
                  /\ disk.version = "pre_gc" /\ o = disk.root[Default] => tesRefCount[o] > 0
                  /\ \/ tesRefCount[o] = 0 \/ disk.tes[o] > 0
                     \/ disk.version = "pre_gc" /\ o = disk.root[Default]
             /\ disk.home[o] \in ActiveContexts \intersect Still =>
                  home[o] # None /\ (o \in queued <=> o \in disk.queued)
             /\ o \in W => home[o] # None
             /\ disk.tes[o] \in Nat /\ tesRefCount[o] \in Nat
  BY <1>1 DEF MarkInv, Archives, TypeOK
<1>3. ASSUME NEW o \in Live, o \in queued \/ tesRefCount[o] > 0
      PROVE  o \in R
  <2>1. o \in Objects /\ home[o] # None
    BY DEF Live
  <2>2. home[o] \in Contexts
    BY <1>2, <2>1
  <2>3. o \in Roots(home[o])
    BY <1>3 DEF Roots
  <2>4. QED
    BY <2>2, <2>3
<1>4. ASSUME NEW o \in R
      PROVE  o \in Live /\ (o \in queued \/ tesRefCount[o] > 0)
  BY DEF Roots
<1>5. W \subseteq Objects /\ P \subseteq W /\ W' = W /\ Still' = Still
  BY <1>1, WorthIsLeast, PersistentWorth, WorthSame DEF Still
<1> HIDE DEF R, W, P
<1>6. ASSUME NEW o \in Live
      PROVE  o \in Objects /\ home[o] \in ActiveContexts /\ item[o] = disk.item[o] /\ home[o] = disk.home[o]
  BY <1>2 DEF Live, AsSaved
<1>7. ASSUME NEW o \in R, home[o] \in Still
      PROVE  o \in P
  <2>1. /\ o \in Live /\ o \in Objects /\ home[o] = disk.home[o] /\ home[o] \in ActiveContexts
        /\ o \in queued \/ tesRefCount[o] > 0
    BY <1>4, <1>6
  <2>2. CASE o \in queued
    BY <1>2, <1>7, <2>1, <2>2 DEF P, Persistent, Still
  <2>3. CASE tesRefCount[o] > 0
    BY <1>2, <2>1, <2>3 DEF P, Persistent, Live
  <2>4. QED
    BY <2>1, <2>2, <2>3
<1>8. P \subseteq R
  <2>1. SUFFICES ASSUME NEW o \in P PROVE o \in R
    OBVIOUS
  <2>2. /\ o \in Objects /\ disk.home[o] \in ActiveContexts
        /\ \/ disk.tes[o] > 0
           \/ o \in disk.queued /\ disk.home[o] \notin load.late
           \/ disk.version = "pre_gc" /\ o = disk.root[Default]
    BY DEF P, Persistent
  <2>3. home[o] # None /\ o \in Live
    BY <1>2, <1>5, <2>2 DEF Live
  <2>4. disk.tes[o] > 0 => tesRefCount[o] > 0
    BY <1>2, <2>2, <2>3 DEF AsSaved
  <2>5. o \in queued \/ tesRefCount[o] > 0
    BY <1>1, <1>2, <2>2, <2>3, <2>4 DEF Still
  <2>6. QED
    BY <1>3, <2>3, <2>5
<1>9. ASSUME NEW o \in W
      PROVE  KeptAsSaved(o)'
  <2>1. o \in Objects /\ disk.home[o] \in ActiveContexts
    BY <1>1, WorthActive DEF W, CountsInv
  <2>2. o \notin NonReachable(R)
    <3>1. SUFFICES ASSUME NEW T \in SUBSET Live, R \subseteq T,
                          \A x \in T : item[x] \in T \union {None}
                   PROVE  o \in T
      BY DEF NonReachable
    <3>2. T \in SUBSET Objects /\ P \subseteq T /\ ClosedInSave(T)
      BY <1>6, <1>8, <3>1 DEF ClosedInSave, Live
    <3>3. QED
      BY <3>2, WorthInClosed DEF W, P
  <2>3. home[o] # None /\ AsSaved(o)
    BY <1>2, <2>1
  <2>4. o \in disk.queued /\ disk.home[o] \in Still => o \in queued
    BY <1>2, <2>1
  <2>5. QED
    BY <1>1, <1>5, <2>2, <2>3, <2>4 DEF KeptAsSaved, AsSaved, objects
<1>10. ASSUME NEW o \in Live \ W, home[o] \in Still
       PROVE  tesRefCount[o] = 0 /\ o \in NonReachable(R)
  <2>1. o \in Objects /\ o \notin R
    BY <1>5, <1>7, <1>10 DEF Live
  <2>2. tesRefCount[o] = 0
    BY <1>2, <1>3, <2>1
  <2>3. PICK S \in SUBSET Objects : P \subseteq S /\ ClosedInSave(S) /\ o \notin S
    BY <2>1, NotWorth DEF W, P
  <2> DEFINE T == { x \in Live : x \in S \/ home[x] \notin Still }
  <2>4. R \subseteq T /\ T \in SUBSET Live /\ o \notin T
    BY <1>4, <1>7, <1>10, <2>3
  <2>5. ASSUME NEW x \in T
        PROVE  item[x] \in T \union {None}
    <3>1. SUFFICES ASSUME item[x] # None PROVE item[x] \in T
      OBVIOUS
    <3>2. x \in Live /\ item[x] = disk.item[x] /\ x \in Objects /\ item[x] \in Objects
      BY <1>1, <1>6, <3>1 DEF TypeOK
    <3>3. home[x] # None /\ home[item[x]] = home[x]
      BY <3>1, <3>2 DEF CountsInv, Counts, ItemsAtHome
    <3>4. x \in S => item[x] \in S
      BY <2>3, <3>1, <3>2 DEF ClosedInSave
    <3>5. QED
      BY <3>2, <3>3, <3>4 DEF Live
  <2>6. QED
    BY <2>1, <2>2, <2>4, <2>5 DEF NonReachable, Live
<1>11. /\ Live' = Live /\ stack' = {} /\ Default \in Still'
       /\ UNCHANGED <<tesRefCount, item, home>>
  BY <1>1, <1>5 DEF MarkInv, objects, Live
<1>12. RootsAsSaved'
  BY <1>1 DEF MarkInv, RootsAsSaved
<1>13. QED
  BY <1>1, <1>5, <1>9, <1>10, <1>11, <1>12 DEF CollectInv, W

\* Collecting takes garbage only, in whatever order.
LEMMA CollectRestore ==
  ASSUME Types, CollectInv, NEW o \in Objects, Collect(o)
  PROVE  CollectInv'
<1> DEFINE W == WorthKeeping(load.late)
<1>1. /\ UNCHANGED <<activeNames, disk, root>> /\ TypeOK
      /\ o \in load.garbage /\ load'.garbage = load.garbage \ {o} /\ load'.late = load.late
      /\ \/ DeleteSelf(o)
         \/ Assign(o, None) /\ UNCHANGED <<home, initialized, tesRefCount, stack>>
  BY DEF Collect, SameRoots, Types, LoadOK, Stage
<1>2. W' = W /\ W \subseteq Objects /\ ActiveContexts' = ActiveContexts /\ Still' = Still
  BY <1>1, WorthSame, WorthIsLeast DEF ActiveContexts, Still
<1>3. /\ \A x \in W : KeptAsSaved(x)
      /\ \A x \in Live \ W :
           home[x] \in Still => tesRefCount[x] = 0 /\ (x \in load.garbage \/ item[x] = None)
  BY DEF CollectInv
<1> HIDE DEF W
<1>4. ASSUME NEW x \in Objects, x # o
      PROVE  /\ home'[x] = home[x] /\ item'[x] = item[x] /\ tesRefCount'[x] = tesRefCount[x]
             /\ x \in queued => x \in queued'
  BY <1>1, <1>4 DEF DeleteSelf, Assign, TypeOK
<1>5. item'[o] = None /\ (home'[o] = None \/ (tesRefCount'[o] = tesRefCount[o] /\ home'[o] = home[o]))
  BY <1>1 DEF DeleteSelf, Assign, TypeOK
<1>6. Live' \subseteq Live
  BY <1>1, <1>4 DEF Live, DeleteSelf, TypeOK
<1>7. ASSUME NEW x \in W
      PROVE  KeptAsSaved(x)'
  <2>1. x \in Objects /\ x # o /\ KeptAsSaved(x)
    BY <1>1, <1>2, <1>3 DEF KeptAsSaved
  <2>2. QED
    BY <1>1, <1>2, <1>4, <2>1 DEF KeptAsSaved, AsSaved
<1>8. ASSUME NEW x, x \in Live', x \notin W, home'[x] \in Still
      PROVE  tesRefCount'[x] = 0 /\ (x \in load'.garbage \/ item'[x] = None)
  <2>1. x \in Live /\ x \in Objects /\ home'[x] # None
    BY <1>6, <1>8 DEF Live
  <2>2. CASE x = o
    BY <1>3, <1>5, <1>8, <2>1, <2>2
  <2>3. CASE x # o
    BY <1>1, <1>3, <1>4, <1>8, <2>1, <2>3
  <2>4. QED
    BY <2>2, <2>3
<1>9. stack' = {} /\ Default \in Still'
  BY <1>1, <1>2 DEF CollectInv, DeleteSelf
<1>10. RootsAsSaved'
  BY <1>1, <1>2 DEF CollectInv, RootsAsSaved
<1>11. QED
  BY <1>2, <1>7, <1>8, <1>9, <1>10 DEF CollectInv, W

\* A queue that ticks during a load releases one object of its domain, which keeps still
\* no longer; if that deletes the object, it is not worth keeping.
LEMMA TickRestore ==
  ASSUME Types, CountsInv, DefaultWaits, RestoreInv, ~Idle, NEW o \in Objects, TickRelease(o)
  PROVE  RestoreInv'
<1> DEFINE L == load.late \union {home[o]}
<1>1. /\ UNCHANGED <<activeNames, disk, domains, root>> /\ TypeOK /\ disk \in Archives
      /\ load.pc \in {"read", "mark", "collect"} /\ o \notin load.garbage
      /\ load'.pc = load.pc /\ load'.todo = load.todo /\ load'.garbage = load.garbage
      /\ load'.late = L /\ SavedWhole /\ SavedAtHome
      /\ home[o] \in running /\ home[o] \in Domains /\ home[o] # None /\ home[o] # Default
  <2>1. load.pc # "idle"
    BY NotIdle DEF Types
  <2>2. QED
    BY <2>1, NoneApart DEF TickRelease, SameDomains, SameRoots, Types, TypeOK, LoadOK, Stage,
                           DefaultWaits, RestoreInv, CountsInv
<1>2. /\ Still' = Still \ {home[o]} /\ ActiveContexts' = ActiveContexts /\ Contexts' = Contexts
      /\ Read' = Read /\ SavedWhole' /\ WorthKeeping(load.late)' = WorthKeeping(L)
  BY <1>1 DEF Still, ActiveContexts, Contexts, Read, SavedWhole, WorthKeeping
<1>3. WorthKeeping(L) \subseteq WorthKeeping(load.late) /\ WorthKeeping(L) \subseteq Objects
  BY <1>1, WorthLess, WorthIsLeast
<1>4. Default \in Still /\ Default \in Still' /\ stack = {} /\ L \subseteq Domains /\ Default \notin L
  <2>1. Default \in Still /\ stack = {}
    BY <1>1 DEF RestoreInv, ReadInv, MarkInv, CollectInv
  <2>2. load.late \subseteq Domains
    BY DEF Types, LoadOK
  <2>3. QED
    BY <1>1, <1>2, <2>1, <2>2 DEF Still
<1>5. \/ DeleteSelf(o) /\ refCount[o] = 0 /\ tesRefCount[o] = 0
      \/ /\ queued' = queued \ {o}
         /\ UNCHANGED <<home, initialized, item, refCount, tesRefCount, stack>>
  BY DEF TickRelease
<1>6. ASSUME NEW x \in Objects
      PROVE  /\ home'[x] \in {None, home[x]}
             /\ home'[x] # None => item'[x] = item[x] /\ tesRefCount'[x] = tesRefCount[x]
             /\ x # o => home'[x] = home[x]
             /\ home'[x] # home[x] =>
                  x = o /\ refCount[o] = 0 /\ tesRefCount[o] = 0
             /\ x # o /\ x \in queued => x \in queued'
             /\ home[x] # home[o] /\ x \in queued' => x \in queued
             /\ x \in queued' => x \in queued \/ x \in initialized
  <2>1. CASE DeleteSelf(o) /\ refCount[o] = 0 /\ tesRefCount[o] = 0
    <3>1. \A y \in queued' : y \in queued \/ (y = item[o] /\ y # None /\ y \in initialized)
      BY <2>1 DEF DeleteSelf, Pushed
    <3>2. item[o] # None => home[item[o]] = home[o]
      BY DEF CountsInv, Counts, ItemsAtHome
    <3>3. QED
      BY <1>1, <2>1, <3>1, <3>2 DEF DeleteSelf, TypeOK
  <2>2. CASE /\ queued' = queued \ {o}
             /\ UNCHANGED <<home, initialized, item, refCount, tesRefCount, stack>>
    BY <2>2
  <2>3. QED
    BY <1>5, <2>1, <2>2
<1>7. stack' = {} /\ Live' \subseteq Live /\ initialized' \subseteq initialized
  BY <1>4, <1>5, <1>6 DEF DeleteSelf, Live
<1>8. \A x \in Objects : AsSaved(x) => AsSaved(x)'
  BY <1>1, <1>6 DEF AsSaved
<1>9. ASSUME NEW x \in Objects, home[x] \in Still'
      PROVE  home'[x] = home[x] /\ (x \in queued' <=> x \in queued)
  BY <1>2, <1>6, <1>9
<1>10. CASE load.pc = "read"
  <2>1. ReadInv
    BY <1>10 DEF RestoreInv
  <2>2. ASSUME home'[o] # home[o]
        PROVE  o \notin WorthKeeping(L)
    <3>1. home[o] \in Read /\ AsSaved(o)
      BY <1>1, <2>1 DEF ReadInv
    <3>2. \A c \in WorthKeeping(L) : disk.home[c] = home[o] => home[c] # None /\ AsSaved(c)
      BY <1>3, <2>1, <3>1 DEF ReadInv
    <3>3. QED
      BY <1>1, <1>4, <1>6, <2>2, <3>1, <3>2, DeletedNotWorth
  <2>3. ASSUME NEW x \in Objects
        PROVE  /\ AsSaved(x)' /\ (x \in queued' => x \in disk'.queued)
               /\ home'[x] # None => home'[x] \in Read' /\ tesRefCount'[x] = disk'.tes[x]
               /\ disk'.home[x] \in Read' \intersect Still' =>
                    home'[x] # None /\ (x \in queued' <=> x \in disk'.queued)
               /\ x \in WorthKeeping(load.late)' /\ disk'.home[x] \in Read' => home'[x] # None
    <3>1. /\ AsSaved(x) /\ (x \in queued => x \in disk.queued)
          /\ home[x] # None => home[x] \in Read /\ tesRefCount[x] = disk.tes[x]
          /\ disk.home[x] \in Read \intersect Still =>
               home[x] # None /\ (x \in queued <=> x \in disk.queued)
          /\ x \in WorthKeeping(load.late) /\ disk.home[x] \in Read => home[x] # None
          /\ initialized = {}
      BY <2>1 DEF ReadInv
    <3>2. disk.home[x] \in Read \intersect Still' =>
            home'[x] # None /\ (x \in queued' <=> x \in disk.queued)
      <4>1. SUFFICES ASSUME disk.home[x] \in Read \intersect Still'
                     PROVE  home'[x] # None /\ (x \in queued' <=> x \in disk.queued)
        OBVIOUS
      <4>2. disk.home[x] \in Still /\ home[x] # None /\ home[x] = disk.home[x]
        BY <1>2, <3>1, <4>1 DEF AsSaved
      <4>3. QED
        BY <1>9, <3>1, <4>1, <4>2
    <3>3. x \in WorthKeeping(L) /\ disk.home[x] \in Read => home'[x] # None
      BY <1>3, <1>6, <2>2, <3>1
    <3>4. QED
      BY <1>1, <1>2, <1>6, <1>8, <3>1, <3>2, <3>3
  <2>4. ReadInv'
    BY <1>1, <1>2, <1>4, <1>7, <2>1, <2>3 DEF ReadInv
  <2>5. QED
    BY <1>1, <1>2, <1>10, <2>4 DEF RestoreInv
<1>11. CASE load.pc = "mark"
  <2>1. MarkInv
    BY <1>11 DEF RestoreInv
  <2>2. ASSUME home'[o] # home[o]
        PROVE  o \notin WorthKeeping(L)
    <3>1. /\ AsSaved(o)
          /\ \A c \in WorthKeeping(L) : home[c] # None /\ AsSaved(c)
      BY <1>3, <2>1 DEF MarkInv
    <3>2. QED
      BY <1>1, <1>4, <1>6, <2>2, <3>1, DeletedNotWorth
  <2>3. ASSUME NEW x \in Objects
        PROVE  /\ AsSaved(x)'
               /\ home'[x] # None =>
                    /\ home'[x] \in ActiveContexts' \intersect Contexts'
                    /\ disk'.version = "pre_gc" /\ x = disk'.root[Default] => tesRefCount'[x] > 0
                    /\ \/ tesRefCount'[x] = 0 \/ disk'.tes[x] > 0
                       \/ disk'.version = "pre_gc" /\ x = disk'.root[Default]
               /\ disk'.home[x] \in ActiveContexts' \intersect Still' =>
                    home'[x] # None /\ (x \in queued' <=> x \in disk'.queued)
    <3>1. /\ AsSaved(x)
          /\ home[x] # None =>
               /\ home[x] \in ActiveContexts \intersect Contexts
               /\ disk.version = "pre_gc" /\ x = disk.root[Default] => tesRefCount[x] > 0
               /\ \/ tesRefCount[x] = 0 \/ disk.tes[x] > 0
                  \/ disk.version = "pre_gc" /\ x = disk.root[Default]
          /\ disk.home[x] \in ActiveContexts \intersect Still =>
               home[x] # None /\ (x \in queued <=> x \in disk.queued)
      BY <2>1 DEF MarkInv
    <3>2. disk.home[x] \in ActiveContexts \intersect Still' =>
            home'[x] # None /\ (x \in queued' <=> x \in disk.queued)
      <4>1. SUFFICES ASSUME disk.home[x] \in ActiveContexts \intersect Still'
                     PROVE  home'[x] # None /\ (x \in queued' <=> x \in disk.queued)
        OBVIOUS
      <4>2. disk.home[x] \in Still /\ home[x] # None /\ home[x] = disk.home[x]
        BY <1>2, <3>1, <4>1 DEF AsSaved
      <4>3. QED
        BY <1>9, <3>1, <4>1, <4>2
    <3>3. QED
      BY <1>1, <1>2, <1>6, <1>8, <3>1, <3>2
  <2>4. ASSUME NEW x \in WorthKeeping(L)
        PROVE  home'[x] # None
    BY <1>3, <1>6, <2>1, <2>2 DEF MarkInv
  <2>5. RootsAsSaved'
    BY <1>1, <1>2, <2>1 DEF MarkInv, RootsAsSaved
  <2>6. MarkInv'
    BY <1>2, <1>4, <1>7, <2>3, <2>4, <2>5 DEF MarkInv
  <2>7. QED
    BY <1>1, <1>2, <1>11, <2>6 DEF RestoreInv
<1>12. CASE load.pc = "collect"
  <2>1. CollectInv
    BY <1>12 DEF RestoreInv
  <2>2. \A c \in WorthKeeping(L) : KeptAsSaved(c)
    BY <1>3, <2>1 DEF CollectInv
  <2>3. ASSUME home'[o] # home[o]
        PROVE  o \notin WorthKeeping(L)
    <3>1. SUFFICES ASSUME o \in WorthKeeping(L) PROVE FALSE
      OBVIOUS
    <3>2. AsSaved(o) /\ \A c \in WorthKeeping(L) : home[c] # None /\ AsSaved(c)
      BY <2>2, <3>1 DEF KeptAsSaved
    <3>3. QED
      BY <1>1, <1>4, <1>6, <2>3, <3>1, <3>2, DeletedNotWorth
  <2>4. ASSUME NEW x \in WorthKeeping(L)
        PROVE  KeptAsSaved(x)'
    <3>1. x \in Objects /\ KeptAsSaved(x)
      BY <1>3, <2>2
    <3>2. home'[x] # None /\ home'[x] = home[x]
      BY <1>6, <2>3, <3>1 DEF KeptAsSaved
    <3>3. x \in disk.queued /\ disk.home[x] \in Still' => x \in queued'
      BY <1>2, <1>9, <3>1 DEF KeptAsSaved, AsSaved
    <3>4. QED
      BY <1>1, <1>8, <3>1, <3>2, <3>3 DEF KeptAsSaved
  <2>5. ASSUME NEW x, x \in Live', x \notin WorthKeeping(L), home'[x] \in Still'
        PROVE  tesRefCount'[x] = 0 /\ (x \in load'.garbage \/ item'[x] = None)
    <3>1. x \in Live /\ x \in Objects /\ home'[x] # None /\ home'[x] = home[x]
      BY <1>6, <1>7, <2>5 DEF Live
    <3>2. home[x] \in Still /\ home[x] # home[o]
      BY <1>2, <2>5, <3>1
    <3>3. x \notin WorthKeeping(load.late)
      <4>1. SUFFICES ASSUME x \in WorthKeeping(load.late) PROVE x \in WorthKeeping(L)
        BY <2>5
      <4>2. disk.home[x] = home[x]
        BY <2>1, <3>1, <4>1 DEF CollectInv, KeptAsSaved, AsSaved
      <4>3. QED
        BY <1>1, <3>2, <4>1, <4>2, WorthElsewhere
    <3>4. tesRefCount[x] = 0 /\ (x \in load.garbage \/ item[x] = None)
      BY <2>1, <3>1, <3>2, <3>3 DEF CollectInv
    <3>5. QED
      BY <1>1, <1>6, <3>1, <3>4
  <2>6. RootsAsSaved'
    BY <1>1, <1>2, <2>1 DEF CollectInv, RootsAsSaved
  <2>7. CollectInv'
    BY <1>2, <1>4, <1>7, <2>4, <2>5, <2>6 DEF CollectInv
  <2>8. QED
    BY <1>1, <1>2, <1>12, <2>7 DEF RestoreInv
<1>13. QED
  BY <1>1, <1>10, <1>11, <1>12

\* Without a load there is nothing to restore.
LEMMA IdleRestore ==
  ASSUME SavedWhole', load'.pc = "idle"
  PROVE  RestoreInv'
BY DEF RestoreInv

LEMMA RestoreStep ==
  ASSUME Types, CountsInv, DefaultWaits, RestoreInv, [Next]_vars
  PROVE  RestoreInv'
<1>1. LoadOK /\ LoadOK' /\ TypeOK /\ SavedWhole
  BY TypesStep DEF Types, RestoreInv
<1>2. ASSUME UNCHANGED disk
      PROVE  SavedWhole'
  BY <1>1, <1>2 DEF SavedWhole
<1>3. ASSUME UNCHANGED <<load, disk>>, Idle
      PROVE  RestoreInv'
  <2>1. load'.pc = "idle"
    BY <1>3 DEF Idle, NotLoading, Stage
  <2>2. QED
    BY <1>2, <1>3, <2>1, IdleRestore
<1>4. CASE UNCHANGED vars
  BY <1>4 DEF vars, objects, RestoreInv, SavedWhole, ReadInv, MarkInv, CollectInv, Read, Contexts,
              Still, ActiveContexts, RootsAsSaved, AsSaved, KeptAsSaved, WorthKeeping, Live
<1>5. ASSUME NEW o \in Objects,
             \/ \E d \in Domains : NewObject(d, o)
             \/ \E v \in Objects \union {None} : SetItem(o, v)
             \/ Retain(o) \/ Release(o) \/ LuaHold(o) \/ LuaDrop(o) \/ TickRelease(o)
      PROVE  RestoreInv'
  <2>1. CASE TickRelease(o) /\ ~Idle
    BY <2>1, TickRestore
  <2>2. CASE ~(TickRelease(o) /\ ~Idle)
    <3>1. UNCHANGED <<load, disk>> /\ Idle
      BY <1>5, <2>2 DEF NewObject, SetItem, Retain, Release, LuaHold, LuaDrop, TickRelease, Script
    <3>2. QED
      BY <1>3, <3>1
  <2>3. QED
    BY <2>1, <2>2
<1>6. ASSUME NEW found \in SUBSET Objects, ReleaseObjectsWithTag(found)
      PROVE  RestoreInv'
  BY <1>3, <1>6 DEF ReleaseObjectsWithTag, FilterObjects, Script
<1>7. ASSUME NEW d \in Domains, Root(d)
      PROVE  RestoreInv'
  BY <1>3, <1>7 DEF Root, Script
<1>8. CASE Revert \/ Restart
  BY <1>3, <1>8 DEF Revert, Restart
<1>9. CASE Save
  <2>1. Contexts \in SUBSET Domains /\ Default \in Contexts
    BY <1>1 DEF Contexts, Domains, TypeOK
  <2>2. SavedWhole'
    BY <1>9, <2>1, ArchiveWhole DEF Save
  <2>3. load'.pc = "idle"
    BY <1>9 DEF Save, Idle, NotLoading, Stage
  <2>4. QED
    BY <2>2, <2>3, IdleRestore
<1>10. ASSUME NEW version \in {"pre_gc", "unsupported"}, OtherSave(version)
       PROVE  RestoreInv'
  <2> DEFINE D == IF version = "pre_gc" THEN {Default} ELSE {}
             tes == [o \in Objects |->
                       IF o = root[Default] THEN Minus(tesRefCount[o], 1) ELSE tesRefCount[o]]
  <2>1. /\ D \in SUBSET Domains /\ (version # "unsupported" => Default \in D)
        /\ version = "pre_gc" => D = {Default}
    BY DEF Domains
  <2>2. disk' = Archive(version, D, tes)
    BY <1>10 DEF OtherSave
  <2>3. version \in {"current", "pre_gc", "unsupported"}
    OBVIOUS
  <2> HIDE DEF D, tes
  <2>4. SavedWhole'
    BY <2>1, <2>2, <2>3, ArchiveWhole
  <2>5. load'.pc = "idle"
    BY <1>10 DEF OtherSave, Idle, NotLoading, Stage
  <2>6. QED
    BY <2>4, <2>5, IdleRestore
<1>11. CASE LoadBegin
  BY <1>1, <1>11, BeginRestore
<1>12. ASSUME NEW d \in Domains, LoadDomain(d)
       PROVE  RestoreInv'
  <2>1. load.pc = "read" /\ load'.pc = "read" /\ UNCHANGED disk
    BY <1>1, <1>12 DEF LoadDomain, LoadedQueue, LoadOK, Stage
  <2>2. ReadInv'
    BY <1>12, <2>1, DomainRestore DEF RestoreInv
  <2>3. QED
    BY <1>2, <2>1, <2>2 DEF RestoreInv
<1>13. CASE LoadEnd
  <2>1. load.pc = "read" /\ load'.pc = "mark" /\ UNCHANGED disk
    BY <1>13 DEF LoadEnd, IsNotSupported, Stage
  <2>2. MarkInv'
    BY <1>1, <1>13, <2>1, EndRestore DEF RestoreInv, CountsInv
  <2>3. QED
    BY <1>2, <2>1, <2>2 DEF RestoreInv
<1>14. CASE Mark
  <2>1. load.pc = "mark" /\ load'.pc = "collect" /\ UNCHANGED disk
    BY <1>14 DEF Mark, Stage
  <2>2. CollectInv'
    BY <1>14, <2>1, MarkRestore DEF RestoreInv
  <2>3. QED
    BY <1>2, <2>1, <2>2 DEF RestoreInv
<1>15. ASSUME NEW o \in Objects, Collect(o)
       PROVE  RestoreInv'
  <2>1. load.pc = "collect" /\ load'.pc = "collect" /\ UNCHANGED disk
    BY <1>1, <1>15 DEF Collect, LoadOK, Stage
  <2>2. CollectInv'
    BY <1>15, <2>1, CollectRestore DEF RestoreInv
  <2>3. QED
    BY <1>2, <2>1, <2>2 DEF RestoreInv
<1>16. CASE LoadFail \/ LoadDone
  <2>1. load'.pc = "idle" /\ UNCHANGED disk
    BY <1>16 DEF LoadFail, IsNotSupported, LoadDone, NotLoading, Stage
  <2>2. QED
    BY <1>2, <2>1, IdleRestore
<1>17. QED
  BY <1>4, <1>5, <1>6, <1>7, <1>8, <1>9, <1>10, <1>11, <1>12, <1>13, <1>14, <1>15, <1>16 DEF Next

LEMMA RestoreAlways == Spec => []RestoreInv
<1>1. Init => RestoreInv
  <2>1. SUFFICES ASSUME Init PROVE RestoreInv
    OBVIOUS
  <2>2. \A a \in Archives : a.version # "none"
    BY DEF Archives
  <2>3. disk \notin Archives /\ load.pc = "idle"
    BY <2>1, <2>2 DEF Init, NoSave, NotLoading, Stage
  <2>4. QED
    BY <2>3 DEF RestoreInv, SavedWhole
<1>2. Types /\ CountsInv /\ DefaultWaits /\ RestoreInv /\ [Next]_vars => RestoreInv'
  BY RestoreStep
<1>3. QED
  BY <1>1, <1>2, TypesAlways, CountsAlways, DefaultWaitsAlways, PTL DEF Spec

\* At the end of a load an object that is not worth keeping has lost its last owner, if
\* its queue kept still: only others like it referred to it, and their items are cleared.
LEMMA LeftOverQueued ==
  ASSUME Types, CountsInv, OwnedOrGarbage, CollectInv, disk \in Archives,
         load.pc = "collect", load.garbage = {},
         NEW o \in Live \ WorthKeeping(load.late), home[o] \notin load.late
  PROVE  o \in queued /\ item[o] = None /\ tesRefCount[o] = 0
<1> DEFINE W == WorthKeeping(load.late)
<1>1. ASSUME NEW x \in Live, x \notin W, home[x] \notin load.late
      PROVE  tesRefCount[x] = 0 /\ item[x] = None
  <2>1. home[x] \in Still
    BY <1>1 DEF Live, Types, TypeOK, Still
  <2>2. QED
    BY <1>1, <2>1 DEF CollectInv
<1>2. /\ o \in Objects /\ o # None
      /\ tesRefCount[o] = 0 /\ item[o] = None /\ o \notin stack
  BY <1>1, NoneApart DEF CollectInv, Live
<1>3. ASSUME NEW c \in Objects
      PROVE  item[c] # o
  <2>1. SUFFICES ASSUME item[c] = o PROVE FALSE
    OBVIOUS
  <2>2. c \in Live /\ home[c] = home[o]
    BY <1>2, <2>1 DEF CountsInv, Counts, ItemsAtHome, Live
  <2>3. CASE c \in W
    <3>1. disk.item[c] = o
      BY <2>1, <2>3 DEF CollectInv, KeptAsSaved, AsSaved
    <3>2. QED
      BY <1>2, <2>3, <3>1, WorthClosed
  <2>4. CASE c \notin W
    BY <1>1, <1>2, <2>1, <2>2, <2>4
  <2>5. QED
    BY <2>3, <2>4
<1>4. refCount[o] = 0
  <2>1. Referrers(o) = {}
    BY <1>3 DEF Referrers
  <2>2. refCount[o] = Cardinality(Referrers(o))
    BY <1>2 DEF CountsInv, Counts, CountsOfItems
  <2>3. QED
    BY <2>1, <2>2, FS_EmptySet
<1>5. o \in queued
  BY <1>2, <1>4 DEF OwnedOrGarbage, NoOwners
<1>6. QED
  BY <1>2, <1>5

\* A load that ends gives back what the save had that is worth keeping, with its owners,
\* and the roots; of all else at most an empty container is left, and it is in a queue.
\* So with any number of objects and domains, mods removed since, old saves, tagged roots
\* and each order of reading and collecting.  Queues that tick meanwhile cost nothing but
\* what they alone owned in their own domain.
THEOREM LoadsRestore == Spec => LoadRestores
<1> DEFINE Restored ==
      LoadDone =>
        /\ \A o \in WorthKeeping(load.late) :
             /\ home'[o] = disk.home[o] /\ item'[o] = disk.item[o]
             /\ tesRefCount'[o] >= disk.tes[o]
             /\ o \in disk.queued /\ disk.home[o] \notin load.late => o \in queued'
        /\ \A o \in Live' \ WorthKeeping(load.late) :
             home'[o] \notin load.late =>
               o \in queued' /\ item'[o] = None /\ tesRefCount'[o] = 0
        /\ \A d \in ActiveContexts : root'[d] = disk.root[d]
<1>1. ASSUME Types, CountsInv, OwnedOrGarbage, RestoreInv, LoadDone
      PROVE  Restored
  <2>1. /\ load.pc = "collect" /\ load.garbage = {} /\ disk \in Archives /\ CollectInv
        /\ UNCHANGED <<home, item, tesRefCount, queued, root>> /\ Live' = Live
    BY <1>1 DEF LoadDone, RestoreInv, Types, LoadOK, SameRoots, objects, Live
  <2>2. \A o \in WorthKeeping(load.late) : KeptAsSaved(o)
    BY <2>1 DEF CollectInv
  <2>3. ASSUME NEW o \in WorthKeeping(load.late), o \in disk.queued, disk.home[o] \notin load.late
        PROVE  o \in queued
    <3>1. o \in Objects
      BY WorthIsLeast
    <3>2. home[o] # None /\ home[o] = disk.home[o]
      BY <2>2 DEF KeptAsSaved, AsSaved
    <3>3. disk.home[o] \in Still
      BY <1>1, <2>3, <3>1, <3>2 DEF Still, Types, TypeOK
    <3>4. QED
      BY <2>2, <2>3, <3>3 DEF KeptAsSaved
  <2>4. \A o \in Live \ WorthKeeping(load.late) :
          home[o] \notin load.late => o \in queued /\ item[o] = None /\ tesRefCount[o] = 0
    BY <1>1, <2>1, LeftOverQueued
  <2>5. \A d \in ActiveContexts : root[d] = disk.root[d]
    BY <2>1 DEF CollectInv, RootsAsSaved
  <2>6. QED
    BY <2>1, <2>2, <2>3, <2>4, <2>5 DEF KeptAsSaved, AsSaved
<1>2. Types /\ CountsInv /\ OwnedOrGarbage /\ RestoreInv /\ [Next]_vars => [Restored]_vars
  BY <1>1
<1>3. QED
  BY <1>2, TypesAlways, CountsAlways, OwnedAlways, RestoreAlways, PTL DEF Spec, LoadRestores
=============================================================================
