------------------------------- MODULE Session -------------------------------
(***************************************************************************)
(* A session of the game: the domains with their contexts, the JDB root of *)
(* each, reverting, saving and loading, the garbage collection after a     *)
(* load, and restarting the game with other mods.                          *)
(*                                                                         *)
(*   domains/domain_master.*, domain_master_serialization.h  the domains   *)
(*   object/object_context.*, object_base_serialization.h    a context     *)
(*   object/garbage_collector.h                              collection    *)
(*   collections/context.*                                   the root      *)
(*   skse_callbacks.cpp                                      revert, load  *)
(*                                                                         *)
(* Lifetimes are those of ObjectLifetime with the clock and the handles    *)
(* left out: an object the queue owns is released by some tick, a handle   *)
(* is the object it names.  Scripts' operations are atomic here and do not *)
(* run while the game saves or loads; a load runs in steps, since queues   *)
(* may tick in between.                                                    *)
(***************************************************************************)
EXTENDS Naturals, FiniteSets

CONSTANTS Objects,         \* the memory cells an object may occupy
          Default,         \* the default domain
          Names,           \* the names of other domains
          None,
          MaxTesRetains,   \* bound: user retentions of an object by scripts
          MaxStack,        \* bound: objects that Lua holds at a time
          MaxAfterSave,    \* bound: scripts' operations after a save
          TaggedRoots,     \* scripts may retain a root with their tag
          SlowLoads        \* a load may last longer than a tick of 2 seconds

ASSUME SessionAssumption ==
  /\ Default \notin Names
  /\ None \notin Objects \union Names \union {Default}
  /\ IsFiniteSet(Objects) /\ IsFiniteSet(Names)
  /\ MaxTesRetains \in Nat /\ MaxStack \in Nat /\ MaxAfterSave \in Nat
  /\ TaggedRoots \in BOOLEAN /\ SlowLoads \in BOOLEAN

VARIABLES
  activeNames,  \* active_domain_names: what the mods' folders name
  domains,      \* _domains: the other domains that have a context
  running,      \* the contexts whose queue has its timer running
  home,         \* the context each object is registered in, None: no object
  initialized,  \* the objects whose _context is set
  item,         \* what the item of a container refers to
  refCount,     \* _refCount
  tesRefCount,  \* _tes_refCount
  stack,        \* the objects Lua holds: _stack_refCount
  queued,       \* the objects in their context's queue: _aqueue_refCount
  root,         \* _root_object_id
  cachedRoot,   \* _cached_root
  load,         \* where a load is
  disk,         \* the saved game
  sinceSave     \* scripts' operations since the save

objects == <<home, initialized, item, refCount, tesRefCount, stack, queued>>
vars == <<activeNames, domains, running, objects, root, cachedRoot, load, disk, sinceSave>>

Domains == Names \union {Default}
Contexts == domains \union {Default}

Live == { o \in Objects : home[o] # None }

-----------------------------------------------------------------------------
(* Owners of objects *)

NoOwners(o) == refCount[o] = 0 /\ tesRefCount[o] = 0 /\ o \notin stack /\ o \notin queued

Refers(c, o) == IF item[c] = o THEN 1 ELSE 0

Minus(n, k) == IF n > k THEN n - k ELSE 0

\* The objects among S that nothing owns any more, once counts and the sets of
\* owners are what is given: their contexts' queues take those that have a context.
Pushed(S, count, tes, held) ==
  { o \in S : /\ count[o] = 0 /\ tes[o] = 0 /\ o \notin held /\ o \notin queued
              /\ o \in initialized }

\* The item of c becomes v: it owns the new object before it releases the old one.
Assign(c, v) ==
  LET count == [o \in Objects |->
                  Minus(refCount[o] + (IF o = v THEN 1 ELSE 0), Refers(c, o))]
  IN  /\ item' = [item EXCEPT ![c] = v]
      /\ refCount' = count
      /\ queued' = queued \union Pushed({item[c]} \ {None}, count, tesRefCount, stack)

\* _delete_self: the object leaves the registry, its item is released.
DeleteSelf(x) ==
  LET count == [o \in Objects |-> IF o = x THEN 0 ELSE Minus(refCount[o], Refers(x, o))]
  IN  /\ home' = [home EXCEPT ![x] = None]
      /\ initialized' = initialized \ {x}
      /\ item' = [item EXCEPT ![x] = None]
      /\ refCount' = count
      /\ tesRefCount' = [tesRefCount EXCEPT ![x] = 0]
      /\ queued' = (queued \ {x})
                     \union Pushed({item[x]} \ {None, x}, count, tesRefCount, stack)
      /\ stack' = stack \ {x}

\* tes_release, n times: of the last owner the queue takes over.
TesRelease(S, n) ==
  LET tes == [o \in Objects |-> IF o \in S THEN Minus(tesRefCount[o], n) ELSE tesRefCount[o]]
  IN  /\ tesRefCount' = tes
      /\ queued' = queued \union
                     Pushed({ o \in S : tesRefCount[o] > 0 }, refCount, tes, stack)

-----------------------------------------------------------------------------
(* Clearing contexts *)

\* The first part of tes_context::u_clearState.
ForgetRoots(D) ==
  /\ root' = [d \in Domains |-> IF d \in D THEN None ELSE root[d]]
  /\ cachedRoot' = [d \in Domains |-> IF d \in D THEN None ELSE cachedRoot[d]]

\* object_context::u_clearState of the contexts in D: Lua lets go, the references
\* of queue and items are nullified, the objects are deleted.
ClearObjects(D) ==
  LET kept == { o \in Live : home[o] \notin D }
  IN  /\ home' = [o \in Objects |-> IF o \in kept THEN home[o] ELSE None]
      /\ item' = [o \in Objects |-> IF o \in kept THEN item[o] ELSE None]
      /\ refCount' = [o \in Objects |-> IF o \in kept THEN refCount[o] ELSE 0]
      /\ tesRefCount' = [o \in Objects |-> IF o \in kept THEN tesRefCount[o] ELSE 0]
      /\ initialized' = initialized \intersect kept
      /\ stack' = stack \intersect kept
      /\ queued' = queued \intersect kept

ClearState(D) == ForgetRoots(D) /\ ClearObjects(D)

-----------------------------------------------------------------------------
(* Between the game's events: scripts and timers *)

\* pc  "idle"     no load is running
\*     "read"     the archive is being read, the domains in todo are still in it
\*     "mark"     all is read, the garbage collectors are to begin
\*     "collect"  they are at work on the garbage they found
\* late is history: the contexts whose queue has released an object since the load began.
Stage(pc, todo, garbage, late) ==
  [pc |-> pc, todo |-> todo, garbage |-> garbage, late |-> late]
NotLoading == Stage("idle", {}, {}, {})

Idle == load = NotLoading

NoSave == [version |-> "none"]

Init ==
  /\ activeNames \in SUBSET Names
  /\ domains = {}
  /\ running = {Default}
  /\ home = [o \in Objects |-> None]
  /\ initialized = {}
  /\ item = [o \in Objects |-> None]
  /\ refCount = [o \in Objects |-> 0]
  /\ tesRefCount = [o \in Objects |-> 0]
  /\ stack = {}
  /\ queued = {}
  /\ root = [d \in Domains |-> None]
  /\ cachedRoot = [d \in Domains |-> None]
  /\ load = NotLoading
  /\ disk = NoSave
  /\ sinceSave = 0

\* A script runs between the game's events; after a save and a load for a while.
Script ==
  /\ Idle
  /\ IF disk = NoSave THEN UNCHANGED sinceSave
     ELSE sinceSave < MaxAfterSave /\ sinceSave' = sinceSave + 1
  /\ UNCHANGED <<activeNames, load, disk>>

\* get_domain_if_active and get_or_create_domain_with_name: a domain gets its
\* context at its first use, and the queue of a new context is started.
UseDomain(d) ==
  /\ d = Default \/ d \in activeNames
  /\ domains' = domains \union ({d} \ {Default})
  /\ running' = IF d \in Contexts THEN running ELSE running \union {d}

SameDomains == UNCHANGED <<domains, running>>
SameRoots == UNCHANGED <<root, cachedRoot>>

\* A new container handed to a script: nothing owns it but the queue.
NewObject(d, o) ==
  /\ Script
  /\ o \notin Live
  /\ UseDomain(d)
  /\ home' = [home EXCEPT ![o] = d]
  /\ initialized' = initialized \union {o}
  /\ queued' = queued \union {o}
  /\ UNCHANGED <<item, refCount, tesRefCount, stack>> /\ SameRoots

\* setObj, clear: handles are resolved in the domain of the function called.
SetItem(c, v) ==
  /\ Script
  /\ c \in Live /\ v # item[c]
  /\ v # None => home[v] = home[c]
  /\ Assign(c, v)
  /\ UNCHANGED <<home, initialized, tesRefCount, stack>> /\ SameDomains /\ SameRoots

\* What scripts hold of an object besides the retention of a root (set_root).
OwnRetains(o) == tesRefCount[o] - Cardinality({ d \in Domains : root[d] = o })

\* JValue.retain.
Retain(o) ==
  /\ Script
  /\ o \in Live
  /\ OwnRetains(o) < MaxTesRetains
  /\ tesRefCount' = [tesRefCount EXCEPT ![o] = @ + 1]
  /\ UNCHANGED <<home, initialized, item, refCount, stack, queued>> /\ SameDomains /\ SameRoots

\* JValue.release by a script that releases what it has retained.
Release(o) ==
  /\ Script
  /\ o \in Live /\ OwnRetains(o) > 0
  /\ TesRelease({o}, 1)
  /\ UNCHANGED <<home, initialized, item, refCount, stack>> /\ SameDomains /\ SameRoots

\* filter_objects of the registry by a tag: some of the objects that scripts have retained.
FilterObjects(found) ==
  /\ found # {}
  /\ \A o \in found : OwnRetains(o) > 0 /\ (TaggedRoots \/ \A d \in Domains : root[d] # o)

\* JValue.releaseObjectsWithTag: every user retention of every object with the tag.
ReleaseObjectsWithTag(found) ==
  /\ Script
  /\ FilterObjects(found)
  /\ TesRelease(found, MaxTesRetains + 1)
  /\ UNCHANGED <<home, initialized, item, refCount, stack>> /\ SameDomains /\ SameRoots

\* Lua keeps an object, or lets go of it: a stack reference.
LuaHold(o) ==
  /\ Script
  /\ o \in Live \ stack /\ Cardinality(stack) < MaxStack
  /\ stack' = stack \union {o}
  /\ UNCHANGED <<home, initialized, item, refCount, tesRefCount, queued>>
  /\ SameDomains /\ SameRoots

LuaDrop(o) ==
  /\ Script
  /\ o \in stack
  /\ stack' = stack \ {o}
  /\ queued' = queued \union Pushed({o}, refCount, tesRefCount, stack')
  /\ UNCHANGED <<home, initialized, item, refCount, tesRefCount>>
  /\ SameDomains /\ SameRoots

\* set_root with a map just made: it gets a user retention and, by uid(), a place
\* in the queue.  There is no previous root: it would have been found.
SetRoot(d, o) ==
  /\ root' = [root EXCEPT ![d] = o]
  /\ tesRefCount' = [tesRefCount EXCEPT ![o] = @ + 1]
  /\ queued' = queued \union {o}

\* tes_context::root, which JDB's functions call: the cached pointer, the object of
\* the handle, or a new map.
Root(d) ==
  /\ cachedRoot[d] = None
  /\ UseDomain(d)
  /\ \/ /\ Idle
        /\ root[d] \in Live
        /\ cachedRoot' = [cachedRoot EXCEPT ![d] = root[d]]
        /\ UNCHANGED <<home, initialized, tesRefCount, queued, root>>
        /\ UNCHANGED <<activeNames, load, disk, sinceSave>>
     \/ /\ Script
        /\ root[d] \notin Live
        /\ \E o \in Objects \ Live :
             /\ home' = [home EXCEPT ![o] = d]
             /\ initialized' = initialized \union {o}
             /\ SetRoot(d, o)
             /\ cachedRoot' = [cachedRoot EXCEPT ![d] = o]
  /\ UNCHANGED <<item, refCount, stack>>

\* tick releases an object whose time has come: the last owner deletes it.  What a
\* collection leaves to the queue has ten seconds to go, and collecting takes less.
TickRelease(o) ==
  /\ o \in queued /\ home[o] \in running
  /\ \/ Idle /\ UNCHANGED load
     \/ /\ ~Idle /\ SlowLoads /\ o \notin load.garbage
        /\ load' = [load EXCEPT !.late = @ \union {home[o]}]
  /\ IF refCount[o] = 0 /\ tesRefCount[o] = 0 /\ o \notin stack
     THEN DeleteSelf(o)
     ELSE /\ queued' = queued \ {o}
          /\ UNCHANGED <<home, initialized, item, refCount, tesRefCount, stack>>
  /\ UNCHANGED <<activeNames, disk, sinceSave>> /\ SameDomains /\ SameRoots

-----------------------------------------------------------------------------
(* The game's events *)

\* master::clear_state: all queues stop, everything is cleared, the contexts of
\* inactive domains are deleted, the queues of the others start.
ClearMaster ==
  /\ domains' = domains \intersect activeNames
  /\ ClearState(Domains)

\* skse_callbacks revert: a new game begins.
Revert ==
  /\ Idle
  /\ ClearMaster
  /\ running' = domains' \union {Default}
  /\ sinceSave' = 0
  /\ UNCHANGED <<activeNames, load, disk>>

\* The game is closed and started with other mods.
Restart ==
  /\ Idle
  /\ activeNames' \in SUBSET Names
  /\ domains' = {}
  /\ running' = {Default}
  /\ ClearState(Domains)
  /\ sinceSave' = 0
  /\ UNCHANGED <<load, disk>>

Archive(version, D, tes) ==
  [version |-> version,
   domains |-> D,
   home    |-> [o \in Objects |-> IF home[o] \in D THEN home[o] ELSE None],
   item    |-> [o \in Objects |-> IF home[o] \in D THEN item[o] ELSE None],
   tes     |-> [o \in Objects |-> IF home[o] \in D THEN tes[o] ELSE 0],
   queued  |-> { o \in queued : home[o] \in D },
   root    |-> [d \in Domains |-> IF d \in D THEN root[d] ELSE None]]

\* write_to_stream: every context that exists, with the counts of user retentions;
\* the references of items and queue are written where they are, Lua's are not.
Save ==
  /\ Idle
  /\ disk' = Archive("current", Contexts, tesRefCount)
  /\ sinceSave' = 0
  /\ UNCHANGED <<activeNames, load>> /\ SameDomains /\ SameRoots /\ UNCHANGED objects

\* A save that another release made of the same containers: pre_gc has one domain,
\* whose root had no user retention; of what is older or newer only the header is read.
OtherSave(version) ==
  /\ Idle
  /\ disk' = Archive(version, IF version = "pre_gc" THEN {Default} ELSE {},
               [o \in Objects |->
                  IF o = root[Default] THEN Minus(tesRefCount[o], 1) ELSE tesRefCount[o]])
  /\ sinceSave' = 0
  /\ UNCHANGED <<activeNames, load>> /\ SameDomains /\ SameRoots /\ UNCHANGED objects

\* skse_callbacks load up to the archive: clear_state as for a revert, then all
\* queues stop and everything is cleared again.
LoadBegin ==
  /\ Idle
  /\ disk # NoSave
  /\ ClearMaster
  /\ running' = {}
  /\ load' = Stage("read", disk.domains, {}, {})
  /\ UNCHANGED <<activeNames, disk, sinceSave>>

Loaded(d) == { o \in Objects : disk.home[o] = d }

\* A wrong variant: the count is saved as well, and each reference retains.
LoadedRefCountTwice(o) == 2 * Cardinality({ c \in Objects : home'[c] # None /\ item'[c] = o })

LoadedRefCount(o) == Cardinality({ c \in Objects : home'[c] # None /\ item'[c] = o })

\* autorelease_queue::load: the objects of a context that its queue owned.
LoadedQueue(d) == disk.queued \intersect Loaded(d)

\* One context is read: the default one, then the named ones, created with a
\* running queue unless they exist.  Loading a reference retains its object; the
\* objects have no context yet.
LoadDomain(d) ==
  /\ load.pc = "read"
  /\ disk.version \in {"current", "pre_gc"}
  /\ d \in load.todo
  /\ d = Default \/ Default \notin load.todo
  /\ domains' = domains \union ({d} \ {Default})
  /\ running' = IF d \in Contexts THEN running ELSE running \union {d}
  /\ home' = [o \in Objects |-> IF o \in Loaded(d) THEN d ELSE home[o]]
  /\ item' = [o \in Objects |-> IF o \in Loaded(d) THEN disk.item[o] ELSE item[o]]
  /\ refCount' = [o \in Objects |-> IF o \in Loaded(d) THEN LoadedRefCount(o) ELSE refCount[o]]
  /\ tesRefCount' = [o \in Objects |-> IF o \in Loaded(d) THEN disk.tes[o] ELSE tesRefCount[o]]
  /\ queued' = queued \union LoadedQueue(d)
  /\ root' = [root EXCEPT ![d] = disk.root[d]]
  /\ load' = [load EXCEPT !.todo = @ \ {d}]
  /\ UNCHANGED <<activeNames, initialized, stack, cachedRoot, disk, sinceSave>>

\* A wrong variant: the contexts of active domains only.
StartedActive == (activeNames \intersect domains') \union {Default}

\* ~activity_stopper: the queues of the contexts that exist by now.
Started == domains' \union {Default}

\* What the header says: a version from before all headers, or a newer one.
IsNotSupported == disk.version = "unsupported"

\* The version is not supported, or the archive is broken: before a context or in it,
\* a named one being created by then, or in the part of the form observer after the
\* last.  Everything is cleared, and all queues start, those of inactive domains too.
LoadFail ==
  /\ load.pc = "read"
  /\ \E d \in load.todo \union {Default} :
       /\ d = Default \/ Default \notin load.todo
       /\ domains' = domains \union ({d} \ {Default})
  /\ ClearState(Domains)
  /\ running' = Started
  /\ load' = NotLoading
  /\ sinceSave' = 0
  /\ UNCHANGED <<activeNames, disk>>

\* A wrong variant: the queue owns nothing that is worth keeping.
RootsOfRetained(d) == { o \in Live : home[o] = d /\ tesRefCount[o] > 0 }

\* The collector's roots: what scripts retain and what is in the queue.
Roots(d) == { o \in Live : home[o] = d /\ (tesRefCount[o] > 0 \/ o \in queued) }

\* findNonReachable: what no rounds of visits from the objects of S arrive at, that
\* is, what is not in all sets that contain S and what their members refer to.
NonReachable(S) ==
  { o \in Live : \E T \in SUBSET Live : /\ S \subseteq T /\ o \notin T
                                       /\ \A x \in T : item[x] \in T \union {None} }

\* A wrong variant: the root of an old save is left as it is.
UpdatedTesWithoutRoot == tesRefCount

\* u_applyUpdates: saves from before the collector did not retain the root.
UpdatedTes ==
  IF disk.version # "pre_gc" THEN tesRefCount
  ELSE [o \in Objects |-> IF o = root[Default] /\ o \in Live
                          THEN tesRefCount[o] + 1 ELSE tesRefCount[o]]

\* Everything is read: the contexts of inactive domains go, the objects of the
\* others get their contexts, old saves are updated.
LoadEnd ==
  /\ load.pc = "read" /\ load.todo = {}
  /\ ~IsNotSupported
  /\ domains' = domains \intersect activeNames
  /\ running' = running \intersect activeNames
  /\ LET gone == { o \in Live : home[o] \notin activeNames \union {Default} }
         kept == Live \ gone
     IN  /\ home' = [o \in Objects |-> IF o \in kept THEN home[o] ELSE None]
         /\ item' = [o \in Objects |-> IF o \in kept THEN item[o] ELSE None]
         /\ refCount' = [o \in Objects |-> IF o \in kept THEN refCount[o] ELSE 0]
         /\ tesRefCount' = [o \in Objects |-> IF o \in kept THEN UpdatedTes[o] ELSE 0]
         /\ queued' = queued \intersect kept
         /\ initialized' = kept
  /\ ForgetRoots(Domains \ (activeNames \union {Default}))
  /\ load' = Stage("mark", {}, {}, load.late)
  /\ UNCHANGED <<activeNames, stack, disk, sinceSave>>

\* u_collect: what is garbage is found for each context.
Mark ==
  /\ load.pc = "mark"
  /\ load' = Stage("collect", {}, NonReachable(UNION { Roots(d) : d \in Contexts }), load.late)
  /\ UNCHANGED <<activeNames, disk, sinceSave>>
  /\ SameDomains /\ SameRoots /\ UNCHANGED objects

\* A wrong variant: what nothing owns is left for the next load.
CollectGraphs(o) ==
  /\ load.pc = "collect" /\ o \in load.garbage
  /\ IF NoOwners(o) THEN UNCHANGED objects
     ELSE /\ Assign(o, None)
          /\ UNCHANGED <<home, initialized, tesRefCount, stack>>
  /\ load' = [load EXCEPT !.garbage = @ \ {o}]
  /\ UNCHANGED <<activeNames, disk, sinceSave>> /\ SameDomains /\ SameRoots

\* collectGarbage, in the order of a hash set: an object of a graph is cleared, which
\* leaves its last owners to the queue; one that nothing owns is deleted.
Collect(o) ==
  /\ load.pc = "collect" /\ o \in load.garbage
  /\ IF NoOwners(o) THEN DeleteSelf(o)
     ELSE /\ Assign(o, None)
          /\ UNCHANGED <<home, initialized, tesRefCount, stack>>
  /\ load' = [load EXCEPT !.garbage = @ \ {o}]
  /\ UNCHANGED <<activeNames, disk, sinceSave>> /\ SameDomains /\ SameRoots

LoadDone ==
  /\ load.pc = "collect" /\ load.garbage = {}
  /\ UNCHANGED <<activeNames, domains, disk>> /\ SameRoots /\ UNCHANGED objects
  /\ running' = Started
  /\ load' = NotLoading
  /\ sinceSave' = 0

Next ==
  \/ \E o \in Objects :
       \/ \E d \in Domains : NewObject(d, o)
       \/ \E v \in Objects \union {None} : SetItem(o, v)
       \/ Retain(o) \/ Release(o) \/ LuaHold(o) \/ LuaDrop(o) \/ TickRelease(o) \/ Collect(o)
  \/ \E d \in Domains : Root(d) \/ LoadDomain(d)
  \/ \E found \in SUBSET Objects : ReleaseObjectsWithTag(found)
  \/ Revert \/ Restart \/ Save
  \/ \E version \in {"pre_gc", "unsupported"} : OtherSave(version)
  \/ LoadBegin \/ LoadFail \/ LoadEnd \/ Mark \/ LoadDone

Spec == Init /\ [][Next]_vars

-----------------------------------------------------------------------------
(* Properties *)

TypeOK ==
  /\ activeNames \subseteq Names /\ domains \subseteq Names
  /\ running \subseteq Domains
  /\ home \in [Objects -> Domains \union {None}]
  /\ item \in [Objects -> Objects \union {None}]
  /\ refCount \in [Objects -> Nat] /\ tesRefCount \in [Objects -> Nat]
  /\ initialized \subseteq Objects /\ stack \subseteq Objects
  /\ queued \subseteq Objects
  /\ root \in [Domains -> Objects \union {None}]
  /\ cachedRoot \in [Domains -> Objects \union {None}]

\* What is not in the archive is rebuilt, and what a collection clears or deletes in
\* whatever order gives up its references: an object's count of items is the number of
\* items that refer to it, in each step of a load too.
CountersExact ==
  \A o \in Live : refCount[o] = Cardinality({ c \in Live : item[c] = o })

\* "It's relatively safe to skip call - the object will be deleted by GC"
\* (object_base.hpp, try_prolong_lifetime): outside of a load every object has an owner
\* or waits in its queue, also when only Lua held it when the game was saved.
UnownedIsQueued == Idle => \A o \in Live : ~NoOwners(o)

\* The raw pointer that root() keeps is the root that is saved, and a live object of its
\* domain that is retained, whatever was reverted, loaded or failed to load.
CachedRootIsRoot ==
  \A d \in Domains : cachedRoot[d] # None =>
    /\ cachedRoot[d] = root[d]
    /\ home[root[d]] = d /\ tesRefCount[root[d]] > 0

\* Between the game's events the timer of every context that exists is running, also of
\* those a broken load created: what waits in a queue will be released.
TimersRun == Idle => running = Contexts

ActiveContexts == activeNames \union {Default}

\* What the saved game must bring back: all that can be reached from what a script of an
\* active domain retained, or its queue owned unless the queue is one of those in late;
\* of a save from before the collector also the root, which was not retained.
WorthKeeping(late) ==
  LET persistent == { o \in Objects :
                        /\ disk.home[o] \in ActiveContexts
                        /\ \/ disk.tes[o] > 0
                           \/ o \in disk.queued /\ disk.home[o] \notin late
                           \/ disk.version = "pre_gc" /\ o = disk.root[Default] }
      closed(S) == \A o \in S : disk.item[o] \in S \union {None}
  IN  { o \in Objects : \A S \in SUBSET Objects : persistent \subseteq S /\ closed(S) => o \in S }

\* A load that ends gives back the containers of the save: those worth keeping as they
\* were, and of the others at most an empty one that waits for its deletion.  The timer
\* of a context that the load creates runs at once: what such a queue has released since
\* may be gone before its time, what scripts retained and the rest of its domain's
\* containers that can be reached from there are not.
LoadRestores ==
  [][LoadDone =>
       /\ \A o \in WorthKeeping(load.late) :
            /\ home'[o] = disk.home[o] /\ item'[o] = disk.item[o]
            /\ tesRefCount'[o] >= disk.tes[o]
            /\ o \in disk.queued /\ disk.home[o] \notin load.late => o \in queued'
       /\ \A o \in Live' \ WorthKeeping(load.late) :
            home'[o] \notin load.late =>
              o \in queued' /\ item'[o] = None /\ tesRefCount'[o] = 0
       /\ \A d \in ActiveContexts : root'[d] = disk.root[d]]_vars
=============================================================================
