--------------------------- MODULE ObjectLifetime ---------------------------
(***************************************************************************)
(* The lifetime of container objects: object_base's four owner counters,   *)
(* the object registry with its public handles, and the autorelease queue  *)
(* with its timer, under the API calls of several script threads.          *)
(*                                                                         *)
(*   object/object_base.h, .hpp      counters, uid, retain and release     *)
(*   object/object_registry.h        _all_objects, _map                    *)
(*   object/autorelease_queue.h      _queue, _toRelease, tick              *)
(*   reflection/tes_binding.h, collections/bind_traits.h                   *)
(*                                   what every API call does around its   *)
(*                                   function: resolve the handles into    *)
(*                                   stack references, run the function,   *)
(*                                   turn the result into a handle, drop   *)
(*                                   the stack references                  *)
(*   api_3/tes_object.h, tes_array.h, tes_map.h                            *)
(*                                   the functions                         *)
(*                                                                         *)
(* A call is a sequence of steps of its thread; the queue's timer takes    *)
(* steps of its own.  Each locked region is one step.  Two sequences of    *)
(* the program that no lock protects are one step or two, as Split says:   *)
(* the queue's test of the counters and what it does about it, and the     *)
(* decrement of a stack reference and the test that follows.               *)
(*                                                                         *)
(* An execution is followed up to the first dangling pointer: from there   *)
(* the program's behaviour is undefined.                                   *)
(***************************************************************************)
EXTENDS AutoreleaseClock, FiniteSets

CONSTANTS Objects,          \* the memory cells an object may occupy
          Handles,          \* the public identifiers
          Slots,            \* the places for an item in a container
          Threads,          \* the threads that run scripts' API calls
          Functions,        \* the API functions the threads call
          MaxTesRetains,    \* bound: JValue.retain calls outstanding per object
          Split,            \* the unprotected sequences taken as two steps
          None              \* no object, no handle: the null pointer

ASSUME LifetimeAssumption ==
  /\ Functions \subseteq {"object", "objectFromPrototype", "getObj", "setObj",
                          "clear", "retain", "release", "releaseAndRetain",
                          "zeroLifetime"}
  /\ IsFiniteSet(Objects) /\ IsFiniteSet(Slots) /\ IsFiniteSet(Threads)
  /\ MaxTesRetains \in Nat
  /\ Split \subseteq {"expiry", "stack"}
  /\ None \notin Objects
  /\ None \notin Handles

VARIABLES
  live,             \* _all_objects: the objects that exist
  handleMap,        \* _map, None for a handle that names no object
  id,               \* _id
  refCount,         \* _refCount: owned by items of other objects
  tesRefCount,      \* _tes_refCount: JValue.retain
  stackRefCount,    \* _stack_refCount: arguments of running calls
  aqueueRefCount,   \* _aqueue_refCount: the autorelease queue
  pushTime,         \* _aqueue_push_time
  item,             \* the object each slot of a container refers to
  queue,            \* _queue
  toRelease,        \* _toRelease
  tickCounter,      \* _tickCounter
  expiring,         \* the object tick() is about to release, and how
  call              \* the call each thread is in

registry == <<live, handleMap, id>>
counters == <<refCount, tesRefCount, stackRefCount, aqueueRefCount>>
aqueue   == <<pushTime, queue, toRelease, tickCounter, expiring>>
vars     == <<registry, counters, item, aqueue, call>>

-----------------------------------------------------------------------------
(* The calls *)

\* pc:  "idle"    no call is running
\*      "body"    the arguments are resolved, the function is about to run
\*      "return"  the function has returned the raw pointer ret
\*      "drop"    the arguments' stack references are being dropped
\* chk: a stack reference has been dropped, the test for owners is to come
Frame(pc, fn, obj, val, ret, chk) ==
  [pc |-> pc, fn |-> fn, obj |-> obj, val |-> val, ret |-> ret, chk |-> chk]

Idle == Frame("idle", None, None, None, None, None)

Pcs == {"idle", "body", "return", "drop"}

OrNone(S) == S \union {None}

NoItems == [s \in Slots |-> None]

Init ==
  /\ live = {}
  /\ handleMap = [h \in Handles |-> None]
  /\ id = [o \in Objects |-> None]
  /\ refCount = [o \in Objects |-> 0]
  /\ tesRefCount = [o \in Objects |-> 0]
  /\ stackRefCount = [o \in Objects |-> 0]
  /\ aqueueRefCount = [o \in Objects |-> 0]
  /\ pushTime = [o \in Objects |-> 0]
  /\ item = [o \in Objects |-> NoItems]
  /\ queue = {}
  /\ toRelease = {}
  /\ tickCounter = 0
  /\ expiring = [obj |-> None, delete |-> FALSE]
  /\ call = [t \in Threads |-> Idle]

-----------------------------------------------------------------------------
(* The owners of an object *)

RefCountSum(o) ==
  refCount[o] + tesRefCount[o] + stackRefCount[o] + aqueueRefCount[o]

IsPublic(o) == id[o] # None

IsInAqueue(o) == aqueueRefCount[o] > 0

\* The pointers the program may still follow.
Pointers ==
  LET ofCalls   == UNION { {call[t].obj, call[t].val, call[t].ret, call[t].chk}
                           : t \in Threads }
      ofObjects == UNION { { item[o][s] : s \in Slots } : o \in live }
      ofMap     == { handleMap[h] : h \in Handles }
  IN  (ofCalls \union ofObjects \union ofMap \union queue \union toRelease) \ {None}

NoDangling == Pointers \subseteq live

\* A wrong variant: the object is pushed although it is in the queue.
RequeueAgain(prolonged, public, cut, destroyed) ==
  /\ pushTime' = [o \in Objects |->
                    IF o \in destroyed THEN 0
                    ELSE IF o \in public THEN tickCounter
                    ELSE IF o \in prolonged \/ (o \in cut /\ IsInAqueue(o))
                    THEN ExpiredTime(tickCounter)
                    ELSE pushTime[o]]
  /\ queue' = queue \union prolonged
  /\ aqueueRefCount' = [o \in Objects |->
                          IF o \in destroyed THEN 0
                          ELSE IF o \in prolonged THEN aqueueRefCount[o] + 1
                          ELSE aqueueRefCount[o]]

\* autorelease_queue::prolong_lifetime for the objects of prolonged, of which
\* those in public get a whole lifetime, and not_prolong_lifetime for cut.  The
\* queue takes a reference of an object it does not own yet, and has given up
\* the ones of the objects in destroyed.
Requeue(prolonged, public, cut, destroyed) ==
  LET pushed == { o \in prolonged : ~IsInAqueue(o) }
  IN  /\ pushTime' = [o \in Objects |->
                        IF o \in destroyed THEN 0
                        ELSE IF o \in public THEN tickCounter
                        ELSE IF o \in prolonged \/ (o \in cut /\ IsInAqueue(o))
                        THEN ExpiredTime(tickCounter)
                        ELSE pushTime[o]]
      /\ queue' = queue \union pushed
      /\ aqueueRefCount' = [o \in Objects |->
                              IF o \in destroyed THEN 0
                              ELSE IF o \in pushed THEN aqueueRefCount[o] + 1
                              ELSE aqueueRefCount[o]]

\* object_base::prolong_lifetime.
Prolong(S) == Requeue(S, { o \in S : IsPublic(o) }, {}, {})

-----------------------------------------------------------------------------
(* Items: object_base::retain and object_base::release *)

\* How many of the given slots of container c refer to o.
ItemsTo(o, c, slots) == Cardinality({ s \in slots : item[c][s] = o })

SaturatingMinus(a, b) == IF a > b THEN a - b ELSE 0

\* The items of container c in slots are destroyed, after a new item with value v
\* was made (None: no such item); destroyed is {c} when the container goes too.
\* Only what an item owned can lose its last owner by it.
ReleaseItems(c, slots, v, destroyed) ==
  LET made(o)  == IF o = v THEN 1 ELSE 0
      left     == [o \in Objects |->
                     IF o \in destroyed THEN 0
                     ELSE SaturatingMinus(refCount[o] + made(o), ItemsTo(o, c, slots))]
      noOwners == { o \in Objects \ destroyed :
                      /\ ItemsTo(o, c, slots) > 0
                      /\ left[o] = 0
                      /\ tesRefCount[o] = 0
                      /\ stackRefCount[o] = 0
                      /\ aqueueRefCount[o] = 0 }
  IN  /\ refCount' = left
      /\ Requeue(noOwners, { o \in noOwners : IsPublic(o) }, {}, destroyed)

-----------------------------------------------------------------------------
(* The frame of a call: resolving the arguments *)

\* object_registry::getObjectRef under the registry's read lock: a handle that
\* names no object is a null argument.
Resolvable == { handleMap[h] : h \in Handles } \ {None}

TakesValue == {"setObj", "releaseAndRetain"}

\* A wrong variant: the arguments are looked up and not owned, as getObject does.
BeginUnowned(t, fn, o, v) ==
  /\ call[t].pc = "idle"
  /\ fn \in Functions \ {"object", "objectFromPrototype"}
  /\ fn \in TakesValue \/ v = None
  /\ call' = [call EXCEPT ![t] = Frame("body", fn, o, v, None, None)]
  /\ UNCHANGED <<registry, counters, item, aqueue>>

\* A call on object o, with v as second argument.  A call whose first argument is
\* null does nothing; releaseAndRetain with a null argument is release or retain.
Begin(t, fn, o, v) ==
  /\ call[t].pc = "idle"
  /\ fn \in Functions \ {"object", "objectFromPrototype"}
  /\ fn \in TakesValue \/ v = None
  /\ call' = [call EXCEPT ![t] = Frame("body", fn, o, v, None, None)]
  /\ stackRefCount' = [x \in Objects |->
                         stackRefCount[x] + (IF x = o THEN 1 ELSE 0)
                                          + (IF x = v THEN 1 ELSE 0)]
  /\ UNCHANGED <<registry, refCount, tesRefCount, aqueueRefCount, item, aqueue>>

\* The call's record when the function has run; no call when nothing is left to
\* drop.
Leaving(obj, val, chk) ==
  IF {obj, val, chk} = {None}
  THEN Idle
  ELSE Frame("drop", None, obj, val, None, chk)

Finish(t) == call' = [call EXCEPT ![t] = Leaving(@.obj, @.val, None)]

Return(t, fn, o) ==
  call' = [call EXCEPT ![t] = Frame("return", fn, @.obj, @.val, o, None)]

InBody(t, fn) == call[t].pc = "body" /\ call[t].fn = fn

-----------------------------------------------------------------------------
(* The functions *)

\* JArray.object, JMap.object, ...: make_object registers the new object, which
\* nothing owns and which has no handle yet.
NewObject(t, o) ==
  /\ "object" \in Functions
  /\ call[t].pc = "idle"
  /\ o \notin live
  /\ live' = live \union {o}
  /\ Return(t, "object", o)
  /\ UNCHANGED <<handleMap, id, counters, item, aqueue>>

\* JValue.objectFromPrototype, readFromFile and deepCopy: a new container with a
\* new container in it, which has no handle.
NewNested(t, o, child, s) ==
  /\ "objectFromPrototype" \in Functions
  /\ call[t].pc = "idle"
  /\ o \notin live /\ child \notin live /\ o # child
  /\ live' = live \union {o, child}
  /\ item' = [item EXCEPT ![o][s] = child]
  /\ refCount' = [refCount EXCEPT ![child] = 1]
  /\ Return(t, "objectFromPrototype", o)
  /\ UNCHANGED <<handleMap, id, tesRefCount, stackRefCount, aqueueRefCount, aqueue>>

\* getObj: the pointer is read under the container's lock and returned without a
\* reference of its own.
GetObj(t, s) ==
  /\ InBody(t, "getObj")
  /\ Return(t, "getObj", item[call[t].obj][s])
  /\ UNCHANGED <<registry, counters, item, aqueue>>

\* A wrong variant: the new value is not retained.
SetObjUnretained(t, s) ==
  /\ InBody(t, "setObj")
  /\ item' = [item EXCEPT ![call[t].obj][s] = call[t].val]
  /\ ReleaseItems(call[t].obj, {s}, None, {})
  /\ Finish(t)
  /\ UNCHANGED <<registry, tesRefCount, stackRefCount, toRelease, tickCounter,
                 expiring>>

\* setObj: item's assignment owns the new value before it releases the old one.
SetObj(t, s) ==
  /\ InBody(t, "setObj")
  /\ item' = [item EXCEPT ![call[t].obj][s] = call[t].val]
  /\ ReleaseItems(call[t].obj, {s}, call[t].val, {})
  /\ Finish(t)
  /\ UNCHANGED <<registry, tesRefCount, stackRefCount, toRelease, tickCounter,
                 expiring>>

Clear(t) ==
  /\ InBody(t, "clear")
  /\ item' = [item EXCEPT ![call[t].obj] = NoItems]
  /\ ReleaseItems(call[t].obj, Slots, None, {})
  /\ Finish(t)
  /\ UNCHANGED <<registry, tesRefCount, stackRefCount, toRelease, tickCounter,
                 expiring>>

\* object_base::tes_release on prev, then tes_retain on next; None for neither.
TesReleaseAndRetain(prev, next) ==
  LET left     == [o \in Objects |->
                     IF o = prev THEN SaturatingMinus(tesRefCount[o], 1)
                     ELSE IF o = next THEN tesRefCount[o] + 1
                     ELSE tesRefCount[o]]
      noOwners == { o \in {prev} \ {None} :
                      /\ tesRefCount[o] > 0
                      /\ left[o] = 0
                      /\ refCount[o] = 0
                      /\ stackRefCount[o] = 0
                      /\ aqueueRefCount[o] = 0 }
  IN  /\ next # None => tesRefCount[next] < MaxTesRetains
      /\ tesRefCount' = left
      /\ Requeue(noOwners, noOwners, {next}, {})

TesFrame == UNCHANGED <<registry, refCount, stackRefCount, item, toRelease,
                        tickCounter, expiring>>

Retain(t) ==
  /\ InBody(t, "retain")
  /\ TesReleaseAndRetain(None, call[t].obj)
  /\ Finish(t)
  /\ TesFrame

Release(t) ==
  /\ InBody(t, "release")
  /\ TesReleaseAndRetain(call[t].obj, None)
  /\ Finish(t)
  /\ TesFrame

ReleaseAndRetain(t) ==
  /\ InBody(t, "releaseAndRetain")
  /\ IF call[t].obj = call[t].val
     THEN TesReleaseAndRetain(None, None)
     ELSE TesReleaseAndRetain(call[t].obj, call[t].val)
  /\ Finish(t)
  /\ TesFrame

ZeroLifetime(t) ==
  /\ InBody(t, "zeroLifetime")
  /\ Requeue({}, {}, {call[t].obj}, {})
  /\ Finish(t)
  /\ UNCHANGED tesRefCount
  /\ TesFrame

-----------------------------------------------------------------------------
(* The frame of a call: the result and the arguments *)

\* object_base::uid on the returned pointer: its first publication takes a free
\* handle and, when no item owns the object, a place in the queue.
Uid(t) ==
  /\ call[t].pc = "return"
  /\ Finish(t)
  /\ LET published == { o \in {call[t].ret} \ {None} : ~IsPublic(o) }
         unowned   == { o \in published : refCount[o] = 0 }
     IN  /\ \/ /\ published = {}
               /\ UNCHANGED <<handleMap, id>>
            \/ \E o \in published, h \in Handles :
                 /\ handleMap[h] = None
                 /\ handleMap' = [handleMap EXCEPT ![h] = o]
                 /\ id' = [id EXCEPT ![o] = h]
         /\ Requeue(unowned, unowned, {}, {})
  /\ UNCHANGED <<live, refCount, tesRefCount, stackRefCount, item, toRelease,
                 tickCounter, expiring>>

\* object_base::stack_release, the decrement and the test: the object goes into
\* the queue when nothing else owns it.
StackDecrement(o) ==
  stackRefCount' = [stackRefCount EXCEPT ![o] = SaturatingMinus(@, 1)]

\* A wrong variant: only an object without a handle is put into the queue.
NoOwnersAndPrivate(o, stackRefs) ==
  /\ ~IsPublic(o)
  /\ refCount[o] = 0
  /\ tesRefCount[o] = 0
  /\ aqueueRefCount[o] = 0
  /\ stackRefs = 0

NoOwnersBut(o, stackRefs) ==
  /\ refCount[o] = 0
  /\ tesRefCount[o] = 0
  /\ aqueueRefCount[o] = 0
  /\ stackRefs = 0

\* One of the arguments is dropped: obj and val are what the call holds then.
DropArgument(t, o, obj, val) ==
  /\ call[t].pc = "drop"
  /\ call[t].chk = None
  /\ o # None
  /\ StackDecrement(o)
  /\ \/ /\ "stack" \in Split
        /\ call' = [call EXCEPT ![t] = Leaving(obj, val, o)]
        /\ UNCHANGED <<aqueueRefCount, pushTime, queue>>
     \/ /\ "stack" \notin Split
        /\ call' = [call EXCEPT ![t] = Leaving(obj, val, None)]
        /\ Prolong({ x \in {o} : NoOwnersBut(x, stackRefCount[x] - 1) })
  /\ UNCHANGED <<registry, refCount, tesRefCount, item, toRelease, tickCounter,
                 expiring>>

\* The test of stack_release, when it is a step of its own.
CheckDropped(t) ==
  /\ call[t].chk # None
  /\ Prolong({ x \in {call[t].chk} : NoOwnersBut(x, stackRefCount[x]) })
  /\ call' = [call EXCEPT ![t] = Leaving(@.obj, @.val, None)]
  /\ UNCHANGED <<registry, refCount, tesRefCount, stackRefCount, item, toRelease,
                 tickCounter, expiring>>

-----------------------------------------------------------------------------
(* The timer: autorelease_queue::tick *)

\* Under the queue's mutex: what has expired leaves the queue, the clock advances.
TickCollect ==
  /\ toRelease = {}
  /\ LET expired == { o \in queue : IsExpired(tickCounter, pushTime[o]) }
     IN  /\ queue' = queue \ expired
         /\ toRelease' = expired
  /\ tickCounter' = TimeAdd(tickCounter, 1)
  /\ UNCHANGED <<registry, counters, pushTime, expiring, item, call>>

\* A wrong variant: the handle stays in the registry.
DeleteSelfKeepsHandle(o) ==
  /\ live' = live \ {o}
  /\ UNCHANGED handleMap
  /\ id' = [id EXCEPT ![o] = None]
  /\ item' = [item EXCEPT ![o] = NoItems]
  /\ tesRefCount' = [tesRefCount EXCEPT ![o] = 0]
  /\ stackRefCount' = [stackRefCount EXCEPT ![o] = 0]
  /\ ReleaseItems(o, Slots, None, {o})

\* object_base::_delete_self and the destructor: the object leaves the registry,
\* its handle is free again, its items release what they refer to.
DeleteSelf(o) ==
  /\ live' = live \ {o}
  /\ handleMap' = [h \in Handles |-> IF id[o] = h THEN None ELSE handleMap[h]]
  /\ id' = [id EXCEPT ![o] = None]
  /\ item' = [item EXCEPT ![o] = NoItems]
  /\ tesRefCount' = [tesRefCount EXCEPT ![o] = 0]
  /\ stackRefCount' = [stackRefCount EXCEPT ![o] = 0]
  /\ ReleaseItems(o, Slots, None, {o})

\* A wrong variant: one owner too many.
OnlyOwnerOffByOne(o) == RefCountSum(o) =< 2

OnlyOwnerIsAqueue(o) == RefCountSum(o) =< 1

\* object_base::_aqueue_release: the queue's reference is dropped, and the object
\* with it when it was the last one.
AqueueRelease(o, delete) ==
  /\ toRelease' = toRelease \ {o}
  /\ \/ delete /\ DeleteSelf(o)
     \/ /\ ~delete
        /\ aqueueRefCount' = [aqueueRefCount EXCEPT ![o] = @ - 1]
        /\ UNCHANGED <<registry, item, refCount, tesRefCount, stackRefCount, pushTime,
                       queue>>
  /\ UNCHANGED <<tickCounter, call>>

\* _toRelease.clear(), outside the queue's mutex.
TickRelease(o) ==
  /\ "expiry" \notin Split
  /\ o \in toRelease
  /\ AqueueRelease(o, OnlyOwnerIsAqueue(o))
  /\ UNCHANGED expiring

\* The same as two steps: the counters are read, then acted upon.
TickCheck(o) ==
  /\ "expiry" \in Split
  /\ expiring.obj = None
  /\ o \in toRelease
  /\ expiring' = [obj |-> o, delete |-> OnlyOwnerIsAqueue(o)]
  /\ UNCHANGED <<registry, counters, pushTime, queue, toRelease, tickCounter, item,
                 call>>

TickAct ==
  /\ expiring.obj # None
  /\ AqueueRelease(expiring.obj, expiring.delete)
  /\ expiring' = [obj |-> None, delete |-> FALSE]

Tick ==
  \/ TickCollect
  \/ \E o \in Objects : TickRelease(o) \/ TickCheck(o)
  \/ TickAct

-----------------------------------------------------------------------------

\* The steps of a call that has begun.
Continue(t) ==
  \/ \E s \in Slots : GetObj(t, s) \/ SetObj(t, s)
  \/ Clear(t) \/ Retain(t) \/ Release(t) \/ ReleaseAndRetain(t) \/ ZeroLifetime(t)
  \/ Uid(t)
  \/ DropArgument(t, call[t].obj, None, call[t].val)
  \/ DropArgument(t, call[t].val, call[t].obj, None)
  \/ CheckDropped(t)

BeginCall(t) ==
  \/ \E fn \in Functions, o \in Resolvable, v \in OrNone(Resolvable) :
       Begin(t, fn, o, v)
  \/ \E o \in Objects : NewObject(t, o)
  \/ \E o, child \in Objects, s \in Slots : NewNested(t, o, child, s)

Next ==
  \/ NoDangling /\ Tick
  \/ \E t \in Threads : NoDangling /\ (BeginCall(t) \/ Continue(t))

Spec == Init /\ [][Next]_vars

\* The timer restarts itself after each tick and the io thread runs it; a call
\* that has begun runs to its end, since no step of it waits for another call.
FairSpec ==
  /\ Spec
  /\ WF_vars(NoDangling /\ Tick)
  /\ \A t \in Threads : WF_vars(NoDangling /\ Continue(t))

-----------------------------------------------------------------------------
(* Properties *)

TypeOK ==
  /\ live \subseteq Objects
  /\ handleMap \in [Handles -> OrNone(Objects)]
  /\ id \in [Objects -> OrNone(Handles)]
  /\ refCount \in [Objects -> Nat]
  /\ tesRefCount \in [Objects -> Nat]
  /\ stackRefCount \in [Objects -> Nat]
  /\ aqueueRefCount \in [Objects -> Int]
  /\ pushTime \in [Objects -> Times]
  /\ item \in [Objects -> [Slots -> OrNone(Objects)]]
  /\ queue \subseteq Objects
  /\ toRelease \subseteq Objects
  /\ tickCounter \in Times
  /\ expiring \in [obj : OrNone(Objects), delete : BOOLEAN]
  /\ call \in [Threads -> [pc : Pcs, fn : OrNone(Functions),
                            obj : OrNone(Objects), val : OrNone(Objects),
                            ret : OrNone(Objects), chk : OrNone(Objects)]]

\* A handle names the object that carries it, and only as long as the object
\* exists: no handle is shared and none leads to a destroyed object.
HandlesNameTheirObjects ==
  /\ \A h \in Handles : handleMap[h] # None =>
       handleMap[h] \in live /\ id[handleMap[h]] = h
  /\ \A o \in Objects : id[o] # None => o \in live /\ handleMap[id[o]] = o

\* The queue owns each object at most once: it is either waiting in _queue or
\* about to be released, _aqueue_refCount says which objects those are, and all
\* of them exist.
QueueOwnsOnce ==
  /\ queue \intersect toRelease = {}
  /\ queue \union toRelease \subseteq live
  /\ \A o \in Objects :
       aqueueRefCount[o] = IF o \in queue \union toRelease THEN 1 ELSE 0

\* Every counter is the number of owners of its kind, over all interleavings of
\* calls and ticks.
CountersExact ==
  \A o \in live :
    /\ refCount[o] = Cardinality({ p \in live \X Slots : item[p[1]][p[2]] = o })
    /\ stackRefCount[o] =
         Cardinality({ p \in Threads \X {"obj", "val"} : call[p[1]][p[2]] = o })

\* Nothing but the queue and a raw result owns the object.
IsUnowned(o) ==
  /\ o \in live
  /\ refCount[o] = 0 /\ tesRefCount[o] = 0 /\ stackRefCount[o] = 0
  /\ \A t \in Threads : o \notin {call[t].ret, call[t].chk}

\* object_base::uid: "we must ensure that not-owned object will not hang forever".
UnownedIsQueued == \A o \in live : IsUnowned(o) => IsInAqueue(o)

\* The age of an entry of the queue never passes the lifetime, whatever the wrap
\* of the clock: the comparison in tick() sees every entry in time.
QueueAgeBounded ==
  \A o \in queue : TimeSubtract(tickCounter, pushTime[o]) =< ObjLifeInTicks

\* The queue deletes an object only if it is the only owner of it
\* (object_base::_aqueue_release).
OwnedSurvive ==
  [][\A o \in live \ live' :
       refCount[o] = 0 /\ tesRefCount[o] = 0 /\ stackRefCount[o] = 0]_vars

\* Nothing owns the object, the queue included, and no call is about to put it
\* into the queue: it lives until a script names it again.
IsAbandoned(o) ==
  /\ o \in live
  /\ RefCountSum(o) = 0
  /\ \A t \in Threads : call[t].chk # o /\ (call[t].ret = o => IsPublic(o))

\* Whatever the interleaving of releases by several threads, with the decrement
\* and the test of stack_release as two steps, an object is abandoned in one way
\* only: _aqueue_release drops the queue's reference because its test saw another
\* owner, who has left before the drop and found the object still in the queue.
AbandonedByTimerOnly ==
  [][\A o \in live' :
       IsAbandoned(o)' =>
         \/ IsAbandoned(o)
         \/ expiring = [obj |-> o, delete |-> FALSE] /\ o \notin toRelease']_vars

\* A pointer that no counter speaks for: what getObj read and uid has not seen yet,
\* and what stack_release tests after its decrement.
IsUnprotected(o) ==
  \E t \in Threads :
    call[t].chk = o \/ (call[t].fn = "getObj" /\ call[t].ret = o)

\* What a call, an item, a handle or the queue refers to is destroyed in two ways
\* only: the pointer is unprotected, or somebody has become an owner between the
\* test of _aqueue_release and the deletion.
DestroyedInUse ==
  [][\A o \in Pointers' \ live' :
       \/ IsUnprotected(o)
       \/ expiring.obj = o /\ RefCountSum(o) > 1]_vars

\* What nobody owns is destroyed in the end, unless somebody takes it up again.
UnownedIsReclaimed == \A o \in Objects : IsUnowned(o) ~> ~IsUnowned(o)
=============================================================================
