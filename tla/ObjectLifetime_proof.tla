------------------------ MODULE ObjectLifetime_proof ------------------------
(***************************************************************************)
(* What holds of ObjectLifetime for every number of objects, handles,      *)
(* threads and slots, every width of the clock and both granularities of   *)
(* its steps: types, the registry, the queue and the ages of its entries.  *)
(*                                                                         *)
(* The invariants say where an object may be.  They need that the pointers *)
(* the program follows are live, which is the guard of Next; what the four *)
(* properties need beside each other and this guard is CallsAndExpiry.     *)
(*                                                                         *)
(* The owners of the objects, in the second half:                          *)
(*                                                                         *)
(*   CountersCorrect      the counters are the numbers of items and        *)
(*                        arguments that refer to the object: OwnInv       *)
(*   OnlyTheTimerAbandons what nobody owns is in the queue, unless the     *)
(*                        timer has let it go after a test that was out    *)
(*                        of date: HeldBut                                 *)
(*   OnlyTheseAreDestroyedInUse  no pointer outlives its object, but for   *)
(*                        the unprotected ones and after such a test:      *)
(*                        FreshInv                                         *)
(*                                                                         *)
(* All of them hold of the steps as the program takes them; none assumes   *)
(* that a sequence without a lock is one step, or leaves out a function.   *)
(***************************************************************************)
EXTENDS ObjectLifetime, FiniteSetTheorems, TLAPS

-----------------------------------------------------------------------------
(* The clock: modular arithmetic, for every width of the counter (the test *)
(* time_wrapping of autorelease_queue.h tries some values of it)           *)

\* A time is never TimeMax: time_subtract and time_add stay below it.
LEMMA TimeSubtractType ==
  ASSUME NEW a \in Times, NEW b \in Times
  PROVE  TimeSubtract(a, b) \in Times
BY ClockAssumption DEF Times, TimeSubtract

LEMMA TimeAddType ==
  ASSUME NEW a \in Times, NEW b \in Times
  PROVE  TimeAdd(a, b) \in Times
BY ClockAssumption DEF Times, TimeAdd

LEMMA ExpiredTimeType ==
  ASSUME NEW now \in Times
  PROVE  ExpiredTime(now) \in Times
<1>1. ObjLifeInTicks \in Times
  BY ClockAssumption DEF Times
<1>2. QED
  BY <1>1, TimeSubtractType DEF ExpiredTime

\* "c == b - a  =>  b == c + a  and  a == b - c" (the test time_wrapping): what
\* time_subtract takes off, time_add and time_subtract give back, across the wrap.
THEOREM TimeInversivity ==
  ASSUME NEW a \in Times, NEW b \in Times
  PROVE  /\ TimeAdd(TimeSubtract(b, a), a) = b
         /\ TimeSubtract(b, TimeSubtract(b, a)) = a
BY ClockAssumption DEF Times, TimeSubtract, TimeAdd

\* A tick makes everything in the queue one tick older, the wrap included, up to
\* the age at which the difference itself wraps.
THEOREM AgeAdvances ==
  ASSUME NEW now \in Times, NEW pushed \in Times,
         TimeSubtract(now, pushed) < TimeMax - 1
  PROVE  TimeSubtract(TimeAdd(now, 1), pushed) = TimeSubtract(now, pushed) + 1
BY ClockAssumption DEF Times, TimeSubtract, TimeAdd

\* What is pushed with the expired time is released by the next tick, and what is
\* pushed with the current time is not.
THEOREM ExpiryOfPushed ==
  ASSUME NEW now \in Times
  PROVE  /\ IsExpired(now, ExpiredTime(now))
         /\ ~IsExpired(now, now)
         /\ TimeSubtract(now, ExpiredTime(now)) = ObjLifeInTicks
<1>1. ObjLifeInTicks \in Times
  BY ClockAssumption DEF Times
<1>2. TimeSubtract(now, ExpiredTime(now)) = ObjLifeInTicks
  BY <1>1, TimeInversivity DEF ExpiredTime
<1>3. TimeSubtract(now, now) = 0
  BY DEF Times, TimeSubtract
<1>4. QED
  BY <1>2, <1>3, ClockAssumption DEF IsExpired

-----------------------------------------------------------------------------
(* The inductive invariant *)

\* A function that is about to run has its first argument, and the entry that
\* tick() has read is still in _toRelease.
CallsAndExpiry ==
  /\ \A t \in Threads : call[t].pc = "body" => call[t].obj # None
  /\ expiring.obj # None => expiring.obj \in toRelease /\ "expiry" \in Split

Inv ==
  /\ TypeOK
  /\ CallsAndExpiry
  /\ HandlesNameTheirObjects
  /\ QueueOwnsOnce
  /\ QueueAgeBounded

-----------------------------------------------------------------------------
(* Lemmas on the operators *)

\* An object some item refers to is the content of a slot, and the count is a
\* number.
LEMMA ItemsToProperties ==
  ASSUME NEW o, NEW c, NEW slots \in SUBSET Slots
  PROVE  /\ ItemsTo(o, c, slots) \in Nat
         /\ ItemsTo(o, c, slots) > 0 => \E s \in slots : item[c][s] = o
<1> DEFINE S == { s \in slots : item[c][s] = o }
<1>1. IsFiniteSet(S)
  <2>1. S \in SUBSET Slots
    OBVIOUS
  <2>2. QED
    BY <2>1, FS_Subset, LifetimeAssumption
<1>2. Cardinality(S) \in Nat
  BY <1>1, FS_CardinalityType
<1>3. S = {} => Cardinality(S) = 0
  BY FS_EmptySet
<1>4. QED
  BY <1>2, <1>3 DEF ItemsTo

LEMMA SaturatingMinusType ==
  ASSUME NEW a \in Nat, NEW b \in Nat
  PROVE  SaturatingMinus(a, b) \in Nat
BY DEF SaturatingMinus

\* Requeue moves the objects it is told to, all of them live: whatever it is
\* used for, the queue owns each object once and no entry is too old.
LEMMA RequeueKeeps ==
  ASSUME TypeOK, QueueOwnsOnce, QueueAgeBounded,
         NEW prolonged \in SUBSET live,
         NEW public \in SUBSET prolonged,
         NEW cut,
         NEW destroyed \in SUBSET toRelease,
         prolonged \intersect destroyed = {},
         Requeue(prolonged, public, cut, destroyed),
         toRelease' = toRelease \ destroyed,
         live' = live \ destroyed,
         tickCounter' = tickCounter
  PROVE  /\ QueueOwnsOnce'
         /\ QueueAgeBounded'
         /\ pushTime' \in [Objects -> Times]
         /\ aqueueRefCount' \in [Objects -> Int]
         /\ queue' \subseteq Objects
         /\ toRelease' \subseteq Objects
<1> DEFINE pushed == { o \in prolonged : ~IsInAqueue(o) }
<1>1. /\ live \subseteq Objects
      /\ queue \subseteq Objects
      /\ toRelease \subseteq Objects
      /\ tickCounter \in Times
      /\ pushTime \in [Objects -> Times]
      /\ aqueueRefCount \in [Objects -> Int]
  BY DEF TypeOK
<1>2. /\ queue' = queue \union pushed
      /\ aqueueRefCount' = [o \in Objects |->
                              IF o \in destroyed THEN 0
                              ELSE IF o \in pushed THEN aqueueRefCount[o] + 1
                              ELSE aqueueRefCount[o]]
      /\ pushTime' = [o \in Objects |->
                        IF o \in destroyed THEN 0
                        ELSE IF o \in public THEN tickCounter
                        ELSE IF o \in prolonged \/ (o \in cut /\ IsInAqueue(o))
                        THEN ExpiredTime(tickCounter)
                        ELSE pushTime[o]]
  BY DEF Requeue
<1>3. /\ queue \intersect toRelease = {}
      /\ queue \union toRelease \subseteq live
      /\ \A o \in Objects :
           aqueueRefCount[o] = IF o \in queue \union toRelease THEN 1 ELSE 0
  BY DEF QueueOwnsOnce
<1>4. \A o \in pushed : o \in live /\ o \notin queue \union toRelease
                        /\ o \notin destroyed /\ aqueueRefCount[o] = 0
  BY <1>1, <1>3 DEF IsInAqueue
<1>5. QueueOwnsOnce'
  <2>1. queue' \intersect toRelease' = {}
    BY <1>2, <1>3, <1>4
  <2>2. queue' \union toRelease' \subseteq live'
    BY <1>2, <1>3, <1>4
  <2>3. ASSUME NEW o \in Objects
        PROVE  aqueueRefCount'[o] = IF o \in queue' \union toRelease' THEN 1 ELSE 0
    <3> HIDE DEF pushed
    <3>1. CASE o \in destroyed
      BY <3>1, <1>2, <1>3, <1>4
    <3>2. CASE o \in pushed
      BY <3>2, <1>2, <1>3, <1>4
    <3>3. CASE o \notin destroyed /\ o \notin pushed
      BY <3>3, <1>2, <1>3
    <3>4. QED
      BY <3>1, <3>2, <3>3
  <2>4. QED
    BY <2>1, <2>2, <2>3 DEF QueueOwnsOnce
<1>6. ExpiredTime(tickCounter) \in Times /\ 0 \in Times
  BY <1>1, ExpiredTimeType, ClockAssumption DEF Times
<1>7. pushTime' \in [Objects -> Times]
  BY <1>1, <1>2, <1>6
<1>8. QueueAgeBounded'
  <2>1. TimeSubtract(tickCounter, tickCounter) = 0
    BY <1>1 DEF Times, TimeSubtract
  <2>2. TimeSubtract(tickCounter, ExpiredTime(tickCounter)) = ObjLifeInTicks
    BY <1>1, ExpiryOfPushed
  <2>3. ASSUME NEW o \in queue'
        PROVE  TimeSubtract(tickCounter, pushTime'[o]) =< ObjLifeInTicks
    <3>1. o \in Objects /\ o \notin destroyed
      BY <1>1, <1>2, <1>3, <1>4
    <3>2. \/ pushTime'[o] = tickCounter
          \/ pushTime'[o] = ExpiredTime(tickCounter)
          \/ pushTime'[o] = pushTime[o] /\ o \notin prolonged
      BY <3>1, <1>2
    <3>3. CASE pushTime'[o] = pushTime[o] /\ o \notin prolonged
      <4>1. o \in queue
        BY <3>3, <1>2
      <4>2. QED
        BY <3>3, <4>1 DEF QueueAgeBounded
    <3>4. QED
      BY <3>2, <3>3, <2>1, <2>2, ClockAssumption
  <2>4. QED
    BY <2>3 DEF QueueAgeBounded
<1>9. aqueueRefCount' \in [Objects -> Int]
  <2> HIDE DEF pushed
  <2>1. QED
    BY <1>1, <1>2
<1>10. QED
  BY <1>1, <1>2, <1>4, <1>5, <1>7, <1>8, <1>9

\* What a container's items release is live, and nothing it destroys is queued.
LEMMA ReleaseItemsKeeps ==
  ASSUME TypeOK, QueueOwnsOnce, QueueAgeBounded, NoDangling,
         NEW c \in live, NEW slots \in SUBSET Slots, NEW v,
         NEW destroyed \in SUBSET toRelease,
         ReleaseItems(c, slots, v, destroyed),
         toRelease' = toRelease \ destroyed,
         live' = live \ destroyed,
         tickCounter' = tickCounter
  PROVE  /\ QueueOwnsOnce'
         /\ QueueAgeBounded'
         /\ pushTime' \in [Objects -> Times]
         /\ aqueueRefCount' \in [Objects -> Int]
         /\ queue' \subseteq Objects
         /\ toRelease' \subseteq Objects
         /\ refCount' \in [Objects -> Nat]
<1> DEFINE made(o)  == IF o = v THEN 1 ELSE 0
           left     == [o \in Objects |->
                          IF o \in destroyed THEN 0
                          ELSE SaturatingMinus(refCount[o] + made(o),
                                               ItemsTo(o, c, slots))]
           noOwners == { o \in Objects \ destroyed :
                           /\ ItemsTo(o, c, slots) > 0
                           /\ left[o] = 0
                           /\ tesRefCount[o] = 0
                           /\ stackRefCount[o] = 0
                           /\ aqueueRefCount[o] = 0 }
           public   == { o \in noOwners : IsPublic(o) }
<1>1. refCount' = left /\ Requeue(noOwners, public, {}, destroyed)
  BY DEF ReleaseItems
<1>2. noOwners \subseteq live
  <2>1. ASSUME NEW o \in noOwners
        PROVE  o \in live
    <3>1. PICK s \in slots : item[c][s] = o
      BY ItemsToProperties
    <3>2. o \in Objects
      OBVIOUS
    <3>3. o \in Pointers
      BY <3>1, <3>2, LifetimeAssumption DEF Pointers
    <3>4. QED
      BY <3>3 DEF NoDangling
  <2>2. QED
    BY <2>1
<1>3. noOwners \intersect destroyed = {}
  OBVIOUS
<1>4. left \in [Objects -> Nat]
  <2>1. ASSUME NEW o \in Objects
        PROVE  (IF o \in destroyed THEN 0
                ELSE SaturatingMinus(refCount[o] + made(o), ItemsTo(o, c, slots))) \in Nat
    <3>1. refCount[o] + made(o) \in Nat
      BY DEF TypeOK
    <3>2. ItemsTo(o, c, slots) \in Nat
      BY ItemsToProperties
    <3>3. SaturatingMinus(refCount[o] + made(o), ItemsTo(o, c, slots)) \in Nat
      BY <3>1, <3>2, SaturatingMinusType
    <3>4. QED
      BY <3>3
  <2>2. QED
    BY <2>1
<1>5. /\ noOwners \in SUBSET live
      /\ public \in SUBSET noOwners
  BY <1>2
<1> HIDE DEF left, noOwners, public
<1>6. /\ QueueOwnsOnce'
      /\ QueueAgeBounded'
      /\ pushTime' \in [Objects -> Times]
      /\ aqueueRefCount' \in [Objects -> Int]
      /\ queue' \subseteq Objects
      /\ toRelease' \subseteq Objects
  BY <1>1, <1>3, <1>5, RequeueKeeps
<1>7. QED
  BY <1>1, <1>4, <1>6

\* The argument of a function about to run, and any other pointer of a call, is
\* live.
LEMMA CallPointersLive ==
  ASSUME TypeOK, CallsAndExpiry, NoDangling, NEW t \in Threads
  PROVE  /\ call[t].pc = "body" => call[t].obj \in live
         /\ call[t].obj # None => call[t].obj \in live
         /\ call[t].val # None => call[t].val \in live
         /\ call[t].ret # None => call[t].ret \in live
         /\ call[t].chk # None => call[t].chk \in live
<1>1. {call[t].obj, call[t].val, call[t].ret, call[t].chk} \ {None} \subseteq Pointers
  BY DEF Pointers
<1>2. QED
  BY <1>1 DEF NoDangling, CallsAndExpiry

\* A thread that leaves its function is not about to run one.
LEMMA LeavingType ==
  ASSUME NEW obj \in OrNone(Objects), NEW val \in OrNone(Objects),
         NEW chk \in OrNone(Objects)
  PROVE  /\ Leaving(obj, val, chk) \in
              [pc : Pcs, fn : OrNone(Functions), obj : OrNone(Objects),
               val : OrNone(Objects), ret : OrNone(Objects), chk : OrNone(Objects)]
         /\ Leaving(obj, val, chk).pc # "body"
BY DEF Leaving, Idle, Frame, OrNone, Pcs

Calls ==
  [pc : Pcs, fn : OrNone(Functions), obj : OrNone(Objects), val : OrNone(Objects),
   ret : OrNone(Objects), chk : OrNone(Objects)]

CallOK ==
  /\ call \in [Threads -> Calls]
  /\ \A t \in Threads : call[t].pc = "body" => call[t].obj # None

LEMMA CallKeeps ==
  ASSUME CallOK, NEW t \in Threads,
         NEW r \in Calls, r.pc = "body" => r.obj # None,
         call' = [call EXCEPT ![t] = r]
  PROVE  CallOK'
BY DEF CallOK

\* The functions that end in Finish keep the calls well-formed.
LEMMA FinishKeeps ==
  ASSUME CallOK, NEW t \in Threads, Finish(t)
  PROVE  CallOK'
<1> DEFINE r == Leaving(call[t].obj, call[t].val, None)
<1>1. call[t] \in Calls
  BY DEF CallOK
<1>2. /\ call[t].obj \in OrNone(Objects)
      /\ call[t].val \in OrNone(Objects)
      /\ None \in OrNone(Objects)
  BY <1>1 DEF Calls, OrNone
<1>3. r \in Calls /\ r.pc # "body"
  BY <1>2, LeavingType DEF Calls
<1>4. call' = [call EXCEPT ![t] = r]
  BY DEF Finish
<1> HIDE DEF r
<1>5. QED
  BY <1>3, <1>4, CallKeeps

LEMMA ReturnKeeps ==
  ASSUME CallOK, NEW t \in Threads, NEW fn \in OrNone(Functions),
         NEW o \in OrNone(Objects), Return(t, fn, o)
  PROVE  CallOK'
<1> DEFINE r == Frame("return", fn, call[t].obj, call[t].val, o, None)
<1>1. call[t] \in Calls
  BY DEF CallOK
<1>2. r \in Calls /\ r.pc # "body"
  BY <1>1 DEF Calls, OrNone, Frame, Pcs
<1>3. call' = [call EXCEPT ![t] = r]
  BY DEF Return
<1> HIDE DEF r
<1>4. QED
  BY <1>2, <1>3, CallKeeps

-----------------------------------------------------------------------------
(* The steps of a call.  Each of these lemmas has the invariant, the guard of *)
(* Next and one action as assumptions.                                        *)

LEMMA InvParts ==
  Inv <=> /\ TypeOK
          /\ CallOK
          /\ expiring.obj # None => expiring.obj \in toRelease /\ "expiry" \in Split
          /\ HandlesNameTheirObjects
          /\ QueueOwnsOnce
          /\ QueueAgeBounded
BY DEF Inv, CallsAndExpiry, CallOK, Calls, TypeOK

LEMMA BeginKeeps ==
  ASSUME Inv, NoDangling, NEW t \in Threads, NEW fn \in Functions,
         NEW o \in Resolvable, NEW v \in OrNone(Resolvable), Begin(t, fn, o, v)
  PROVE  Inv'
<1>1. CallOK /\ TypeOK
  BY InvParts
<1>2. o \in Objects /\ v \in OrNone(Objects)
  BY <1>1 DEF Resolvable, TypeOK, OrNone
<1>3. CallOK'
  <2>1. /\ Frame("body", fn, o, v, None, None) \in Calls
        /\ Frame("body", fn, o, v, None, None).obj # None
    BY <1>2, LifetimeAssumption DEF Frame, Calls, Pcs, OrNone
  <2>2. call' = [call EXCEPT ![t] = Frame("body", fn, o, v, None, None)]
    BY DEF Begin
  <2>3. QED
    BY <1>1, <2>1, <2>2, CallKeeps
<1>4. UNCHANGED <<registry, refCount, tesRefCount, aqueueRefCount, item, aqueue>>
  BY DEF Begin
<1>5. stackRefCount' \in [Objects -> Nat]
  <2>1. stackRefCount' = [x \in Objects |->
                            stackRefCount[x] + (IF x = o THEN 1 ELSE 0)
                                             + (IF x = v THEN 1 ELSE 0)]
    BY DEF Begin
  <2>2. QED
    BY <1>1, <2>1 DEF TypeOK
<1>6. TypeOK'
  BY <1>1, <1>3, <1>4, <1>5
  DEF TypeOK, CallOK, Calls, registry, aqueue
<1>7. CallsAndExpiry'
  BY <1>3, <1>4 DEF Inv, CallsAndExpiry, CallOK, aqueue
<1>8. HandlesNameTheirObjects' /\ QueueOwnsOnce' /\ QueueAgeBounded'
  BY <1>4 DEF Inv, HandlesNameTheirObjects, QueueOwnsOnce, QueueAgeBounded, registry, aqueue
<1>9. QED
  BY <1>6, <1>7, <1>8 DEF Inv

\* A new object is in no handle and in no queue.
LEMMA NewKeeps ==
  ASSUME Inv, NEW fresh \in SUBSET Objects,
         live' = live \union fresh,
         CallOK',
         refCount' \in [Objects -> Nat],
         item' \in [Objects -> [Slots -> OrNone(Objects)]],
         UNCHANGED <<handleMap, id, tesRefCount, stackRefCount, aqueueRefCount, aqueue>>
  PROVE  Inv'
<1>1. TypeOK'
  BY DEF Inv, TypeOK, CallOK, Calls, aqueue
<1>2. HandlesNameTheirObjects'
  BY DEF Inv, HandlesNameTheirObjects
<1>3. QueueOwnsOnce' /\ QueueAgeBounded'
  BY DEF Inv, QueueOwnsOnce, QueueAgeBounded, aqueue
<1>4. expiring'.obj # None => expiring'.obj \in toRelease' /\ "expiry" \in Split
  BY DEF Inv, CallsAndExpiry, aqueue
<1>5. QED
  BY <1>1, <1>2, <1>3, <1>4 DEF Inv, CallsAndExpiry, CallOK

LEMMA NewObjectKeeps ==
  ASSUME Inv, NEW t \in Threads, NEW o \in Objects, NewObject(t, o)
  PROVE  Inv'
<1>1. CallOK'
  BY InvParts, ReturnKeeps DEF NewObject, OrNone
<1>2. UNCHANGED <<handleMap, id, counters, item, aqueue>>
  BY DEF NewObject
<1>3. live' = live \union {o} /\ {o} \in SUBSET Objects
  BY DEF NewObject
<1>4. refCount' \in [Objects -> Nat] /\ item' \in [Objects -> [Slots -> OrNone(Objects)]]
  BY <1>2 DEF Inv, TypeOK, counters
<1>5. QED
  BY <1>1, <1>2, <1>3, <1>4, NewKeeps DEF counters

LEMMA NewNestedKeeps ==
  ASSUME Inv, NEW t \in Threads, NEW o \in Objects, NEW child \in Objects,
         NEW s \in Slots, NewNested(t, o, child, s)
  PROVE  Inv'
<1>1. CallOK'
  BY InvParts, ReturnKeeps DEF NewNested, OrNone
<1>2. UNCHANGED <<handleMap, id, tesRefCount, stackRefCount, aqueueRefCount, aqueue>>
  BY DEF NewNested
<1>3. live' = live \union {o, child} /\ {o, child} \in SUBSET Objects
  BY DEF NewNested
<1>4. refCount' \in [Objects -> Nat]
  BY DEF NewNested, Inv, TypeOK
<1>5. item' \in [Objects -> [Slots -> OrNone(Objects)]]
  <2>1. item' = [item EXCEPT ![o] = [item[o] EXCEPT ![s] = child]]
    BY DEF NewNested, Inv, TypeOK
  <2>2. item \in [Objects -> [Slots -> OrNone(Objects)]]
    BY DEF Inv, TypeOK
  <2>3. [item[o] EXCEPT ![s] = child] \in [Slots -> OrNone(Objects)]
    BY <2>2 DEF OrNone
  <2>4. QED
    BY <2>1, <2>2, <2>3
<1>6. QED
  BY <1>1, <1>2, <1>3, <1>4, <1>5, NewKeeps

\* A step of a call that moves objects into the queue and leaves the registry and
\* the timer alone.
LEMMA BodyKeeps ==
  ASSUME Inv, CallOK',
         UNCHANGED <<registry, toRelease, tickCounter, expiring>>,
         refCount' \in [Objects -> Nat],
         tesRefCount' \in [Objects -> Nat],
         stackRefCount' \in [Objects -> Nat],
         item' \in [Objects -> [Slots -> OrNone(Objects)]],
         QueueOwnsOnce', QueueAgeBounded',
         pushTime' \in [Objects -> Times],
         aqueueRefCount' \in [Objects -> Int],
         queue' \subseteq Objects
  PROVE  Inv'
<1>1. TypeOK'
  BY DEF Inv, TypeOK, CallOK, Calls, registry
<1>2. CallsAndExpiry'
  BY DEF Inv, CallsAndExpiry, CallOK
<1>3. HandlesNameTheirObjects'
  BY DEF Inv, HandlesNameTheirObjects, registry
<1>4. QED
  BY <1>1, <1>2, <1>3 DEF Inv

LEMMA GetObjKeeps ==
  ASSUME Inv, NoDangling, NEW t \in Threads, NEW s \in Slots, GetObj(t, s)
  PROVE  Inv'
<1>1. TypeOK /\ CallOK /\ CallsAndExpiry
  BY InvParts DEF Inv
<1>2. call[t].obj \in live /\ call[t].fn \in OrNone(Functions)
  BY <1>1, CallPointersLive DEF CallOK, Calls, GetObj, InBody
<1>3. item[call[t].obj][s] \in OrNone(Objects)
  BY <1>1, <1>2 DEF TypeOK
<1>4. Return(t, call[t].fn, item[call[t].obj][s])
  BY DEF GetObj, InBody
<1>5. CallOK'
  BY <1>1, <1>2, <1>3, <1>4, ReturnKeeps
<1>6. UNCHANGED <<registry, counters, item, aqueue>>
  BY DEF GetObj
<1>7. QED
  BY <1>5, <1>6, BodyKeeps
  DEF Inv, TypeOK, QueueOwnsOnce, QueueAgeBounded, registry, counters, aqueue

\* setObj and clear: some slots of the container are overwritten, and what they
\* referred to is released.
LEMMA OverwriteKeeps ==
  ASSUME Inv, NoDangling, NEW t \in Threads, call[t].pc = "body",
         NEW slots \in SUBSET Slots, NEW v,
         ReleaseItems(call[t].obj, slots, v, {}),
         item' \in [Objects -> [Slots -> OrNone(Objects)]],
         Finish(t),
         UNCHANGED <<registry, tesRefCount, stackRefCount, toRelease, tickCounter,
                     expiring>>
  PROVE  Inv'
<1>1. TypeOK /\ CallOK /\ CallsAndExpiry /\ QueueOwnsOnce /\ QueueAgeBounded
  BY InvParts DEF Inv
<1>2. call[t].obj \in live
  BY <1>1, CallPointersLive
<1>3. /\ {} \in SUBSET toRelease
      /\ toRelease' = toRelease \ {}
      /\ live' = live \ {}
      /\ tickCounter' = tickCounter
  BY DEF registry
<1>4. /\ QueueOwnsOnce'
      /\ QueueAgeBounded'
      /\ pushTime' \in [Objects -> Times]
      /\ aqueueRefCount' \in [Objects -> Int]
      /\ queue' \subseteq Objects
      /\ refCount' \in [Objects -> Nat]
  BY <1>1, <1>2, <1>3, ReleaseItemsKeeps
<1>5. CallOK'
  BY <1>1, FinishKeeps
<1>6. tesRefCount' \in [Objects -> Nat] /\ stackRefCount' \in [Objects -> Nat]
  BY <1>1 DEF TypeOK
<1>7. QED
  BY <1>4, <1>5, <1>6, BodyKeeps

LEMMA SetObjKeeps ==
  ASSUME Inv, NoDangling, NEW t \in Threads, NEW s \in Slots, SetObj(t, s)
  PROVE  Inv'
<1> DEFINE c == call[t].obj
           v == call[t].val
<1>1. TypeOK /\ CallOK /\ CallsAndExpiry
  BY InvParts DEF Inv
<1>2. call[t].pc = "body"
  BY DEF SetObj, InBody
<1>3. c \in Objects /\ v \in OrNone(Objects)
  <2>1. c \in live
    BY <1>1, <1>2, CallPointersLive
  <2>2. call[t] \in Calls
    BY <1>1 DEF CallOK
  <2>3. QED
    BY <1>1, <2>1, <2>2 DEF TypeOK, Calls
<1>4. item' \in [Objects -> [Slots -> OrNone(Objects)]]
  <2>1. item \in [Objects -> [Slots -> OrNone(Objects)]]
    BY <1>1 DEF TypeOK
  <2>2. item' = [item EXCEPT ![c] = [item[c] EXCEPT ![s] = v]]
    BY <1>3, <2>1 DEF SetObj
  <2> HIDE DEF c, v
  <2>3. [item[c] EXCEPT ![s] = v] \in [Slots -> OrNone(Objects)]
    BY <1>3, <2>1
  <2>4. QED
    BY <1>3, <2>1, <2>2, <2>3
<1>5. /\ ReleaseItems(c, {s}, v, {})
      /\ Finish(t)
      /\ UNCHANGED <<registry, tesRefCount, stackRefCount, toRelease, tickCounter,
                     expiring>>
  BY DEF SetObj
<1>6. {s} \in SUBSET Slots
  OBVIOUS
<1>7. QED
  BY <1>2, <1>4, <1>5, <1>6, OverwriteKeeps

LEMMA ClearKeeps ==
  ASSUME Inv, NoDangling, NEW t \in Threads, Clear(t)
  PROVE  Inv'
<1>1. call[t].pc = "body"
  BY DEF Clear, InBody
<1>2. item' \in [Objects -> [Slots -> OrNone(Objects)]]
  BY DEF Inv, TypeOK, Clear, NoItems, OrNone
<1>3. /\ ReleaseItems(call[t].obj, Slots, None, {})
      /\ Finish(t)
      /\ UNCHANGED <<registry, tesRefCount, stackRefCount, toRelease, tickCounter,
                     expiring>>
  BY DEF Clear
<1>4. QED
  BY <1>1, <1>2, <1>3, OverwriteKeeps

\* retain, release and releaseAndRetain.
LEMMA TesKeeps ==
  ASSUME Inv, NoDangling, NEW t \in Threads,
         NEW prev \in OrNone(live), NEW next \in OrNone(live),
         TesReleaseAndRetain(prev, next), Finish(t), TesFrame
  PROVE  Inv'
<1> DEFINE left     == [o \in Objects |->
                          IF o = prev THEN SaturatingMinus(tesRefCount[o], 1)
                          ELSE IF o = next THEN tesRefCount[o] + 1
                          ELSE tesRefCount[o]]
           noOwners == { o \in {prev} \ {None} :
                           /\ tesRefCount[o] > 0
                           /\ left[o] = 0
                           /\ refCount[o] = 0
                           /\ stackRefCount[o] = 0
                           /\ aqueueRefCount[o] = 0 }
<1>1. TypeOK /\ CallOK /\ QueueOwnsOnce /\ QueueAgeBounded
  BY InvParts
<1>2. tesRefCount' = left /\ Requeue(noOwners, noOwners, {next}, {})
  BY DEF TesReleaseAndRetain
<1>3. tesRefCount' \in [Objects -> Nat]
  <2>1. ASSUME NEW o \in Objects
        PROVE  /\ SaturatingMinus(tesRefCount[o], 1) \in Nat
               /\ tesRefCount[o] + 1 \in Nat
               /\ tesRefCount[o] \in Nat
    <3>1. tesRefCount[o] \in Nat
      BY <1>1 DEF TypeOK
    <3>2. QED
      BY <3>1 DEF SaturatingMinus
  <2>2. QED
    BY <1>2, <2>1
<1>4. noOwners \in SUBSET live
  BY DEF OrNone
<1>5. /\ UNCHANGED <<registry, toRelease, tickCounter, expiring>>
      /\ UNCHANGED <<refCount, stackRefCount, item>>
  BY DEF TesFrame
<1>6. /\ {} \in SUBSET toRelease
      /\ noOwners \intersect {} = {}
      /\ toRelease' = toRelease \ {}
      /\ live' = live \ {}
      /\ tickCounter' = tickCounter
  BY <1>5 DEF registry
<1> HIDE DEF left, noOwners
<1>7. /\ QueueOwnsOnce'
      /\ QueueAgeBounded'
      /\ pushTime' \in [Objects -> Times]
      /\ aqueueRefCount' \in [Objects -> Int]
      /\ queue' \subseteq Objects
  <2>1. noOwners \in SUBSET noOwners
    OBVIOUS
  <2>2. QED
    BY <1>1, <1>2, <1>4, <1>6, <2>1, RequeueKeeps
<1>8. CallOK'
  BY <1>1, FinishKeeps
<1>9. /\ refCount' \in [Objects -> Nat]
      /\ stackRefCount' \in [Objects -> Nat]
      /\ item' \in [Objects -> [Slots -> OrNone(Objects)]]
  BY <1>1, <1>5 DEF TypeOK
<1>10. QED
  BY <1>3, <1>5, <1>7, <1>8, <1>9, BodyKeeps

LEMMA RetainReleaseKeep ==
  ASSUME Inv, NoDangling, NEW t \in Threads,
         Retain(t) \/ Release(t) \/ ReleaseAndRetain(t)
  PROVE  Inv'
<1>1. TypeOK /\ CallOK /\ CallsAndExpiry
  BY InvParts DEF Inv
<1>2. /\ call[t].obj \in OrNone(live)
      /\ call[t].val \in OrNone(live)
      /\ None \in OrNone(live)
  BY <1>1, CallPointersLive DEF OrNone
<1>3. CASE Retain(t)
  BY <1>2, <1>3, TesKeeps DEF Retain
<1>4. CASE Release(t)
  BY <1>2, <1>4, TesKeeps DEF Release
<1>5. CASE ReleaseAndRetain(t)
  <2>1. Finish(t) /\ TesFrame
    BY <1>5 DEF ReleaseAndRetain
  <2>2. CASE call[t].obj = call[t].val
    BY <1>2, <1>5, <2>1, <2>2, TesKeeps DEF ReleaseAndRetain
  <2>3. CASE call[t].obj # call[t].val
    BY <1>2, <1>5, <2>1, <2>3, TesKeeps DEF ReleaseAndRetain
  <2>4. QED
    BY <2>2, <2>3
<1>6. QED
  BY <1>3, <1>4, <1>5

LEMMA ZeroLifetimeKeeps ==
  ASSUME Inv, NoDangling, NEW t \in Threads, ZeroLifetime(t)
  PROVE  Inv'
<1>1. TypeOK /\ CallOK /\ QueueOwnsOnce /\ QueueAgeBounded
  BY InvParts
<1>2. /\ Requeue({}, {}, {call[t].obj}, {})
      /\ Finish(t)
      /\ UNCHANGED <<registry, refCount, tesRefCount, stackRefCount, item, toRelease,
                     tickCounter, expiring>>
  BY DEF ZeroLifetime, TesFrame
<1>3. /\ {} \in SUBSET live
      /\ {} \in SUBSET {}
      /\ {} \in SUBSET toRelease
      /\ {} \intersect {} = {}
      /\ toRelease' = toRelease \ {}
      /\ live' = live \ {}
      /\ tickCounter' = tickCounter
  BY <1>2 DEF registry
<1>4. /\ QueueOwnsOnce'
      /\ QueueAgeBounded'
      /\ pushTime' \in [Objects -> Times]
      /\ aqueueRefCount' \in [Objects -> Int]
      /\ queue' \subseteq Objects
  BY <1>1, <1>2, <1>3, RequeueKeeps
<1>5. CallOK'
  BY <1>1, <1>2, FinishKeeps
<1>6. /\ refCount' \in [Objects -> Nat]
      /\ tesRefCount' \in [Objects -> Nat]
      /\ stackRefCount' \in [Objects -> Nat]
      /\ item' \in [Objects -> [Slots -> OrNone(Objects)]]
  BY <1>1, <1>2 DEF TypeOK
<1>7. QED
  BY <1>2, <1>4, <1>5, <1>6, BodyKeeps

\* The first publication of an object: the handle it takes is free and the object
\* has none, so the two still name each other.
LEMMA UidKeeps ==
  ASSUME Inv, NoDangling, NEW t \in Threads, Uid(t)
  PROVE  Inv'
<1> DEFINE published == { o \in {call[t].ret} \ {None} : ~IsPublic(o) }
           unowned   == { o \in published : refCount[o] = 0 }
<1>1. /\ TypeOK /\ CallOK /\ CallsAndExpiry
      /\ HandlesNameTheirObjects /\ QueueOwnsOnce /\ QueueAgeBounded
  BY InvParts DEF Inv
<1>2. /\ \/ published = {} /\ UNCHANGED <<handleMap, id>>
         \/ \E o \in published, h \in Handles :
              /\ handleMap[h] = None
              /\ handleMap' = [handleMap EXCEPT ![h] = o]
              /\ id' = [id EXCEPT ![o] = h]
      /\ Requeue(unowned, unowned, {}, {})
      /\ Finish(t)
      /\ UNCHANGED <<live, refCount, tesRefCount, stackRefCount, item, toRelease,
                     tickCounter, expiring>>
  BY DEF Uid
<1>3. published \subseteq live
  BY <1>1, CallPointersLive
<1>4. \A o \in published : id[o] = None
  BY DEF IsPublic
<1>5. /\ handleMap' \in [Handles -> OrNone(Objects)]
      /\ id' \in [Objects -> OrNone(Handles)]
      /\ HandlesNameTheirObjects'
  <2> HIDE DEF published, unowned
  <2>1. CASE published = {} /\ UNCHANGED <<handleMap, id>>
    BY <2>1, <1>1, <1>2 DEF TypeOK, HandlesNameTheirObjects
  <2>2. CASE \E o \in published, h \in Handles :
               /\ handleMap[h] = None
               /\ handleMap' = [handleMap EXCEPT ![h] = o]
               /\ id' = [id EXCEPT ![o] = h]
    <3>1. PICK o \in published, h \in Handles :
                 /\ handleMap[h] = None
                 /\ handleMap' = [handleMap EXCEPT ![h] = o]
                 /\ id' = [id EXCEPT ![o] = h]
      BY <2>2
    <3>2. o \in live /\ o \in Objects /\ id[o] = None /\ live' = live
      BY <1>1, <1>2, <1>3, <1>4 DEF TypeOK
    <3>3. /\ handleMap \in [Handles -> OrNone(Objects)]
          /\ id \in [Objects -> OrNone(Handles)]
      BY <1>1 DEF TypeOK
    <3>4. /\ handleMap' \in [Handles -> OrNone(Objects)]
          /\ id' \in [Objects -> OrNone(Handles)]
      BY <3>1, <3>2, <3>3 DEF OrNone
    <3>5. ASSUME NEW g \in Handles, handleMap'[g] # None
          PROVE  handleMap'[g] \in live' /\ id'[handleMap'[g]] = g
      <4>1. CASE g = h
        BY <4>1, <3>1, <3>2, <3>3
      <4>2. CASE g # h
        <5>1. handleMap'[g] = handleMap[g]
          BY <4>2, <3>1, <3>3
        <5>2. handleMap[g] \in live /\ id[handleMap[g]] = g
          BY <5>1, <3>5, <1>1 DEF HandlesNameTheirObjects
        <5>3. handleMap[g] # o
          BY <5>2, <3>2, LifetimeAssumption
        <5>4. handleMap[g] \in Objects
          BY <5>2, <1>1 DEF TypeOK
        <5>5. QED
          BY <5>1, <5>2, <5>3, <5>4, <3>1, <3>2, <3>3
      <4>3. QED
        BY <4>1, <4>2
    <3>6. ASSUME NEW p \in Objects, id'[p] # None
          PROVE  p \in live' /\ handleMap'[id'[p]] = p
      <4>1. CASE p = o
        BY <4>1, <3>1, <3>2, <3>3
      <4>2. CASE p # o
        <5>1. id'[p] = id[p]
          BY <4>2, <3>1, <3>3
        <5>2. p \in live /\ handleMap[id[p]] = p
          BY <5>1, <3>6, <1>1 DEF HandlesNameTheirObjects
        <5>3. id[p] \in Handles
          BY <5>1, <3>6, <3>3 DEF OrNone
        <5>4. id[p] # h
          BY <5>2, <3>1, LifetimeAssumption
        <5>5. QED
          BY <5>1, <5>2, <5>3, <5>4, <3>1, <3>2, <3>3
      <4>3. QED
        BY <4>1, <4>2
    <3>7. QED
      BY <3>4, <3>5, <3>6 DEF HandlesNameTheirObjects
  <2>3. QED
    BY <2>1, <2>2, <1>2
<1>6. /\ unowned \in SUBSET live
      /\ unowned \in SUBSET unowned
      /\ {} \in SUBSET toRelease
      /\ unowned \intersect {} = {}
      /\ toRelease' = toRelease \ {}
      /\ live' = live \ {}
      /\ tickCounter' = tickCounter
  BY <1>2, <1>3
<1> HIDE DEF published, unowned
<1>7. /\ QueueOwnsOnce'
      /\ QueueAgeBounded'
      /\ pushTime' \in [Objects -> Times]
      /\ aqueueRefCount' \in [Objects -> Int]
      /\ queue' \subseteq Objects
  BY <1>1, <1>2, <1>6, RequeueKeeps
<1>8. CallOK'
  BY <1>1, <1>2, FinishKeeps
<1>9. TypeOK'
  BY <1>1, <1>2, <1>5, <1>7, <1>8 DEF TypeOK, CallOK, Calls
<1>10. CallsAndExpiry'
  BY <1>1, <1>2, <1>8 DEF CallsAndExpiry, CallOK
<1>11. QED
  BY <1>5, <1>7, <1>9, <1>10 DEF Inv

\* The objects stack_release pushes, whether its test is a step of its own or not.
LEMMA ProlongKeeps ==
  ASSUME Inv, NEW S \in SUBSET live, Prolong(S), CallOK',
         UNCHANGED <<registry, refCount, tesRefCount, item, toRelease, tickCounter,
                     expiring>>,
         stackRefCount' \in [Objects -> Nat]
  PROVE  Inv'
<1> DEFINE public == { o \in S : IsPublic(o) }
<1>1. TypeOK /\ QueueOwnsOnce /\ QueueAgeBounded
  BY DEF Inv
<1>2. Requeue(S, public, {}, {})
  BY DEF Prolong
<1>3. /\ public \in SUBSET S
      /\ {} \in SUBSET toRelease
      /\ S \intersect {} = {}
      /\ toRelease' = toRelease \ {}
      /\ live' = live \ {}
      /\ tickCounter' = tickCounter
  BY DEF registry
<1> HIDE DEF public
<1>4. /\ QueueOwnsOnce'
      /\ QueueAgeBounded'
      /\ pushTime' \in [Objects -> Times]
      /\ aqueueRefCount' \in [Objects -> Int]
      /\ queue' \subseteq Objects
  BY <1>1, <1>2, <1>3, RequeueKeeps
<1>5. /\ refCount' \in [Objects -> Nat]
      /\ tesRefCount' \in [Objects -> Nat]
      /\ item' \in [Objects -> [Slots -> OrNone(Objects)]]
  BY <1>1 DEF TypeOK
<1>6. QED
  BY <1>4, <1>5, BodyKeeps

LEMMA DropArgumentKeeps ==
  ASSUME Inv, NoDangling, NEW t \in Threads,
         NEW o \in {call[t].obj, call[t].val},
         NEW obj \in {call[t].obj, None}, NEW val \in {call[t].val, None},
         DropArgument(t, o, obj, val)
  PROVE  Inv'
<1>1. TypeOK /\ CallOK /\ CallsAndExpiry
  BY InvParts DEF Inv
<1>2. o \in live /\ o \in Objects
  BY <1>1, CallPointersLive DEF DropArgument, TypeOK
<1>3. obj \in OrNone(Objects) /\ val \in OrNone(Objects) /\ None \in OrNone(Objects)
  BY <1>1 DEF CallOK, Calls, OrNone
<1>4. ASSUME NEW chk \in OrNone(Objects),
             call' = [call EXCEPT ![t] = Leaving(obj, val, chk)]
      PROVE  CallOK'
  <2> DEFINE r == Leaving(obj, val, chk)
  <2>1. r \in Calls /\ r.pc # "body"
    BY <1>3, LeavingType DEF Calls
  <2>2. call' = [call EXCEPT ![t] = r]
    BY <1>4
  <2> HIDE DEF r
  <2>3. QED
    BY <1>1, <2>1, <2>2, CallKeeps
<1>5. stackRefCount' \in [Objects -> Nat]
  <2>1. stackRefCount \in [Objects -> Nat]
    BY <1>1 DEF TypeOK
  <2>2. stackRefCount' = [stackRefCount EXCEPT ![o] = SaturatingMinus(stackRefCount[o], 1)]
    BY DEF DropArgument, StackDecrement
  <2>3. SaturatingMinus(stackRefCount[o], 1) \in Nat
    BY <1>2, <2>1 DEF SaturatingMinus
  <2>4. QED
    BY <2>1, <2>2, <2>3
<1>6. UNCHANGED <<registry, refCount, tesRefCount, item, toRelease, tickCounter,
                  expiring>>
  BY DEF DropArgument
<1>7. CASE /\ call' = [call EXCEPT ![t] = Leaving(obj, val, o)]
           /\ UNCHANGED <<aqueueRefCount, pushTime, queue>>
  <2>1. CallOK'
    BY <1>2, <1>4, <1>7 DEF OrNone
  <2>2. QED
    BY <1>5, <1>6, <1>7, <2>1, BodyKeeps
    DEF Inv, TypeOK, QueueOwnsOnce, QueueAgeBounded, registry
<1>8. CASE /\ call' = [call EXCEPT ![t] = Leaving(obj, val, None)]
           /\ Prolong({ x \in {o} : NoOwnersBut(x, stackRefCount[x] - 1) })
  <2>1. CallOK'
    BY <1>3, <1>4, <1>8
  <2>2. { x \in {o} : NoOwnersBut(x, stackRefCount[x] - 1) } \in SUBSET live
    BY <1>2
  <2>3. QED
    BY <1>5, <1>6, <1>8, <2>1, <2>2, ProlongKeeps
<1>9. QED
  BY <1>7, <1>8 DEF DropArgument

LEMMA CheckDroppedKeeps ==
  ASSUME Inv, NoDangling, NEW t \in Threads, CheckDropped(t)
  PROVE  Inv'
<1> DEFINE S == { x \in {call[t].chk} : NoOwnersBut(x, stackRefCount[x]) }
           r == Leaving(call[t].obj, call[t].val, None)
<1>1. TypeOK /\ CallOK /\ CallsAndExpiry
  BY InvParts DEF Inv
<1>2. S \in SUBSET live
  BY <1>1, CallPointersLive DEF CheckDropped
<1>3. /\ Prolong(S)
      /\ call' = [call EXCEPT ![t] = r]
      /\ UNCHANGED <<registry, refCount, tesRefCount, stackRefCount, item, toRelease,
                     tickCounter, expiring>>
  BY DEF CheckDropped
<1>4. r \in Calls /\ r.pc # "body"
  <2>1. /\ call[t].obj \in OrNone(Objects)
        /\ call[t].val \in OrNone(Objects)
        /\ None \in OrNone(Objects)
    BY <1>1 DEF CallOK, Calls, OrNone
  <2>2. QED
    BY <2>1, LeavingType DEF Calls
<1> HIDE DEF S, r
<1>5. CallOK'
  BY <1>1, <1>3, <1>4, CallKeeps
<1>6. stackRefCount' \in [Objects -> Nat]
  BY <1>1, <1>3 DEF TypeOK
<1>7. QED
  BY <1>2, <1>3, <1>5, <1>6, ProlongKeeps

-----------------------------------------------------------------------------
(* The timer *)

\* An entry that has not expired is young enough to grow one tick older.
LEMMA TickCollectKeeps ==
  ASSUME Inv, TickCollect
  PROVE  Inv'
<1> DEFINE expired == { o \in queue : IsExpired(tickCounter, pushTime[o]) }
<1>1. /\ TypeOK /\ CallsAndExpiry
      /\ HandlesNameTheirObjects /\ QueueOwnsOnce /\ QueueAgeBounded
  BY DEF Inv
<1>2. /\ toRelease = {}
      /\ queue' = queue \ expired
      /\ toRelease' = expired
      /\ tickCounter' = TimeAdd(tickCounter, 1)
      /\ UNCHANGED <<live, handleMap, id, counters, pushTime, expiring, item, call>>
  BY DEF TickCollect, registry
<1>3. /\ tickCounter \in Times
      /\ pushTime \in [Objects -> Times]
      /\ queue \subseteq Objects
  BY <1>1 DEF TypeOK
<1>4. TypeOK'
  <2>1. tickCounter' \in Times
    <3>1. 1 \in Times
      BY ClockAssumption DEF Times
    <3>2. QED
      BY <1>2, <1>3, <3>1, TimeAddType
  <2>2. queue' \subseteq Objects /\ toRelease' \subseteq Objects
    BY <1>2, <1>3
  <2> HIDE DEF expired
  <2>3. QED
    BY <1>1, <1>2, <2>1, <2>2 DEF TypeOK, counters
<1>5. CallsAndExpiry'
  <2>1. expiring.obj = None
    BY <1>1, <1>2 DEF CallsAndExpiry
  <2>2. QED
    BY <1>1, <1>2, <2>1 DEF CallsAndExpiry
<1>6. HandlesNameTheirObjects'
  BY <1>1, <1>2 DEF HandlesNameTheirObjects
<1>7. QueueOwnsOnce'
  BY <1>1, <1>2 DEF QueueOwnsOnce, counters
<1>8. QueueAgeBounded'
  <2>1. ASSUME NEW o \in queue'
        PROVE  TimeSubtract(tickCounter', pushTime'[o]) =< ObjLifeInTicks
    <3>1. /\ o \in queue
          /\ ~IsExpired(tickCounter, pushTime[o])
          /\ pushTime' = pushTime
          /\ pushTime[o] \in Times
      BY <1>2, <1>3
    <3>2. TimeSubtract(tickCounter, pushTime[o]) \in Times
      BY <1>3, <3>1, TimeSubtractType
    <3>3. TimeSubtract(tickCounter, pushTime[o]) + 1 < ObjLifeInTicks
      BY <3>1, <3>2, ClockAssumption DEF IsExpired, Times
    <3>4. TimeSubtract(TimeAdd(tickCounter, 1), pushTime[o])
            = TimeSubtract(tickCounter, pushTime[o]) + 1
      <4>1. TimeSubtract(tickCounter, pushTime[o]) < TimeMax - 1
        BY <3>2, <3>3, ClockAssumption DEF Times
      <4>2. QED
        BY <1>3, <3>1, <4>1, AgeAdvances
    <3>5. QED
      BY <1>2, <3>1, <3>2, <3>3, <3>4, ClockAssumption DEF Times
  <2>2. QED
    BY <2>1 DEF QueueAgeBounded
<1>9. QED
  BY <1>4, <1>5, <1>6, <1>7, <1>8 DEF Inv

\* Whatever the granularity, no entry is about to be released after the release.
LEMMA ExpiringDone ==
  ASSUME TypeOK,
         \/ expiring' = expiring /\ expiring.obj = None
         \/ expiring' = [obj |-> None, delete |-> FALSE]
  PROVE  expiring' \in [obj : OrNone(Objects), delete : BOOLEAN] /\ expiring'.obj = None
<1>1. CASE expiring' = expiring /\ expiring.obj = None
  BY <1>1 DEF TypeOK
<1>2. CASE expiring' = [obj |-> None, delete |-> FALSE]
  BY <1>2 DEF OrNone
<1>3. QED
  BY <1>1, <1>2

\* The deletion of an object takes its handle out of the registry with it.
LEMMA DeleteSelfKeeps ==
  ASSUME Inv, NoDangling, NEW o \in toRelease,
         DeleteSelf(o), toRelease' = toRelease \ {o},
         UNCHANGED <<tickCounter, call>>,
         \/ expiring' = expiring /\ expiring.obj = None
         \/ expiring' = [obj |-> None, delete |-> FALSE]
  PROVE  Inv'
<1>1. /\ TypeOK /\ CallsAndExpiry
      /\ HandlesNameTheirObjects /\ QueueOwnsOnce /\ QueueAgeBounded
  BY DEF Inv
<1>2. o \in live /\ o \in Objects
  BY <1>1 DEF QueueOwnsOnce, TypeOK
<1>3. /\ live' = live \ {o}
      /\ handleMap' = [h \in Handles |-> IF id[o] = h THEN None ELSE handleMap[h]]
      /\ id' = [id EXCEPT ![o] = None]
      /\ item' = [item EXCEPT ![o] = NoItems]
      /\ tesRefCount' = [tesRefCount EXCEPT ![o] = 0]
      /\ stackRefCount' = [stackRefCount EXCEPT ![o] = 0]
      /\ ReleaseItems(o, Slots, None, {o})
  BY DEF DeleteSelf
<1>4. /\ QueueOwnsOnce'
      /\ QueueAgeBounded'
      /\ pushTime' \in [Objects -> Times]
      /\ aqueueRefCount' \in [Objects -> Int]
      /\ queue' \subseteq Objects
      /\ toRelease' \subseteq Objects
      /\ refCount' \in [Objects -> Nat]
  <2>1. {o} \in SUBSET toRelease /\ Slots \in SUBSET Slots
    OBVIOUS
  <2>2. tickCounter' = tickCounter
    OBVIOUS
  <2>3. QED
    BY <1>1, <1>2, <1>3, <2>1, <2>2, ReleaseItemsKeeps
<1>5. HandlesNameTheirObjects'
  <2>1. /\ id \in [Objects -> OrNone(Handles)]
        /\ handleMap \in [Handles -> OrNone(Objects)]
        /\ live \subseteq Objects
    BY <1>1 DEF TypeOK
  <2>2. ASSUME NEW h \in Handles, handleMap'[h] # None
        PROVE  handleMap'[h] \in live' /\ id'[handleMap'[h]] = h
    <3>1. id[o] # h /\ handleMap'[h] = handleMap[h]
      BY <1>3, <2>2
    <3>2. handleMap[h] \in live /\ id[handleMap[h]] = h
      BY <1>1, <2>2, <3>1 DEF HandlesNameTheirObjects
    <3>3. handleMap[h] # o
      BY <3>1, <3>2
    <3>4. handleMap[h] \in Objects
      BY <2>1, <3>2
    <3>5. QED
      BY <1>2, <1>3, <2>1, <3>1, <3>2, <3>3, <3>4
  <2>3. ASSUME NEW p \in Objects, id'[p] # None
        PROVE  p \in live' /\ handleMap'[id'[p]] = p
    <3>1. p # o /\ id'[p] = id[p]
      BY <1>2, <1>3, <2>1, <2>3
    <3>2. p \in live /\ handleMap[id[p]] = p /\ id[p] \in Handles
      BY <1>1, <2>1, <2>3, <3>1 DEF HandlesNameTheirObjects, OrNone
    <3>3. id[o] # id[p]
      <4>1. CASE id[o] = None
        BY <4>1, <2>3, <3>1
      <4>2. CASE id[o] # None
        BY <4>2, <1>1, <1>2, <3>1, <3>2 DEF HandlesNameTheirObjects
      <4>3. QED
        BY <4>1, <4>2
    <3>4. QED
      BY <1>3, <3>1, <3>2, <3>3
  <2>4. QED
    BY <2>2, <2>3 DEF HandlesNameTheirObjects
<1>6. /\ live' \subseteq Objects
      /\ handleMap' \in [Handles -> OrNone(Objects)]
      /\ id' \in [Objects -> OrNone(Handles)]
      /\ item' \in [Objects -> [Slots -> OrNone(Objects)]]
      /\ tesRefCount' \in [Objects -> Nat]
      /\ stackRefCount' \in [Objects -> Nat]
  BY <1>1, <1>2, <1>3 DEF TypeOK, OrNone, NoItems
<1>7. expiring' \in [obj : OrNone(Objects), delete : BOOLEAN] /\ expiring'.obj = None
  BY <1>1, ExpiringDone
<1>8. TypeOK'
  BY <1>1, <1>4, <1>6, <1>7 DEF TypeOK
<1>9. CallsAndExpiry'
  BY <1>1, <1>7 DEF CallsAndExpiry
<1>10. QED
  BY <1>4, <1>5, <1>8, <1>9 DEF Inv

LEMMA AqueueReleaseKeeps ==
  ASSUME Inv, NoDangling, NEW o \in toRelease, NEW delete \in BOOLEAN,
         AqueueRelease(o, delete),
         \/ expiring' = expiring /\ expiring.obj = None
         \/ expiring' = [obj |-> None, delete |-> FALSE]
  PROVE  Inv'
<1>1. /\ TypeOK /\ CallsAndExpiry
      /\ HandlesNameTheirObjects /\ QueueOwnsOnce /\ QueueAgeBounded
  BY DEF Inv
<1>2. toRelease' = toRelease \ {o} /\ UNCHANGED <<tickCounter, call>>
  BY DEF AqueueRelease
<1>3. CASE DeleteSelf(o)
  BY <1>2, <1>3, DeleteSelfKeeps
<1>4. CASE /\ aqueueRefCount' = [aqueueRefCount EXCEPT ![o] = @ - 1]
           /\ UNCHANGED <<registry, item, refCount, tesRefCount, stackRefCount,
                          pushTime, queue>>
  <2>1. o \in Objects /\ o \notin queue
    BY <1>1 DEF TypeOK, QueueOwnsOnce
  <2>2. expiring' \in [obj : OrNone(Objects), delete : BOOLEAN] /\ expiring'.obj = None
    BY <1>1, ExpiringDone
  <2>3. TypeOK'
    BY <1>1, <1>2, <1>4, <2>2 DEF TypeOK, registry
  <2>4. CallsAndExpiry'
    BY <1>1, <1>2, <2>2 DEF CallsAndExpiry
  <2>5. HandlesNameTheirObjects'
    BY <1>1, <1>4 DEF HandlesNameTheirObjects, registry
  <2>6. QueueOwnsOnce'
    BY <1>1, <1>2, <1>4, <2>1 DEF QueueOwnsOnce, registry, TypeOK
  <2>7. QueueAgeBounded'
    BY <1>1, <1>2, <1>4 DEF QueueAgeBounded
  <2>8. QED
    BY <2>3, <2>4, <2>5, <2>6, <2>7 DEF Inv
<1>5. QED
  BY <1>3, <1>4 DEF AqueueRelease

LEMMA TickKeeps ==
  ASSUME Inv, NoDangling, Tick
  PROVE  Inv'
<1>1. CASE TickCollect
  BY <1>1, TickCollectKeeps
<1>2. ASSUME NEW o \in Objects, TickRelease(o)
      PROVE  Inv'
  <2>1. o \in toRelease /\ AqueueRelease(o, OnlyOwnerIsAqueue(o))
    BY <1>2 DEF TickRelease
  <2>2. OnlyOwnerIsAqueue(o) \in BOOLEAN
    BY DEF OnlyOwnerIsAqueue
  <2>3. expiring' = expiring /\ expiring.obj = None
    BY <1>2 DEF TickRelease, Inv, CallsAndExpiry
  <2>4. QED
    BY <2>1, <2>2, <2>3, AqueueReleaseKeeps
<1>3. ASSUME NEW o \in Objects, TickCheck(o)
      PROVE  Inv'
  <2>1. /\ "expiry" \in Split
        /\ o \in toRelease
        /\ expiring' = [obj |-> o, delete |-> OnlyOwnerIsAqueue(o)]
        /\ UNCHANGED <<registry, counters, pushTime, queue, toRelease, tickCounter,
                       item, call>>
    BY <1>3 DEF TickCheck
  <2>2. expiring' \in [obj : OrNone(Objects), delete : BOOLEAN]
    BY <2>1 DEF OnlyOwnerIsAqueue, OrNone
  <2>3. TypeOK'
    BY <2>1, <2>2 DEF Inv, TypeOK, registry, counters
  <2>4. CallsAndExpiry'
    BY <2>1 DEF Inv, CallsAndExpiry
  <2>5. HandlesNameTheirObjects' /\ QueueOwnsOnce' /\ QueueAgeBounded'
    BY <2>1 DEF Inv, HandlesNameTheirObjects, QueueOwnsOnce, QueueAgeBounded, registry, counters
  <2>6. QED
    BY <2>3, <2>4, <2>5 DEF Inv
<1>4. CASE TickAct
  <2>1. /\ expiring.obj # None
        /\ AqueueRelease(expiring.obj, expiring.delete)
        /\ expiring' = [obj |-> None, delete |-> FALSE]
    BY <1>4 DEF TickAct
  <2>2. expiring.obj \in toRelease /\ expiring.delete \in BOOLEAN
    BY <2>1 DEF Inv, CallsAndExpiry, TypeOK
  <2>3. QED
    BY <2>1, <2>2, AqueueReleaseKeeps
<1>5. QED
  BY <1>1, <1>2, <1>3, <1>4 DEF Tick

-----------------------------------------------------------------------------
(* The theorems *)

LEMMA InitInv == Init => Inv
<1> SUFFICES ASSUME Init
             PROVE  Inv
  OBVIOUS
<1>1. 0 \in Times /\ None \in OrNone(Objects) /\ None \in OrNone(Handles)
      /\ None \in OrNone(Functions)
  BY ClockAssumption DEF Times, OrNone
<1>2. NoItems \in [Slots -> OrNone(Objects)]
  BY <1>1 DEF NoItems
<1>3. Idle \in Calls /\ Idle.pc # "body"
  BY <1>1 DEF Idle, Frame, Calls, Pcs
<1>4. call \in [Threads -> Calls] /\ \A t \in Threads : call[t].pc # "body"
  BY <1>3 DEF Init
<1>5. expiring \in [obj : OrNone(Objects), delete : BOOLEAN] /\ expiring.obj = None
  BY <1>1 DEF Init
<1>6. TypeOK
  BY <1>1, <1>2, <1>4, <1>5 DEF Init, TypeOK, Calls
<1>7. CallsAndExpiry
  BY <1>4, <1>5 DEF CallsAndExpiry
<1>8. HandlesNameTheirObjects /\ QueueOwnsOnce /\ QueueAgeBounded
  BY DEF Init, HandlesNameTheirObjects, QueueOwnsOnce, QueueAgeBounded
<1>9. QED
  BY <1>6, <1>7, <1>8 DEF Inv

LEMMA ContinueKeeps ==
  ASSUME Inv, NoDangling, NEW t \in Threads, Continue(t)
  PROVE  Inv'
<1>1. ASSUME NEW s \in Slots, GetObj(t, s)
      PROVE  Inv'
  BY <1>1, GetObjKeeps
<1>2. ASSUME NEW s \in Slots, SetObj(t, s)
      PROVE  Inv'
  BY <1>2, SetObjKeeps
<1>3. CASE Clear(t)
  BY <1>3, ClearKeeps
<1>4. CASE Retain(t) \/ Release(t) \/ ReleaseAndRetain(t)
  BY <1>4, RetainReleaseKeep
<1>5. CASE ZeroLifetime(t)
  BY <1>5, ZeroLifetimeKeeps
<1>6. CASE Uid(t)
  BY <1>6, UidKeeps
<1>7. CASE DropArgument(t, call[t].obj, None, call[t].val)
  BY <1>7, DropArgumentKeeps
<1>8. CASE DropArgument(t, call[t].val, call[t].obj, None)
  BY <1>8, DropArgumentKeeps
<1>9. CASE CheckDropped(t)
  BY <1>9, CheckDroppedKeeps
<1>10. QED
  BY <1>1, <1>2, <1>3, <1>4, <1>5, <1>6, <1>7, <1>8, <1>9 DEF Continue

LEMMA BeginCallKeeps ==
  ASSUME Inv, NoDangling, NEW t \in Threads, BeginCall(t)
  PROVE  Inv'
<1>1. ASSUME NEW fn \in Functions, NEW o \in Resolvable, NEW v \in OrNone(Resolvable),
             Begin(t, fn, o, v)
      PROVE  Inv'
  BY <1>1, BeginKeeps
<1>2. ASSUME NEW o \in Objects, NewObject(t, o)
      PROVE  Inv'
  BY <1>2, NewObjectKeeps
<1>3. ASSUME NEW o \in Objects, NEW child \in Objects, NEW s \in Slots,
             NewNested(t, o, child, s)
      PROVE  Inv'
  BY <1>3, NewNestedKeeps
<1>4. QED
  BY <1>1, <1>2, <1>3 DEF BeginCall

LEMMA StutterKeeps ==
  ASSUME Inv, UNCHANGED vars
  PROVE  Inv'
<1>1. TypeOK'
  BY DEF Inv, TypeOK, vars, registry, counters, aqueue
<1>2. CallsAndExpiry' /\ HandlesNameTheirObjects' /\ QueueOwnsOnce' /\ QueueAgeBounded'
  BY DEF Inv, CallsAndExpiry, HandlesNameTheirObjects, QueueOwnsOnce, QueueAgeBounded,
         vars, registry, counters, aqueue
<1>3. QED
  BY <1>1, <1>2 DEF Inv

\* Every step of the program, of either granularity, keeps the invariant.
LEMMA NextInv == Inv /\ [Next]_vars => Inv'
<1> SUFFICES ASSUME Inv, [Next]_vars
             PROVE  Inv'
  OBVIOUS
<1>1. CASE NoDangling /\ Tick
  BY <1>1, TickKeeps
<1>2. ASSUME NEW t \in Threads, NoDangling, BeginCall(t)
      PROVE  Inv'
  BY <1>2, BeginCallKeeps
<1>3. ASSUME NEW t \in Threads, NoDangling, Continue(t)
      PROVE  Inv'
  BY <1>3, ContinueKeeps
<1>4. CASE UNCHANGED vars
  BY <1>4, StutterKeeps
<1>5. QED
  BY <1>1, <1>2, <1>3, <1>4 DEF Next

\* The inductive invariant holds of every behaviour.
THEOREM Invariance == Spec => []Inv
<1>1. QED
  BY InitInv, NextInv, PTL DEF Spec

\* Types: in particular no count of owners goes below zero, and the queue's clock
\* stays within its width.
THEOREM TypeCorrect == Spec => []TypeOK
<1>1. Inv => TypeOK
  BY DEF Inv
<1>2. QED
  BY <1>1, Invariance, PTL

\* The registry (object_registry.h): a handle leads to the object that carries it,
\* or nowhere; no two objects share one, and none outlives its object.
THEOREM HandlesCorrect == Spec => []HandlesNameTheirObjects
<1>1. Inv => HandlesNameTheirObjects
  BY DEF Inv
<1>2. QED
  BY <1>1, Invariance, PTL

\* The autorelease queue (autorelease_queue.h) never holds an object twice and never
\* holds a destroyed one, whatever calls push and unlink while it releases.
THEOREM QueueCorrect == Spec => []QueueOwnsOnce
<1>1. Inv => QueueOwnsOnce
  BY DEF Inv
<1>2. QED
  BY <1>1, Invariance, PTL

\* The wrap of the clock never makes an entry look younger than it is.
THEOREM AgesCorrect == Spec => []QueueAgeBounded
<1>1. Inv => QueueAgeBounded
  BY DEF Inv
<1>2. QED
  BY <1>1, Invariance, PTL

-----------------------------------------------------------------------------
(* The counts of items and arguments *)

\* What a thread holds in a state of its call.
FrameInv ==
  \A t \in Threads :
    /\ call[t].pc = "idle" => call[t].obj = None /\ call[t].val = None
    /\ call[t].pc # "return" => call[t].ret = None
    /\ call[t].pc # "drop" => call[t].chk = None

ItemPlaces(o) == { p \in Objects \X Slots : item[p[1]][p[2]] = o }
StackPlaces(o) == { p \in Threads \X {"obj", "val"} : call[p[1]][p[2]] = o }

ItemCount == \A o \in live : refCount[o] = Cardinality(ItemPlaces(o))
StackCount == \A o \in live : stackRefCount[o] = Cardinality(StackPlaces(o))

\* A free cell is as the destructor left it.
FreeCells ==
  \A o \in Objects \ live :
    item[o] = NoItems /\ refCount[o] = 0 /\ tesRefCount[o] = 0 /\ stackRefCount[o] = 0

OwnInv == FrameInv /\ ItemCount /\ StackCount /\ FreeCells

\* The places of the stack's references, by the two fields.
LEMMA PlacesOfCalls ==
  ASSUME NEW c, NEW o
  PROVE  { p \in Threads \X {"obj", "val"} : c[p[1]][p[2]] = o }
           = { p \in Threads \X {"obj", "val"} : \/ p[2] = "obj" /\ c[p[1]].obj = o
                                                 \/ p[2] = "val" /\ c[p[1]].val = o }
<1>1. \A t \in Threads : c[t]["obj"] = c[t].obj /\ c[t]["val"] = c[t].val
  OBVIOUS
<1>2. ASSUME NEW p \in Threads \X {"obj", "val"}
      PROVE  c[p[1]][p[2]] = o <=> \/ p[2] = "obj" /\ c[p[1]].obj = o
                                   \/ p[2] = "val" /\ c[p[1]].val = o
  <2>1. p[1] \in Threads /\ p[2] \in {"obj", "val"}
    OBVIOUS
  <2>2. CASE p[2] = "obj"
    BY <2>1, <2>2, <1>1
  <2>3. CASE p[2] = "val"
    BY <2>1, <2>3, <1>1
  <2>4. QED
    BY <2>1, <2>2, <2>3
<1>3. QED
  BY <1>2

PlacesIn(c, o) ==
  { p \in Threads \X {"obj", "val"} : \/ p[2] = "obj" /\ c[p[1]].obj = o
                                      \/ p[2] = "val" /\ c[p[1]].val = o }

LEMMA StackPlacesAre ==
  ASSUME NEW o
  PROVE  /\ StackPlaces(o) = PlacesIn(call, o)
         /\ StackPlaces(o)' = PlacesIn(call', o)
         /\ IsFiniteSet(StackPlaces(o))
<1>1. StackPlaces(o) = PlacesIn(call, o)
  BY PlacesOfCalls DEF StackPlaces, PlacesIn
<1>2. StackPlaces(o)' = PlacesIn(call', o)
  BY PlacesOfCalls DEF StackPlaces, PlacesIn
<1>3. IsFiniteSet({"obj", "val"})
  <2>1. IsFiniteSet({"obj"}) /\ {"obj"} \union {"val"} = {"obj", "val"}
    BY FS_Singleton
  <2>2. QED
    BY <2>1, FS_AddElement
<1>4. IsFiniteSet(Threads \X {"obj", "val"})
  BY <1>3, LifetimeAssumption, FS_Product
<1>5. IsFiniteSet(StackPlaces(o))
  BY <1>4, FS_Subset DEF StackPlaces
<1>6. QED
  BY <1>1, <1>2, <1>5

LEMMA ItemPlacesFinite ==
  ASSUME NEW o
  PROVE  IsFiniteSet(ItemPlaces(o)) /\ Cardinality(ItemPlaces(o)) \in Nat
<1>1. IsFiniteSet(Objects \X Slots)
  BY LifetimeAssumption, FS_Product
<1>2. IsFiniteSet(ItemPlaces(o))
  BY <1>1, FS_Subset DEF ItemPlaces
<1>3. QED
  BY <1>2, FS_CardinalityType

\* The pointers of items and calls are to objects that exist.
LEMMA PointersLive ==
  ASSUME TypeOK, NoDangling
  PROVE  /\ \A t \in Threads : /\ call[t].obj \in OrNone(live) /\ call[t].val \in OrNone(live)
                               /\ call[t].ret \in OrNone(live) /\ call[t].chk \in OrNone(live)
         /\ \A c \in live, s \in Slots : item[c][s] \in OrNone(live)
         /\ \A h \in Handles : handleMap[h] \in OrNone(live)
<1>1. \A t \in Threads : {call[t].obj, call[t].val, call[t].ret, call[t].chk} \ {None} \subseteq Pointers
  BY DEF Pointers
<1>2. \A c \in live, s \in Slots : item[c][s] # None => item[c][s] \in Pointers
  BY DEF Pointers
<1>3. \A h \in Handles : handleMap[h] # None => handleMap[h] \in Pointers
  BY DEF Pointers
<1>4. QED
  BY <1>1, <1>2, <1>3 DEF NoDangling, OrNone

\* As long as no pointer dangles, the counts are right of free cells as well.
LEMMA AllCounts ==
  ASSUME TypeOK, OwnInv, NoDangling
  PROVE  /\ \A o \in Objects : refCount[o] = Cardinality(ItemPlaces(o))
         /\ \A o \in Objects : stackRefCount[o] = Cardinality(StackPlaces(o))
         /\ \A o \in Objects \ live : ItemPlaces(o) = {} /\ StackPlaces(o) = {}
<1>1. ASSUME NEW o \in Objects \ live
      PROVE  ItemPlaces(o) = {} /\ StackPlaces(o) = {}
  <2>1. o # None
    BY LifetimeAssumption
  <2>2. \A c \in Objects, s \in Slots : item[c][s] # o
    <3>1. TAKE c \in Objects, s \in Slots
    <3>2. CASE c \in live
      BY <2>1, <3>2, PointersLive DEF OrNone
    <3>3. CASE c \notin live
      BY <2>1, <3>3 DEF OwnInv, FreeCells, NoItems
    <3>4. QED
      BY <3>2, <3>3
  <2>3. ItemPlaces(o) = {}
    BY <2>2 DEF ItemPlaces
  <2>4. \A t \in Threads : call[t].obj # o /\ call[t].val # o
    BY <2>1, PointersLive DEF OrNone
  <2>5. StackPlaces(o) = {}
    BY <2>4, StackPlacesAre DEF PlacesIn
  <2>6. QED
    BY <2>3, <2>5
<1>2. \A o \in Objects \ live : refCount[o] = 0 /\ stackRefCount[o] = 0
  BY DEF OwnInv, FreeCells
<1>3. Cardinality({}) = 0
  BY FS_EmptySet
<1>4. QED
  BY <1>1, <1>2, <1>3 DEF OwnInv, ItemCount, StackCount

\* A step in which the calls hold what they held.
LEMMA StackSame ==
  ASSUME TypeOK, TypeOK', OwnInv, NoDangling,
         \A t \in Threads : call'[t].obj = call[t].obj /\ call'[t].val = call[t].val,
         \A o \in live' : stackRefCount'[o] = stackRefCount[o]
  PROVE  StackCount'
<1>1. live' \subseteq Objects
  BY DEF TypeOK
<1>2. ASSUME NEW o \in live' PROVE StackPlaces(o)' = StackPlaces(o)
  <2>1. PlacesIn(call', o) = PlacesIn(call, o)
    BY DEF PlacesIn
  <2>2. QED
    BY <2>1, StackPlacesAre
<1>3. QED
  BY <1>1, <1>2, AllCounts DEF StackCount

\* A step that changes no item.
LEMMA ItemsSame ==
  ASSUME TypeOK, OwnInv, NoDangling, item' = item,
         live' \subseteq Objects,
         \A o \in live' : refCount'[o] = refCount[o]
  PROVE  ItemCount'
<1>1. \A o \in live' : ItemPlaces(o)' = ItemPlaces(o)
  BY DEF ItemPlaces
<1>2. QED
  BY <1>1, AllCounts DEF ItemCount

\* The counts follow the items that a container loses and the one it may get.
LEMMA ReleaseItemsCounts ==
  ASSUME TypeOK, OwnInv, NoDangling,
         NEW c \in live, NEW slots \in SUBSET Slots, NEW v, NEW destroyed \in SUBSET Objects,
         ReleaseItems(c, slots, v, destroyed),
         live' = live \ destroyed,
         \A b \in Objects, s \in Slots : b # c \/ s \notin slots => item'[b][s] = item[b][s],
         \A s \in slots : item'[c][s] = v,
         v = None \/ \E s : slots = {s}
  PROVE  ItemCount'
<1>1. SUFFICES ASSUME NEW o \in live'
               PROVE  refCount'[o] = Cardinality(ItemPlaces(o)')
  BY DEF ItemCount
<1>2. o \in live /\ o \in Objects /\ o # None /\ o \notin destroyed /\ c \in Objects
  BY LifetimeAssumption DEF TypeOK
<1> DEFINE To  == { s \in slots : item[c][s] = o }
           Old == {c} \X To
           New == IF o = v THEN {c} \X slots ELSE {}
           n   == IF o = v THEN 1 ELSE 0
<1>3. IsFiniteSet(To) /\ Cardinality(To) \in Nat
  BY LifetimeAssumption, FS_Subset, FS_CardinalityType
<1>4. IsFiniteSet(Old) /\ Cardinality(Old) = Cardinality(To)
  <2>1. IsFiniteSet({c}) /\ Cardinality({c}) = 1
    BY FS_Singleton
  <2>2. IsFiniteSet(Old) /\ Cardinality(Old) = Cardinality({c}) * Cardinality(To)
    BY <1>3, <2>1, FS_Product
  <2>3. QED
    BY <1>3, <2>1, <2>2
<1>5. Old \subseteq ItemPlaces(o)
  BY <1>2 DEF ItemPlaces
<1>6. IsFiniteSet(ItemPlaces(o)) /\ Cardinality(ItemPlaces(o)) \in Nat
  BY ItemPlacesFinite
<1>7. /\ IsFiniteSet(ItemPlaces(o) \ Old)
      /\ Cardinality(ItemPlaces(o) \ Old) = Cardinality(ItemPlaces(o)) - Cardinality(To)
      /\ Cardinality(To) =< Cardinality(ItemPlaces(o))
  <2>1. ItemPlaces(o) \intersect Old = Old
    BY <1>5
  <2>2. Cardinality(ItemPlaces(o) \ Old) = Cardinality(ItemPlaces(o)) - Cardinality(Old)
    <3>1. Cardinality(ItemPlaces(o) \ Old)
            = Cardinality(ItemPlaces(o)) - Cardinality(ItemPlaces(o) \intersect Old)
      BY <1>6, FS_Difference
    <3>2. QED
      BY <2>1, <3>1
  <2>3. IsFiniteSet(ItemPlaces(o) \ Old)
    BY <1>6, FS_Difference
  <2>4. Cardinality(Old) =< Cardinality(ItemPlaces(o))
    BY <1>5, <1>6, FS_Subset
  <2>5. QED
    BY <1>4, <2>2, <2>3, <2>4
<1>8. ItemPlaces(o)' = (ItemPlaces(o) \ Old) \union New
  <2>1. ASSUME NEW b \in Objects, NEW s \in Slots
        PROVE  item'[b][s] = o <=> \/ item[b][s] = o /\ ~(b = c /\ s \in To)
                                   \/ b = c /\ s \in slots /\ o = v
    <3>1. CASE b = c /\ s \in slots
      BY <3>1
    <3>2. CASE b # c \/ s \notin slots
      BY <3>2
    <3>3. QED
      BY <3>1, <3>2
  <2>2. \A b \in Objects, s \in Slots :
          <<b, s>> \in New <=> b = c /\ s \in slots /\ o = v
    OBVIOUS
  <2>3. \A b \in Objects, s \in Slots :
          <<b, s>> \in ItemPlaces(o) \ Old <=> item[b][s] = o /\ ~(b = c /\ s \in To)
    BY DEF ItemPlaces
  <2>4. \A b \in Objects, s \in Slots :
          <<b, s>> \in ItemPlaces(o)' <=> item'[b][s] = o
    BY DEF ItemPlaces
  <2>5. New \subseteq Objects \X Slots
    BY <1>2
  <2>6. ItemPlaces(o) \ Old \subseteq Objects \X Slots /\ ItemPlaces(o)' \subseteq Objects \X Slots
    BY DEF ItemPlaces
  <2> HIDE DEF To, Old, New
  <2>7. \A b \in Objects, s \in Slots :
          <<b, s>> \in ItemPlaces(o)' <=> <<b, s>> \in (ItemPlaces(o) \ Old) \union New
    <3>1. ASSUME NEW b \in Objects, NEW s \in Slots
          PROVE  <<b, s>> \in ItemPlaces(o)' <=> <<b, s>> \in (ItemPlaces(o) \ Old) \union New
      <4>1. <<b, s>> \in ItemPlaces(o)' <=>
              \/ item[b][s] = o /\ ~(b = c /\ s \in To)
              \/ b = c /\ s \in slots /\ o = v
        BY <2>1, <2>4
      <4>2. <<b, s>> \in ItemPlaces(o) \ Old <=> item[b][s] = o /\ ~(b = c /\ s \in To)
        BY <2>3
      <4>3. <<b, s>> \in New <=> b = c /\ s \in slots /\ o = v
        BY <2>2
      <4>4. QED
        BY Zenon, <4>1, <4>2, <4>3
    <3>2. QED
      BY <3>1
  <2>8. QED
    BY <2>5, <2>6, <2>7
<1>9. Cardinality(ItemPlaces(o)') = Cardinality(ItemPlaces(o)) - Cardinality(To) + n
  <2>1. CASE o = v
    <3>1. PICK s : slots = {s}
      BY <2>1, <1>2
    <3>2. New = {<<c, s>>}
      BY <2>1, <3>1
    <3>3. <<c, s>> \notin ItemPlaces(o) \ Old
      BY <3>1 DEF ItemPlaces
    <3> HIDE DEF New, Old, To
    <3>4. Cardinality((ItemPlaces(o) \ Old) \union {<<c, s>>}) = Cardinality(ItemPlaces(o) \ Old) + 1
      BY <1>7, <3>3, FS_AddElement
    <3>5. QED
      BY <1>7, <1>8, <2>1, <3>2, <3>4
  <2>2. CASE o # v
    <3>1. New = {}
      BY <2>2
    <3> HIDE DEF New, Old, To
    <3>2. ItemPlaces(o)' = ItemPlaces(o) \ Old
      BY <1>8, <3>1
    <3>3. QED
      BY <1>3, <1>6, <1>7, <2>2, <3>2
  <2>3. QED
    BY <2>1, <2>2
<1>10. refCount'[o] = SaturatingMinus(refCount[o] + n, Cardinality(To))
  BY <1>2 DEF ReleaseItems, ItemsTo
<1>11. refCount[o] = Cardinality(ItemPlaces(o))
  BY <1>2 DEF OwnInv, ItemCount
<1>12. n \in {0, 1}
  OBVIOUS
<1> HIDE DEF n, To, Old, New
<1>13. \A a, b \in Nat, m \in {0, 1} : b =< a => SaturatingMinus(a + m, b) = a - b + m
  BY DEF SaturatingMinus
<1>14. QED
  BY <1>3, <1>6, <1>7, <1>9, <1>10, <1>11, <1>12, <1>13

-----------------------------------------------------------------------------
(* What the steps do to the calls *)

LEMMA LeavingFields ==
  ASSUME NEW obj, NEW val, NEW chk
  PROVE  /\ Leaving(obj, val, chk).obj = obj /\ Leaving(obj, val, chk).val = val
         /\ Leaving(obj, val, chk).chk = chk /\ Leaving(obj, val, chk).ret = None
         /\ Leaving(obj, val, chk).pc # "return"
         /\ Leaving(obj, val, chk).pc = "idle" => obj = None /\ val = None
         /\ Leaving(obj, val, chk).pc # "drop" => chk = None
<1>1. CASE {obj, val, chk} = {None}
  BY <1>1 DEF Leaving, Idle, Frame
<1>2. CASE {obj, val, chk} # {None}
  BY <1>2 DEF Leaving, Frame
<1>3. QED
  BY <1>1, <1>2

\* The call of one thread changes to r.
LEMMA CallChanges ==
  ASSUME TypeOK, FrameInv, NEW t \in Threads, NEW r,
         r.pc = "idle" => r.obj = None /\ r.val = None,
         r.pc # "return" => r.ret = None,
         r.pc # "drop" => r.chk = None,
         call' = [call EXCEPT ![t] = r]
  PROVE  /\ FrameInv'
         /\ call'[t] = r /\ \A u \in Threads \ {t} : call'[u] = call[u]
<1>1. call'[t] = r /\ \A u \in Threads \ {t} : call'[u] = call[u]
  BY DEF TypeOK
<1>2. QED
  BY <1>1 DEF FrameInv

\* No argument is dropped, whatever else changes in the calls.
SameHeld ==
  \A u \in Threads : call'[u].obj = call[u].obj /\ call'[u].val = call[u].val

LEMMA FinishFacts ==
  ASSUME TypeOK, FrameInv, NEW t \in Threads, Finish(t)
  PROVE  /\ FrameInv' /\ SameHeld
         /\ call'[t].ret = None /\ call'[t].chk = None
         /\ \A u \in Threads \ {t} : call'[u] = call[u]
<1> DEFINE r == Leaving(call[t].obj, call[t].val, None)
<1>1. call' = [call EXCEPT ![t] = r]
  BY DEF Finish
<1>2. /\ r.obj = call[t].obj /\ r.val = call[t].val /\ r.chk = None /\ r.ret = None
      /\ r.pc # "return" /\ (r.pc = "idle" => r.obj = None /\ r.val = None)
  BY LeavingFields
<1> HIDE DEF r
<1>3. FrameInv' /\ call'[t] = r /\ \A u \in Threads \ {t} : call'[u] = call[u]
  BY <1>1, <1>2, CallChanges
<1>4. QED
  BY <1>2, <1>3 DEF SameHeld

LEMMA ReturnFacts ==
  ASSUME TypeOK, FrameInv, NEW t \in Threads, NEW fn, NEW o, Return(t, fn, o)
  PROVE  /\ FrameInv' /\ SameHeld
         /\ call'[t].ret = o /\ call'[t].chk = None
         /\ \A u \in Threads \ {t} : call'[u] = call[u]
<1> DEFINE r == Frame("return", fn, call[t].obj, call[t].val, o, None)
<1>1. call' = [call EXCEPT ![t] = r]
  BY DEF Return
<1>2. r.pc = "return" /\ r.obj = call[t].obj /\ r.val = call[t].val /\ r.chk = None /\ r.ret = o
  BY DEF Frame
<1> HIDE DEF r
<1>3. FrameInv' /\ call'[t] = r /\ \A u \in Threads \ {t} : call'[u] = call[u]
  BY <1>1, <1>2, CallChanges
<1>4. QED
  BY <1>2, <1>3 DEF SameHeld

\* An argument in the field f is dropped, the reference with it.
LEMMA DropCounts ==
  ASSUME TypeOK, OwnInv, NoDangling, NEW t \in Threads, NEW o \in Objects,
         StackDecrement(o), live' = live,
         \/ call[t].obj = o /\ call'[t].obj = None /\ call'[t].val = call[t].val
         \/ call[t].val = o /\ call'[t].val = None /\ call'[t].obj = call[t].obj,
         \A u \in Threads \ {t} : call'[u] = call[u]
  PROVE  StackCount'
<1>1. SUFFICES ASSUME NEW x \in live PROVE stackRefCount'[x] = Cardinality(StackPlaces(x)')
  BY DEF StackCount
<1>2. x \in Objects /\ x # None /\ o # None
  BY LifetimeAssumption DEF TypeOK
<1>3. PICK f \in {"obj", "val"} :
        PlacesIn(call', x) = PlacesIn(call, x) \ {<<t, f>>} /\ (<<t, f>> \in PlacesIn(call, x) <=> x = o)
  <2>1. CASE call[t].obj = o /\ call'[t].obj = None /\ call'[t].val = call[t].val
    <3>1. PlacesIn(call', x) = PlacesIn(call, x) \ {<<t, "obj">>}
      BY <2>1, <1>2 DEF PlacesIn
    <3>2. <<t, "obj">> \in PlacesIn(call, x) <=> x = o
      BY <2>1 DEF PlacesIn
    <3>3. QED
      BY <3>1, <3>2
  <2>2. CASE call[t].val = o /\ call'[t].val = None /\ call'[t].obj = call[t].obj
    <3>1. PlacesIn(call', x) = PlacesIn(call, x) \ {<<t, "val">>}
      BY <2>2, <1>2 DEF PlacesIn
    <3>2. <<t, "val">> \in PlacesIn(call, x) <=> x = o
      BY <2>2 DEF PlacesIn
    <3>3. QED
      BY <3>1, <3>2
  <2>3. QED
    BY <2>1, <2>2
<1>4. StackPlaces(x) = PlacesIn(call, x) /\ StackPlaces(x)' = PlacesIn(call', x)
      /\ IsFiniteSet(StackPlaces(x))
  BY StackPlacesAre
<1>5. Cardinality(PlacesIn(call, x) \ {<<t, f>>})
        = IF x = o THEN Cardinality(PlacesIn(call, x)) - 1 ELSE Cardinality(PlacesIn(call, x))
  <2>1. IsFiniteSet(PlacesIn(call, x))
    BY <1>4
  <2>2. Cardinality(PlacesIn(call, x) \ {<<t, f>>})
          = IF <<t, f>> \in PlacesIn(call, x)
            THEN Cardinality(PlacesIn(call, x)) - 1 ELSE Cardinality(PlacesIn(call, x))
    BY <2>1, FS_RemoveElement
  <2>3. QED
    BY <1>3, <2>2
<1>6. stackRefCount[x] = Cardinality(PlacesIn(call, x)) /\ stackRefCount[x] \in Nat
  BY <1>2, <1>4 DEF OwnInv, StackCount, TypeOK
<1>7. CASE x # o
  <2>1. stackRefCount'[x] = stackRefCount[x]
    BY <1>2, <1>7 DEF StackDecrement, TypeOK
  <2>2. QED
    BY <1>3, <1>4, <1>5, <1>6, <1>7, <2>1
<1>8. CASE x = o
  <2>1. stackRefCount'[x] = SaturatingMinus(stackRefCount[x], 1)
    BY <1>2, <1>8 DEF StackDecrement, TypeOK
  <2>2. stackRefCount[x] # 0
    <3>1. PlacesIn(call, x) # {} /\ IsFiniteSet(PlacesIn(call, x))
      BY <1>3, <1>4, <1>8
    <3>2. Cardinality(PlacesIn(call, x)) # 0
      BY <3>1, FS_EmptySet
    <3>3. QED
      BY <1>6, <3>2
  <2>3. stackRefCount'[x] = stackRefCount[x] - 1
    BY <1>6, <2>1, <2>2 DEF SaturatingMinus
  <2>4. QED
    BY <1>3, <1>4, <1>5, <1>6, <1>8, <2>3
<1>9. QED
  BY <1>7, <1>8

\* A call resolves its arguments and owns them.
LEMMA BeginCounts ==
  ASSUME TypeOK, OwnInv, NoDangling, NEW t \in Threads, NEW fn \in Functions,
         NEW o \in Resolvable, NEW v \in OrNone(Resolvable), Begin(t, fn, o, v)
  PROVE  FrameInv' /\ StackCount'
<1> DEFINE r == Frame("body", fn, o, v, None, None)
<1>1. /\ call[t].pc = "idle" /\ call' = [call EXCEPT ![t] = r]
      /\ stackRefCount' = [x \in Objects |->
                             stackRefCount[x] + (IF x = o THEN 1 ELSE 0) + (IF x = v THEN 1 ELSE 0)]
      /\ live' = live
  BY DEF Begin, registry
<1>2. r.pc = "body" /\ r.obj = o /\ r.val = v /\ r.chk = None /\ r.ret = None
  BY DEF Frame
<1> HIDE DEF r
<1>3. FrameInv' /\ call'[t] = r /\ \A u \in Threads \ {t} : call'[u] = call[u]
  BY <1>1, <1>2, CallChanges DEF OwnInv
<1>4. call[t].obj = None /\ call[t].val = None
  BY <1>1 DEF OwnInv, FrameInv
<1>5. ASSUME NEW x \in live PROVE stackRefCount'[x] = Cardinality(StackPlaces(x)')
  <2> DEFINE a == IF x = o THEN {<<t, "obj">>} ELSE {}
             b == IF x = v THEN {<<t, "val">>} ELSE {}
             P == PlacesIn(call, x)
  <2>1. x \in Objects /\ x # None
    BY LifetimeAssumption DEF TypeOK
  <2>2. StackPlaces(x) = P /\ StackPlaces(x)' = PlacesIn(call', x) /\ IsFiniteSet(P)
    BY StackPlacesAre
  <2>3. PlacesIn(call', x) = (P \union a) \union b
    <3>1. \A u \in Threads, f \in {"obj", "val"} :
            <<u, f>> \in PlacesIn(call', x) <=>
              \/ u # t /\ <<u, f>> \in P
              \/ u = t /\ f = "obj" /\ x = o
              \/ u = t /\ f = "val" /\ x = v
      BY <1>2, <1>3 DEF PlacesIn
    <3>2. \A f \in {"obj", "val"} : <<t, f>> \notin P
      BY <1>4, <2>1 DEF PlacesIn
    <3>3. \A u \in Threads, f \in {"obj", "val"} :
            <<u, f>> \in (P \union a) \union b <=>
              \/ <<u, f>> \in P
              \/ u = t /\ f = "obj" /\ x = o
              \/ u = t /\ f = "val" /\ x = v
      OBVIOUS
    <3>4. PlacesIn(call', x) \subseteq Threads \X {"obj", "val"} /\ P \subseteq Threads \X {"obj", "val"}
          /\ a \subseteq Threads \X {"obj", "val"} /\ b \subseteq Threads \X {"obj", "val"}
      BY DEF PlacesIn
    <3> HIDE DEF a, b, P
    <3>5. \A u \in Threads, f \in {"obj", "val"} :
            <<u, f>> \in PlacesIn(call', x) <=> <<u, f>> \in (P \union a) \union b
      BY <3>1, <3>2, <3>3
    <3>6. \A p \in Threads \X {"obj", "val"} :
            p \in PlacesIn(call', x) <=> p \in (P \union a) \union b
      <4>1. TAKE p \in Threads \X {"obj", "val"}
      <4>2. PICK u \in Threads, f \in {"obj", "val"} : p = <<u, f>>
        OBVIOUS
      <4>3. <<u, f>> \in PlacesIn(call', x) <=> <<u, f>> \in (P \union a) \union b
        BY <3>5
      <4>4. QED
        BY <4>2, <4>3
    <3>7. QED
      BY <3>4, <3>6
  <2>4. <<t, "obj">> \notin P /\ <<t, "val">> \notin P /\ <<t, "val">> # <<t, "obj">>
    BY <1>4, <2>1 DEF PlacesIn
  <2>5. IsFiniteSet(P \union a) /\ Cardinality(P \union a) = Cardinality(P) + (IF x = o THEN 1 ELSE 0)
    <3>1. CASE x = o
      <4>1. a = {<<t, "obj">>}
        BY <3>1
      <4> HIDE DEF a, P
      <4>2. QED
        BY <3>1, <4>1, <2>2, <2>4, FS_AddElement
    <3>2. CASE x # o
      <4>1. P \union a = P
        BY <3>2
      <4> HIDE DEF a, P
      <4>2. Cardinality(P) \in Nat
        <5>1. IsFiniteSet(P)
          BY <2>2
        <5>2. QED
          BY <5>1, FS_CardinalityType
      <4>3. IsFiniteSet(P \union a) /\ Cardinality(P \union a) = Cardinality(P)
        BY <4>1, <2>2
      <4>4. QED
        BY <3>2, <4>2, <4>3
    <3>3. QED
      BY <3>1, <3>2
  <2>6. Cardinality((P \union a) \union b) = Cardinality(P \union a) + (IF x = v THEN 1 ELSE 0)
    <3>1. CASE x = v
      <4>1. b = {<<t, "val">>} /\ <<t, "val">> \notin P \union a
        BY <3>1, <2>4
      <4> HIDE DEF a, b, P
      <4>2. QED
        BY <3>1, <4>1, <2>5, FS_AddElement
    <3>2. CASE x # v
      <4>1. (P \union a) \union b = P \union a
        BY <3>2
      <4>2. Cardinality(P \union a) \in Nat
        BY <2>5, FS_CardinalityType
      <4>3. Cardinality((P \union a) \union b) = Cardinality(P \union a)
        BY <4>1, Zenon
      <4> HIDE DEF a, b, P
      <4>4. QED
        BY <3>2, <4>2, <4>3
    <3>3. QED
      BY <3>1, <3>2
  <2>7. stackRefCount[x] = Cardinality(P)
    BY <2>2 DEF OwnInv, StackCount
  <2>8. stackRefCount'[x] = stackRefCount[x] + (IF x = o THEN 1 ELSE 0) + (IF x = v THEN 1 ELSE 0)
    BY <1>1, <2>1
  <2> HIDE DEF a, b, P
  <2>9. QED
    BY <2>2, <2>3, <2>5, <2>6, <2>7, <2>8
<1>6. QED
  BY <1>1, <1>3, <1>5 DEF StackCount

-----------------------------------------------------------------------------
(* Each step keeps the counts *)

\* A step that changes neither items nor arguments.
LEMMA OwnSame ==
  ASSUME Inv, Inv', OwnInv, NoDangling,
         UNCHANGED <<live, refCount, stackRefCount, item>>,
         FrameInv', SameHeld,
         \A o \in Objects \ live : tesRefCount'[o] = tesRefCount[o]
  PROVE  OwnInv'
<1>1. TypeOK /\ TypeOK'
  BY DEF Inv
<1>2. ItemCount'
  BY <1>1, ItemsSame DEF TypeOK
<1>3. StackCount'
  BY <1>1, StackSame DEF SameHeld
<1>4. FreeCells'
  BY DEF OwnInv, FreeCells, NoItems
<1>5. QED
  BY <1>2, <1>3, <1>4 DEF OwnInv

LEMMA OwnBegin ==
  ASSUME Inv, Inv', OwnInv, NoDangling, NEW t \in Threads, NEW fn \in Functions,
         NEW o \in Resolvable, NEW v \in OrNone(Resolvable), Begin(t, fn, o, v)
  PROVE  OwnInv'
<1>1. TypeOK /\ TypeOK'
  BY DEF Inv
<1>2. UNCHANGED <<live, refCount, tesRefCount, item>>
  BY DEF Begin, registry
<1>3. FrameInv' /\ StackCount'
  BY <1>1, BeginCounts
<1>4. ItemCount'
  BY <1>1, <1>2, ItemsSame DEF TypeOK
<1>5. o \in live /\ v \in OrNone(live)
  BY <1>1, PointersLive DEF Resolvable, OrNone
<1>6. ASSUME NEW x \in Objects \ live PROVE stackRefCount'[x] = 0
  <2>1. x # o /\ x # v
    BY <1>5, LifetimeAssumption DEF OrNone
  <2>2. stackRefCount'[x] = stackRefCount[x] + 0 + 0
    BY <2>1 DEF Begin
  <2>3. QED
    BY <2>2 DEF OwnInv, FreeCells
<1>7. FreeCells'
  BY <1>2, <1>6 DEF OwnInv, FreeCells, NoItems
<1>8. QED
  BY <1>3, <1>4, <1>7 DEF OwnInv

LEMMA OwnNewObject ==
  ASSUME Inv, Inv', OwnInv, NoDangling, NEW t \in Threads, NEW o \in Objects, NewObject(t, o)
  PROVE  OwnInv'
<1>1. TypeOK /\ TypeOK'
  BY DEF Inv
<1>2. /\ live' = live \union {o} /\ Return(t, "object", o)
      /\ UNCHANGED <<refCount, tesRefCount, stackRefCount, item>>
  BY DEF NewObject, counters
<1>3. FrameInv' /\ SameHeld
  BY <1>1, <1>2, ReturnFacts DEF OwnInv
<1>4. ItemCount'
  BY <1>1, <1>2, ItemsSame DEF TypeOK
<1>5. StackCount'
  BY <1>1, <1>2, <1>3, StackSame DEF SameHeld
<1>6. FreeCells'
  BY <1>2 DEF OwnInv, FreeCells, NoItems
<1>7. QED
  BY <1>3, <1>4, <1>5, <1>6 DEF OwnInv

LEMMA OwnNewNested ==
  ASSUME Inv, Inv', OwnInv, NoDangling, NEW t \in Threads, NEW o \in Objects,
         NEW child \in Objects, NEW s \in Slots, NewNested(t, o, child, s)
  PROVE  OwnInv'
<1>1. TypeOK /\ TypeOK'
  BY DEF Inv
<1>2. /\ o \notin live /\ child \notin live /\ o # child
      /\ live' = live \union {o, child} /\ Return(t, "objectFromPrototype", o)
      /\ item' = [item EXCEPT ![o][s] = child]
      /\ refCount' = [refCount EXCEPT ![child] = 1]
      /\ UNCHANGED <<tesRefCount, stackRefCount>>
  BY DEF NewNested
<1>3. FrameInv' /\ SameHeld
  BY <1>1, <1>2, ReturnFacts DEF OwnInv
<1>4. StackCount'
  BY <1>1, <1>2, <1>3, StackSame DEF SameHeld
<1>5. item[o] = NoItems /\ item[o][s] = None
  BY <1>2 DEF OwnInv, FreeCells, NoItems
<1>6. \A b \in Objects, r \in Slots : item'[b][r] = IF b = o /\ r = s THEN child ELSE item[b][r]
  BY <1>1, <1>2 DEF TypeOK
<1>7. ASSUME NEW x \in live' PROVE refCount'[x] = Cardinality(ItemPlaces(x)')
  <2>1. x \in Objects /\ x # None
    BY <1>1, LifetimeAssumption DEF TypeOK
  <2>2. CASE x = child
    <3>1. ItemPlaces(x) = {}
      BY <1>1, <1>2, <2>2, AllCounts
    <3>2. ItemPlaces(x)' = {<<o, s>>}
      BY <1>6, <2>2, <3>1 DEF ItemPlaces
    <3>3. Cardinality(ItemPlaces(x)') = 1
      BY <3>2, FS_Singleton
    <3>4. QED
      BY <1>1, <1>2, <2>2, <3>3 DEF TypeOK
  <2>3. CASE x # child
    <3>1. ItemPlaces(x)' = ItemPlaces(x)
      BY <1>5, <1>6, <2>1, <2>3 DEF ItemPlaces
    <3>2. refCount'[x] = refCount[x]
      BY <1>1, <1>2, <2>1, <2>3 DEF TypeOK
    <3>3. QED
      BY <1>1, <2>1, <3>1, <3>2, AllCounts
  <2>4. QED
    BY <2>2, <2>3
<1>8. FreeCells'
  BY <1>1, <1>2 DEF OwnInv, FreeCells, NoItems, TypeOK
<1>9. QED
  BY <1>3, <1>4, <1>7, <1>8 DEF OwnInv, ItemCount

\* Items of a container that exists are replaced.
LEMMA OwnOverwrite ==
  ASSUME Inv, Inv', OwnInv, NoDangling, NEW t \in Threads, NEW c \in live,
         NEW slots \in SUBSET Slots, NEW v,
         ReleaseItems(c, slots, v, {}), Finish(t),
         \A b \in Objects, s \in Slots : b # c \/ s \notin slots => item'[b][s] = item[b][s],
         \A b \in Objects : b # c => item'[b] = item[b],
         \A s \in slots : item'[c][s] = v,
         NEW only,
         v # None => v \in live /\ slots = {only},
         UNCHANGED <<live, tesRefCount, stackRefCount>>
  PROVE  OwnInv'
<1>1. TypeOK /\ TypeOK'
  BY DEF Inv
<1>2. FrameInv' /\ SameHeld
  BY <1>1, FinishFacts DEF OwnInv
<1>3. StackCount'
  BY <1>1, <1>2, StackSame DEF SameHeld
<1>4. ItemCount'
  <2>1. {} \in SUBSET Objects /\ live' = live \ {}
    OBVIOUS
  <2>3. v = None \/ \E s : slots = {s}
    OBVIOUS
  <2>2. QED
    BY <1>1, <2>1, <2>3, ReleaseItemsCounts
<1>5. ASSUME NEW o \in Objects \ live PROVE refCount'[o] = 0
  <2>1. { s \in slots : item[c][s] = o } = {}
    BY <1>1, PointersLive, LifetimeAssumption DEF OrNone
  <2>2. ItemsTo(o, c, slots) = 0
    BY <2>1, FS_EmptySet DEF ItemsTo
  <2>3. o # v
    BY LifetimeAssumption
  <2>4. refCount'[o] = SaturatingMinus(refCount[o] + 0, 0)
    BY <2>2, <2>3 DEF ReleaseItems
  <2>5. QED
    BY <2>4 DEF OwnInv, FreeCells, SaturatingMinus
<1>6. FreeCells'
  <2>1. \A o \in Objects \ live : item'[o] = item[o]
    OBVIOUS
  <2>2. QED
    BY <1>5, <2>1 DEF OwnInv, FreeCells, NoItems
<1>7. QED
  BY <1>2, <1>3, <1>4, <1>6 DEF OwnInv

LEMMA OwnSetObj ==
  ASSUME Inv, Inv', OwnInv, NoDangling, NEW t \in Threads, NEW s \in Slots, SetObj(t, s)
  PROVE  OwnInv'
<1>1. TypeOK /\ CallsAndExpiry
  BY DEF Inv
<1>2. call[t].obj \in live /\ call[t].val \in OrNone(live)
  BY <1>1, CallPointersLive, PointersLive DEF SetObj, InBody
<1>3. PICK c \in live, v \in OrNone(live) : c = call[t].obj /\ v = call[t].val
  BY <1>2
<1>4. /\ item' = [item EXCEPT ![c][s] = v]
      /\ ReleaseItems(c, {s}, v, {})
      /\ Finish(t)
      /\ UNCHANGED <<live, tesRefCount, stackRefCount>>
  BY <1>3 DEF SetObj, registry
<1>5. c \in Objects /\ item \in [Objects -> [Slots -> OrNone(Objects)]]
  BY <1>1 DEF TypeOK
<1>6. PICK slots \in SUBSET Slots : slots = {s}
  OBVIOUS
<1>7. \A b \in Objects, r \in Slots : b # c \/ r \notin slots => item'[b][r] = item[b][r]
  BY <1>4, <1>5, <1>6
<1>8. \A b \in Objects : b # c => item'[b] = item[b]
  BY <1>4, <1>5
<1>9. \A r \in slots : item'[c][r] = v
  BY <1>4, <1>5, <1>6
<1>10. ReleaseItems(c, slots, v, {})
  BY <1>4, <1>6
<1>11. v # None => v \in live /\ slots = {s}
  BY <1>6 DEF OrNone
<1>12. UNCHANGED <<live, tesRefCount, stackRefCount>>
  BY <1>4
<1>13. Finish(t)
  BY <1>4
<1>14. QED
  BY <1>12, <1>13, <1>7, <1>8, <1>9, <1>10, <1>11, OwnOverwrite

LEMMA OwnClear ==
  ASSUME Inv, Inv', OwnInv, NoDangling, NEW t \in Threads, Clear(t)
  PROVE  OwnInv'
<1>1. TypeOK /\ CallsAndExpiry
  BY DEF Inv
<1>2. call[t].obj \in live
  BY <1>1, CallPointersLive DEF Clear, InBody
<1>3. PICK c \in live : c = call[t].obj
  BY <1>2
<1>4. /\ item' = [item EXCEPT ![c] = NoItems]
      /\ ReleaseItems(c, Slots, None, {}) /\ Finish(t)
      /\ UNCHANGED <<live, tesRefCount, stackRefCount>>
  BY <1>3 DEF Clear, registry
<1>5. c \in Objects /\ item \in [Objects -> [Slots -> OrNone(Objects)]]
  BY <1>1 DEF TypeOK
<1>6. \A b \in Objects : b # c => item'[b] = item[b]
  BY <1>4, <1>5
<1>7. \A r \in Slots : item'[c][r] = None
  BY <1>4, <1>5 DEF NoItems
<1>8. PICK slots \in SUBSET Slots, v \in {None} : slots = Slots /\ v = None
  OBVIOUS
<1>9. \A b \in Objects, r \in Slots : b # c \/ r \notin slots => item'[b][r] = item[b][r]
  BY <1>6, <1>8
<1>10. \A r \in slots : item'[c][r] = v
  BY <1>7, <1>8
<1>11. ReleaseItems(c, slots, v, {}) /\ Finish(t)
  BY <1>4, <1>8
<1>12. v # None => v \in live /\ slots = {v}
  BY <1>8
<1>13. UNCHANGED <<live, tesRefCount, stackRefCount>>
  BY <1>4
<1>14. QED
  BY <1>6, <1>9, <1>10, <1>11, <1>12, <1>13, OwnOverwrite

LEMMA OwnTes ==
  ASSUME Inv, Inv', OwnInv, NoDangling, NEW t \in Threads,
         Retain(t) \/ Release(t) \/ ReleaseAndRetain(t) \/ ZeroLifetime(t)
  PROVE  OwnInv'
<1>1. TypeOK
  BY DEF Inv
<1>2. Finish(t) /\ TesFrame
  BY DEF Retain, Release, ReleaseAndRetain, ZeroLifetime
<1>3. UNCHANGED <<live, refCount, stackRefCount, item>>
  BY <1>2 DEF TesFrame, registry
<1>4. FrameInv' /\ SameHeld
  BY <1>1, <1>2, FinishFacts DEF OwnInv
<1>5. \A prev, next \in OrNone(live) : TesReleaseAndRetain(prev, next) =>
        \A o \in Objects \ live : tesRefCount'[o] = tesRefCount[o]
  <2>1. TAKE prev, next \in OrNone(live)
  <2>2. HAVE TesReleaseAndRetain(prev, next)
  <2>3. \A o \in Objects \ live : o # prev /\ o # next
    BY LifetimeAssumption DEF OrNone
  <2>4. QED
    BY <2>2, <2>3 DEF TesReleaseAndRetain
<1>6. call[t].obj \in OrNone(live) /\ call[t].val \in OrNone(live) /\ None \in OrNone(live)
  BY <1>1, PointersLive DEF OrNone
<1>7. \A o \in Objects \ live : tesRefCount'[o] = tesRefCount[o]
  <2>1. CASE ZeroLifetime(t)
    BY <2>1 DEF ZeroLifetime
  <2>2. CASE Retain(t) \/ Release(t) \/ ReleaseAndRetain(t)
    <3>1. \E prev, next \in OrNone(live) : TesReleaseAndRetain(prev, next)
      BY <1>6, <2>2 DEF Retain, Release, ReleaseAndRetain
    <3>2. QED
      BY <1>5, <3>1
  <2>3. QED
    BY <2>1, <2>2
<1>8. QED
  BY <1>3, <1>4, <1>7, OwnSame

LEMMA OwnOtherBodies ==
  ASSUME Inv, Inv', OwnInv, NoDangling, NEW t \in Threads,
         Uid(t) \/ \E s \in Slots : GetObj(t, s)
  PROVE  OwnInv'
<1>1. TypeOK
  BY DEF Inv
<1>2. UNCHANGED <<live, refCount, tesRefCount, stackRefCount, item>>
  BY DEF Uid, GetObj, registry, counters
<1>3. FrameInv' /\ SameHeld
  <2>1. CASE Uid(t)
    BY <2>1, <1>1, FinishFacts DEF Uid, OwnInv
  <2>2. CASE \E s \in Slots : GetObj(t, s)
    <3>1. PICK s \in Slots : GetObj(t, s)
      BY <2>2
    <3>2. Return(t, "getObj", item[call[t].obj][s])
      BY <3>1 DEF GetObj
    <3>3. QED
      BY <1>1, <3>2, ReturnFacts DEF OwnInv
  <2>3. QED
    BY <2>1, <2>2
<1>4. QED
  BY <1>2, <1>3, OwnSame

LEMMA OwnDrop ==
  ASSUME Inv, Inv', OwnInv, NoDangling, NEW t \in Threads,
         \/ DropArgument(t, call[t].obj, None, call[t].val)
         \/ DropArgument(t, call[t].val, call[t].obj, None)
  PROVE  OwnInv'
<1>1. TypeOK /\ TypeOK'
  BY DEF Inv
<1>2. PICK o \in {call[t].obj, call[t].val}, obj \in {call[t].obj, None}, val \in {call[t].val, None} :
        /\ DropArgument(t, o, obj, val)
        /\ \/ o = call[t].obj /\ obj = None /\ val = call[t].val
           \/ o = call[t].val /\ obj = call[t].obj /\ val = None
  OBVIOUS
<1>3. /\ o # None /\ StackDecrement(o)
      /\ UNCHANGED <<live, refCount, tesRefCount, item>>
      /\ \E chk : call' = [call EXCEPT ![t] = Leaving(obj, val, chk)]
  BY <1>2 DEF DropArgument, registry
<1>4. o \in live /\ o \in Objects
  BY <1>1, <1>2, <1>3, PointersLive DEF OrNone, TypeOK
<1>5. PICK chk : call' = [call EXCEPT ![t] = Leaving(obj, val, chk)]
  BY <1>3
<1>6. PICK r : r = Leaving(obj, val, chk)
  OBVIOUS
<1>7. /\ r.obj = obj /\ r.val = val /\ r.chk = chk /\ r.ret = None
      /\ r.pc # "return" /\ (r.pc = "idle" => r.obj = None /\ r.val = None)
      /\ (r.pc # "drop" => r.chk = None)
  BY <1>6, LeavingFields
<1>8. FrameInv' /\ call'[t] = r /\ \A u \in Threads \ {t} : call'[u] = call[u]
  BY <1>1, <1>5, <1>6, <1>7, CallChanges DEF OwnInv
<1>9. StackCount'
  BY <1>1, <1>2, <1>3, <1>4, <1>7, <1>8, DropCounts
<1>10. ItemCount'
  BY <1>1, <1>3, ItemsSame DEF TypeOK
<1>11. FreeCells'
  <2>1. \A x \in Objects \ live : stackRefCount'[x] = stackRefCount[x]
    BY <1>1, <1>3, <1>4 DEF StackDecrement, TypeOK
  <2>2. QED
    BY <1>3, <2>1 DEF OwnInv, FreeCells, NoItems
<1>12. QED
  BY <1>8, <1>9, <1>10, <1>11 DEF OwnInv

LEMMA OwnCheckDropped ==
  ASSUME Inv, Inv', OwnInv, NoDangling, NEW t \in Threads, CheckDropped(t)
  PROVE  OwnInv'
<1>1. TypeOK
  BY DEF Inv
<1>2. /\ call' = [call EXCEPT ![t] = Leaving(call[t].obj, call[t].val, None)]
      /\ UNCHANGED <<live, refCount, tesRefCount, stackRefCount, item>>
  BY DEF CheckDropped, registry
<1>3. FrameInv' /\ SameHeld
  BY <1>1, <1>2, FinishFacts DEF OwnInv, Finish
<1>4. QED
  BY <1>2, <1>3, OwnSame

LEMMA OwnAqueueRelease ==
  ASSUME Inv, Inv', OwnInv, NoDangling, NEW o \in toRelease, NEW delete \in BOOLEAN,
         AqueueRelease(o, delete)
  PROVE  OwnInv'
<1>1. TypeOK /\ TypeOK' /\ QueueOwnsOnce
  BY DEF Inv
<1>2. call' = call
  BY DEF AqueueRelease
<1>3. FrameInv' /\ SameHeld
  BY <1>2 DEF OwnInv, FrameInv, SameHeld
<1>4. o \in live /\ o \in Objects /\ o # None
  BY <1>1, LifetimeAssumption DEF QueueOwnsOnce, TypeOK
<1>5. CASE UNCHANGED <<registry, item, refCount, tesRefCount, stackRefCount, pushTime, queue>>
  <2>1. UNCHANGED <<live, refCount, tesRefCount, stackRefCount, item>>
    BY <1>5 DEF registry
  <2>2. QED
    BY <1>3, <2>1, OwnSame
<1>6. CASE DeleteSelf(o)
  <2>1. /\ live' = live \ {o}
        /\ item' = [item EXCEPT ![o] = NoItems]
        /\ tesRefCount' = [tesRefCount EXCEPT ![o] = 0]
        /\ stackRefCount' = [stackRefCount EXCEPT ![o] = 0]
        /\ ReleaseItems(o, Slots, None, {o})
    BY <1>6 DEF DeleteSelf
  <2>2. \A x \in live' : stackRefCount'[x] = stackRefCount[x]
    BY <1>1, <2>1 DEF TypeOK
  <2>3. StackCount'
    BY <1>1, <1>3, <2>2, StackSame DEF SameHeld
  <2>4. ItemCount'
    <3>1. \A b \in Objects, s \in Slots : b # o \/ s \notin Slots => item'[b][s] = item[b][s]
      BY <1>1, <2>1 DEF TypeOK
    <3>2. \A s \in Slots : item'[o][s] = None
      BY <1>1, <1>4, <2>1 DEF TypeOK, NoItems
    <3>3. {o} \in SUBSET Objects /\ Slots \in SUBSET Slots
      BY <1>4
    <3>4. QED
      BY <1>1, <1>4, <2>1, <3>1, <3>2, <3>3, ReleaseItemsCounts
  <2>5. FreeCells'
    <3>1. SUFFICES ASSUME NEW x \in Objects \ live'
                   PROVE  /\ item'[x] = NoItems /\ refCount'[x] = 0
                          /\ tesRefCount'[x] = 0 /\ stackRefCount'[x] = 0
      BY DEF FreeCells, NoItems
    <3>2. CASE x = o
      <4>1. refCount'[x] = 0
        BY <1>4, <2>1, <3>2 DEF ReleaseItems
      <4>2. QED
        BY <1>1, <1>4, <2>1, <3>2, <4>1 DEF TypeOK
    <3>3. CASE x # o
      <4>1. x \in Objects \ live
        BY <2>1, <3>3
      <4>2. { s \in Slots : item[o][s] = x } = {}
        BY <1>1, <1>4, <4>1, PointersLive, LifetimeAssumption DEF OrNone
      <4>3. ItemsTo(x, o, Slots) = 0
        BY <4>2, FS_EmptySet DEF ItemsTo
      <4>4. x # None
        BY <4>1, LifetimeAssumption
      <4>5. refCount'[x] = SaturatingMinus(refCount[x] + 0, 0)
        BY <2>1, <3>3, <4>1, <4>3, <4>4 DEF ReleaseItems
      <4>6. refCount'[x] = 0
        BY <4>1, <4>5 DEF OwnInv, FreeCells, SaturatingMinus
      <4>7. QED
        BY <1>1, <2>1, <3>3, <4>1, <4>6 DEF OwnInv, FreeCells, TypeOK
    <3>4. QED
      BY <3>2, <3>3
  <2>6. QED
    BY <1>3, <2>3, <2>4, <2>5 DEF OwnInv
<1>7. QED
  BY <1>5, <1>6 DEF AqueueRelease

LEMMA OwnTick ==
  ASSUME Inv, Inv', OwnInv, NoDangling, Tick
  PROVE  OwnInv'
<1>1. ASSUME UNCHANGED <<live, refCount, tesRefCount, stackRefCount, item, call>>
      PROVE  OwnInv'
  <2>1. FrameInv' /\ SameHeld
    BY <1>1 DEF OwnInv, FrameInv, SameHeld
  <2>2. QED
    BY <1>1, <2>1, OwnSame
<1>2. CASE TickCollect
  BY <1>1, <1>2 DEF TickCollect, registry, counters
<1>3. ASSUME NEW o \in Objects, TickRelease(o) PROVE OwnInv'
  <2>1. OnlyOwnerIsAqueue(o) \in BOOLEAN
    BY DEF OnlyOwnerIsAqueue
  <2>2. QED
    BY <1>3, <2>1, OwnAqueueRelease DEF TickRelease
<1>4. ASSUME NEW o \in Objects, TickCheck(o) PROVE OwnInv'
  BY <1>1, <1>4 DEF TickCheck, registry, counters
<1>5. CASE TickAct
  <2>1. expiring.obj \in toRelease /\ expiring.delete \in BOOLEAN
    BY <1>5 DEF TickAct, Inv, CallsAndExpiry, TypeOK
  <2>2. QED
    BY <1>5, <2>1, OwnAqueueRelease DEF TickAct
<1>6. QED
  BY <1>2, <1>3, <1>4, <1>5 DEF Tick

\* The counts are right after every step that no dangling pointer precedes.
LEMMA OwnStep ==
  ASSUME Inv, OwnInv, [Next]_vars
  PROVE  OwnInv'
<1>1. Inv'
  BY NextInv
<1>2. CASE NoDangling /\ Tick
  BY <1>1, <1>2, OwnTick
<1>3. ASSUME NEW t \in Threads, NoDangling, BeginCall(t) PROVE OwnInv'
  <2>1. ASSUME NEW fn \in Functions, NEW o \in Resolvable, NEW v \in OrNone(Resolvable),
               Begin(t, fn, o, v)
        PROVE  OwnInv'
    BY <1>1, <1>3, <2>1, OwnBegin
  <2>2. ASSUME NEW o \in Objects, NewObject(t, o) PROVE OwnInv'
    BY <1>1, <1>3, <2>2, OwnNewObject
  <2>3. ASSUME NEW o \in Objects, NEW child \in Objects, NEW s \in Slots, NewNested(t, o, child, s)
        PROVE  OwnInv'
    BY <1>1, <1>3, <2>3, OwnNewNested
  <2>4. QED
    BY <1>3, <2>1, <2>2, <2>3 DEF BeginCall
<1>4. ASSUME NEW t \in Threads, NoDangling, Continue(t) PROVE OwnInv'
  <2>1. ASSUME NEW s \in Slots, SetObj(t, s) PROVE OwnInv'
    BY <1>1, <1>4, <2>1, OwnSetObj
  <2>2. CASE Clear(t)
    BY <1>1, <1>4, <2>2, OwnClear
  <2>3. CASE Retain(t) \/ Release(t) \/ ReleaseAndRetain(t) \/ ZeroLifetime(t)
    BY <1>1, <1>4, <2>3, OwnTes
  <2>4. CASE Uid(t) \/ \E s \in Slots : GetObj(t, s)
    BY <1>1, <1>4, <2>4, OwnOtherBodies
  <2>5. CASE \/ DropArgument(t, call[t].obj, None, call[t].val)
             \/ DropArgument(t, call[t].val, call[t].obj, None)
    BY <1>1, <1>4, <2>5, OwnDrop
  <2>6. CASE CheckDropped(t)
    BY <1>1, <1>4, <2>6, OwnCheckDropped
  <2>7. QED
    BY <1>4, <2>1, <2>2, <2>3, <2>4, <2>5, <2>6 DEF Continue
<1>5. CASE UNCHANGED vars
  BY <1>5 DEF vars, registry, counters, OwnInv, FrameInv, ItemCount, StackCount, FreeCells,
              ItemPlaces, StackPlaces, NoItems
<1>6. QED
  BY <1>2, <1>3, <1>4, <1>5 DEF Next

LEMMA InitOwn == Init => OwnInv
<1>1. SUFFICES ASSUME Init PROVE OwnInv
  OBVIOUS
<1>2. FrameInv
  BY <1>1 DEF Init, FrameInv, Idle, Frame
<1>3. FreeCells
  BY <1>1 DEF Init, FreeCells, NoItems
<1>4. QED
  BY <1>1, <1>2, <1>3 DEF Init, OwnInv, ItemCount, StackCount

LEMMA OwnAlways == Spec => []OwnInv
<1>1. Inv /\ OwnInv /\ [Next]_vars => OwnInv'
  BY OwnStep
<1>2. QED
  BY <1>1, InitOwn, Invariance, PTL DEF Spec

\* The counters of items and arguments are the numbers of their owners, over all
\* interleavings of calls and ticks, up to the first dangling pointer: at both
\* granularities of the steps, with getObj and without.
THEOREM CountersCorrect == Spec => []CountersExact
<1>1. ASSUME Inv, OwnInv PROVE CountersExact
  <2>1. SUFFICES ASSUME NEW o \in live
                 PROVE  /\ refCount[o] = Cardinality({ p \in live \X Slots : item[p[1]][p[2]] = o })
                        /\ stackRefCount[o] = Cardinality(StackPlaces(o))
    BY DEF CountersExact, StackPlaces
  <2>2. o # None /\ live \subseteq Objects
    BY <1>1, LifetimeAssumption DEF Inv, TypeOK
  <2>3. \A c \in Objects, s \in Slots : item[c][s] = o => c \in live
    BY <1>1, <2>2 DEF OwnInv, FreeCells, NoItems
  <2>4. { p \in live \X Slots : item[p[1]][p[2]] = o } = ItemPlaces(o)
    BY <2>2, <2>3 DEF ItemPlaces
  <2>5. QED
    BY <1>1, <2>4 DEF OwnInv, ItemCount, StackCount
<1>2. QED
  BY <1>1, Invariance, OwnAlways, PTL

-----------------------------------------------------------------------------
(* What nobody owns is in the queue, or the timer has let it go *)

Counted(o) ==
  refCount[o] > 0 \/ tesRefCount[o] > 0 \/ stackRefCount[o] > 0 \/ aqueueRefCount[o] > 0

\* A call is about to test the object's counters, or to publish it.
Awaited(o) ==
  \E t \in Threads : call[t].chk = o \/ (call[t].ret = o /\ id[o] = None)

\* Every object has an owner or is waited for, but those of a set.  The steps are
\* looked at with the set of the objects that are abandoned before them.
HeldBut(L) == \A o \in live \ L : Counted(o) \/ Awaited(o)

\* The queue owns at least what it owned, and what it was told to own.
LEMMA RequeueOwns ==
  ASSUME TypeOK, QueueOwnsOnce, NEW prolonged, NEW public, NEW cut, NEW destroyed,
         Requeue(prolonged, public, cut, destroyed)
  PROVE  \A x \in Objects \ destroyed :
           /\ aqueueRefCount[x] > 0 => aqueueRefCount'[x] > 0
           /\ x \in prolonged => aqueueRefCount'[x] > 0
           /\ x \notin prolonged => aqueueRefCount'[x] = aqueueRefCount[x]
<1>1. TAKE x \in Objects \ destroyed
<1>2. aqueueRefCount[x] \in {0, 1}
  BY DEF QueueOwnsOnce
<1>3. aqueueRefCount'[x] = IF x \in prolonged /\ ~IsInAqueue(x) THEN aqueueRefCount[x] + 1
                           ELSE aqueueRefCount[x]
  BY DEF Requeue
<1>4. QED
  BY <1>2, <1>3 DEF IsInAqueue

\* An object that loses an item's reference keeps another one or goes into the queue.
LEMMA ReleasedAreCounted ==
  ASSUME TypeOK, QueueOwnsOnce, NEW c \in Objects, NEW slots \in SUBSET Slots, NEW v,
         NEW destroyed, ReleaseItems(c, slots, v, destroyed),
         NEW x \in Objects \ destroyed, Counted(x),
         tesRefCount'[x] = tesRefCount[x], stackRefCount'[x] = stackRefCount[x]
  PROVE  Counted(x)'
<1> DEFINE made(o)  == IF o = v THEN 1 ELSE 0
           left     == [o \in Objects |->
                          IF o \in destroyed THEN 0
                          ELSE SaturatingMinus(refCount[o] + made(o), ItemsTo(o, c, slots))]
           noOwners == { o \in Objects \ destroyed :
                           /\ ItemsTo(o, c, slots) > 0
                           /\ left[o] = 0
                           /\ tesRefCount[o] = 0
                           /\ stackRefCount[o] = 0
                           /\ aqueueRefCount[o] = 0 }
           public   == { o \in noOwners : IsPublic(o) }
<1>1. refCount' = left /\ Requeue(noOwners, public, {}, destroyed)
  BY DEF ReleaseItems
<1>2. ItemsTo(x, c, slots) \in Nat
  BY ItemsToProperties
<1>3. left[x] = SaturatingMinus(refCount[x] + made(x), ItemsTo(x, c, slots))
  OBVIOUS
<1>4. /\ refCount[x] \in Nat /\ tesRefCount[x] \in Nat /\ stackRefCount[x] \in Nat
      /\ aqueueRefCount[x] \in {0, 1} /\ made(x) \in {0, 1}
  BY DEF TypeOK, QueueOwnsOnce
<1>5. x \in noOwners <=> /\ ItemsTo(x, c, slots) > 0 /\ left[x] = 0 /\ tesRefCount[x] = 0
                         /\ stackRefCount[x] = 0 /\ aqueueRefCount[x] = 0
  OBVIOUS
<1> HIDE DEF made, left, noOwners, public
<1>6. /\ aqueueRefCount[x] > 0 => aqueueRefCount'[x] > 0
      /\ x \in noOwners => aqueueRefCount'[x] > 0
  BY <1>1, RequeueOwns
<1>7. left[x] \in Nat /\ (left[x] = 0 => refCount[x] = 0 \/ ItemsTo(x, c, slots) > 0)
  BY <1>2, <1>3, <1>4 DEF SaturatingMinus
<1>8. CASE tesRefCount[x] > 0 \/ stackRefCount[x] > 0 \/ aqueueRefCount[x] > 0
  BY <1>6, <1>8 DEF Counted
<1>9. CASE ~(tesRefCount[x] > 0 \/ stackRefCount[x] > 0 \/ aqueueRefCount[x] > 0)
  <2>1. refCount[x] > 0 /\ tesRefCount[x] = 0 /\ stackRefCount[x] = 0 /\ aqueueRefCount[x] = 0
    BY <1>4, <1>9 DEF Counted
  <2>2. left[x] > 0 \/ x \in noOwners
    BY <1>5, <1>7, <2>1
  <2>3. QED
    BY <1>1, <1>6, <2>2 DEF Counted
<1>10. QED
  BY <1>8, <1>9

\* A step in which no thread that an object waits for moves on.
LEMMA HeldKept ==
  ASSUME TypeOK, NEW L, HeldBut(L), NEW t \in Threads,
         call[t].ret = None, call[t].chk = None,
         \A u \in Threads \ {t} : call'[u] = call[u],
         live' \subseteq live,
         \A x \in live' : id'[x] = id[x],
         \A x \in live' : Counted(x) => Counted(x)'
  PROVE  HeldBut(L)'
<1>1. SUFFICES ASSUME NEW x \in live' \ L, ~Counted(x)' PROVE Awaited(x)'
  BY DEF HeldBut
<1>2. x \in live /\ x # None
  BY LifetimeAssumption DEF TypeOK
<1>3. Awaited(x)
  BY <1>1, <1>2 DEF HeldBut
<1>4. PICK u \in Threads : call[u].chk = x \/ (call[u].ret = x /\ id[x] = None)
  BY <1>3 DEF Awaited
<1>5. u # t
  BY <1>2, <1>4
<1>6. call'[u] = call[u] /\ id'[x] = id[x]
  BY <1>1, <1>5
<1>7. QED
  BY <1>4, <1>6 DEF Awaited

\* The timer leaves the calls alone.
LEMMA HeldByTimer ==
  ASSUME TypeOK, NEW L, HeldBut(L), call' = call, live' \subseteq live,
         \A x \in live' : id'[x] = id[x],
         \A x \in live' \ L : Counted(x) => Counted(x)'
  PROVE  HeldBut(L)'
<1>1. SUFFICES ASSUME NEW x \in live' \ L, ~Counted(x)' PROVE Awaited(x)'
  BY DEF HeldBut
<1>2. Awaited(x) /\ id'[x] = id[x]
  BY <1>1 DEF HeldBut
<1>3. QED
  BY <1>2 DEF Awaited

LEMMA HeldBegin ==
  ASSUME Inv, FrameInv, NEW L, HeldBut(L), NEW t \in Threads, NEW fn \in Functions,
         NEW o, NEW v, Begin(t, fn, o, v)
  PROVE  HeldBut(L)'
<1>1. TypeOK
  BY DEF Inv
<1>2. /\ call[t].pc = "idle" /\ call' = [call EXCEPT ![t] = Frame("body", fn, o, v, None, None)]
      /\ UNCHANGED <<live, id, refCount, tesRefCount, aqueueRefCount>>
  BY DEF Begin, registry
<1>3. call[t].ret = None /\ call[t].chk = None
  BY <1>2 DEF FrameInv
<1>4. \A u \in Threads \ {t} : call'[u] = call[u]
  BY <1>1, <1>2 DEF TypeOK
<1>5. ASSUME NEW x \in live PROVE stackRefCount'[x] >= stackRefCount[x] /\ stackRefCount[x] \in Nat
  <2>1. x \in Objects
    BY <1>1 DEF TypeOK
  <2>2. stackRefCount'[x] = stackRefCount[x] + (IF x = o THEN 1 ELSE 0) + (IF x = v THEN 1 ELSE 0)
    BY <2>1 DEF Begin
  <2>3. QED
    BY <1>1, <2>1, <2>2 DEF TypeOK
<1>6. \A x \in live : stackRefCount[x] > 0 => stackRefCount'[x] > 0
  <2>1. TAKE x \in live
  <2>2. stackRefCount'[x] >= stackRefCount[x] /\ stackRefCount[x] \in Nat /\ stackRefCount'[x] \in Nat
    BY <1>1, <1>5 DEF Begin, TypeOK
  <2>3. QED
    BY <2>2
<1>7. \A x \in live' : Counted(x) => Counted(x)'
  BY <1>2, <1>6 DEF Counted
<1>8. QED
  BY <1>1, <1>2, <1>3, <1>4, <1>7, HeldKept

\* A new object is waited for until it is published, its contents have an owner.
LEMMA HeldNew ==
  ASSUME Inv, FrameInv, NEW L, HeldBut(L), NEW t \in Threads, NEW fn, NEW o \in Objects, NEW fresh,
         call[t].pc = "idle", o \notin live, Return(t, fn, o),
         live' = live \union {o} \union fresh,
         \A x \in fresh : refCount'[x] > 0,
         \A x \in live : refCount'[x] = refCount[x],
         UNCHANGED <<id, tesRefCount, stackRefCount, aqueueRefCount>>
  PROVE  HeldBut(L)'
<1>1. TypeOK /\ HandlesNameTheirObjects
  BY DEF Inv
<1>2. call[t].ret = None /\ call[t].chk = None
  BY DEF FrameInv
<1>3. call'[t].ret = o /\ \A u \in Threads \ {t} : call'[u] = call[u]
  BY <1>1, ReturnFacts
<1>4. id[o] = None
  BY <1>1 DEF HandlesNameTheirObjects
<1>5. SUFFICES ASSUME NEW x \in live' \ L PROVE Counted(x)' \/ Awaited(x)'
  BY DEF HeldBut
<1>6. CASE x = o
  BY <1>3, <1>4, <1>6 DEF Awaited
<1>7. CASE x \in fresh
  BY <1>7 DEF Counted
<1>8. CASE x \in live
  <2>1. CASE Counted(x)
    BY <1>8, <2>1 DEF Counted
  <2>2. CASE Awaited(x)
    <3>1. PICK u \in Threads : call[u].chk = x \/ (call[u].ret = x /\ id[x] = None)
      BY <2>2 DEF Awaited
    <3>2. x # None
      BY <1>1, <1>8, LifetimeAssumption DEF TypeOK
    <3>3. u # t
      BY <1>2, <3>1, <3>2
    <3>4. QED
      BY <1>3, <3>1, <3>3 DEF Awaited
  <2>3. QED
    BY <1>8, <2>1, <2>2 DEF HeldBut
<1>9. QED
  BY <1>5, <1>6, <1>7, <1>8

\* The functions that run in the body of a call: none of them moves an object that
\* is waited for.
LEMMA HeldBody ==
  ASSUME Inv, FrameInv, NEW L, HeldBut(L), NoDangling, NEW t \in Threads,
         \/ \E s \in Slots : GetObj(t, s) \/ SetObj(t, s)
         \/ Clear(t) \/ Retain(t) \/ Release(t) \/ ReleaseAndRetain(t) \/ ZeroLifetime(t)
  PROVE  HeldBut(L)'
<1>1. TypeOK /\ QueueOwnsOnce /\ CallsAndExpiry
  BY DEF Inv
<1>2. call[t].pc = "body"
  BY DEF GetObj, SetObj, Clear, Retain, Release, ReleaseAndRetain, ZeroLifetime, InBody
<1>3. call[t].ret = None /\ call[t].chk = None
  BY <1>2 DEF FrameInv
<1>4. \A u \in Threads \ {t} : call'[u] = call[u]
  <2>1. CASE Finish(t)
    BY <1>1, <2>1, FinishFacts
  <2>2. ASSUME NEW fn, NEW o, Return(t, fn, o) PROVE \A u \in Threads \ {t} : call'[u] = call[u]
    BY <1>1, <2>2, ReturnFacts
  <2>3. QED
    BY <2>1, <2>2 DEF GetObj, SetObj, Clear, Retain, Release, ReleaseAndRetain, ZeroLifetime
<1>5. live' = live /\ id' = id /\ stackRefCount' = stackRefCount
  BY DEF GetObj, SetObj, Clear, Retain, Release, ReleaseAndRetain, ZeroLifetime, TesFrame,
         registry, counters
<1>6. call[t].obj \in Objects
  BY <1>1, <1>2, CallPointersLive DEF TypeOK
<1>7. ASSUME NEW x \in live, Counted(x) PROVE Counted(x)'
  <2>1. x \in Objects \ {} /\ x \in Objects /\ x # None
    BY <1>1, LifetimeAssumption DEF TypeOK
  <2>2. CASE \E s \in Slots : GetObj(t, s)
    BY <1>7, <2>2 DEF GetObj, counters, Counted
  <2>3. CASE \E s \in Slots : SetObj(t, s)
    <3>1. PICK s \in Slots : SetObj(t, s)
      BY <2>3
    <3>2. ReleaseItems(call[t].obj, {s}, call[t].val, {}) /\ tesRefCount' = tesRefCount
      BY <3>1 DEF SetObj
    <3>3. {s} \in SUBSET Slots
      OBVIOUS
    <3>4. QED
      BY <1>1, <1>5, <1>6, <1>7, <2>1, <3>2, <3>3, ReleasedAreCounted
  <2>4. CASE Clear(t)
    <3>1. ReleaseItems(call[t].obj, Slots, None, {}) /\ tesRefCount' = tesRefCount
      BY <2>4 DEF Clear
    <3>2. Slots \in SUBSET Slots
      OBVIOUS
    <3>3. QED
      BY <1>1, <1>5, <1>6, <1>7, <2>1, <3>1, <3>2, ReleasedAreCounted
  <2>5. CASE ZeroLifetime(t)
    <3>1. Requeue({}, {}, {call[t].obj}, {}) /\ UNCHANGED <<refCount, tesRefCount>>
      BY <2>5 DEF ZeroLifetime, TesFrame
    <3>2. aqueueRefCount[x] > 0 => aqueueRefCount'[x] > 0
      BY <1>1, <2>1, <3>1, RequeueOwns
    <3>3. QED
      BY <1>5, <1>7, <3>1, <3>2 DEF Counted
  <2>6. ASSUME NEW prev, NEW next, TesReleaseAndRetain(prev, next), refCount' = refCount
        PROVE  Counted(x)'
    <3> DEFINE left     == [o \in Objects |->
                              IF o = prev THEN SaturatingMinus(tesRefCount[o], 1)
                              ELSE IF o = next THEN tesRefCount[o] + 1
                              ELSE tesRefCount[o]]
               noOwners == { o \in {prev} \ {None} :
                               /\ tesRefCount[o] > 0
                               /\ left[o] = 0
                               /\ refCount[o] = 0
                               /\ stackRefCount[o] = 0
                               /\ aqueueRefCount[o] = 0 }
    <3>1. tesRefCount' = left /\ Requeue(noOwners, noOwners, {next}, {})
      BY <2>6 DEF TesReleaseAndRetain
    <3>2. left[x] = IF x = prev THEN SaturatingMinus(tesRefCount[x], 1)
                    ELSE IF x = next THEN tesRefCount[x] + 1
                    ELSE tesRefCount[x]
      BY <2>1
    <3>3. /\ refCount[x] \in Nat /\ tesRefCount[x] \in Nat /\ stackRefCount[x] \in Nat
          /\ aqueueRefCount[x] \in {0, 1}
      BY <1>1, <2>1 DEF TypeOK, QueueOwnsOnce
    <3>4. x = prev /\ tesRefCount[x] > 0 /\ left[x] = 0 /\ refCount[x] = 0 /\ stackRefCount[x] = 0
          /\ aqueueRefCount[x] = 0 => x \in noOwners
      BY <2>1
    <3> HIDE DEF left, noOwners
    <3>5. /\ aqueueRefCount[x] > 0 => aqueueRefCount'[x] > 0
          /\ x \in noOwners => aqueueRefCount'[x] > 0
      BY <1>1, <2>1, <3>1, RequeueOwns
    <3>6. left[x] \in Nat /\ (left[x] = 0 => x = prev \/ tesRefCount[x] = 0)
      BY <3>2, <3>3 DEF SaturatingMinus
    <3>7. tesRefCount'[x] = left[x] /\ refCount'[x] = refCount[x] /\ stackRefCount'[x] = stackRefCount[x]
      BY <1>5, <2>6, <3>1
    <3>8. QED
      BY <1>7, <3>3, <3>4, <3>5, <3>6, <3>7 DEF Counted
  <2>7. CASE Retain(t) \/ Release(t) \/ ReleaseAndRetain(t)
    <3>1. /\ \E prev, next \in OrNone(Objects) : TesReleaseAndRetain(prev, next)
          /\ refCount' = refCount
      <4>1. /\ call[t].obj \in OrNone(Objects) /\ call[t].val \in OrNone(Objects)
            /\ None \in OrNone(Objects)
        BY <1>1 DEF TypeOK, OrNone
      <4>2. QED
        BY <4>1, <2>7 DEF Retain, Release, ReleaseAndRetain, TesFrame
    <3>2. QED
      BY <2>6, <3>1
  <2>8. QED
    BY <2>2, <2>3, <2>4, <2>5, <2>7
<1>8. \A x \in live' : Counted(x) => Counted(x)'
  BY <1>5, <1>7
<1>9. \A x \in live' : id'[x] = id[x]
  BY <1>5
<1>10. QED
  BY <1>1, <1>3, <1>4, <1>5, <1>8, <1>9, HeldKept

\* The publication of an object that no item owns puts it into the queue.
LEMMA HeldUid ==
  ASSUME Inv, FrameInv, NEW L, HeldBut(L), NEW t \in Threads, Uid(t)
  PROVE  HeldBut(L)'
<1>1. TypeOK /\ QueueOwnsOnce /\ HandlesNameTheirObjects
  BY DEF Inv
<1> DEFINE published == { o \in {call[t].ret} \ {None} : ~IsPublic(o) }
           unowned   == { o \in published : refCount[o] = 0 }
<1>2. /\ call[t].pc = "return" /\ Finish(t)
      /\ Requeue(unowned, unowned, {}, {})
      /\ UNCHANGED <<live, refCount, tesRefCount, stackRefCount>>
      /\ \/ published = {} /\ id' = id
         \/ \E o \in published, h \in Handles : id' = [id EXCEPT ![o] = h]
  BY DEF Uid
<1>3. call[t].chk = None
  BY <1>2 DEF FrameInv
<1>4. \A u \in Threads \ {t} : call'[u] = call[u]
  BY <1>1, <1>2, FinishFacts
<1>5. SUFFICES ASSUME NEW x \in live \ L PROVE Counted(x)' \/ Awaited(x)'
  BY <1>2 DEF HeldBut
<1>6. x \in Objects \ {} /\ x \in Objects /\ x # None
  BY <1>1, LifetimeAssumption DEF TypeOK
<1>7. refCount[x] \in Nat
  BY <1>1, <1>6 DEF TypeOK
<1>8. x \in published <=> x = call[t].ret /\ id[x] = None
  BY <1>6 DEF IsPublic
<1>9. x \in unowned <=> x \in published /\ refCount[x] = 0
  OBVIOUS
<1>10. x \notin published => id'[x] = id[x]
  <2>1. CASE published = {} /\ id' = id
    BY <2>1
  <2>2. CASE \E o \in published, h \in Handles : id' = [id EXCEPT ![o] = h]
    BY <1>1, <1>6, <2>2 DEF TypeOK
  <2>3. QED
    BY <1>2, <2>1, <2>2
<1> HIDE DEF published, unowned
<1>11. /\ aqueueRefCount[x] > 0 => aqueueRefCount'[x] > 0
       /\ x \in unowned => aqueueRefCount'[x] > 0
  BY <1>1, <1>2, <1>6, RequeueOwns
<1>12. Counted(x) => Counted(x)'
  BY <1>2, <1>11 DEF Counted
<1>13. CASE x \in published
  BY <1>2, <1>7, <1>9, <1>11, <1>13 DEF Counted
<1>14. CASE x \notin published
  <2>1. CASE Counted(x)
    BY <1>12, <2>1
  <2>2. CASE Awaited(x)
    <3>1. PICK u \in Threads : call[u].chk = x \/ (call[u].ret = x /\ id[x] = None)
      BY <2>2 DEF Awaited
    <3>2. u # t
      BY <1>3, <1>6, <1>8, <1>14, <3>1
    <3>3. QED
      BY <1>4, <1>10, <1>14, <3>1, <3>2 DEF Awaited
  <2>3. QED
    BY <2>1, <2>2 DEF HeldBut
<1>15. QED
  BY <1>13, <1>14

\* The object whose last reference of a call is dropped is tested, then or later.
LEMMA HeldDrop ==
  ASSUME Inv, FrameInv, NEW L, HeldBut(L), NEW t \in Threads, NEW o \in Objects, NEW obj, NEW val,
         DropArgument(t, o, obj, val)
  PROVE  HeldBut(L)'
<1>1. TypeOK /\ QueueOwnsOnce
  BY DEF Inv
<1>2. /\ call[t].pc = "drop" /\ call[t].chk = None /\ StackDecrement(o)
      /\ UNCHANGED <<live, id, refCount, tesRefCount>>
  BY DEF DropArgument, registry
<1>3. call[t].ret = None
  BY <1>2 DEF FrameInv
<1>4. PICK chk : /\ call' = [call EXCEPT ![t] = Leaving(obj, val, chk)]
                 /\ \/ chk = o /\ aqueueRefCount' = aqueueRefCount
                    \/ Prolong({ x \in {o} : NoOwnersBut(x, stackRefCount[x] - 1) })
  BY DEF DropArgument
<1>5. call'[t].chk = chk /\ \A u \in Threads \ {t} : call'[u] = call[u]
  <2>1. call'[t] = Leaving(obj, val, chk) /\ \A u \in Threads \ {t} : call'[u] = call[u]
    BY <1>1, <1>4 DEF TypeOK
  <2>2. QED
    BY <2>1, LeavingFields
<1>6. SUFFICES ASSUME NEW x \in live \ L PROVE Counted(x)' \/ Awaited(x)'
  BY <1>2 DEF HeldBut
<1>7. x \in Objects \ {} /\ x \in Objects /\ x # None
  BY <1>1, LifetimeAssumption DEF TypeOK
<1>8. Awaited(x) => Awaited(x)'
  <2>1. ASSUME NEW u \in Threads, call[u].chk = x \/ (call[u].ret = x /\ id[x] = None)
        PROVE  Awaited(x)'
    BY <1>2, <1>3, <1>5, <1>7, <2>1 DEF Awaited
  <2>2. QED
    BY <2>1 DEF Awaited
<1>9. aqueueRefCount[x] > 0 => aqueueRefCount'[x] > 0
  <2>1. CASE Prolong({ y \in {o} : NoOwnersBut(y, stackRefCount[y] - 1) })
    BY <1>1, <1>7, <2>1, RequeueOwns DEF Prolong
  <2>2. QED
    BY <1>4, <2>1
<1>10. stackRefCount'[x] = IF x = o THEN SaturatingMinus(stackRefCount[x], 1) ELSE stackRefCount[x]
  BY <1>1, <1>2, <1>7 DEF StackDecrement, TypeOK
<1>11. CASE x # o
  <2>1. Counted(x) => Counted(x)'
    BY <1>2, <1>9, <1>10, <1>11 DEF Counted
  <2>2. QED
    BY <1>8, <2>1 DEF HeldBut
<1>12. CASE x = o /\ chk = o
  BY <1>5, <1>12 DEF Awaited
<1>13. CASE x = o /\ Prolong({ y \in {o} : NoOwnersBut(y, stackRefCount[y] - 1) })
  <2> DEFINE tested == { y \in {o} : NoOwnersBut(y, stackRefCount[y] - 1) }
  <2>1. /\ refCount[x] \in Nat /\ tesRefCount[x] \in Nat /\ stackRefCount[x] \in Nat
        /\ aqueueRefCount[x] \in {0, 1}
    BY <1>1, <1>7 DEF TypeOK, QueueOwnsOnce
  <2>2. x \in tested <=> /\ refCount[x] = 0 /\ tesRefCount[x] = 0
                         /\ aqueueRefCount[x] = 0 /\ stackRefCount[x] - 1 = 0
    BY <1>13 DEF NoOwnersBut
  <2>3. Prolong(tested)
    BY <1>13
  <2> HIDE DEF tested
  <2>4. x \in tested => aqueueRefCount'[x] > 0
    BY <1>1, <1>7, <2>3, RequeueOwns DEF Prolong
  <2>5. Counted(x) => Counted(x)'
    <3>1. CASE refCount[x] > 0 \/ tesRefCount[x] > 0 \/ aqueueRefCount[x] > 0
      BY <1>2, <1>9, <3>1 DEF Counted
    <3>2. CASE stackRefCount[x] > 1
      <4>1. stackRefCount'[x] > 0
        BY <1>10, <1>13, <2>1, <3>2 DEF SaturatingMinus
      <4>2. QED
        BY <4>1 DEF Counted
    <3>3. CASE stackRefCount[x] = 1 /\ refCount[x] = 0 /\ tesRefCount[x] = 0 /\ aqueueRefCount[x] = 0
      BY <2>2, <2>4, <3>3 DEF Counted
    <3>4. QED
      BY <2>1, <3>1, <3>2, <3>3 DEF Counted
  <2>6. QED
    BY <1>8, <2>5 DEF HeldBut
<1>14. QED
  BY <1>4, <1>11, <1>12, <1>13

LEMMA HeldCheck ==
  ASSUME Inv, FrameInv, NEW L, HeldBut(L), NEW t \in Threads, CheckDropped(t)
  PROVE  HeldBut(L)'
<1> DEFINE tested == { y \in {call[t].chk} : NoOwnersBut(y, stackRefCount[y]) }
<1>1. TypeOK /\ QueueOwnsOnce
  BY DEF Inv
<1>2. /\ call[t].chk # None /\ Prolong(tested)
      /\ call' = [call EXCEPT ![t] = Leaving(call[t].obj, call[t].val, None)]
      /\ UNCHANGED <<live, id, refCount, tesRefCount, stackRefCount>>
  BY DEF CheckDropped, registry
<1>3. call[t].ret = None
  BY <1>2 DEF FrameInv
<1>4. \A u \in Threads \ {t} : call'[u] = call[u]
  BY <1>1, <1>2 DEF TypeOK
<1>5. SUFFICES ASSUME NEW x \in live \ L PROVE Counted(x)' \/ Awaited(x)'
  BY <1>2 DEF HeldBut
<1>6. x \in Objects \ {} /\ x \in Objects /\ x # None
  BY <1>1, LifetimeAssumption DEF TypeOK
<1>7. x = call[t].chk => (x \in tested <=> refCount[x] = 0 /\ tesRefCount[x] = 0
                                           /\ aqueueRefCount[x] = 0 /\ stackRefCount[x] = 0)
  BY DEF NoOwnersBut
<1>8. /\ refCount[x] \in Nat /\ tesRefCount[x] \in Nat /\ stackRefCount[x] \in Nat
      /\ aqueueRefCount[x] \in {0, 1}
  BY <1>1, <1>6 DEF TypeOK, QueueOwnsOnce
<1> HIDE DEF tested
<1>9. /\ aqueueRefCount[x] > 0 => aqueueRefCount'[x] > 0
      /\ x \in tested => aqueueRefCount'[x] > 0
  BY <1>1, <1>2, <1>6, RequeueOwns DEF Prolong
<1>10. Counted(x) => Counted(x)'
  BY <1>2, <1>9 DEF Counted
<1>11. CASE Counted(x)
  BY <1>10, <1>11
<1>12. CASE ~Counted(x)
  <2>1. PICK u \in Threads : call[u].chk = x \/ (call[u].ret = x /\ id[x] = None)
    BY <1>12 DEF HeldBut, Awaited
  <2>2. CASE u = t
    <3>1. x = call[t].chk
      BY <1>3, <1>6, <2>1, <2>2
    <3>2. x \in tested
      BY <1>7, <1>8, <1>12, <3>1 DEF Counted
    <3>3. QED
      BY <1>9, <3>2 DEF Counted
  <2>3. CASE u # t
    BY <1>2, <1>4, <2>1, <2>3 DEF Awaited
  <2>4. QED
    BY <2>2, <2>3
<1>13. QED
  BY <1>11, <1>12

\* An object that the queue gives up and does not delete has another owner, or the
\* counters have changed since the queue has read them.
LEMMA HeldRelease ==
  ASSUME Inv, NEW L, HeldBut(L), NEW o \in Objects, NEW delete,
         o \in toRelease, AqueueRelease(o, delete),
         delete \/ ~OnlyOwnerIsAqueue(o) \/ o \in L
  PROVE  HeldBut(L)'
<1>1. TypeOK /\ QueueOwnsOnce
  BY DEF Inv
<1>2. call' = call
  BY DEF AqueueRelease
<1>3. o \in live /\ aqueueRefCount[o] = 1
  BY <1>1, <1>2 DEF QueueOwnsOnce
<1>4. CASE DeleteSelf(o)
  <2>1. /\ live' = live \ {o} /\ id' = [id EXCEPT ![o] = None]
        /\ tesRefCount' = [tesRefCount EXCEPT ![o] = 0]
        /\ stackRefCount' = [stackRefCount EXCEPT ![o] = 0]
        /\ ReleaseItems(o, Slots, None, {o})
    BY <1>4 DEF DeleteSelf
  <2>2. ASSUME NEW x \in live' PROVE id'[x] = id[x] /\ (Counted(x) => Counted(x)')
    <3>1. x \in Objects \ {o} /\ x \in Objects
      BY <1>1, <2>1 DEF TypeOK
    <3>2. id'[x] = id[x] /\ tesRefCount'[x] = tesRefCount[x] /\ stackRefCount'[x] = stackRefCount[x]
      BY <1>1, <2>1, <3>1 DEF TypeOK
    <3>3. Slots \in SUBSET Slots
      OBVIOUS
    <3>4. QED
      BY <1>1, <2>1, <3>1, <3>2, <3>3, ReleasedAreCounted
  <2>3. QED
    BY <1>1, <1>2, <2>1, <2>2, HeldByTimer
<1>5. CASE /\ ~OnlyOwnerIsAqueue(o) \/ o \in L
           /\ aqueueRefCount' = [aqueueRefCount EXCEPT ![o] = @ - 1]
           /\ UNCHANGED <<live, id, refCount, tesRefCount, stackRefCount>>
  <2>1. /\ refCount[o] \in Nat /\ tesRefCount[o] \in Nat /\ stackRefCount[o] \in Nat
    BY <1>1 DEF TypeOK
  <2>2. o \in L \/ refCount[o] > 0 \/ tesRefCount[o] > 0 \/ stackRefCount[o] > 0
    BY <1>3, <1>5, <2>1 DEF OnlyOwnerIsAqueue, RefCountSum
  <2>3. \A x \in live \ {o} : aqueueRefCount'[x] = aqueueRefCount[x]
    BY <1>1, <1>5 DEF TypeOK
  <2>4. \A x \in live' \ L : Counted(x) => Counted(x)'
    BY <1>5, <2>2, <2>3 DEF Counted
  <2>5. QED
    BY <1>1, <1>2, <1>5, <2>4, HeldByTimer
<1>6. QED
  BY <1>2, <1>4, <1>5 DEF AqueueRelease, registry

LEMMA HeldStep ==
  ASSUME Inv, FrameInv, NEW L, HeldBut(L), [Next]_vars,
         TickAct => expiring.delete \/ expiring.obj \in L
  PROVE  HeldBut(L)'
<1>1. TypeOK /\ CallsAndExpiry
  BY DEF Inv
<1>2. CASE NoDangling /\ Tick
  <2>1. CASE TickCollect
    <3>1. UNCHANGED <<live, id, refCount, tesRefCount, stackRefCount, aqueueRefCount, call>>
      BY <2>1 DEF TickCollect, registry, counters
    <3>2. QED
      BY <3>1 DEF HeldBut, Counted, Awaited
  <2>2. ASSUME NEW o \in Objects, TickRelease(o) PROVE HeldBut(L)'
    <3>1. PICK delete : delete = OnlyOwnerIsAqueue(o)
      OBVIOUS
    <3>2. o \in toRelease /\ AqueueRelease(o, delete)
      BY <2>2, <3>1 DEF TickRelease
    <3>3. QED
      BY <3>1, <3>2, HeldRelease
  <2>3. ASSUME NEW o \in Objects, TickCheck(o) PROVE HeldBut(L)'
    <3>1. UNCHANGED <<live, id, refCount, tesRefCount, stackRefCount, aqueueRefCount, call>>
      BY <2>3 DEF TickCheck, registry, counters
    <3>2. QED
      BY <3>1 DEF HeldBut, Counted, Awaited
  <2>4. CASE TickAct
    <3>1. PICK o, delete : o = expiring.obj /\ delete = expiring.delete
      OBVIOUS
    <3>2. o \in Objects /\ o \in toRelease /\ AqueueRelease(o, delete) /\ (delete \/ o \in L)
      BY <1>1, <2>4, <3>1 DEF TickAct, CallsAndExpiry, TypeOK
    <3>3. QED
      BY <3>2, HeldRelease
  <2>5. QED
    BY <1>2, <2>1, <2>2, <2>3, <2>4 DEF Tick
<1>3. ASSUME NEW t \in Threads, NoDangling, BeginCall(t) PROVE HeldBut(L)'
  <2>1. ASSUME NEW fn \in Functions, NEW o \in Resolvable, NEW v \in OrNone(Resolvable),
               Begin(t, fn, o, v)
        PROVE  HeldBut(L)'
    BY <2>1, HeldBegin
  <2>2. ASSUME NEW o \in Objects, NewObject(t, o) PROVE HeldBut(L)'
    <3>1. /\ call[t].pc = "idle" /\ o \notin live /\ Return(t, "object", o)
          /\ live' = (live \union {o}) \union {}
          /\ UNCHANGED <<id, refCount, tesRefCount, stackRefCount, aqueueRefCount>>
      BY <2>2 DEF NewObject, counters
    <3>2. PICK fn, fresh : fn = "object" /\ fresh = {}
      OBVIOUS
    <3>3. Return(t, fn, o) /\ live' = live \union {o} \union fresh
      BY <3>1, <3>2
    <3>4. \A x \in fresh : refCount'[x] > 0
      BY <3>2
    <3>5. \A x \in live : refCount'[x] = refCount[x]
      BY <3>1
    <3>6. QED
      BY <1>3, <3>1, <3>3, <3>4, <3>5, HeldNew
  <2>3. ASSUME NEW o \in Objects, NEW child \in Objects, NEW s \in Slots, NewNested(t, o, child, s)
        PROVE  HeldBut(L)'
    <3>1. /\ call[t].pc = "idle" /\ o \notin live /\ child \notin live
          /\ Return(t, "objectFromPrototype", o)
          /\ live' = (live \union {o}) \union {child}
          /\ refCount' = [refCount EXCEPT ![child] = 1]
          /\ UNCHANGED <<id, tesRefCount, stackRefCount, aqueueRefCount>>
      BY <2>3 DEF NewNested
    <3>2. PICK fn, fresh : fn = "objectFromPrototype" /\ fresh = {child}
      OBVIOUS
    <3>3. Return(t, fn, o) /\ live' = live \union {o} \union fresh
      BY <3>1, <3>2
    <3>4. \A x \in fresh : refCount'[x] > 0
      BY <1>1, <3>1, <3>2 DEF TypeOK
    <3>5. \A x \in live : refCount'[x] = refCount[x]
      BY <1>1, <3>1 DEF TypeOK
    <3>6. QED
      BY <1>3, <3>1, <3>3, <3>4, <3>5, HeldNew
  <2>4. QED
    BY <1>3, <2>1, <2>2, <2>3 DEF BeginCall
<1>4. ASSUME NEW t \in Threads, NoDangling, Continue(t) PROVE HeldBut(L)'
  <2>1. CASE \/ \E s \in Slots : GetObj(t, s) \/ SetObj(t, s)
             \/ Clear(t) \/ Retain(t) \/ Release(t) \/ ReleaseAndRetain(t) \/ ZeroLifetime(t)
    BY <1>4, <2>1, HeldBody
  <2>2. CASE Uid(t)
    BY <2>2, HeldUid
  <2>3. ASSUME NEW o, NEW obj, NEW val, o \in {call[t].obj, call[t].val}, DropArgument(t, o, obj, val)
        PROVE  HeldBut(L)'
    <3>1. o \in Objects
      BY <1>1, <2>3 DEF TypeOK, OrNone, DropArgument
    <3>2. QED
      BY <2>3, <3>1, HeldDrop
  <2>4. CASE \/ DropArgument(t, call[t].obj, None, call[t].val)
             \/ DropArgument(t, call[t].val, call[t].obj, None)
    BY <2>3, <2>4
  <2>5. CASE CheckDropped(t)
    BY <2>5, HeldCheck
  <2>6. QED
    BY <1>4, <2>1, <2>2, <2>4, <2>5 DEF Continue
<1>5. CASE UNCHANGED vars
  BY <1>5 DEF vars, registry, counters, HeldBut, Counted, Awaited
<1>6. QED
  BY <1>2, <1>3, <1>4, <1>5 DEF Next

\* An object that no counter knows and nobody waits for is an abandoned one.
LEMMA AbandonedOrHeld ==
  ASSUME TypeOK, QueueOwnsOnce, NEW o \in live
  PROVE  IsAbandoned(o) <=> ~Counted(o) /\ ~Awaited(o)
<1>1. /\ refCount[o] \in Nat /\ tesRefCount[o] \in Nat /\ stackRefCount[o] \in Nat
      /\ aqueueRefCount[o] \in {0, 1}
  BY DEF TypeOK, QueueOwnsOnce
<1>2. RefCountSum(o) = 0 <=> ~Counted(o)
  BY <1>1 DEF RefCountSum, Counted
<1>3. QED
  BY <1>2 DEF IsAbandoned, Awaited, IsPublic

\* object_base.hpp's uid() "must ensure that not-owned object will not hang forever".
\* For every number of threads and objects, and whether or not the decrement and the
\* test of stack_release and the test and the release of the queue are one step: an
\* object that nothing owns and nothing is about to queue has got there by the
\* timer's release after a test that saw another owner, and in no other way.
THEOREM OnlyTheTimerAbandons == Spec => AbandonedByTimerOnly
<1> DEFINE ByTimer ==
      \A o \in live' :
        IsAbandoned(o)' =>
          \/ IsAbandoned(o)
          \/ expiring = [obj |-> o, delete |-> FALSE] /\ o \notin toRelease'
<1>1. ASSUME Inv, Inv', OwnInv, [Next]_vars
      PROVE  ByTimer
  <2>1. /\ TypeOK /\ QueueOwnsOnce /\ TypeOK' /\ QueueOwnsOnce' /\ FrameInv
    BY <1>1 DEF Inv, OwnInv
  <2>2. SUFFICES ASSUME NEW o \in live', IsAbandoned(o)', ~IsAbandoned(o)
                 PROVE  expiring = [obj |-> o, delete |-> FALSE] /\ o \notin toRelease'
    OBVIOUS
  <2>3. ~Counted(o)' /\ ~Awaited(o)'
    <3>1. RefCountSum(o)' = 0 /\ o \in Objects
      BY <2>1, <2>2 DEF IsAbandoned, TypeOK
    <3>2. /\ refCount'[o] \in Nat /\ tesRefCount'[o] \in Nat /\ stackRefCount'[o] \in Nat
          /\ aqueueRefCount'[o] \in {0, 1}
      BY <2>1, <3>1 DEF TypeOK, QueueOwnsOnce
    <3>3. ~Counted(o)'
      BY <3>1, <3>2 DEF RefCountSum, Counted
    <3>4. ~Awaited(o)'
      BY <2>2 DEF IsAbandoned, Awaited, IsPublic
    <3>5. QED
      BY <3>3, <3>4
  <2>4. PICK L : L = { x \in live : IsAbandoned(x) }
    OBVIOUS
  <2>5. HeldBut(L) /\ o \notin L
    BY <2>1, <2>2, <2>4, AbandonedOrHeld DEF HeldBut
  <2>6. TickAct /\ ~expiring.delete
    <3>1. SUFFICES ASSUME TickAct => expiring.delete PROVE FALSE
      OBVIOUS
    <3>2. HeldBut(L)'
      BY <1>1, <2>1, <2>5, <3>1, HeldStep
    <3>3. QED
      BY <2>2, <2>3, <2>5, <3>2 DEF HeldBut
  <2>7. o = expiring.obj
    <3>1. PICK M : M = L \union {expiring.obj}
      OBVIOUS
    <3>2. HeldBut(M)
      BY <2>5, <3>1 DEF HeldBut
    <3>3. HeldBut(M)'
      BY <1>1, <2>1, <3>1, <3>2, HeldStep
    <3>4. o \in M
      BY <2>2, <2>3, <3>3 DEF HeldBut
    <3>5. QED
      BY <2>5, <3>1, <3>4
  <2>8. expiring = [obj |-> o, delete |-> FALSE]
    BY <2>1, <2>6, <2>7 DEF TypeOK
  <2>9. o \notin toRelease'
    BY <2>6, <2>7 DEF TickAct, AqueueRelease
  <2>10. QED
    BY <2>8, <2>9
<1>2. QED
  BY <1>1, Invariance, OwnAlways, PTL DEF Spec, AbandonedByTimerOnly

-----------------------------------------------------------------------------
(* Which pointers may outlive their object *)

\* The new object that a function has returned is nobody else's yet.
IsFresh(t) == call[t].ret # None /\ call[t].fn # "getObj"

FreshInv ==
  \A t \in Threads : IsFresh(t) =>
    /\ id[call[t].ret] = None
    /\ ~Counted(call[t].ret)
    /\ \A u \in Threads \ {t} : call[u].ret # call[t].ret
    /\ \A u \in Threads : call[u].chk # call[t].ret

\* Where the counters are zero nothing refers to the object.
LEMMA UncountedIsUnreferenced ==
  ASSUME OwnInv, NEW o \in live, refCount[o] = 0, stackRefCount[o] = 0
  PROVE  /\ \A c \in Objects, s \in Slots : item[c][s] # o
         /\ \A u \in Threads : call[u].obj # o /\ call[u].val # o
<1>1. Cardinality(ItemPlaces(o)) = 0 /\ Cardinality(StackPlaces(o)) = 0
  BY DEF OwnInv, ItemCount, StackCount
<1>2. ItemPlaces(o) = {}
  <2>1. IsFiniteSet(ItemPlaces(o))
    BY ItemPlacesFinite
  <2>2. QED
    BY <1>1, <2>1, FS_EmptySet
<1>3. StackPlaces(o) = {}
  <2>1. IsFiniteSet(StackPlaces(o))
    <3>1. /\ StackPlaces(o) = PlacesIn(call, o)
          /\ StackPlaces(o)' = PlacesIn(call', o)
          /\ IsFiniteSet(StackPlaces(o))
      BY StackPlacesAre
    <3>2. QED
      BY <3>1
  <2>2. QED
    BY <1>1, <2>1, FS_EmptySet
<1>4. \A c \in Objects, s \in Slots : item[c][s] # o
  <2>1. TAKE c \in Objects, s \in Slots
  <2>2. <<c, s>> \notin ItemPlaces(o)
    BY <1>2
  <2>3. QED
    BY <2>2 DEF ItemPlaces
<1>5. \A u \in Threads : call[u].obj # o /\ call[u].val # o
  <2>1. PlacesIn(call, o) = {}
    BY <1>3, StackPlacesAre
  <2>2. TAKE u \in Threads
  <2>3. <<u, "obj">> \notin PlacesIn(call, o) /\ <<u, "val">> \notin PlacesIn(call, o)
    BY <2>1
  <2>4. QED
    BY <2>3 DEF PlacesIn
<1>6. QED
  BY <1>4, <1>5

\* Another owner of a returned object would count.
LEMMA FreshIsUnknown ==
  ASSUME Inv, OwnInv, NoDangling, FreshInv, NEW t \in Threads, IsFresh(t)
  PROVE  /\ call[t].ret \in live
         /\ \A u \in Threads : call[u].obj # call[t].ret /\ call[u].val # call[t].ret
         /\ \A c \in Objects, s \in Slots : item[c][s] # call[t].ret
         /\ call[t].ret \notin toRelease
         /\ call[t].ret \notin Resolvable
<1>1. TypeOK /\ QueueOwnsOnce /\ HandlesNameTheirObjects
  BY DEF Inv
<1>2. PICK o \in live : o = call[t].ret
  BY <1>1, PointersLive DEF OrNone, IsFresh
<1>3. o \in Objects /\ o # None
  BY <1>1, <1>2, LifetimeAssumption DEF TypeOK
<1>4. id[o] = None /\ ~Counted(o)
  BY <1>2, <1>3 DEF FreshInv
<1>5. refCount[o] = 0 /\ stackRefCount[o] = 0 /\ aqueueRefCount[o] = 0
  BY <1>1, <1>3, <1>4 DEF Counted, TypeOK, QueueOwnsOnce
<1>6. /\ \A c \in Objects, s \in Slots : item[c][s] # o
      /\ \A u \in Threads : call[u].obj # o /\ call[u].val # o
  BY <1>2, <1>5, UncountedIsUnreferenced
<1>7. o \notin toRelease
  BY <1>1, <1>3, <1>5 DEF QueueOwnsOnce
<1>8. o \notin Resolvable
  BY <1>1, <1>3, <1>4, LifetimeAssumption DEF HandlesNameTheirObjects, Resolvable
<1>9. QED
  BY <1>2, <1>6, <1>7, <1>8

\* Nothing dangles if the calls and the items of the next state are live: the
\* registry and the queue hold live objects anyhow.
LEMMA NothingDangles ==
  ASSUME Inv',
         \A t \in Threads : /\ call'[t].obj \in OrNone(live') /\ call'[t].val \in OrNone(live')
                            /\ call'[t].ret \in OrNone(live') /\ call'[t].chk \in OrNone(live'),
         \A c \in live', s \in Slots : item'[c][s] \in OrNone(live')
  PROVE  NoDangling'
<1>1. HandlesNameTheirObjects' /\ QueueOwnsOnce'
  BY DEF Inv
<1>2. SUFFICES ASSUME NEW o \in Pointers' PROVE o \in live'
  BY DEF NoDangling
<1>3. o # None
  BY DEF Pointers
<1>4. CASE \E t \in Threads : o \in {call'[t].obj, call'[t].val, call'[t].ret, call'[t].chk}
  BY <1>3, <1>4 DEF OrNone
<1>5. CASE \E c \in live', s \in Slots : item'[c][s] = o
  BY <1>3, <1>5 DEF OrNone
<1>6. CASE \E h \in Handles : handleMap'[h] = o
  BY <1>1, <1>3, <1>6 DEF HandlesNameTheirObjects
<1>7. CASE o \in queue' \union toRelease'
  BY <1>1, <1>7 DEF QueueOwnsOnce
<1>8. QED
  BY <1>4, <1>5, <1>6, <1>7 DEF Pointers

\* A step of thread t that deletes nothing: what it holds afterwards is live, what
\* it returns is an item's, and the others' new objects stay unknown to it.
LEMMA FreshKept ==
  ASSUME Inv, Inv', OwnInv, NoDangling, FreshInv, NEW t \in Threads,
         live' = live,
         call'[t].obj \in OrNone(live), call'[t].val \in OrNone(live),
         call'[t].ret \in OrNone(live), call'[t].chk \in OrNone(live),
         call'[t].ret # None => call'[t].fn = "getObj",
         \A u \in Threads \ {t} : call'[u] = call[u],
         \A c \in live, s \in Slots : item'[c][s] \in OrNone(live),
         \A u \in Threads \ {t} :
           IsFresh(u) => /\ id'[call[u].ret] = id[call[u].ret]
                         /\ ~Counted(call[u].ret)'
                         /\ call'[t].ret # call[u].ret
                         /\ call'[t].chk # call[u].ret
  PROVE  NoDangling' /\ FreshInv'
<1>1. TypeOK
  BY DEF Inv
<1>2. \A u \in Threads : /\ call[u].obj \in OrNone(live) /\ call[u].val \in OrNone(live)
                         /\ call[u].ret \in OrNone(live) /\ call[u].chk \in OrNone(live)
  BY <1>1, PointersLive
<1>3. \A u \in Threads : /\ call'[u].obj \in OrNone(live') /\ call'[u].val \in OrNone(live')
                         /\ call'[u].ret \in OrNone(live') /\ call'[u].chk \in OrNone(live')
  <2>1. TAKE u \in Threads
  <2>2. CASE u = t
    BY <2>2
  <2>3. CASE u # t
    BY <1>2, <2>3
  <2>4. QED
    BY <2>2, <2>3
<1>4. NoDangling'
  BY <1>3, NothingDangles
<1>5. ASSUME NEW u \in Threads, IsFresh(u)'
      PROVE  /\ id'[call'[u].ret] = None
             /\ ~Counted(call[u].ret)'
             /\ \A w \in Threads \ {u} : call'[w].ret # call'[u].ret
             /\ \A w \in Threads : call'[w].chk # call'[u].ret
  <2>1. u # t
    BY <1>5 DEF IsFresh
  <2>2. call'[u] = call[u] /\ IsFresh(u)
    BY <1>5, <2>1 DEF IsFresh
  <2>3. /\ id[call[u].ret] = None
        /\ \A w \in Threads \ {u} : call[w].ret # call[u].ret
        /\ \A w \in Threads : call[w].chk # call[u].ret
    BY <2>2 DEF FreshInv
  <2>4. /\ id'[call[u].ret] = id[call[u].ret]
        /\ ~Counted(call[u].ret)'
        /\ call'[t].ret # call[u].ret
        /\ call'[t].chk # call[u].ret
    BY <2>1, <2>2
  <2>5. \A w \in Threads \ {u} : call'[w].ret # call'[u].ret
    <3>1. TAKE w \in Threads \ {u}
    <3>2. CASE w = t
      BY <2>2, <2>4, <3>2
    <3>3. CASE w # t
      BY <2>2, <2>3, <3>3
    <3>4. QED
      BY <3>2, <3>3
  <2>6. \A w \in Threads : call'[w].chk # call'[u].ret
    <3>1. TAKE w \in Threads
    <3>2. CASE w = t
      BY <2>2, <2>4, <3>2
    <3>3. CASE w # t
      BY <2>2, <2>3, <3>3
    <3>4. QED
      BY <3>2, <3>3
  <2>7. QED
    BY <2>2, <2>3, <2>4, <2>5, <2>6
<1>6. FreshInv'
  BY <1>5 DEF FreshInv, Counted
<1>7. QED
  BY <1>4, <1>6

\* What no item refers to is no concern of a release of items.
LEMMA UnreferencedStay ==
  ASSUME TypeOK, QueueOwnsOnce, NEW c \in Objects, NEW slots \in SUBSET Slots, NEW v,
         NEW destroyed, ReleaseItems(c, slots, v, destroyed),
         NEW x \in Objects \ destroyed, ~Counted(x), x # v,
         \A s \in Slots : item[c][s] # x,
         tesRefCount'[x] = tesRefCount[x], stackRefCount'[x] = stackRefCount[x]
  PROVE  ~Counted(x)'
<1> DEFINE made(o)  == IF o = v THEN 1 ELSE 0
           left     == [o \in Objects |->
                          IF o \in destroyed THEN 0
                          ELSE SaturatingMinus(refCount[o] + made(o), ItemsTo(o, c, slots))]
           noOwners == { o \in Objects \ destroyed :
                           /\ ItemsTo(o, c, slots) > 0
                           /\ left[o] = 0
                           /\ tesRefCount[o] = 0
                           /\ stackRefCount[o] = 0
                           /\ aqueueRefCount[o] = 0 }
           public   == { o \in noOwners : IsPublic(o) }
<1>1. refCount' = left /\ Requeue(noOwners, public, {}, destroyed)
  BY DEF ReleaseItems
<1>2. ItemsTo(x, c, slots) = 0
  BY ItemsToProperties
<1>3. left[x] = SaturatingMinus(refCount[x] + 0, ItemsTo(x, c, slots)) /\ x \notin noOwners
  BY <1>2
<1>4. refCount[x] = 0 /\ tesRefCount[x] = 0 /\ stackRefCount[x] = 0 /\ aqueueRefCount[x] = 0
  BY DEF Counted, TypeOK, QueueOwnsOnce
<1> HIDE DEF made, left, noOwners, public
<1>5. aqueueRefCount'[x] = aqueueRefCount[x]
  BY <1>1, <1>3, RequeueOwns
<1>6. left[x] = 0
  BY <1>2, <1>3, <1>4 DEF SaturatingMinus
<1>7. QED
  BY <1>1, <1>4, <1>5, <1>6 DEF Counted

LEMMA DangBegin ==
  ASSUME Inv, Inv', OwnInv, NoDangling, FreshInv, NEW t \in Threads, NEW fn \in Functions,
         NEW o \in Resolvable, NEW v \in OrNone(Resolvable), Begin(t, fn, o, v)
  PROVE  NoDangling' /\ FreshInv'
<1>1. TypeOK
  BY DEF Inv
<1>2. /\ call' = [call EXCEPT ![t] = Frame("body", fn, o, v, None, None)]
      /\ stackRefCount' = [x \in Objects |->
                             stackRefCount[x] + (IF x = o THEN 1 ELSE 0) + (IF x = v THEN 1 ELSE 0)]
      /\ UNCHANGED <<live, id, refCount, tesRefCount, aqueueRefCount, item>>
  BY DEF Begin, registry
<1>3. call'[t] = Frame("body", fn, o, v, None, None) /\ \A u \in Threads \ {t} : call'[u] = call[u]
  BY <1>1, <1>2 DEF TypeOK
<1>4. o \in live /\ v \in OrNone(live)
  BY <1>1, PointersLive DEF Resolvable, OrNone
<1>5. /\ call'[t].obj \in OrNone(live) /\ call'[t].val \in OrNone(live)
      /\ call'[t].ret = None /\ call'[t].chk = None
  BY <1>3, <1>4 DEF Frame, OrNone
<1>6. \A c \in live, s \in Slots : item'[c][s] \in OrNone(live)
  BY <1>1, <1>2, PointersLive
<1>7. ASSUME NEW u \in Threads \ {t}, IsFresh(u)
      PROVE  /\ id'[call[u].ret] = id[call[u].ret] /\ ~Counted(call[u].ret)'
             /\ call'[t].ret # call[u].ret /\ call'[t].chk # call[u].ret
  <2>1. call[u].ret \in Objects /\ call[u].ret \notin Resolvable
    BY <1>1, <1>7, FreshIsUnknown DEF TypeOK
  <2>2. call[u].ret # o /\ call[u].ret # v
    BY <1>7, <2>1 DEF OrNone, IsFresh
  <2>3. stackRefCount'[call[u].ret] = stackRefCount[call[u].ret] + 0 + 0
    BY <1>2, <2>1, <2>2
  <2>4. ~Counted(call[u].ret) /\ stackRefCount[call[u].ret] \in Nat
    BY <1>1, <1>7, <2>1 DEF FreshInv, TypeOK
  <2>5. call'[u].ret = call[u].ret
    BY <1>3
  <2>6. PICK r : r = call[u].ret
    OBVIOUS
  <2>7. stackRefCount'[r] = stackRefCount[r] /\ ~Counted(r)
    BY <2>3, <2>4, <2>6
  <2>8. ~Counted(r)'
    BY <1>2, <2>7 DEF Counted
  <2>9. QED
    BY <1>2, <1>5, <1>7, <2>5, <2>6, <2>8 DEF Counted, IsFresh
<1>8. QED
  BY <1>2, <1>3, <1>5, <1>6, <1>7, FreshKept DEF OrNone

\* getObj's result is an item: no new object.
LEMMA DangGetObj ==
  ASSUME Inv, Inv', OwnInv, NoDangling, FreshInv, NEW t \in Threads, NEW s \in Slots,
         GetObj(t, s)
  PROVE  NoDangling' /\ FreshInv'
<1>1. TypeOK /\ CallsAndExpiry
  BY DEF Inv
<1>2. PICK o : o = item[call[t].obj][s]
  OBVIOUS
<1>3. /\ call' = [call EXCEPT ![t] = Frame("return", "getObj", @.obj, @.val, o, None)]
      /\ UNCHANGED <<live, id, item, refCount, tesRefCount, stackRefCount, aqueueRefCount>>
  BY <1>2 DEF GetObj, Return, registry, counters
<1>4. /\ call'[t].obj = call[t].obj /\ call'[t].val = call[t].val /\ call'[t].ret = o
      /\ call'[t].chk = None /\ call'[t].fn = "getObj"
      /\ \A u \in Threads \ {t} : call'[u] = call[u]
  BY <1>1, <1>3 DEF Frame, TypeOK
<1>5. call[t].obj \in live /\ call[t].obj \in Objects /\ call[t].val \in OrNone(live)
  BY <1>1, CallPointersLive, PointersLive DEF GetObj, InBody, TypeOK
<1>6. o \in OrNone(live)
  BY <1>1, <1>2, <1>5, PointersLive
<1>7. \A c \in live, r \in Slots : item'[c][r] \in OrNone(live)
  BY <1>1, <1>3, PointersLive
<1>8. ASSUME NEW u \in Threads \ {t}, IsFresh(u)
      PROVE  /\ id'[call[u].ret] = id[call[u].ret] /\ ~Counted(call[u].ret)'
             /\ call'[t].ret # call[u].ret /\ call'[t].chk # call[u].ret
  <2>1. ~Counted(call[u].ret) /\ item[call[t].obj][s] # call[u].ret
    BY <1>5, <1>8, FreshIsUnknown DEF FreshInv
  <2>2. call'[u].ret = call[u].ret
    BY <1>4
  <2>3. QED
    BY <1>2, <1>3, <1>4, <1>8, <2>1, <2>2 DEF Counted, IsFresh
<1>9. QED
  BY <1>3, <1>4, <1>5, <1>6, <1>7, <1>8, FreshKept DEF OrNone

\* A body that changes items or counts of what it was given.
LEMMA DangBody ==
  ASSUME Inv, Inv', OwnInv, NoDangling, FreshInv, NEW t \in Threads,
         \/ \E s \in Slots : SetObj(t, s)
         \/ Clear(t) \/ Retain(t) \/ Release(t) \/ ReleaseAndRetain(t) \/ ZeroLifetime(t)
  PROVE  NoDangling' /\ FreshInv'
<1>1. TypeOK /\ TypeOK' /\ QueueOwnsOnce /\ CallsAndExpiry
  BY DEF Inv
<1>2. call[t].pc = "body"
  BY DEF SetObj, Clear, Retain, Release, ReleaseAndRetain, ZeroLifetime, InBody
<1>4. Finish(t) /\ live' = live /\ id' = id /\ stackRefCount' = stackRefCount
  BY DEF SetObj, Clear, Retain, Release, ReleaseAndRetain, ZeroLifetime, TesFrame, registry
<1>5. /\ SameHeld /\ call'[t].ret = None /\ call'[t].chk = None
      /\ \A u \in Threads \ {t} : call'[u] = call[u]
  BY <1>1, <1>4, FinishFacts DEF OwnInv
<1>6. call[t].obj \in live /\ call[t].obj \in Objects /\ call[t].val \in OrNone(live)
  BY <1>1, <1>2, CallPointersLive, PointersLive DEF TypeOK
<1>7. call'[t].obj \in OrNone(live) /\ call'[t].val \in OrNone(live)
  BY <1>5, <1>6 DEF SameHeld, OrNone
<1>9. \A c \in live, s \in Slots : item'[c][s] \in OrNone(live)
  <2>1. \A c \in live, s \in Slots : item[c][s] \in OrNone(live) /\ c \in Objects
    BY <1>1, PointersLive DEF TypeOK
  <2>2. TAKE c \in live, r \in Slots
  <2>3. item[c][r] \in OrNone(live) /\ c \in Objects
    BY <2>1
  <2>4. CASE \E s \in Slots : SetObj(t, s)
    <3>1. PICK s \in Slots : item' = [item EXCEPT ![call[t].obj][s] = call[t].val]
      BY <2>4 DEF SetObj
    <3>2. item'[c][r] \in {item[c][r], call[t].val}
      BY <1>1, <1>6, <2>3, <3>1 DEF TypeOK
    <3>3. QED
      BY <1>6, <2>3, <3>2
  <2>5. CASE Clear(t)
    <3>1. item' = [item EXCEPT ![call[t].obj] = NoItems]
      BY <2>5 DEF Clear
    <3>2. item'[c][r] \in {item[c][r], None}
      BY <1>1, <1>6, <2>3, <3>1 DEF TypeOK, NoItems
    <3>3. QED
      BY <2>3, <3>2 DEF OrNone
  <2>6. CASE item' = item
    BY <2>3, <2>6
  <2>7. QED
    BY <2>4, <2>5, <2>6 DEF Retain, Release, ReleaseAndRetain, ZeroLifetime, TesFrame
<1>10. ASSUME NEW u \in Threads \ {t}, IsFresh(u)
       PROVE  /\ id'[call[u].ret] = id[call[u].ret] /\ ~Counted(call[u].ret)'
             /\ call'[t].ret # call[u].ret /\ call'[t].chk # call[u].ret
  <2>1. PICK r \in Objects : r = call[u].ret
    BY <1>1, <1>10 DEF TypeOK, OrNone, IsFresh
  <2>2. /\ ~Counted(r) /\ r # None /\ r \in Objects \ {}
        /\ r # call[t].obj /\ r # call[t].val
        /\ \A c \in Objects, s \in Slots : item[c][s] # r
    BY <1>10, <2>1, FreshIsUnknown DEF FreshInv, IsFresh
  <2>3. ~Counted(r)'
    <3>1. CASE \E s \in Slots : SetObj(t, s)
      <4>1. PICK s \in Slots : /\ ReleaseItems(call[t].obj, {s}, call[t].val, {})
                               /\ tesRefCount' = tesRefCount
        BY <3>1 DEF SetObj
      <4>2. {s} \in SUBSET Slots /\ \A q \in Slots : item[call[t].obj][q] # r
        BY <1>6, <2>2
      <4>3. QED
        BY <1>1, <1>4, <1>6, <2>2, <4>1, <4>2, UnreferencedStay
    <3>2. CASE Clear(t)
      <4>1. ReleaseItems(call[t].obj, Slots, None, {}) /\ tesRefCount' = tesRefCount
        BY <3>2 DEF Clear
      <4>2. Slots \in SUBSET Slots /\ \A q \in Slots : item[call[t].obj][q] # r
        BY <1>6, <2>2
      <4>3. QED
        BY <1>1, <1>4, <1>6, <2>2, <4>1, <4>2, UnreferencedStay
    <3>3. CASE ZeroLifetime(t)
      <4>1. Requeue({}, {}, {call[t].obj}, {}) /\ UNCHANGED <<refCount, tesRefCount>>
        BY <3>3 DEF ZeroLifetime, TesFrame
      <4>2. aqueueRefCount'[r] = aqueueRefCount[r]
        BY <1>1, <2>2, <4>1, RequeueOwns
      <4>3. QED
        BY <1>4, <2>2, <4>1, <4>2 DEF Counted
    <3>4. ASSUME NEW prev, NEW next, TesReleaseAndRetain(prev, next), r # prev, r # next,
                 refCount' = refCount
          PROVE  ~Counted(r)'
      <4>1. PICK noOwners : Requeue(noOwners, noOwners, {next}, {}) /\ r \notin noOwners
        BY <3>4 DEF TesReleaseAndRetain
      <4>2. aqueueRefCount'[r] = aqueueRefCount[r]
        BY <1>1, <2>2, <4>1, RequeueOwns
      <4>3. tesRefCount'[r] = tesRefCount[r]
        BY <3>4, <2>2 DEF TesReleaseAndRetain
      <4>4. QED
        BY <1>4, <2>2, <3>4, <4>2, <4>3 DEF Counted
    <3>5. CASE Retain(t) \/ Release(t) \/ ReleaseAndRetain(t)
      <4>1. /\ \E prev \in {call[t].obj, None}, next \in {call[t].obj, call[t].val, None} :
                 TesReleaseAndRetain(prev, next)
            /\ refCount' = refCount
        BY <3>5 DEF Retain, Release, ReleaseAndRetain, TesFrame
      <4>2. QED
        BY <2>2, <3>4, <4>1
    <3>6. QED
      BY <3>1, <3>2, <3>3, <3>5
  <2>4. call'[u].ret = r
    BY <1>5, <2>1
  <2>5. QED
    BY <1>4, <1>5, <2>1, <2>2, <2>3, <2>4 DEF Counted
<1>11. QED
  BY <1>4, <1>5, <1>7, <1>9, <1>10, FreshKept DEF OrNone

LEMMA DangUid ==
  ASSUME Inv, Inv', OwnInv, NoDangling, FreshInv, NEW t \in Threads, Uid(t)
  PROVE  NoDangling' /\ FreshInv'
<1>1. TypeOK /\ QueueOwnsOnce
  BY DEF Inv
<1> DEFINE published == { o \in {call[t].ret} \ {None} : ~IsPublic(o) }
           unowned   == { o \in published : refCount[o] = 0 }
<1>2. /\ Finish(t) /\ Requeue(unowned, unowned, {}, {})
      /\ UNCHANGED <<live, refCount, tesRefCount, stackRefCount, item>>
      /\ \/ id' = id
         \/ \E o \in published, h \in Handles : id' = [id EXCEPT ![o] = h]
  BY DEF Uid
<1>3. \A o \in published : o = call[t].ret
  OBVIOUS
<1>4. \A o \in unowned : o = call[t].ret
  OBVIOUS
<1> HIDE DEF published, unowned
<1>5. /\ SameHeld /\ call'[t].ret = None /\ call'[t].chk = None
      /\ \A u \in Threads \ {t} : call'[u] = call[u]
  BY <1>1, <1>2, FinishFacts DEF OwnInv
<1>6. call'[t].obj \in OrNone(live) /\ call'[t].val \in OrNone(live)
  BY <1>1, <1>5, PointersLive DEF SameHeld
<1>8. \A c \in live, s \in Slots : item'[c][s] \in OrNone(live)
  BY <1>1, <1>2, PointersLive
<1>9. ASSUME NEW u \in Threads \ {t}, IsFresh(u)
      PROVE  /\ id'[call[u].ret] = id[call[u].ret] /\ ~Counted(call[u].ret)'
             /\ call'[t].ret # call[u].ret /\ call'[t].chk # call[u].ret
  <2>1. PICK r \in Objects : r = call[u].ret
    BY <1>1, <1>9 DEF TypeOK, OrNone, IsFresh
  <2>2. ~Counted(r) /\ r # call[t].ret /\ r \in Objects \ {} /\ r # None
    BY <1>9, <2>1 DEF FreshInv, IsFresh
  <2>3. id'[r] = id[r]
    BY <1>1, <1>2, <1>3, <2>2 DEF TypeOK
  <2>4. aqueueRefCount'[r] = aqueueRefCount[r]
    BY <1>1, <1>2, <1>4, <2>2, RequeueOwns
  <2>5. ~Counted(r)'
    BY <1>2, <2>2, <2>4 DEF Counted
  <2>6. call'[u].ret = r
    BY <1>5, <2>1
  <2>7. QED
    BY <1>5, <2>1, <2>2, <2>3, <2>5, <2>6 DEF Counted
<1>10. QED
  BY <1>2, <1>5, <1>6, <1>8, <1>9, FreshKept DEF OrNone

LEMMA DangDrop ==
  ASSUME Inv, Inv', OwnInv, NoDangling, FreshInv, NEW t \in Threads,
         NEW o \in {call[t].obj, call[t].val}, NEW obj \in {call[t].obj, None},
         NEW val \in {call[t].val, None}, DropArgument(t, o, obj, val)
  PROVE  NoDangling' /\ FreshInv'
<1>1. TypeOK /\ QueueOwnsOnce
  BY DEF Inv
<1>2. PICK chk \in {o, None} :
        /\ o # None /\ StackDecrement(o)
        /\ call' = [call EXCEPT ![t] = Leaving(obj, val, chk)]
        /\ \/ UNCHANGED aqueueRefCount
           \/ Prolong({ x \in {o} : NoOwnersBut(x, stackRefCount[x] - 1) })
        /\ UNCHANGED <<live, id, refCount, tesRefCount, item>>
  BY DEF DropArgument, registry
<1>3. call'[t] = Leaving(obj, val, chk) /\ \A u \in Threads \ {t} : call'[u] = call[u]
  BY <1>1, <1>2 DEF TypeOK
<1>4. /\ call'[t].obj = obj /\ call'[t].val = val
      /\ call'[t].ret = None /\ call'[t].chk = chk
  BY <1>3, LeavingFields
<1>5. /\ call'[t].obj \in OrNone(live) /\ call'[t].val \in OrNone(live)
      /\ call'[t].chk \in OrNone(live)
  BY <1>1, <1>2, <1>4, PointersLive DEF OrNone
<1>7. \A c \in live, s \in Slots : item'[c][s] \in OrNone(live)
  BY <1>1, <1>2, PointersLive
<1>8. ASSUME NEW u \in Threads \ {t}, IsFresh(u)
      PROVE  /\ id'[call[u].ret] = id[call[u].ret] /\ ~Counted(call[u].ret)'
             /\ call'[t].ret # call[u].ret /\ call'[t].chk # call[u].ret
  <2>1. PICK r \in Objects : r = call[u].ret
    BY <1>1, <1>8 DEF TypeOK, OrNone, IsFresh
  <2>2. ~Counted(r) /\ r # o /\ r \in Objects \ {} /\ r # None
    BY <1>8, <2>1, FreshIsUnknown DEF FreshInv, IsFresh
  <2>3. stackRefCount'[r] = stackRefCount[r]
    BY <1>1, <1>2, <2>2 DEF StackDecrement, TypeOK
  <2>4. aqueueRefCount'[r] = aqueueRefCount[r]
    <3>1. CASE UNCHANGED aqueueRefCount
      BY <3>1
    <3>2. CASE Prolong({ x \in {o} : NoOwnersBut(x, stackRefCount[x] - 1) })
      <4>1. PICK prolonged, public : Requeue(prolonged, public, {}, {}) /\ r \notin prolonged
        BY <2>2, <3>2 DEF Prolong
      <4>2. QED
        BY <1>1, <2>2, <4>1, RequeueOwns
    <3>3. QED
      BY <1>2, <3>1, <3>2
  <2>5. ~Counted(r)'
    BY <1>2, <2>2, <2>3, <2>4 DEF Counted
  <2>6. call'[u].ret = r
    BY <1>3, <2>1
  <2>7. QED
    BY <1>2, <1>4, <2>1, <2>2, <2>5, <2>6 DEF Counted
<1>9. QED
  BY <1>2, <1>3, <1>4, <1>5, <1>7, <1>8, FreshKept DEF OrNone

\* The object that is tested was an argument: no new object either.
LEMMA DangCheck ==
  ASSUME Inv, Inv', OwnInv, NoDangling, FreshInv, NEW t \in Threads, CheckDropped(t)
  PROVE  NoDangling' /\ FreshInv'
<1>1. TypeOK /\ QueueOwnsOnce
  BY DEF Inv
<1>2. PICK tested : tested = { x \in {call[t].chk} : NoOwnersBut(x, stackRefCount[x]) }
  OBVIOUS
<1>3. /\ call' = [call EXCEPT ![t] = Leaving(call[t].obj, call[t].val, None)]
      /\ Prolong(tested)
      /\ UNCHANGED <<live, id, refCount, tesRefCount, stackRefCount, item>>
  BY <1>2 DEF CheckDropped, registry
<1>4. call'[t] = Leaving(call[t].obj, call[t].val, None) /\ \A u \in Threads \ {t} : call'[u] = call[u]
  BY <1>1, <1>3 DEF TypeOK
<1>5. /\ call'[t].obj = call[t].obj /\ call'[t].val = call[t].val
      /\ call'[t].ret = None /\ call'[t].chk = None
  BY <1>4, LeavingFields
<1>6. call'[t].obj \in OrNone(live) /\ call'[t].val \in OrNone(live)
  BY <1>1, <1>5, PointersLive
<1>7. \A c \in live, s \in Slots : item'[c][s] \in OrNone(live)
  BY <1>1, <1>3, PointersLive
<1>8. ASSUME NEW u \in Threads \ {t}, IsFresh(u)
      PROVE  /\ id'[call[u].ret] = id[call[u].ret] /\ ~Counted(call[u].ret)'
             /\ call'[t].ret # call[u].ret /\ call'[t].chk # call[u].ret
  <2>1. PICK r \in Objects : r = call[u].ret
    BY <1>1, <1>8 DEF TypeOK, OrNone, IsFresh
  <2>2. ~Counted(r) /\ r \in Objects \ {} /\ r # None /\ r # call[t].chk
    BY <1>8, <2>1 DEF FreshInv, IsFresh
  <2>3. r \notin tested
    BY <1>2, <2>2
  <2>4. aqueueRefCount'[r] = aqueueRefCount[r]
    BY <1>1, <1>3, <2>2, <2>3, RequeueOwns DEF Prolong
  <2>5. ~Counted(r)'
    BY <1>3, <2>2, <2>4 DEF Counted
  <2>6. call'[u].ret = r
    BY <1>4, <2>1
  <2>7. QED
    BY <1>3, <1>5, <2>1, <2>2, <2>5, <2>6 DEF Counted
<1>9. QED
  BY <1>3, <1>4, <1>5, <1>6, <1>7, <1>8, FreshKept DEF OrNone

\* A new object is known to nobody but the call that returns it.
LEMMA DangNew ==
  ASSUME Inv, Inv', OwnInv, NoDangling, FreshInv, NEW t \in Threads, NEW fn,
         NEW o \in Objects, NEW fresh \in SUBSET (Objects \ live),
         o \notin live, Return(t, fn, o),
         live' = live \union {o} \union fresh, o \notin fresh,
         \A c \in live', s \in Slots : item'[c][s] \in OrNone(live'),
         \A x \in Objects \ fresh : refCount'[x] = refCount[x],
         UNCHANGED <<id, tesRefCount, stackRefCount, aqueueRefCount>>
  PROVE  NoDangling' /\ FreshInv'
<1>1. TypeOK /\ QueueOwnsOnce /\ HandlesNameTheirObjects
  BY DEF Inv
<1>2. /\ SameHeld /\ call'[t].ret = o /\ call'[t].chk = None
      /\ \A u \in Threads \ {t} : call'[u] = call[u]
  BY <1>1, ReturnFacts DEF OwnInv
<1>4. o # None
  BY LifetimeAssumption
<1>5. \A u \in Threads : /\ call[u].obj \in OrNone(live) /\ call[u].val \in OrNone(live)
                         /\ call[u].ret \in OrNone(live) /\ call[u].chk \in OrNone(live)
  BY <1>1, PointersLive
<1>6. \A u \in Threads : /\ call'[u].obj \in OrNone(live') /\ call'[u].val \in OrNone(live')
                         /\ call'[u].ret \in OrNone(live') /\ call'[u].chk \in OrNone(live')
  <2>1. TAKE u \in Threads
  <2>2. CASE u = t
    BY <1>2, <1>5, <2>2 DEF SameHeld, OrNone
  <2>3. CASE u # t
    BY <1>2, <1>5, <2>3 DEF OrNone
  <2>4. QED
    BY <2>2, <2>3
<1>7. NoDangling'
  BY <1>6, NothingDangles
<1>8. id[o] = None /\ ~Counted(o)
  <2>1. refCount[o] = 0 /\ tesRefCount[o] = 0 /\ stackRefCount[o] = 0
    BY DEF OwnInv, FreeCells
  <2>2. aqueueRefCount[o] = 0
    BY <1>1 DEF QueueOwnsOnce
  <2>3. QED
    BY <1>1, <2>1, <2>2 DEF Counted, HandlesNameTheirObjects
<1>9. ASSUME NEW u \in Threads, IsFresh(u)'
      PROVE  /\ id'[call'[u].ret] = None
             /\ ~Counted(call[u].ret)'
             /\ \A w \in Threads \ {u} : call'[w].ret # call'[u].ret
             /\ \A w \in Threads : call'[w].chk # call'[u].ret
  <2>1. PICK r \in live' : r = call'[u].ret /\ r # None
    BY <1>6, <1>9 DEF OrNone, IsFresh
  <2>2. u # t => IsFresh(u) /\ r = call[u].ret /\ r \in live
    BY <1>2, <1>5, <1>9, <2>1 DEF OrNone, IsFresh
  <2>3. r \in Objects \ fresh /\ id[r] = None /\ ~Counted(r)
    <3>1. CASE u = t
      BY <1>2, <1>8, <2>1, <3>1
    <3>2. CASE u # t
      BY <1>1, <2>2, <3>2 DEF FreshInv, TypeOK
    <3>3. QED
      BY <3>1, <3>2
  <2>4. ~Counted(r)'
    BY <2>3 DEF Counted
  <2>5. \A w \in Threads \ {u} : call'[w].ret # r
    <3>1. TAKE w \in Threads \ {u}
    <3>2. CASE u = t
      BY <1>2, <1>4, <1>5, <2>1, <3>2 DEF OrNone
    <3>3. CASE w = t
      BY <1>2, <2>2, <3>3
    <3>4. CASE u # t /\ w # t
      BY <1>2, <2>2, <3>4 DEF FreshInv
    <3>5. QED
      BY <3>2, <3>3, <3>4
  <2>6. \A w \in Threads : call'[w].chk # r
    <3>1. TAKE w \in Threads
    <3>2. CASE w = t
      BY <1>2, <2>1, <3>2
    <3>3. CASE u = t /\ w # t
      BY <1>2, <1>4, <1>5, <2>1, <3>3 DEF OrNone
    <3>4. CASE u # t /\ w # t
      BY <1>2, <2>2, <3>4 DEF FreshInv
    <3>5. QED
      BY <3>2, <3>3, <3>4
  <2>7. QED
    BY <2>1, <2>3, <2>4, <2>5, <2>6 DEF Counted
<1>10. FreshInv'
  BY <1>9 DEF FreshInv, Counted
<1>11. QED
  BY <1>7, <1>10

\* The queue deletes one object.  What refers to it still either counts as an owner
\* or is unprotected; no new object is in the queue.
LEMMA DangRelease ==
  ASSUME Inv, Inv', OwnInv, NoDangling, FreshInv, NEW o \in Objects, NEW delete,
         o \in toRelease, AqueueRelease(o, delete)
  PROVE  /\ FreshInv'
         /\ \A x \in Pointers' \ live' :
              x = o /\ delete /\ (IsUnprotected(o) \/ RefCountSum(o) > 1)
<1>1. TypeOK /\ QueueOwnsOnce
  BY DEF Inv
<1>2. call' = call
  BY DEF AqueueRelease
<1>3. o \in live /\ o # None /\ aqueueRefCount[o] = 1
  BY <1>1, LifetimeAssumption DEF QueueOwnsOnce
<1>4. \A u \in Threads : /\ call[u].obj \in OrNone(live) /\ call[u].val \in OrNone(live)
                         /\ call[u].ret \in OrNone(live) /\ call[u].chk \in OrNone(live)
  BY <1>1, PointersLive
<1>5. \A c \in live, s \in Slots : item[c][s] \in OrNone(live)
  BY <1>1, PointersLive
<1>6. ASSUME NEW u \in Threads, IsFresh(u)
      PROVE  /\ call[u].ret \in Objects \ {o} /\ ~Counted(call[u].ret) /\ call[u].ret # None
             /\ \A c \in Objects, s \in Slots : item[c][s] # call[u].ret
  BY <1>1, <1>6, FreshIsUnknown DEF FreshInv, TypeOK, IsFresh
<1>7. ASSUME \A u \in Threads : IsFresh(u) => /\ id'[call[u].ret] = id[call[u].ret]
                                             /\ ~Counted(call[u].ret)'
      PROVE  FreshInv'
  BY <1>2, <1>7 DEF FreshInv, Counted, IsFresh
<1>8. CASE delete /\ DeleteSelf(o)
  <2>1. /\ live' = live \ {o} /\ id' = [id EXCEPT ![o] = None]
        /\ item' = [item EXCEPT ![o] = NoItems]
        /\ tesRefCount' = [tesRefCount EXCEPT ![o] = 0]
        /\ stackRefCount' = [stackRefCount EXCEPT ![o] = 0]
        /\ ReleaseItems(o, Slots, None, {o})
    BY <1>8 DEF DeleteSelf
  <2>2. ASSUME NEW u \in Threads, IsFresh(u)
        PROVE  id'[call[u].ret] = id[call[u].ret] /\ ~Counted(call[u].ret)'
    <3>1. PICK r \in Objects \ {o} : r = call[u].ret
      BY <1>6, <2>2
    <3>2. r \in Objects /\ ~Counted(r) /\ r # None /\ \A s \in Slots : item[o][s] # r
      BY <1>6, <2>2, <3>1
    <3>3. tesRefCount'[r] = tesRefCount[r] /\ stackRefCount'[r] = stackRefCount[r] /\ id'[r] = id[r]
      BY <1>1, <2>1, <3>1 DEF TypeOK
    <3>4. Slots \in SUBSET Slots
      OBVIOUS
    <3>5. ~Counted(r)'
      <4>1. PICK v, destroyed : v = None /\ destroyed = {o}
        OBVIOUS
      <4>2. ReleaseItems(o, Slots, v, destroyed)
        BY <2>1, <4>1
      <4>3. r \in Objects \ destroyed /\ r # v
        BY <3>1, <3>2, <4>1
      <4>4. \A s \in Slots : item[o][s] # r
        BY <3>2
      <4>5. ~Counted(r)
        BY <3>2
      <4>6. QED
        BY <1>1, <3>3, <3>4, <4>2, <4>3, <4>4, <4>5, UnreferencedStay
    <3>6. QED
      BY <1>2, <3>1, <3>3, <3>5 DEF Counted
  <2>3. ASSUME NEW x \in Pointers' \ live'
        PROVE  x = o /\ (IsUnprotected(o) \/ RefCountSum(o) > 1)
    <3>1. x # None
      BY DEF Pointers
    <3>2. HandlesNameTheirObjects' /\ QueueOwnsOnce'
      BY DEF Inv
    <3>3. (\A h \in Handles : handleMap'[h] # x) /\ x \notin queue' \union toRelease'
      BY <3>1, <3>2 DEF HandlesNameTheirObjects, QueueOwnsOnce
    <3>4. \A c \in live', s \in Slots : item'[c][s] = item[c][s] /\ c \in live /\ c \in Objects
      BY <1>1, <2>1 DEF TypeOK
    <3>5. \/ \E u \in Threads : x \in {call[u].obj, call[u].val, call[u].ret, call[u].chk}
          \/ \E c \in live, s \in Slots : c \in Objects /\ item[c][s] = x
      BY <1>2, <3>3, <3>4 DEF Pointers
    <3>6. x = o
      BY <1>4, <1>5, <2>1, <3>1, <3>5 DEF OrNone
    <3>7. CASE refCount[o] = 0 /\ stackRefCount[o] = 0
      <4>1. PICK u \in Threads : o \in {call[u].ret, call[u].chk}
        BY <1>3, <3>5, <3>6, <3>7, UncountedIsUnreferenced
      <4>2. ~IsFresh(u) \/ call[u].ret # o
        BY <1>6
      <4>3. QED
        BY <1>3, <3>6, <4>1, <4>2 DEF IsFresh, IsUnprotected
    <3>8. CASE ~(refCount[o] = 0 /\ stackRefCount[o] = 0)
      <4>1. refCount[o] \in Nat /\ tesRefCount[o] \in Nat /\ stackRefCount[o] \in Nat
        BY <1>1 DEF TypeOK
      <4>2. RefCountSum(o) > 1
        BY <1>3, <3>8, <4>1 DEF RefCountSum
      <4>3. QED
        BY <3>6, <4>2
    <3>9. QED
      BY <3>7, <3>8
  <2>4. QED
    BY <1>7, <1>8, <2>2, <2>3
<1>9. CASE /\ aqueueRefCount' = [aqueueRefCount EXCEPT ![o] = @ - 1]
           /\ UNCHANGED <<live, id, item, refCount, tesRefCount, stackRefCount>>
  <2>1. NoDangling'
    BY <1>2, <1>4, <1>5, <1>9, NothingDangles
  <2>2. ASSUME NEW u \in Threads, IsFresh(u)
        PROVE  id'[call[u].ret] = id[call[u].ret] /\ ~Counted(call[u].ret)'
    <3>1. PICK r \in Objects \ {o} : r = call[u].ret
      BY <1>6, <2>2
    <3>2. aqueueRefCount'[r] = aqueueRefCount[r]
      BY <1>1, <1>9, <3>1 DEF TypeOK
    <3>3. ~Counted(r)'
      BY <1>6, <1>9, <2>2, <3>1, <3>2 DEF Counted
    <3>4. QED
      BY <1>2, <1>9, <3>1, <3>3 DEF Counted
  <2>3. QED
    BY <1>7, <2>1, <2>2 DEF NoDangling
<1>10. QED
  BY <1>8, <1>9 DEF AqueueRelease, registry

\* Every step keeps the new objects to themselves, and loses an object that is in
\* use in the two ways only.
LEMMA DangStep ==
  ASSUME Inv, Inv', OwnInv, FreshInv, NoDangling, Next
  PROVE  /\ FreshInv'
         /\ \A o \in Pointers' \ live' :
              IsUnprotected(o) \/ (expiring.obj = o /\ RefCountSum(o) > 1)
<1>1. TypeOK /\ CallsAndExpiry
  BY DEF Inv
<1>2. SUFFICES ASSUME ~(NoDangling' /\ FreshInv') PROVE
               /\ FreshInv'
               /\ \A o \in Pointers' \ live' :
                    IsUnprotected(o) \/ (expiring.obj = o /\ RefCountSum(o) > 1)
  BY DEF NoDangling
<1>3. \A c \in live, s \in Slots : item[c][s] \in OrNone(live)
  BY <1>1, PointersLive
<1>4. \A o \in Objects \ live : item[o] = NoItems /\ \A s \in Slots : item[o][s] = None
  BY DEF OwnInv, FreeCells, NoItems
<1>5. CASE Tick
  <2>1. CASE TickCollect
    <3>1. UNCHANGED <<live, id, item, refCount, tesRefCount, stackRefCount, aqueueRefCount, call>>
      BY <2>1 DEF TickCollect, registry, counters
    <3>2. FreshInv'
      BY <3>1 DEF FreshInv, Counted, IsFresh
    <3>3. NoDangling'
      BY <1>1, <1>3, <3>1, PointersLive, NothingDangles
    <3>4. QED
      BY <1>2, <3>2, <3>3
  <2>2. CASE \E o \in Objects : TickCheck(o)
    <3>1. UNCHANGED <<live, id, item, refCount, tesRefCount, stackRefCount, aqueueRefCount, call>>
      BY <2>2 DEF TickCheck, registry, counters
    <3>2. FreshInv'
      BY <3>1 DEF FreshInv, Counted, IsFresh
    <3>3. NoDangling'
      BY <1>1, <1>3, <3>1, PointersLive, NothingDangles
    <3>4. QED
      BY <1>2, <3>2, <3>3
  <2>3. CASE \E o \in Objects : TickRelease(o)
    <3>1. PICK o \in Objects : TickRelease(o)
      BY <2>3
    <3>2. PICK delete : delete = OnlyOwnerIsAqueue(o)
      OBVIOUS
    <3>3. o \in toRelease /\ AqueueRelease(o, delete)
      BY <3>1, <3>2 DEF TickRelease
    <3>4. /\ FreshInv'
          /\ \A x \in Pointers' \ live' :
               x = o /\ delete /\ (IsUnprotected(o) \/ RefCountSum(o) > 1)
      BY <3>3, DangRelease
    <3>5. delete => ~(RefCountSum(o) > 1)
      <4>1. /\ refCount[o] \in Nat /\ tesRefCount[o] \in Nat /\ stackRefCount[o] \in Nat
            /\ aqueueRefCount[o] \in Int
        BY <1>1 DEF TypeOK
      <4>2. OnlyOwnerIsAqueue(o) => ~(RefCountSum(o) > 1)
        BY <4>1 DEF OnlyOwnerIsAqueue, RefCountSum
      <4>3. QED
        BY <3>2, <4>2
    <3>6. QED
      BY <3>4, <3>5
  <2>4. CASE TickAct
    <3>1. PICK o, delete : o = expiring.obj /\ delete = expiring.delete
      OBVIOUS
    <3>2. o \in Objects /\ o \in toRelease /\ AqueueRelease(o, delete)
      BY <1>1, <2>4, <3>1 DEF TickAct, CallsAndExpiry, TypeOK
    <3>3. /\ FreshInv'
          /\ \A x \in Pointers' \ live' :
               x = o /\ delete /\ (IsUnprotected(o) \/ RefCountSum(o) > 1)
      BY <3>2, DangRelease
    <3>4. QED
      BY <3>1, <3>3
  <2>5. QED
    BY <1>5, <2>1, <2>2, <2>3, <2>4 DEF Tick
<1>6. ASSUME NEW t \in Threads, BeginCall(t) PROVE NoDangling' /\ FreshInv'
  <2>1. ASSUME NEW fn \in Functions, NEW o \in Resolvable, NEW v \in OrNone(Resolvable),
               Begin(t, fn, o, v)
        PROVE  NoDangling' /\ FreshInv'
    BY <1>1, <2>1, DangBegin
  <2>2. ASSUME NEW o \in Objects, NewObject(t, o) PROVE NoDangling' /\ FreshInv'
    <3>1. PICK fn \in {"object"}, fresh \in SUBSET (Objects \ live) : fn = "object" /\ fresh = {}
      OBVIOUS
    <3>2. /\ o \notin live /\ o \notin fresh /\ Return(t, fn, o)
          /\ live' = live \union {o} \union fresh
          /\ UNCHANGED <<id, item, refCount, tesRefCount, stackRefCount, aqueueRefCount>>
      BY <2>2, <3>1 DEF NewObject, counters
    <3>3. \A x \in Objects \ fresh : refCount'[x] = refCount[x]
      BY <3>2
    <3>4. \A c \in live', s \in Slots : item'[c][s] \in OrNone(live')
      BY <1>3, <1>4, <3>1, <3>2 DEF OrNone
    <3>5. QED
      BY <1>1, <3>2, <3>3, <3>4, DangNew
  <2>3. ASSUME NEW o \in Objects, NEW child \in Objects, NEW s \in Slots, NewNested(t, o, child, s)
        PROVE  NoDangling' /\ FreshInv'
    <3>1. child \notin live
      BY <2>3 DEF NewNested
    <3>2. PICK fn \in {"objectFromPrototype"}, fresh \in SUBSET (Objects \ live) :
            fn = "objectFromPrototype" /\ fresh = {child}
      BY <3>1
    <3>3. /\ o \notin live /\ o \notin fresh /\ Return(t, fn, o)
          /\ live' = live \union {o} \union fresh
          /\ item' = [item EXCEPT ![o][s] = child]
          /\ refCount' = [refCount EXCEPT ![child] = 1]
          /\ UNCHANGED <<id, tesRefCount, stackRefCount, aqueueRefCount>>
      BY <2>3, <3>2 DEF NewNested
    <3>4. \A x \in Objects \ fresh : refCount'[x] = refCount[x]
      BY <1>1, <3>2, <3>3 DEF TypeOK
    <3>5. \A c \in live', r \in Slots : item'[c][r] \in OrNone(live')
      <4>1. TAKE c \in live', r \in Slots
      <4>2. c \in Objects /\ (c \in live \/ c = o \/ c = child)
        BY <1>1, <3>2, <3>3 DEF TypeOK
      <4>3. item[c][r] \in OrNone(live)
        BY <1>3, <1>4, <3>1, <3>3, <4>2 DEF OrNone
      <4>4. item'[c][r] \in {item[c][r], child}
        BY <1>1, <3>3, <4>2 DEF TypeOK
      <4>5. QED
        BY <3>2, <3>3, <4>3, <4>4 DEF OrNone
    <3>6. QED
      BY <1>1, <3>3, <3>4, <3>5, DangNew
  <2>4. QED
    BY <1>6, <2>1, <2>2, <2>3 DEF BeginCall
<1>7. ASSUME NEW t \in Threads, Continue(t) PROVE NoDangling' /\ FreshInv'
  <2>1. CASE \/ \E s \in Slots : SetObj(t, s)
             \/ Clear(t) \/ Retain(t) \/ Release(t) \/ ReleaseAndRetain(t) \/ ZeroLifetime(t)
    BY <2>1, DangBody
  <2>2. CASE Uid(t)
    BY <2>2, DangUid
  <2>3. CASE DropArgument(t, call[t].obj, None, call[t].val)
    <3>1. PICK o \in {call[t].obj, call[t].val}, obj \in {call[t].obj, None},
               val \in {call[t].val, None} : DropArgument(t, o, obj, val)
      BY <2>3
    <3>2. QED
      BY <3>1, DangDrop
  <2>4. CASE DropArgument(t, call[t].val, call[t].obj, None)
    <3>1. PICK o \in {call[t].obj, call[t].val}, obj \in {call[t].obj, None},
               val \in {call[t].val, None} : DropArgument(t, o, obj, val)
      BY <2>4
    <3>2. QED
      BY <3>1, DangDrop
  <2>5. CASE CheckDropped(t)
    BY <2>5, DangCheck
  <2>6. CASE \E s \in Slots : GetObj(t, s)
    BY <2>6, DangGetObj
  <2>7. QED
    BY <1>7, <2>1, <2>2, <2>3, <2>4, <2>5, <2>6 DEF Continue
<1>8. QED
  BY <1>2, <1>5, <1>6, <1>7 DEF Next

LEMMA FreshAlways == Spec => []FreshInv
<1>1. Init => FreshInv
  BY DEF Init, Idle, Frame, FreshInv, IsFresh
<1>2. Inv /\ Inv' /\ OwnInv /\ FreshInv /\ [Next]_vars => FreshInv'
  <2>1. CASE UNCHANGED vars
    <3>1. UNCHANGED <<id, refCount, tesRefCount, stackRefCount, aqueueRefCount, call>>
      BY <2>1 DEF vars, registry, counters
    <3>2. QED
      BY <3>1 DEF FreshInv, Counted, IsFresh
  <2>2. CASE Next
    BY <2>2, DangStep DEF Next
  <2>3. QED
    BY <2>1, <2>2
<1>3. QED
  BY <1>1, <1>2, Invariance, OwnAlways, PTL DEF Spec

\* No pointer outlives its object but in two ways, for every number of threads and
\* objects and both granularities of the steps: getObj's raw result or the object
\* that stack_release is about to test (bind_traits.h, object_base.hpp), and an owner
\* who came between the test of _aqueue_release and the deletion.  What a script has
\* just created is not in danger, nor is an argument, an item or a queued object.
THEOREM OnlyTheseAreDestroyedInUse == Spec => DestroyedInUse
<1> DEFINE Explained ==
      \A o \in Pointers' \ live' :
        \/ IsUnprotected(o)
        \/ expiring.obj = o /\ RefCountSum(o) > 1
<1>1. ASSUME Inv, Inv', OwnInv, FreshInv, [Next]_vars
      PROVE  [Explained]_vars
  <2>1. CASE UNCHANGED vars
    BY <2>1
  <2>2. CASE Next
    BY <1>1, <2>2, DangStep DEF Next
  <2>3. QED
    BY <1>1, <2>1, <2>2
<1>2. QED
  BY <1>1, Invariance, OwnAlways, FreshAlways, PTL DEF Spec, DestroyedInUse
=============================================================================
