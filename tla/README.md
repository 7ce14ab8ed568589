# JContainers-NG in TLA+

JContainers-NG is a plugin that gives the scripts of a game containers: arrays and
maps that may contain each other, are named by integer handles, live as long as
somebody owns them and are saved with the game. Scripts call it from several
threads ("heavy multithreaded dll", `doc/developer-readme.txt`), a timer thread of
its own deletes what nobody owns, and the game tells it when to save, load and
start anew.

This directory holds TLA+ models of it, TLC configurations that check them on small
instances, and proofs (TLAPS) of what holds for every instance. All paths below are
relative to `src/JContainers/src/` of the repository unless they start with `doc/`.
`PROJECT.json` maps every definition to the lines it models and lists the hazards of
the code with the properties that are about them.

## 1. Inventory

| Part | State it keeps | Operations | Correct when |
| --- | --- | --- | --- |
| `object/id_generator.h` | a deque of ranges of free identifiers, an iterator into it | new, reuse, clear, save, load, test | the ranges are the free identifiers, the iterator is usable |
| `object/object_registry.h` | the set of objects, the map from handles to objects, the generator | register, publish, remove, look up, filter | a handle names one live object or none |
| `object/object_base.h(pp)` | four owner counters (items, scripts, running calls, queue), the handle, the push time | retain and release of each kind, `uid`, deletion | an owned object is not deleted, an unowned one is |
| `object/autorelease_queue.h` | the queue, the entries being released, a wrapping tick counter, a timer | prolong, do not prolong, tick, start, stop, save, load | every entry is released in time, each object is owned once |
| `reflection/tes_binding.h`, `collections/bind_traits.h` | the stack references of a running call, the context of each function | resolve the arguments, convert the result | what a function works on stays alive |
| `object/garbage_collector.h` | none | mark from retained and queued objects, clear or delete the rest | only garbage goes, all of it does |
| `object/object_context.h(pp)` | registry, queue, dependent contexts | stop and start the queue, clear, load, save, collect | a load gives back what was saved |
| `collections/context.h(pp)` | the root object's handle and a cached pointer to it | get and set the root, load with error path | the cached root is the root |
| `domains/` | the default domain and the named ones | create, revert, save, load | domains stay apart and none is left stopped |
| `skse_callbacks.cpp`, `reflection/`, `jc_interface.cpp` | what the game offers, the functions registered, the API behind forms | load, register, serve events, serve other plugins | a function always finds its context |
| `forms/`, `skse/jc_skse.cpp` | watched forms: weak references to shared entries | watch, form deleted, form recycled, expire, name | an entry never stands for another form |
| `collections/` containers, `access.cpp`, `operators.h` | items under a spinlock per container | read, write, path walk | readers and writers agree |
| `collections/copying.h`, `json_serialization.h` | none | copy, write and read documents | the graph comes back |
| `collections/lua_*`, `InternalLuaScripts` | a pool of Lua states for each context | borrow, run, give back, clear | no state is lost or shared, each has the present root |
| `api_3/` | none of its own; `tes_jcontainers.h` works on the files | about 200 script functions | index and lifetime rules of the documentation |

How they interact. An API call turns handles into stack references under the
registry's read lock, runs a function that locks one container at a time, gives the
result a handle (`uid`, registry's write lock, queue's mutex) and drops the stack
references. Every release of whatever kind looks at all four counters and pushes the
object into the queue when none is left. The timer moves what has expired out of the
queue under its mutex, then drops the queue's references outside of it; the last
reference deletes the object, which takes its handle back to the generator and
releases what the object contained, which may push again. The garbage collector,
saving and loading stop the timer but not the scripts. A form that the game deletes
is flagged in the one entry that all references to it share. Each function of
Papyrus holds a pointer to a context for the whole session; each Lua state holds the
root object of its context from the time it was made.

What is hard: the timer against running calls, counters that are tested and changed
in separate steps, handles that are reused, a clock that wraps, deletions that
cascade through items into the queue, load errors, contexts that are created while
others are stopped, keys of a sorted map that change their order in place, loops of
scripts over containers that others change, graphs that share and contain themselves.

## 2. The modules

| Module | Models | Uses |
| --- | --- | --- |
| `IdAllocator` | what the registry needs of its handles (abstract) | - |
| `IdGenerator` | `id_generator.h`, implements `IdAllocator` | `IdAllocator` |
| `AutoreleaseClock` | the tick arithmetic of the queue | - |
| `ObjectLifetime` | counters, registry, queue, timer, call frame, functions | `AutoreleaseClock` |
| `Session` | domains, contexts, roots, revert, save, load, collection, restart | - |
| `FormObserver` | entries and references, form maps, the game's deletions | - |
| `FormHandling` | form identifiers and the strings for them | - |
| `Containers` | items, containers, keys, paths, operators | - |
| `Documents` | deep copies, JSON documents | `Containers`, `FormHandling` |
| `Files` | documents in files and directories | `Documents` |
| `ScriptApi` | JArray, JMap, JIntMap, JFormMap, JValue, JDB, JFormDB, JAtomic | `Files` |
| `Reading` | reads, searches, loops of scripts and of Lua, Papyrus arrays | `Containers` |
| `StringWrap` | JString.wrap | - |
| `Plugin` | loading, registration, contexts of domains, events, other plugins | - |
| `LuaContexts` | the pools of Lua states | `Plugin` |
| `*_proof` | theorems and their proofs | the module they are named after |
| `SequenceLemmas` | lemmas about sequences and finite sets | - |
| `MC*` | instances for TLC | |

### IdGenerator

The deque is a sequence of `[first, last]` records, the iterator an index into it;
the index one past the end is `end()`. Insertion and erasure move the other ranges
as in the deque, and the iterator is repaired by the same arithmetic as in the code.
`holders` is not in the generator: it counts the objects that hold each identifier,
which the generator has to agree with. `Save` writes the distance of the iterator
from the front, `Load` restores it against the saved ranges; a load also restores
the objects, so `holders` with it. The refinement mapping to `IdAllocator` keeps
`holders` and the saved `holders` and forgets the ranges.

### ObjectLifetime

| Model | Code |
| --- | --- |
| `live`, `handleMap`, `id` | `_all_objects`, `_map`, `_id` |
| `refCount`, `tesRefCount`, `stackRefCount`, `aqueueRefCount` | the four atomics of `object_base` |
| `item[o][s]` | the object that slot `s` of container `o` owns |
| `queue`, `toRelease`, `pushTime`, `tickCounter` | `_queue`, `_toRelease`, `_aqueue_push_time`, `_tickCounter` |
| `call[t]` | the frame of the API call thread `t` is in |
| `expiring` | the local result of `_aqueue_release`'s test |

A call is `idle -> body -> (return) -> drop -> idle`. `Begin` resolves the arguments
and takes the stack references, the function's own action runs the function, `Uid`
publishes what it returned as a raw pointer, `DropArgument` drops the references one
at a time. The functions are those that differ in what they do to owners: create
(`object`), create with content (`objectFromPrototype`, which stands for
`readFromFile` and `deepCopy` too), return a contained object (`getObj`), overwrite a
slot (`setObj`), empty a container (`clear`), and the five that scripts manage
lifetimes with. The timer is `TickCollect` (under the queue's mutex) and one
`TickRelease` per entry (outside of it).

Two sequences of the program are held together by no lock: the test of the counters
in `_aqueue_release` with what follows it, and the decrement in `stack_release` with
the test that follows. `Split` says which of them the model takes in two steps, so
that what goes wrong can be told from what would go wrong anyway.

Simplifications. An execution is followed up to the first dangling pointer; every
action is guarded by `NoDangling`, as the program's behaviour is undefined beyond.
`queue` and `toRelease` are sets, since the order of their entries decides nothing
(an object pushed twice shows in `aqueueRefCount`). The two arguments of a call are
resolved in one step. The deletion of an object and the release of what it contains
are one step, as are the decrement and the test of `release` and `tes_release`.
Handles are taken from the free ones in any order, which is what `IdGenerator` is
shown to provide. A handle that names nothing is a null argument, and a function
with a null first argument does nothing, so those calls are left out.

### Session

| Model | Code |
| --- | --- |
| `domains`, `activeNames` | `_domains`, `active_domain_names` of the master |
| `home`, `initialized` | the registry an object is in, `_context` |
| `item`, `refCount`, `tesRefCount`, `queued` | items, `_refCount`, `_tes_refCount`, `_aqueue_refCount` |
| `stack` | the objects Lua holds |
| `root`, `cachedRoot` | `_root_object_id`, `_cached_root` |
| `running` | the contexts whose queue has its timer |
| `load`, `disk` | where a load is, what the last save wrote |

Between the events of the game scripts work (`NewObject`, `SetItem`, `Retain`,
`ReleaseObjectsWithTag`, `LuaHold`, `Root`, ...) and timers release. `Revert` clears,
`Save` writes, `Restart` ends the program and starts it with other mods. A load is
`LoadBegin`, a `LoadDomain` for each domain of the archive or a `LoadFail` (before a
domain, in it, when its context has been created, or after the last), `LoadEnd`,
`Mark` and one `Collect` for each piece of garbage, in any order, then `LoadDone`.
`OtherSave` puts an archive of an older release, or one of a version that is not
supported, on the disk. Clock and handles are left out: an object the queue owns is
released by some tick, a handle is the object it names. Scripts may work in any
context here, more than registration lets them (see `domain_functions`).

Two constants say what the surroundings do. With `TaggedRoots` scripts may retain a
root with a tag of theirs and release by that tag, which takes the root's own
retention away (`collections/context.hpp:227`): `CachedRootIsRoot` is then violated.
The run and `RootsCorrect` are about scripts that do not. With `SlowLoads` a load may
last longer than a tick of two seconds, while a context that was created during the
load already has its timer (`domains/domain_master.cpp:273`) and deletes objects that
were just read. The run has it. `load.late` notes the contexts whose queue did so;
`LoadRestores` excepts what such a queue alone owned, and holds for all the rest.

### FormObserver, FormHandling

An entry is a form's identifier and the memory cell it is in, so that an entry that
was freed and one made later can be told apart and confused, as in the program. A
reference is an entry or null; what no container and no call refers to is freed
(`Held`). `watched` is the observer's map of weak pointers, `LockWeak` what locking
one gives. `OnFormDeleted` flags the watched entry; `CreateForm` may give an
identifier out again. A call that takes a form is `Begin`, `WatchForm`, then
`StoreValue` or `StoreKey`. `keys` is the sorted sequence of a `form_map`'s keys,
searched by `StableRank`. `Save`, `Load` and `LoadOlder` are the archives of this
and of older releases. `FormHandling` has identifiers (mod byte, light mods, forms
made in the game), the strings `__formData|mod|number` for them, and `WeakFormId`, the
identifier without its mod that a form gets as a value; the game's own look-up is
external.

### Containers, Documents, Files, ScriptApi

A heap is a sequence of containers, an item a type and an integer; names are
integers whose order is that of the case-insensitive comparison. A path is given as
its elements, a text that is no path as `<<>>`. Both implementations of paths are
there: `Resolve` with the rules for keys and for operators of `path_resolving`, and
`Get`, `VisitValue`, `Assign` of `ca`. `Documents` has `DeepCopy` with its list of
what was copied, `Write` with `__reference|path` for what was written before, and
`Read`, which resolves references after everything is read. `Files` has the disk,
and the functions of `JContainers` that list and remove what is on it.
`ScriptApi` is the state machine: one heap, whose root is at 1, and an action for
each function that changes it. What calls return is an operator. Each call is one
step, objects do not disappear: lifetimes are `ObjectLifetime`'s.

### Reading

One container of any kind and one loop over it, each call of which is a step, among
other scripts' changes and deletions of forms: `nextKey` of JMap, of JIntMap and
JFormMap, `findVal` in a loop, `pairs` and `ipairs` of Lua. `stayed` are the keys
that were there all the time of the loop, `seen` all it was given, `cut` whether the
loop lost its place: the key it was at was removed, or its form deleted in a loop whose
end key is not None (with None the loop begins again). `LocalFormID` is what is left of
a form that is passed as a value.
Reads are operators: by index, by key, by number of a key, searches, counts,
conversions, Papyrus arrays, Lua's values.

### StringWrap

One call of `wrap`. A text is letters, blanks and malformed bytes; a word is the range
of positions it was cut from. `AddLine` is a turn of `initialSet`, `Rebalance` one
line of a sweep, `NextSweep` the next of up to forty. `IsStuckAtBlanks` are the calls
whose first pass goes on for ever, with an empty line in each turn. The lengths' mean
square is multiplied out, so that integers stand for the code's floats.

### Plugin, LuaContexts

`Plugin` takes the game as it comes (`skse`: every combination of interfaces) and
goes through `Construct`, `Query`, `PluginLoad`, `RegisterAllFunctions`; then come
the game's events (`BeginClear`, `ClearState`, `ReadDomain`, `EndRead`) and other
plugins (`GetDomainWithName`). `callback` is the one static pointer per C++
function. `LuaContexts` adds the states (`owner`, `wrapper`), the pools and the
calls of `evalLua` (`Aquire`, `Create`, `EvalAndRelease`), and clears them with the
contexts. The Lua library itself is external. `CallsOutlive` says whether calls may
run while the game reverts or loads; they do not, by the comment at
`collections/context.hpp:91`.

## 3. The runs

| Run | Instance | Shows |
| --- | --- | --- |
| `id_generator` | 6 identifiers, 5 in use | `TypeOK`, `FreeIdsExact`, `RangesApart`, `CurrentRangeValid`, implements `IdAllocator` |
| `lifetime` | 2 threads, 2 objects, 1 slot, clock of 4, without `getObj` | `TypeOK`, `NoDangling`, `UnownedIsQueued`, `QueueAgeBounded` |
| `lifetime_liveness` | 1 thread with `getObj`, fair | `UnownedIsReclaimed` |
| `lifetime_split` | 2 threads with `getObj`, both sequences split | `HandlesNameTheirObjects`, `QueueOwnsOnce`, `CountersExact`, `AbandonedByTimerOnly`, `DestroyedInUse` |
| `session` | 3 containers, 2 domains, loads that break or take long | `CountersExact`, `UnownedIsQueued`, `CachedRootIsRoot`, `TimersRun`, `LoadRestores` |
| `forms` | 2 forms, 2 cells for entries each, 2 keys, 1 thread | `LivingShareWatched`, `KeysSearchable`, `ExpiredForGood`, `NextKeyIsNext` |
| `containers` | 3 containers, 3 items, 5 paths, integers of either sign, a form of the second mod | `DeepCopyIsSeparate`, `DocumentsReadBack`, `CreativeSetterReadsBack`, `PathsAgree`, `FormDbReadsBack`, `UniqueIsSet`, `OperatorsPick` |
| `iteration` | 1 container, 2 names, 3 numbers or 2 forms as keys, or 3 items, any end key, 2 forms that are one as values | `IterationsVisitStaying`, `ReadsAgree`, `PapyrusArraysAgree` |
| `wrap` | every text of up to 7 characters, lines of 1, 2, 3 and 5 | `WordsKept`, `NeverWorse`, `Finishes` |
| `lua` | 2 threads, 2 Lua states, an active and an inactive domain | `CallsAreServed`, `StatesInOnePlace`, `JdbIsRoot` |
| `domain_functions` | as `lua` | `DomainsHaveTheirOwn` fails |
| `expiry_owned` | 1 thread, test and deletion apart | `OwnedSurvive` fails |

Bounds. Six identifiers give up to three ranges, so that a range is created,
extended on either side and merged before, at and after the iterator, and the
iterator wraps. One is always free: the program has 2^31 - 3 of them and each takes
an object. Two objects give cycles, an object contained twice and one contained in
itself; a lifetime of two ticks (five in the program) and a clock of three or four
values give entries younger than, as old as and past a lifetime on both sides of the
wrap. `MaxTesRetains = 1` bounds what scripts retain, a bound of the scripts and not
of the program. Three containers in two domains give a chain, a cycle with an owner
and one without, and garbage on either side of it. Two forms and two cells per form
give the reuse of an identifier while the old entry is still held. Three containers
with three items give every way to share and to contain oneself. Seven characters
give three lines with an empty word; lines of 1 are those that may never be filled.
Two numbers of different sign tell the greatest from the least and from none (integer
maps and indexes have keys of their own). The form is one of the second mod, which its
value loses and its string as a key must not. Threads, objects, slots and handles are
interchangeable, hence the symmetry; the liveness runs have none.

`lifetime_split` switches deadlock detection off because executions end at a dangling
pointer there; `lua` and `domain_functions` because a plugin that is refused does
nothing more; `wrap` because a call ends, or is stuck and stops at `MaxLines`.
`NoDangling` and `UnownedIsQueued` fail in `lifetime_split`, since `stack_release` and
the caller of `getItem` use an object that they do not own, and since the timer
decides on counters that change. What the run has instead is that these are all the
ways: `DestroyedInUse` and `AbandonedByTimerOnly`.

What the two refutations say. `expiry_owned`: the timer decides to delete, a call
resolves the handle, the timer deletes under it; the comment at
`object/object_base.hpp:87` asks whether that is possible. `domain_functions`: "each
function will store a pointer to tes_context instance" (`skse_callbacks.cpp:232`),
but the pointer is a static of the C++ function, which the first registration sets
and any later one leaves: the functions registered under a domain's name work on the
default domain.

Fairness. `FairSpec` of `ObjectLifetime` assumes that the timer keeps ticking
(`u_startTimer` restarts it after each tick, and the worker thread runs nothing else)
and that a call that has begun runs to its end, since no step of it waits for another
call. Nothing makes scripts call. `UnownedIsReclaimed` is stated with "or is taken up
again", since a script may resolve a queued object's handle at any time. `FairSpec`
of `StringWrap` assumes that the thread in `wrap` goes on.

## 4. The proofs

Eight modules hold what no run can: the statements for every number of threads,
objects, forms, states and identifiers, for containers of any size and any keys. The
assumptions on constants stand in the modules that declare them, named, and are
evaluated by the runs; a theorem about a part of the instances only says which in its
`ASSUME`.

`ObjectLifetime_proof` begins with the clock: `TimeInversivity`, `AgeAdvances`,
`ExpiryOfPushed` for every width of the clock that is longer than a lifetime. The rest
is by the inductive invariant `Inv` of five parts. `TypeOK` is
inductive only together with `CallsAndExpiry`: a count does not go below zero because
the owner that leaves is known to be there, in a frame or in `expiring`.
`HandlesNameTheirObjects` and `QueueOwnsOnce` need each other (an object that leaves
takes its handle along and is in neither set of the queue), and `QueueAgeBounded`
rests on the clock's lemmas. A deletion cascades through items into the queue:
`RequeueKeeps` and `ReleaseItemsKeeps` say what that changes, once for all the
actions that release. The parts hold for either granularity.

Its second half is about owners. `CountersCorrect` (any `Split`): the items and the
frames that refer to an object are counted, by `OwnInv`: frames are of the shape their
function has (`FrameInv`), `ItemCount`, `StackCount`, and slots of destroyed objects
are empty (`FreeCells`). `OnlyTheTimerAbandons` (`AbandonedByTimerOnly`) and
`OnlyTheseAreDestroyedInUse` (`DestroyedInUse`) assume nothing of `Split` and leave
out no function; they are about the program as it takes its steps. What nobody owns
stays with the queue if each live object is either counted by someone or awaited by a
thread that is about to test its counters; `HeldBut(L)` says so of all but those in a
set, and `HeldStep` that a step keeps it for any set, if the timer does not let go of
an object outside of it on an outdated test. With the objects that are abandoned
before the step as the set, this is the first theorem. For the second, what an object
is reachable by when it is destroyed is looked up in the frames: a pointer is counted,
or freshly made and not yet known to anyone (`FreshInv`), or one of the unprotected
ones that the property names (`DangStep`).

`Session_proof`: `Types` (with where a load may wait), `TimersRun`, `CountsInv`,
`OwnedOrGarbage`, `RootsInv` and `RestoreInv`, in this order, each by the ones before.
Counts agree with the owners in use, after a load and after each piece of garbage;
what nobody owns is queued or is garbage of the load in progress. `RootsCorrect`
assumes that scripts release what they retained (`~TaggedRoots`; TLC refutes it
without). By `DefaultWaits` the queue of the default context, the only one whose root
may come without a retention, stands still during a load.

`LoadsRestore` proves the action property `LoadRestores`. `RestoreInv` says for each
stage of a load how the objects compare with the save: what was read is as it was
saved (`ReadInv`), then the active domains are (`MarkInv`), then what is worth keeping
(`CollectInv`); and of the save that what it has is in one of its domains
(`SavedWhole`). No induction over the graph is needed: the model defines what is worth
keeping as the least set that is closed under the saved items, and what the collector
does not visit by closed sets as well, so that each direction of `MarkRestore` is one
closed set. There the collector's roots are shown to be the owners in the save; the
root of an old save is one, as `UpdatedTes` has just retained it. `LeftOverQueued`
adds the counts: once the garbage is cleared nothing refers to what is left of it, and
with `OwnedOrGarbage` it is queued. Neither `~TaggedRoots` nor `~SlowLoads` is
assumed: what a queue that ticked during the load had alone is left out of what must
come back (`late`), and since items and their containers are of one domain the rest of
a save is out of its reach.

`IdGenerator_proof`: `Good` says of the generator, and of the one in the save, that
its ranges are in order and apart (`Ordered`), hold exactly the identifiers without
holder (`Exact`), that no identifier has two holders, and that at most `MaxObjects`
are in use. The last is what keeps the deque from being empty, on which the iterator
depends: hence `MaxObjects =< MaxId - MinId`, which 2^31 - 3 identifiers and one
object for each justify. Insertion, extension, merge and erasure are lemmas on
sequences of ranges. `Refinement` maps every step to one of `IdAllocator` or none.

`FormObserver_proof`: `Types`, `LivingShareWatched`, the order of living keys
(`KeysSorted`), the same for what was saved (`SavedInv`). Expired keys stay where
they are and are passed over; the deletion of a form changes what is living among
all keys at once and leaves the rest in order. `KeysSearchable` follows, and the
action properties `ExpiredForGood` (`ExpiryIsFinal`) and `NextKeyIsNext`
(`LoopsVisitTheNextKey`).

`LuaContexts_proof`: `CallsStayServed` for `PluginInv`, without assumption: every
callback is the default context, and contexts exist from the first registration on.
`StatesHaveOnePlace`, by `StatesInv`, needs none either: a state is at one place of
one pool or with one call, and clearing closes those in pools only.
`WrappersFollowRoots` assumes `~CallsOutlive`: a clearing that finds no call closes
every state of the context. With calls in progress TLC refutes it.

`Reading_proof`: loops and reads of containers of any size, under any changes by other
scripts. `NothingStayingMissed` (`IterationsVisitStaying`) is by `IInv`, which adds to
`TypeOK` what the loop keeps (`LoopOK`): unless it was cut, every key or item that
stayed is passed over by this kind of loop, was given to it, or is still ahead of the
loop's place; and what it was given is in order, up to that place, but where it began
again (`KeepsPlace`, `BeginsIsPassed`). `FirstWanted` says what the next key should
be, the least one ahead that the loop does not pass over, and `NextIsFirstWanted` that
each way to ask for it gives that one: the index after or `findVal` from there
(`NextOfArray`), `nextKey` with an end key of JIntMap and JFormMap
(`NextOfPapyrusMap`), that of JMap and of Lua (`NextOfNextKey`). Other scripts'
changes are of two kinds, one that sets items or removes keys and moves nothing
(`BecomeStep`) and one that shifts the items of an array (`ShiftStep`). A deleted form
makes keys or items equal to None: equal ones stay equal (`DeletedStays`), so that a
loop whose end key is None may begin again but misses nothing; nothing is forgotten of
what it was given before. `ReadsTellTheSame` (`ReadsAgree`) compares reads of the same
item by index from the front and from the back, by key and by the key's number, and
searches with reads and with the count; the numbers of keys are ranks in a finite set.
The index that a search from the back returns is not in it (section 5). `CopiesAgree`
(`PapyrusArraysAgree`) is index arithmetic: `Written` says which items a copy to an
array of Papyrus takes, `PiecesAgree` that copies in pieces make the whole; the items
come back, but for forms that are not what is left of them without their mod.

`StringWrap_proof`: for every text, width and number of sweeps. `KeepsWords`
(`WordsKept`) is by `IInv`: a line begins at the beginning of the text or at a blank,
and no word on the lines reaches past what was cut (`Progress`). `SplitProps` says that
`split_range` cuts a range at its blanks and nowhere else, `BreakProps` that a line is
broken at a blank or at the end, at no place past the text; together they make a turn
of the first pass add the words of its range (`CutWords`). A move between lines keeps
the words and their order, since the places before and after correspond one for one
(`TakeKeeps`), and the reverse of a move restores the lines word for word
(`GiveUndoesTake`, `TakeUndoesGive`): hence `GetsNoWorse` (`NeverWorse`), whatever the
first pass left. `TextOfLine` says that the text of a line is as long as the length
counted for it, with each word in its place. Sums and texts are recursive functions
over a range of numbers, for which induction over a set of numbers is enough
(`Induction`, `Iterate` of `SequenceLemmas`).

`SequenceLemmas` has what these share: `Append`, `SubSeq`, insertion, replacement and
removal, sequences without repetition, the members of a finite set of integers in order
(`Ranks`, `LeastAndGreatest`, `Ascending`), and functions defined by recursion up to a
number.

Only model-checked:

- Liveness (`UnownedIsReclaimed`, `Finishes`), which needs fairness and `ENABLED`.
- `NoDangling` and `UnownedIsQueued` of `ObjectLifetime`, which are true of the
  checked instance with releases in one step and without `getObj` only.
  `AbandonedByTimerOnly` and `DestroyedInUse` are what is proved in their place.
- `Containers`, `Documents`, `ScriptApi`: folds and recursive functions over graphs,
  paths and trees, whose results need induction over data, on functions that are built
  with `:>` and `@@`, which the prover leaves opaque. `PathsAgree` holds for the
  checked instance only, besides: in a form map with the form 0 as a key, the two
  implementations of paths differ on it, and documents could bring that key where a
  mod's name stands for another number than it was written for.
- `DomainsHaveTheirOwn` and `OwnedSurvive` are false, and refuted by runs.

## 5. Where the code and its words differ, without a run

Seen while modelling; the models follow the code.

- Forms. A value is watched under the local identifier of a form
  (`forms/form_observer.hpp:319`), a key under the whole one: two forms of different
  mods with the same number are one value, and a form read back is one of the first
  mod. The name for the index of a light mod is looked up among the other mods
  (`skse/jc_skse.cpp:200`, against `jc_skse.h:35`), so that the string for a form of a
  light mod names another form or none; `DocumentsReadBack` is about the other forms.
  `resolve_handle` returns what it is given (`jc_skse.cpp:205`), so that a save does
  not follow mods that moved. The log line of `lookup_form` reads a form that may be
  null (`jc_skse.cpp:313`).
- Lifetimes. An object unlinked while it waits in the queue gets no new lifetime
  (`object/object_base.hpp:125`); `zeroLifetime` expires contained objects too
  (`object/autorelease_queue.h:176`); the queue that sees another owner lets go even
  if that owner is leaving (`object/object_base.hpp:80`).
- Paths. The rules for operators and for indexes read an item that is null if a key
  is missing (`collections/access.cpp:145`, `284`). `creative_accessor` leaves a key
  behind when the rest of the text is malformed (`access.cpp:471`).
- `JFormDB.hasPath` takes its path as a key (`api_3/tes_form_db.h:188`, against the
  description at 191), and `solve` setters create the entry whatever
  `createMissingKeys` says.
- Indexes. `convertReadIndex` has no lower bound (`collections/functions.h:16`).
  `findVal` from a negative index returns one more than the index of the item
  (`api_3/tes_array.h:231`, against "returns the index of the first found value" at
  238-241). `writeToPapyrusArray` returns false for an array without items and for the
  reverse order that its description has (line 450, against 485) and reads without
  conversion. `addFromFormList` inserts in reverse order.
- Loops. `nextKey` starts again at the first key when the form it is at is deleted
  (`collections/functions.h:188`, against "returns @endKey ('invalid' key) only once",
  `api_3/tes_map.h:280`): the script is given again what it had. With an end key of
  its own such a loop ends there instead. `nextKey` of JMap takes the key after the
  end key where the description begins with the first (`api_3/tes_map.h:277`, against
  297, where `endKey` is what an end returns and nothing else); and a key `""`, which
  a document may bring, ends a loop. Lua's `pairs` ends at a deleted form, and at the
  first expired key. Lua has no wrapper for integer maps.
- Atomic access. `compareExchange` returns 0 for an item that is None or missing
  (`api_3/tes_atomic.h:98`); `fetchDiv` and `fetchMod` by zero are undefined.
- Documents. Names with `.` or `[` break the paths of references.
- Plugin. Without a messaging interface the warning reads the version of none
  (`skse_callbacks.cpp:202`). A load that fails leaves the contexts of inactive
  domains until the next event (`domains/domain_master.cpp:224`).
  `contentsOfDirectoryAtPath` lists all files for any extension, and for `""` only
  those without one (`api_3/tes_jcontainers.h:134`).
- Lua. `reopen_if_closed` waits and warns when it succeeds and does neither when it
  fails (`collections/lua_module.cpp:102`); a state whose `init.lua` failed stays in
  the pool; each call leaves values on the state's stack.
- `wrap` of a text of one blank never ends, nor does that of any text with a blank at
  one character per line (`api_3/string_wrapper.cpp:269-294`): the line that is cut is
  empty and the rest stays the same. The run has these calls; `Finishes` excepts them.

## 6. What is not modelled, and why

- Vendored code (`src/dep/common`), `json_handling.h` (an older copy nothing
  includes), tests, and the generation of Papyrus stubs at build time.
- Parsing and printing of numbers, strings, paths and JSON; logging; the version
  numbers and the directory of `JContainers`; `generateUUID`.
- The Lua interpreter and the scripts it runs; of Lua there is what crosses the
  border.
- The locks themselves: what a lock protects is one step. Two containers' locks taken
  crosswise, or one taken twice, block for ever; a model of the locks alone would
  repeat the lines that take them.
- Two scripts inside one walk of a path (`access.cpp:145`), and the test and the
  decrement of `tes_release` as two steps (`api_3/tes_object.h:118`).
- The setters by path and the arguments for Lua of other types than integers and the
  other functions of `JAtomic`, which differ in the item they make only.

The definitions cover three tenths of the lines of C++, vendored code, generated
tables and declarations included; the rest of the plugin's own code is forwarding,
logging, conversion templates and documentation strings.
