------------------------- MODULE LuaContexts_proof -------------------------
(***************************************************************************)
(* Proofs about LuaContexts and the Plugin in it, for any functions,       *)
(* domains, Lua states and threads.                                        *)
(*                                                                         *)
(* The inductive invariant has two parts.  PluginInv keeps what calls of   *)
(* the script API rely on: the contexts that exist are the default         *)
(* domain's and those of the domains, whoever other plugins asked for is   *)
(* active, and every callback is the default context.  StatesInv says      *)
(* where each Lua state is: in the pool of the context it belongs to, at   *)
(* one place, or in the hands of one call, also when calls go on while the *)
(* game reverts or loads.  If they do not, all states of a context are in  *)
(* its pool when it is cleared, and clearing closes them all: that is why  *)
(* none outlives the root its JDB wraps.                                   *)
(***************************************************************************)
EXTENDS LuaContexts, SequenceLemmas

-----------------------------------------------------------------------------
(* The inductive invariant *)

\* Nothing is registered, or all functions are, for the default context.
Callbacks ==
  \/ vm = {} /\ callback = [f \in Registry |-> NoContext] /\ stage # "running"
  \/ /\ \A f \in vm : f[2] \in Registry
     /\ callback = [f \in Registry |-> Default]
     /\ stage = "running"

\* The contexts that exist are in use, those that were handed out are of active domains.
ContextsKept ==
  /\ Range(domains) \subseteq Contexts
  /\ living = {Default} \union Range(domains)
  /\ \A c \in cached : \E n \in ActiveNames \intersect DOMAIN domains : c = domains[n]

\* Only what runs within revert() and load() finds the silent API.
ApiKept == stage = "running" /\ event # "clear" => api = "real"

PluginInv == event \in {"none", "clear", "read"} /\ Callbacks /\ ContextsKept /\ ApiKept

Frames ==
  {Idle} \union { Frame("create", c, NoState) : c \in Contexts }
         \union { Frame("eval", p[1], p[2]) : p \in Contexts \X LuaStates }

LuaTypes ==
  /\ owner \in [LuaStates -> Contexts \union {NoContext}]
  /\ wrapper \in [LuaStates -> Nat]
  /\ pool \in [Contexts -> Seq(LuaStates)]
  /\ acquired \in [Contexts -> Int]
  /\ root \in [Contexts -> Nat]
  /\ made \in Nat
  /\ call \in [Threads -> Frames]

\* The state of context c waits in its pool at index i.
Waits(l, c, i) == i \in 1 .. Len(pool[c]) /\ pool[c][i] = l

\* A state in a pool is the pool's and is there once.
PoolsInv ==
  \A l \in LuaStates, c \in Contexts, i \in Nat :
    Waits(l, c, i) => owner[l] = c /\ \A k \in Nat : Waits(l, c, k) => k = i

\* A state in a call is of the call's context, in no other call and in no pool.
UsersInv ==
  \A l \in LuaStates, t \in Threads :
    call[t].lua = l =>
      /\ owner[l] = call[t].context
      /\ \A u \in Threads : call[u].lua = l => u = t
      /\ \A c \in Contexts, i \in Nat : ~Waits(l, c, i)

\* No state is lost.
FoundInv ==
  \A l \in LuaStates :
    Exists(l) => \/ \E t \in Threads : call[t].lua = l
                 \/ \E i \in Nat : Waits(l, owner[l], i)

Users(c) == { t \in Threads : call[t].context = c }

CountInv == \A c \in Contexts : acquired[c] = Cardinality(Users(c))

StatesInv == PoolsInv /\ UsersInv /\ FoundInv /\ CountInv

\* Calls and the game's events exclude each other.
QuietEvents == event # "none" => \A t \in Threads : call[t] = Idle

IInv == PluginInv /\ LuaTypes /\ StatesInv

RootsInv == QuietEvents /\ JdbIsRoot

-----------------------------------------------------------------------------
(* The plugin *)

LEMMA PluginFacts ==
  ASSUME PluginInv
  PROVE  /\ Default \in Contexts /\ NoContext \notin Contexts
         /\ living \subseteq Contexts
         /\ \A f \in vm : ContextOf(f) = Default /\ ContextOf(f) \in living
         /\ cached \subseteq living
<1>1. Default \in Contexts /\ NoContext \notin Contexts
  BY PluginAssumption DEF Default, NoContext, Contexts
<1>2. living \subseteq Contexts
  BY <1>1 DEF PluginInv, ContextsKept
<1>3. \A f \in vm : ContextOf(f) = Default
  BY DEF PluginInv, Callbacks, ContextOf
<1>4. Default \in living
  BY DEF PluginInv, ContextsKept
<1>5. cached \subseteq living
  BY DEF PluginInv, ContextsKept, Range
<1>6. QED
  BY <1>1, <1>2, <1>3, <1>4, <1>5

LEMMA InitPlugin == PluginInit => PluginInv
<1>1. SUFFICES ASSUME PluginInit PROVE PluginInv
  OBVIOUS
<1>2. Range(domains) = {}
  BY <1>1 DEF PluginInit, Range
<1>3. ContextsKept
  BY <1>1, <1>2 DEF PluginInit, ContextsKept
<1>4. QED
  BY <1>1, <1>3 DEF PluginInit, PluginInv, Callbacks, ApiKept

\* Deleting the inactive domains keeps every context another plugin was given.
LEMMA DeletionKeeps ==
  ASSUME PluginInv, DeleteInactiveDomains, UNCHANGED cached
  PROVE  ContextsKept'
<1> DEFINE Kept == DOMAIN domains \intersect ActiveNames
<1>1. domains' = [n \in Kept |-> domains[n]]
  BY DEF DeleteInactiveDomains, KeptDomains, Restrict
<1>2. DOMAIN domains' = Kept /\ \A n \in Kept : domains'[n] = domains[n]
  BY <1>1
<1>3. Range(domains') \subseteq Range(domains)
  BY <1>2 DEF Range
<1>4. Range(domains)' \subseteq Contexts
  BY <1>3 DEF PluginInv, ContextsKept, Range
<1>5. living' = {Default} \union Range(domains)'
  BY DEF DeleteInactiveDomains, Range
<1>6. ASSUME NEW c \in cached'
      PROVE  \E n \in ActiveNames \intersect DOMAIN domains' : c = domains'[n]
  <2>1. PICK n \in ActiveNames \intersect DOMAIN domains : c = domains[n]
    BY <1>6 DEF PluginInv, ContextsKept
  <2>2. QED
    BY <2>1, <1>2
<1>7. QED
  BY <1>4, <1>5, <1>6 DEF ContextsKept, Contexts

\* A domain that is made gets a context that none had, and no other one loses its own.
LEMMA CreationKeeps ==
  ASSUME PluginInv, NEW name, NEW context \in Contexts, GetOrCreate(name, context),
         \/ UNCHANGED cached
         \/ name \in ActiveNames /\ cached' = cached \union {context}
  PROVE  ContextsKept'
<1>1. CASE name \in DOMAIN domains
  <2>1. context = domains[name] /\ domains' = domains /\ living' = living
    BY <1>1 DEF GetOrCreate
  <2>2. \A c \in cached' : \E n \in ActiveNames \intersect DOMAIN domains' : c = domains'[n]
    BY <1>1, <2>1 DEF PluginInv, ContextsKept
  <2>3. QED
    BY <2>1, <2>2 DEF PluginInv, ContextsKept, Range, Contexts
<1>2. CASE name \notin DOMAIN domains
  <2>1. domains' = [n \in DOMAIN domains \union {name} |-> IF n = name THEN context ELSE domains[n]]
    BY <1>2 DEF GetOrCreate
  <2>2. living' = living \union {context}
    BY <1>2 DEF GetOrCreate
  <2>3. /\ DOMAIN domains' = DOMAIN domains \union {name}
        /\ domains'[name] = context
        /\ \A n \in DOMAIN domains : domains'[n] = domains[n]
    BY <2>1, <1>2
  <2>4. Range(domains') = Range(domains) \union {context}
    BY <2>3 DEF Range
  <2>5. Range(domains)' = Range(domains')
    BY DEF Range
  <2>6. \A c \in cached' : \E n \in ActiveNames \intersect DOMAIN domains' : c = domains'[n]
    BY <2>3 DEF PluginInv, ContextsKept
  <2>7. QED
    BY <2>2, <2>4, <2>5, <2>6 DEF PluginInv, ContextsKept, Contexts
<1>3. QED
  BY <1>1, <1>2

LEMMA RegisterKeeps ==
  ASSUME PluginInv, RegisterAllFunctions
  PROVE  PluginInv'
<1>1. stage = "loaded" /\ stage' = "running"
  BY DEF RegisterAllFunctions
<1>2. callback = [f \in Registry |-> NoContext]
  BY <1>1 DEF PluginInv, Callbacks
<1>3. \A f \in Registry : Initialized(f, Default) = Default
  BY <1>2 DEF Initialized
<1>4. callback' = [f \in Registry |-> Default]
  BY <1>3 DEF RegisterAllFunctions
<1>5. \A f \in vm' : f[2] \in Registry
  BY DEF RegisterAllFunctions, RegisteredFunctions, Bind, AmalgamateClasses
<1>6. Callbacks'
  BY <1>1, <1>4, <1>5 DEF Callbacks
<1>7. PICK new \in [DOMAIN domains \union ActiveNames -> Contexts] :
        DomainsMade(new) /\ domains' = new /\ living' = {Default} \union Range(new)
  BY DEF RegisterAllFunctions
<1>8. /\ DOMAIN domains \subseteq DOMAIN domains'
      /\ \A n \in DOMAIN domains : domains'[n] = domains[n]
      /\ Range(domains)' \subseteq Contexts
      /\ living' = {Default} \union Range(domains)'
  BY <1>7 DEF DomainsMade, Range
<1>9. \A c \in cached' : \E n \in ActiveNames \intersect DOMAIN domains' : c = domains'[n]
  BY <1>8 DEF RegisterAllFunctions, PluginInv, ContextsKept
<1>10. ContextsKept'
  BY <1>8, <1>9 DEF ContextsKept, Contexts
<1>11. api' = "real" /\ event' = event
  BY DEF RegisterAllFunctions, UseApi
<1>12. QED
  BY <1>6, <1>10, <1>11 DEF PluginInv, ApiKept

\* What a step does to the plugin's own state.
PluginMoves ==
  \/ PluginStep \/ BeginClear \/ ClearState
  \/ \E complete \in BOOLEAN : EndRead(complete)
  \/ UNCHANGED pluginVars

LEMMA PluginInvStep ==
  ASSUME PluginInv, PluginMoves
  PROVE  PluginInv'
<1> USE DEF PluginInv
<1>1. ASSUME UNCHANGED <<domains, living, cached>> PROVE ContextsKept'
  BY <1>1 DEF ContextsKept, Range, Contexts
<1>2. ASSUME UNCHANGED <<vm, callback>>, stage' = "running" <=> stage = "running"
      PROVE  Callbacks'
  BY <1>2 DEF Callbacks
<1>3. CASE Construct \/ Query \/ PluginLoad
  <2>1. UNCHANGED <<api, vm, callback, domains, living, cached, event>>
    BY <1>3 DEF Construct, Query, PluginLoad
  <2>2. stage # "running" /\ stage' # "running"
    BY <1>3 DEF Construct, Query, PluginLoad
  <2>3. QED
    BY <1>1, <1>2, <2>1, <2>2 DEF ApiKept
<1>4. CASE RegisterAllFunctions
  BY <1>4, RegisterKeeps
<1>5. CASE GetDomainWithName
  <2>1. UNCHANGED <<stage, api, vm, callback, event>>
    BY <1>5 DEF GetDomainWithName
  <2>2. PICK name \in ActiveNames, context \in Contexts :
          GetOrCreate(name, context) /\ cached' = cached \union {context}
    BY <1>5 DEF GetDomainWithName
  <2>3. ContextsKept'
    BY <2>2, CreationKeeps
  <2>4. QED
    BY <1>2, <2>1, <2>3 DEF ApiKept
<1>6. CASE ReadDomain
  <2>1. UNCHANGED <<stage, api, vm, callback, cached, event>>
    BY <1>6 DEF ReadDomain
  <2>2. PICK name \in SavedNames, context \in Contexts : GetOrCreate(name, context)
    BY <1>6 DEF ReadDomain
  <2>3. ContextsKept'
    BY <2>1, <2>2, CreationKeeps
  <2>4. QED
    BY <1>2, <2>1, <2>3 DEF ApiKept
<1>7. CASE BeginClear
  BY <1>1, <1>2, <1>7 DEF BeginClear, ApiKept
<1>8. CASE ClearState
  <2>1. ContextsKept'
    BY <1>8, DeletionKeeps DEF ClearState
  <2>2. api' = "real" /\ UNCHANGED <<stage, vm, callback>> /\ event' \in {"none", "read"}
    BY <1>8 DEF ClearState, UseApi
  <2>3. QED
    BY <1>2, <2>1, <2>2 DEF ApiKept
<1>9. CASE \E complete \in BOOLEAN : EndRead(complete)
  <2>1. PICK complete \in BOOLEAN : EndRead(complete)
    BY <1>9
  <2>2. event = "read" /\ event' = "none" /\ UNCHANGED <<stage, api, vm, callback, cached>>
    BY <2>1 DEF EndRead
  <2>3. CASE complete
    BY <1>2, <2>1, <2>2, <2>3, DeletionKeeps DEF EndRead, ApiKept
  <2>4. CASE ~complete
    BY <1>1, <1>2, <2>1, <2>2, <2>4 DEF EndRead, ApiKept
  <2>5. QED
    BY <2>3, <2>4
<1>10. CASE UNCHANGED pluginVars
  BY <1>1, <1>2, <1>10 DEF pluginVars, ApiKept
<1>11. QED
  BY <1>3, <1>4, <1>5, <1>6, <1>7, <1>8, <1>9, <1>10 DEF PluginMoves, PluginStep

LEMMA NextMovesPlugin == [Next]_vars => PluginMoves
<1>1. ASSUME ClearLua PROVE PluginMoves
  BY <1>1 DEF ClearLua, PluginMoves
<1>2. ASSUME EndLoad PROVE PluginMoves
  BY <1>2 DEF EndLoad, PluginMoves
<1>3. ASSUME LoadRoot \/ UseRoot \/ UNCHANGED vars PROVE UNCHANGED pluginVars
  BY <1>3 DEF LoadRoot, UseRoot, vars
<1>4. ASSUME NEW t \in Threads, Aquire(t) \/ Create(t) \/ EvalAndRelease(t)
      PROVE  UNCHANGED pluginVars
  BY <1>4 DEF Aquire, Create, EvalAndRelease
<1>5. QED
  BY <1>1, <1>2, <1>3, <1>4 DEF Next, PluginMoves

\* Whatever is reverted, loaded, fails to load or asks for a domain: every function
\* Papyrus knows finds a callback to a context that exists, so does every plugin the
\* context it was given, and scripts find the real API when no callback of the game runs.
THEOREM CallsStayServed == Spec => []CallsAreServed
<1>1. Init => PluginInv
  BY InitPlugin DEF Init
<1>2. PluginInv /\ [Next]_vars => PluginInv'
  BY PluginInvStep, NextMovesPlugin
<1>3. PluginInv => CallsAreServed
  <2>1. SUFFICES ASSUME PluginInv PROVE CallsAreServed
    OBVIOUS
  <2>2. stage = "running" /\ event = "none" => api = "real"
    BY <2>1 DEF PluginInv, ApiKept
  <2>3. QED
    BY <2>1, <2>2, PluginFacts DEF CallsAreServed
<1>4. QED
  BY <1>1, <1>2, <1>3, PTL DEF Spec

-----------------------------------------------------------------------------
(* Types *)

LEMMA FrameFacts ==
  /\ Idle \in Frames
  /\ Idle.pc = "idle" /\ Idle.context = NoContext /\ Idle.lua = NoState
  /\ \A c \in Contexts :
       /\ Frame("create", c, NoState) \in Frames
       /\ Frame("create", c, NoState).context = c /\ Frame("create", c, NoState).lua = NoState
  /\ \A c \in Contexts, l \in LuaStates :
       /\ Frame("eval", c, l) \in Frames
       /\ Frame("eval", c, l).context = c /\ Frame("eval", c, l).lua = l
  /\ \A f \in Frames : f.pc = "create" => f.context \in Contexts /\ f.lua = NoState
  /\ \A f \in Frames : f.pc = "eval" => f.context \in Contexts /\ f.lua \in LuaStates
  /\ \A f \in Frames : f.lua \in LuaStates => f.context \in Contexts
<1>1. \A c \in Contexts, l \in LuaStates : <<c, l>> \in Contexts \X LuaStates
  OBVIOUS
<1>2. \A c \in Contexts, l \in LuaStates : Frame("eval", c, l) \in Frames
  <2>1. TAKE c \in Contexts, l \in LuaStates
  <2>2. <<c, l>> \in Contexts \X LuaStates /\ <<c, l>>[1] = c /\ <<c, l>>[2] = l
    OBVIOUS
  <2>3. QED
    BY <2>2 DEF Frames
<1>3. /\ Idle \in Frames
      /\ Idle.pc = "idle" /\ Idle.context = NoContext /\ Idle.lua = NoState
  BY DEF Frames, Frame, Idle
<1>4. ASSUME NEW f \in Frames
      PROVE  \/ f = Idle
             \/ \E c \in Contexts : f = Frame("create", c, NoState)
             \/ \E c \in Contexts, l \in LuaStates : f = Frame("eval", c, l)
  BY DEF Frames
<1>5. \A c \in Contexts :
        /\ Frame("create", c, NoState) \in Frames
        /\ Frame("create", c, NoState).pc = "create"
        /\ Frame("create", c, NoState).context = c /\ Frame("create", c, NoState).lua = NoState
  BY DEF Frames, Frame
<1>6. \A c \in Contexts, l \in LuaStates :
        /\ Frame("eval", c, l).pc = "eval"
        /\ Frame("eval", c, l).context = c /\ Frame("eval", c, l).lua = l
  BY DEF Frame
<1>7. QED
  BY <1>2, <1>3, <1>4, <1>5, <1>6, LuaAssumption

LEMMA ClosedFacts ==
  ASSUME LuaTypes, NEW C, C \subseteq Contexts
  PROVE  \A l \in LuaStates : l \in Closed(C) <=> \E c \in C, i \in Nat : Waits(l, c, i)
<1>1. \A c \in Contexts : DOMAIN pool[c] = 1 .. Len(pool[c]) /\ Len(pool[c]) \in Nat
  BY DEF LuaTypes
<1>2. ASSUME NEW l \in LuaStates, NEW c \in Contexts
      PROVE  l \in Pooled(c) <=> \E i \in Nat : Waits(l, c, i)
  <2>1. Pooled(c) = { pool[c][i] : i \in 1 .. Len(pool[c]) }
    BY <1>1 DEF Pooled, ToSet
  <2>2. 1 .. Len(pool[c]) \subseteq Nat
    OBVIOUS
  <2>3. QED
    BY <2>1, <2>2 DEF Waits
<1>3. QED
  BY <1>2 DEF Closed

LEMMA InitLua == LuaInit => LuaTypes /\ StatesInv /\ JdbIsRoot
<1>1. SUFFICES ASSUME LuaInit PROVE LuaTypes /\ StatesInv /\ JdbIsRoot
  OBVIOUS
<1>2. LuaTypes
  BY <1>1, FrameFacts DEF LuaInit, LuaTypes
<1>3. \A l \in LuaStates, c \in Contexts, i \in Nat : ~Waits(l, c, i)
  BY <1>1 DEF LuaInit, Waits
<1>4. \A l \in LuaStates : ~Exists(l)
  BY <1>1 DEF LuaInit, Exists
<1>5. \A t \in Threads : call[t] = Idle
  BY <1>1 DEF LuaInit
<1>6. \A l \in LuaStates, t \in Threads : call[t].lua # l
  BY <1>5, FrameFacts, LuaAssumption
<1>7. \A c \in Contexts : Users(c) = {}
  BY <1>5, FrameFacts, PluginAssumption DEF Users, Contexts, NoContext
<1>8. CountInv
  BY <1>1, <1>7, FS_EmptySet DEF CountInv, LuaInit
<1>9. QED
  BY <1>2, <1>3, <1>4, <1>6, <1>8 DEF StatesInv, PoolsInv, UsersInv, FoundInv, JdbIsRoot

LEMMA RootMadeTypes ==
  ASSUME LuaTypes, NEW c \in Contexts, RootMade(c)
  PROVE  /\ root' \in [Contexts -> Nat] /\ made' \in Nat
         /\ \A d \in Contexts : d # c => root'[d] = root[d]
         /\ root[c] # 0 => root'[c] = root[c]
<1>1. CASE root[c] # 0
  BY <1>1 DEF RootMade, LuaTypes
<1>2. CASE root[c] = 0
  <2>1. root' = [root EXCEPT ![c] = made + 1] /\ made' = made + 1
    BY <1>2 DEF RootMade
  <2>2. made + 1 \in Nat
    BY DEF LuaTypes
  <2>3. QED
    BY <1>2, <2>1, <2>2 DEF LuaTypes
<1>3. QED
  BY <1>1, <1>2

-----------------------------------------------------------------------------
(* Roots and their wrappers *)

LEMMA RootMadeKeeps ==
  ASSUME LuaTypes, NEW c \in Contexts, RootMade(c),
         UNCHANGED <<owner, wrapper, pool, acquired, call>>
  PROVE  LuaTypes' /\ (JdbIsRoot => JdbIsRoot')
<1>1. LuaTypes'
  BY RootMadeTypes DEF LuaTypes, Contexts
<1>2. ASSUME JdbIsRoot, NEW l \in LuaStates, Exists(l)', wrapper'[l] # 0
      PROVE  wrapper'[l] = root'[owner'[l]]
  <2>1. wrapper[l] = root[owner[l]] /\ wrapper[l] # 0 /\ owner[l] \in Contexts
    BY <1>2 DEF JdbIsRoot, Exists, LuaTypes, NoContext
  <2>2. root'[owner[l]] = root[owner[l]]
    BY <2>1, RootMadeTypes
  <2>3. QED
    BY <2>1, <2>2
<1>3. QED
  BY <1>1, <1>2 DEF JdbIsRoot

\* Clearing closes no state that a call has.  If no call is in progress the states whose
\* root goes all wait, and all are closed.
LEMMA ClearContextsKeeps ==
  ASSUME LuaTypes, StatesInv,
         NEW C, C \subseteq Contexts, ClearContexts(C),
         UNCHANGED <<acquired, made, call>>
  PROVE  /\ LuaTypes' /\ StatesInv'
         /\ JdbIsRoot /\ (\A t \in Threads : call[t] = Idle) => JdbIsRoot'
<1>1. /\ owner' = [l \in LuaStates |-> IF l \in Closed(C) THEN NoContext ELSE owner[l]]
      /\ wrapper' = [l \in LuaStates |-> IF l \in Closed(C) THEN 0 ELSE wrapper[l]]
      /\ pool' = [c \in Contexts |-> IF c \in C THEN <<>> ELSE pool[c]]
      /\ root' = [c \in Contexts |-> IF c \in C THEN 0 ELSE root[c]]
  BY DEF ClearContexts
<1>2. LuaTypes'
  <2>1. owner' \in [LuaStates -> Contexts \union {NoContext}]
    BY <1>1 DEF LuaTypes
  <2>2. wrapper' \in [LuaStates -> Nat]
    BY <1>1 DEF LuaTypes
  <2>3. pool' \in [Contexts -> Seq(LuaStates)]
    BY <1>1 DEF LuaTypes
  <2>4. root' \in [Contexts -> Nat]
    BY <1>1 DEF LuaTypes
  <2>5. QED
    BY <2>1, <2>2, <2>3, <2>4 DEF LuaTypes, Contexts
<1>3. \A l \in LuaStates, t \in Threads : call[t].lua = l =>
        /\ owner[l] = call[t].context
        /\ \A u \in Threads : call[u].lua = l => u = t
        /\ \A c \in Contexts, i \in Nat : ~Waits(l, c, i)
  BY DEF StatesInv, UsersInv
<1>4. \A l \in LuaStates, c \in Contexts, i \in Nat :
        Waits(l, c, i)' <=> c \notin C /\ Waits(l, c, i)
  BY <1>1 DEF Waits
<1>5. \A l \in LuaStates, c \in Contexts, i \in Nat :
        Waits(l, c, i) => owner[l] = c /\ \A k \in Nat : Waits(l, c, k) => k = i
  BY DEF StatesInv, PoolsInv
<1>6. \A l \in LuaStates : l \in Closed(C) <=> \E c \in C, i \in Nat : Waits(l, c, i)
  BY ClosedFacts
<1>7. \A l \in LuaStates, t \in Threads : call[t].lua = l => owner'[l] = owner[l]
  BY <1>1, <1>3, <1>6
<1>8. ASSUME NEW l \in LuaStates, owner'[l] # NoContext
      PROVE  /\ owner'[l] = owner[l] /\ wrapper'[l] = wrapper[l]
             /\ owner[l] # NoContext /\ owner[l] \in Contexts
             /\ owner[l] \notin C \/ \E t \in Threads : call[t].lua = l
  <2>1. /\ owner'[l] = owner[l] /\ wrapper'[l] = wrapper[l] /\ l \notin Closed(C)
        /\ owner[l] # NoContext /\ owner[l] \in Contexts
    BY <1>1, <1>8 DEF LuaTypes
  <2>2. (\E t \in Threads : call[t].lua = l) \/ \E i \in Nat : Waits(l, owner[l], i)
    BY <2>1 DEF StatesInv, FoundInv, Exists
  <2>3. QED
    BY <2>1, <2>2, <1>6
<1>9. PoolsInv'
  <2>1. SUFFICES ASSUME NEW l \in LuaStates, NEW c \in Contexts, NEW i \in Nat, Waits(l, c, i)'
                 PROVE  owner'[l] = c /\ \A k \in Nat : Waits(l, c, k)' => k = i
    BY DEF PoolsInv, Contexts
  <2>2. c \notin C /\ Waits(l, c, i)
    BY <2>1, <1>4
  <2>3. owner[l] = c
    BY <2>2, <1>5
  <2>4. l \notin Closed(C)
    BY <2>2, <2>3, <1>5, <1>6
  <2>5. owner'[l] = c
    BY <2>3, <2>4, <1>1
  <2>6. QED
    BY <2>2, <2>5, <1>4, <1>5
<1>10. UsersInv'
  <2>1. SUFFICES ASSUME NEW l \in LuaStates, NEW t \in Threads, call[t].lua = l
                 PROVE  /\ owner'[l] = call[t].context
                        /\ \A u \in Threads : call[u].lua = l => u = t
                        /\ \A c \in Contexts, i \in Nat : ~Waits(l, c, i)'
    BY DEF UsersInv, Contexts
  <2>2. QED
    BY <2>1, <1>3, <1>4, <1>7
<1>11. FoundInv'
  <2>1. SUFFICES ASSUME NEW l \in LuaStates, owner'[l] # NoContext,
                        \A t \in Threads : call[t].lua # l
                 PROVE  \E d \in Contexts, i \in Nat : d = owner'[l] /\ Waits(l, d, i)'
    BY DEF FoundInv, Exists, NoContext, Waits
  <2>2. owner'[l] = owner[l] /\ owner[l] # NoContext /\ owner[l] \in Contexts \ C
    BY <2>1, <1>8
  <2>3. \E i \in Nat : Waits(l, owner[l], i)
    BY <2>1, <2>2 DEF StatesInv, FoundInv, Exists
  <2>4. QED
    BY <2>2, <2>3, <1>4
<1>12. CountInv'
  BY DEF StatesInv, CountInv, Users, Contexts
<1>13. ASSUME JdbIsRoot, \A t \in Threads : call[t] = Idle
       PROVE  JdbIsRoot'
  <2>1. SUFFICES ASSUME NEW l \in LuaStates, owner'[l] # NoContext, wrapper'[l] # 0
                 PROVE  wrapper'[l] = root'[owner'[l]]
    BY DEF JdbIsRoot, Exists, NoContext
  <2>2. \A t \in Threads : call[t].lua # l
    BY <1>13, FrameFacts, LuaAssumption
  <2>3. /\ owner'[l] = owner[l] /\ wrapper'[l] = wrapper[l]
        /\ owner[l] # NoContext /\ owner[l] \in Contexts \ C
    BY <2>1, <2>2, <1>8
  <2>4. wrapper[l] = root[owner[l]]
    BY <1>13, <2>1, <2>3 DEF JdbIsRoot, Exists
  <2>5. QED
    BY <2>3, <2>4, <1>1
<1>14. QED
  BY <1>2, <1>9, <1>10, <1>11, <1>12, <1>13 DEF StatesInv

-----------------------------------------------------------------------------
(* Calls *)

\* A state that was in no call and in no pool and is in this call now, or none.
CountedOnce(t, c) ==
  /\ call[t] = Idle /\ call'[t].context = c
  /\ \A u \in Threads \ {t} : call'[u] = call[u]
  /\ acquired' = [acquired EXCEPT ![c] = @ + 1]

LEMMA BorrowCounted ==
  ASSUME LuaTypes, CountInv, NEW t \in Threads, NEW c \in Contexts, CountedOnce(t, c)
  PROVE  CountInv'
<1>1. SUFFICES ASSUME NEW d \in Contexts PROVE acquired'[d] = Cardinality(Users(d)')
  BY DEF CountInv, Contexts
<1>2. t \notin Users(d)
  BY FrameFacts, PluginAssumption DEF CountedOnce, Users, Contexts, NoContext
<1>3. IsFiniteSet(Users(d))
  BY LuaAssumption, FS_Subset DEF Users
<1>4. CASE d = c
  <2>1. Users(d)' = Users(d) \union {t}
    BY <1>4 DEF CountedOnce, Users
  <2>2. Cardinality(Users(d) \union {t}) = Cardinality(Users(d)) + 1
    BY <1>2, <1>3, FS_AddElement
  <2>3. acquired'[d] = acquired[d] + 1
    BY <1>4 DEF CountedOnce, LuaTypes
  <2>4. QED
    BY <2>1, <2>2, <2>3 DEF CountInv
<1>5. CASE d # c
  <2>1. Users(d)' = Users(d)
    BY <1>2, <1>5 DEF CountedOnce, Users
  <2>2. acquired'[d] = acquired[d]
    BY <1>5 DEF CountedOnce, LuaTypes
  <2>3. QED
    BY <2>1, <2>2 DEF CountInv
<1>6. QED
  BY <1>4, <1>5

LEMMA AquireStep ==
  ASSUME PluginInv, LuaTypes, StatesInv, NEW t \in Threads, Aquire(t)
  PROVE  LuaTypes' /\ StatesInv' /\ (JdbIsRoot => JdbIsRoot')
<1>1. PICK f \in vm :
        LET c == ContextOf(f)
        IN /\ acquired' = [acquired EXCEPT ![c] = @ + 1]
           /\ IF pool[c] = <<>>
              THEN call' = [call EXCEPT ![t] = Frame("create", c, NoState)] /\ UNCHANGED pool
              ELSE /\ call' = [call EXCEPT ![t] = Frame("eval", c, Head(pool[c]))]
                   /\ pool' = [pool EXCEPT ![c] = Rest(c)]
  BY DEF Aquire
<1>2. PICK c \in Contexts : c = ContextOf(f)
  BY PluginFacts
<1>3. call[t] = Idle /\ UNCHANGED <<pluginVars, owner, wrapper, root, made>>
  BY DEF Aquire
<1>4. acquired' = [acquired EXCEPT ![c] = @ + 1]
  BY <1>1, <1>2
<1>5. pool[c] = <<>> => call' = [call EXCEPT ![t] = Frame("create", c, NoState)] /\ pool' = pool
  BY <1>1, <1>2
<1>6. pool[c] # <<>> => /\ call' = [call EXCEPT ![t] = Frame("eval", c, Head(pool[c]))]
                        /\ pool' = [pool EXCEPT ![c] = Tail(pool[c])]
  BY <1>1, <1>2 DEF Rest
<1>7. acquired' \in [Contexts -> Int]
  BY <1>2, <1>4 DEF LuaTypes
<1>8. JdbIsRoot => JdbIsRoot'
  BY <1>3 DEF JdbIsRoot, Exists
<1>9. \A l \in LuaStates : call[t].lua # l
  BY <1>3, FrameFacts, LuaAssumption
<1>10. \A u \in Threads : call[u] \in Frames
  BY DEF LuaTypes
<1>11. CASE pool[c] = <<>>
  <2>1. call' = [call EXCEPT ![t] = Frame("create", c, NoState)] /\ pool' = pool
    BY <1>5, <1>11
  <2>2. call' \in [Threads -> Frames]
    BY <1>2, <2>1, FrameFacts DEF LuaTypes
  <2>3. LuaTypes'
    BY <1>3, <1>7, <2>1, <2>2 DEF LuaTypes, Contexts
  <2>4. call'[t].context = c /\ call'[t].lua = NoState /\ \A u \in Threads \ {t} : call'[u] = call[u]
    BY <1>2, <2>1, FrameFacts DEF LuaTypes
  <2>5. CountInv'
    BY <1>2, <1>3, <1>4, <2>4, BorrowCounted DEF CountedOnce, StatesInv
  <2>6. \A l \in LuaStates, d \in Contexts, i \in Nat : Waits(l, d, i)' <=> Waits(l, d, i)
    BY <2>1 DEF Waits
  <2>7. \A l \in LuaStates, u \in Threads :
          call'[u].lua = l <=> call[u].lua = l
    BY <1>9, <2>4, LuaAssumption
  <2>8. PoolsInv'
    BY <1>3, <2>6 DEF StatesInv, PoolsInv, Contexts
  <2>9. UsersInv'
    <3>1. SUFFICES ASSUME NEW l \in LuaStates, NEW u \in Threads, call'[u].lua = l
                   PROVE  /\ owner'[l] = call'[u].context
                          /\ \A v \in Threads : call'[v].lua = l => v = u
                          /\ \A d \in Contexts, i \in Nat : ~Waits(l, d, i)'
      BY DEF UsersInv, Contexts
    <3>2. call[u].lua = l /\ u # t
      BY <3>1, <2>7, <1>9
    <3>3. /\ owner[l] = call[u].context
          /\ \A v \in Threads : call[v].lua = l => v = u
          /\ \A d \in Contexts, i \in Nat : ~Waits(l, d, i)
      BY <3>2 DEF StatesInv, UsersInv
    <3>4. QED
      BY <1>3, <2>4, <2>6, <2>7, <3>2, <3>3
  <2>10. FoundInv'
    BY <1>3, <2>1, <2>7 DEF StatesInv, FoundInv, Exists, Waits
  <2>11. QED
    BY <1>8, <2>3, <2>5, <2>8, <2>9, <2>10 DEF StatesInv
<1>12. CASE pool[c] # <<>>
  <2> DEFINE h == Head(pool[c])
  <2>1. call' = [call EXCEPT ![t] = Frame("eval", c, h)] /\ pool' = [pool EXCEPT ![c] = Tail(pool[c])]
    BY <1>6, <1>12
  <2>2. pool[c] \in Seq(LuaStates) /\ Len(pool[c]) \in Nat /\ Len(pool[c]) > 0
    BY <1>2, <1>12 DEF LuaTypes
  <2>3. h = pool[c][1] /\ h \in LuaStates
    BY <2>2
  <2>4. /\ Tail(pool[c]) \in Seq(LuaStates) /\ Len(Tail(pool[c])) = Len(pool[c]) - 1
        /\ \A i \in 1 .. Len(pool[c]) - 1 : Tail(pool[c])[i] = pool[c][i + 1]
    BY <2>2, <1>12
  <2>5. Waits(h, c, 1)
    BY <2>2, <2>3 DEF Waits
  <2> HIDE DEF h
  <2>6. call' \in [Threads -> Frames]
    BY <1>2, <2>1, <2>3, FrameFacts DEF LuaTypes
  <2>7. pool' \in [Contexts -> Seq(LuaStates)]
    BY <1>2, <2>1, <2>4 DEF LuaTypes
  <2>8. LuaTypes'
    BY <1>3, <1>7, <2>6, <2>7 DEF LuaTypes, Contexts
  <2>9. call'[t].context = c /\ call'[t].lua = h /\ \A u \in Threads \ {t} : call'[u] = call[u]
    BY <1>2, <2>1, <2>3, FrameFacts DEF LuaTypes
  <2>10. CountInv'
    BY <1>2, <1>3, <1>4, <2>9, BorrowCounted DEF CountedOnce, StatesInv
  <2>11. pool'[c] = Tail(pool[c]) /\ \A d \in Contexts : d # c => pool'[d] = pool[d]
    BY <1>2, <2>1 DEF LuaTypes
  <2>12. \A l \in LuaStates, i \in Nat : Waits(l, c, i)' <=> i >= 1 /\ Waits(l, c, i + 1)
    <3>1. TAKE l \in LuaStates, i \in Nat
    <3>2. Len(pool'[c]) = Len(pool[c]) - 1
      BY <2>4, <2>11
    <3>3. \A k \in Nat : k \in 1 .. Len(pool[c]) - 1 <=> k >= 1 /\ k + 1 \in 1 .. Len(pool[c])
      BY <2>2
    <3>4. \A k \in 1 .. Len(pool[c]) - 1 : pool'[c][k] = pool[c][k + 1]
      BY <2>4, <2>11
    <3>5. QED
      BY <3>2, <3>3, <3>4 DEF Waits
  <2>13. \A l \in LuaStates, d \in Contexts, i \in Nat :
           d # c => (Waits(l, d, i)' <=> Waits(l, d, i))
    BY <2>11 DEF Waits
  <2>14. \A l \in LuaStates, d \in Contexts, i \in Nat :
           Waits(l, d, i)' => l # h /\ \E k \in Nat : Waits(l, d, k)
    <3>1. TAKE l \in LuaStates, d \in Contexts, i \in Nat
    <3>2. HAVE Waits(l, d, i)'
    <3>3. \A e \in Contexts, k \in Nat : Waits(h, e, k) => e = c /\ k = 1
      BY <2>3, <2>5, <1>2 DEF StatesInv, PoolsInv
    <3>4. CASE d = c
      BY <3>2, <3>3, <3>4, <2>12
    <3>5. CASE d # c
      BY <3>2, <3>3, <3>5, <2>13
    <3>6. QED
      BY <3>4, <3>5
  <2>15. PoolsInv'
    <3>1. SUFFICES ASSUME NEW l \in LuaStates, NEW d \in Contexts, NEW i \in Nat, Waits(l, d, i)'
                   PROVE  owner'[l] = d /\ \A k \in Nat : Waits(l, d, k)' => k = i
      BY DEF PoolsInv, Contexts
    <3>2. \A k, m \in Nat : Waits(l, d, k) /\ Waits(l, d, m) => owner[l] = d /\ k = m
      BY DEF StatesInv, PoolsInv
    <3>3. owner[l] = d
      BY <3>1, <3>2, <2>14
    <3>4. ASSUME NEW k \in Nat, Waits(l, d, k)' PROVE k = i
      <4>1. CASE d = c
        BY <3>1, <3>2, <3>4, <4>1, <2>12
      <4>2. CASE d # c
        BY <3>1, <3>2, <3>4, <4>2, <2>13
      <4>3. QED
        BY <4>1, <4>2
    <3>5. QED
      BY <1>3, <3>3, <3>4
  <2>16. owner[h] = c /\ \A u \in Threads : call[u].lua # h
    BY <2>3, <2>5, <1>2 DEF StatesInv, PoolsInv, UsersInv
  <2>17. UsersInv'
    <3>1. SUFFICES ASSUME NEW l \in LuaStates, NEW u \in Threads, call'[u].lua = l
                   PROVE  /\ owner'[l] = call'[u].context
                          /\ \A v \in Threads : call'[v].lua = l => v = u
                          /\ \A d \in Contexts, i \in Nat : ~Waits(l, d, i)'
      BY DEF UsersInv, Contexts
    <3>2. CASE u = t
      BY <3>1, <3>2, <1>3, <2>9, <2>14, <2>16
    <3>3. CASE u # t
      <4>1. call[u].lua = l /\ call'[u] = call[u] /\ l # h
        BY <3>1, <3>3, <2>9, <2>16
      <4>2. /\ owner[l] = call[u].context
            /\ \A v \in Threads : call[v].lua = l => v = u
            /\ \A d \in Contexts, i \in Nat : ~Waits(l, d, i)
        BY <4>1 DEF StatesInv, UsersInv
      <4>3. \A v \in Threads : call'[v].lua = l => v = u
        BY <4>1, <4>2, <2>9
      <4>4. QED
        BY <4>1, <4>2, <4>3, <1>3, <2>14
    <3>4. QED
      BY <3>2, <3>3
  <2>18. FoundInv'
    <3>1. SUFFICES ASSUME NEW l \in LuaStates, Exists(l), ~ \E u \in Threads : call'[u].lua = l
                   PROVE  \E i \in Nat : Waits(l, owner[l], i)'
      BY <1>3 DEF FoundInv, Exists, Waits
    <3>2. l # h
      BY <3>1, <2>9
    <3>3. \A u \in Threads : call[u].lua # l
      BY <3>1, <2>9, <1>9
    <3>4. PICK i \in Nat : Waits(l, owner[l], i)
      BY <3>1, <3>3 DEF StatesInv, FoundInv
    <3>5. owner[l] \in Contexts
      BY <3>1 DEF Exists, LuaTypes
    <3>6. CASE owner[l] # c
      BY <3>4, <3>5, <3>6, <2>13, <1>3 DEF Waits
    <3>7. CASE owner[l] = c
      <4>1. i \in 1 .. Len(pool[c]) /\ i # 1
        BY <3>2, <3>4, <3>7, <2>3 DEF Waits
      <4>2. i - 1 \in Nat /\ i - 1 >= 1 /\ (i - 1) + 1 = i
        BY <4>1
      <4>3. Waits(l, c, i - 1)'
        BY <3>4, <3>7, <4>2, <2>12
      <4>4. QED
        BY <3>7, <4>2, <4>3, <1>3 DEF Waits
    <3>8. QED
      BY <3>6, <3>7
  <2>19. QED
    BY <1>8, <2>8, <2>10, <2>15, <2>17, <2>18 DEF StatesInv
<1>13. QED
  BY <1>11, <1>12

LEMMA CreateStep ==
  ASSUME LuaTypes, StatesInv, NEW t \in Threads, Create(t)
  PROVE  LuaTypes' /\ StatesInv' /\ (JdbIsRoot => JdbIsRoot')
<1>1. call[t].pc = "create" /\ call[t] \in Frames
  BY DEF Create, LuaTypes
<1>2. PICK c \in Contexts : c = call[t].context
  BY <1>1, FrameFacts
<1>3. call[t].lua = NoState
  BY <1>1, FrameFacts
<1>4. PICK l \in LuaStates :
        /\ ~Exists(l)
        /\ owner' = [owner EXCEPT ![l] = c]
        /\ \/ WrapRoot(l, c)
           \/ wrapper' = [wrapper EXCEPT ![l] = 0] /\ UNCHANGED <<root, made>>
        /\ call' = [call EXCEPT ![t] = Frame("eval", c, l)]
  BY <1>2 DEF Create
<1>5. UNCHANGED <<pool, acquired>>
  BY DEF Create
<1>6. owner[l] = NoContext /\ c # NoContext /\ NoContext \notin Contexts
  BY <1>4, <1>2, PluginAssumption DEF Exists, Contexts, NoContext
<1>7. /\ root' \in [Contexts -> Nat] /\ made' \in Nat
      /\ \A d \in Contexts : root[d] # 0 => root'[d] = root[d]
      /\ wrapper' \in [LuaStates -> Nat]
      /\ wrapper'[l] # 0 => wrapper'[l] = root'[c]
      /\ \A m \in LuaStates : m # l => wrapper'[m] = wrapper[m]
  <2>1. CASE WrapRoot(l, c)
    <3>1. RootMade(c) /\ wrapper' = [wrapper EXCEPT ![l] = root'[c]]
      BY <2>1 DEF WrapRoot
    <3>2. root' \in [Contexts -> Nat] /\ made' \in Nat
      BY <3>1, RootMadeTypes
    <3>3. \A d \in Contexts : root[d] # 0 => root'[d] = root[d]
      BY <3>1, RootMadeTypes
    <3>4. QED
      BY <3>1, <3>2, <3>3 DEF LuaTypes
  <2>2. CASE wrapper' = [wrapper EXCEPT ![l] = 0] /\ UNCHANGED <<root, made>>
    BY <2>2 DEF LuaTypes
  <2>3. QED
    BY <1>4, <2>1, <2>2
<1>8. /\ owner'[l] = c
      /\ \A m \in LuaStates : m # l => owner'[m] = owner[m]
      /\ owner' \in [LuaStates -> Contexts \union {NoContext}]
  BY <1>4 DEF LuaTypes
<1>9. /\ call'[t].context = c /\ call'[t].lua = l
      /\ \A u \in Threads \ {t} : call'[u] = call[u]
      /\ call' \in [Threads -> Frames]
  BY <1>4, FrameFacts DEF LuaTypes
<1>10. LuaTypes'
  BY <1>5, <1>7, <1>8, <1>9 DEF LuaTypes, Contexts, NoContext
<1>11. ASSUME JdbIsRoot PROVE JdbIsRoot'
  <2>1. SUFFICES ASSUME NEW m \in LuaStates, owner'[m] # NoContext, wrapper'[m] # 0
                 PROVE  wrapper'[m] = root'[owner'[m]]
    BY DEF JdbIsRoot, Exists, NoContext
  <2>2. CASE m = l
    BY <2>1, <2>2, <1>7, <1>8
  <2>3. CASE m # l
    <3>1. owner'[m] = owner[m] /\ wrapper'[m] = wrapper[m] /\ owner[m] \in Contexts
      BY <2>1, <2>3, <1>7, <1>8 DEF LuaTypes
    <3>2. wrapper[m] = root[owner[m]]
      BY <1>11, <2>1, <3>1 DEF JdbIsRoot, Exists
    <3>3. QED
      BY <2>1, <3>1, <3>2, <1>7
  <2>4. QED
    BY <2>2, <2>3
<1>12. CountInv'
  <2>1. \A u \in Threads : call'[u].context = call[u].context
    BY <1>2, <1>9
  <2>2. \A d \in Contexts : Users(d)' = Users(d)
    BY <2>1 DEF Users
  <2>3. QED
    BY <1>5, <2>2 DEF StatesInv, CountInv, Contexts
<1>13. \A m \in LuaStates, d \in Contexts, i \in Nat : Waits(m, d, i)' <=> Waits(m, d, i)
  BY <1>5 DEF Waits
<1>14. /\ \A d \in Contexts, i \in Nat : ~Waits(l, d, i)
       /\ \A u \in Threads : call[u].lua # l
  <2>1. \A d \in Contexts : owner[l] # d
    BY <1>6
  <2>2. \A u \in Threads : call[u].lua = l => call[u].context \in Contexts
    BY FrameFacts DEF LuaTypes
  <2>3. QED
    BY <2>1, <2>2 DEF StatesInv, PoolsInv, UsersInv
<1>15. PoolsInv'
  <2>1. SUFFICES ASSUME NEW m \in LuaStates, NEW d \in Contexts, NEW i \in Nat, Waits(m, d, i)
                 PROVE  owner'[m] = d /\ \A k \in Nat : Waits(m, d, k) => k = i
    BY <1>13 DEF PoolsInv, Contexts
  <2>2. m # l
    BY <2>1, <1>14
  <2>3. QED
    BY <2>1, <2>2, <1>8 DEF StatesInv, PoolsInv
<1>16. UsersInv'
  <2>1. SUFFICES ASSUME NEW m \in LuaStates, NEW u \in Threads, call'[u].lua = m
                 PROVE  /\ owner'[m] = call'[u].context
                        /\ \A v \in Threads : call'[v].lua = m => v = u
                        /\ \A d \in Contexts, i \in Nat : ~Waits(m, d, i)
    BY <1>13 DEF UsersInv, Contexts
  <2>2. CASE u = t
    BY <2>1, <2>2, <1>8, <1>9, <1>14
  <2>3. CASE u # t
    <3>1. call[u].lua = m /\ call'[u] = call[u] /\ m # l
      BY <2>1, <2>3, <1>9, <1>14
    <3>2. /\ owner[m] = call[u].context
          /\ \A v \in Threads : call[v].lua = m => v = u
          /\ \A d \in Contexts, i \in Nat : ~Waits(m, d, i)
      BY <3>1 DEF StatesInv, UsersInv
    <3>3. QED
      BY <3>1, <3>2, <1>8, <1>9
  <2>4. QED
    BY <2>2, <2>3
<1>17. FoundInv'
  <2>1. SUFFICES ASSUME NEW m \in LuaStates, owner'[m] # NoContext
                 PROVE  \/ \E u \in Threads : call'[u].lua = m
                        \/ \E i \in Nat : Waits(m, owner[m], i) /\ owner'[m] = owner[m]
    BY <1>5 DEF FoundInv, Exists, NoContext, Waits
  <2>2. CASE m = l
    BY <2>2, <1>9
  <2>3. CASE m # l
    <3>1. owner'[m] = owner[m]
      BY <2>3, <1>8
    <3>2. \/ \E u \in Threads : call[u].lua = m
          \/ \E i \in Nat : Waits(m, owner[m], i)
      BY <2>1, <3>1 DEF StatesInv, FoundInv, Exists
    <3>3. call[t].lua # m
      BY <1>3, LuaAssumption
    <3>4. QED
      BY <3>1, <3>2, <3>3, <1>9
  <2>4. QED
    BY <2>2, <2>3
<1>18. QED
  BY <1>10, <1>11, <1>12, <1>15, <1>16, <1>17 DEF StatesInv

LEMMA ReleaseStep ==
  ASSUME LuaTypes, StatesInv, NEW t \in Threads, EvalAndRelease(t)
  PROVE  LuaTypes' /\ StatesInv' /\ (JdbIsRoot => JdbIsRoot')
<1>1. call[t].pc = "eval" /\ call[t] \in Frames
  BY DEF EvalAndRelease, LuaTypes
<1>2. PICK c \in Contexts : c = call[t].context
  BY <1>1, FrameFacts
<1>3. PICK l \in LuaStates : l = call[t].lua
  BY <1>1, FrameFacts
<1>4. /\ pool' = [pool EXCEPT ![c] = Append(pool[c], l)]
      /\ acquired' = [acquired EXCEPT ![c] = acquired[c] - 1]
      /\ call' = [call EXCEPT ![t] = Idle]
      /\ UNCHANGED <<owner, wrapper, root, made>>
  BY <1>2, <1>3 DEF EvalAndRelease
<1>5. /\ pool[c] \in Seq(LuaStates) /\ Len(pool[c]) \in Nat
      /\ Append(pool[c], l) \in Seq(LuaStates)
      /\ Len(Append(pool[c], l)) = Len(pool[c]) + 1
      /\ Append(pool[c], l)[Len(pool[c]) + 1] = l
      /\ \A i \in 1 .. Len(pool[c]) : Append(pool[c], l)[i] = pool[c][i]
  BY DEF LuaTypes
<1>6. /\ pool' \in [Contexts -> Seq(LuaStates)]
      /\ pool'[c] = Append(pool[c], l)
      /\ \A d \in Contexts : d # c => pool'[d] = pool[d]
  BY <1>4, <1>5 DEF LuaTypes
<1>7. /\ call'[t] = Idle /\ call'[t].lua = NoState
      /\ \A u \in Threads \ {t} : call'[u] = call[u]
      /\ call' \in [Threads -> Frames]
  BY <1>4, FrameFacts DEF LuaTypes
<1>8. LuaTypes'
  <2>1. acquired' \in [Contexts -> Int]
    BY <1>4 DEF LuaTypes
  <2>2. QED
    BY <1>4, <1>6, <1>7, <2>1 DEF LuaTypes, Contexts, NoContext
<1>9. JdbIsRoot => JdbIsRoot'
  BY <1>4 DEF JdbIsRoot, Exists, NoContext
<1>10. CountInv'
  <2>1. SUFFICES ASSUME NEW d \in Contexts PROVE acquired'[d] = Cardinality(Users(d)')
    BY DEF CountInv, Contexts
  <2>2. IsFiniteSet(Users(d))
    BY LuaAssumption, FS_Subset DEF Users
  <2>3. t \notin Users(d)'
    <3>1. call'[t].context = NoContext
      BY <1>7, FrameFacts
    <3>2. QED
      BY <3>1, PluginAssumption DEF Users, Contexts, NoContext
  <2>4. CASE d = c
    <3>1. Users(d)' = Users(d) \ {t}
      BY <2>3, <1>7 DEF Users
    <3>2. t \in Users(d)
      BY <2>4, <1>2 DEF Users
    <3>3. Cardinality(Users(d) \ {t}) = Cardinality(Users(d)) - 1
      BY <2>2, <3>2, FS_RemoveElement
    <3>4. acquired'[d] = acquired[d] - 1
      BY <2>4, <1>4 DEF LuaTypes
    <3>5. QED
      BY <3>1, <3>3, <3>4 DEF StatesInv, CountInv
  <2>5. CASE d # c
    <3>1. Users(d)' = Users(d)
      BY <2>3, <2>5, <1>2, <1>7 DEF Users
    <3>2. acquired'[d] = acquired[d]
      BY <2>5, <1>4 DEF LuaTypes
    <3>3. QED
      BY <3>1, <3>2 DEF StatesInv, CountInv
  <2>6. QED
    BY <2>4, <2>5
<1>11. \A m \in LuaStates, d \in Contexts, i \in Nat :
         d # c => (Waits(m, d, i)' <=> Waits(m, d, i))
  BY <1>6 DEF Waits
<1>12. \A m \in LuaStates, i \in Nat :
         Waits(m, c, i)' <=> Waits(m, c, i) \/ (m = l /\ i = Len(pool[c]) + 1)
  <2>1. TAKE m \in LuaStates, i \in Nat
  <2>2. Waits(m, c, i)' <=> i \in 1 .. Len(pool[c]) + 1 /\ Append(pool[c], l)[i] = m
    BY <1>5, <1>6 DEF Waits
  <2>3. i \in 1 .. Len(pool[c]) + 1 <=> i \in 1 .. Len(pool[c]) \/ i = Len(pool[c]) + 1
    BY <1>5
  <2>4. ~ (Len(pool[c]) + 1 \in 1 .. Len(pool[c]))
    BY <1>5
  <2>5. QED
    BY <2>2, <2>3, <2>4, <1>5 DEF Waits
<1>13. /\ owner[l] = c
       /\ \A u \in Threads : call[u].lua = l => u = t
       /\ \A d \in Contexts, i \in Nat : ~Waits(l, d, i)
  BY <1>2, <1>3 DEF StatesInv, UsersInv
<1>14. PoolsInv'
  <2>1. SUFFICES ASSUME NEW m \in LuaStates, NEW d \in Contexts, NEW i \in Nat, Waits(m, d, i)'
                 PROVE  owner[m] = d /\ \A k \in Nat : Waits(m, d, k)' => k = i
    BY <1>4 DEF PoolsInv, Contexts
  <2>2. CASE d # c
    BY <2>1, <2>2, <1>11 DEF StatesInv, PoolsInv
  <2>3. CASE d = c /\ m # l
    <3>1. \A k \in Nat : Waits(m, c, k)' <=> Waits(m, c, k)
      BY <2>3, <1>12
    <3>2. QED
      BY <2>1, <2>3, <3>1 DEF StatesInv, PoolsInv
  <2>4. CASE d = c /\ m = l
    BY <2>1, <2>4, <1>12, <1>13
  <2>5. QED
    BY <2>2, <2>3, <2>4
<1>15. UsersInv'
  <2>1. SUFFICES ASSUME NEW m \in LuaStates, NEW u \in Threads, call'[u].lua = m
                 PROVE  /\ owner[m] = call'[u].context
                        /\ \A v \in Threads : call'[v].lua = m => v = u
                        /\ \A d \in Contexts, i \in Nat : ~Waits(m, d, i)'
    BY <1>4 DEF UsersInv, Contexts
  <2>2. u # t /\ call[u].lua = m /\ call'[u] = call[u]
    BY <2>1, <1>7, LuaAssumption
  <2>3. m # l
    BY <2>2, <1>13
  <2>4. /\ owner[m] = call[u].context
        /\ \A v \in Threads : call[v].lua = m => v = u
        /\ \A d \in Contexts, i \in Nat : ~Waits(m, d, i)
    BY <2>2 DEF StatesInv, UsersInv
  <2>5. \A v \in Threads : call'[v].lua = m => v = u
    BY <2>4, <1>7, LuaAssumption
  <2>6. \A d \in Contexts, i \in Nat : ~Waits(m, d, i)'
    BY <2>3, <2>4, <1>11, <1>12
  <2>7. QED
    BY <2>2, <2>4, <2>5, <2>6
<1>16. FoundInv'
  <2>1. SUFFICES ASSUME NEW m \in LuaStates, Exists(m)
                 PROVE  \/ \E u \in Threads : call'[u].lua = m
                        \/ \E d \in Contexts, i \in Nat : d = owner[m] /\ Waits(m, d, i)'
    BY <1>4 DEF FoundInv, Exists, NoContext, Contexts, Waits
  <2>2. CASE m = l
    <3>1. PICK i \in Nat : i = Len(pool[c]) + 1
      BY <1>5
    <3>2. Waits(l, c, i)'
      BY <3>1, <1>12
    <3>3. QED
      BY <2>2, <3>2, <1>13
  <2>3. CASE m # l /\ \E u \in Threads : call[u].lua = m
    BY <2>3, <1>3, <1>7
  <2>4. CASE m # l /\ \E i \in Nat : Waits(m, owner[m], i)
    <3>1. PICK d \in Contexts : d = owner[m]
      BY <2>1 DEF Exists, LuaTypes
    <3>2. PICK i \in Nat : Waits(m, d, i)
      BY <2>4, <3>1
    <3>3. Waits(m, d, i)'
      BY <3>2, <1>11, <1>12
    <3>4. QED
      BY <3>1, <3>3
  <2>5. QED
    BY <2>1, <2>2, <2>3, <2>4 DEF StatesInv, FoundInv
<1>17. QED
  BY <1>8, <1>9, <1>10, <1>14, <1>15, <1>16 DEF StatesInv

-----------------------------------------------------------------------------
(* Each step keeps the invariant *)

LEMMA InitIInv == Init => IInv /\ RootsInv
<1>1. LuaInit => QuietEvents
  BY DEF LuaInit, QuietEvents
<1>2. QED
  BY <1>1, InitPlugin, InitLua DEF Init, IInv, RootsInv

LEMMA QuietStep ==
  ASSUME ~CallsOutlive, LuaTypes, QuietEvents, [Next]_vars
  PROVE  QuietEvents'
<1>1. CASE NoCalls /\ BeginClear /\ UNCHANGED luaVars
  BY <1>1 DEF NoCalls, QuietEvents, luaVars
<1>2. CASE PluginStep /\ UNCHANGED luaVars
  <2>1. UNCHANGED event
    BY <1>2 DEF PluginStep, Construct, Query, PluginLoad, RegisterAllFunctions,
                GetDomainWithName, ReadDomain
  <2>2. QED
    BY <1>2, <2>1 DEF QuietEvents, luaVars
<1>3. CASE ClearLua
  BY <1>3 DEF ClearLua, ClearState, QuietEvents
<1>4. CASE EndLoad
  BY <1>4 DEF EndLoad, EndRead, QuietEvents
<1>5. CASE LoadRoot \/ UseRoot \/ UNCHANGED vars
  BY <1>5 DEF LoadRoot, UseRoot, vars, luaVars, pluginVars, QuietEvents
<1>6. ASSUME NEW t \in Threads, Aquire(t) PROVE QuietEvents'
  BY <1>6 DEF Aquire, Served, pluginVars, QuietEvents
<1>7. ASSUME NEW t \in Threads, Create(t) \/ EvalAndRelease(t) PROVE QuietEvents'
  <2>1. call[t] # Idle /\ event' = event
    BY <1>7, FrameFacts DEF Create, EvalAndRelease, pluginVars
  <2>2. QED
    BY <2>1 DEF QuietEvents
<1>8. QED
  BY <1>1, <1>2, <1>3, <1>4, <1>5, <1>6, <1>7 DEF Next

LEMMA NextIInv ==
  ASSUME IInv, [Next]_vars
  PROVE  /\ IInv'
         /\ RootsInv /\ QuietEvents' => RootsInv'
<1> USE DEF IInv, RootsInv
<1>1. PluginInv'
  BY PluginInvStep, NextMovesPlugin
<1> DEFINE Kept == LuaTypes' /\ StatesInv' /\ (QuietEvents /\ JdbIsRoot => JdbIsRoot')
<1>2. SUFFICES Kept
  BY <1>1
<1>3. ASSUME UNCHANGED luaVars PROVE Kept
  <2>1. LuaTypes'
    BY <1>3 DEF luaVars, LuaTypes, Contexts, NoContext
  <2>2. StatesInv'
    BY <1>3 DEF luaVars, StatesInv, PoolsInv, UsersInv, FoundInv, CountInv, Users, Waits, Exists,
                Contexts, NoContext
  <2>3. JdbIsRoot => JdbIsRoot'
    BY <1>3 DEF luaVars, JdbIsRoot, Exists, NoContext
  <2>4. QED
    BY <2>1, <2>2, <2>3
<1>4. CASE ClearLua
  <2>1. event = "clear" /\ ClearContexts(living) /\ UNCHANGED <<acquired, made, call>>
    BY <1>4 DEF ClearLua, ClearState
  <2>2. living \subseteq Contexts
    BY PluginFacts
  <2>3. QuietEvents => \A t \in Threads : call[t] = Idle
    BY <2>1 DEF QuietEvents
  <2>4. QED
    BY <2>1, <2>2, <2>3, ClearContextsKeeps
<1>5. CASE EndLoad
  <2>1. PICK C \in SUBSET living : ClearContexts(C)
    BY <1>5 DEF EndLoad
  <2>2. event = "read" /\ UNCHANGED <<acquired, made, call>>
    BY <1>5 DEF EndLoad, EndRead
  <2>3. C \subseteq Contexts
    BY PluginFacts
  <2>4. QuietEvents => \A t \in Threads : call[t] = Idle
    BY <2>2 DEF QuietEvents
  <2>5. QED
    BY <2>1, <2>2, <2>3, <2>4, ClearContextsKeeps
<1>6. CASE LoadRoot \/ UseRoot
  <2>1. UNCHANGED <<owner, wrapper, pool, acquired, call>>
    BY <1>6 DEF LoadRoot, UseRoot
  <2>2. PICK c \in Contexts : RootMade(c)
    BY <1>6, PluginFacts DEF LoadRoot, UseRoot
  <2>3. LuaTypes' /\ (JdbIsRoot => JdbIsRoot')
    BY <2>1, <2>2, RootMadeKeeps
  <2>4. StatesInv'
    BY <2>1 DEF StatesInv, PoolsInv, UsersInv, FoundInv, CountInv, Users, Waits, Exists,
                Contexts, NoContext
  <2>5. QED
    BY <2>3, <2>4
<1>7. ASSUME NEW t \in Threads, Aquire(t) PROVE Kept
  BY <1>7, AquireStep
<1>8. ASSUME NEW t \in Threads, Create(t) PROVE Kept
  BY <1>8, CreateStep
<1>9. ASSUME NEW t \in Threads, EvalAndRelease(t) PROVE Kept
  BY <1>9, ReleaseStep
<1>10. CASE UNCHANGED vars
  BY <1>3, <1>10 DEF vars
<1> HIDE DEF IInv, RootsInv, Kept
<1>11. CASE Next
  BY <1>3, <1>4, <1>5, <1>6, <1>7, <1>8, <1>9, <1>11 DEF Next
<1>12. QED
  BY <1>10, <1>11

\* The states' places hold in every reachable state.
THEOREM Invariance == Spec => []IInv
<1>1. IInv /\ [Next]_vars => IInv'
  BY NextIInv
<1>2. QED
  BY <1>1, InitIInv, PTL DEF Spec

\* The root that the library in a Lua state got when the state was made is still that of
\* its context: whenever a context drops its root, each of its states is closed first.
\* It takes that scripts do not run while the game reverts or loads.
THEOREM WrappersFollowRoots ==
  ASSUME ~CallsOutlive
  PROVE  Spec => []JdbIsRoot
<1>1. IInv /\ RootsInv /\ [Next]_vars => RootsInv'
  BY NextIInv, QuietStep DEF IInv, RootsInv
<1>2. RootsInv => JdbIsRoot
  BY DEF RootsInv
<1>3. QED
  BY <1>1, <1>2, InitIInv, Invariance, PTL DEF Spec

-----------------------------------------------------------------------------
(* Counting places *)

\* A pool is no longer than there are states: none is in it twice.
LEMMA PoolLength ==
  ASSUME LuaTypes, PoolsInv, NEW c \in Contexts
  PROVE  Len(pool[c]) =< Cardinality(LuaStates)
<1>1. pool[c] \in Seq(LuaStates) /\ Len(pool[c]) \in Nat
  BY DEF LuaTypes
<1> DEFINE s == [i \in 1 .. Len(pool[c]) |-> pool[c][i]]
<1>2. s \in [1 .. Len(pool[c]) -> LuaStates]
  BY <1>1
<1>3. ASSUME NEW i \in 1 .. Len(pool[c]), NEW k \in 1 .. Len(pool[c]), s[i] = s[k]
      PROVE  i = k
  <2>1. pool[c][i] \in LuaStates /\ i \in Nat /\ k \in Nat
    BY <1>1
  <2>2. Waits(pool[c][i], c, i) /\ Waits(pool[c][i], c, k)
    BY <1>3 DEF Waits
  <2>3. QED
    BY <2>1, <2>2 DEF PoolsInv
<1>4. s \in Injection(1 .. Len(pool[c]), LuaStates)
  BY <1>2, <1>3 DEF Injection, IsInjective
<1>5. Cardinality(1 .. Len(pool[c])) =< Cardinality(LuaStates)
  BY <1>4, LuaAssumption, FS_Injection
<1>6. Cardinality(1 .. Len(pool[c])) = Len(pool[c])
  BY <1>1, FS_Interval
<1>7. QED
  BY <1>5, <1>6

\* A set of which all members are the same one has as many as it should.
LEMMA OnePlace ==
  ASSUME NEW S, NEW x, S = {x}
  PROVE  Cardinality(S) = 1
BY FS_Singleton

\* Every Lua state that exists is at one place: once in the pool of its context or in the
\* hands of one call on that context; the pools' counts of borrowed states are right.
\* So it is also if calls go on while their context is cleared.
THEOREM StatesHaveOnePlace == Spec => []StatesInOnePlace
<1>1. ASSUME IInv, NEW l \in LuaStates
      PROVE  LET waits == {w \in Contexts \X (1 .. Cardinality(LuaStates)) :
                             w[2] <= Len(pool[w[1]]) /\ pool[w[1]][w[2]] = l}
                 users == {t \in Threads : call[t].lua = l}
             IN /\ Cardinality(waits) + Cardinality(users) = (IF Exists(l) THEN 1 ELSE 0)
                /\ \A w \in waits : w[1] = owner[l]
                /\ \A t \in users : call[t].context = owner[l]
  <2> DEFINE waits == {w \in Contexts \X (1 .. Cardinality(LuaStates)) :
                         w[2] <= Len(pool[w[1]]) /\ pool[w[1]][w[2]] = l}
             users == {t \in Threads : call[t].lua = l}
  <2>1. LuaTypes /\ PoolsInv /\ UsersInv /\ FoundInv
    BY <1>1 DEF IInv, StatesInv
  <2>2. Cardinality(LuaStates) \in Nat
    BY LuaAssumption, FS_CardinalityType
  <2>3. \A w \in waits : w = <<w[1], w[2]>> /\ w[1] \in Contexts /\ w[2] \in Nat
                          /\ Waits(l, w[1], w[2])
    <3>1. TAKE w \in waits
    <3>2. w = <<w[1], w[2]>> /\ w[1] \in Contexts /\ w[2] \in 1 .. Cardinality(LuaStates)
      OBVIOUS
    <3>3. Len(pool[w[1]]) \in Nat
      BY <2>1, <3>2 DEF LuaTypes
    <3>4. QED
      BY <2>2, <3>2, <3>3 DEF Waits
  <2>4. \A c \in Contexts, i \in Nat : Waits(l, c, i) => <<c, i>> \in waits
    <3>1. SUFFICES ASSUME NEW c \in Contexts, NEW i \in Nat, Waits(l, c, i)
                   PROVE  <<c, i>> \in waits
      OBVIOUS
    <3>2. Len(pool[c]) =< Cardinality(LuaStates) /\ Len(pool[c]) \in Nat
      BY <2>1, PoolLength DEF LuaTypes
    <3>3. i \in 1 .. Cardinality(LuaStates) /\ i <= Len(pool[c]) /\ pool[c][i] = l
      BY <2>2, <3>1, <3>2 DEF Waits
    <3>4. QED
      BY <3>3
  <2>5. \A w \in waits : w[1] = owner[l] /\ \A v \in waits : v = w
    BY <2>1, <2>3 DEF PoolsInv
  <2>6. \A t \in users : call[t].context = owner[l] /\ owner[l] # NoContext /\ waits = {}
    <3>1. TAKE t \in users
    <3>2. call[t].context = owner[l] /\ call[t].context \in Contexts
      BY <2>1, FrameFacts DEF UsersInv, LuaTypes
    <3>3. waits = {}
      BY <2>1, <2>3 DEF UsersInv
    <3>4. QED
      BY <3>2, <3>3, PluginAssumption DEF Contexts, NoContext
  <2>7. \A t, u \in users : t = u
    BY <2>1 DEF UsersInv
  <2>8. Exists(l) => users # {} \/ waits # {}
    BY <2>1, <2>4 DEF FoundInv, Exists, LuaTypes
  <2>9. waits # {} => Exists(l)
    BY <2>3, <2>5, PluginAssumption DEF Exists, Contexts, NoContext
  <2> HIDE DEF waits, users
  <2>10. CASE users # {}
    <3>1. PICK t : users = {t}
      BY <2>7, <2>10
    <3>2. waits = {} /\ Exists(l)
      BY <2>6, <3>1 DEF Exists
    <3>3. Cardinality(users) = 1 /\ Cardinality(waits) = 0
      BY <3>1, <3>2, OnePlace, FS_EmptySet
    <3>4. QED
      BY <2>5, <2>6, <3>2, <3>3 DEF waits, users
  <2>11. CASE users = {} /\ waits # {}
    <3>1. PICK w \in waits : \A v \in waits : v = w
      BY <2>5, <2>11
    <3>2. waits = {w}
      BY <3>1
    <3>3. Cardinality(users) = 0 /\ Exists(l)
      BY <2>9, <2>11, FS_EmptySet
    <3>4. Cardinality(waits) = 1
      BY <3>2, OnePlace
    <3>5. QED
      BY <2>5, <2>6, <3>3, <3>4 DEF waits, users
  <2>12. CASE users = {} /\ waits = {}
    <3>1. Cardinality(users) = 0 /\ Cardinality(waits) = 0 /\ ~Exists(l)
      BY <2>8, <2>12, FS_EmptySet
    <3>2. QED
      BY <2>5, <2>6, <3>1 DEF waits, users
  <2>13. QED
    BY <2>10, <2>11, <2>12
<1>2. IInv => StatesInOnePlace
  BY <1>1 DEF IInv, StatesInv, CountInv, Users, StatesInOnePlace
<1>3. QED
  BY <1>2, Invariance, PTL
=============================================================================
