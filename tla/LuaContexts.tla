---------------------------- MODULE LuaContexts ----------------------------
(***************************************************************************)
(* Lua in the plugin: the pool of Lua states each context has, the calls   *)
(* of JLua.evalLua that borrow them, and the wrapper of the root object,   *)
(* JDB, that every state keeps from the time it was made.                  *)
(*                                                                         *)
(*   collections/lua_module.cpp        the states and their pool           *)
(*   collections/lua_native_funcs.hpp  what the library calls              *)
(*   api_3/tes_lua.h                   the function of the script API      *)
(*   collections/context.hpp           root, clearing                      *)
(*   InternalLuaScripts/*.lua          external: the library in Lua        *)
(*                                                                         *)
(* Composed with Plugin, which says which context a call works on and when *)
(* contexts are cleared.  An object is a number that is not used again;    *)
(* only roots matter here.  Calls do not run while the game reverts or     *)
(* loads unless CallsOutlive is set: "i have assumed that Skyrim devs are  *)
(* not idiots to run scripts in process of save game loading"              *)
(* (context.hpp:91).                                                       *)
(***************************************************************************)
EXTENDS Plugin, Sequences, SequencesExt

CONSTANTS LuaStates,     \* memory for Lua states
          NoState,       \* stands for none
          Threads,
          EvalLua,       \* the function JLua.evalLua
          MaxRoots,      \* bound: root objects made in a session
          CallsOutlive   \* a call may go on while the game reverts or loads

ASSUME LuaAssumption ==
  /\ EvalLua \in Stateful
  /\ NoState \notin LuaStates
  /\ IsFiniteSet(LuaStates) /\ IsFiniteSet(Threads)
  /\ MaxRoots \in Nat
  /\ CallsOutlive \in BOOLEAN

VARIABLES
  owner,     \* the context each Lua state belongs to, NoContext: it does not exist
  wrapper,   \* the object its JDB wraps, 0 if init.lua could not be run
  pool,      \* _queue of each context
  acquired,  \* _aquired_count of each context
  root,      \* the root object of each context, 0 for none
  made,      \* the root objects made so far
  call       \* where each thread's call is

luaVars == <<owner, wrapper, pool, acquired, root, made, call>>
vars == <<pluginVars, luaVars>>

Frame(pc, context, lua) == [pc |-> pc, context |-> context, lua |-> lua]
Idle == Frame("idle", NoContext, NoState)

LuaInit ==
  /\ owner = [l \in LuaStates |-> NoContext]
  /\ wrapper = [l \in LuaStates |-> 0]
  /\ pool = [c \in Contexts |-> <<>>]
  /\ acquired = [c \in Contexts |-> 0]
  /\ root = [c \in Contexts |-> 0]
  /\ made = 0
  /\ call = [t \in Threads |-> Idle]

-----------------------------------------------------------------------------
(* A call of evalLua *)

Exists(l) == owner[l] # NoContext

\* A wrong variant: the state is looked at and stays in the pool.
RestPeeked(c) == pool[c]

\* The pool of a context without the state that waited longest.
Rest(c) == Tail(pool[c])

\* The thread's call borrows a state: the one that waited longest, or a new one.
Aquire(t) ==
  /\ Served
  /\ call[t] = Idle
  /\ \E f \in {f \in vm : f[2] = EvalLua} :
       LET c == ContextOf(f)
       IN /\ acquired' = [acquired EXCEPT ![c] = @ + 1]
          /\ IF pool[c] = <<>>
             THEN call' = [call EXCEPT ![t] = Frame("create", c, NoState)] /\ UNCHANGED pool
             ELSE /\ call' = [call EXCEPT ![t] = Frame("eval", c, Head(pool[c]))]
                  /\ pool' = [pool EXCEPT ![c] = Rest(c)]
  /\ UNCHANGED <<pluginVars, owner, wrapper, root, made>>

\* tes_context::root(), which makes the root object if there is none.
RootMade(c) ==
  IF root[c] # 0 THEN UNCHANGED <<root, made>>
  ELSE /\ made < MaxRoots
       /\ made' = made + 1
       /\ root' = [root EXCEPT ![c] = made + 1]

\* JDB_instance() and the library's JValue_retain of what it returns.
WrapRoot(l, c) == RootMade(c) /\ wrapper' = [wrapper EXCEPT ![l] = root'[c]]

\* A new state: setupLuaContext() runs init.lua, which may fail; the state is used all the same.
Create(t) ==
  /\ call[t].pc = "create"
  /\ \E l \in LuaStates :
       LET c == call[t].context
       IN /\ ~Exists(l)
          /\ owner' = [owner EXCEPT ![l] = c]
          /\ \/ WrapRoot(l, c)
             \/ wrapper' = [wrapper EXCEPT ![l] = 0] /\ UNCHANGED <<root, made>>
          /\ call' = [call EXCEPT ![t] = Frame("eval", c, l)]
  /\ UNCHANGED <<pluginVars, pool, acquired>>

\* The Lua code runs, or fails; then the state goes back to the pool it came from.
EvalAndRelease(t) ==
  /\ call[t].pc = "eval"
  /\ LET c == call[t].context
     IN /\ pool' = [pool EXCEPT ![c] = Append(@, call[t].lua)]
        /\ acquired' = [acquired EXCEPT ![c] = @ - 1]
  /\ call' = [call EXCEPT ![t] = Idle]
  /\ UNCHANGED <<pluginVars, owner, wrapper, root, made>>

\* A script that uses JDB.
UseRoot ==
  /\ Served
  /\ \E f \in vm : f[2] # EvalLua /\ f[2] \in Stateful /\ RootMade(ContextOf(f))
  /\ UNCHANGED <<pluginVars, owner, wrapper, pool, acquired, call>>

-----------------------------------------------------------------------------
(* Clearing *)

NoCalls == CallsOutlive \/ \A t \in Threads : call[t] = Idle

\* The states of a context's pool are closed; those that calls have are not.
Pooled(c) == ToSet(pool[c])
Closed(C) == UNION {Pooled(c) : c \in C}

\* A wrong variant: the dependent contexts are not asked to clear.
ClearContextsRootOnly(C) ==
  /\ root' = [c \in Contexts |-> IF c \in C THEN 0 ELSE root[c]]
  /\ UNCHANGED <<owner, wrapper, pool>>

\* object_context::u_clearState() of the contexts C: the dependent contexts first.
ClearContexts(C) ==
  /\ owner' = [l \in LuaStates |-> IF l \in Closed(C) THEN NoContext ELSE owner[l]]
  /\ wrapper' = [l \in LuaStates |-> IF l \in Closed(C) THEN 0 ELSE wrapper[l]]
  /\ pool' = [c \in Contexts |-> IF c \in C THEN <<>> ELSE pool[c]]
  /\ root' = [c \in Contexts |-> IF c \in C THEN 0 ELSE root[c]]

ClearLua ==
  /\ ClearState
  /\ ClearContexts(living)
  /\ UNCHANGED <<acquired, made, call>>

\* The archive's default domain or another one has the root it was saved with.
LoadRoot ==
  /\ event = "read"
  /\ \E c \in living : root[c] = 0 /\ RootMade(c)
  /\ UNCHANGED <<pluginVars, owner, wrapper, pool, acquired, call>>

\* The load is over.  If it failed everything is cleared once more.
EndLoad ==
  /\ \/ EndRead(TRUE) /\ ClearContexts(living \ living')
     \/ \E complete \in BOOLEAN : EndRead(complete) /\ ClearContexts(living)
  /\ UNCHANGED <<acquired, made, call>>

-----------------------------------------------------------------------------

PluginStep == Construct \/ Query \/ PluginLoad \/ RegisterAllFunctions \/ GetDomainWithName \/ ReadDomain

Init == PluginInit /\ LuaInit

Next ==
  \/ PluginStep /\ UNCHANGED luaVars
  \/ NoCalls /\ BeginClear /\ UNCHANGED luaVars
  \/ ClearLua \/ LoadRoot \/ EndLoad
  \/ UseRoot
  \/ \E t \in Threads : Aquire(t) \/ Create(t) \/ EvalAndRelease(t)

Spec == Init /\ [][Next]_vars

-----------------------------------------------------------------------------
(* Properties *)

\* "any thead can obtain free (or newly created), initialized lua-context, the
\* tread have to return it back" (lua_module.cpp:188): each state there is waits
\* once in the pool of its context or is in the hands of one call on that
\* context, and the count of the borrowed ones is right; none is closed while
\* it is in use and none is lost.
StatesInOnePlace ==
  /\ \A l \in LuaStates :
       LET waits == {w \in Contexts \X (1 .. Cardinality(LuaStates)) :
                        w[2] <= Len(pool[w[1]]) /\ pool[w[1]][w[2]] = l}
           users == {t \in Threads : call[t].lua = l}
       IN /\ Cardinality(waits) + Cardinality(users) = (IF Exists(l) THEN 1 ELSE 0)
          /\ \A w \in waits : w[1] = owner[l]
          /\ \A t \in users : call[t].context = owner[l]
  /\ \A c \in Contexts : acquired[c] = Cardinality({t \in Threads : call[t].context = c})

\* EXPECT_TRUE(*testTransporting("return JDB") == db.base()) (lua_module.cpp:300):
\* the root every state keeps is the root of its context, over reverts, loads
\* and failed loads, although neither asks the other.
JdbIsRoot ==
  \A l \in LuaStates :
    Exists(l) /\ wrapper[l] # 0 => wrapper[l] = root[owner[l]]
=============================================================================
