------------------------------- MODULE Plugin -------------------------------
(***************************************************************************)
(* The plugin in the game: how it is loaded, how the functions of the      *)
(* script API reach Papyrus, which context a call works on, and what the   *)
(* game's events do to the contexts.                                       *)
(*                                                                         *)
(*   skse_callbacks.cpp                loading, registration, callbacks    *)
(*   reflection/*                      the registry of classes, bindings   *)
(*   domains/domain_master.*           the domains and their contexts      *)
(*   jc_interface.cpp                  what other plugins are given        *)
(*   skse/jc_skse.cpp                  the API of the game behind forms    *)
(*                                                                         *)
(* A context is named by the memory it is in, 0 being the default domain's *)
(* inside the master.  A function stands for its class and its name in it; *)
(* Papyrus finds it in that class and, for each domain, once more in a     *)
(* class named after the domain.  The code that Papyrus calls has a static *)
(* variable, its callback, that refers to a context.                       *)
(***************************************************************************)
EXTENDS Naturals, FiniteSets, Functions

CONSTANTS Stateful,      \* functions of the API that work on a context
          Stateless,     \* functions that need none
          OwnClass,      \* stands for the class a function is declared in
          ActiveNames,   \* active_domain_names: the folders of JCData/Domains
          SavedNames,    \* names of domains that saved games have
          MaxContexts    \* bound: memory cells for contexts

ASSUME PluginAssumption ==
  /\ Stateful \intersect Stateless = {}
  /\ OwnClass \notin ActiveNames
  /\ MaxContexts \in Nat

VARIABLES
  skse,      \* what the game offers the plugin
  stage,     \* how far the plugin is loaded
  taken,     \* the interfaces it has
  api,       \* g_current_api: "fake", "silent" or "real"
  vm,        \* the functions Papyrus knows: <<class, name>>
  callback,  \* the context of each function of the API
  domains,   \* _domains: name to context
  living,    \* the contexts that exist
  cached,    \* the contexts whose address other plugins keep
  event      \* the callback of the game that runs: "none", "clear", "read"

pluginVars == <<skse, stage, taken, api, vm, callback, domains, living, cached, event>>

Default == 0
NoContext == MaxContexts + 1
Contexts == 0 .. MaxContexts
Registry == Stateful \union Stateless
Names == ActiveNames \union SavedNames

Interfaces == {"serialization", "papyrus", "messaging"}
Quality == {"missing", "old", "good"}

-----------------------------------------------------------------------------
(* Loading *)

PluginInit ==
  /\ skse \in [editor : BOOLEAN, interface : [Interfaces -> Quality], vr : BOOLEAN, logs : BOOLEAN]
  /\ stage = "start"
  /\ taken = {}
  /\ api = "fake"
  /\ vm = {}
  /\ callback = [f \in Registry |-> NoContext]
  /\ domains = << >>
  /\ living = {Default}
  /\ cached = {}
  /\ event = "none"

Offered(i) == skse.interface[i] # "missing"

\* set_real_api() and set_silent_api(): g_current_api is one pointer for all threads.
UseApi(name) == api' = name

\* SKSEPluginLoad() and skse_callbacks(): it needs a place for the log, and
\* without Papyrus it does not look for messaging.
Construct ==
  /\ stage = "start"
  /\ stage' = IF skse.logs THEN "constructed" ELSE "refused"
  /\ taken' = {i \in {"serialization", "papyrus"} : Offered(i)}
                \union {i \in {"messaging"} : Offered("papyrus") /\ Offered(i)}
  /\ UNCHANGED <<skse, api, vm, callback, domains, living, cached, event>>

\* The guards of SKSEQuery() in their order; the builds for VR leave it out.
QueryRefuses ==
  \/ skse.editor
  \/ skse.interface["serialization"] # "good"
  \/ ~Offered("papyrus")

\* Without a messaging interface the warning reads the version of none.
Query ==
  /\ stage = "constructed"
  /\ stage' = IF skse.vr THEN "queried"
              ELSE IF QueryRefuses THEN "refused"
              ELSE IF Offered("messaging") THEN "queried" ELSE "crashed"
  /\ UNCHANGED <<skse, taken, api, vm, callback, domains, living, cached, event>>

\* Plugin_Load(): the callbacks are set and the function that registers is announced, which may fail.
PluginLoad ==
  /\ stage = "queried"
  /\ stage' \in IF {"serialization", "papyrus"} \subseteq taken THEN {"loaded", "refused"} ELSE {"refused"}
  /\ UNCHANGED <<skse, taken, api, vm, callback, domains, living, cached, event>>

-----------------------------------------------------------------------------
(* Contexts of domains *)

\* get_or_create_domain_with_name(): the domain's context, in a free cell if it has none.
GetOrCreate(name, context) ==
  IF name \in DOMAIN domains
  THEN context = domains[name] /\ UNCHANGED <<domains, living>>
  ELSE /\ context \in Contexts \ living
       /\ domains' = [n \in DOMAIN domains \union {name} |-> IF n = name THEN context ELSE domains[n]]
       /\ living' = living \union {context}

\* A wrong variant: every domain goes, whose context is a heap object.
KeptDomainsNone == {}

\* What u_delete_inactive_domains() leaves.
KeptDomains == ActiveNames

\* u_delete_inactive_domains()
DeleteInactiveDomains ==
  /\ domains' = Restrict(domains, DOMAIN domains \intersect KeptDomains)
  /\ living' = {Default} \union Range(domains')

-----------------------------------------------------------------------------
(* Registration *)

\* A function without a context as its state is registered as stateless.
IsStateless(f) == f \notin Stateful

\* amalgamate_classes(): one class with the functions of all that have a context.
AmalgamateClasses == { f \in Registry : ~IsStateless(f) }

\* class_info::bind(): Papyrus learns each function of a class under the class's name.
Bind(className, functions) == {className} \X functions

\* The classes as they are for the default domain, an amalgamated one for each other.
RegisteredFunctions ==
  Bind(OwnClass, Registry) \union UNION { Bind(name, AmalgamateClasses) : name \in ActiveNames }

\* initialize(): the first registration of a function sets its callback, any other one leaves it.
Initialized(f, context) == IF callback[f] = NoContext THEN context ELSE callback[f]

\* Every active domain's context, those that have none in free cells.
DomainsMade(made) ==
  /\ DOMAIN made = DOMAIN domains \union ActiveNames
  /\ \A d \in DOMAIN domains : made[d] = domains[d]
  /\ \A d \in DOMAIN made \ DOMAIN domains : made[d] \in Contexts \ living
  /\ IsInjective(made)

\* registerAllFunctions(): the default domain comes first.
RegisterAllFunctions ==
  /\ stage = "loaded"
  /\ stage' = "running"
  /\ callback' = [f \in Registry |-> Initialized(f, Default)]
  /\ \E made \in [DOMAIN domains \union ActiveNames -> Contexts] :
       /\ DomainsMade(made)
       /\ domains' = made
       /\ living' = {Default} \union Range(made)
  /\ vm' = RegisteredFunctions
  /\ UseApi("real")
  /\ UNCHANGED <<skse, taken, cached, event>>

\* The context a call of a function of Papyrus works on.
ContextOf(function) == callback[function[2]]

-----------------------------------------------------------------------------
(* Other plugins *)

\* listene(): when all plugins are loaded the root interface is sent to whoever
\* listens, if there is messaging.
RootSent == stage \in {"loaded", "running"} /\ "messaging" \in taken

\* A plugin that was sent the root interface asks for a domain: an inactive name gives it none.
GetDomainWithName ==
  /\ RootSent
  /\ event = "none"
  /\ \E name \in ActiveNames, context \in Contexts :
       /\ GetOrCreate(name, context)
       /\ cached' = cached \union {context}
  /\ UNCHANGED <<skse, stage, taken, api, vm, callback, event>>

-----------------------------------------------------------------------------
(* The game's events *)

Served == stage \in {"loaded", "running"} /\ event = "none"

\* revert() and load() silence the API and clear the master.
BeginClear ==
  /\ Served
  /\ event' = "clear"
  /\ UseApi("silent")
  /\ UNCHANGED <<skse, stage, taken, vm, callback, domains, living, cached>>

\* master::clear_state(), with the real API again afterwards; load() goes on to read.
ClearState ==
  /\ event = "clear"
  /\ DeleteInactiveDomains
  /\ UseApi("real")
  /\ event' \in {"none", "read"}
  /\ UNCHANGED <<skse, stage, taken, vm, callback, cached>>

\* The archive has one more domain.
ReadDomain ==
  /\ event = "read"
  /\ \E name \in SavedNames, context \in Contexts : GetOrCreate(name, context)
  /\ UNCHANGED <<skse, stage, taken, api, vm, callback, cached, event>>

\* The archive is read, to its end or until an exception: the domains of mods
\* that are gone go, but an archive that cannot be read leaves them until the next event.
EndRead(complete) ==
  /\ event = "read"
  /\ event' = "none"
  /\ IF complete THEN DeleteInactiveDomains ELSE UNCHANGED <<domains, living>>
  /\ UNCHANGED <<skse, stage, taken, api, vm, callback, cached>>

-----------------------------------------------------------------------------
(* Properties *)

\* What a call needs.  "we must preserve context pointers during ALL gaming
\* session" (skse_callbacks.cpp): whatever is reverted, loaded or fails to
\* load, each function of Papyrus finds a callback, its context exists, and
\* so does every context another plugin was given; and outside of the game's
\* callbacks the API behind forms is the real one.
CallsAreServed ==
  /\ \A f \in vm : ContextOf(f) \in living
  /\ cached \subseteq living
  /\ stage = "running" /\ event = "none" => api = "real"

\* "each function will store a pointer to tes_context instance"
\* (skse_callbacks.cpp:232): the functions of a domain's class work on the
\* context of that domain.
DomainsHaveTheirOwn ==
  \A f \in vm : f[1] # OwnClass => ContextOf(f) = domains[f[1]]
=============================================================================
