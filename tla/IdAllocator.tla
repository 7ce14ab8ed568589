---------------------------- MODULE IdAllocator ----------------------------
(***************************************************************************)
(* What the object registry needs from its source of public handles: a     *)
(* handle is either free or in use, an allocation returns a handle that is *)
(* in use by nobody, only a handle in use is given back, and a load brings *)
(* back the handles in use at the save.                                    *)
(*                                                                         *)
(* IdGenerator is shown to implement this specification.                   *)
(***************************************************************************)
EXTENDS Naturals

CONSTANTS MinId, MaxId,     \* the first and the last identifier
          NoSave            \* no session has been saved yet

VARIABLES holders,          \* how many objects hold each identifier
          savedHolders      \* holders at the last save

vars == <<holders, savedHolders>>

Ids == MinId .. MaxId

NoHolders == [n \in Ids |-> 0]

Init == holders = NoHolders /\ savedHolders = NoSave

\* Any identifier that nobody holds may be handed out.
New ==
  /\ \E n \in Ids : holders[n] = 0 /\ holders' = [holders EXCEPT ![n] = 1]
  /\ UNCHANGED savedHolders

Reuse ==
  /\ \E n \in Ids : holders[n] = 1 /\ holders' = [holders EXCEPT ![n] = 0]
  /\ UNCHANGED savedHolders

Clear == holders' = NoHolders /\ UNCHANGED savedHolders

Save == savedHolders' = holders /\ UNCHANGED holders

Load ==
  /\ savedHolders # NoSave
  /\ holders' = savedHolders
  /\ UNCHANGED savedHolders

Next == New \/ Reuse \/ Clear \/ Save \/ Load

Spec == Init /\ [][Next]_vars
=============================================================================
