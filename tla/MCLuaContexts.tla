--------------------------- MODULE MCLuaContexts ---------------------------
(***************************************************************************)
(* Instances of LuaContexts for TLC.                                       *)
(***************************************************************************)
EXTENDS LuaContexts, TLC

Symmetry == Permutations(LuaStates) \union Permutations(Threads)
=============================================================================
