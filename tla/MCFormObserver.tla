--------------------------- MODULE MCFormObserver ---------------------------
(***************************************************************************)
(* Instances of FormObserver for TLC.                                      *)
(***************************************************************************)
EXTENDS FormObserver, TLC

\* Form 2 comes from a mod in which it is number 1; form 1 from the first file.
LocalIds == [f \in Forms |-> 1]

Symmetry == Permutations(Slots) \union Permutations(Threads)
=============================================================================
