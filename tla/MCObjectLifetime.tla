-------------------------- MODULE MCObjectLifetime --------------------------
(***************************************************************************)
(* Instances of ObjectLifetime for TLC.                                    *)
(***************************************************************************)
EXTENDS ObjectLifetime, TLC

\* The cells and the handles are interchangeable, and so are the slots and the
\* threads.
Symmetry ==
  Permutations(Objects) \union Permutations(Handles)
    \union Permutations(Slots) \union Permutations(Threads)
=============================================================================
