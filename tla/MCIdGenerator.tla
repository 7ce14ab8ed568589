--------------------------- MODULE MCIdGenerator ---------------------------
(***************************************************************************)
(* The instance of IdGenerator for TLC: identifiers 1 .. 6, all but one of *)
(* which may be in use (the program cannot hold 2^31 objects).             *)
(***************************************************************************)
EXTENDS IdGenerator
=============================================================================
