------------------------------ MODULE MCReading ------------------------------
(***************************************************************************)
(* A small container for Reading.                                          *)
(***************************************************************************)
EXTENDS Reading

SomeNumbers == {-1, 0, 2}
SomeEndKeys == {0, 1}
SomeValues == {Null, IntItem(1), FltItem(1), FormItem(1), FormItem(2)}

\* Two forms of the same place in different mods.
LocalIds == [f \in {1, 2} |-> 1]
=============================================================================
