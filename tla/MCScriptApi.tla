----------------------------- MODULE MCScriptApi -----------------------------
(***************************************************************************)
(* Instances of ScriptApi for TLC: some paths.                               *)
(***************************************************************************)
EXTENDS ScriptApi

\* Two mods, whose forms are 0 to 3 and 4 to 7, and two light ones with 8, 9 and 10, 11.
TwoMods == <<"skyrim", "dragons">>
TwoLightMods == <<"turtles", "frogs">>

FromTheEnd == {-1}
BothSigns == {-1, 1}

AForm == CHOOSE f \in Forms : TRUE

\* Every kind of key first and last, and several kinds in one path.
SomePaths ==
  { <<Name(1)>>, <<Name(1), Name(2)>>, <<Name(1), FormKey(AForm)>>, <<FormKey(AForm), Index(-1)>>,
    <<Name(1), Index(-1), Name(2)>> }
=============================================================================
