----------------------------- MODULE FormHandling -----------------------------
(***************************************************************************)
(* Form identifiers and the strings for them, "__formData|mod|number".     *)
(*                                                                         *)
(*   forms/form_handling.h    identifiers, strings                         *)
(*   skse/jc_skse.cpp         the names of the mods that are loaded        *)
(*                                                                         *)
(* The first byte of an identifier is the index of its mod; of those two   *)
(* have a meaning of their own: 0xfe is for forms of light mods, whose     *)
(* index is in the bits that follow, 0xff for forms made during the game.  *)
(***************************************************************************)
EXTENDS Naturals, Sequences

CONSTANTS LocalSize,  \* identifiers of one first byte: 2^24
          LightSize,  \* of one light mod: 2^12
          Light,      \* the byte 0xfe
          Dynamic,    \* the byte 0xff
          Mods,       \* the loaded mods in their order
          LightMods,  \* the loaded light mods in theirs
          NoMod       \* the empty name

ASSUME FormHandlingAssumption ==
  /\ LocalSize \in Nat \ {0} /\ LightSize \in Nat \ {0} /\ LocalSize % LightSize = 0
  /\ Light \in Nat /\ Dynamic = Light + 1
  /\ Len(Mods) <= Light /\ Len(LightMods) <= LocalSize \div LightSize
  /\ \A i \in DOMAIN Mods : Mods[i] # NoMod
  /\ \A i \in DOMAIN LightMods : LightMods[i] # NoMod

FormIds == 0 .. (Dynamic + 1) * LocalSize - 1

IsStatic(id) == id \div LocalSize # Dynamic
IsLight(id) == id \div LocalSize = Light

LocalId(id) == IF IsLight(id) THEN id % LightSize ELSE id % LocalSize

\* make_weak_form_id of a form takes the game's GetLocalFormID: the form's mod is lost.
WeakFormId(id) == LocalId(id)

NameAt(mods, i) == IF i < Len(mods) THEN {mods[i + 1]} ELSE {}

LoadedModName(i) == NameAt(Mods, i)

\* The name at the place of a light mod, looked up among the other mods.
LoadedLightModName(i) == NameAt(Mods, i)

\* A string: the name of the mod and a number; none if there is no such mod.
FormToString(id) ==
  LET named(mods) == { [mod |-> m, form |-> LocalId(id)] : m \in mods }
  IN  IF ~IsStatic(id) THEN {[mod |-> NoMod, form |-> id]}
      ELSE IF IsLight(id) THEN named(LoadedLightModName((id % LocalSize) \div LightSize))
      ELSE named(LoadedModName(id \div LocalSize))

\* The game's TESDataHandler::LookupFormID.
LookupFormID(mod, form) ==
  { (i - 1) * LocalSize + (form % LocalSize) : i \in { j \in DOMAIN Mods : Mods[j] = mod } }
    \union { Light * LocalSize + (i - 1) * LightSize + (form % LightSize) :
               i \in { j \in DOMAIN LightMods : LightMods[j] = mod } }

StringToForm(s) ==
  IF s.mod = NoMod THEN {Dynamic * LocalSize + (s.form % LocalSize)} ELSE LookupFormID(s.mod, s.form)
=============================================================================
