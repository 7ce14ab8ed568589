\* The root and two other containers with three items in all of them.
CONSTANTS
  Names = {1, 2}
  IntKeys <- FromTheEnd
  Numbers <- BothSigns
  Forms = {5}
  Paths <- SomePaths
  PoolKey = 1
  LocalSize = 4
  LightSize = 2
  Light = 2
  Dynamic = 3
  Mods <- TwoMods
  LightMods <- TwoLightMods
  NoMod = ""
  MaxCells = 3
  MaxItems = 3
SPECIFICATION Spec
INVARIANTS
  DeepCopyIsSeparate
  DocumentsReadBack
  CreativeSetterReadsBack
  PathsAgree
  FormDbReadsBack
  UniqueIsSet
  OperatorsPick
