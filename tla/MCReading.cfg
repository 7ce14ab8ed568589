\* One container with up to three items or keys.
CONSTANTS
  Names = {1, 2}
  Numbers <- SomeNumbers
  EndKeys <- SomeEndKeys
  Forms = {1, 2}
  LocalFormID <- LocalIds
  Values <- SomeValues
  MaxCount = 3
SPECIFICATION Spec
INVARIANTS
  IterationsVisitStaying
  ReadsAgree
  PapyrusArraysAgree
