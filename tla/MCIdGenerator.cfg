\* Six identifiers, at most five in use: every merge, insertion and wrap-around.
CONSTANTS
  MinId = 1
  MaxId = 6
  MaxObjects = 5
  NoSave = NoSave
SPECIFICATION Spec
INVARIANTS
  TypeOK
  FreeIdsExact
  RangesApart
  CurrentRangeValid
PROPERTY
  ImplementsAllocator
