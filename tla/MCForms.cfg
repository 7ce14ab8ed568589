\* Two forms, of which 2 is number 1 in its mod, one script thread.
CONSTANTS
  Forms = {1, 2}
  TextForms = {1}
  LocalFormID <- LocalIds
  Slots = {s1}
  Threads = {t1}
  MaxEntries = 2
  MaxKeys = 2
SPECIFICATION Spec
SYMMETRY Symmetry
INVARIANTS
  LivingShareWatched
  KeysSearchable
PROPERTIES
  ExpiredForGood
  NextKeyIsNext
