\* The queue reads the counters, a thread takes a reference, the queue deletes.
CONSTANTS
  TimeMax = 3
  ObjLifeInTicks = 2
  Objects = {o1, o2}
  Handles = {h1, h2}
  Slots = {s1}
  Threads = {t1}
  Functions = {"object", "getObj", "setObj", "retain", "release"}
  MaxTesRetains = 1
  Split = {"expiry"}
  None = None
SPECIFICATION Spec
SYMMETRY Symmetry
PROPERTY OwnedSurvive
