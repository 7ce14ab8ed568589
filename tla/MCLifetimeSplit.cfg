\* Two script threads and the timer at the granularity of the compiled code, up to
\* the first dangling pointer, where the execution stops.
CONSTANTS
  TimeMax = 3
  ObjLifeInTicks = 2
  Objects = {o1, o2}
  Handles = {h1, h2}
  Slots = {s1}
  Threads = {t1, t2}
  Functions = {"objectFromPrototype", "getObj", "setObj"}
  MaxTesRetains = 1
  Split = {"expiry", "stack"}
  None = None
SPECIFICATION Spec
SYMMETRY Symmetry
CHECK_DEADLOCK FALSE
INVARIANTS
  HandlesNameTheirObjects
  QueueOwnsOnce
  CountersExact
PROPERTIES
  AbandonedByTimerOnly
  DestroyedInUse
