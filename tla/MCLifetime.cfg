\* Two script threads and the timer, all primitives atomic.  getObj is left out:
\* with it a second thread can unlink the object while it is being returned.
CONSTANTS
  TimeMax = 4
  ObjLifeInTicks = 2
  Objects = {o1, o2}
  Handles = {h1, h2}
  Slots = {s1}
  Threads = {t1, t2}
  Functions = {"object", "objectFromPrototype", "setObj", "clear", "retain", "release", "zeroLifetime"}
  MaxTesRetains = 1
  Split = {}
  None = None
SPECIFICATION Spec
SYMMETRY Symmetry
INVARIANTS
  TypeOK
  NoDangling
  UnownedIsQueued
  QueueAgeBounded
