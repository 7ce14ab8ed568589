\* Liveness: no symmetry, fewer functions.
CONSTANTS
  TimeMax = 3
  ObjLifeInTicks = 2
  Objects = {o1, o2}
  Handles = {h1, h2}
  Slots = {s1}
  Threads = {t1}
  Functions = {"object", "getObj", "setObj", "release", "retain", "releaseAndRetain"}
  MaxTesRetains = 1
  Split = {}
  None = None
SPECIFICATION FairSpec
PROPERTY
  UnownedIsReclaimed
