\* Three objects, the default domain and a named one.
CONSTANTS
  Objects = {o1, o2, o3}
  Default = default
  Names = {mod}
  None = None
  MaxTesRetains = 1
  MaxStack = 1
  MaxAfterSave = 0
  TaggedRoots = FALSE
  SlowLoads = TRUE
SPECIFICATION Spec
SYMMETRY Symmetry
INVARIANTS
  CountersExact
  UnownedIsQueued
  CachedRootIsRoot
  TimersRun

  
