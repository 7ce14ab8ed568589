\* One active domain, one of a mod that is gone, two threads.
CONSTANTS
  Stateful = {evalLua, setObj}
  Stateless = {formId}
  OwnClass = own
  ActiveNames = {d1}
  SavedNames = {d1, d2}
  MaxContexts = 2
  LuaStates = {l1, l2}
  NoState = none
  Threads = {t1, t2}
  EvalLua = evalLua
  MaxRoots = 4
  CallsOutlive = FALSE
SPECIFICATION Spec
CHECK_DEADLOCK FALSE
SYMMETRY Symmetry
INVARIANTS
  CallsAreServed
  StatesInOnePlace
  JdbIsRoot
