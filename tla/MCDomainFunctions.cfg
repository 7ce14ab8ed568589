\* The functions of a domain's class work on the domain's context.
CONSTANTS
  Stateful = {evalLua, setObj}
  Stateless = {formId}
  OwnClass = own
  ActiveNames = {d1}
  SavedNames = {d1, d2}
  MaxContexts = 2
  LuaStates = {l1, l2}
  NoState = none
  Threads = {t1, t2}
  EvalLua = evalLua
  MaxRoots = 4
  CallsOutlive = FALSE
SPECIFICATION Spec
CHECK_DEADLOCK FALSE
INVARIANT
  DomainsHaveTheirOwn
