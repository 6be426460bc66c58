CONSTANTS
  Queries = {list, plain}
  Reading = {list}
  Params = {p1, p2}
  None = None
  MaxSubs = 2
  MaxRequests = 2
  MaxChanges = 1
  MaxWindows = 2
SYMMETRY ParamSymmetry
SPECIFICATION Spec
\* Bounded: every subscription may be used up.
CHECK_DEADLOCK FALSE
INVARIANTS ViewsConverge AnswersAreCurrent WaitsAreAnswered
