CONSTANTS
  t1 = t1
  t2 = t2
  Tasks = {t1}
  Workers = {w1}
  Initial = {t1}
  Policy <- AllImmediately
  Backoff = 1
  MaxAge = 2
  MaxCalls = 0
  Started = {}
  Infinite = 4
  Ops = {}
  None = None
SPECIFICATION Spec
INVARIANTS
  NoAssertFails
