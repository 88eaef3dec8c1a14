CONSTANTS
  t1 = t1
  t2 = t2
  Tasks = {t2}
  Workers = {w1}
  Initial = {}
  Policy <- ForeverAndOnce
  Backoff = 1
  MaxAge = 2
  MaxCalls = 1
  Started = {}
  Infinite = 4
  Ops = {"Add"}
  None = None
SPECIFICATION FairSpec
PROPERTIES
  AddedStarts
