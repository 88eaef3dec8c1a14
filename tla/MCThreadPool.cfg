CONSTANTS
  t1 = t1
  t2 = t2
  Tasks = {t1}
  Workers = {w1, w2}
  Initial = {}
  Policy <- Short
  Backoff = 1
  MaxAge = 1
  MaxCalls = 3
  Started = {w1, w2}
  Infinite = 2
  Ops = {"Add", "Suspended", "Trigger", "Suspend", "Resume", "Cancel", "Throw", "Late", "Idle"}
  None = None
SPECIFICATION Spec
SYMMETRY Symmetry
INVARIANTS
  TypeOK
  NotStartedTwice
  StartingIsServed
