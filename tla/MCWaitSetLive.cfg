CONSTANTS
  c1 = c1
  c2 = c2
  Conditions = {c1, c2}
  Workers = {w1, w2}
  Dispatchers = {}
  Setters = {s1}
  Triggers <- Chained
  Calls = {}
  Ops = {"Attach", "Detach", "Throw"}
  None = None
SPECIFICATION FairSpec
INVARIANTS
  WorkConserved
PROPERTIES
  TriggerHandled
  ImplementsDispatching
