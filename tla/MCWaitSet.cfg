CONSTANTS
  c1 = c1
  c2 = c2
  Conditions = {c1, c2}
  Workers = {w1}
  Dispatchers = {d1}
  Setters = {s1}
  Triggers <- Chained
  Calls = {"all", "next", "wait", c1}
  Ops = {"Stop", "Clear", "Handler", "Reset", "Throw"}
  None = None
SPECIFICATION Spec
INVARIANTS
  TypeOK
  QueueConsistent
  NoLostTrigger
