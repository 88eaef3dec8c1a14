CONSTANTS
  c1 = c1
  c2 = c2
  Order <- TwoCommands
  Policy <- AllOnce
  Controller <- OneSuccess
  Limit = 1
  MaxAge = 2
  MaxCalls = 2
  Ops = {"Execute", "Cancel", "Trigger"}
  Infinite = 3
SPECIFICATION FairSpec
CHECK_DEADLOCK FALSE
INVARIANTS
  TypeOK
  LimitKept
  NoOverlap
PROPERTIES
  EndsOnce
  GetsDone
