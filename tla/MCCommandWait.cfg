CONSTANTS
  c1 = c1
  c2 = c2
  Order <- OneCommand
  Policy <- AllOnce
  Controller <- OneSuccess
  Limit = 1
  MaxAge = 2
  MaxCalls = 1
  Ops = {"Execute"}
  Infinite = 3
SPECIFICATION FairSpec
PROPERTIES
  WaitEnds
