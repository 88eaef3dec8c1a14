SPECIFICATION FairSpec
CONSTANTS
  NoThread = NoThread
  Threads = {p1, c1, c2}
  Producers = {p1}
  Consumers = {c1, c2}
  Lookers = {p1, c1, c2}
  MaxPushes = 2
  MaxLooks = 2
  Faults = {"Interrupt", "Deadline"}
INVARIANTS TypeOK AccessCounted AssertionsHold
PROPERTIES SleeperServed
CHECK_DEADLOCK FALSE
