CONSTANTS
  Threads = {t1, t2}
  NoThread = NoThread
  Targets = {a, b}
  MaxSlots = 2
  MaxPending = 1
SPECIFICATION FairSpec
INVARIANTS
  TypeOK
  NotCalledAfterwards
  InsertedFresh
PROPERTIES
  CallEnds
CHECK_DEADLOCK FALSE
