CONSTANTS
  Threads = {t1, t2}
  NoThread = NoThread
SPECIFICATION FairSpec
INVARIANTS
  TypeOK
  WaitersCounted
  SignalledCovered
  WakeupAsserted
PROPERTIES
  ReleaseKept
  ImplementsCondVar
  InterruptNoticed
