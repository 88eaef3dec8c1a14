CONSTANTS
  Clients = {a, b}
  MaxRuns = 3
  Faults = {"Interrupt", "Cancel", "Throw", "ThrowOther", "Callback"}
SPECIFICATION FairSpec
INVARIANTS
  TypeOK
  InterruptScoped
  OutcomeRecorded
PROPERTIES
  ReadyIsCurrent
  SuccessReleases
  RunReleases
