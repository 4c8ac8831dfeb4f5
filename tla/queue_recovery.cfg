SPECIFICATION Spec
CONSTANTS
  Primary_ = primary
  Other = other
  Primary = primary
  Jobs = {1, 2}
  Runners <- MCRunners
  Refs <- MCRefs
  Branches <- MCBranches
  DefaultRef = "main"
  Ref <- MainRef
  AutoCancel = {1, 2}
  CanRun <- Anyone
  MaxAttempts = 2
  MaxGiveBacks = 1
  MaxCrashes = 1
  MaxInterrupts = 1
  TimelyWrites = TRUE
INVARIANTS NoJobLost OneRunPerRef AttemptsBounded SupersededNeverWaits
PROPERTIES TerminalIsFinal  KeepsPromise
CHECK_DEADLOCK FALSE
