SPECIFICATION FairSpec
CONSTANTS
  Primary_ = primary
  Other = other
  Primary = primary
  Jobs = {1, 2}
  Runners <- MCRunners
  Refs <- MCRefs
  Branches <- MCBranches
  DefaultRef = "main"
  Ref <- MainRef
  AutoCancel = {}
  CanRun <- Labelled
  MaxAttempts = 2
  MaxGiveBacks = 0
  MaxCrashes = 1
  MaxInterrupts = 1
  TimelyWrites = TRUE
PROPERTIES Drains SiteNeverRollsBack
CHECK_DEADLOCK FALSE
