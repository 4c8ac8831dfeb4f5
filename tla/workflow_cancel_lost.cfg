SPECIFICATION FairSpec
CONSTANTS
  LastId = 5
  Groups <- TwoGroups
  Children <- ThreeChildren
  GroupOf <- OwnGroup
  Needs <- Parallel
  AutoCancel = {1, 2}
  Runners = {"primary", "remote"}
  Primary = "primary"
  CanRun <- Everywhere
  Cancellable = {}
  MaxAttempts = 2
  MaxCrashes = 0
  MaxInterrupts = 0
PROPERTIES CancelReachesChildren
CHECK_DEADLOCK FALSE
