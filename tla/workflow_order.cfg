SPECIFICATION FairSpec
CONSTANTS
  LastId = 5
  Groups <- TwoGroups
  Children <- ThreeChildren
  GroupOf <- OwnGroup
  Needs <- Chain
  AutoCancel = {2}
  Runners = {"primary", "remote"}
  Primary = "primary"
  CanRun <- Everywhere
  Cancellable = {1}
  MaxAttempts = 2
  MaxCrashes = 1
  MaxInterrupts = 1
PROPERTIES GroupSettles
INVARIANTS NoChildLost NeedsSucceeded ParentEndsLast ShownIsSuccess
PROPERTIES BranchOrder ChildEndIsFinal
CHECK_DEADLOCK FALSE
