SPECIFICATION Spec
CONSTANTS
  Runs = {1, 2, 3}
  KeepVersions = 2
  RunsKeep = 2
  MaxCrashes = 1
  WholeCommits = TRUE
  QuietSweep = TRUE
  QuietTag = TRUE
  BriefRequests = TRUE
  QuietRemoval = TRUE
INVARIANTS   InUseIsKept 
PROPERTIES RequestKeepsSite 
CHECK_DEADLOCK FALSE
