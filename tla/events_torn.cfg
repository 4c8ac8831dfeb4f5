SPECIFICATION Spec
CONSTANTS
  Names = {"web", "lib"}
  Clients = {"laptop"}
  MaxLines = 2
  MaxRepos = 2
  MaxEvents = 3
  MaxCrashes = 1
INVARIANTS LogsReadable
CHECK_DEADLOCK FALSE
