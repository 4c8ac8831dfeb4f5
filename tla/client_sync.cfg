SPECIFICATION Spec
CONSTANTS
  Devices = {"laptop", "desktop"}
  Checkouts = {"one", "two", "site", "desk"}
  On <- Where
  Name <- Called
  Full = {"desktop"}
  Branches = {"main", "topic"}
  Main = "main"
  None = None
  Folders = {"one", "desk"}
  MaxActs = 2
  MaxCommands = 3
INVARIANTS RecordsAgree
PROPERTIES NothingRewound MainIsKept
CHECK_DEADLOCK FALSE
