SPECIFICATION Spec
CONSTANTS
  Project = {p, q}
  MaxTip = 2
  MaxCrashes = 1
  MaxLosses = 1
  NoBackup = NoBackup
PROPERTIES QuietBackupIsTaken
CHECK_DEADLOCK FALSE
