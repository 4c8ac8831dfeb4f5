SPECIFICATION Spec
SYMMETRY Symmetric
CONSTANTS
  Project = {p, q}
  MaxTip = 2
  MaxCrashes = 1
  MaxLosses = 1
  NoBackup = NoBackup
PROPERTIES BackupIsOneMoment PushStays RestoreIsWhole
CHECK_DEADLOCK FALSE
