SPECIFICATION FairSpec
CONSTANTS
  Sizes <- ShortThenLong
  Total = 3
  Frame = 1
  Chunk = 2
  MaxFailures = 1
  MaxAttempts = 2
  MaxBreaks = 1
  MaxReports = 1
  MayLapse = TRUE
  PromptHost = TRUE
   
PROPERTIES RunEnds
CHECK_DEADLOCK FALSE
