\* libfaketimeMT on the default backend, without stat() and save file.
SPECIFICATION FairSpec
CONSTANTS
  Thread = {1, 2, 3}
  Proc = {1, 2}
  ProcOf <- TwoThreads
  Root = 1
  NoThread = NoThread
  Free = Free
  Backend = "flock"
  MT = TRUE
  Ticking = TRUE
  LoadLen = 1
  Saving = FALSE
  Resets = "always"
  Stats = FALSE
  StatFields = 2
  Forks = FALSE
  Crashes = FALSE
  WriteFails = FALSE
  MaxCalls = 4
  MaxNow = 1

  
PROPERTIES
  OneGlobalClock
  CallsReturn
CHECK_DEADLOCK FALSE
