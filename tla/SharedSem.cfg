\* Counting semaphores, with threads and forks.
SPECIFICATION Spec
CONSTANTS
  Thread = {1, 2, 3}
  Proc = {1, 2}
  ProcOf <- TwoThreads
  Root = 1
  NoThread = NoThread
  Free = Free
  Backend = "sem"
  MT = FALSE
  Ticking = TRUE
  LoadLen = 1
  Saving = TRUE
  Resets = "never"
  Stats = TRUE
  StatFields = 2
  Forks = TRUE
  Crashes = TRUE
  WriteFails = TRUE
  MaxCalls = 3
  MaxNow = 1
INVARIANTS
  MutualExclusion
  StartAgreement
  WholeRecords
PROPERTIES
  OneGlobalClock
CHECK_DEADLOCK FALSE
