\* libfaketimeMT: one thread calls stat(), another time().
SPECIFICATION Spec
CONSTANTS
  Thread = {1, 2, 3}
  Proc = {1, 2}
  ProcOf <- TwoThreads
  Root = 1
  NoThread = NoThread
  Free = Free
  Backend = "flock"
  MT = TRUE
  Ticking = TRUE
  LoadLen = 0
  Saving = FALSE
  Resets = "never"
  Stats = TRUE
  StatFields = 2
  Forks = FALSE
  Crashes = FALSE
  WriteFails = FALSE
  MaxCalls = 4
  MaxNow = 1
INVARIANT
  TickingIgnoresSystemClock
CHECK_DEADLOCK FALSE
