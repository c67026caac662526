\* A program forks without exec on the default backend.
SPECIFICATION Spec
CONSTANTS
  Thread = {1, 2}
  Proc = {1, 2}
  ProcOf <- OneThreadEach
  Root = 1
  NoThread = NoThread
  Free = Free
  Backend = "flock"
  MT = FALSE
  Ticking = TRUE
  LoadLen = 0
  Saving = FALSE
  Resets = "never"
  Stats = FALSE
  StatFields = 2
  Forks = TRUE
  Crashes = FALSE
  WriteFails = FALSE
  MaxCalls = 3
  MaxNow = 1
INVARIANT
  EveryCallSteps
CHECK_DEADLOCK FALSE
