\* The default backend, single-threaded programs.
SPECIFICATION Spec
CONSTANTS
  Thread = {1, 2}
  Proc = {1, 2}
  ProcOf <- OneThreadEach
  Root = 1
  NoThread = NoThread
  Free = Free
  Backend = "flock"
  MT = FALSE
  Ticking = TRUE
  LoadLen = 1
  Saving = TRUE
  Resets = "never"
  Stats = TRUE
  StatFields = 2
  Forks = FALSE
  Crashes = TRUE
  WriteFails = FALSE
  MaxCalls = 3
  MaxNow = 1
INVARIANTS
  TypeOK
  MutualExclusion
  StartAgreement
  WholeRecords
  SavedBeforeReturn
  TickingIgnoresSystemClock
PROPERTIES
  OneGlobalClock
CHECK_DEADLOCK FALSE
