\* Two processes that share a timestamp file.
SPECIFICATION Spec
CONSTANTS
  Proc = {1, 2}
  Root = 1
  Clock = {"real", "mon"}
  Boot <- Clocks
  NoSetting = NoSetting
  FirstEnv = {NoSetting}
  FirstFile <- AtFirst
  Edits <- Later
  FileTimes = {4}
  SetTimes = {4}
  CacheDuration = 0
  XReset = FALSE
  DontReset = TRUE
  FollowAbsolute = TRUE
  FakeUtime = {1}
  UpdateFile = TRUE
  MaxNow = 2
  MaxChanges = 2
  MaxTicks = 2
INVARIANTS
  TypeOK
  ClocksInStep
  
  TimestampReadsBack
PROPERTIES
  TakesEffect
  
  SetTimeReadsBack
  
CHECK_DEADLOCK FALSE
