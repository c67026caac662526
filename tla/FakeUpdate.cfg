\* Two processes set the time and share it.
SPECIFICATION Spec
CONSTANTS
  Proc = {1, 2}
  Root = 1
  Clock = {"real"}
  Boot <- RealOnly
  NoSetting = NoSetting
  FirstEnv = {NoSetting}
  FirstFile <- Plain
  Edits <- Nothing
  FileTimes <- Nothing
  SetTimes = {4}
  CacheDuration = 0
  XReset = FALSE
  DontReset = TRUE
  FollowAbsolute = FALSE
  FakeUtime <- Nothing
  UpdateFile = TRUE
  MaxNow = 2
  MaxChanges = 2
  MaxTicks = 0
INVARIANT
  AdjustsForAll
CHECK_DEADLOCK FALSE
