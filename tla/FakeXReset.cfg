\* The x modifier is changed under FAKETIME_XRESET.
SPECIFICATION Spec
CONSTANTS
  Proc = {1}
  Root = 1
  Clock = {"real"}
  Boot <- RealOnly
  NoSetting = NoSetting
  FirstEnv = {NoSetting}
  FirstFile <- Twice
  Edits <- TwiceOnce
  FileTimes = {4}
  SetTimes <- Nothing
  CacheDuration <- NoCache
  XReset = TRUE
  DontReset = TRUE
  FollowAbsolute = FALSE
  FakeUtime <- Nothing
  UpdateFile = FALSE
  MaxNow = 4
  MaxChanges = 1
  MaxTicks = 0
PROPERTY
  NoJumpBack
CHECK_DEADLOCK FALSE
