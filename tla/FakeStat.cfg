\* An i modifier comes into force while stat() is called.
SPECIFICATION Spec
CONSTANTS
  Proc = {1}
  Root = 1
  Clock = {"real"}
  Boot <- RealOnly
  NoSetting = NoSetting
  FirstEnv = {NoSetting}
  FirstFile <- Plain
  Edits <- Stepping
  FileTimes = {4}
  SetTimes <- Nothing
  CacheDuration <- NoCache
  XReset = FALSE
  DontReset = TRUE
  FollowAbsolute = FALSE
  FakeUtime <- Nothing
  UpdateFile = FALSE
  MaxNow = 3
  MaxChanges = 1
  MaxTicks = 4
INVARIANT
  InForce
CHECK_DEADLOCK FALSE
