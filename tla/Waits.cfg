SPECIFICATION Spec
CONSTANTS
  SubSec = 4
  MaxSec = 63
  Start <- MCStart
  Base <- MCBase
  Rates <- MCRates
  WaitMs <- MCWaitMs
  Unset = Unset
  Lengths <- MCLengths
  Periods <- MCPeriods
  Offsets <- MCOffsets
  Timeouts <- MCTimeouts
  Micro = 2
  Milli = 2
  IntMax = 7
  MaxNow = 6
  MaxResumes = 1
  Never = Never
  Idle = Idle
  Fd <- MCFd
  Entries = 2
  Cond = {x1, x2}
  None = None
INVARIANTS WaitTypeOK  RemainingKept RightClock
CHECK_DEADLOCK FALSE
