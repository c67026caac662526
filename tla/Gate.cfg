SPECIFICATION GateSpec
CONSTANTS
  Thread = {t1, t2}
  Settings <- MCSettings
  CounterMax = 4
  MaxElapsed = 1
  MaxCalls = 5
  None = None
INVARIANTS GateTypeOK FakedOnlyWhenReady SkippedSeesReal  SpawnOnce
PROPERTY EveryCallReturns
CHECK_DEADLOCK FALSE
