CONSTANTS
  Proc = {p1, p2, p3}
  Root = p1
  Ghost = ghost
  Old = old
  None = none
  Bad = bad
  RetryLimit = 3
  Leftover = {p1}
  MaxFaults = 1
  MaxExecs = 1
SPECIFICATION FairShmSpec
INVARIANTS TypeOK NothingLeft OneSession
PROPERTIES OnlyMakerRemoves JoinsWholePair InitEnds WrapperRemoves
CHECK_DEADLOCK FALSE
