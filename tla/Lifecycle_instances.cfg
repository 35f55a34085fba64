SPECIFICATION FairSpec
CONSTANTS
  Pids = {p1, p2}
  None = None
  Empty = Empty
  RunsAsRoot = FALSE
  MaxStarts = 3
  MaxSignals = 2
INVARIANTS OneInstance
PROPERTIES RefusedOnlyBesideAnother EndsWhenTold
CHECK_DEADLOCK FALSE
