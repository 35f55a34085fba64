SPECIFICATION Spec
CONSTANTS
  a = a
  b = b
  proxy = proxy
  None = None
  Conns = {"c1", "c2"}
  Trusted = {proxy}
  Plans <- MCPlans
  Window = 2
  Updaters = {"first", "weekly"}
  MaxVersions = 3
  Slots = 2
  Timeout = 1
  MaxSessions = 2
INVARIANTS LimitHolds Fresh CountsHold DayHolds LogoutSticks
CHECK_DEADLOCK FALSE
