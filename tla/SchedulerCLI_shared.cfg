SPECIFICATION CmdSpec
CONSTANTS
  Tasks = {"daily"}
  ScheduleNext <- MCScheduleNext
  RetryOnFail = {}
  MaxRetries <- MCMaxRetries
  RetryDelay <- MCRetryDelay
  Backoff = {}
  OffAtBoot = {}
  CatchUpWindow = 2
  DBMayFail = FALSE
  NoRow = NoRow
  MaxTime = 4
  MaxBoots = 2
  Cmds = {"c1", "c2"}
  MaxCommands = 2
INVARIANTS CountsOnlyRealRuns QuietToggleSticks
CHECK_DEADLOCK FALSE
