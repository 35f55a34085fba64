SPECIFICATION Spec
CONSTANTS
  Tasks = {"cron", "every"}
  ScheduleNext <- MCScheduleNext
  RetryOnFail = {"every"}
  MaxRetries <- MCMaxRetries
  RetryDelay <- MCRetryDelay
  Backoff = {"every"}
  OffAtBoot = {}
  CatchUpWindow = 2
  DBMayFail = TRUE
  NoRow = NoRow
  MaxTime = 4
  MaxBoots = 2
INVARIANTS RowsMatchMemory GracefulStop
CHECK_DEADLOCK FALSE
