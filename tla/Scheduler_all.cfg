SPECIFICATION FairSpec
CONSTANTS
  Tasks = {"cron", "every"}
  ScheduleNext <- MCScheduleNext
  RetryOnFail = {"every"}
  MaxRetries <- MCMaxRetries
  RetryDelay <- MCRetryDelay
  Backoff = {"every"}
  OffAtBoot = {}
  CatchUpWindow = 2
  DBMayFail = FALSE
  NoRow = NoRow
  MaxTime = 6
  MaxBoots = 2
INVARIANTS TypeOK SingleExecution ServedSlotNotRerun RetryBudgetPerStart
PROPERTIES ImplementsLedger DueTaskRuns InterruptedRunRepeats StartAndStopEnd
CHECK_DEADLOCK FALSE
