SPECIFICATION FairSpec
CONSTANTS
  MaxKeys = 2
  Plans <- MCPlans
INVARIANT OneProcess
PROPERTIES  NoticesDeath ShutdownEnds
CHECK_DEADLOCK FALSE
