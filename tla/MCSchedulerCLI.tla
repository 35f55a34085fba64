--------------------------- MODULE MCSchedulerCLI ---------------------------
(* Tasks for TLC: "hourly" is the one that is off by default.               *)
EXTENDS SchedulerCLI

MCScheduleNext(t, a) == a + 2

MCMaxRetries == [t \in Tasks |-> 1]
MCRetryDelay == [t \in Tasks |-> 0]
=============================================================================
