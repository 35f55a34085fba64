---------------------------- MODULE MCScheduler ----------------------------
(* Tasks for TLC: "cron" and "cron2" fire at the even times up to 6 and     *)
(* then never again, "every" is an @every schedule of three units.          *)
EXTENDS Scheduler

MCScheduleNext(t, a) ==
  IF t = "every" THEN a + 3
  ELSE IF a < 6 THEN 2 * (a \div 2 + 1) ELSE 0

MCMaxRetries == [t \in Tasks |-> 1]
MCRetryDelay == [t \in Tasks |-> 0]
=============================================================================
