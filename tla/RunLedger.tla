----------------------------- MODULE RunLedger -----------------------------
(***************************************************************************)
(* What the task scheduler promises its operator, with no process, no      *)
(* database and no loop in it: a ledger of task runs.                      *)
(*                                                                         *)
(*   - a task has at most one run in progress;                             *)
(*   - a run that finishes is entered in the ledger once, as a success, as *)
(*     a failure, or (a skip) not at all;                                  *)
(*   - once a run started at s has succeeded, the task does not run again  *)
(*     before its schedule's next activation after s;                      *)
(*   - a run may be cut off (the process died); it is then not counted.    *)
(*                                                                         *)
(* Scheduler.tla implements this module: see Scheduler!Ledger.             *)
(***************************************************************************)
EXTENDS Integers

CONSTANTS Tasks,               \* the tasks whose runs are entered
          ScheduleNext(_, _)   \* first activation of a task after a time; 0: none

VARIABLES now,        \* the clock
          runStart,   \* start of the run in progress of each task, 0 when idle
          lastOk,     \* start of the last successful run of each task, 0: none
          okRuns,     \* successes entered in the ledger
          failedRuns  \* failures entered in the ledger

ledger == <<now, runStart, lastOk, okRuns, failedRuns>>

Init ==
  /\ now = 1
  /\ runStart   = [t \in Tasks |-> 0]
  /\ lastOk     = [t \in Tasks |-> 0]
  /\ okRuns     = [t \in Tasks |-> 0]
  /\ failedRuns = [t \in Tasks |-> 0]

Tick ==
  /\ now' = now + 1
  /\ UNCHANGED <<runStart, lastOk, okRuns, failedRuns>>

\* The slot that the last success served is over.
SlotOpen(t) ==
  \/ lastOk[t] = 0
  \/ now >= ScheduleNext(t, lastOk[t]) /\ ScheduleNext(t, lastOk[t]) # 0

Begin(t) ==
  /\ runStart[t] = 0
  /\ SlotOpen(t)
  /\ runStart' = [runStart EXCEPT ![t] = now]
  /\ UNCHANGED <<now, lastOk, okRuns, failedRuns>>

Succeed(t) ==
  /\ runStart[t] # 0
  /\ okRuns'   = [okRuns EXCEPT ![t] = @ + 1]
  /\ lastOk'   = [lastOk EXCEPT ![t] = runStart[t]]
  /\ runStart' = [runStart EXCEPT ![t] = 0]
  /\ UNCHANGED <<now, failedRuns>>

Fail(t) ==
  /\ runStart[t] # 0
  /\ failedRuns' = [failedRuns EXCEPT ![t] = @ + 1]
  /\ runStart'   = [runStart EXCEPT ![t] = 0]
  /\ UNCHANGED <<now, lastOk, okRuns>>

\* Runs that end without an entry: a skip, or every run of a process that dies.
Vanish(S) ==
  /\ runStart' = [t \in Tasks |-> IF t \in S THEN 0 ELSE runStart[t]]
  /\ UNCHANGED <<now, lastOk, okRuns, failedRuns>>

Next ==
  \/ Tick
  \/ \E t \in Tasks : Begin(t) \/ Succeed(t) \/ Fail(t)
  \/ \E S \in SUBSET Tasks : Vanish(S)

Spec == Init /\ [][Next]_ledger
=============================================================================
