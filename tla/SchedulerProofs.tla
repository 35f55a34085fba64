-------------------------- MODULE SchedulerProofs --------------------------
(***************************************************************************)
(* Proofs about the scheduler and the commands beside it, for every set of *)
(* tasks, every schedule that keeps ScheduleAssumption and every policy.   *)
(***************************************************************************)
EXTENDS SchedulerCLI, TLAPS

-----------------------------------------------------------------------------
(* What the operators on Task structs and rows return.                     *)

LEMMA FreshTaskType == FreshTask \in Task
  BY SchedulerAssumption DEF FreshTask, Task, Time, Statuses, Outcomes

LEMMA RowOfType == ASSUME NEW k \in Task PROVE RowOf(k) \in Row
  BY DEF RowOf, Task, Row

LEMMA WritesOfSubset ==
  ASSUME NEW S, NEW w \in WritesOf(S) PROVE w \subseteq S
  BY DEF WritesOf

LEMMA ProductNat == ASSUME NEW a \in Nat, NEW b \in Nat PROVE a * b \in Nat
  BY SMT

\* The retry budget of the policy: no retry is counted past the allowed ones.
AttemptBounded == \A t \in Tasks : task[t].attempt <= RetriesAllowed(t)

LEMMA RetryPauseType ==
  ASSUME TypeOK, AttemptBounded, NEW t \in Tasks
  PROVE  RetryPause(t) \in Nat
<1>1. task[t].attempt \in 0 .. RetriesAllowed(t)
  BY SchedulerAssumption DEF TypeOK, AttemptBounded, Task, RetriesAllowed
<1>2. 2 ^ task[t].attempt \in Nat
  BY <1>1, ShiftAssumption
<1>3. (IF t \in Backoff THEN 2 ^ task[t].attempt ELSE 1) \in Nat
  BY <1>2
<1>4. (IF RetryDelay[t] = 0 THEN 1 ELSE RetryDelay[t]) \in Nat
  BY SchedulerAssumption
<1> QED
  BY <1>3, <1>4, ProductNat DEF RetryPause

LEMMA RecordedType ==
  ASSUME TypeOK, AttemptBounded, NEW t \in Tasks, NEW start \in Time,
         NEW outcome \in Outcomes
  PROVE  /\ Recorded(t, start, outcome) \in Task
         /\ Recorded(t, start, outcome).attempt <= RetriesAllowed(t)
         /\ ~Recorded(t, start, outcome).running
<1> DEFINE again == outcome = "failed" /\ Retries(t)
           next  == IF again THEN start + RetryPause(t) ELSE ScheduleNext(t, start)
           try   == IF again THEN task[t].attempt + 1 ELSE 0
           ok    == IF outcome = "success" THEN task[t].runCount + 1
                                           ELSE task[t].runCount
           bad   == IF outcome = "failed" THEN task[t].failCount + 1
                                          ELSE task[t].failCount
<1>0. RetriesAllowed(t) \in Nat
  BY SchedulerAssumption DEF RetriesAllowed
<1>1. task[t] \in Task
  BY DEF TypeOK
<1>2. next \in Nat
  BY RetryPauseType, ScheduleAssumption DEF Time
<1>3. try \in Nat /\ try <= RetriesAllowed(t)
  BY <1>0, <1>1 DEF Task, Retries
<1>4. ok \in Nat /\ bad \in Nat
  BY <1>1 DEF Task
<1>5. outcome \in Statuses
  BY DEF Statuses
<1>6. Recorded(t, start, outcome) =
        [task[t] EXCEPT
         !.running    = FALSE,
         !.lastRun    = start,
         !.lastStatus = outcome,
         !.runCount   = ok,
         !.failCount  = bad,
         !.attempt    = try,
         !.nextRun    = next]
  BY <1>1 DEF Recorded, Task
<1> HIDE DEF again, next, try, ok, bad
<1>7. Recorded(t, start, outcome) =
        [enabled |-> task[t].enabled, running |-> FALSE, lastRun |-> start,
         nextRun |-> next, lastStatus |-> outcome, runCount |-> ok,
         failCount |-> bad, attempt |-> try]
  BY <1>1, <1>6 DEF Task
<1>8. task[t].enabled \in BOOLEAN
  BY <1>1 DEF Task
<1> QED
  BY <1>2, <1>3, <1>4, <1>5, <1>7, <1>8 DEF Task

LEMMA MergedType ==
  ASSUME TypeOK, NEW t \in Tasks
  PROVE  /\ Merged(t) \in Task
         /\ Merged(t).running = task[t].running
         /\ Merged(t).attempt = task[t].attempt
<1>1. task[t] \in Task /\ (row[t] = NoRow \/ row[t] \in Row)
  BY DEF TypeOK
<1>2. CASE row[t] = NoRow
  BY <1>1, <1>2 DEF Merged
<1>3. CASE row[t] \in Row
  BY <1>1, <1>3 DEF Merged, Task, Row
<1> QED
  BY <1>1, <1>2, <1>3

LEMMA WithNextRunType ==
  ASSUME TypeOK, NEW t \in Tasks, NEW k \in Task
  PROVE  /\ WithNextRun(t, k) \in Task
         /\ WithNextRun(t, k).running = k.running
         /\ WithNextRun(t, k).attempt = k.attempt
<1>1. (IF k.lastRun = 0 THEN clock ELSE k.lastRun) \in Time
  BY DEF TypeOK, Task
<1>2. ScheduleNext(t, IF k.lastRun = 0 THEN clock ELSE k.lastRun) \in Nat
  BY <1>1, ScheduleAssumption
<1> QED
  BY <1>2 DEF WithNextRun, Task

-----------------------------------------------------------------------------
(* Type correctness and mutual exclusion: the inductive invariant.         *)

\* No execution exists before the scheduler of this process has started, and
\* the loop only runs once Start is through with the missed tasks.
IdleUntilStarted ==
  /\ phase \in {"down", "built"} => \A t \in Tasks : exec[t] = {}
  /\ loop = "running" => phase \notin {"down", "built", "catchup"}

IInv == TypeOK /\ AttemptBounded /\ SingleExecution /\ IdleUntilStarted

LEMMA InitIInv == Init => IInv
<1> SUFFICES ASSUME Init PROVE IInv
  OBVIOUS
<1>0. 0 \in Time /\ 1 \in Time \ {0}
  BY SchedulerAssumption DEF Time
<1>1. TypeOK
  <2>1. /\ task \in [Tasks -> Task] /\ row \in [Tasks -> Row \cup {NoRow}]
        /\ exec \in [Tasks -> SUBSET Exec]
    BY FreshTaskType DEF Init
  <2>2. lastOk \in [Tasks -> Time] /\ retries \in [Tasks -> Nat]
    BY <1>0 DEF Init
  <2> QED
    BY <1>0, <2>1, <2>2 DEF Init, TypeOK, Phases
<1>2. AttemptBounded
  BY SchedulerAssumption DEF Init, AttemptBounded, FreshTask, RetriesAllowed
<1>3. SingleExecution /\ IdleUntilStarted
  BY DEF Init, SingleExecution, IdleUntilStarted, FreshTask
<1> QED
  BY <1>1, <1>2, <1>3 DEF IInv

\* Saving writes rows, whichever of the writes succeed.
LEMMA SavedType ==
  ASSUME TypeOK, NEW tasks \in [Tasks -> Task], NEW S \in SUBSET Tasks
  PROVE  Saved(tasks, S) \in [Tasks -> Row \cup {NoRow}]
  BY RowOfType DEF Saved, TypeOK

\* The tasks Start works with: well formed, none of them running.
LEMMA StartedType ==
  ASSUME IInv, phase = "built", NEW loaded \in BOOLEAN
  PROVE  /\ Started(loaded) \in [Tasks -> Task]
         /\ \A t \in Tasks : /\ ~Started(loaded)[t].running
                            /\ Started(loaded)[t].attempt <= RetriesAllowed(t)
<1> SUFFICES ASSUME NEW t \in Tasks
             PROVE  /\ Started(loaded)[t] \in Task
                    /\ ~Started(loaded)[t].running
                    /\ Started(loaded)[t].attempt <= RetriesAllowed(t)
  BY DEF Started
<1> DEFINE k == IF loaded THEN Merged(t) ELSE task[t]
<1>1. task[t] \in Task /\ ~task[t].running /\ task[t].attempt <= RetriesAllowed(t)
  BY DEF IInv, TypeOK, AttemptBounded, SingleExecution, IdleUntilStarted
<1>2. k \in Task /\ k.running = task[t].running /\ k.attempt = task[t].attempt
  BY <1>1, MergedType DEF IInv
<1>3. Started(loaded)[t] = WithNextRun(t, k)
  BY DEF Started
<1> HIDE DEF k
<1>4. /\ WithNextRun(t, k) \in Task
      /\ WithNextRun(t, k).running = k.running
      /\ WithNextRun(t, k).attempt = k.attempt
  BY <1>2, WithNextRunType DEF IInv
<1> QED
  BY <1>1, <1>2, <1>3, <1>4

\* Marking tasks that are not running keeps flags and executions in step.
LEMMA MarkRunningIInv ==
  ASSUME IInv, NEW S \in SUBSET Tasks, \A t \in S : ~task[t].running,
         MarkRunning(S)
  PROVE  /\ task' \in [Tasks -> Task]
         /\ exec' \in [Tasks -> SUBSET Exec]
         /\ interrupted' \subseteq Tasks
         /\ AttemptBounded' /\ SingleExecution'
<1> USE DEF MarkRunning
<1>1. [pc |-> "marked", start |-> 0] \in Exec
  BY SchedulerAssumption DEF Exec, Time
<1>2. exec' \in [Tasks -> SUBSET Exec]
  BY <1>1 DEF IInv, TypeOK
<1>3. ASSUME NEW t \in Tasks
      PROVE  /\ task'[t] \in Task
             /\ task'[t].attempt = task[t].attempt
             /\ task'[t].running <=> (t \in S \/ task[t].running)
  <2>1. task[t] \in Task
    BY DEF IInv, TypeOK
  <2> QED
    BY <2>1 DEF Task
<1>4. task' \in [Tasks -> Task]
  BY <1>3
<1>5. AttemptBounded'
  BY <1>3 DEF IInv, AttemptBounded, RetriesAllowed
<1>6. ASSUME NEW t \in Tasks
      PROVE  /\ task'[t].running <=> exec'[t] # {}
             /\ \A e, f \in exec'[t] : e = f
  <2>1. CASE t \in S
    <3>1. exec[t] = {}
      BY <2>1 DEF IInv, SingleExecution
    <3> QED
      BY <2>1, <3>1, <1>3
  <2>2. CASE t \notin S
    <3>1. exec'[t] = exec[t]
      BY <2>2
    <3> QED
      BY <2>2, <3>1, <1>3 DEF IInv, SingleExecution
  <2> QED
    BY <2>1, <2>2
<1> QED
  BY <1>2, <1>4, <1>5, <1>6 DEF IInv, TypeOK, SingleExecution

\* The end of the process leaves fresh tasks and no execution.
LEMMA ProcessEndsIInv ==
  ASSUME IInv, ProcessEnds, row' \in [Tasks -> Row \cup {NoRow}]
  PROVE  IInv'
<1> USE DEF ProcessEnds
<1>1. TypeOK'
  BY FreshTaskType DEF IInv, TypeOK, Phases, Busy
<1>2. AttemptBounded'
  BY SchedulerAssumption DEF AttemptBounded, FreshTask, RetriesAllowed
<1>3. SingleExecution' /\ IdleUntilStarted'
  BY DEF SingleExecution, IdleUntilStarted, FreshTask
<1> QED
  BY <1>1, <1>2, <1>3 DEF IInv

LEMMA FinishRunIInv ==
  ASSUME IInv, NEW t \in Tasks, NEW outcome \in Outcomes, FinishRun(t, outcome)
  PROVE  IInv'
<1> PICK e \in exec[t], writes \in WritesOf({t}) : FinishRun(t, outcome)!(e, writes)
  BY DEF FinishRun
<1>1. e \in Exec /\ e.start \in Time /\ t \in Tasks
  BY DEF IInv, TypeOK, Exec
<1>2. exec[t] = {e}
  BY DEF IInv, SingleExecution
<1> DEFINE k == Recorded(t, e.start, outcome)
<1>3. k \in Task /\ k.attempt <= RetriesAllowed(t) /\ ~k.running
  BY <1>1, RecordedType DEF IInv
<1> HIDE DEF k
<1>4. task' = [task EXCEPT ![t] = k] /\ exec' = [exec EXCEPT ![t] = {}]
  BY <1>2 DEF k
<1>5. writes \in SUBSET Tasks
  BY WritesOfSubset
<1>6. task' \in [Tasks -> Task] /\ exec' \in [Tasks -> SUBSET Exec]
  BY <1>3, <1>4 DEF IInv, TypeOK
<1>7. row' \in [Tasks -> Row \cup {NoRow}]
  BY <1>5, <1>6, SavedType DEF IInv
<1>8. unsaved' \subseteq Tasks
  BY DEF IInv, TypeOK
<1>9. lastOk' \in [Tasks -> Time] /\ retries' \in [Tasks -> Nat]
  BY <1>1 DEF IInv, TypeOK
<1>10. TypeOK'
  BY <1>6, <1>7, <1>8, <1>9 DEF IInv, TypeOK
<1>11. AttemptBounded'
  BY <1>3, <1>4 DEF IInv, TypeOK, AttemptBounded, RetriesAllowed
<1>12. SingleExecution'
  BY <1>3, <1>4 DEF IInv, TypeOK, SingleExecution
<1>13. IdleUntilStarted'
  BY <1>4 DEF IInv, TypeOK, IdleUntilStarted
<1> QED
  BY <1>10, <1>11, <1>12, <1>13 DEF IInv

LEMMA BeginHandlerIInv ==
  ASSUME IInv, NEW t \in Tasks, BeginHandler(t)
  PROVE  IInv'
<1> PICK e \in exec[t] : BeginHandler(t)!(e)
  BY DEF BeginHandler
<1> DEFINE h == [pc |-> "handler", start |-> clock]
<1>1. h \in Exec
  BY DEF IInv, TypeOK, Exec
<1>2. exec[t] = {e}
  BY DEF IInv, SingleExecution
<1> HIDE DEF h
<1>3. exec' = [exec EXCEPT ![t] = {h}]
  BY <1>2 DEF h
<1>4. TypeOK'
  BY <1>1, <1>3 DEF IInv, TypeOK, procVars, history
<1>5. AttemptBounded'
  BY DEF IInv, AttemptBounded, RetriesAllowed
<1>6. SingleExecution'
  <2> SUFFICES ASSUME NEW u \in Tasks
               PROVE  /\ task'[u].running <=> exec'[u] # {}
                      /\ \A d, f \in exec'[u] : d = f
    BY DEF SingleExecution
  <2>1. /\ task[u].running <=> exec[u] # {}
        /\ \A d, f \in exec[u] : d = f
    BY DEF IInv, SingleExecution
  <2>2. task' = task
    OBVIOUS
  <2>3. exec'[u] = IF u = t THEN {h} ELSE exec[u]
    BY <1>3 DEF IInv, TypeOK
  <2> QED
    BY <1>2, <2>1, <2>2, <2>3
<1>7. IdleUntilStarted'
  BY <1>2, <1>3 DEF IInv, TypeOK, IdleUntilStarted
<1> QED
  BY <1>4, <1>5, <1>6, <1>7 DEF IInv

LEMMA NextIInv == IInv /\ [Next]_vars => IInv'
<1> SUFFICES ASSUME IInv, [Next]_vars PROVE IInv'
  OBVIOUS
<1>1. CASE UNCHANGED vars
  BY <1>1 DEF IInv, TypeOK, AttemptBounded, SingleExecution, IdleUntilStarted,
              RetriesAllowed, vars, procVars, history
<1>2. CASE Tick
  <2>1. clock' \in Time \ {0}
    BY <1>2, SchedulerAssumption DEF Tick, IInv, TypeOK, Time
  <2>2. TypeOK'
    BY <1>2, <2>1 DEF Tick, IInv, TypeOK, procVars, history
  <2>3. AttemptBounded' /\ SingleExecution' /\ IdleUntilStarted'
    BY <1>2 DEF Tick, IInv, AttemptBounded, SingleExecution, IdleUntilStarted,
                RetriesAllowed, procVars
  <2> QED
    BY <2>2, <2>3 DEF IInv
<1>3. CASE Boot
  <2>1. task' \in [Tasks -> Task]
    BY <1>3, FreshTaskType DEF Boot, Task
  <2>2. row' \in [Tasks -> Row \cup {NoRow}]
    <3> PICK writes \in WritesOf(OffAtBoot) : row' = Saved(task', writes)
      BY <1>3 DEF Boot
    <3>1. writes \in SUBSET Tasks
      BY WritesOfSubset, SchedulerAssumption
    <3> QED
      BY <2>1, <3>1, SavedType DEF IInv
  <2>3. \A t \in Tasks : /\ ~task'[t].running
                        /\ task'[t].attempt = 0
                        /\ exec[t] = {}
    BY <1>3 DEF Boot, FreshTask, IInv, IdleUntilStarted
  <2>4. TypeOK'
    BY <1>3, <2>1, <2>2 DEF Boot, IInv, TypeOK, Phases, history
  <2>5. AttemptBounded'
    BY <2>3, SchedulerAssumption DEF AttemptBounded, RetriesAllowed
  <2>6. exec' = exec /\ loop' = loop /\ phase = "down"
    BY <1>3 DEF Boot
  <2>7. SingleExecution'
    BY <2>3, <2>6 DEF SingleExecution
  <2>8. IdleUntilStarted'
    BY <2>3, <2>6 DEF IInv, IdleUntilStarted
  <2> QED
    BY <2>4, <2>5, <2>7, <2>8 DEF IInv
<1>4. CASE Start
  <2> PICK loaded \in BOOLEAN, writes \in WritesOf(Tasks) :
        /\ task' = Started(loaded)
        /\ row' = Saved(task', writes)
        /\ unsaved' = Tasks \ writes
    BY <1>4 DEF Start
  <2>1. phase = "built" /\ phase' = "catchup"
    BY <1>4 DEF Start
  <2>2. /\ task' \in [Tasks -> Task]
        /\ \A t \in Tasks : /\ ~task'[t].running
                           /\ task'[t].attempt <= RetriesAllowed(t)
    BY <2>1, StartedType
  <2>3. writes \in SUBSET Tasks
    BY WritesOfSubset
  <2>4. row' \in [Tasks -> Row \cup {NoRow}]
    BY <2>2, <2>3, SavedType DEF IInv
  <2>5. catchUp' \subseteq Tasks
    BY <1>4 DEF Start
  <2>6. TypeOK'
    BY <1>4, <2>1, <2>2, <2>4, <2>5 DEF Start, IInv, TypeOK, Phases
  <2>7. AttemptBounded'
    BY <2>2 DEF AttemptBounded, RetriesAllowed
  <2>8. SingleExecution' /\ IdleUntilStarted'
    BY <1>4, <2>1, <2>2 DEF Start, IInv, SingleExecution, IdleUntilStarted
  <2> QED
    BY <2>6, <2>7, <2>8 DEF IInv
<1>5. CASE EnterLoop
  BY <1>5 DEF EnterLoop, IInv, TypeOK, Phases, AttemptBounded, SingleExecution,
              IdleUntilStarted, RetriesAllowed, history
<1>6. CASE RunDue
  <2> DEFINE due == {t \in Tasks : Launchable(t)}
  <2>1. due \in SUBSET Tasks /\ (\A t \in due : ~task[t].running) /\ MarkRunning(due)
    BY <1>6 DEF RunDue, Launchable
  <2> HIDE DEF due
  <2>2. /\ task' \in [Tasks -> Task] /\ exec' \in [Tasks -> SUBSET Exec]
        /\ interrupted' \subseteq Tasks /\ AttemptBounded' /\ SingleExecution'
    BY <2>1, MarkRunningIInv
  <2>3. TypeOK'
    BY <1>6, <2>2 DEF RunDue, IInv, TypeOK
  <2>4. IdleUntilStarted'
    BY <1>6 DEF RunDue, IInv, IdleUntilStarted
  <2> QED
    BY <2>2, <2>3, <2>4 DEF IInv
<1>7. ASSUME NEW t \in Tasks, CatchUpTask(t) PROVE IInv'
  <2>1. {t} \in SUBSET Tasks /\ (\A u \in {t} : ~task[u].running) /\ MarkRunning({t})
    BY <1>7 DEF CatchUpTask
  <2>2. /\ task' \in [Tasks -> Task] /\ exec' \in [Tasks -> SUBSET Exec]
        /\ interrupted' \subseteq Tasks /\ AttemptBounded' /\ SingleExecution'
    BY <2>1, MarkRunningIInv
  <2>3. TypeOK'
    BY <1>7, <2>2 DEF CatchUpTask, IInv, TypeOK
  <2>4. IdleUntilStarted'
    BY <1>7 DEF CatchUpTask, IInv, IdleUntilStarted
  <2> QED
    BY <2>2, <2>3, <2>4 DEF IInv
<1>8. ASSUME NEW t \in Tasks, BeginHandler(t) PROVE IInv'
  BY <1>8, BeginHandlerIInv
<1>9. ASSUME NEW t \in Tasks, NEW outcome \in Outcomes, FinishRun(t, outcome)
      PROVE  IInv'
  BY <1>9, FinishRunIInv
<1>10. CASE StopBegin \/ LoopExit \/ LoopJoined \/ LoopGraceExpires
  BY <1>10 DEF StopBegin, LoopExit, LoopJoined, LoopGraceExpires, IInv, TypeOK,
               Phases, AttemptBounded, SingleExecution, IdleUntilStarted,
               RetriesAllowed, history
<1>11. CASE TasksJoined \/ TasksGraceExpires
  <2>1. SaveAll /\ forced' \in BOOLEAN
    BY <1>11 DEF TasksJoined, TasksGraceExpires, IInv, TypeOK
  <2> PICK writes \in WritesOf(Tasks) :
        row' = Saved(task, writes) /\ unsaved' = Tasks \ writes
    BY <2>1 DEF SaveAll
  <2>2. row' \in [Tasks -> Row \cup {NoRow}]
    BY SavedType, WritesOfSubset DEF IInv, TypeOK
  <2> QED
    BY <2>1, <2>2 DEF SaveAll, IInv, TypeOK, Phases, AttemptBounded,
                      SingleExecution, IdleUntilStarted, RetriesAllowed
<1>12. CASE Exit \/ Crash
  BY <1>12, ProcessEndsIInv DEF Exit, Crash, IInv, TypeOK
<1>13. CASE CrashInStart
  <2> PICK loaded \in BOOLEAN, writes \in SUBSET Tasks :
        row' = Saved(Started(loaded), writes)
    BY <1>13 DEF CrashInStart
  <2>1. phase = "built" /\ ProcessEnds
    BY <1>13 DEF CrashInStart
  <2>2. Started(loaded) \in [Tasks -> Task]
    BY <2>1, StartedType
  <2>3. row' \in [Tasks -> Row \cup {NoRow}]
    BY <2>2, SavedType DEF IInv
  <2> QED
    BY <2>1, <2>3, ProcessEndsIInv
<1> QED
  BY <1>1, <1>2, <1>3, <1>4, <1>5, <1>6, <1>7, <1>8, <1>9, <1>10, <1>11, <1>12,
     <1>13 DEF Next

LEMMA InvariantIInv == Spec => []IInv
  BY InitIInv, NextIInv, PTL DEF Spec

\* Every variable keeps its type, whatever the database does.
THEOREM TypeCorrect == Spec => []TypeOK
  BY InvariantIInv, PTL DEF IInv

\* No task ever has two executions at once, and its running flag is exact: it
\* is set from the moment runDue or Start picks the task until the outcome is
\* recorded, and cleared then, for every interleaving, crash and failed write.
THEOREM MutualExclusion == Spec => []SingleExecution
  BY InvariantIInv, PTL DEF IInv

-----------------------------------------------------------------------------
(* The table agrees with memory.                                           *)

LEMMA InitRows == Init => RowsMatchMemory
  BY DEF Init, RowsMatchMemory

\* A set of tasks saved from the Task structs of the next state.
LEMMA SavedRows ==
  ASSUME NEW S, NEW t \in Tasks, t \in S, row' = Saved(task', S)
  PROVE  row'[t] = RowOf(task'[t])
  BY DEF Saved

\* The running flag is not persisted.
LEMMA MarkRunningRows ==
  ASSUME IInv, NEW S, MarkRunning(S), NEW t \in Tasks
  PROVE  RowOf(task'[t]) = RowOf(task[t])
<1>1. task[t] \in Task
  BY DEF IInv, TypeOK
<1> QED
  BY <1>1 DEF MarkRunning, RowOf, Task

LEMMA NextRows == IInv /\ RowsMatchMemory /\ [Next]_vars => RowsMatchMemory'
<1> SUFFICES ASSUME IInv, RowsMatchMemory, [Next]_vars,
                    phase' \notin {"down", "built"},
                    NEW t \in Tasks \ unsaved'
             PROVE  row'[t] = RowOf(task'[t])
  BY DEF RowsMatchMemory
<1>1. CASE UNCHANGED <<phase, task, row, unsaved>>
  BY <1>1 DEF RowsMatchMemory
<1>2. CASE Start
  <2> PICK loaded \in BOOLEAN, writes \in WritesOf(Tasks) :
        row' = Saved(task', writes) /\ unsaved' = Tasks \ writes
    BY <1>2 DEF Start
  <2> QED
    BY SavedRows
<1>3. CASE RunDue \/ \E u \in Tasks : CatchUpTask(u)
  <2>1. row' = row /\ unsaved' = unsaved /\ phase' = phase
    BY <1>3 DEF RunDue, CatchUpTask
  <2>2. RowOf(task'[t]) = RowOf(task[t])
    BY <1>3, MarkRunningRows DEF RunDue, CatchUpTask
  <2> QED
    BY <2>1, <2>2 DEF RowsMatchMemory
<1>4. ASSUME NEW u \in Tasks, NEW outcome \in Outcomes, FinishRun(u, outcome)
      PROVE  row'[t] = RowOf(task'[t])
  <2> PICK e \in exec[u], writes \in WritesOf({u}) : FinishRun(u, outcome)!(e, writes)
    BY <1>4 DEF FinishRun
  <2>1. CASE t \in writes
    BY <2>1, SavedRows
  <2>2. CASE t \notin writes
    <3>1. t # u /\ t \notin unsaved
      BY <2>2
    <3>2. task'[t] = task[t] /\ row'[t] = row[t]
      BY <2>2, <3>1 DEF IInv, TypeOK, Saved
    <3> QED
      BY <3>1, <3>2 DEF RowsMatchMemory
  <2> QED
    BY <2>1, <2>2
<1>5. CASE TasksJoined \/ TasksGraceExpires
  <2>1. SaveAll
    BY <1>5 DEF TasksJoined, TasksGraceExpires
  <2> PICK writes \in WritesOf(Tasks) :
        row' = Saved(task, writes) /\ unsaved' = Tasks \ writes
    BY <2>1 DEF SaveAll
  <2>2. task' = task
    BY <2>1 DEF SaveAll
  <2> QED
    BY <2>2, SavedRows
<1>6. CASE EnterLoop \/ StopBegin \/ LoopJoined \/ LoopGraceExpires
  BY <1>6 DEF EnterLoop, StopBegin, LoopJoined, LoopGraceExpires, history,
              RowsMatchMemory
<1> QED
  BY <1>1, <1>2, <1>3, <1>4, <1>5, <1>6
  DEF Next, vars, procVars, history, Tick, Boot, BeginHandler, LoopExit,
      Exit, Crash, CrashInStart, ProcessEnds

\* While the scheduler runs, every row whose last write succeeded equals its
\* Task struct, so that a crash loses only the runs in progress.
THEOREM DurableState == Spec => []RowsMatchMemory
<1>1. IInv /\ RowsMatchMemory /\ [Next]_vars => RowsMatchMemory'
  BY NextRows
<1> QED
  BY InitRows, <1>1, InvariantIInv, PTL DEF Spec

-----------------------------------------------------------------------------
(* Shutdown.                                                               *)

\* Stop waits for the loop first: once it waits for the handlers, nobody is
\* left to launch another one, unless a timer was forced.
NoLauncherLeft ==
  phase = "stopTasks" /\ ~forced => loop # "running"

LEMMA NextGraceful ==
  IInv /\ NoLauncherLeft /\ GracefulStop /\ [Next]_vars
    => NoLauncherLeft' /\ GracefulStop'
<1> SUFFICES ASSUME IInv, NoLauncherLeft, GracefulStop, [Next]_vars
             PROVE  NoLauncherLeft' /\ GracefulStop'
  OBVIOUS
<1> USE DEF NoLauncherLeft, GracefulStop
<1>1. CASE UNCHANGED <<phase, loop, exec, forced>>
  BY <1>1 DEF Busy
<1>2. CASE Boot \/ Start \/ EnterLoop \/ StopBegin
  BY <1>2 DEF Boot, Start, EnterLoop, StopBegin, history
<1>3. CASE RunDue \/ \E t \in Tasks : CatchUpTask(t)
  BY <1>3 DEF RunDue, CatchUpTask
<1>4. ASSUME NEW t \in Tasks,
             BeginHandler(t) \/ \E outcome \in Outcomes : FinishRun(t, outcome)
      PROVE  NoLauncherLeft' /\ GracefulStop'
  <2>1. exec[t] # {} /\ UNCHANGED <<phase, loop, forced>>
    BY <1>4 DEF BeginHandler, FinishRun, history
  <2>2. t \in Busy
    BY <2>1 DEF Busy
  <2> QED
    BY <2>1, <2>2
<1>5. CASE LoopExit \/ LoopJoined \/ LoopGraceExpires
  BY <1>5 DEF LoopExit, LoopJoined, LoopGraceExpires, history, Busy
<1>6. CASE TasksJoined \/ TasksGraceExpires
  BY <1>6 DEF TasksJoined, TasksGraceExpires, SaveAll, Busy
<1>7. CASE Exit \/ Crash \/ CrashInStart
  BY <1>7 DEF Exit, Crash, CrashInStart, ProcessEnds
<1> QED
  BY <1>1, <1>2, <1>3, <1>4, <1>5, <1>6, <1>7
  DEF Next, vars, procVars, history, Tick

\* If no shutdown timer expires, Stop returns only when the loop is gone and
\* every handler has returned, although the loop may launch tasks after Stop
\* was called.
THEOREM GracefulShutdown == Spec => []GracefulStop
<1>1. Init => NoLauncherLeft /\ GracefulStop
  BY DEF Init, NoLauncherLeft, GracefulStop
<1>2. IInv /\ (NoLauncherLeft /\ GracefulStop) /\ [Next]_vars
        => (NoLauncherLeft /\ GracefulStop)'
  BY NextGraceful
<1> QED
  BY <1>1, <1>2, InvariantIInv, PTL DEF Spec

-----------------------------------------------------------------------------
(* A served slot is not run again, when no database call fails.            *)

\* x is not before the activation that follows the last success of t.
SlotOpen(t, x) ==
  lastOk[t] # 0 =>
    ScheduleNext(t, lastOk[t]) # 0 /\ x >= ScheduleNext(t, lastOk[t])

\* Last and next run as the table may hold them: the last run is the last
\* success or a later run, the next run is open.
PlanRespectsSlot(t, last, next) ==
  lastOk[t] # 0 =>
    /\ last = lastOk[t] \/ SlotOpen(t, last)
    /\ next = 0 \/ SlotOpen(t, next)

RowsRespectSlots ==
  \A t \in Tasks \ OffAtBoot :
    lastOk[t] # 0 =>
      row[t] # NoRow /\ PlanRespectsSlot(t, row[t].lastRun, row[t].nextRun)

\* The tasks that are off at boot stay off: nothing ever runs them.
OffStaysOff ==
  \A t \in OffAtBoot :
    /\ lastOk[t] = 0 /\ exec[t] = {} /\ t \notin catchUp
    /\ phase # "down" => ~task[t].enabled
    /\ phase # "down" => row[t] # NoRow
    /\ row[t] # NoRow => ~row[t].enabled

\* Executions and missed tasks respect the slots.
RunsRespectSlots ==
  \A t \in Tasks :
    /\ \A e \in exec[t] : SlotOpen(t, IF e.pc = "marked" THEN clock ELSE e.start)
    /\ t \in catchUp => SlotOpen(t, clock) /\ exec[t] = {}

CatchUpFirst == phase # "catchup" => catchUp = {}

BuiltUnplanned == phase = "built" => \A t \in Tasks : task[t].nextRun = 0

SlotInv ==
  /\ IInv /\ RowsMatchMemory /\ unsaved = {}
  /\ RowsRespectSlots /\ OffStaysOff /\ RunsRespectSlots
  /\ CatchUpFirst /\ BuiltUnplanned

LEMMA WritesAll ==
  ASSUME DBMayFail = FALSE, NEW S, NEW w \in WritesOf(S) PROVE w = S
  BY DEF WritesOf

LEMMA SlotOpenLater ==
  ASSUME TypeOK, NEW t \in Tasks, NEW x \in Int, NEW y \in Int, y >= x,
         SlotOpen(t, x)
  PROVE  SlotOpen(t, y)
  BY ScheduleAssumption DEF SlotOpen, TypeOK

\* The schedule leads from a run in an open slot to an open slot.
LEMMA NextSlotOpen ==
  ASSUME TypeOK, NEW t \in Tasks, NEW last \in Time, lastOk[t] # 0,
         last = lastOk[t] \/ SlotOpen(t, last)
  PROVE  ScheduleNext(t, last) = 0 \/ SlotOpen(t, ScheduleNext(t, last))
<1>1. /\ ScheduleNext(t, last) \in Nat
      /\ ScheduleNext(t, last) = 0 \/ ScheduleNext(t, last) > last
  BY ScheduleAssumption
<1>2. lastOk[t] \in Time /\ ScheduleNext(t, lastOk[t]) \in Nat
  BY ScheduleAssumption DEF TypeOK
<1> QED
  BY <1>1, <1>2 DEF SlotOpen, Time

\* The tasks Start works with respect the slots.
LEMMA StartedSlots ==
  ASSUME SlotInv, phase = "built", NEW t \in Tasks
  PROVE  LET k == Started(TRUE)[t]
         IN  /\ PlanRespectsSlot(t, k.lastRun, k.nextRun)
             /\ t \in OffAtBoot => ~k.enabled
<1> DEFINE m == Merged(t)
<1>1. /\ m \in Task /\ task[t] \in Task /\ task[t].nextRun = 0
      /\ row[t] = NoRow \/ row[t] \in Row
  BY MergedType DEF SlotInv, IInv, TypeOK, BuiltUnplanned
<1>2. Started(TRUE)[t] = WithNextRun(t, m)
  BY DEF Started
<1>3. row[t] # NoRow => /\ m.lastRun = row[t].lastRun
                        /\ m.nextRun = row[t].nextRun
                        /\ m.enabled = row[t].enabled
  BY <1>1 DEF Merged, Task, Row
<1> HIDE DEF m
<1>4. t \in OffAtBoot => ~m.enabled
  BY <1>3 DEF SlotInv, OffStaysOff
<1>5. WithNextRun(t, m).enabled = m.enabled /\ WithNextRun(t, m).lastRun = m.lastRun
  BY <1>1 DEF WithNextRun, Task
<1>6. ASSUME lastOk[t] # 0
      PROVE  PlanRespectsSlot(t, WithNextRun(t, m).lastRun, WithNextRun(t, m).nextRun)
  <2>1. /\ m.lastRun = lastOk[t] \/ SlotOpen(t, m.lastRun)
        /\ m.nextRun = 0 \/ SlotOpen(t, m.nextRun)
    BY <1>3, <1>6 DEF SlotInv, OffStaysOff, RowsRespectSlots, PlanRespectsSlot
  <2>2. m.lastRun \in Time /\ lastOk[t] \in Time /\ ScheduleNext(t, lastOk[t]) \in Nat
    BY <1>1, ScheduleAssumption DEF SlotInv, IInv, TypeOK, Task
  <2>3. m.lastRun # 0
    BY <1>6, <2>1, <2>2 DEF SlotOpen, Time
  <2>4. \/ ScheduleNext(t, m.lastRun) = 0
        \/ SlotOpen(t, ScheduleNext(t, m.lastRun))
    BY <1>6, <2>1, <2>2, NextSlotOpen DEF SlotInv, IInv
  <2>5. WithNextRun(t, m).nextRun =
          IF m.nextRun = 0 THEN ScheduleNext(t, m.lastRun) ELSE m.nextRun
    BY <1>1, <2>3 DEF WithNextRun, Task
  <2> QED
    BY <1>5, <2>1, <2>4, <2>5 DEF PlanRespectsSlot
<1> QED
  BY <1>2, <1>4, <1>5, <1>6 DEF PlanRespectsSlot

\* A task that is due or was missed has an open slot.
LEMMA PlannedOpen ==
  ASSUME SlotInv, phase \notin {"down", "built"}, NEW t \in Tasks
  PROVE  PlanRespectsSlot(t, task[t].lastRun, task[t].nextRun)
<1>1. task[t] \in Task /\ row[t] = RowOf(task[t])
  BY DEF SlotInv, IInv, TypeOK, RowsMatchMemory
<1>2. row[t].lastRun = task[t].lastRun /\ row[t].nextRun = task[t].nextRun
  BY <1>1 DEF RowOf
<1> QED
  BY <1>2 DEF SlotInv, RowsRespectSlots, OffStaysOff, PlanRespectsSlot

\* Marking tasks whose slot is open keeps the slots respected.
LEMMA MarkRunningSlots ==
  ASSUME SlotInv, NEW S \in SUBSET (Tasks \ OffAtBoot), MarkRunning(S),
         \A t \in S : SlotOpen(t, clock),
         phase \notin {"down", "built"},
         UNCHANGED <<clock, phase, row, unsaved, lastOk>>,
         catchUp' \subseteq catchUp, catchUp' \cap S = {}
  PROVE  /\ RowsRespectSlots' /\ OffStaysOff' /\ RunsRespectSlots'
         /\ CatchUpFirst' /\ BuiltUnplanned'
<1>1. RowsRespectSlots'
  BY DEF SlotInv, RowsRespectSlots, PlanRespectsSlot, SlotOpen
<1>2. \A t \in Tasks : task[t] \in Task
  BY DEF SlotInv, IInv, TypeOK
<1>3. OffStaysOff'
  BY <1>2, SchedulerAssumption DEF MarkRunning, SlotInv, OffStaysOff
<1>4. RunsRespectSlots'
  <2> SUFFICES ASSUME NEW t \in Tasks
               PROVE /\ \A e \in exec'[t] :
                          SlotOpen(t, IF e.pc = "marked" THEN clock ELSE e.start)
                     /\ t \in catchUp' => SlotOpen(t, clock) /\ exec'[t] = {}
    BY DEF RunsRespectSlots, SlotOpen
  <2> QED
    BY DEF SlotInv, RunsRespectSlots, MarkRunning
<1> QED
  BY <1>1, <1>3, <1>4 DEF SlotInv, CatchUpFirst, BuiltUnplanned

\* The conjuncts of SlotInv that are not proved elsewhere.
SlotRest ==
  /\ unsaved = {} /\ RowsRespectSlots /\ OffStaysOff /\ RunsRespectSlots
  /\ CatchUpFirst /\ BuiltUnplanned

LEMMA StartSlots ==
  ASSUME DBMayFail = FALSE, SlotInv, Start PROVE SlotRest'
<1> PICK loaded \in BOOLEAN, writes \in WritesOf(Tasks) :
      /\ loaded \/ DBMayFail
      /\ task' = Started(loaded)
      /\ row' = Saved(task', writes)
      /\ unsaved' = Tasks \ writes
  BY DEF Start
<1>1. writes = Tasks /\ task' = Started(TRUE) /\ phase = "built" /\ phase' = "catchup"
      /\ UNCHANGED <<clock, lastOk, exec>> /\ unsaved' = {}
  BY WritesAll DEF Start
<1>2. ASSUME NEW t \in Tasks
      PROVE  /\ PlanRespectsSlot(t, task'[t].lastRun, task'[t].nextRun)
             /\ t \in OffAtBoot => ~task'[t].enabled
             /\ task'[t] \in Task
             /\ row'[t] = RowOf(task'[t]) /\ row'[t] # NoRow
  <2>1. task'[t] \in Task
    BY <1>1, StartedType DEF SlotInv
  <2>2. row'[t] = RowOf(task'[t])
    BY <1>1, SavedRows
  <2>3. row'[t] # NoRow
    BY <2>1, <2>2, RowOfType, NoRowAssumption
  <2> QED
    BY <1>1, <2>1, <2>2, <2>3, StartedSlots
<1>3. ASSUME NEW t \in Tasks
      PROVE  /\ row'[t].lastRun = task'[t].lastRun
             /\ row'[t].nextRun = task'[t].nextRun
             /\ row'[t].enabled = task'[t].enabled
  <2>1. row'[t] = RowOf(task'[t])
    BY <1>2
  <2> QED
    BY <2>1 DEF RowOf
<1>4. RowsRespectSlots'
  BY <1>1, <1>2, <1>3 DEF RowsRespectSlots, PlanRespectsSlot, SlotOpen
<1>5. catchUp' = {t \in Tasks : ShouldCatchUp(t, task'[t])}
  BY DEF Start
<1>6. \A t \in Tasks : exec[t] = {}
  BY <1>1 DEF SlotInv, IInv, IdleUntilStarted
<1>7. OffStaysOff'
  BY <1>1, <1>2, <1>3, <1>5, <1>6, SchedulerAssumption
  DEF SlotInv, OffStaysOff, ShouldCatchUp
<1>8. ASSUME NEW t \in catchUp' PROVE SlotOpen(t, clock)
  <2>1. t \in Tasks /\ task'[t] \in Task /\ ShouldCatchUp(t, task'[t])
    BY <1>2, <1>5, <1>8
  <2> DEFINE missed == ScheduleNext(t, task'[t].lastRun)
  <2>2. missed # 0 /\ missed < clock /\ missed \in Nat /\ clock \in Nat
    BY <2>1, ScheduleAssumption
    DEF ShouldCatchUp, Task, SlotInv, IInv, TypeOK, Time
  <2>3. lastOk[t] # 0 => SlotOpen(t, missed)
    BY <1>2, <2>1, <2>2, NextSlotOpen DEF PlanRespectsSlot, SlotInv, IInv, Task
  <2> HIDE DEF missed
  <2>4. CASE lastOk[t] = 0
    BY <2>4 DEF SlotOpen
  <2>5. CASE lastOk[t] # 0
    BY <2>1, <2>2, <2>3, <2>5, SlotOpenLater DEF SlotInv, IInv
  <2> QED
    BY <2>4, <2>5
<1>9. RunsRespectSlots'
  BY <1>1, <1>6, <1>8 DEF RunsRespectSlots, SlotOpen
<1> QED
  BY <1>1, <1>4, <1>7, <1>9 DEF SlotRest, CatchUpFirst, BuiltUnplanned

LEMMA BootSlots ==
  ASSUME DBMayFail = FALSE, SlotInv, Boot PROVE SlotRest'
<1> PICK writes \in WritesOf(OffAtBoot) : row' = Saved(task', writes)
  BY DEF Boot
<1>1. /\ writes = OffAtBoot /\ phase' = "built"
      /\ UNCHANGED <<clock, lastOk, exec, catchUp, unsaved>>
      /\ catchUp = {} /\ \A t \in Tasks : exec[t] = {}
  BY WritesAll DEF Boot, history, SlotInv, IInv, IdleUntilStarted, CatchUpFirst
<1>2. ASSUME NEW t \in Tasks
      PROVE  /\ task'[t] \in Task /\ task'[t].nextRun = 0
             /\ t \in OffAtBoot => ~task'[t].enabled
  BY FreshTaskType DEF Boot, FreshTask, Task
<1>3. \A t \in Tasks \ OffAtBoot : row'[t] = row[t]
  BY <1>1 DEF Saved
<1>4. ASSUME NEW t \in OffAtBoot
      PROVE  row'[t] # NoRow /\ ~row'[t].enabled
  <2>1. row'[t] = RowOf(task'[t]) /\ t \in Tasks
    BY <1>1, SchedulerAssumption DEF Saved
  <2>2. row'[t] # NoRow
    BY <1>2, <2>1, RowOfType, NoRowAssumption
  <2> QED
    BY <1>2, <2>1, <2>2 DEF RowOf
<1>5. RowsRespectSlots'
  BY <1>1, <1>3 DEF SlotInv, RowsRespectSlots, PlanRespectsSlot, SlotOpen
<1>6. OffStaysOff'
  BY <1>1, <1>2, <1>4, SchedulerAssumption DEF SlotInv, OffStaysOff
<1>7. RunsRespectSlots'
  BY <1>1 DEF RunsRespectSlots
<1> QED
  BY <1>1, <1>2, <1>5, <1>6, <1>7 DEF SlotInv, SlotRest, CatchUpFirst, BuiltUnplanned

\* After a run the table holds it, or the slot it has just served.
LEMMA FinishRunSlots ==
  ASSUME DBMayFail = FALSE, SlotInv, NEW t \in Tasks, NEW outcome \in Outcomes,
         FinishRun(t, outcome)
  PROVE  SlotRest'
<1> PICK e \in exec[t], writes \in WritesOf({t}) : FinishRun(t, outcome)!(e, writes)
  BY DEF FinishRun
<1> DEFINE k == Recorded(t, e.start, outcome)
<1>1. /\ e \in Exec /\ e.start \in Time /\ exec[t] = {e} /\ writes = {t}
      /\ t \notin OffAtBoot /\ SlotOpen(t, e.start) /\ t \notin catchUp
  <2>1. e \in Exec /\ exec[t] = {e}
    BY DEF SlotInv, IInv, TypeOK, SingleExecution
  <2>2. writes = {t}
    BY WritesAll
  <2>3. t \notin OffAtBoot
    BY DEF SlotInv, OffStaysOff
  <2>4. SlotOpen(t, e.start) /\ t \notin catchUp
    BY DEF SlotInv, RunsRespectSlots
  <2> QED
    BY <2>1, <2>2, <2>3, <2>4 DEF Exec
<1>2. /\ phase \notin {"down", "built"}
      /\ UNCHANGED <<clock, phase, catchUp>> /\ unsaved' = {}
  BY <1>1 DEF SlotInv, IInv, IdleUntilStarted
<1>3. task[t] \in Task
  BY DEF SlotInv, IInv, TypeOK
<1>4. k \in Task
  BY <1>1, RecordedType DEF SlotInv, IInv
<1>5. k.lastRun = e.start
  BY <1>3 DEF Recorded, Task
<1>6. k.nextRun = IF outcome = "failed" /\ Retries(t)
                  THEN e.start + RetryPause(t) ELSE ScheduleNext(t, e.start)
  BY <1>3 DEF Recorded, Task
<1>7. /\ task' = [task EXCEPT ![t] = k] /\ exec' = [exec EXCEPT ![t] = {}]
      /\ row'[t] = RowOf(k)
      /\ \A u \in Tasks \ {t} : /\ row'[u] = row[u] /\ task'[u] = task[u]
                               /\ lastOk'[u] = lastOk[u] /\ exec'[u] = exec[u]
  BY <1>1 DEF Saved, SlotInv, IInv, TypeOK
<1> HIDE DEF k
<1> PICK next \in Nat : k.nextRun = next
  BY <1>4 DEF Task
<1>8. row'[t] # NoRow /\ row'[t].lastRun = e.start /\ row'[t].nextRun = next
  BY <1>4, <1>5, <1>7, RowOfType, NoRowAssumption DEF RowOf
<1>9. PlanRespectsSlot(t, row[t].lastRun, row[t].nextRun)'
  <2>1. CASE outcome = "success"
    <3>1. lastOk'[t] = e.start
      BY <2>1 DEF SlotInv, IInv, TypeOK
    <3>2. next = ScheduleNext(t, e.start) /\ next \in Nat
      BY <1>6, <2>1
    <3> QED
      BY <1>8, <3>1, <3>2 DEF PlanRespectsSlot, SlotOpen
  <2>2. CASE outcome # "success"
    <3>1. lastOk' = lastOk
      BY <2>2
    <3>2. lastOk[t] # 0 => next = 0 \/ SlotOpen(t, next)
      <4>1. CASE next = ScheduleNext(t, e.start)
        BY <1>1, <4>1, NextSlotOpen DEF SlotInv, IInv
      <4>2. CASE next = e.start + RetryPause(t)
        <5>1. RetryPause(t) \in Nat
          BY RetryPauseType DEF SlotInv, IInv
        <5>2. e.start \in Int /\ next \in Int /\ next >= e.start
          BY <1>1, <4>2, <5>1 DEF Time
        <5> QED
          BY <1>1, <5>2, SlotOpenLater DEF SlotInv, IInv
      <4> QED
        BY <1>6, <4>1, <4>2
    <3> QED
      BY <1>1, <1>8, <3>1, <3>2 DEF PlanRespectsSlot, SlotOpen
  <2> QED
    BY <2>1, <2>2
<1>10. RowsRespectSlots'
  <2> SUFFICES ASSUME NEW u \in Tasks \ OffAtBoot, lastOk'[u] # 0
               PROVE  row'[u] # NoRow /\ PlanRespectsSlot(u, row[u].lastRun, row[u].nextRun)'
    BY DEF RowsRespectSlots
  <2>1. CASE u = t
    BY <1>8, <1>9, <2>1
  <2>2. CASE u # t
    <3>1. row'[u] = row[u] /\ lastOk'[u] = lastOk[u]
      BY <1>7, <2>2
    <3> QED
      BY <3>1 DEF SlotInv, RowsRespectSlots, PlanRespectsSlot, SlotOpen
  <2> QED
    BY <2>1, <2>2
<1>11. OffStaysOff'
  BY <1>1, <1>2, <1>7, SchedulerAssumption DEF SlotInv, OffStaysOff
<1>12. RunsRespectSlots'
  BY <1>1, <1>2, <1>7 DEF SlotInv, IInv, TypeOK, RunsRespectSlots, SlotOpen
<1> QED
  BY <1>2, <1>10, <1>11, <1>12 DEF SlotInv, SlotRest, CatchUpFirst, BuiltUnplanned

LEMMA RunDueSlots ==
  ASSUME SlotInv, RunDue PROVE SlotRest'
<1> DEFINE due == {t \in Tasks : Launchable(t)}
<1>1. MarkRunning(due) /\ UNCHANGED <<clock, phase, row, unsaved, lastOk, catchUp>>
  BY DEF RunDue
<1>2. phase \notin {"down", "built"} /\ phase # "catchup"
  BY DEF SlotInv, IInv, IdleUntilStarted, RunDue
<1>3. ASSUME NEW t \in due PROVE t \notin OffAtBoot /\ SlotOpen(t, clock)
  <2>1. t \in Tasks /\ task[t].enabled /\ task[t].nextRun # 0 /\ clock >= task[t].nextRun
    BY DEF Launchable
  <2>2. PlanRespectsSlot(t, task[t].lastRun, task[t].nextRun)
    BY <1>2, <2>1, PlannedOpen
  <2>3. task[t].nextRun \in Int /\ clock \in Int
    BY <2>1 DEF SlotInv, IInv, TypeOK, Task, Time
  <2>4. SlotOpen(t, clock)
    BY <2>1, <2>2, <2>3, SlotOpenLater DEF PlanRespectsSlot, SlotOpen, SlotInv, IInv
  <2> QED
    BY <1>2, <2>1, <2>4 DEF SlotInv, OffStaysOff
<1>4. due \in SUBSET (Tasks \ OffAtBoot) /\ catchUp' = {}
  BY <1>1, <1>2, <1>3 DEF SlotInv, CatchUpFirst
<1> HIDE DEF due
<1> QED
  BY <1>1, <1>2, <1>3, <1>4, MarkRunningSlots DEF SlotInv, SlotRest

LEMMA CatchUpTaskSlots ==
  ASSUME SlotInv, NEW t \in Tasks, CatchUpTask(t) PROVE SlotRest'
<1>1. /\ MarkRunning({t}) /\ UNCHANGED <<clock, phase, row, unsaved, lastOk>>
      /\ catchUp' = catchUp \ {t} /\ t \in catchUp /\ phase = "catchup"
  BY DEF CatchUpTask
<1>2. t \notin OffAtBoot /\ SlotOpen(t, clock)
  BY <1>1 DEF SlotInv, OffStaysOff, RunsRespectSlots
<1>3. {t} \in SUBSET (Tasks \ OffAtBoot) /\ \A u \in {t} : SlotOpen(u, clock)
  BY <1>2
<1>4. phase \notin {"down", "built"} /\ catchUp' \subseteq catchUp /\ catchUp' \cap {t} = {}
  BY <1>1
<1> QED
  BY <1>1, <1>3, <1>4, MarkRunningSlots DEF SlotInv, SlotRest

LEMMA BeginHandlerSlots ==
  ASSUME SlotInv, NEW t \in Tasks, BeginHandler(t) PROVE SlotRest'
<1> PICK e \in exec[t] : BeginHandler(t)!(e)
  BY DEF BeginHandler
<1>1. /\ exec[t] = {e} /\ e.pc = "marked" /\ SlotOpen(t, clock) /\ t \notin OffAtBoot
      /\ t \notin catchUp
  BY DEF SlotInv, IInv, SingleExecution, RunsRespectSlots, OffStaysOff
<1>2. /\ exec' = [exec EXCEPT ![t] = {[pc |-> "handler", start |-> clock]}]
      /\ UNCHANGED <<clock, phase, task, catchUp, row, unsaved, lastOk>>
  BY <1>1 DEF history
<1>3. RowsRespectSlots'
  BY <1>2 DEF SlotInv, RowsRespectSlots, PlanRespectsSlot, SlotOpen
<1>4. OffStaysOff'
  BY <1>1, <1>2, SchedulerAssumption DEF SlotInv, IInv, TypeOK, OffStaysOff
<1>5. RunsRespectSlots'
  <2> SUFFICES ASSUME NEW u \in Tasks
               PROVE /\ \A d \in exec'[u] :
                          SlotOpen(u, IF d.pc = "marked" THEN clock ELSE d.start)
                     /\ u \in catchUp' => SlotOpen(u, clock) /\ exec'[u] = {}
    BY <1>2 DEF RunsRespectSlots, SlotOpen
  <2>1. CASE u = t
    BY <1>1, <1>2, <2>1 DEF SlotInv, IInv, TypeOK
  <2>2. CASE u # t
    BY <1>2, <2>2 DEF SlotInv, IInv, TypeOK, RunsRespectSlots
  <2> QED
    BY <2>1, <2>2
<1> QED
  BY <1>2, <1>3, <1>4, <1>5 DEF SlotInv, SlotRest, CatchUpFirst, BuiltUnplanned

LEMMA TickSlots ==
  ASSUME SlotInv, Tick PROVE SlotRest'
<1>1. /\ clock \in Int /\ clock' = clock + 1
      /\ UNCHANGED <<phase, task, catchUp, exec, row, unsaved, lastOk>>
  BY DEF Tick, procVars, history, SlotInv, IInv, TypeOK, Time
<1>2. ASSUME NEW t \in Tasks, SlotOpen(t, clock) PROVE SlotOpen(t, clock + 1)
  BY <1>1, <1>2, SlotOpenLater DEF SlotInv, IInv
<1>3. RowsRespectSlots' /\ OffStaysOff'
  BY <1>1 DEF SlotInv, RowsRespectSlots, OffStaysOff, PlanRespectsSlot, SlotOpen
<1>4. RunsRespectSlots'
  <2> SUFFICES ASSUME NEW u \in Tasks
               PROVE /\ \A d \in exec[u] :
                          SlotOpen(u, IF d.pc = "marked" THEN clock + 1 ELSE d.start)
                     /\ u \in catchUp => SlotOpen(u, clock + 1) /\ exec[u] = {}
    BY <1>1 DEF RunsRespectSlots, SlotOpen
  <2> QED
    BY <1>2 DEF SlotInv, RunsRespectSlots
<1> QED
  BY <1>1, <1>3, <1>4 DEF SlotInv, SlotRest, CatchUpFirst, BuiltUnplanned

\* Rows written while every other part of the state is forgotten.
LEMMA ProcessEndsSlots ==
  ASSUME SlotInv, ProcessEnds, RowsRespectSlots', \A t \in OffAtBoot :
           row'[t] # NoRow => ~row'[t].enabled
  PROVE  SlotRest'
<1>1. /\ phase' = "down" /\ unsaved' = {} /\ catchUp' = {}
      /\ \A t \in Tasks : exec'[t] = {} /\ lastOk' = lastOk
  BY DEF ProcessEnds
<1>2. lastOk' = lastOk
  BY DEF ProcessEnds
<1>3. OffStaysOff' /\ RunsRespectSlots'
  BY <1>1, <1>2, SchedulerAssumption DEF SlotInv, OffStaysOff, RunsRespectSlots
<1> QED
  BY <1>1, <1>3 DEF SlotRest, CatchUpFirst, BuiltUnplanned

LEMMA CrashSlots ==
  ASSUME DBMayFail = FALSE, SlotInv, Exit \/ Crash \/ CrashInStart
  PROVE  SlotRest'
<1>1. CASE Exit \/ Crash
  <2>1. row' = row /\ ProcessEnds /\ lastOk' = lastOk
    BY <1>1 DEF Exit, Crash, ProcessEnds
  <2>2. RowsRespectSlots'
    BY <2>1 DEF SlotInv, RowsRespectSlots, PlanRespectsSlot, SlotOpen
  <2> QED
    BY <2>1, <2>2, ProcessEndsSlots DEF SlotInv, OffStaysOff
<1>2. CASE CrashInStart
  <2>1. ProcessEnds /\ phase = "built" /\ lastOk' = lastOk
    BY <1>2 DEF CrashInStart, ProcessEnds
  <2> PICK loaded \in BOOLEAN, writes \in SUBSET Tasks :
        (loaded \/ DBMayFail) /\ row' = Saved(Started(loaded), writes)
    BY <1>2 DEF CrashInStart
  <2>2. row' = Saved(Started(TRUE), writes)
    BY DBMayFail = FALSE
  <2>3. ASSUME NEW t \in Tasks, t \in writes
        PROVE  /\ row'[t] # NoRow
               /\ PlanRespectsSlot(t, row'[t].lastRun, row'[t].nextRun)
               /\ t \in OffAtBoot => ~row'[t].enabled
    <3> DEFINE k == Started(TRUE)[t]
    <3>1. k \in Task
      BY <2>1, StartedType DEF SlotInv
    <3>2. PlanRespectsSlot(t, k.lastRun, k.nextRun) /\ (t \in OffAtBoot => ~k.enabled)
      BY <2>1, StartedSlots
    <3>3. row'[t] = RowOf(k)
      BY <2>2, <2>3 DEF Saved
    <3> HIDE DEF k
    <3>4. /\ row'[t].lastRun = k.lastRun /\ row'[t].nextRun = k.nextRun
          /\ row'[t].enabled = k.enabled
      BY <3>3 DEF RowOf
    <3>5. row'[t] # NoRow
      BY <3>1, <3>3, RowOfType, NoRowAssumption
    <3> QED
      BY <3>2, <3>4, <3>5
  <2>4. ASSUME NEW t \in Tasks, t \notin writes PROVE row'[t] = row[t]
    BY <2>2, <2>4 DEF Saved
  <2>5. RowsRespectSlots'
    <3> SUFFICES ASSUME NEW t \in Tasks \ OffAtBoot, lastOk[t] # 0
                 PROVE /\ row'[t] # NoRow
                       /\ PlanRespectsSlot(t, row'[t].lastRun, row'[t].nextRun)
      BY <2>1 DEF RowsRespectSlots, PlanRespectsSlot, SlotOpen
    <3> QED
      BY <2>3, <2>4 DEF SlotInv, RowsRespectSlots
  <2>6. \A t \in OffAtBoot : row'[t] # NoRow => ~row'[t].enabled
    BY <2>3, <2>4, SchedulerAssumption DEF SlotInv, OffStaysOff
  <2> QED
    BY <2>1, <2>5, <2>6, ProcessEndsSlots
<1> QED
  BY <1>1, <1>2

\* What Stop saves is in the table already.
LEMMA SaveAllKeepsRows ==
  ASSUME DBMayFail = FALSE, SlotInv, TasksJoined \/ TasksGraceExpires
  PROVE  row' = row
<1> PICK writes \in WritesOf(Tasks) : row' = Saved(task, writes)
  BY DEF TasksJoined, TasksGraceExpires, SaveAll
<1>1. writes = Tasks /\ phase \notin {"down", "built"}
  BY WritesAll DEF TasksJoined, TasksGraceExpires
<1>2. \A t \in Tasks : row[t] = RowOf(task[t])
  BY <1>1 DEF SlotInv, RowsMatchMemory
<1>3. row \in [Tasks -> Row \cup {NoRow}]
  BY DEF SlotInv, IInv, TypeOK
<1> QED
  BY <1>1, <1>2, <1>3 DEF Saved

\* The remaining steps touch nothing SlotRest reads, except saving rows that
\* are already in the table.
LEMMA OtherSlots ==
  ASSUME DBMayFail = FALSE, SlotInv,
         \/ EnterLoop \/ StopBegin \/ LoopExit \/ LoopJoined \/ LoopGraceExpires
         \/ TasksJoined \/ TasksGraceExpires \/ UNCHANGED vars
  PROVE  SlotRest'
<1>1. /\ UNCHANGED <<clock, task, exec, catchUp, lastOk>> /\ unsaved' = {}
      /\ phase = "down" <=> phase' = "down"
      /\ phase' \in {"built", "catchup"} => phase' = phase
      /\ phase = "catchup" => catchUp = {} \/ phase' = "catchup"
  BY WritesAll
  DEF EnterLoop, StopBegin, LoopExit, LoopJoined, LoopGraceExpires, TasksJoined,
      TasksGraceExpires, SaveAll, vars, procVars, history, SlotInv
<1>2. row' = row
  <2>1. CASE TasksJoined \/ TasksGraceExpires
    BY <2>1, SaveAllKeepsRows
  <2> QED
    BY <2>1 DEF EnterLoop, StopBegin, LoopExit, LoopJoined, LoopGraceExpires,
                vars, procVars, history
<1>3. RowsRespectSlots' /\ OffStaysOff' /\ RunsRespectSlots'
  BY <1>1, <1>2 DEF SlotInv, RowsRespectSlots, OffStaysOff, RunsRespectSlots,
                    PlanRespectsSlot, SlotOpen
<1> QED
  BY <1>1, <1>3 DEF SlotInv, SlotRest, CatchUpFirst, BuiltUnplanned

LEMMA NextSlots ==
  ASSUME DBMayFail = FALSE
  PROVE  SlotInv /\ [Next]_vars => SlotInv'
<1> SUFFICES ASSUME SlotInv, [Next]_vars PROVE SlotInv'
  OBVIOUS
<1>1. IInv' /\ RowsMatchMemory'
  BY NextIInv, NextRows DEF SlotInv
<1>2. SlotRest'
  BY BootSlots, StartSlots, RunDueSlots, CatchUpTaskSlots, BeginHandlerSlots,
     FinishRunSlots, TickSlots, CrashSlots, OtherSlots DEF Next
<1> QED
  BY <1>1, <1>2 DEF SlotInv, SlotRest

LEMMA InitSlots == Init => SlotInv
<1> SUFFICES ASSUME Init PROVE SlotInv
  OBVIOUS
<1>1. IInv /\ RowsMatchMemory
  BY InitIInv, InitRows
<1>2. RowsRespectSlots /\ OffStaysOff /\ RunsRespectSlots
  BY SchedulerAssumption
  DEF Init, RowsRespectSlots, OffStaysOff, RunsRespectSlots
<1> QED
  BY <1>1, <1>2 DEF Init, SlotInv, CatchUpFirst, BuiltUnplanned

\* With a database that answers, a slot that a successful run has served is
\* never run again: not by the loop, not by the catch-up of a later process,
\* not after a crash between any two steps.
THEOREM ServedSlots ==
  ASSUME DBMayFail = FALSE
  PROVE  Spec => []ServedSlotNotRerun
<1>1. Init => SlotInv
  BY InitSlots
<1>2. SlotInv => ServedSlotNotRerun
  <2> SUFFICES ASSUME SlotInv, NEW t \in Tasks, NEW e \in exec[t],
                      e.pc = "handler", lastOk[t] # 0
               PROVE  /\ ScheduleNext(t, lastOk[t]) # 0
                      /\ e.start >= ScheduleNext(t, lastOk[t])
    BY DEF ServedSlotNotRerun
  <2> QED
    BY DEF SlotInv, RunsRespectSlots, SlotOpen
<1>3. SlotInv /\ [Next]_vars => SlotInv'
  BY NextSlots
<1> QED
  BY <1>1, <1>2, <1>3, PTL DEF Spec

-----------------------------------------------------------------------------
(* The retries.                                                            *)

\* In each process the retries are those that earlier processes may have spent,
\* and the attempts of this one.
BudgetInv ==
  /\ phase # "down" => boots # 0
  /\ \A t \in Tasks :
       retries[t] <= IF phase = "down" THEN RetriesAllowed(t) * boots
                     ELSE RetriesAllowed(t) * (boots - 1) + task[t].attempt

LEMMA BudgetArithmetic ==
  ASSUME NEW a \in Nat, NEW b \in Nat
  PROVE  /\ a * b \in Nat
         /\ b # 0 => a * (b - 1) \in Nat /\ a * b = a * (b - 1) + a
         /\ a * (b + 1 - 1) = a * b
BY SMT

\* The attempts of a task change when a run is recorded, and only then.
LEMMA AttemptKept ==
  ASSUME IInv, NEW t \in Tasks,
         \/ \E loaded \in BOOLEAN : task' = Started(loaded)
         \/ \E S \in SUBSET Tasks : MarkRunning(S)
  PROVE  task'[t].attempt = task[t].attempt
<1>1. task[t] \in Task BY DEF IInv, TypeOK
<1>2. ASSUME NEW loaded \in BOOLEAN, task' = Started(loaded)
      PROVE  task'[t].attempt = task[t].attempt
  <2> DEFINE k == IF loaded THEN Merged(t) ELSE task[t]
  <2>1. k \in Task /\ k.attempt = task[t].attempt BY <1>1, MergedType DEF IInv
  <2>2. task'[t] = WithNextRun(t, k) BY <1>2 DEF Started
  <2> HIDE DEF k
  <2> QED BY <2>1, <2>2, WithNextRunType DEF IInv
<1>3. ASSUME NEW S \in SUBSET Tasks, MarkRunning(S)
      PROVE  task'[t].attempt = task[t].attempt
  BY <1>1, <1>3 DEF MarkRunning, Task
<1> QED BY <1>2, <1>3

LEMMA RecordedAttempt ==
  ASSUME TypeOK, NEW t \in Tasks, NEW start, NEW outcome
  PROVE  Recorded(t, start, outcome).attempt =
           IF outcome = "failed" /\ Retries(t) THEN task[t].attempt + 1 ELSE 0
BY DEF Recorded, TypeOK, Task

LEMMA NextBudget == IInv /\ BudgetInv /\ [Next]_vars => BudgetInv'
<1> SUFFICES ASSUME IInv, BudgetInv, [Next]_vars PROVE BudgetInv'
  OBVIOUS
<1> USE DEF RetriesAllowed
<1>0. /\ boots \in Nat
      /\ \A t \in Tasks : /\ RetriesAllowed(t) \in Nat /\ task[t].attempt \in Nat
                          /\ retries[t] \in Nat
                          /\ task[t].attempt <= RetriesAllowed(t)
  BY SchedulerAssumption DEF IInv, TypeOK, AttemptBounded, Task
<1>1. CASE UNCHANGED <<boots, phase, task, retries>>
  BY <1>1 DEF BudgetInv
<1>2. CASE Boot
  <2>1. /\ boots' = boots + 1 /\ phase = "down" /\ phase' = "built" /\ retries' = retries
        /\ \A t \in Tasks : task'[t].attempt = 0
    BY <1>2 DEF Boot, history, FreshTask
  <2> SUFFICES ASSUME NEW t \in Tasks
               PROVE  retries[t] <= RetriesAllowed(t) * (boots + 1 - 1) + 0
    BY <1>0, <2>1 DEF BudgetInv
  <2> QED BY <1>0, <2>1, BudgetArithmetic DEF BudgetInv
<1>3. CASE Start \/ RunDue \/ \E u \in Tasks : CatchUpTask(u)
  <2>1. /\ UNCHANGED <<boots, retries>> /\ phase' # "down" /\ phase # "down"
    BY <1>3 DEF Start, RunDue, CatchUpTask, IInv, IdleUntilStarted
  <2>2. \/ \E loaded \in BOOLEAN : task' = Started(loaded)
        \/ \E S \in SUBSET Tasks : MarkRunning(S)
    BY <1>3 DEF Start, RunDue, CatchUpTask
  <2>3. \A t \in Tasks : task'[t].attempt = task[t].attempt
    BY <2>2, AttemptKept
  <2> QED BY <2>1, <2>3 DEF BudgetInv
<1>4. ASSUME NEW u \in Tasks, NEW outcome \in Outcomes, FinishRun(u, outcome)
      PROVE  BudgetInv'
  <2> DEFINE again == outcome = "failed" /\ Retries(u)
  <2>1. PICK e \in exec[u] :
          /\ task' = [task EXCEPT ![u] = Recorded(u, e.start, outcome)]
          /\ retries' = [retries EXCEPT ![u] = IF again THEN @ + 1 ELSE 0]
          /\ UNCHANGED <<boots, phase>>
    BY <1>4 DEF FinishRun
  <2>2. phase # "down" BY DEF IInv, IdleUntilStarted
  <2>3. task'[u].attempt = IF again THEN task[u].attempt + 1 ELSE 0
    BY <2>1, RecordedAttempt DEF IInv, TypeOK
  <2>4. retries'[u] = IF again THEN retries[u] + 1 ELSE 0
    BY <2>1 DEF IInv, TypeOK
  <2>5. \A t \in Tasks \ {u} : task'[t] = task[t] /\ retries'[t] = retries[t]
    BY <2>1 DEF IInv, TypeOK
  <2> HIDE DEF again
  <2>6. retries'[u] <= RetriesAllowed(u) * (boots - 1) + task'[u].attempt
    <3> DEFINE spent == RetriesAllowed(u) * (boots - 1)
    <3>1. spent \in Nat /\ retries[u] <= spent + task[u].attempt
      BY <1>0, <2>2, BudgetArithmetic DEF BudgetInv
    <3> HIDE DEF spent
    <3>2. retries'[u] <= spent + task'[u].attempt
      BY <1>0, <2>3, <2>4, <3>1
    <3> QED BY <3>2 DEF spent
  <2> QED BY <2>1, <2>2, <2>5, <2>6 DEF BudgetInv
<1>5. CASE EnterLoop \/ StopBegin \/ LoopExit \/ LoopJoined \/ LoopGraceExpires
  BY <1>5 DEF EnterLoop, StopBegin, LoopExit, LoopJoined, LoopGraceExpires, history, BudgetInv
<1>6. CASE TasksJoined \/ TasksGraceExpires
  BY <1>6 DEF TasksJoined, TasksGraceExpires, SaveAll, BudgetInv
<1>7. CASE Exit \/ Crash \/ CrashInStart
  <2>1. phase # "down" /\ phase' = "down" /\ UNCHANGED <<boots, retries>>
    BY <1>7 DEF Exit, Crash, CrashInStart, ProcessEnds
  <2> SUFFICES ASSUME NEW t \in Tasks PROVE retries[t] <= RetriesAllowed(t) * boots
    BY <2>1 DEF BudgetInv
  <2> DEFINE spent == RetriesAllowed(t) * (boots - 1)
  <2>2. spent \in Nat /\ RetriesAllowed(t) * boots = spent + RetriesAllowed(t)
    BY <1>0, <2>1, BudgetArithmetic DEF BudgetInv
  <2>3. retries[t] <= spent + task[t].attempt
    BY <2>1 DEF BudgetInv
  <2> HIDE DEF spent
  <2> QED BY <1>0, <2>2, <2>3
<1> QED
  BY <1>1, <1>2, <1>3, <1>4, <1>5, <1>6, <1>7
  DEF Next, vars, procVars, history, Tick, BeginHandler

\* However often the process is started and whatever runs and fails, a task is
\* retried at most its number of retries per start before it goes back to its
\* schedule, since each retry is an attempt and the attempts are bounded
\* (scheduleRetryLocked, execute).
THEOREM RetriesBounded == Spec => []RetryBudgetPerStart
<1>1. Init => BudgetInv
  BY SchedulerAssumption, BudgetArithmetic DEF Init, BudgetInv, RetriesAllowed
<1>2. IInv /\ BudgetInv /\ [Next]_vars => BudgetInv'
  BY NextBudget
<1>3. IInv /\ BudgetInv => RetryBudgetPerStart
  <2> SUFFICES ASSUME IInv, BudgetInv, NEW t \in Tasks
               PROVE  retries[t] <= RetriesAllowed(t) * boots
    BY DEF RetryBudgetPerStart
  <2>1. /\ boots \in Nat /\ RetriesAllowed(t) \in Nat /\ task[t].attempt \in Nat
        /\ retries[t] \in Nat /\ task[t].attempt <= RetriesAllowed(t)
    BY SchedulerAssumption DEF IInv, TypeOK, AttemptBounded, Task, RetriesAllowed
  <2>2. CASE phase = "down" BY <2>2 DEF BudgetInv
  <2>3. CASE phase # "down"
    <3> DEFINE spent == RetriesAllowed(t) * (boots - 1)
    <3>1. spent \in Nat /\ RetriesAllowed(t) * boots = spent + RetriesAllowed(t)
      BY <2>1, <2>3, BudgetArithmetic DEF BudgetInv
    <3>2. retries[t] <= spent + task[t].attempt
      BY <2>3 DEF BudgetInv
    <3> HIDE DEF spent
    <3> QED BY <2>1, <3>1, <3>2
  <2> QED BY <2>2, <2>3
<1> QED
  BY <1>1, <1>2, <1>3, InvariantIInv, PTL DEF Spec

-----------------------------------------------------------------------------
(* The scheduler implements the ledger.                                    *)

\* The task counts nothing before Start has loaded its row.
BuiltUncounted ==
  phase = "built" => \A t \in Tasks : task[t].runCount = 0 /\ task[t].failCount = 0

\* The ledger tells a run in progress by the time of its start.
StartsAreTimes == \A t \in Tasks : \A e \in exec[t] : e.pc = "handler" => e.start # 0

LedgerInv == SlotInv /\ BuiltUncounted /\ StartsAreTimes

LEMMA NextLedgerInv ==
  ASSUME DBMayFail = FALSE
  PROVE  LedgerInv /\ [Next]_vars => LedgerInv'
<1> SUFFICES ASSUME LedgerInv, [Next]_vars PROVE LedgerInv'
  OBVIOUS
<1>1. SlotInv' BY NextSlots DEF LedgerInv
<1>2. BuiltUncounted'
  <2>1. CASE Boot BY <2>1 DEF Boot, BuiltUncounted, FreshTask
  <2>2. CASE ~Boot
    <3>1. UNCHANGED <<phase, task>> \/ phase' # "built"
      BY <2>2 DEF Next, vars, procVars, history, Tick, Start, EnterLoop, RunDue, CatchUpTask,
         BeginHandler, FinishRun, StopBegin, LoopExit, LoopJoined, LoopGraceExpires, TasksJoined,
         TasksGraceExpires, SaveAll, Exit, Crash, CrashInStart, ProcessEnds, LedgerInv, SlotInv,
         IInv, IdleUntilStarted
    <3> QED BY <3>1 DEF LedgerInv, BuiltUncounted
  <2> QED BY <2>1, <2>2
<1>3. StartsAreTimes'
  <2>1. ASSUME NEW t \in Tasks, BeginHandler(t) PROVE StartsAreTimes'
    <3>1. clock # 0 /\ exec \in [Tasks -> SUBSET Exec]
      BY DEF LedgerInv, SlotInv, IInv, TypeOK
    <3> QED BY <2>1, <3>1 DEF BeginHandler, LedgerInv, StartsAreTimes
  <2>2. ASSUME NEW t \in Tasks, NEW outcome \in Outcomes, FinishRun(t, outcome) PROVE StartsAreTimes'
    <3>1. exec \in [Tasks -> SUBSET Exec] BY DEF LedgerInv, SlotInv, IInv, TypeOK
    <3> QED BY <2>2, <3>1 DEF FinishRun, LedgerInv, StartsAreTimes
  <2>3. ASSUME NEW S \in SUBSET Tasks, MarkRunning(S) PROVE StartsAreTimes'
    BY <2>3 DEF MarkRunning, LedgerInv, StartsAreTimes
  <2>4. CASE RunDue \/ \E t \in Tasks : CatchUpTask(t)
    BY <2>3, <2>4 DEF RunDue, CatchUpTask
  <2>5. CASE exec' = exec BY <2>5 DEF LedgerInv, StartsAreTimes
  <2>6. CASE ProcessEnds BY <2>6 DEF ProcessEnds, StartsAreTimes
  <2> QED
    BY <2>1, <2>2, <2>4, <2>5, <2>6 DEF Next, vars, procVars, history, Tick, Boot, Start, EnterLoop,
       StopBegin, LoopExit, LoopJoined, LoopGraceExpires, TasksJoined, TasksGraceExpires, SaveAll,
       Exit, Crash, CrashInStart
<1> QED BY <1>1, <1>2, <1>3 DEF LedgerInv

LEMMA InvariantLedgerInv ==
  ASSUME DBMayFail = FALSE PROVE Spec => []LedgerInv
<1>1. Init => LedgerInv
  BY InitSlots DEF Init, LedgerInv, BuiltUncounted, StartsAreTimes
<1>2. LedgerInv /\ [Next]_vars => LedgerInv'
  BY NextLedgerInv
<1> QED BY <1>1, <1>2, PTL DEF Spec

\* What the ledger reads of the executions of a task.
LEMMA StartOfRun ==
  ASSUME NEW t \in Audited
  PROVE  /\ (\A e \in exec[t] : e.pc # "handler") => LedgerStart[t] = 0
         /\ \A e : (exec[t] = {e} /\ e.pc = "handler") => LedgerStart[t] = e.start
BY DEF LedgerStart

LEMMA StartOfRunNext ==
  ASSUME NEW t \in Audited
  PROVE  /\ (\A e \in exec'[t] : e.pc # "handler") => LedgerStart'[t] = 0
         /\ \A e : (exec'[t] = {e} /\ e.pc = "handler") => LedgerStart'[t] = e.start
         /\ exec'[t] = exec[t] => LedgerStart'[t] = LedgerStart[t]
BY DEF LedgerStart

\* Functions of the ledger are equal when they are equal on every audited task.
LEMMA LedgerSame ==
  /\ (\A t \in Audited : LedgerStart'[t] = LedgerStart[t]) => LedgerStart' = LedgerStart
  /\ lastOk' = lastOk => LedgerLastOk' = LedgerLastOk
  /\ row' = row => LedgerOks' = LedgerOks /\ LedgerFails' = LedgerFails
BY DEF LedgerStart, LedgerLastOk, LedgerOks, LedgerFails

LEMMA ChangedAtOne ==
  ASSUME NEW D, NEW f, NEW g, NEW t \in D, NEW v,
         f = [u \in D |-> f[u]], g = [u \in D |-> g[u]],
         g[t] = v, \A u \in D \ {t} : g[u] = f[u]
  PROVE  /\ g = [f EXCEPT ![t] = v]
         /\ g = f <=> v = f[t]
<1>1. g = [f EXCEPT ![t] = v] OBVIOUS
<1>2. v = f[t] => \A u \in D : g[u] = f[u] OBVIOUS
<1>3. (\A u \in D : g[u] = f[u]) => g = f OBVIOUS
<1> QED BY <1>1, <1>2, <1>3

LEMMA RowOfCounters ==
  ASSUME NEW k
  PROVE  RowOf(k).runCount = k.runCount /\ RowOf(k).failCount = k.failCount
BY DEF RowOf

\* Saving what Start made of a row leaves its counters.
LEMMA StartKeepsCounters ==
  ASSUME LedgerInv, phase = "built", NEW S, row' = Saved(Started(TRUE), S)
  PROVE  LedgerOks' = LedgerOks /\ LedgerFails' = LedgerFails
<1>1. ASSUME NEW t \in Audited
      PROVE  LedgerOks'[t] = LedgerOks[t] /\ LedgerFails'[t] = LedgerFails[t]
  <2>1. t \in Tasks BY DEF Audited
  <2>2. CASE t \notin S
    <3>1. row'[t] = row[t] BY <2>1, <2>2 DEF Saved
    <3> QED BY <3>1 DEF LedgerOks, LedgerFails
  <2>3. CASE t \in S
    <3> DEFINE k == Started(TRUE)[t]
    <3>1. k \in Task /\ Merged(t) \in Task /\ k = WithNextRun(t, Merged(t))
          /\ task[t] \in Task /\ (row[t] = NoRow \/ row[t] \in Row)
      BY <2>1, StartedType, MergedType DEF LedgerInv, SlotInv, IInv, TypeOK, Started
    <3>2. k.runCount = Merged(t).runCount /\ k.failCount = Merged(t).failCount
      BY <3>1 DEF WithNextRun, Task
    <3>3. /\ row[t] = NoRow => Merged(t).runCount = 0 /\ Merged(t).failCount = 0
          /\ row[t] # NoRow => /\ Merged(t).runCount = row[t].runCount
                               /\ Merged(t).failCount = row[t].failCount
      BY <2>1, <3>1 DEF Merged, Task, Row, LedgerInv, BuiltUncounted
    <3>4. row'[t] = RowOf(k) BY <2>1, <2>3 DEF Saved
    <3> HIDE DEF k
    <3>5. row'[t] # NoRow BY <3>1, <3>4, RowOfType, NoRowAssumption
    <3>6. row'[t].runCount = k.runCount /\ row'[t].failCount = k.failCount
      BY <3>4, RowOfCounters
    <3> QED BY <3>2, <3>3, <3>5, <3>6 DEF LedgerOks, LedgerFails
  <2> QED BY <2>2, <2>3
<1> QED BY <1>1 DEF LedgerOks, LedgerFails

\* A step of the process in which no handler begins or ends.
LEMMA QuietStep ==
  ASSUME DBMayFail = FALSE, LedgerInv,
         \/ Boot \/ Start \/ EnterLoop \/ RunDue \/ \E t \in Tasks : CatchUpTask(t)
         \/ StopBegin \/ LoopExit \/ LoopJoined \/ LoopGraceExpires
         \/ TasksJoined \/ TasksGraceExpires \/ UNCHANGED vars
  PROVE  UNCHANGED Ledger!ledger
<1>1. UNCHANGED <<clock, lastOk>>
  BY DEF Boot, Start, EnterLoop, RunDue, CatchUpTask, StopBegin, LoopExit, LoopJoined,
     LoopGraceExpires, TasksJoined, TasksGraceExpires, SaveAll, vars, history
<1>2. LedgerStart' = LedgerStart
  <2> SUFFICES ASSUME NEW t \in Audited PROVE LedgerStart'[t] = LedgerStart[t]
    BY LedgerSame
  <2>1. t \in Tasks BY DEF Audited
  <2>2. CASE exec' = exec BY <2>2, StartOfRunNext
  <2>3. ASSUME NEW S \in SUBSET Tasks, \A u \in S : ~task[u].running, MarkRunning(S)
        PROVE  LedgerStart'[t] = LedgerStart[t]
    <3>1. CASE t \in S
      <4>1. exec[t] = {} BY <2>1, <2>3, <3>1 DEF LedgerInv, SlotInv, IInv, SingleExecution
      <4>2. exec'[t] = {[pc |-> "marked", start |-> 0]} BY <2>1, <2>3, <3>1, <4>1 DEF MarkRunning
      <4> QED BY <4>1, <4>2, StartOfRun, StartOfRunNext
    <3>2. CASE t \notin S
      <4>1. exec'[t] = exec[t] BY <2>1, <2>3, <3>2 DEF MarkRunning
      <4> QED BY <4>1, StartOfRunNext
    <3> QED BY <3>1, <3>2
  <2>4. CASE RunDue \/ \E u \in Tasks : CatchUpTask(u)
    <3>1. \E S \in SUBSET Tasks : (\A u \in S : ~task[u].running) /\ MarkRunning(S)
      BY <2>4 DEF RunDue, CatchUpTask, Launchable
    <3> QED BY <2>3, <3>1
  <2> QED
    BY <2>2, <2>4 DEF Boot, Start, EnterLoop, StopBegin, LoopExit, LoopJoined,
       LoopGraceExpires, TasksJoined, TasksGraceExpires, SaveAll, vars, procVars, history
<1>3. LedgerOks' = LedgerOks /\ LedgerFails' = LedgerFails
  <2>1. CASE Boot
    <3>1. \A t \in Audited : row'[t] = row[t]
      BY <2>1, WritesAll, SchedulerAssumption DEF Boot, Saved, Audited
    <3> QED BY <3>1 DEF LedgerOks, LedgerFails
  <2>2. CASE Start
    <3>1. phase = "built" /\ \E S : row' = Saved(Started(TRUE), S)
      BY <2>2 DEF Start
    <3> QED BY <3>1, StartKeepsCounters
  <2>3. CASE TasksJoined \/ TasksGraceExpires
    <3>1. row' = row BY <2>3, SaveAllKeepsRows DEF LedgerInv
    <3> QED BY <3>1, LedgerSame
  <2>4. CASE row' = row BY <2>4, LedgerSame
  <2> QED
    BY <2>1, <2>2, <2>3, <2>4 DEF EnterLoop, RunDue, CatchUpTask, StopBegin, LoopExit, LoopJoined,
       LoopGraceExpires, vars, history
<1> QED BY <1>1, <1>2, <1>3, LedgerSame DEF Ledger!ledger

LEMMA BeginStep ==
  ASSUME LedgerInv, NEW t \in Tasks, BeginHandler(t)
  PROVE  t \in Audited /\ Ledger!Begin(t)
<1> PICK e \in exec[t] : BeginHandler(t)!(e)
  BY DEF BeginHandler
<1>1. /\ exec[t] = {e} /\ e.pc = "marked" /\ t \in Audited /\ SlotOpen(t, clock)
      /\ UNCHANGED <<clock, row, lastOk>>
  BY DEF LedgerInv, SlotInv, IInv, SingleExecution, OffStaysOff, RunsRespectSlots, Audited, history
<1>2. exec' = [exec EXCEPT ![t] = {[pc |-> "handler", start |-> clock]}]
  BY <1>1
<1>3. LedgerStart[t] = 0 BY <1>1, StartOfRun
<1>4. LedgerStart' = [LedgerStart EXCEPT ![t] = clock]
  <2>1. exec'[t] = {[pc |-> "handler", start |-> clock]}
    BY <1>2 DEF LedgerInv, SlotInv, IInv, TypeOK
  <2>2. LedgerStart'[t] = clock BY <1>1, <2>1, StartOfRunNext
  <2>3. \A u \in Audited \ {t} : LedgerStart'[u] = LedgerStart[u]
    BY <1>2, StartOfRunNext DEF LedgerInv, SlotInv, IInv, TypeOK, Audited
  <2> QED BY <2>2, <2>3 DEF LedgerStart
<1>5. Ledger!SlotOpen(t)
  BY <1>1 DEF Ledger!SlotOpen, SlotOpen, LedgerLastOk
<1> QED BY <1>1, <1>3, <1>4, <1>5, LedgerSame DEF Ledger!Begin

LEMMA FinishStep ==
  ASSUME DBMayFail = FALSE, LedgerInv, NEW t \in Tasks, NEW outcome \in Outcomes, FinishRun(t, outcome)
  PROVE  /\ t \in Audited
         /\ Ledger!Succeed(t) \/ Ledger!Fail(t) \/ Ledger!Vanish({t})
<1> PICK e \in exec[t], writes \in WritesOf({t}) : FinishRun(t, outcome)!(e, writes)
  BY DEF FinishRun
<1>1. /\ exec[t] = {e} /\ e.pc = "handler" /\ t \in Audited /\ writes = {t}
      /\ e.start # 0 /\ e.start \in Time /\ task[t] \in Task /\ UNCHANGED clock
      /\ phase \notin {"down", "built"}
  <2>1. exec[t] = {e} /\ e \in Exec /\ task[t] \in Task
    BY DEF LedgerInv, SlotInv, IInv, SingleExecution, TypeOK
  <2>2. writes = {t} BY WritesAll
  <2>3. t \in Audited BY DEF LedgerInv, SlotInv, OffStaysOff, Audited
  <2>4. e.start # 0 BY DEF LedgerInv, StartsAreTimes
  <2>5. phase \notin {"down", "built"} BY DEF LedgerInv, SlotInv, IInv, IdleUntilStarted
  <2> QED BY <2>1, <2>2, <2>3, <2>4, <2>5 DEF Exec
<1>2. LedgerStart[t] = e.start BY <1>1, StartOfRun
<1>3. /\ exec'[t] = {} /\ \A u \in Tasks \ {t} : exec'[u] = exec[u]
  BY <1>1 DEF LedgerInv, SlotInv, IInv, TypeOK
<1>4. /\ LedgerStart' = [LedgerStart EXCEPT ![t] = 0]
      /\ LedgerStart' = [u \in Audited |-> IF u \in {t} THEN 0 ELSE LedgerStart[u]]
  <2>1. LedgerStart'[t] = 0 BY <1>1, <1>3, StartOfRunNext
  <2>2. \A u \in Audited \ {t} : LedgerStart'[u] = LedgerStart[u]
    BY <1>3, StartOfRunNext DEF Audited
  <2> QED BY <2>1, <2>2 DEF LedgerStart
<1>5. row[t] = RowOf(task[t]) /\ row[t] # NoRow
  BY <1>1, RowOfType, NoRowAssumption DEF LedgerInv, SlotInv, RowsMatchMemory
<1> DEFINE k == Recorded(t, e.start, outcome)
<1>6. /\ k \in Task
      /\ k.runCount  = IF outcome = "success" THEN task[t].runCount + 1 ELSE task[t].runCount
      /\ k.failCount = IF outcome = "failed" THEN task[t].failCount + 1 ELSE task[t].failCount
  <2>1. k \in Task BY <1>1, RecordedType DEF LedgerInv, SlotInv, IInv
  <2> QED BY <1>1, <2>1 DEF Recorded, Task
<1>7. row'[t] = RowOf(k) /\ \A u \in Tasks \ {t} : row'[u] = row[u]
  BY <1>1 DEF Saved, LedgerInv, SlotInv, IInv, TypeOK
<1> HIDE DEF k
<1>8. row'[t] # NoRow BY <1>6, <1>7, RowOfType, NoRowAssumption
<1>9. /\ LedgerOks[t] = task[t].runCount /\ LedgerFails[t] = task[t].failCount
      /\ LedgerOks'[t] = k.runCount /\ LedgerFails'[t] = k.failCount
  BY <1>1, <1>5, <1>7, <1>8, RowOfCounters DEF LedgerOks, LedgerFails
<1>10. \A u \in Audited \ {t} : LedgerOks'[u] = LedgerOks[u] /\ LedgerFails'[u] = LedgerFails[u]
  BY <1>7 DEF LedgerOks, LedgerFails, Audited
<1>11. /\ LedgerOks = [u \in Audited |-> LedgerOks[u]] /\ LedgerOks' = [u \in Audited |-> LedgerOks'[u]]
       /\ LedgerFails = [u \in Audited |-> LedgerFails[u]] /\ LedgerFails' = [u \in Audited |-> LedgerFails'[u]]
  BY DEF LedgerOks, LedgerFails
<1>12. /\ LedgerOks' = [LedgerOks EXCEPT ![t] = k.runCount]
       /\ LedgerFails' = [LedgerFails EXCEPT ![t] = k.failCount]
       /\ LedgerOks' = LedgerOks <=> k.runCount = LedgerOks[t]
       /\ LedgerFails' = LedgerFails <=> k.failCount = LedgerFails[t]
  BY <1>1, <1>9, <1>10, <1>11, ChangedAtOne
<1>13. CASE outcome = "success"
  <2>1. lastOk' = [lastOk EXCEPT ![t] = e.start] BY <1>13
  <2>2. LedgerLastOk' = [LedgerLastOk EXCEPT ![t] = LedgerStart[t]]
    BY <1>1, <1>2, <2>1 DEF LedgerLastOk, Audited, LedgerInv, SlotInv, IInv, TypeOK
  <2>3. LedgerOks' = [LedgerOks EXCEPT ![t] = LedgerOks[t] + 1] /\ LedgerFails' = LedgerFails
    BY <1>6, <1>9, <1>12, <1>13
  <2>4. Ledger!Succeed(t) BY <1>1, <1>2, <1>4, <2>2, <2>3 DEF Ledger!Succeed
  <2> QED BY <1>1, <2>4
<1>14. CASE outcome = "failed"
  <2>1. lastOk' = lastOk BY <1>14
  <2>2. LedgerFails' = [LedgerFails EXCEPT ![t] = LedgerFails[t] + 1] /\ LedgerOks' = LedgerOks
    BY <1>6, <1>9, <1>12, <1>14
  <2>3. Ledger!Fail(t) BY <1>1, <1>2, <1>4, <2>1, <2>2, LedgerSame DEF Ledger!Fail
  <2> QED BY <1>1, <2>3
<1>15. CASE outcome = "skipped"
  <2>1. lastOk' = lastOk BY <1>15
  <2>2. LedgerFails' = LedgerFails /\ LedgerOks' = LedgerOks
    BY <1>6, <1>9, <1>12, <1>15
  <2>3. Ledger!Vanish({t}) BY <1>1, <1>4, <2>1, <2>2, LedgerSame DEF Ledger!Vanish
  <2> QED BY <1>1, <2>3
<1> QED BY <1>13, <1>14, <1>15 DEF Outcomes

\* All runs of a process that dies vanish; a start that is cut off counts nothing.
LEMMA EndStep ==
  ASSUME DBMayFail = FALSE, LedgerInv, Exit \/ Crash \/ CrashInStart
  PROVE  Ledger!Vanish(Audited)
<1>1. ProcessEnds /\ UNCHANGED <<clock, lastOk>>
  BY DEF Exit, Crash, CrashInStart, ProcessEnds
<1>2. \A t \in Audited : exec'[t] = {} BY <1>1 DEF ProcessEnds, Audited
<1>3. LedgerStart' = [t \in Audited |-> IF t \in Audited THEN 0 ELSE LedgerStart[t]]
  <2>1. \A t \in Audited : LedgerStart'[t] = 0 BY <1>2, StartOfRunNext
  <2> QED BY <2>1 DEF LedgerStart
<1>4. LedgerOks' = LedgerOks /\ LedgerFails' = LedgerFails
  <2>1. CASE Exit \/ Crash BY <2>1, LedgerSame DEF Exit, Crash
  <2>2. CASE CrashInStart
    <3>1. phase = "built" /\ \E S : row' = Saved(Started(TRUE), S)
      BY <2>2 DEF CrashInStart
    <3> QED BY <3>1, StartKeepsCounters
  <2> QED BY <2>1, <2>2
<1> QED BY <1>1, <1>3, <1>4, LedgerSame DEF Ledger!Vanish

LEMMA StepRefines ==
  ASSUME DBMayFail = FALSE
  PROVE  LedgerInv /\ [Next]_vars => [Ledger!Next]_(Ledger!ledger)
<1> SUFFICES ASSUME LedgerInv, [Next]_vars PROVE [Ledger!Next]_(Ledger!ledger)
  OBVIOUS
<1>1. CASE Tick
  <2>1. Ledger!Tick
    <3>1. clock' = clock + 1 /\ UNCHANGED <<exec, row, lastOk>>
      BY <1>1 DEF Tick, procVars, history
    <3>2. LedgerStart' = LedgerStart BY <3>1 DEF LedgerStart
    <3> QED BY <3>1, <3>2, LedgerSame DEF Ledger!Tick
  <2> QED BY <2>1 DEF Ledger!Next
<1>2. ASSUME NEW t \in Tasks, BeginHandler(t) PROVE Ledger!Next
  BY <1>2, BeginStep DEF Ledger!Next
<1>3. ASSUME NEW t \in Tasks, NEW outcome \in Outcomes, FinishRun(t, outcome) PROVE Ledger!Next
  <2>1. {t} \in SUBSET Audited BY <1>3, FinishStep
  <2> QED BY <1>3, <2>1, FinishStep DEF Ledger!Next
<1>4. CASE Exit \/ Crash \/ CrashInStart
  BY <1>4, EndStep DEF Ledger!Next
<1> QED BY <1>1, <1>2, <1>3, <1>4, QuietStep DEF Next

\* With a database that answers, the table is a ledger of runs: a run that
\* finishes is entered once, none begins before the slot of the last success is
\* over, and a crash between any two steps, also while Start saves the table,
\* loses the runs in progress and nothing else.
THEOREM LedgerImplemented ==
  ASSUME DBMayFail = FALSE
  PROVE  Spec => ImplementsLedger
<1>1. Init => Ledger!Init
  BY DEF Init, Ledger!Init, LedgerStart, LedgerLastOk, LedgerOks, LedgerFails, Audited
<1>2. LedgerInv /\ [Next]_vars => [Ledger!Next]_(Ledger!ledger)
  BY StepRefines
<1> QED
  BY <1>1, <1>2, InvariantLedgerInv, PTL DEF Spec, ImplementsLedger, Ledger!Spec

-----------------------------------------------------------------------------
(* Commands beside the server, on the same table.                          *)

\* Each command has well-formed tasks of its own and never retries.
CommandTypes ==
  /\ cmd \in [Cmds -> {"none", "built", "loaded", "running"}]
  /\ mem \in [Cmds -> [Tasks -> Task]]
  /\ \A p \in Cmds, t \in Tasks : mem[p][t].attempt = 0
  /\ job \in [Cmds -> Jobs \cup {CHOOSE j \in Jobs : TRUE}]
  /\ \A p \in Cmds : cmd[p] # "none" => job[p] \in Jobs
  /\ okTotal \in [Tasks -> Nat]
  /\ DOMAIN asked = Tasks

CmdInv == IInv /\ CommandTypes

\* The server's code does on a command's tasks what it does on the server's.
LEMMA OwnMergedType ==
  ASSUME CmdInv, NEW p \in Cmds, NEW t \in Tasks
  PROVE  LET k == Own(p)!Merged(t) IN
         /\ k \in Task /\ k.attempt = 0
         /\ row[t] # NoRow => k.enabled = row[t].enabled /\ k.runCount = row[t].runCount
         /\ row[t] = NoRow => k = mem[p][t]
<1>1. mem[p][t] \in Task /\ mem[p][t].attempt = 0 /\ (row[t] = NoRow \/ row[t] \in Row)
  BY DEF CmdInv, CommandTypes, IInv, TypeOK
<1>2. CASE row[t] = NoRow
  BY <1>1, <1>2 DEF Own!Merged
<1>3. CASE row[t] # NoRow
  BY <1>1, <1>3 DEF Own!Merged, Task, Row
<1> QED BY <1>2, <1>3

LEMMA OwnStartedType ==
  ASSUME CmdInv, NEW p \in Cmds, NEW loaded \in BOOLEAN
  PROVE  LET k == Own(p)!Started(loaded) IN
         /\ k \in [Tasks -> Task]
         /\ \A t \in Tasks :
              /\ k[t].attempt = 0
              /\ loaded /\ row[t] # NoRow =>
                   k[t].enabled = row[t].enabled /\ k[t].runCount = row[t].runCount
              /\ ~(loaded /\ row[t] # NoRow) => k[t].runCount = mem[p][t].runCount
<1> SUFFICES ASSUME NEW t \in Tasks
             PROVE  LET k == Own(p)!Started(loaded)[t] IN
                    /\ k \in Task /\ k.attempt = 0
                    /\ loaded /\ row[t] # NoRow =>
                         k.enabled = row[t].enabled /\ k.runCount = row[t].runCount
                    /\ ~(loaded /\ row[t] # NoRow) => k.runCount = mem[p][t].runCount
  BY DEF Own!Started
<1> DEFINE m == IF loaded THEN Own(p)!Merged(t) ELSE mem[p][t]
<1>1. /\ m \in Task /\ m.attempt = 0
      /\ loaded /\ row[t] # NoRow => m.enabled = row[t].enabled /\ m.runCount = row[t].runCount
      /\ ~(loaded /\ row[t] # NoRow) => m.runCount = mem[p][t].runCount
  BY OwnMergedType DEF CmdInv, CommandTypes
<1>2. Own(p)!Started(loaded)[t] = Own(p)!WithNextRun(t, m)
  BY DEF Own!Started
<1> HIDE DEF m
<1>3. (IF m.lastRun = 0 THEN clock ELSE m.lastRun) \in Time
  BY <1>1 DEF CmdInv, IInv, TypeOK, Task
<1>4. ScheduleNext(t, IF m.lastRun = 0 THEN clock ELSE m.lastRun) \in Nat
  BY <1>3, ScheduleAssumption
<1>5. LET k == Own(p)!WithNextRun(t, m) IN
      k \in Task /\ k.attempt = m.attempt /\ k.enabled = m.enabled /\ k.runCount = m.runCount
  BY <1>1, <1>4 DEF Own!WithNextRun, Task
<1> QED BY <1>1, <1>2, <1>5

LEMMA OwnRecordedType ==
  ASSUME CmdInv, NEW p \in Cmds, NEW t \in Tasks, NEW start \in Time,
         NEW outcome \in Outcomes
  PROVE  LET k == Own(p)!Recorded(t, start, outcome) IN
         /\ k \in Task /\ k.enabled = mem[p][t].enabled
         /\ k.runCount = IF outcome = "success" THEN mem[p][t].runCount + 1
                                                ELSE mem[p][t].runCount
<1> DEFINE again == outcome = "failed" /\ Own(p)!Retries(t)
           next  == IF again THEN start + Own(p)!RetryPause(t) ELSE ScheduleNext(t, start)
           try   == IF again THEN mem[p][t].attempt + 1 ELSE 0
           ok    == IF outcome = "success" THEN mem[p][t].runCount + 1
                                           ELSE mem[p][t].runCount
           bad   == IF outcome = "failed" THEN mem[p][t].failCount + 1
                                          ELSE mem[p][t].failCount
<1>1. mem[p][t] \in Task /\ mem[p][t].attempt = 0
  BY DEF CmdInv, CommandTypes
<1>2. Own(p)!RetryPause(t) \in Nat
  <2>1. RetriesAllowed(t) \in Nat
    BY SchedulerAssumption DEF RetriesAllowed
  <2>2. 2 ^ mem[p][t].attempt \in Nat
    BY <1>1, <2>1, ShiftAssumption
  <2>3. (IF t \in Backoff THEN 2 ^ mem[p][t].attempt ELSE 1) \in Nat
    BY <2>2
  <2>4. (IF RetryDelay[t] = 0 THEN 1 ELSE RetryDelay[t]) \in Nat
    BY SchedulerAssumption
  <2> QED BY <2>3, <2>4, ProductNat DEF Own!RetryPause
<1>3. next \in Nat /\ try \in Nat /\ ok \in Nat /\ bad \in Nat
  BY <1>1, <1>2, ScheduleAssumption DEF Time, Task
<1>4. outcome \in Statuses
  BY DEF Statuses
<1>5. Own(p)!Recorded(t, start, outcome) =
        [mem[p][t] EXCEPT
         !.running    = FALSE,
         !.lastRun    = start,
         !.lastStatus = outcome,
         !.runCount   = ok,
         !.failCount  = bad,
         !.attempt    = try,
         !.nextRun    = next]
  BY <1>1 DEF Own!Recorded, Task
<1>6. ok = IF outcome = "success" THEN mem[p][t].runCount + 1 ELSE mem[p][t].runCount
  OBVIOUS
<1> HIDE DEF again, next, try, ok, bad
<1>7. Own(p)!Recorded(t, start, outcome) =
        [enabled |-> mem[p][t].enabled, running |-> FALSE, lastRun |-> start,
         nextRun |-> next, lastStatus |-> outcome, runCount |-> ok,
         failCount |-> bad, attempt |-> try]
  BY <1>1, <1>5 DEF Task
<1>8. mem[p][t].enabled \in BOOLEAN
  BY <1>1 DEF Task
<1> QED BY <1>3, <1>4, <1>6, <1>7, <1>8 DEF Task

\* A step that leaves the server alone but for the table keeps its invariant.
LEMMA CommandKeepsServer ==
  ASSUME IInv, CommandStep, row' \in [Tasks -> Row \cup {NoRow}]
  PROVE  IInv'
BY DEF CommandStep, procVars, history, IInv, TypeOK, AttemptBounded, SingleExecution,
       IdleUntilStarted, RetriesAllowed

\* A command that ends leaves nothing but what it has written.
LEMMA ExitTypes ==
  ASSUME CmdInv, NEW p \in Cmds, CmdExit(p), row' \in [Tasks -> Row \cup {NoRow}],
         okTotal' \in [Tasks -> Nat], DOMAIN asked' = Tasks
  PROVE  CmdInv'
<1>1. IInv'
  BY CommandKeepsServer DEF CmdInv, CmdExit
<1>2. Idle \in [Tasks -> Task] /\ \A t \in Tasks : Idle[t].attempt = 0
  BY FreshTaskType DEF Idle, FreshTask
<1>3. /\ cmd' = [cmd EXCEPT ![p] = "none"] /\ mem' = [mem EXCEPT ![p] = Idle]
      /\ job' = job
  BY DEF CmdExit
<1>4. CommandTypes'
  BY <1>2, <1>3 DEF CmdInv, CommandTypes
<1> QED BY <1>1, <1>4 DEF CmdInv

\* The outcome of a command's step: the tasks from which it saves.
LEMMA ToggledType ==
  ASSUME CmdInv, NEW p \in Cmds, NEW t \in Tasks, NEW on \in BOOLEAN
  PROVE  LET k == [mem[p][t] EXCEPT !.enabled = on,
                     !.nextRun = IF on /\ @ = 0 THEN ScheduleNext(t, clock) ELSE @]
         IN  k \in Task /\ k.enabled = on /\ k.runCount = mem[p][t].runCount
<1>1. mem[p][t] \in Task /\ ScheduleNext(t, clock) \in Nat
  BY ScheduleAssumption DEF CmdInv, CommandTypes, IInv, TypeOK
<1> QED BY <1>1 DEF Task

\* Each action of a command, with the types of what it writes.
LEMMA ToggleTypes ==
  ASSUME CmdInv, NEW p \in Cmds, CmdToggle(p)
  PROVE  /\ CmdInv'
         /\ \E t \in Tasks, k \in Task, on \in BOOLEAN, S \in SUBSET Tasks :
              /\ t = job[p].task /\ on = (job[p].verb = "enable") /\ S \in WritesOf({t})
              /\ cmd[p] = "loaded" /\ job[p].verb \in {"enable", "disable"}
              /\ k.enabled = on /\ k.runCount = mem[p][t].runCount
              /\ row' = Saved([mem[p] EXCEPT ![t] = k], S)
              /\ asked' = [asked EXCEPT ![t] =
                             IF Alone(p) /\ t \in S THEN job[p].verb ELSE "none"]
<1> DEFINE t == job[p].task
           on == job[p].verb = "enable"
           k == [mem[p][t] EXCEPT !.enabled = on,
                   !.nextRun = IF on /\ @ = 0 THEN ScheduleNext(t, clock) ELSE @]
<1>1. cmd[p] = "loaded" /\ job[p].verb \in {"enable", "disable"} /\ t \in Tasks
      /\ on \in BOOLEAN
  BY DEF CmdToggle, CmdInv, CommandTypes, Jobs
<1> HIDE DEF on
<1>2. k \in Task /\ k.enabled = on /\ k.runCount = mem[p][t].runCount
  BY <1>1, ToggledType
<1>3. PICK S \in WritesOf({t}) :
        /\ row' = Saved([mem[p] EXCEPT ![t] = k], S)
        /\ asked' = [asked EXCEPT ![t] =
                       IF Alone(p) /\ t \in S THEN job[p].verb ELSE "none"]
  BY DEF CmdToggle, on
<1> HIDE DEF k
<1>4. S \in SUBSET Tasks
  BY <1>1, WritesOfSubset
<1>5. [mem[p] EXCEPT ![t] = k] \in [Tasks -> Task]
  BY <1>1, <1>2 DEF CmdInv, CommandTypes
<1>6. row' \in [Tasks -> Row \cup {NoRow}]
  BY <1>3, <1>4, <1>5, SavedType DEF CmdInv, IInv
<1>7. CmdInv'
  BY <1>3, <1>6, ExitTypes DEF CmdToggle, CmdInv, CommandTypes
<1> QED BY <1>1, <1>2, <1>3, <1>4, <1>7 DEF on

LEMMA RunEndTypes ==
  ASSUME CmdInv, NEW p \in Cmds, NEW outcome \in Outcomes, CmdRunEnd(p, outcome)
  PROVE  /\ CmdInv'
         /\ \E t \in Tasks, k \in Task, S \in SUBSET Tasks :
              /\ cmd[p] = "running" /\ k.enabled = mem[p][t].enabled
              /\ k.runCount = IF outcome = "success" THEN mem[p][t].runCount + 1
                                                     ELSE mem[p][t].runCount
              /\ row' = Saved([mem[p] EXCEPT ![t] = k], S)
              /\ okTotal' = IF outcome = "success"
                            THEN [okTotal EXCEPT ![t] = @ + 1] ELSE okTotal
<1> DEFINE t == job[p].task
           k == Own(p)!Recorded(t, mem[p][t].lastRun, outcome)
<1>1. cmd[p] = "running" /\ t \in Tasks
  BY DEF CmdRunEnd, CmdInv, CommandTypes, Jobs
<1>2. mem[p][t].lastRun \in Time
  BY <1>1 DEF CmdInv, CommandTypes, Task
<1>3. k \in Task /\ k.enabled = mem[p][t].enabled
      /\ k.runCount = IF outcome = "success" THEN mem[p][t].runCount + 1
                                             ELSE mem[p][t].runCount
  BY <1>1, <1>2, OwnRecordedType
<1>4. PICK S \in WritesOf({t}) : row' = Saved([mem[p] EXCEPT ![t] = k], S)
  BY DEF CmdRunEnd
<1> HIDE DEF k
<1>5. S \in SUBSET Tasks
  BY <1>1, WritesOfSubset
<1>6. [mem[p] EXCEPT ![t] = k] \in [Tasks -> Task]
  BY <1>1, <1>3 DEF CmdInv, CommandTypes
<1>7. row' \in [Tasks -> Row \cup {NoRow}]
  BY <1>4, <1>5, <1>6, SavedType DEF CmdInv, IInv
<1>8. okTotal' = (IF outcome = "success" THEN [okTotal EXCEPT ![t] = @ + 1] ELSE okTotal)
      /\ asked' = asked
  BY DEF CmdRunEnd
<1>9. okTotal' \in [Tasks -> Nat] /\ DOMAIN asked' = Tasks
  BY <1>1, <1>8 DEF CmdInv, CommandTypes
<1>10. CmdExit(p)
  BY DEF CmdRunEnd
<1>11. CmdInv'
  BY <1>7, <1>9, <1>10, ExitTypes
<1> QED BY <1>1, <1>3, <1>4, <1>5, <1>8, <1>11

LEMMA BuildTypes ==
  ASSUME CmdInv, NEW p \in Cmds, NEW j \in Jobs, CmdBuild(p, j)
  PROVE  /\ CmdInv'
         /\ \E k \in [Tasks -> Task], S \in WritesOf(OffAtBoot) :
              /\ \A t \in Tasks : k[t].runCount = 0
              /\ mem' = [mem EXCEPT ![p] = k] /\ cmd' = [cmd EXCEPT ![p] = "built"]
              /\ row' = Saved(k, S)
<1> DEFINE k == [t \in Tasks |-> [FreshTask EXCEPT !.enabled = t \notin OffAtBoot]]
<1>1. k \in [Tasks -> Task] /\ \A t \in Tasks : k[t].runCount = 0 /\ k[t].attempt = 0
  BY FreshTaskType DEF Task, FreshTask
<1>2. cmd' = [cmd EXCEPT ![p] = "built"] /\ mem' = [mem EXCEPT ![p] = k]
      /\ job' = [job EXCEPT ![p] = j] /\ UNCHANGED <<okTotal, asked>> /\ CommandStep
  BY DEF CmdBuild
<1> HIDE DEF k
<1>3. mem'[p] = k
  BY <1>2 DEF CmdInv, CommandTypes
<1>4. PICK S \in WritesOf(OffAtBoot) : row' = Saved(k, S)
  BY <1>3 DEF CmdBuild
<1>5. S \in SUBSET Tasks
  BY WritesOfSubset, SchedulerAssumption
<1>6. row' \in [Tasks -> Row \cup {NoRow}]
  BY <1>1, <1>4, <1>5, SavedType DEF CmdInv, IInv
<1>7. IInv'
  BY <1>2, <1>6, CommandKeepsServer DEF CmdInv
<1>8. CommandTypes'
  BY <1>1, <1>2 DEF CmdInv, CommandTypes
<1> QED BY <1>1, <1>2, <1>4, <1>7, <1>8 DEF CmdInv

LEMMA LoadTypes ==
  ASSUME CmdInv, NEW p \in Cmds, CmdLoad(p)
  PROVE  /\ CmdInv' /\ row' = row
         /\ \E k \in [Tasks -> Task], loaded \in BOOLEAN :
              /\ loaded \/ DBMayFail
              /\ \A t \in Tasks :
                   /\ loaded /\ row[t] # NoRow =>
                        k[t].enabled = row[t].enabled /\ k[t].runCount = row[t].runCount
                   /\ ~(loaded /\ row[t] # NoRow) => k[t].runCount = mem[p][t].runCount
              /\ mem' = [mem EXCEPT ![p] = k] /\ cmd' = [cmd EXCEPT ![p] = "loaded"]
<1>1. PICK loaded \in BOOLEAN : /\ loaded \/ DBMayFail
                                /\ mem' = [mem EXCEPT ![p] = Own(p)!Started(loaded)]
  BY DEF CmdLoad
<1> DEFINE k == Own(p)!Started(loaded)
<1>2. /\ k \in [Tasks -> Task]
      /\ \A t \in Tasks :
           /\ k[t].attempt = 0
           /\ loaded /\ row[t] # NoRow =>
                k[t].enabled = row[t].enabled /\ k[t].runCount = row[t].runCount
           /\ ~(loaded /\ row[t] # NoRow) => k[t].runCount = mem[p][t].runCount
  BY OwnStartedType
<1> HIDE DEF k
<1>3. /\ mem' = [mem EXCEPT ![p] = k] /\ cmd' = [cmd EXCEPT ![p] = "loaded"]
      /\ cmd[p] = "built" /\ UNCHANGED <<row, job, started, okTotal, asked>> /\ CommandStep
  BY <1>1 DEF CmdLoad, k
<1>4. IInv'
  BY <1>3, CommandKeepsServer DEF CmdInv, IInv, TypeOK
<1>5. CommandTypes'
  BY <1>2, <1>3 DEF CmdInv, CommandTypes
<1> QED BY <1>1, <1>2, <1>3, <1>4, <1>5 DEF CmdInv

LEMMA RunBeginTypes ==
  ASSUME CmdInv, NEW p \in Cmds, CmdRunBegin(p)
  PROVE  /\ CmdInv' /\ row' = row
         /\ \E k \in [Tasks -> Task] :
              /\ \A t \in Tasks : k[t].enabled = mem[p][t].enabled
                                  /\ k[t].runCount = mem[p][t].runCount
              /\ mem' = [mem EXCEPT ![p] = k] /\ cmd' = [cmd EXCEPT ![p] = "running"]
              /\ cmd[p] = "loaded"
<1> DEFINE t == job[p].task
           k == [mem[p] EXCEPT ![t] = [@ EXCEPT !.running = TRUE, !.lastRun = clock]]
<1>1. cmd[p] = "loaded" /\ t \in Tasks /\ mem[p] \in [Tasks -> Task] /\ clock \in Time
  BY DEF CmdRunBegin, CmdInv, CommandTypes, Jobs, IInv, TypeOK
<1>2. k \in [Tasks -> Task]
      /\ \A u \in Tasks : /\ k[u].enabled = mem[p][u].enabled
                          /\ k[u].runCount = mem[p][u].runCount
                          /\ k[u].attempt = mem[p][u].attempt
  BY <1>1 DEF Task
<1>3. /\ mem' = [mem EXCEPT ![p] = k] /\ cmd' = [cmd EXCEPT ![p] = "running"]
      /\ UNCHANGED <<row, job, started, okTotal, asked>> /\ CommandStep
  BY <1>1 DEF CmdRunBegin, CmdInv, CommandTypes, Task
<1> HIDE DEF k
<1>4. IInv'
  BY <1>3, CommandKeepsServer DEF CmdInv, IInv, TypeOK
<1>5. CommandTypes'
  BY <1>1, <1>2, <1>3 DEF CmdInv, CommandTypes
<1> QED BY <1>1, <1>2, <1>3, <1>4, <1>5 DEF CmdInv

LEMMA ServerTypes == ASSUME CmdInv, ServerStep PROVE CmdInv'
<1>1. IInv'
  BY NextIInv DEF ServerStep, CmdInv
<1>2. okTotal' \in [Tasks -> Nat] /\ UNCHANGED <<cmd, mem, job, asked>>
  BY DEF ServerStep, CmdInv, CommandTypes, cmdVars
<1>3. CommandTypes'
  BY <1>2 DEF CmdInv, CommandTypes
<1> QED BY <1>1, <1>3 DEF CmdInv

LEMMA EndsTypes == ASSUME CmdInv, NEW p \in Cmds, CmdEnds(p) PROVE CmdInv'
BY ExitTypes DEF CmdEnds, CmdInv, CommandTypes, IInv, TypeOK

-----------------------------------------------------------------------------
(* No command and no server counts a run that was not.                     *)

\* No copy of a task, in a process or in the table, counts more than there was.
CountInv ==
  /\ \A t \in Tasks : task[t].runCount <= okTotal[t]
  /\ \A p \in Cmds, t \in Tasks : mem[p][t].runCount <= okTotal[t]
  /\ CountsOnlyRealRuns

\* Saving tasks that count no more than there was makes such rows.
LEMMA SavedCounts ==
  ASSUME CountsOnlyRealRuns, NEW k, NEW S, row' = Saved(k, S),
         \A t \in Tasks : okTotal[t] \in Nat /\ okTotal'[t] \in Nat,
         \A t \in Tasks : okTotal'[t] >= okTotal[t],
         \A t \in Tasks : row[t] # NoRow => row[t].runCount \in Nat,
         \A t \in S : k[t].runCount <= okTotal'[t]
  PROVE  CountsOnlyRealRuns'
<1> SUFFICES ASSUME NEW t \in Tasks, row'[t] # NoRow
             PROVE  row'[t].runCount <= okTotal'[t]
  BY DEF CountsOnlyRealRuns
<1>1. CASE t \in S
  <2>1. row'[t] = RowOf(k[t])
    BY <1>1 DEF Saved
  <2> QED BY <1>1, <2>1, RowOfCounters
<1>2. CASE t \notin S
  <2>1. row'[t] = row[t]
    BY <1>2 DEF Saved
  <2> QED BY <2>1 DEF CountsOnlyRealRuns
<1> QED BY <1>1, <1>2

\* What Start makes of a task and its row.
LEMMA StartedFields ==
  ASSUME IInv, phase = "built", NEW loaded \in BOOLEAN, NEW t \in Tasks
  PROVE  LET k == Started(loaded)[t] IN
         /\ loaded /\ row[t] # NoRow =>
              k.enabled = row[t].enabled /\ k.runCount = row[t].runCount
         /\ ~(loaded /\ row[t] # NoRow) => k.runCount = task[t].runCount
<1> DEFINE m == IF loaded THEN Merged(t) ELSE task[t]
<1>1. task[t] \in Task /\ Merged(t) \in Task /\ (row[t] = NoRow \/ row[t] \in Row)
  BY MergedType DEF IInv, TypeOK
<1>2. /\ m \in Task
      /\ loaded /\ row[t] # NoRow => m.enabled = row[t].enabled /\ m.runCount = row[t].runCount
      /\ ~(loaded /\ row[t] # NoRow) => m.runCount = task[t].runCount
  <2>1. row[t] # NoRow => /\ Merged(t).enabled = row[t].enabled
                          /\ Merged(t).runCount = row[t].runCount
    BY <1>1 DEF Merged, Task, Row
  <2>2. row[t] = NoRow => Merged(t) = task[t]
    BY DEF Merged
  <2> QED BY <1>1, <2>1, <2>2
<1>3. Started(loaded)[t] = WithNextRun(t, m)
  BY DEF Started
<1> HIDE DEF m
<1>4. WithNextRun(t, m).enabled = m.enabled /\ WithNextRun(t, m).runCount = m.runCount
  BY <1>2 DEF WithNextRun, Task
<1> QED BY <1>2, <1>3, <1>4

\* The server counts a run when its handler has returned success.
LEMMA ServerCounts == ASSUME CmdInv, CountInv, ServerStep PROVE CountInv'
<1>1. /\ Next /\ mem' = mem
      /\ okTotal' = [t \in Tasks |->
           IF \E e \in exec[t] : e.pc = "handler" /\ e \notin exec'[t]
                                 /\ task'[t].lastStatus = "success"
           THEN okTotal[t] + 1 ELSE okTotal[t]]
  BY DEF ServerStep, cmdVars
<1>2. \A t \in Tasks : /\ okTotal[t] \in Nat /\ okTotal'[t] \in Nat
                       /\ okTotal'[t] >= okTotal[t]
  BY <1>1 DEF CmdInv, CommandTypes
<1>3. /\ task \in [Tasks -> Task] /\ row \in [Tasks -> Row \cup {NoRow}]
      /\ \A t \in Tasks : task[t].runCount \in Nat
      /\ \A t \in Tasks : row[t] # NoRow => row[t].runCount \in Nat
      /\ \A p \in Cmds, t \in Tasks : mem[p][t].runCount \in Nat
  BY DEF CmdInv, CommandTypes, IInv, TypeOK, Task, Row
<1>4. \A p \in Cmds, t \in Tasks : mem'[p][t].runCount <= okTotal'[t]
  BY <1>1, <1>2, <1>3 DEF CountInv
<1>5. \A t \in Tasks : /\ task[t].runCount <= okTotal'[t]
                       /\ row[t] # NoRow => row[t].runCount <= okTotal'[t]
  BY <1>2, <1>3 DEF CountInv, CountsOnlyRealRuns
<1>6. ASSUME NEW loaded \in BOOLEAN, phase = "built", NEW t \in Tasks
      PROVE  Started(loaded)[t].runCount <= okTotal'[t]
  BY <1>5, <1>6, StartedFields DEF CmdInv
<1> DEFINE TasksHold == \A t \in Tasks : task'[t].runCount <= okTotal'[t]
<1>7. CASE task' = task /\ row' = row
  <2>1. TasksHold /\ CountsOnlyRealRuns'
    BY <1>5, <1>7 DEF CountsOnlyRealRuns
  <2> QED BY <1>4, <2>1 DEF CountInv
<1>8. ASSUME NEW S, MarkRunning(S), row' = row PROVE CountInv'
  <2>1. \A t \in Tasks : task'[t].runCount = task[t].runCount
    BY <1>3, <1>8 DEF MarkRunning, Task
  <2>2. TasksHold /\ CountsOnlyRealRuns'
    BY <1>5, <1>8, <2>1 DEF CountsOnlyRealRuns
  <2> QED BY <1>4, <2>2 DEF CountInv
<1>9. CASE Boot
  <2>1. PICK S \in WritesOf(OffAtBoot) : row' = Saved(task', S)
    BY <1>9 DEF Boot
  <2>2. S \subseteq Tasks
    BY WritesOfSubset, SchedulerAssumption
  <2>3. \A t \in Tasks : task'[t].runCount = 0
    BY <1>9 DEF Boot, FreshTask
  <2>4. TasksHold
    BY <1>2, <2>3
  <2>5. CountsOnlyRealRuns'
    BY <1>2, <1>3, <2>1, <2>2, <2>4, SavedCounts DEF CountInv
  <2> QED BY <1>4, <2>4, <2>5 DEF CountInv
<1>10. CASE Start
  <2>1. PICK loaded \in BOOLEAN, S \in WritesOf(Tasks) :
          phase = "built" /\ task' = Started(loaded) /\ row' = Saved(task', S)
    BY <1>10 DEF Start
  <2>2. S \subseteq Tasks
    BY WritesOfSubset
  <2>3. TasksHold
    BY <1>6, <2>1
  <2>4. CountsOnlyRealRuns'
    BY <1>2, <1>3, <2>1, <2>2, <2>3, SavedCounts DEF CountInv
  <2> QED BY <1>4, <2>3, <2>4 DEF CountInv
<1>11. ASSUME NEW t \in Tasks, NEW outcome \in Outcomes, FinishRun(t, outcome)
       PROVE  CountInv'
  <2>1. PICK e \in exec[t], S \in WritesOf({t}) :
          /\ e.pc = "handler" /\ exec' = [exec EXCEPT ![t] = @ \ {e}]
          /\ task' = [task EXCEPT ![t] = Recorded(t, e.start, outcome)]
          /\ row' = Saved(task', S)
    BY <1>11 DEF FinishRun
  <2> DEFINE k == Recorded(t, e.start, outcome)
  <2>2. k.lastStatus = outcome
        /\ k.runCount = IF outcome = "success" THEN task[t].runCount + 1
                                               ELSE task[t].runCount
    BY <1>3 DEF Recorded, Task
  <2> HIDE DEF k
  <2>3. \A u \in Tasks : task'[u] = IF u = t THEN k ELSE task[u]
    BY <1>3, <2>1 DEF k
  <2>4. e \notin exec'[t]
    BY <2>1 DEF CmdInv, IInv, TypeOK
  <2>5. outcome = "success" => okTotal'[t] = okTotal[t] + 1
    BY <1>1, <2>1, <2>2, <2>3, <2>4
  <2>6. k.runCount <= okTotal'[t]
    BY <1>2, <1>3, <1>5, <2>2, <2>5 DEF CountInv
  <2>7. TasksHold
    BY <1>5, <2>3, <2>6
  <2>8. S \subseteq Tasks
    BY WritesOfSubset
  <2>9. CountsOnlyRealRuns'
    BY <1>2, <1>3, <2>1, <2>7, <2>8, SavedCounts DEF CountInv
  <2> QED BY <1>4, <2>7, <2>9 DEF CountInv
<1>12. CASE TasksJoined \/ TasksGraceExpires
  <2>1. PICK S \in WritesOf(Tasks) : task' = task /\ row' = Saved(task, S)
    BY <1>12 DEF TasksJoined, TasksGraceExpires, SaveAll
  <2>2. S \subseteq Tasks
    BY WritesOfSubset
  <2>3. TasksHold
    BY <1>5, <2>1
  <2>4. CountsOnlyRealRuns'
    BY <1>2, <1>3, <1>5, <2>1, <2>2, SavedCounts DEF CountInv
  <2> QED BY <1>4, <2>3, <2>4 DEF CountInv
<1>13. CASE Exit \/ Crash \/ CrashInStart
  <2>1. \A t \in Tasks : task'[t].runCount = 0
    BY <1>13 DEF Exit, Crash, CrashInStart, ProcessEnds, FreshTask
  <2>2. TasksHold
    BY <1>2, <2>1
  <2>3. CASE row' = row
    BY <1>4, <1>5, <2>2, <2>3 DEF CountInv, CountsOnlyRealRuns
  <2>4. CASE CrashInStart
    <3>1. PICK loaded \in BOOLEAN, S \in SUBSET Tasks :
            phase = "built" /\ row' = Saved(Started(loaded), S)
      BY <2>4 DEF CrashInStart
    <3>2. CountsOnlyRealRuns'
      BY <1>2, <1>3, <1>6, <3>1, SavedCounts DEF CountInv
    <3> QED BY <1>4, <2>2, <3>2 DEF CountInv
  <2> QED BY <1>13, <2>3, <2>4 DEF Exit, Crash
<1>14. CASE RunDue \/ \E t \in Tasks : CatchUpTask(t)
  BY <1>8, <1>14 DEF RunDue, CatchUpTask
<1> QED
  BY <1>1, <1>7, <1>9, <1>10, <1>11, <1>12, <1>13, <1>14 DEF Next, Tick, EnterLoop,
     BeginHandler, StopBegin, LoopExit, LoopJoined, LoopGraceExpires, procVars

\* What a command writes counts no more than there was.
LEMMA CommandCounts ==
  ASSUME CmdInv, CountInv, NEW p \in Cmds,
         \/ \E j \in Jobs : CmdBuild(p, j)
         \/ CmdLoad(p) \/ CmdToggle(p) \/ CmdRunBegin(p)
         \/ \E outcome \in Outcomes : CmdRunEnd(p, outcome)
         \/ CmdEnds(p)
  PROVE  CountInv'
<1>1. /\ task' = task /\ mem \in [Cmds -> [Tasks -> Task]]
      /\ \A t \in Tasks : okTotal[t] \in Nat
      /\ \A t \in Tasks : task[t].runCount \in Nat
      /\ \A t \in Tasks : row[t] # NoRow => row[t].runCount \in Nat
      /\ \A q \in Cmds, t \in Tasks : mem[q][t].runCount \in Nat
      /\ \A t \in Tasks : Idle[t].runCount = 0
  <2>1. task' = task
    BY DEF CmdBuild, CmdLoad, CmdToggle, CmdRunBegin, CmdRunEnd, CmdEnds, CmdExit,
           CommandStep, procVars
  <2>2. mem \in [Cmds -> [Tasks -> Task]] /\ \A t \in Tasks : okTotal[t] \in Nat
    BY DEF CmdInv, CommandTypes
  <2>3. \A q \in Cmds, t \in Tasks : mem[q][t].runCount \in Nat
    BY <2>2 DEF Task
  <2>4. /\ \A t \in Tasks : task[t].runCount \in Nat
        /\ \A t \in Tasks : row[t] # NoRow => row[t].runCount \in Nat
    BY DEF CmdInv, IInv, TypeOK, Task, Row
  <2>5. \A t \in Tasks : Idle[t].runCount = 0
    BY DEF Idle, FreshTask
  <2> QED BY <2>1, <2>2, <2>3, <2>4, <2>5
<1>2. ASSUME NEW k, mem' = [mem EXCEPT ![p] = k],
             \A t \in Tasks : okTotal'[t] \in Nat /\ okTotal'[t] >= okTotal[t],
             \A t \in Tasks : k[t].runCount <= okTotal'[t], CountsOnlyRealRuns'
      PROVE  CountInv'
  <2>1. \A q \in Cmds, t \in Tasks : mem'[q][t].runCount <= okTotal'[t]
    <3> SUFFICES ASSUME NEW q \in Cmds, NEW t \in Tasks
                 PROVE  mem'[q][t].runCount <= okTotal'[t]
      OBVIOUS
    <3>1. CASE q = p
      BY <1>1, <1>2, <3>1
    <3>2. CASE q # p
      <4>1. mem'[q] = mem[q]
        BY <1>1, <1>2, <3>2
      <4> QED BY <1>1, <1>2, <4>1 DEF CountInv
    <3> QED BY <3>1, <3>2
  <2>2. \A t \in Tasks : task'[t].runCount <= okTotal'[t]
    BY <1>1, <1>2 DEF CountInv
  <2> QED BY <1>2, <2>1, <2>2 DEF CountInv
<1>3. ASSUME NEW j \in Jobs, CmdBuild(p, j) PROVE CountInv'
  <2>1. PICK k \in [Tasks -> Task], S \in WritesOf(OffAtBoot) :
          /\ \A t \in Tasks : k[t].runCount = 0
          /\ mem' = [mem EXCEPT ![p] = k] /\ row' = Saved(k, S)
    BY <1>3, BuildTypes
  <2>2. okTotal' = okTotal /\ S \subseteq Tasks
    BY <1>3, WritesOfSubset, SchedulerAssumption DEF CmdBuild
  <2>3. \A t \in Tasks : k[t].runCount <= okTotal'[t] /\ okTotal'[t] >= okTotal[t]
    BY <1>1, <2>1, <2>2
  <2>4. CountsOnlyRealRuns'
    BY <1>1, <2>1, <2>2, <2>3, SavedCounts DEF CountInv
  <2> QED BY <1>1, <1>2, <2>1, <2>2, <2>3, <2>4
<1>4. CASE CmdLoad(p)
  <2>1. PICK k \in [Tasks -> Task], loaded \in BOOLEAN :
          /\ \A t \in Tasks :
               /\ loaded /\ row[t] # NoRow => k[t].runCount = row[t].runCount
               /\ ~(loaded /\ row[t] # NoRow) => k[t].runCount = mem[p][t].runCount
          /\ mem' = [mem EXCEPT ![p] = k]
    BY <1>4, LoadTypes
  <2>2. okTotal' = okTotal /\ row' = row
    BY <1>4 DEF CmdLoad
  <2>3. \A t \in Tasks : k[t].runCount <= okTotal'[t] /\ okTotal'[t] >= okTotal[t]
    BY <1>1, <2>1, <2>2 DEF CountInv, CountsOnlyRealRuns
  <2>4. CountsOnlyRealRuns'
    BY <2>2 DEF CountInv, CountsOnlyRealRuns
  <2> QED BY <1>1, <1>2, <2>1, <2>2, <2>3, <2>4
<1>5. CASE CmdRunBegin(p)
  <2>1. PICK k \in [Tasks -> Task] :
          /\ \A t \in Tasks : k[t].runCount = mem[p][t].runCount
          /\ mem' = [mem EXCEPT ![p] = k]
    BY <1>5, RunBeginTypes
  <2>2. okTotal' = okTotal /\ row' = row
    BY <1>5 DEF CmdRunBegin
  <2>3. \A t \in Tasks : k[t].runCount <= okTotal'[t] /\ okTotal'[t] >= okTotal[t]
    BY <1>1, <2>1, <2>2 DEF CountInv
  <2>4. CountsOnlyRealRuns'
    BY <2>2 DEF CountInv, CountsOnlyRealRuns
  <2> QED BY <1>1, <1>2, <2>1, <2>2, <2>3, <2>4
<1>6. CASE CmdToggle(p)
  <2>1. PICK t \in Tasks, k \in Task, on \in BOOLEAN, S \in SUBSET Tasks :
          /\ t = job[p].task /\ on = (job[p].verb = "enable") /\ S \in WritesOf({t})
          /\ cmd[p] = "loaded" /\ job[p].verb \in {"enable", "disable"}
          /\ k.enabled = on /\ k.runCount = mem[p][t].runCount
          /\ row' = Saved([mem[p] EXCEPT ![t] = k], S)
          /\ asked' = [asked EXCEPT ![t] =
                         IF Alone(p) /\ t \in S THEN job[p].verb ELSE "none"]
    BY <1>6, ToggleTypes
  <2>2. okTotal' = okTotal /\ mem' = [mem EXCEPT ![p] = Idle]
    BY <1>6 DEF CmdToggle, CmdExit
  <2>3. \A u \in Tasks : [mem[p] EXCEPT ![t] = k][u].runCount <= okTotal'[u]
                         /\ okTotal'[u] >= okTotal[u]
    BY <1>1, <2>1, <2>2 DEF CountInv
  <2>4. CountsOnlyRealRuns'
    BY <1>1, <2>1, <2>2, <2>3, SavedCounts DEF CountInv
  <2>5. \A u \in Tasks : Idle[u].runCount <= okTotal'[u] /\ okTotal'[u] >= okTotal[u]
    BY <1>1, <2>2
  <2> QED BY <1>1, <1>2, <2>2, <2>4, <2>5
<1>7. ASSUME NEW outcome \in Outcomes, CmdRunEnd(p, outcome) PROVE CountInv'
  <2>1. PICK t \in Tasks, k \in Task, S \in SUBSET Tasks :
          /\ cmd[p] = "running" /\ k.enabled = mem[p][t].enabled
          /\ k.runCount = IF outcome = "success" THEN mem[p][t].runCount + 1
                                                 ELSE mem[p][t].runCount
          /\ row' = Saved([mem[p] EXCEPT ![t] = k], S)
          /\ okTotal' = IF outcome = "success"
                        THEN [okTotal EXCEPT ![t] = @ + 1] ELSE okTotal
    BY <1>7, RunEndTypes
  <2>2. mem' = [mem EXCEPT ![p] = Idle]
    BY <1>7 DEF CmdRunEnd, CmdExit
  <2>3. /\ \A u \in Tasks : okTotal'[u] \in Nat /\ okTotal'[u] >= okTotal[u]
        /\ outcome = "success" => okTotal'[t] = okTotal[t] + 1
    BY <1>1, <2>1 DEF CmdInv, CommandTypes
  <2>4. k.runCount <= okTotal'[t]
    BY <1>1, <2>1, <2>3 DEF CountInv
  <2>5. \A u \in Tasks : [mem[p] EXCEPT ![t] = k][u].runCount <= okTotal'[u]
    <3> SUFFICES ASSUME NEW u \in Tasks
                 PROVE  [mem[p] EXCEPT ![t] = k][u].runCount <= okTotal'[u]
      OBVIOUS
    <3>1. [mem[p] EXCEPT ![t] = k][u] = IF u = t THEN k ELSE mem[p][u]
      BY <1>1
    <3> QED BY <1>1, <2>3, <2>4, <3>1 DEF CountInv
  <2>6. CountsOnlyRealRuns'
    BY <1>1, <2>1, <2>3, <2>5, SavedCounts DEF CountInv
  <2>7. \A u \in Tasks : Idle[u].runCount <= okTotal'[u]
    BY <1>1, <2>3
  <2> QED BY <1>2, <2>2, <2>3, <2>6, <2>7
<1>8. CASE CmdEnds(p)
  <2>1. okTotal' = okTotal /\ row' = row /\ mem' = [mem EXCEPT ![p] = Idle]
    BY <1>8 DEF CmdEnds, CmdExit
  <2>2. CountsOnlyRealRuns'
    BY <2>1 DEF CountInv, CountsOnlyRealRuns
  <2>3. \A u \in Tasks : Idle[u].runCount <= okTotal'[u] /\ okTotal'[u] >= okTotal[u]
    BY <1>1, <2>1
  <2> QED BY <1>1, <1>2, <2>1, <2>2, <2>3
<1> QED BY <1>3, <1>4, <1>5, <1>6, <1>7, <1>8

LEMMA NextCommandTypes == CmdInv /\ [CmdNext]_allVars => CmdInv'
<1> SUFFICES ASSUME CmdInv, [CmdNext]_allVars PROVE CmdInv'
  OBVIOUS
<1>1. CASE CmdNext
  BY <1>1, ServerTypes, BuildTypes, LoadTypes, ToggleTypes, RunBeginTypes, RunEndTypes,
     EndsTypes DEF CmdNext
<1>2. CASE UNCHANGED allVars
  <2>1. UNCHANGED vars /\ UNCHANGED <<cmd, mem, job, okTotal, asked>>
    BY <1>2 DEF allVars, cmdVars
  <2>2. IInv'
    BY <2>1, NextIInv DEF CmdInv
  <2> QED BY <2>1, <2>2 DEF CmdInv, CommandTypes
<1> QED BY <1>1, <1>2

LEMMA InitCommandTypes == CmdInit => CmdInv
<1> SUFFICES ASSUME CmdInit PROVE CmdInv
  OBVIOUS
<1>1. IInv
  BY InitIInv DEF CmdInit
<1>2. Idle \in [Tasks -> Task] /\ \A t \in Tasks : Idle[t].attempt = 0
  BY FreshTaskType DEF Idle, FreshTask
<1>3. CommandTypes
  BY <1>2 DEF CmdInit, CommandTypes
<1> QED BY <1>1, <1>3 DEF CmdInv

\* However many commands run beside the server, with starts, crashes and lost
\* writes: the row of a task never counts more successful runs than there were,
\* since whoever writes it has read it, and counts each run of its own once.
THEOREM CommandsCountOnce == CmdSpec => []CountsOnlyRealRuns
<1>1. CmdInit => CmdInv /\ CountInv
  <2> SUFFICES ASSUME CmdInit PROVE CountInv
    BY InitCommandTypes
  <2>1. /\ \A t \in Tasks : task[t].runCount = 0 /\ okTotal[t] = 0 /\ row[t] = NoRow
        /\ \A p \in Cmds, t \in Tasks : mem[p][t].runCount = 0
    BY DEF CmdInit, Init, Idle, FreshTask
  <2> QED BY <2>1 DEF CountInv, CountsOnlyRealRuns
<1>2. CmdInv /\ CountInv /\ [CmdNext]_allVars => CmdInv' /\ CountInv'
  <2> SUFFICES ASSUME CmdInv, CountInv, [CmdNext]_allVars PROVE CountInv'
    BY NextCommandTypes
  <2>1. CASE CmdNext
    BY <2>1, ServerCounts, CommandCounts DEF CmdNext
  <2>2. CASE UNCHANGED allVars
    BY <2>2 DEF allVars, vars, procVars, cmdVars, CountInv, CountsOnlyRealRuns
  <2> QED BY <2>1, <2>2
<1>3. CountInv => CountsOnlyRealRuns
  BY DEF CountInv
<1> QED BY <1>1, <1>2, <1>3, PTL DEF CmdSpec

-----------------------------------------------------------------------------
(* A toggle that met nobody lasts.                                          *)

\* The task t is as it was asked to be wherever its flag may be saved from: in
\* the table, in a server that has read it and in every command that has.
SetAsAsked(t) ==
  asked[t] # "none" =>
    /\ row[t] # NoRow /\ row[t].enabled = (asked[t] = "enable")
    /\ phase \notin {"down", "built"} => task[t].enabled = (asked[t] = "enable")
    /\ \A p \in Cmds : cmd[p] \in {"loaded", "running"} =>
                         mem[p][t].enabled = (asked[t] = "enable")

QuietInv == \A t \in Tasks \ OffAtBoot : SetAsAsked(t)

LEMMA SavedAt ==
  ASSUME NEW k, NEW S, row' = Saved(k, S), NEW t \in Tasks
  PROVE  /\ t \in S /\ k[t] \in Task =>
              row'[t] # NoRow /\ row'[t].enabled = k[t].enabled
         /\ t \notin S => row'[t] = row[t]
<1>1. t \in S => row'[t] = RowOf(k[t])
  BY DEF Saved
<1>2. k[t] \in Task => RowOf(k[t]) # NoRow
  BY RowOfType, NoRowAssumption
<1>3. RowOf(k[t]).enabled = k[t].enabled
  BY DEF RowOf
<1>4. t \notin S => row'[t] = row[t]
  BY DEF Saved
<1> QED BY <1>1, <1>2, <1>3, <1>4

LEMMA ServerQuiet ==
  ASSUME DBMayFail = FALSE, CmdInv, ServerStep, NEW t \in Tasks \ OffAtBoot, SetAsAsked(t)
  PROVE  SetAsAsked(t)'
<1> SUFFICES ASSUME asked[t] # "none"
             PROVE  /\ row'[t] # NoRow /\ row'[t].enabled = (asked[t] = "enable")
                    /\ phase' \notin {"down", "built"} =>
                         task'[t].enabled = (asked[t] = "enable")
  BY DEF ServerStep, cmdVars, SetAsAsked
<1> DEFINE on == asked[t] = "enable"
<1>1. Next /\ t \in Tasks
  BY DEF ServerStep
<1>2. /\ row[t] # NoRow /\ row[t].enabled = on
      /\ phase \notin {"down", "built"} => task[t].enabled = on
  BY DEF SetAsAsked
<1> DEFINE Goal == /\ row'[t] # NoRow /\ row'[t].enabled = on
                   /\ phase' \notin {"down", "built"} => task'[t].enabled = on
<1> SUFFICES Goal
  OBVIOUS
<1> HIDE DEF on
<1>3. task \in [Tasks -> Task] /\ task[t] \in Task
  BY DEF CmdInv, IInv, TypeOK
<1>4. ASSUME phase = "built"
      PROVE  Started(TRUE)[t] \in Task /\ Started(TRUE)[t].enabled = on
  BY <1>2, <1>4, StartedFields, StartedType DEF CmdInv
<1>5. CASE row' = row /\ task' = task
           /\ (phase' \in {"down", "built"} \/ phase \notin {"down", "built"})
  BY <1>2, <1>5
<1>6. CASE EnterLoop
  BY <1>2, <1>6 DEF EnterLoop
<1>7. CASE Boot
  <2>1. row' = Saved(task', OffAtBoot) /\ phase' = "built"
    BY <1>7, WritesAll DEF Boot
  <2> QED BY <1>1, <1>2, <2>1, SavedAt
<1>8. CASE Start
  <2>1. phase = "built" /\ task' = Started(TRUE) /\ row' = Saved(task', Tasks)
    BY <1>8, WritesAll DEF Start
  <2> QED BY <1>1, <1>4, <2>1, SavedAt
<1>9. CASE RunDue \/ \E u \in Tasks : CatchUpTask(u)
  <2>1. row' = row /\ phase' = phase
    BY <1>9 DEF RunDue, CatchUpTask
  <2>2. PICK S : MarkRunning(S)
    BY <1>9 DEF RunDue, CatchUpTask
  <2>3. task'[t].enabled = task[t].enabled
    BY <1>1, <1>3, <2>2 DEF MarkRunning, Task
  <2> QED BY <1>2, <2>1, <2>3
<1>10. ASSUME NEW u \in Tasks, NEW outcome \in Outcomes, FinishRun(u, outcome) PROVE Goal
  <2>1. PICK e \in exec[u] :
          /\ task' = [task EXCEPT ![u] = Recorded(u, e.start, outcome)]
          /\ row' = Saved(task', {u}) /\ phase' = phase
    BY <1>10, WritesAll DEF FinishRun
  <2>2. phase \notin {"down", "built"}
    BY <2>1 DEF CmdInv, IInv, IdleUntilStarted
  <2>3. Recorded(u, e.start, outcome).enabled = task[u].enabled
    BY <1>3 DEF Recorded, Task
  <2>4. Recorded(u, e.start, outcome) \in Task
    BY <2>1, RecordedType DEF CmdInv, IInv, TypeOK, Exec
  <2>5. task'[t].enabled = on /\ task'[t] \in Task
    BY <1>2, <1>3, <2>1, <2>2, <2>3, <2>4
  <2> QED BY <1>1, <1>2, <2>1, <2>5, SavedAt
<1>11. CASE TasksJoined \/ TasksGraceExpires
  <2>1. /\ phase = "stopTasks" /\ task' = task /\ row' = Saved(task, Tasks)
    BY <1>11, WritesAll DEF TasksJoined, TasksGraceExpires, SaveAll
  <2> QED BY <1>1, <1>2, <1>3, <2>1, SavedAt
<1>12. CASE Exit \/ Crash
  BY <1>2, <1>12 DEF Exit, Crash, ProcessEnds
<1>13. CASE CrashInStart
  <2>1. PICK S \in SUBSET Tasks : phase = "built" /\ row' = Saved(Started(TRUE), S)
    BY <1>13 DEF CrashInStart
  <2>2. phase' = "down"
    BY <1>13 DEF CrashInStart, ProcessEnds
  <2> QED BY <1>1, <1>2, <1>4, <2>1, <2>2, SavedAt
<1>14. CASE Tick \/ StopBegin \/ LoopExit \/ LoopJoined \/ LoopGraceExpires
            \/ \E u \in Tasks : BeginHandler(u)
  <2>1. row' = row /\ task' = task
        /\ (phase' \in {"down", "built"} \/ phase \notin {"down", "built"})
    BY <1>14 DEF Tick, StopBegin, LoopExit, LoopJoined, LoopGraceExpires, BeginHandler, procVars
  <2> QED BY <1>5, <2>1
<1> QED
  BY <1>1, <1>6, <1>7, <1>8, <1>9, <1>10, <1>11, <1>12, <1>13, <1>14 DEF Next

\* A command that keeps its process writes nothing of t but what it read of it.
LEMMA CommandQuiet ==
  ASSUME DBMayFail = FALSE, CmdInv, NEW t \in Tasks \ OffAtBoot, SetAsAsked(t), NEW p \in Cmds,
         \/ \E j \in Jobs : CmdBuild(p, j)
         \/ CmdLoad(p) \/ CmdRunBegin(p)
         \/ \E outcome \in Outcomes : CmdRunEnd(p, outcome)
         \/ CmdEnds(p)
  PROVE  SetAsAsked(t)'
<1>1. /\ UNCHANGED <<phase, task, asked>>
      /\ cmd \in [Cmds -> {"none", "built", "loaded", "running"}]
      /\ mem \in [Cmds -> [Tasks -> Task]]
      /\ t \in Tasks
  <2>1. UNCHANGED <<phase, task, asked>>
    BY DEF CmdBuild, CmdLoad, CmdRunBegin, CmdRunEnd, CmdEnds, CmdExit, CommandStep, procVars
  <2> QED BY <2>1 DEF CmdInv, CommandTypes
<1> SUFFICES ASSUME asked[t] # "none" PROVE SetAsAsked(t)'
  BY <1>1 DEF SetAsAsked
<1> DEFINE on == asked[t] = "enable"
<1>2. /\ row[t] # NoRow /\ row[t].enabled = on
      /\ phase \notin {"down", "built"} => task[t].enabled = on
      /\ \A q \in Cmds : cmd[q] \in {"loaded", "running"} => mem[q][t].enabled = on
  BY DEF SetAsAsked
<1>3. ASSUME row'[t] # NoRow, row'[t].enabled = on, NEW k, NEW c,
             mem' = [mem EXCEPT ![p] = k], cmd' = [cmd EXCEPT ![p] = c],
             c \in {"loaded", "running"} => k[t].enabled = on
      PROVE  SetAsAsked(t)'
  <2>1. \A q \in Cmds : cmd'[q] \in {"loaded", "running"} => mem'[q][t].enabled = on
    <3> SUFFICES ASSUME NEW q \in Cmds, cmd'[q] \in {"loaded", "running"}
                 PROVE  mem'[q][t].enabled = on
      OBVIOUS
    <3>1. CASE q = p
      BY <1>1, <1>3, <3>1
    <3>2. CASE q # p
      <4>1. mem'[q] = mem[q] /\ cmd'[q] = cmd[q]
        BY <1>1, <1>3, <3>2
      <4> QED BY <1>2, <4>1
    <3> QED BY <3>1, <3>2
  <2> QED BY <1>1, <1>2, <1>3, <2>1 DEF SetAsAsked
<1> HIDE DEF on
<1>4. ASSUME NEW j \in Jobs, CmdBuild(p, j) PROVE SetAsAsked(t)'
  <2>1. PICK k \in [Tasks -> Task], S \in WritesOf(OffAtBoot) :
          /\ \A u \in Tasks : k[u].runCount = 0
          /\ mem' = [mem EXCEPT ![p] = k] /\ cmd' = [cmd EXCEPT ![p] = "built"]
          /\ row' = Saved(k, S)
    BY <1>4, BuildTypes
  <2>2. t \notin S
    BY WritesAll
  <2>3. row'[t] = row[t]
    BY <1>1, <2>1, <2>2, SavedAt
  <2> QED BY <1>2, <1>3, <2>1, <2>3
<1>5. CASE CmdLoad(p)
  <2>1. PICK k \in [Tasks -> Task], loaded \in BOOLEAN :
          /\ loaded \/ DBMayFail
          /\ \A u \in Tasks :
               /\ loaded /\ row[u] # NoRow =>
                    k[u].enabled = row[u].enabled /\ k[u].runCount = row[u].runCount
               /\ ~(loaded /\ row[u] # NoRow) => k[u].runCount = mem[p][u].runCount
          /\ mem' = [mem EXCEPT ![p] = k] /\ cmd' = [cmd EXCEPT ![p] = "loaded"]
    BY <1>5, LoadTypes
  <2>2. k[t].enabled = on
    BY <1>1, <1>2, <2>1
  <2>3. row' = row
    BY <1>5, LoadTypes
  <2> QED BY <1>2, <1>3, <2>1, <2>2, <2>3
<1>6. CASE CmdRunBegin(p)
  <2>1. PICK k \in [Tasks -> Task] :
          /\ \A u \in Tasks : k[u].enabled = mem[p][u].enabled
                              /\ k[u].runCount = mem[p][u].runCount
          /\ mem' = [mem EXCEPT ![p] = k] /\ cmd' = [cmd EXCEPT ![p] = "running"]
          /\ cmd[p] = "loaded"
    BY <1>6, RunBeginTypes
  <2>2. k[t].enabled = on
    BY <1>1, <1>2, <2>1
  <2>3. row' = row
    BY <1>6, RunBeginTypes
  <2> QED BY <1>2, <1>3, <2>1, <2>2, <2>3
<1>7. ASSUME NEW outcome \in Outcomes, CmdRunEnd(p, outcome) PROVE SetAsAsked(t)'
  <2>1. PICK u \in Tasks, k \in Task, S \in SUBSET Tasks :
          /\ cmd[p] = "running" /\ k.enabled = mem[p][u].enabled
          /\ k.runCount = IF outcome = "success" THEN mem[p][u].runCount + 1
                                                 ELSE mem[p][u].runCount
          /\ row' = Saved([mem[p] EXCEPT ![u] = k], S)
          /\ okTotal' = IF outcome = "success"
                        THEN [okTotal EXCEPT ![u] = @ + 1] ELSE okTotal
    BY <1>7, RunEndTypes
  <2>2. mem' = [mem EXCEPT ![p] = Idle] /\ cmd' = [cmd EXCEPT ![p] = "none"]
    BY <1>7 DEF CmdRunEnd, CmdExit
  <2> DEFINE m == [mem[p] EXCEPT ![u] = k]
  <2>3. m[t] \in Task /\ m[t].enabled = on
    BY <1>1, <1>2, <2>1
  <2> HIDE DEF m
  <2>4. row' = Saved(m, S)
    BY <2>1 DEF m
  <2>5. row'[t] # NoRow /\ row'[t].enabled = on
    BY <1>1, <1>2, <2>3, <2>4, SavedAt
  <2> QED BY <1>3, <2>2, <2>5
<1>8. CASE CmdEnds(p)
  <2>1. mem' = [mem EXCEPT ![p] = Idle] /\ cmd' = [cmd EXCEPT ![p] = "none"] /\ row' = row
    BY <1>8 DEF CmdEnds, CmdExit
  <2> QED BY <1>2, <1>3, <2>1
<1> QED BY <1>4, <1>5, <1>6, <1>7, <1>8

\* A toggle: of another task it changes nothing; of its own it is recorded as
\* quiet only if no process holds an older copy.
LEMMA ToggleQuiet ==
  ASSUME CmdInv, NEW t \in Tasks \ OffAtBoot, SetAsAsked(t), NEW p \in Cmds, CmdToggle(p)
  PROVE  SetAsAsked(t)'
<1>1. PICK u \in Tasks, k \in Task, on \in BOOLEAN, S \in SUBSET Tasks :
        /\ u = job[p].task /\ on = (job[p].verb = "enable") /\ S \in WritesOf({u})
        /\ cmd[p] = "loaded" /\ job[p].verb \in {"enable", "disable"}
        /\ k.enabled = on /\ k.runCount = mem[p][u].runCount
        /\ row' = Saved([mem[p] EXCEPT ![u] = k], S)
        /\ asked' = [asked EXCEPT ![u] =
                       IF Alone(p) /\ u \in S THEN job[p].verb ELSE "none"]
  BY ToggleTypes
<1>2. UNCHANGED <<phase, task>> /\ mem' = [mem EXCEPT ![p] = Idle]
      /\ cmd' = [cmd EXCEPT ![p] = "none"]
  BY DEF CmdToggle, CmdExit, CommandStep, procVars
<1>3. /\ cmd \in [Cmds -> {"none", "built", "loaded", "running"}]
      /\ mem \in [Cmds -> [Tasks -> Task]] /\ DOMAIN asked = Tasks /\ t \in Tasks
  BY DEF CmdInv, CommandTypes
<1>4. \A q \in Cmds : cmd'[q] # "none" => q # p /\ cmd'[q] = cmd[q] /\ mem'[q] = mem[q]
  BY <1>2, <1>3
<1> DEFINE m == [mem[p] EXCEPT ![u] = k]
<1>5. m[u] = k
  BY <1>3
<1> HIDE DEF m
<1>6. row' = Saved(m, S)
  BY <1>1 DEF m
<1>7. CASE t # u
  <2>1. asked'[t] = asked[t]
    BY <1>1, <1>3, <1>7
  <2>2. t \notin S
    BY <1>1, <1>7, WritesOfSubset
  <2>3. row'[t] = row[t]
    BY <1>3, <1>6, <2>2, SavedAt
  <2> QED BY <1>2, <1>4, <2>1, <2>3 DEF SetAsAsked
<1>8. CASE t = u
  <2>1. asked'[t] = IF Alone(p) /\ u \in S THEN job[p].verb ELSE "none"
    BY <1>1, <1>3, <1>8
  <2>2. CASE ~(Alone(p) /\ u \in S)
    <3>1. asked'[t] = "none"
      BY <2>1, <2>2
    <3> QED BY <3>1 DEF SetAsAsked
  <2>3. CASE Alone(p) /\ u \in S
    <3>1. asked'[t] = job[p].verb
      BY <2>1, <2>3
    <3>2. row'[t] # NoRow /\ row'[t].enabled = on
      BY <1>1, <1>5, <1>6, <1>8, <2>3, SavedAt
    <3>3. phase' = "down" /\ \A q \in Cmds : cmd'[q] = "none"
      BY <1>2, <1>4, <2>3 DEF Alone
    <3>4. on = (asked'[t] = "enable")
      BY <1>1, <3>1
    <3> QED BY <3>2, <3>3, <3>4 DEF SetAsAsked
  <2> QED BY <2>2, <2>3
<1> QED BY <1>7, <1>8

\* With a database that answers, and however many servers and commands follow
\* one another or overlap: a task that was toggled while nothing else ran stays
\* as it was asked to be until the next toggle.  (A load that fails leaves a
\* process with fresh tasks, which it then saves.)
THEOREM QuietTogglesStick ==
  ASSUME DBMayFail = FALSE PROVE CmdSpec => []QuietToggleSticks
<1>1. CmdInit => CmdInv /\ QuietInv
  BY InitCommandTypes DEF CmdInit, QuietInv, SetAsAsked
<1>2. CmdInv /\ QuietInv /\ [CmdNext]_allVars => CmdInv' /\ QuietInv'
  <2> SUFFICES ASSUME CmdInv, QuietInv, [CmdNext]_allVars,
                      NEW t \in Tasks \ OffAtBoot
               PROVE  SetAsAsked(t)'
    BY NextCommandTypes DEF QuietInv
  <2>1. SetAsAsked(t)
    BY DEF QuietInv
  <2>2. CASE CmdNext
    BY <2>1, <2>2, ServerQuiet, CommandQuiet, ToggleQuiet DEF CmdNext
  <2>3. CASE UNCHANGED allVars
    BY <2>1, <2>3 DEF allVars, vars, procVars, cmdVars, SetAsAsked
  <2> QED BY <2>2, <2>3
<1>3. QuietInv => QuietToggleSticks
  BY DEF QuietInv, SetAsAsked, QuietToggleSticks
<1> QED BY <1>1, <1>2, <1>3, PTL DEF CmdSpec
=============================================================================
