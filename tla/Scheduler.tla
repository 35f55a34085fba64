----------------------------- MODULE Scheduler -----------------------------
(***************************************************************************)
(* The task scheduler of the server process (src/scheduler/scheduler.go),  *)
(* its rows in the table server_scheduler_state (src/db/scheduler.go), and *)
(* the process that hosts them: main.go builds the scheduler, starts it,   *)
(* stops it on a signal and exits; at any moment the process may also die. *)
(*                                                                         *)
(* One step is one critical section of Scheduler.mu, one goroutine hop, or *)
(* one expiry of a shutdown timer.  Time is counted in units of five       *)
(* minutes (the default retry delay); 0 is Go's zero time.Time.            *)
(***************************************************************************)
EXTENDS Integers, FiniteSets

CONSTANTS
  Tasks,               \* ids of the registered tasks
  ScheduleNext(_, _),  \* Schedule.Next: first activation after a time; 0: never
  RetryOnFail,         \* the tasks registered with RetryOnFail
  MaxRetries,          \* Task.MaxRetries, 0 for the package default
  RetryDelay,          \* Task.RetryDelay, 0 for the package default
  Backoff,             \* the tasks registered with Backoff
  OffAtBoot,           \* the tasks RegisterBuiltins disables (backup_hourly)
  CatchUpWindow,       \* Config.CatchUpWindow
  DBMayFail,           \* may a database call fail?
  NoRow,               \* a task with no row in the table
  MaxTime,             \* bound: the clock stops here
  MaxBoots             \* bound: number of starts of the server process

Time == 0 .. MaxTime

ASSUME SchedulerAssumption ==
  /\ OffAtBoot \subseteq Tasks
  /\ MaxRetries \in [Tasks -> Nat]
  /\ RetryDelay \in [Tasks -> Nat]
  /\ CatchUpWindow \in Nat
  /\ DBMayFail \in BOOLEAN
  /\ MaxTime \in Nat \ {0}
  /\ MaxBoots \in Nat

\* The contract of Schedule.Next that the scheduler relies on.
ASSUME ScheduleAssumption ==
  \A t \in Tasks, a \in Time :
    /\ ScheduleNext(t, a) \in Nat
    /\ ScheduleNext(t, a) = 0 \/ ScheduleNext(t, a) > a

Outcomes == {"success", "failed", "skipped"}
Statuses == Outcomes \cup {"pending"}

\* The phases of main.go: no process; scheduler built and tasks registered;
\* Start running missed tasks; serving; Stop waiting for the loop; Stop
\* waiting for the handlers; Stop returned, process about to exit.
Phases == {"down", "built", "catchup", "up", "stopLoop", "stopTasks", "stopped"}

VARIABLES
  clock,    \* time.Now
  boots,    \* number of times the server process was started
  phase,    \* where main.go is
  loop,     \* the loop goroutine: "none", "running", "exited"
  task,     \* the Task structs of the process
  row,      \* the rows of server_scheduler_state
  exec,     \* per task, its calls of execute in progress
  catchUp,  \* the missed tasks that Start still has to run
  \* History, read by the properties only.
  forced,       \* a shutdown timer expired during this Stop
  unsaved,      \* tasks whose last write to the table failed
  interrupted,  \* tasks whose last run was cut off by the end of a process
  lastOk,       \* start of the last run of each task that succeeded
  retries       \* retries taken since the task was last put on its schedule

procVars == <<phase, loop, task, exec, catchUp>>
history  == <<forced, unsaved, interrupted, lastOk, retries>>
vars     == <<clock, boots, procVars, row, history>>

Task == [enabled : BOOLEAN, running : BOOLEAN, lastRun : Time, nextRun : Nat,
         lastStatus : Statuses, runCount : Nat, failCount : Nat, attempt : Nat]
Row  == [enabled : BOOLEAN, lastRun : Time, nextRun : Nat,
         lastStatus : Statuses, runCount : Nat, failCount : Nat]
Exec == [pc : {"marked", "handler"}, start : Time]

ASSUME NoRowAssumption == NoRow \notin Row

-----------------------------------------------------------------------------
\* The Task struct as Register leaves it.
FreshTask ==
  [enabled |-> TRUE, running |-> FALSE, lastRun |-> 0, nextRun |-> 0,
   lastStatus |-> "pending", runCount |-> 0, failCount |-> 0, attempt |-> 0]

\* What saveTaskLocked writes: everything but running and attempt.
RowOf(k) ==
  [enabled |-> k.enabled, lastRun |-> k.lastRun, nextRun |-> k.nextRun,
   lastStatus |-> k.lastStatus, runCount |-> k.runCount,
   failCount |-> k.failCount]

\* Mutant: tasks are saved as they were before the step.
SavedTooEarly(mem, S) == [t \in Tasks |-> IF t \in S THEN RowOf(task[t]) ELSE row[t]]

\* The table after the tasks in S were saved from mem.
Saved(mem, S) == [t \in Tasks |-> IF t \in S THEN RowOf(mem[t]) ELSE row[t]]

\* The sets of writes, out of those attempted on S, that may take effect.
WritesOf(S) == IF DBMayFail THEN SUBSET S ELSE {S}

\* Mutant: the persisted success counter is not loaded.
MergedWithoutCounter(t) ==
  IF row[t] = NoRow
  THEN task[t]
  ELSE [task[t] EXCEPT !.enabled    = row[t].enabled,
                       !.lastRun    = row[t].lastRun,
                       !.lastStatus = row[t].lastStatus,
                       !.failCount  = row[t].failCount,
                       !.nextRun    = IF row[t].nextRun = 0
                                      THEN @ ELSE row[t].nextRun]

\* Mutant: the persisted enabled flag is not loaded.
MergedWithoutEnabled(t) ==
  IF row[t] = NoRow
  THEN task[t]
  ELSE [task[t] EXCEPT !.lastRun    = row[t].lastRun,
                       !.lastStatus = row[t].lastStatus,
                       !.runCount   = row[t].runCount,
                       !.failCount  = row[t].failCount,
                       !.nextRun    = IF row[t].nextRun = 0
                                      THEN @ ELSE row[t].nextRun]

\* loadState on one task: the row, if there is one, replaces the persisted
\* fields; a zero next_run leaves the field alone.
Merged(t) ==
  IF row[t] = NoRow
  THEN task[t]
  ELSE [task[t] EXCEPT !.enabled    = row[t].enabled,
                       !.lastRun    = row[t].lastRun,
                       !.lastStatus = row[t].lastStatus,
                       !.runCount   = row[t].runCount,
                       !.failCount  = row[t].failCount,
                       !.nextRun    = IF row[t].nextRun = 0
                                      THEN @ ELSE row[t].nextRun]

\* Start gives a task without a next run one, from its last run or from now.
WithNextRun(t, k) ==
  IF k.nextRun = 0
  THEN [k EXCEPT !.nextRun =
          ScheduleNext(t, IF k.lastRun = 0 THEN clock ELSE k.lastRun)]
  ELSE k

\* shouldCatchUp.
ShouldCatchUp(t, k) ==
  LET missed == ScheduleNext(t, k.lastRun)
  IN  /\ k.enabled /\ k.lastRun # 0
      /\ missed # 0 /\ missed < clock
      /\ clock - missed <= CatchUpWindow

\* Mutant: runDue does not look at the running flag.
LaunchableAgain(t) ==
  task[t].enabled /\ task[t].nextRun # 0 /\ clock >= task[t].nextRun

\* The condition under which runDue launches a task.
Launchable(t) ==
  /\ task[t].enabled /\ ~task[t].running
  /\ task[t].nextRun # 0 /\ clock >= task[t].nextRun

RetriesAllowed(t) == IF MaxRetries[t] = 0 THEN 3 ELSE MaxRetries[t]

\* Arithmetic the provers do not know: 1 << attempt is a natural number.
ASSUME ShiftAssumption ==
  \A t \in Tasks : \A n \in 0 .. RetriesAllowed(t) : 2 ^ n \in Nat

\* Mutant: one retry too many.
RetriesOnceMore(t) == t \in RetryOnFail /\ task[t].attempt <= RetriesAllowed(t)

\* scheduleRetryLocked: does a failure of t lead to a retry, and after how long?
Retries(t) == t \in RetryOnFail /\ task[t].attempt < RetriesAllowed(t)

RetryPause(t) ==
  (IF RetryDelay[t] = 0 THEN 1 ELSE RetryDelay[t])
    * (IF t \in Backoff THEN 2 ^ task[t].attempt ELSE 1)

\* Mutant: the attempt counter goes down.
RecordedCountingDown(t, start, outcome) ==
  LET again == outcome = "failed" /\ Retries(t)
  IN  [task[t] EXCEPT
         !.running = FALSE, !.lastRun = start, !.lastStatus = outcome,
         !.runCount  = IF outcome = "success" THEN @ + 1 ELSE @,
         !.failCount = IF outcome = "failed" THEN @ + 1 ELSE @,
         !.attempt   = IF again THEN @ - 1 ELSE 0,
         !.nextRun   = ScheduleNext(t, start)]

\* Mutant: a finished task is not put back on its schedule.
RecordedNotRescheduled(t, start, outcome) ==
  [task[t] EXCEPT
     !.running = FALSE, !.lastRun = start, !.lastStatus = outcome,
     !.runCount  = IF outcome = "success" THEN @ + 1 ELSE @,
     !.failCount = IF outcome = "failed" THEN @ + 1 ELSE @]

\* Mutant: a skipped run is counted like a successful one.
RecordedCountingSkips(t, start, outcome) ==
  LET again == outcome = "failed" /\ Retries(t)
  IN  [task[t] EXCEPT
         !.running = FALSE, !.lastRun = start, !.lastStatus = outcome,
         !.runCount  = IF outcome # "failed" THEN @ + 1 ELSE @,
         !.failCount = IF outcome = "failed" THEN @ + 1 ELSE @,
         !.attempt   = IF again THEN @ + 1 ELSE 0,
         !.nextRun   = IF again THEN start + RetryPause(t)
                                ELSE ScheduleNext(t, start)]

\* The Task struct after execute recorded the outcome of a run.
Recorded(t, start, outcome) ==
  LET again == outcome = "failed" /\ Retries(t)
  IN  [task[t] EXCEPT
         !.running    = FALSE,
         !.lastRun    = start,
         !.lastStatus = outcome,
         !.runCount   = IF outcome = "success" THEN @ + 1 ELSE @,
         !.failCount  = IF outcome = "failed" THEN @ + 1 ELSE @,
         !.attempt    = IF again THEN @ + 1 ELSE 0,
         !.nextRun    = IF again THEN start + RetryPause(t)
                                 ELSE ScheduleNext(t, start)]

Busy == {t \in Tasks : exec[t] # {}}

-----------------------------------------------------------------------------
Init ==
  /\ clock = 1 /\ boots = 0
  /\ phase = "down" /\ loop = "none"
  /\ task = [t \in Tasks |-> FreshTask]
  /\ row = [t \in Tasks |-> NoRow]
  /\ exec = [t \in Tasks |-> {}]
  /\ catchUp = {}
  /\ forced = FALSE /\ unsaved = {} /\ interrupted = {}
  /\ lastOk = [t \in Tasks |-> 0]
  /\ retries = [t \in Tasks |-> 0]

\* Time passes, whatever the process is doing.
Tick ==
  /\ clock < MaxTime
  /\ clock' = clock + 1
  /\ UNCHANGED <<boots, procVars, row, history>>

\* buildScheduler: Register every task, then SetEnabled(id, false), which also
\* saves, for the tasks that are off by default.
Boot ==
  /\ phase = "down" /\ boots < MaxBoots
  /\ boots' = boots + 1
  /\ phase' = "built"
  /\ task' = [t \in Tasks |-> [FreshTask EXCEPT !.enabled = t \notin OffAtBoot]]
  /\ \E writes \in WritesOf(OffAtBoot) : row' = Saved(task', writes)
  /\ UNCHANGED <<clock, loop, exec, catchUp, history>>

\* The tasks as Start's locked section leaves them; loaded says whether
\* LoadSchedulerStates returned rows or an error, which is only logged.
Started(loaded) ==
  [t \in Tasks |-> WithNextRun(t, IF loaded THEN Merged(t) ELSE task[t])]

\* The locked section of Start: load, plan, pick the missed tasks, save all.
Start ==
  /\ phase = "built"
  /\ phase' = "catchup"
  /\ \E loaded \in BOOLEAN, writes \in WritesOf(Tasks) :
       /\ loaded \/ DBMayFail
       /\ task' = Started(loaded)
       /\ row' = Saved(task', writes)
       /\ unsaved' = Tasks \ writes
  /\ catchUp' = {t \in Tasks : ShouldCatchUp(t, task'[t])}
  /\ UNCHANGED <<clock, boots, loop, exec, forced, interrupted, lastOk, retries>>

\* Mutant: a task is rescheduled and saved when it is launched.
MarkRunningRescheduled(S) ==
  /\ task' = [t \in Tasks |->
                IF t \in S THEN [task[t] EXCEPT !.running = TRUE,
                                   !.nextRun = ScheduleNext(t, clock)]
                           ELSE task[t]]
  /\ exec' = [t \in Tasks |->
                IF t \in S THEN exec[t] \cup {[pc |-> "marked", start |-> 0]}
                           ELSE exec[t]]
  /\ interrupted' = interrupted \ S

\* The first half of execute: the tasks in S are marked running.
MarkRunning(S) ==
  /\ task' = [t \in Tasks |->
                IF t \in S THEN [task[t] EXCEPT !.running = TRUE] ELSE task[t]]
  /\ exec' = [t \in Tasks |->
                IF t \in S THEN exec[t] \cup {[pc |-> "marked", start |-> 0]}
                           ELSE exec[t]]
  /\ interrupted' = interrupted \ S

\* Start runs the missed tasks one after the other, by original next run.
CatchUpTask(t) ==
  /\ phase = "catchup" /\ Busy = {}
  /\ t \in catchUp
  /\ \A u \in catchUp : task[t].nextRun <= task[u].nextRun
  /\ ~task[t].running
  /\ catchUp' = catchUp \ {t}
  /\ MarkRunning({t})
  /\ UNCHANGED <<clock, boots, phase, loop, row, forced, unsaved, lastOk, retries>>

\* Start returns; go s.loop(ctx).
EnterLoop ==
  /\ phase = "catchup" /\ Busy = {} /\ catchUp = {}
  /\ phase' = "up" /\ loop' = "running"
  /\ UNCHANGED <<clock, boots, task, exec, catchUp, row, history>>

\* Mutant: the loop runs one batch at a time.
RunDueSerially ==
  LET due == {t \in Tasks : Launchable(t)}
  IN  /\ loop = "running" /\ due # {} /\ Busy = {}
      /\ MarkRunning(due)
      /\ UNCHANGED <<clock, boots, phase, loop, catchUp, row, forced, unsaved,
                     lastOk, retries>>

\* The loop's select takes a tick: runDue launches every task that is due.
\* While Stop has closed s.stop but the loop has not seen it, both channels are
\* ready and select may still take the tick.
RunDue ==
  LET due == {t \in Tasks : Launchable(t)}
  IN  /\ loop = "running" /\ due # {}
      /\ MarkRunning(due)
      /\ UNCHANGED <<clock, boots, phase, loop, catchUp, row, forced, unsaved,
                     lastOk, retries>>

\* execute takes the start time and calls the handler.
BeginHandler(t) ==
  \E e \in exec[t] :
    /\ e.pc = "marked"
    /\ exec' = [exec EXCEPT
                  ![t] = (@ \ {e}) \cup {[pc |-> "handler", start |-> clock]}]
    /\ UNCHANGED <<clock, boots, phase, loop, task, catchUp, row, history>>

\* The handler returns; the second half of execute records the outcome and
\* saves the task.
FinishRun(t, outcome) ==
  \E e \in exec[t], writes \in WritesOf({t}) :
    /\ e.pc = "handler"
    /\ exec' = [exec EXCEPT ![t] = @ \ {e}]
    /\ task' = [task EXCEPT ![t] = Recorded(t, e.start, outcome)]
    /\ row' = Saved(task', writes)
    /\ unsaved' = (unsaved \cup {t}) \ writes
    /\ lastOk' = IF outcome = "success"
                 THEN [lastOk EXCEPT ![t] = e.start] ELSE lastOk
    /\ retries' = [retries EXCEPT
                     ![t] = IF outcome = "failed" /\ Retries(t) THEN @ + 1 ELSE 0]
    /\ UNCHANGED <<clock, boots, phase, loop, catchUp, forced, interrupted>>

\* Stop, first section: running = false, close(s.stop).
StopBegin ==
  /\ phase = "up"
  /\ phase' = "stopLoop"
  /\ UNCHANGED <<clock, boots, loop, task, exec, catchUp, row, history>>

\* The loop's select takes s.stop.
LoopExit ==
  /\ phase \in {"stopLoop", "stopTasks", "stopped"} /\ loop = "running"
  /\ loop' = "exited"
  /\ UNCHANGED <<clock, boots, phase, task, exec, catchUp, row, history>>

\* Mutant: Stop does not wait for the loop goroutine.
LoopNotJoined ==
  /\ phase = "stopLoop"
  /\ phase' = "stopTasks"
  /\ UNCHANGED <<clock, boots, loop, task, exec, catchUp, row, history>>

\* Stop waits for the loop to exit, at most for the grace period.
LoopJoined ==
  /\ phase = "stopLoop" /\ loop = "exited"
  /\ phase' = "stopTasks"
  /\ UNCHANGED <<clock, boots, loop, task, exec, catchUp, row, history>>

LoopGraceExpires ==
  /\ phase = "stopLoop" /\ loop = "running"
  /\ phase' = "stopTasks" /\ forced' = TRUE
  /\ UNCHANGED <<clock, boots, loop, task, exec, catchUp, row,
                 unsaved, interrupted, lastOk, retries>>

\* The end of Stop: every task is saved once more.
SaveAll ==
  /\ phase' = "stopped"
  /\ \E writes \in WritesOf(Tasks) :
       /\ row' = Saved(task, writes)
       /\ unsaved' = Tasks \ writes
  /\ UNCHANGED <<clock, boots, loop, task, exec, catchUp,
                 interrupted, lastOk, retries>>

\* Stop waits for the handlers (s.wg), at most for another grace period.
TasksJoined ==
  /\ phase = "stopTasks" /\ Busy = {}
  /\ SaveAll /\ UNCHANGED forced

\* Mutant: Stop waits for the handlers without a limit.
TasksGraceNever == phase = "stopTasks" /\ Busy = {} /\ SaveAll /\ UNCHANGED forced

TasksGraceExpires ==
  /\ phase = "stopTasks" /\ Busy # {}
  /\ SaveAll /\ forced' = TRUE

\* The end of the process: what it held in memory is gone.
ProcessEnds ==
  /\ phase' = "down" /\ loop' = "none"
  /\ task' = [t \in Tasks |-> FreshTask]
  /\ exec' = [t \in Tasks |-> {}]
  /\ catchUp' = {}
  /\ forced' = FALSE /\ unsaved' = {}
  /\ interrupted' = interrupted \cup Busy
  /\ UNCHANGED <<clock, boots, lastOk, retries>>

\* main.go calls os.Exit(0) once Stop has returned.
Exit == phase = "stopped" /\ ProcessEnds /\ UNCHANGED row

\* The process is killed, or main.go calls os.Exit(69) on a listener error.
Crash == phase # "down" /\ ProcessEnds /\ UNCHANGED row

\* The process dies while Start is saving: some rows were written.
CrashInStart ==
  /\ phase = "built"
  /\ \E loaded \in BOOLEAN, writes \in SUBSET Tasks :
       /\ loaded \/ DBMayFail
       /\ row' = Saved(Started(loaded), writes)
  /\ ProcessEnds

Next ==
  \/ Tick \/ Boot \/ Start \/ EnterLoop \/ RunDue
  \/ \E t \in Tasks : CatchUpTask(t) \/ BeginHandler(t)
  \/ \E t \in Tasks, outcome \in Outcomes : FinishRun(t, outcome)
  \/ StopBegin \/ LoopExit \/ LoopJoined \/ LoopGraceExpires
  \/ TasksJoined \/ TasksGraceExpires
  \/ Exit \/ Crash \/ CrashInStart

Spec == Init /\ [][Next]_vars

\* The runtime schedules every goroutine, the ticker keeps ticking and timers
\* expire; nothing is assumed of handlers, crashes, signals or the clock.
RuntimeFairness ==
  /\ WF_vars(Start) /\ WF_vars(EnterLoop)
  /\ WF_vars(RunDue)
  /\ WF_vars(LoopExit) /\ WF_vars(LoopJoined)
  /\ WF_vars(TasksJoined \/ TasksGraceExpires)
  /\ WF_vars(Exit)
  /\ \A t \in Tasks : WF_vars(CatchUpTask(t)) /\ WF_vars(BeginHandler(t))

FairSpec == Spec /\ RuntimeFairness

\* Every handler returns (each bounds its I/O with a timeout).
HandlersReturn ==
  \A t \in Tasks : WF_vars(\E outcome \in Outcomes : FinishRun(t, outcome))

-----------------------------------------------------------------------------
TypeOK ==
  /\ clock \in Time \ {0} /\ boots \in Nat
  /\ phase \in Phases /\ loop \in {"none", "running", "exited"}
  /\ task \in [Tasks -> Task]
  /\ row \in [Tasks -> Row \cup {NoRow}]
  /\ exec \in [Tasks -> SUBSET Exec]
  /\ catchUp \subseteq Tasks
  /\ forced \in BOOLEAN
  /\ unsaved \subseteq Tasks /\ interrupted \subseteq Tasks
  /\ lastOk \in [Tasks -> Time] /\ retries \in [Tasks -> Nat]

\* A task has at most one execution at a time, and its running flag says
\* exactly whether it has one: a flag left set would silence the task for good,
\* a flag cleared early would let runDue start it twice (runDue, execute).
SingleExecution ==
  \A t \in Tasks :
    /\ task[t].running <=> exec[t] # {}
    /\ \A e, f \in exec[t] : e = f

\* From Start on, the row of every task whose last write did not fail agrees
\* with the Task struct, also while tasks run and while Stop waits, so a crash
\* at any moment loses only the runs in progress (saveTaskLocked).
RowsMatchMemory ==
  phase \notin {"down", "built"} =>
    \A t \in Tasks \ unsaved : row[t] = RowOf(task[t])

\* Once a run has succeeded its slot is served: no later execution, in this
\* process or in one started after a crash, begins before the schedule's next
\* activation (execute, Start, shouldCatchUp).
ServedSlotNotRerun ==
  \A t \in Tasks : \A e \in exec[t] :
    e.pc = "handler" /\ lastOk[t] # 0 =>
      LET next == ScheduleNext(t, lastOk[t])
      IN  next # 0 /\ e.start >= next

\* A failing task is retried at most its number of retries before it goes back
\* to its schedule; the attempts are not persisted, so each start of the process
\* may grant that number once more (scheduleRetryLocked).
RetryBudgetPerStart ==
  \A t \in Tasks : retries[t] <= RetriesAllowed(t) * boots

\* When Stop returns without a timer having expired, the loop is gone and no
\* handler is running: os.Exit cuts nothing off (Stop).
GracefulStop ==
  phase = "stopped" /\ ~forced => loop # "running" /\ Busy = {}

\* While the server is up, a task that is due gets an execution, whatever the
\* other tasks' handlers do (loop, runDue).
DueTaskRuns ==
  \A t \in Tasks :
    (phase = "up" /\ Launchable(t)) ~> (exec[t] # {} \/ phase # "up")

\* A run that was cut off is repeated by the next process that gets to serve.
InterruptedRunRepeats ==
  \A t \in Tasks \ RetryOnFail :
    (t \in interrupted /\ phase = "up") ~> (t \notin interrupted \/ phase # "up")

\* What main waits for comes to an end: a shutdown, even if the loop or a handler
\* never does (shutdownGrace), and, if handlers return, Start, which runs the
\* missed tasks one after the other.
StartAndStopEnd ==
  /\ phase = "stopLoop" ~> phase = "down"
  /\ HandlersReturn => (phase = "built" ~> phase \in {"up", "down"})

-----------------------------------------------------------------------------
(***************************************************************************)
(* The scheduler implements the ledger of runs: the entries of the ledger  *)
(* are the counters in the table, so they survive the process.  The tasks  *)
(* that RegisterBuiltins resets at every start are left out.               *)
(***************************************************************************)
Audited == Tasks \ OffAtBoot

LedgerStart ==
  [t \in Audited |-> IF \E e \in exec[t] : e.pc = "handler"
                    THEN (CHOOSE e \in exec[t] : e.pc = "handler").start ELSE 0]
LedgerLastOk == [t \in Audited |-> lastOk[t]]
LedgerOks    == [t \in Audited |-> IF row[t] = NoRow THEN 0 ELSE row[t].runCount]
LedgerFails  == [t \in Audited |-> IF row[t] = NoRow THEN 0 ELSE row[t].failCount]

Ledger == INSTANCE RunLedger WITH
  Tasks <- Audited, now <- clock, runStart <- LedgerStart, lastOk <- LedgerLastOk,
  okRuns <- LedgerOks, failedRuns <- LedgerFails

\* Every step of the scheduler is a step of the ledger or leaves it unchanged.
ImplementsLedger == Ledger!Spec

=============================================================================
