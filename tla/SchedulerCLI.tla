---------------------------- MODULE SchedulerCLI ----------------------------
(***************************************************************************)
(* The commands "gitignore scheduler ..." (src/scheduler_wire.go) beside   *)
(* the server.  Each command is a process with a scheduler of its own and  *)
(* no loop: it registers the tasks, loads the rows of the same table,      *)
(* does its work and exits.  Nothing but the table connects the processes. *)
(***************************************************************************)
EXTENDS Scheduler

CONSTANTS
  Cmds,        \* the command processes that may exist at a time
  MaxCommands  \* bound: commands started in all

ASSUME CommandsAssumption == MaxCommands \in Nat

VARIABLES
  cmd,      \* where each command is
  mem,      \* the Task structs of each command
  job,      \* what each command was asked to do
  started,  \* number of commands started
  \* History, read by the properties only.
  okTotal,  \* successful runs of each task, in whatever process
  asked     \* the last toggle of each task, if nothing ran beside it

cmdVars == <<cmd, mem, job, started>>
allVars == <<vars, cmdVars, okTotal, asked>>

\* A command works on its own copy of the tasks with the scheduler's code.
Own(p) == INSTANCE Scheduler WITH task <- mem[p]

Jobs == [verb : {"look", "run", "enable", "disable"}, task : Tasks]
Idle == [t \in Tasks |-> FreshTask]

CmdInit ==
  /\ Init
  /\ cmd = [p \in Cmds |-> "none"]
  /\ mem = [p \in Cmds |-> Idle]
  /\ job \in [Cmds -> {CHOOSE j \in Jobs : TRUE}]
  /\ started = 0
  /\ okTotal = [t \in Tasks |-> 0]
  /\ asked = [t \in Tasks |-> "none"]

-----------------------------------------------------------------------------
\* The server takes a step; a run of it may have ended with success.
ServerStep ==
  /\ Next
  /\ okTotal' = [t \in Tasks |->
       IF \E e \in exec[t] : e.pc = "handler" /\ e \notin exec'[t]
                             /\ task'[t].lastStatus = "success"
       THEN okTotal[t] + 1 ELSE okTotal[t]]
  /\ UNCHANGED <<cmdVars, asked>>

\* A command's step: of the server's state it touches only the table.
CommandStep == UNCHANGED <<clock, boots, procVars, history>>

\* buildScheduler: as in the server, the tasks that are off by default are
\* disabled, which saves them as they were registered.
CmdBuild(p, j) ==
  /\ cmd[p] = "none" /\ started < MaxCommands
  /\ cmd' = [cmd EXCEPT ![p] = "built"]
  /\ mem' = [mem EXCEPT ![p] =
               [t \in Tasks |-> [FreshTask EXCEPT !.enabled = t \notin OffAtBoot]]]
  /\ job' = [job EXCEPT ![p] = j]
  /\ started' = started + 1
  /\ \E writes \in WritesOf(OffAtBoot) : row' = Saved(mem'[p], writes)
  /\ CommandStep /\ UNCHANGED <<okTotal, asked>>

\* LoadPersisted.
CmdLoad(p) ==
  /\ cmd[p] = "built"
  /\ \E loaded \in BOOLEAN :
       /\ loaded \/ DBMayFail
       /\ mem' = [mem EXCEPT ![p] = Own(p)!Started(loaded)]
  /\ cmd' = [cmd EXCEPT ![p] = "loaded"]
  /\ CommandStep /\ UNCHANGED <<row, job, started, okTotal, asked>>

\* The process exits.
CmdExit(p) ==
  /\ cmd' = [cmd EXCEPT ![p] = "none"]
  /\ mem' = [mem EXCEPT ![p] = Idle]
  /\ UNCHANGED <<job, started>>
  /\ CommandStep

Alone(p) == phase = "down" /\ \A q \in Cmds \ {p} : cmd[q] = "none"

\* SetEnabled, for the commands enable and disable; then the process exits.
CmdToggle(p) ==
  LET t  == job[p].task
      on == job[p].verb = "enable"
      k  == [mem[p][t] EXCEPT
               !.enabled = on,
               !.nextRun = IF on /\ @ = 0 THEN ScheduleNext(t, clock) ELSE @]
  IN  /\ cmd[p] = "loaded" /\ job[p].verb \in {"enable", "disable"}
      /\ \E writes \in WritesOf({t}) :
           /\ row' = Saved([mem[p] EXCEPT ![t] = k], writes)
           /\ asked' = [asked EXCEPT ![t] =
                          IF Alone(p) /\ t \in writes THEN job[p].verb ELSE "none"]
      /\ CmdExit(p) /\ UNCHANGED okTotal

\* RunNow, up to the handler: the running flag is the command's own.  The start
\* is kept in lastRun, which nobody reads until the outcome is recorded there.
CmdRunBegin(p) ==
  LET t == job[p].task
  IN  /\ cmd[p] = "loaded" /\ job[p].verb = "run"
      /\ mem' = [mem EXCEPT ![p][t].running = TRUE, ![p][t].lastRun = clock]
      /\ cmd' = [cmd EXCEPT ![p] = "running"]
      /\ CommandStep /\ UNCHANGED <<row, job, started, okTotal, asked>>

\* RunNow, from the handler's return: the outcome is recorded and saved.
CmdRunEnd(p, outcome) ==
  LET t == job[p].task
      k == Own(p)!Recorded(t, mem[p][t].lastRun, outcome)
  IN  /\ cmd[p] = "running"
      /\ \E writes \in WritesOf({t}) :
           row' = Saved([mem[p] EXCEPT ![t] = k], writes)
      /\ okTotal' = IF outcome = "success"
                    THEN [okTotal EXCEPT ![t] = @ + 1] ELSE okTotal
      /\ CmdExit(p) /\ UNCHANGED asked

\* A command that only prints, or one that is killed, ends.
CmdEnds(p) ==
  /\ cmd[p] # "none"
  /\ CmdExit(p) /\ UNCHANGED <<row, okTotal, asked>>

CmdNext ==
  \/ ServerStep
  \/ \E p \in Cmds : \/ \E j \in Jobs : CmdBuild(p, j)
                     \/ CmdLoad(p) \/ CmdToggle(p) \/ CmdRunBegin(p)
                     \/ \E outcome \in Outcomes : CmdRunEnd(p, outcome)
                     \/ CmdEnds(p)

CmdSpec == CmdInit /\ [][CmdNext]_allVars

-----------------------------------------------------------------------------
\* However the processes interleave, a row never counts more successful runs
\* than there were: updates may be lost, but none is counted twice
\* (loadState, execute, saveTaskLocked).
CountsOnlyRealRuns ==
  \A t \in Tasks : row[t] # NoRow => row[t].runCount <= okTotal[t]

\* A task toggled while nothing else was running stays as it was asked to be,
\* across later starts, crashes and commands, until it is toggled again
\* (SetEnabled, loadState).
QuietToggleSticks ==
  \A t \in Tasks \ OffAtBoot :
    asked[t] # "none" =>
      /\ row[t] # NoRow /\ row[t].enabled = (asked[t] = "enable")
      /\ phase \notin {"down", "built"} =>
           task[t].enabled = (asked[t] = "enable")

=============================================================================
