# A verification of the gitignore server

The repository is a Go program, `gitignore`: a web service that serves
`.gitignore` templates, with a task scheduler, backups, a self-updater, a Tor
hidden service, GeoIP lookups and an admin area, and a command-line client.
This directory holds TLA+ models of its stateful parts, the TLC runs that check
them on small instances, and proofs for TLAPS of all the safety properties that
the runs check.

Paths below are relative to the root of the repository.

## Inventory

All Go code of the program is under `src/`; the developer tool
`cmd/i18n-validate` is the only one elsewhere.

| Component | Source | State | Operations | Interacts with | What is hard |
|---|---|---|---|---|---|
| Task scheduler | `src/scheduler/scheduler.go` | Task structs under `Scheduler.mu`, the loop goroutine, one goroutine per run, the stop and done channels | Register, Start, runDue, execute, retries, RunNow, SetEnabled, Stop | rows of the scheduler, handlers, main | overlapping runs, crash between run and save, catch-up after downtime, shutdown timers |
| Cron schedules | `src/scheduler/cron.go` | none (pure) | ParseSchedule, Next | scheduler, holding `Scheduler.mu` | jumps of the zone offset, OR of the day fields, the search bound |
| Built-in tasks | `src/scheduler/builtins.go` | none | RegisterBuiltins, the handlers | scheduler, backup, updater, GeoIP, Tor, certificates | resets one task at every start |
| Scheduler rows | `src/db/scheduler.go` | table `server_scheduler_state` | load, upsert, toggle | scheduler of the server and of every command | lost updates between processes |
| Scheduler commands | `src/scheduler_wire.go` | a scheduler of their own without a loop | list, show, run, enable, disable, history | the table, beside a running server | stale copies of the rows |
| Scheduler status API | `src/server/scheduler.go` | none | read-only listing | scheduler | - |
| Process lifecycle | `src/main.go`, `src/signal_*.go` | error and signal channels, goroutines | start-up order, signals, tear-down, exit codes | every other part | signal beside listener failure, tear-down order |
| PID file | `src/pidfile*.go` | the PID file | check, write, read again and remove | lifecycle | check-then-write by two processes, stale files, reused ids |
| Daemon mode | `src/daemonize_*.go` | none | starts the process again, detached | lifecycle | - |
| HTTP server | `src/server/server.go`, `src/privilege_*.go` | listener, http.Server | Start, Shutdown, its own SIGTERM handler | lifecycle | two receivers of one signal |
| Updater | `src/updater/`, `src/update_wire.go` | binary on disk, channel setting | check, download, verify, replace, restart | scheduler (update_check) | crash inside the replacement, order of releases |
| Backup and restore | `src/backup.go` | archives on disk | create, encrypt, verify, prune, restore | scheduler | overwriting the only good archive, partial restore |
| Tor hidden service | `src/tor/`, `src/tor_wire.go` | tor process, key files, onion address | Start, Monitor, Restart, Close, vanity keys | lifecycle, scheduler | restart loop beside Close, crash between key files |
| GeoIP | `src/geoip/`, `src/geoip_wire.go` | open readers, files on disk | Lookup, Reload, download | middleware, scheduler | readers closed beside a lookup |
| Request middleware | `src/server/middleware.go`, `trustedproxy.go`, `stats.go`, `metrics*` | rate-limit buckets, rolling counters | per request, clean-up ticker | every request | concurrent counters, window edges |
| Admin sessions | `src/admin/` | session rows, cookies | login, refresh, logout, expiry | database | refresh beside expiry or logout |
| Database | `src/db/db.go` | SQLite connection, `mu` | Init, credentials, sessions | admin, scheduler | first-run credentials, close beside use |
| Configuration | `src/config/config.go`, `src/mode/mode.go` | `server.yml` | Load, Save, defaults | all | non-atomic write |
| TLS certificates | `src/ssl/ssl.go` | certificate and key files | obtain, self-sign, renew | server | crash between the two files |
| Email | `src/email/`, `src/email_wire.go` | notifier | send, suppress | scheduler, backup | duplicate or suppressed notices |
| Templates | `src/template/` | immutable index | search, combine | handlers, client | duplicates, order |
| Client | `src/client/` | model of the TUI, config file | loads, key presses, commands | server's API | late answers |
| Service installation | `src/service/` | the service, its account, binary and directories on the host | install, uninstall, start, stop, disable | the service manager, the server's data | steps that fail or are cut off half-way, and are run again |
| Health and status | `src/server/health.go` | none | the snapshot of the counters, and the state of other parts | middleware | two reads of counters that move |
| Handlers, helpers, developer tools | `src/server/`, `src/common/`, `src/shellcomplete.go`, `cmd/` | none of their own | rendering, conversions | - | - |

What makes the stateful ones correct: a task has one run at a time and a
served slot is not run again; an interrupted run is repeated; a shutdown ends
and cuts nothing off unless a timer expires; a command's change is not undone;
a schedule's next activation exists and is the first one; an update never
leaves the machine without a binary and never goes back; a backup that was
good stays until a newer good one exists; a closed hidden service stays
closed; a lookup never uses a closed reader; a client gets at most its rate;
a session that ended admits nobody; an acknowledged setting lasts; a screen of
the client shows what it says; an uninstall that fails has not removed the data.

## Plan

The modules, in the order in which they were written; all exist.

1. `RunLedger`, `Scheduler`, `SchedulerProofs`: the scheduler, its rows and the
   process that hosts it.
2. `CronNext`, `CronNextProofs`: the search for the next activation, over a small
   calendar with a jump of the zone offset. It discharges the assumption that
   `Scheduler` makes about schedules, where it holds.
3. `SchedulerCLI`: extends `Scheduler` with command processes on the same table; its
   proofs are in `SchedulerProofs`.
4. `Lifecycle`, `LifecycleProofs`: several processes of the server on one
   machine, with the PID file, the signals, the listener and the tear-down.
5. `Programs`, `ConfigStore`, `AdminStore`, `CertStore` and `Updater`, composed by
   `Installation`, with `InstallationProofs`: the programs that run `main` on one
   installation, and the files and rows that they share.
6. `Backup`, `BackupProofs`: create, verify and restore, cut off at any step.
7. `TorManager`, `TorManagerProofs`: start, monitor, restart and close, with the key files.
8. `Requests`, `RateLimiter`, `GeoDatabases`, `RequestStats` and `AdminSessions`,
   composed by `HttpServer`, with `HttpServerProofs`: concurrent requests through the middleware.
9. `ClientConfig`, extended by `Tui`, with `TuiProofs`: the client's terminal interface and its
   configuration file.
10. `ServiceInstall`: the service on the host; its proofs are in `LifecycleProofs`.

Proved are all safety and action properties that a passing run checks, and the refinement of
`RunLedger`. What is left are the liveness properties, which are out of the
prover's reach, and whatever a change of the code calls for.

## Modules

### `Scheduler` - the scheduler, its rows and its process

One action is one critical section of `Scheduler.mu`, one hop of a goroutine or
one expiry of a shutdown timer; a crash may come between any two of them, and
also inside the saves of `Start` (`CrashInStart`).

| Variable | Code |
|---|---|
| `clock` | `time.Now`, in units of five minutes; 0 is the zero `time.Time` |
| `boots`, `phase` | how often the process was started, and where `main` is: `down`, `built`, `catchup`, `up`, `stopLoop`, `stopTasks`, `stopped` |
| `loop` | the goroutine of `Scheduler.loop` |
| `task` | the `Task` structs: `enabled`, `running`, `lastRun`, `nextRun`, `lastStatus`, `runCount`, `failCount`, `attempt` |
| `row` | `server_scheduler_state`; `NoRow` for a task without one |
| `exec` | the calls of `execute`: marked running, or inside the handler with its start time |
| `catchUp` | the missed tasks `Start` has still to run |
| `forced`, `unsaved`, `interrupted`, `lastOk`, `retries` | history, read by properties only |

`Boot` is `buildScheduler` with the reset of `backup_hourly`
(`OffAtBoot`); `Start` the locked section of `Start`; `CatchUpTask` its loop
over the missed tasks; `RunDue` a tick; `BeginHandler` and `FinishRun` the two
halves of `execute` around the handler, whose outcome is a choice;
`StopBegin`, `LoopExit`, `LoopJoined`, `LoopGraceExpires`, `TasksJoined` and
`TasksGraceExpires` are `Stop`; `Exit` and `Crash` the end of the process.
With `DBMayFail` each read of the rows may fail and each set of writes may
partly fail; the code only logs either.

Abstracted: task names, error texts, durations, the text format of times, the
email sent on an error, and the handlers' work. `ScheduleNext` is a parameter
with the contract of `Schedule.Next`: zero, or later than its argument.

### `RunLedger` - what the scheduler promises

The abstract specification: a ledger of completed runs per task. At most one run
of a task is open, its start never lies in the future, counters move only when
a run ends, by one, and an open run may vanish with its process.
`ImplementsLedger` maps the persisted counters to the ledger's entries, so the
step from `FinishRun` to the table must be one step. Tasks of `OffAtBoot` are
left out, since every start overwrites their rows.

### `CronNext` - the search for the next activation

One step is one iteration of the loop of `Schedule.Next`: `SkipMonth`, `SkipDay`,
`SkipHour` and `SkipMinute` are its four `continue`s, `Found` and `GiveUp` its two
returns. `expr` is the expression, `masks` the `cronSchedule` that `parseField`
and `parseCron` make of it, `t` the candidate, `after`, `zone` and `result` the
argument, `t.Location()` and the value returned.

Instants are minutes of UTC. The calendar (minutes per hour up to the first day
of each month) is a set of parameters, so that TLC can use a small one. A zone
is one jump of the offset at one instant. `Date` and `AddDate` are external
(package `time`): they are modelled with the two look-ups of the offset that
`time.Date` makes, since the results in the hour that is repeated and the hour
that does not exist depend on them.

`Fires` says what an expression means, in terms of its fields and without masks;
`FirstFire` compares the search with it.

A zone is *regular* if each jump of the loop goes forward and stays in the month,
day or hour that did not match. That depends on the zone's data and not on the
expression; `RegularAssumption` is evaluated by TLC on the zones of the run: no
jump, an hour either way east of Greenwich, and an hour forward west of it.
Two kinds of zones are not regular. West of Greenwich, when the clock is set
back, the iteration that skips an hour returns to where it was: `t` does not
change, so in the model the search stutters for ever, and in the program
`Next` spins while `execute`, `Start` or `SetEnabled` holds `Scheduler.mu`,
which blocks the loop and also a `Stop`. Where midnight is skipped, the search
enters the following day at 01:00.

### `SchedulerCLI` - commands beside the server

Each member of `Cmds` is a process that runs `gitignore scheduler ...`. It has a
scheduler of its own, whose `Task` structs are `mem[p]`; `Own(p)` is `Scheduler`
with `task` replaced by them, so a command merges rows and records outcomes with
the server's definitions. `CmdBuild` is `buildScheduler`, `CmdLoad`
`LoadPersisted`, `CmdToggle` is `SetEnabled`, `CmdRunBegin` and `CmdRunEnd` are
`RunNow`. `okTotal` and `asked` are history. The server takes the steps of
`Scheduler!Next`, crashes included.

### `Lifecycle` - the processes of the server

| Variable | Code |
|---|---|
| `proc[p].kind` | the process id is free, belongs to another program, or to the server |
| `proc[p].pc` | where `main` is |
| `proc[p].srv` | the goroutine of `server.Start`, up to its result in `errChan` |
| `proc[p].stop`, `.inbox` | the channel `stop` of `Start`, and `sigChan` of `main`, both of length one |
| `proc[p].dropped`, `.code` | whether privileges were dropped, the argument of `os.Exit` |
| `file` | content of the PID file: none, created but empty, an id |
| `port` | who listens |
| `raced`, `crashed` | history |

`Refuse`, `CheckPasses`, `OpenFile`, `FillFile` and `WriteFails` are
`writePIDFile`, with `os.WriteFile` in its two steps; `RereadFile` and
`UnlinkFile` are `removePIDFile`. `Bind`, `Serve`, `ListenerFails` and
`ShutdownListener` are `server.Start`; `SelectSignal` and `SelectError` the loop
at the end of `main`; `TorClosed`, `SchedulerStopped` and `Exit` the tear-down.
A file that another start has just created reads as empty: `strconv.Atoi` fails
and the check passes. In a container, or with an empty path, `writePIDFile` returns at
once (`pidfile.go:18`) and the port alone keeps a second instance out; `Lifecycle` is about
a server that has a file. `raced` records that a check passed while another start was
between its own check and its write.

### `Installation` - programs on one installation

Each member of `Programs` is a process that runs `main` of `src/main.go` with one
job: the server, `--mode`, `--update branch`, `--maintenance setup`, `--update
yes` or `--status`. `at[p]` is where `main` is, `job[p]` its command line. `plan` is
the scenario: what the programs find, and who may do what (Bounds). The parts are
modules of their own that share `Programs`; `Installation` orders them as `main`
does and adds crashes, a supervisor and the world.

| Module | Variables | Code |
|---|---|---|
| `ConfigStore` | `file`, `open`; `mem`, `current` | `server.yml`, and the saves that have truncated it; each program's copy of the configuration, and whether `config.Update` may be used |
| `AdminStore` | `rows`, `made` | the credentials' rows in the order of their ids, the credentials a program has made |
| `CertStore` | `tls`, `cert`, `key`, `live`, `pairs` | the goroutine of the listener in `configureTLS`, the two files of the self-signed pair, certbot's pair |
| `Updater` | `dir`, `upd`, `out` | the binary with `.bak`, `.new` and `update_last_notified`; each program's update; the releases published |

`LoadFile`, `LoadMissing` and `LoadEmpty` are `config.Load`, `LoadAgain` the second one of
`--maintenance setup`, `Truncate` and `Fill` the two steps
of a save, `Command` the change a sub-command makes, `DetectSMTP` the one of the
server, `Edit` the operator's. `Written` are the settings that `generateConfigYAML` writes
as they are; it leaves the others out, or writes a constant for them. `InitDatabase`,
`HasCredentials`, `SetCredentials` and `ShowCredentials` are the first run, and
`ListenerFails` is the end of a server that cannot listen. `UseExisting`, `UseAcme` and the four writes
of the pair are `configureTLS`. `Check`, `Notify`, `Download` and `Record` are
the task and the command; `Replace` is the replacement by one rename,
`StageOpen` to `RemoveBackup` the one across file systems, with `MoveAsideFails` its rename
that does not succeed; `RestartSelf` replaces the image of the process.
`said`, `outdated`, `reverted`, `wiped`, `printed`, `rivals`, `unseen` and `overlapped` are
history. `said` is each setting as it was last acknowledged; `wiped` names those that the
last save left out, `reverted` those that the save of an older copy (`outdated`) or the
reading of a torn file undid. The others name the races and crashes under which a
property is given up, since the code does not guard against them.

### `Backup` - backups and restores beside a server

| Variable | Code |
|---|---|
| `disk`, `log`, `fits` | `server.yml` and the database, by the version of their content; the `-wal` file, and whether it belongs to the database at the path |
| `srv`, `version` | the server that saves, commits and checkpoints |
| `arc` | the archives: none, `Bad`, or the versions they hold |
| `job` | each backup or restore: its place, what it read, the files left |
| `told`, `made` | history: the last report for a name, the archives put together |

`Collect`, `ReadSource`, `Open`, `Fill`, `Verify` and `Remove` are `runBackup`;
`ReadArchive`, `VerifyStaging` and `InstallFile` are `runRestore`. With
`encrypt` a task refuses, since there is nobody to ask for the password. `cast`
is the set of actors of a behaviour.

### `TorManager` - the tor process and its keys

`th` holds the threads of the server that use the manager: `boot`, the goroutine of
`startTor` and `Monitor`; `main`, which closes it; `caller`, an operator's call. Each
has a place, the operation it is in and the key it holds. `mu` is `tm.mu`, `svc`
`tm.service` by its address, `health` and `procs` the tor process, `torrc` and `files` the files
of the data directory, `cli` the `tor` subcommand of another process, which takes
no lock. `Lock` to `Serve` are the operations of `tor.go`; `Tick`, `Probe` and
`MonitorEnds` the monitor. Files that are written in place have two steps each.
`owed` and `lost` are history: the address that the next start has to announce, until
somebody begins to replace its key, and that the key announced could not be saved
or the subcommand ran beside a start. `Call` has a guard that is not in the code: a
call that came before `Start` would leave two processes, as `Start` sets `tm.service`
without closing what was there (`tor.go:430`), but no route leads to these calls.

### `HttpServer` - requests through the middleware

`req[r]` is the request on connection `r`: its place in the chain, its caller, what it
asks for, and what it has read. `Requests` holds the arrival and `clientIP`;
`HttpServer` strings the stages together in the order of `server.go`, with a clock,
updates, sweeps and a process that dies.

| Module | Variables | Code |
|---|---|---|
| `RateLimiter` | `hits`, `lastGC` | `rateLimiter`: a bucket for each address; `Allow` is `allow` under its mutex, the sweep included |
| `GeoDatabases` | `disk`, `reader`, `open`, `upd`, `command` | the country database, its readers, the weekly task and the first download; `BeginCommand` and `CommandDownload` are `scheduler run geoip_update` in another process; `TakeReader` and `Lookup` are the two halves of a look-up |
| `RequestStats` | `total`, `active`, `buckets`, `bucketHour`, `gauge`, `finished` | `statsCollector` and `metricsMiddleware`; `Begin` and `Bucket` are the two halves of `begin`, `SnapTotal` and `SnapSum` of `snapshot`; `Panic` leaves by the deferred calls |
| `AdminSessions` | `sessions`, `ids` | `AuthManager`; `CheckSession` and `Refresh`, `Logout` and `Delete` are the steps between which the lock is free |

`admitted`, `refused`, `starts`, `panics`, `gone` and `unseen` (a command replaced the database
after the server's last load) are history.

### `ClientConfig` and `Tui` - the client

`file` is the server's address in `cli.yml`, `primary` and `base` the ones in the
configuration and the API client of the TUI, `saves` the goroutines of the wizard's
saves and a command in another terminal. `OpenFile` marshals the configuration as it is
by then and truncates the file, `WriteFile` writes it over what another save may
have written. `screen`, `list`, `marks` and `asked` are the model of the TUI and its
questions: `Menu`, `Search`, `Pick`, `SetupEnter`, `SetupEsc` and `Back` are keys,
`Serve` a request in its goroutine, `Answered` and `Saved` the messages of `Update`.
`kept` and `mixed` are history.

### `ServiceInstall` - the service on the host

An install or an uninstall is a sequence of steps, one for each service manager
(`InstallSystemd`, ..., `UninstallWindows`), each of which must succeed (`Must`) or may fail
with a warning (`Try`). `Possible` says what a step needs, `Done` what it does,
`Halfway` what it may leave when it fails or is cut off. `host` is what is on the host,
`cmd` the command under way, `told` how the last one ended, both with the steps that were
passed over (`passed`). `plan.account` is whether the host has the account from the start.
`StartService`, `StopService` and `Disable` are the service manager's. A service can start
(`Startable`) when its file and its binary are there and, where it needs the account
(`NeedsAccount`), the user too: the manager runs the server as that user, or as root, and
then `Server.Start` drops to the user or fails (`server/server.go:406`, `privilege_unix.go:16`).

### Modules for the proofs and for TLC

`SchedulerProofs` (about `Scheduler` and `SchedulerCLI`), `CronNextProofs`,
`LifecycleProofs` (about `Lifecycle`, and `ServiceInstall`, which shares no name with it),
`InstallationProofs`, `BackupProofs`, `TorManagerProofs`, `HttpServerProofs` and `TuiProofs`
extend the modules they are about; see Proofs. The modules `MC...` define scenarios, tasks,
calendars and expressions for TLC.

## Runs

| Run | States | What it shows |
|---|---|---|
| `sched` | 117 925 | Two tasks, two server processes, a database that answers: types, one execution per task, served slots not run again, the bound on retries, the refinement of `RunLedger`; a due task runs although another one's handler hangs, an interrupted run is repeated, a start ends if handlers return, and a stop ends |
| `sched_dbfail` | 134 274 | The same with database calls that fail: rows that agree with memory, and what a `Stop` guarantees |
| `cron_regular` | 42 349 | 144 expressions, 15 starting points around the jump, 4 regular zones: the search ends, with the first activation |
| `cron_fold` | refuted | see Findings |
| `cli_shared` | 1 817 826 | A server beside two commands: no run counted twice, a toggle made while nothing else runs lasts |
| `lifecycle_instances` | 166 362 | Three starts among reused process ids: one instance at a time, no start refused by the leftovers of a stop, every stop ends the process |
| `installation` | 214 628 | First starts, commands, edits, certificates and updates with a crash or a failing call anywhere: a sound binary, credentials that work, settings that are lost only by the saves that are known to lose them, a server that comes back, at the newest release |
| `backup` | 169 064 | The daily task, a command that writes its archive, and a restore: a backup that was reported is there, a restore installs one backup in full or nothing, a whole daily archive comes back |
| `tor` | 176 225 | The threads of the manager beside the subcommand: one tor process, an address that every start announces again, a dead tor that is noticed, a shutdown that ends |
| `requests` | 523 679 | Two requests at a time through the middleware: the rate, the database that is used, the counters, the last 24 hours, sessions that ended |
| `client` | 297 832 | Two questions and two saves at a time, beside a command: a name is asked for as what it is, every screen has what it shows, the wizard's address stays |
| `service` | 76 828 | Each service manager, three commands, two faults: what a command says is true but for the steps that it passed over, a half-done install can be repeated, the data go last |

### Bounds

- *Scheduler.* Two tasks: all of the code treats tasks one by one, except for the
  loops over them in `Start`, `runDue` and `Stop`, which two tasks exercise. One
  has a cron schedule that ends (so that `Next` returns zero too), the other an
  interval, retries and back-off. Six units of time hold three activations of the
  first, two of the second and a retry, and exceed the catch-up window of two, so
  a missed activation may lie inside it and outside. Two processes give one crash
  or shutdown and the start after it at every point. No deadlock is
  reported: when the clock and the starts are used up the server can still finish
  handlers, stop and idle.
- *CronNext.* Hours of two minutes, days of four hours, weeks of three days and
  years of two months of two or three days keep every carry of the real calendar:
  minute to hour, hour to day, day to month of varying length, month to year,
  and a weekday independent of them all. The zones put the jump in the
  middle of a day and at a month's end.
- *SchedulerCLI.* Two commands at a time and in all, one task: enough for two
  stale copies beside the server's own. The commands act on one task each and
  share no other state.
- *Lifecycle.* Two ids and three starts: a running instance and a second one, or an
  instance that reuses the id of a dead one, with a stranger on the other, and a start
  after both. The theorems cover every number. Two signals
  are what it takes to fill `sigChan` and lose the next.
- *Scenarios.* `Installation`, `TorManager`, `HttpServer`, `Tui`, `ServiceInstall`
  (constant `Plans`) and `Backup` (`Casts`) take one scenario for each behaviour, chosen
  in `Init`. Each scenario gives room to one kind of interaction (two first starts;
  commands beside a server; certificates; updates with and without a common file system;
  and so on), so that scenarios add up where free choices would multiply. The actions are
  the same in all of them, and no guard mentions a scenario but for the inputs, the bounds
  and the options of the program that it names.
- *Installation.* Two programs: a server and a command, or two servers. One
  operation of the operator (two in the scenario of the edits, so that a setting which a save
  lost is set again), three releases (a stable one, a beta, a stable one; one across file systems),
  one fault: at each point there is a run with a crash there and nothing else
  wrong. One setting of each kind stands for the others: `backup` for those that the template
  does not write.
- *Backup.* Two versions tell the new content from the old, and one fault cuts any
  step off. The daily task and a command that write one archive, or the task and a restore, act in a
  behaviour.
- *TorManager.* Two keys tell the address from another. Two faults in two of the
  scenarios: a tor that dies and a restart that fails, a crash and another.
- *HttpServer.* Three updates let the first download, the weekly task and a command
  overlap. Two requests at a time; up to six in all, so that two windows can be filled
  up to a limit of two. Windows of two ticks and two buckets make the windows and the
  hours wrap.
- *Tui.* Six keys lead to any two screens and back with answers of both under way.
- *ServiceInstall.* Three commands: one that is cut off, one that repeats it, one that
  undoes it; on a host with the account and on one without.

## Findings

- `cron_fold`: where the clock is set back west of Greenwich, which includes the
  default zone of the configuration, a search that passes through the repeated hour
  never ends (`src/src/scheduler/cron.go`, `Next`).

### Disagreements

These were met while modelling, between the code and its comments or the
documentation in `AI.md`. They have no run of their own: each takes a handful of
steps, the models contain the behaviour, and the properties above say what holds
in spite of it. Lines are those of the file named, under `src/src/` for code.

*Scheduler.*
`shouldCatchUp` decides by the first activation after the last run, not by the most
recent one, so that a task which missed several is not run although the last of
them is within the window (`scheduler/scheduler.go:237`).
Where midnight is skipped, an activation at 00:00 of the following day is missed
(`scheduler/cron.go:95`).
`backup_hourly`, once enabled, is off again after the next start or command
(`scheduler/builtins.go:94`; `AI.md:27520`).
A task disabled by a command is enabled again by the next save of the running
server, which never reads the table again (`scheduler/scheduler.go:537`;
`AI.md:27791`).
If the load in `Start` fails and the saves succeed, the rows are overwritten
with fresh tasks; `RunNow` runs a disabled task; the attempt counter is not
persisted; a tick that is ready together with the stop channel may be taken once
`Stop` has begun.

*Process.*
On SIGTERM the listener ends too, and `main` may take that for an error: exit
code 69, with Tor and the scheduler not stopped; requests still draining are cut off
on either way out (`main.go:459`; `AI.md:11089`).
A server that dropped its privileges cannot remove its PID file, and a foreign
program that gets the id then blocks the next start. A SIGTERM sent while
`sigChan` holds a SIGUSR1 and nothing serves yet is dropped; a SIGQUIT does not
close the listener.

*Configuration.* Every save drops the settings that the template does not write or writes as
constants (`backup.encryption`, the lists of countries, the token of the metrics, the trusted
proxies; `config/config.go:866-1047`), be it a save of a command, of a port that was
repaired, or of the mail server that was found; they are back at their defaults,
although "ALL settings MUST be configurable via `server.yml`" (`AI.md:5361`) and the file is
"the source of truth" (`AI.md:5371`). The save of a copy that was loaded before another
program's save, or before an edit, undoes it (`config/config.go:693`). `--maintenance setup` loads the
file a second time and uses the result without a look at the error, which ends in a
nil dereference if the file cannot be read (`main.go:798`).

*First run.* Two first starts may both find no credentials and insert a row each; the younger
password is shown and never accepted (`db/db.go:313`).

*Certificates.* A key file that was opened and not written, because of a crash or a full
disk, counts as there: the pair is not made again, it does not load, and the server does
not start until somebody removes the file (`ssl/ssl.go:254`).

*Updates.* Nothing keeps the command and the task of the server from replacing the binary at
a time, one between the two renames of the other (`updater/replace_unix.go:53`).
After a replacement across file systems the image of the server is the
removed `.bak`, which `RestartSelf` looks for in vain: the new binary does not take
over until somebody else restarts the server, and the server updates itself no more
(`updater/replace_unix.go:97`, `update_wire.go:93`).

*Backup.* A restore leaves the write-ahead log of the database that it replaces, and the
next start replays it over the restored one (`backup.go:526`; `AI.md:30057`).

*Tor.* After a restart that failed there is no service, and the monitor passes over
it at every tick (`tor/tor.go:571`). A new key that cannot be saved is announced all the
same, and the next start announces another address (`tor/tor.go:369`, where the
comment of `saveOnionKey` promises one "stable across restarts", `tor/tor.go:271`). An
import truncates the key before it writes the new one: cut off between the two, the old
address is lost. An import beside a start that has read the key is announced only at
the start after that.

*GeoIP.* `gitignore scheduler run geoip_update` replaces the file and reloads a reader of its
own (`scheduler_wire.go:125`), so that the server goes on with the old database, for up to a
week, although `Update` says that it "reloads the open readers" (`geoip/download.go:54`).
A reload may close and unmap a reader between the two halves of a look-up:
the request then passes the country policy, or the process faults (`geoip/geoip.go:223`).

*Client.* A save writes the program's whole copy: that of a command with `--lang`,
`--color` or `--output` too (`client/main.go:111`). Two that overlap, or one that is cut
off, may lose the address or leave a torn `cli.yml`, which every later start refuses; and
a program that starts in the middle of one finds no address. A server that comes from the
environment still shows the first-run wizard. `errMsg` stays after a save that succeeds,
and `View` clears `message` on a copy (value receiver). A late answer pulls the user to
its screen, and answers of the old server are shown after a switch to another.

*Service.* A `useradd` that fails leaves its group, for which every later attempt fails at
`groupadd` (`service/service.go:500`). The install warns, goes on and ends with "Service
installed", although the service cannot start without the account
(`service/service.go:667`, `793`, `864`, `978`, `1099`); that of runit makes none at all,
and its server, started as root, ends when it finds no user to drop to
(`server/server.go:406`). A half-made account of macOS counts as one that exists.
`userdel` refuses while a process of the user runs, and "System user removed" is printed
all the same (`service/service.go:210`). `--uninstall` does not find a service of the
user, and removes the data all the same (`AI.md:30756`). A stop that fails is passed over,
so that the data are removed under a running server. The install on Windows cannot be
repeated. `serviceDisable` does not stop the service, and an install does not start it.

## Fairness

- *Scheduler.* `RuntimeFairness` assumes that goroutines are scheduled, the ticker
  ticks and timers expire. It assumes nothing of handlers (they may hang), of
  crashes, of signals or of the clock. `TasksJoined \/ TasksGraceExpires` is one
  `select`, hence one condition. That handlers return is the hypothesis of
  the part of `StartAndStopEnd` about the start: `Start` runs missed tasks one
  after the other and has no timer.
- *CronNext.* `WF_vars(Next)`: a loop without blocking calls. An iteration that
  leaves `t` as it was is a stuttering step, so an endless loop shows as a search
  that never returns.
- *Lifecycle.* `WF` for `main` and for the goroutine that calls `Shutdown`. The
  stages of the start-up and the tear-down end, which `StartAndStopEnd` of
  `Scheduler` shows. Nothing is assumed of `Bind`, `Serve`, signals or other
  programs.
- *SchedulerCLI* has no liveness property.
- *Installation.* A program that can take a step of its own takes one, as a process
  that is scheduled; certificates and updates are in goroutines of their own, hence
  conditions of their own. The server is started again by its service manager
  (the unit file says
  `Restart=on-failure`) or by whoever stopped it, and the select loop reads an error
  of the listener. Nothing is assumed of the operator, of releases or of faults, which
  are bounded.
- *Backup.* A server that is down, saving or in a checkpoint goes on; a backup that
  began goes on; the scheduler comes back to the task, which catch-up makes
  strong fairness: no sequence of restarts passes over it for ever.
- *TorManager.* Each thread takes its steps. `Lock` and `Tick` are strong: Go's
  mutex is fair to a waiter after a millisecond, and the ticker fires again when the
  mutex is free. Nothing is assumed of tor, of the operator or of the subcommand.
- *HttpServer, Tui, ServiceInstall* have no liveness property.

## Proofs

The proofs are for every value of the constants that satisfies the named
assumptions; TLC evaluates each assumption on the values of the runs.

| Assumption | What it says |
|---|---|
| `SchedulerAssumption`, `ScheduleAssumption`, `ShiftAssumption`, `NoRowAssumption`, `CommandsAssumption` | the scheduler's configuration; the next activation is zero or later than its argument; markers differ from rows |
| `CalendarAssumption`, `MonthsAssumption`, `CoverAssumption`, `ExprsAssumption` | the calendar's numbers, that months follow one another, every day belongs to one of at most `LongestMonth` days and the calendar covers the instants, the syntax of expressions |
| `RegularAssumption`, `HorizonAssumption` | the zones where the search moves forward (see `CronNext`), and the horizon that bounds it |
| `LifecycleAssumption`, `ClientAssumption` | markers are no process ids, no servers, and the command is no save of the wizard |
| `ProgramsAssumption`, `ConfigAssumption`, `UpdaterAssumption`, `BackupAssumption`, `TorAssumption`, `ServiceAssumption` | what a scenario is: its programs and their jobs, a file that has every setting, the releases, the actors, the operations of an operator, a service manager that there is |
| `RequestsAssumption`, `WindowAssumption`, `AddressAssumption`, `SlotsAssumption` | finitely many connections, windows and hours of at least one, limits that are natural numbers; addresses that stand for callers: behind a trusted proxy the leftmost one of `X-Forwarded-For`, which is all that `clientIP` looks at (`server/middleware.go:35`), is taken to be the client's own |

**Scheduler.** `TypeCorrect` and `MutualExclusion` rest on the invariant `IInv`:
types; attempts never above the retries allowed, without which the pause of a retry
has no type; the property itself; and `IdleUntilStarted`, that there is no
execution before `Start` and no loop before `up`, since `Start` and
`Boot` replace the `Task` structs wholesale. `DurableState` adds
`RowsMatchMemory`, which is inductive on top of `IInv`. `GracefulShutdown`
needs `NoLauncherLeft`: when `Stop` waits for handlers and no timer has expired,
the loop that could start another one is gone.
`RetriesBounded` counts with `BudgetInv`: the retries so far are at most those that earlier
processes may have spent, and the attempts that the `Task` struct of this one remembers.
`ServedSlots` assumes a database that answers (`DBMayFail = FALSE`: with a lost
write the row of a run that succeeded still says it is due, and the next process
runs it again). Its invariant `SlotInv` says where a served slot is
remembered at each moment: in the row or the `Task` struct, whose `nextRun` or
`lastRun` is beyond it (`RowsRespectSlots`), and in each run that is marked,
started or queued for the catch-up (`RunsRespectSlots`); that the tasks which
are reset at every start never run (`OffStaysOff`); and that a process that is
built has planned nothing yet.
`LedgerImplemented` is the refinement of `RunLedger`: initial states map to initial
states, and each action to a step of the ledger or a stutter. `LedgerInv` adds to `SlotInv`
that a process which is built has counted nothing (`BuiltUncounted`) and that the start of a run
is a time that has come (`StartsAreTimes`). It needs the same database, since a lost
write loses a count.

**SchedulerCLI.** Both theorems are about any number of commands. `CommandsCountOnce`
holds with a database that fails: `CountInv` says that no copy of a task, in the
server, a command or the table, counts more successful runs than there were, and the
types of all of them (`CmdInv`) carry over from `Scheduler`, whose definitions `Own(p)`
uses. `QuietTogglesStick` needs a database that answers, since a load that fails leaves
fresh tasks which the next save writes. `QuietInv` says of a task that was toggled
while nothing else ran: the flag is as it was asked for wherever a later save may take
it from, which is the table, a server past `Start` and every command that has loaded.

**CronNext.** `SearchIsExact` rests on one invariant: no
instant between the argument and the candidate matches the masks, for a regular zone.
Each skip keeps it because the instants jumped over share the field that did not
match. `NextIsFirstFire` adds what the masks mean: the masks that
`parseField` makes of a field have the members that the field's text names
(`FieldMeaning`), for values in the field's range (`FieldRanges`), where "from a to b in
steps of s" means that nothing remains of the division (`StepsAreMultiples`); the calendar
yields only such values. The search then returns the first instant at which the
expression fires, or zero when there is none before the horizon. Both are about zones
that are regular, which `RegularAssumption` says and TLC evaluates. `FixedZonesAreRegular`
proves it of every zone whose clock is not set, UTC among them, for any offset and any
calendar: `Date` and `Local` undo each other there (`FixedClock`), so a jump ends at the first
minute of the next hour, day or month, and what lies before has the same one
(`FixedHours`, `FixedDays`, `FixedMonths`).

**Lifecycle.** `InstanceExclusion` needs, besides types and the agreement of the
fields of a process, `FileStays`: the file a process is about to fill is not removed,
since no other process is in its tear-down then. All of it
holds only while starts do not overlap (`raced`), which is the real limit of a
check followed by a write: two servers started together may both pass, and the
port then decides. `StartsNotRefused` adds `FileNamesInstance`, that without a
kill a file naming a process names one whose tear-down has not removed it, and
assumes that privileges are kept.

**Installation.** Three invariants about different variables, each with lemmas that say which
steps leave its variables alone. `BinaryIsSound`: one program at a time is
inside a replacement, and at each place of it there is a whole file to go on with, the
binary or the `.bak` (`BinWhole`). `CredentialsAreUsable`: one first start at a time makes
the row that is looked at, and holds its password until it has shown it (`OneFirstRow`);
however many there are, the first row is that of a password which was shown or is held
by a program that will (`FirstRow`).
`SettingsAreKept`: what a copy that is not older than the file says of a setting is what was
acknowledged, or the default of one that the last save left out (`CopiesAgree`); so a save of
the whole copy changes no setting but the one it is for, and those in `wiped` and
`reverted`.

**Backup.** `RestoresOneBackup` rests on `MadeInv`: an archive that is whole, and
whatever a backup is about to write or a restore to install, is what some backup put
together. `SuccessIsGood` rests on `ToldInv`: an archive that was reported is whole unless a
writer of its name is between the truncation and its own report (`Unsettled`).

**TorManager.** `OneTorProcess` is about any number of keys and any plan of an
operator. That the mutex excludes (`Exclusive`) is not enough: who holds it
must also know how many processes there are. `ProcessCounted` says that there is one
exactly while a service is announced or is being launched, and none in the
operations between a close and the next start. The first start is the one
that closes nothing, so `StartComesFirst` says it finds nothing; `Roles` says which
operations each thread is ever in, without which `main` could come
back from one that starts tor; and `DownIsEmpty` that a crash leaves none of this.
`AddressIsKept` adds `KeyInv`, which holds while the key announced is in the file and the
subcommand runs beside no start: the address that is owed is that of the key file, also in
the middle of a start, and no thread is about to write another key (`OwedIsFiled`); a start
makes a key because there is none in the file, and announces the one that is there
(`ReadsTheFile`); the subcommand tells the address of the key that it wrote
(`ToldIsFiled`), and none is owed before (`BusyOwesNothing`); the `hostname` of an announced
service is that of the key (`HostIsKey`). An announcement is then of what is owed
(`ServesWhatIsOwed`).

**HttpServer.** One invariant whose parts are about different variables, so that a
step of one part leaves the others alone. `LimiterHolds` relates the buckets to the admissions
of a caller: a bucket counts the admissions since its window began, before which the
window held no more than the limit (`Bucketed`), and a caller whose bucket is over or was
swept had no more than that in the last window (`Idle`); two windows that meet
then admit twice the limit at most (`Bounds`). `LoggedOutStays` needs that every session
has a number of its own that no later one gets, and that no request
shows a cookie that was not made (`SessionInv`, `ReqTypes`): a login then cannot
bring back a session that ended, and a refresh looks for it again under its lock.
`DatabaseIsFresh` needs `GeoInv`, which holds in the middle of an update as well: only
between a download and its reload may the file be newer than the reader, and after a
command has replaced it.
`CountersAgree` counts the requests by their places; each step moves one request
into, or out of, one of the sets that are counted, which are finite
(`RequestsAssumption`).
`DayIsCounted` rests on `DayInv`: a bucket counts the requests begun in the hour that it
is for, that hour is the latest of those that were ever filed in it, and no
request is a day behind the clock; two hours of one bucket that are less than a day
apart are then one hour (`SameSlot`), so no bucket that is still needed is used again. That the sum
over the buckets is a number of requests (`SumTallies`) is an induction over sets, done by
hand: the number of requests filed under a set of buckets satisfies the equation that
defines the sum, and among the subsets where the two differ there would be a smallest.

**Tui.** `AskedAsListed` and `ScreensHaveContent` rest on `ModeAgrees`, that the mode of
a list and what it lists change together, and on what is under way:
who asks or saves has a server, and an answer that may lead back to the names was asked for
from them (`PendingHold`); nothing is under way when the process is down
(`DownIsIdle`), so that no answer of an earlier process reaches a later one.
`AddressSticks` rests on `SaveInv`: while saves have not mixed there is one at a time,
what a command saves once the wizard has is the address of the wizard (`CommandKeeps`), and a
save of the wizard writes a valid address and ends with its program.

**ServiceInstall.** `CommandsTellTheTruth`, `HalfDoneInstallsRepeat` and
`DataAreRemovedLast` are about any number of commands, faults and starts. The lemmas
`InstallParts` and `UninstallParts` say what the sequences of the nine managers have in
common: which kinds of steps there are, which of them end the command, and that the data
come after the service. `ServiceInv` then says of a command under way that each step which is
no more ahead of it is done, or was passed over; when nothing is
ahead, this is what the command tells. An account that was made lasts until an uninstall,
and with it what `Startable` asks for.

## Only model-checked

- Liveness under fairness is out of the prover's reach: `DueTaskRuns`, `InterruptedRunRepeats`,
  `StartAndStopEnd`, `SearchEnds`, `EndsWhenTold`, `ServesAgain`, `Settles`, `DailyRecurs`,
  `NoticesDeath` and `ShutdownEnds`.
- The refutation of `cron_fold`, which is a behaviour.

## Not modelled

Left out for good: daemon mode (the process starts itself again), the templates (pure
search in data compiled in), the handlers of pages and the status of the scheduler (they
render read-only data), translation, helpers and developer tools (stateless). In the
modelled parts: the text format of times, task names, durations and error texts, whole
seconds (a row stores times in them, and the model's unit is five minutes), the email on
an error and SMTP, TLS itself, the table of routes, headers and compression, SQL and the
archive format, the pruning of old archives, logs and sessions, the schema of the
database, the replacement of the binary on Windows, ACME's own files, the search for the
tor binary and the vanity search (they change no state that lasts), the ASN and city
databases (they go the way of the country's), the layout of the client and its printing
commands, the text of unit files (one that was cut off is written again by the next
install), a user of the service that is configured to another than the one the install
makes, and the search for a way to escalate. The handlers of tasks in `Scheduler` are a
choice among success, failure and skipping, taken at any time or never; what the update,
backup and GeoIP tasks do is in their own modules.
