----------------------------- MODULE TorManager -----------------------------
(***************************************************************************)
(* src/tor: the manager of the tor process and its hidden service. One     *)
(* mutex serialises the goroutine of the start and of Monitor, the calls   *)
(* of an operator and the shutdown; the tor subcommand of another process  *)
(* changes the same files without it.                                      *)
(***************************************************************************)
EXTENDS Naturals, FiniteSets

CONSTANTS MaxKeys,                 \* bound on keys, generated or imported
          Plans                    \* what an operator may ask for in a run: calls
                                   \* of the manager ("update", "regenerate",
                                   \* "apply") and of the subcommand ("regenerate",
                                   \* "import", "stage", "vanity"), and a bound
                                   \* on the crashes and failing calls

ASSUME TorAssumption ==
  /\ MaxKeys \in Nat \ {0}
  /\ \A p \in Plans : p.faults \in Nat /\ p.calls \subseteq {"update", "regenerate", "apply"}

Keys  == 1..MaxKeys                \* each with the address that belongs to it
None  == 0                         \* no such file, or no key
Empty == MaxKeys + 1               \* a file truncated and not written

\* The goroutine of startTor, main, and a caller of the manager.
Threads == {"boot", "main", "caller"}

VARIABLES plan,                    \* one of Plans, the same throughout
          up, cancelled,           \* the server runs; torCancel was called
          mu,                      \* who holds the mutex, or "free"
          th,                      \* each thread: its place, the operation that
                                   \* it is in, the key it holds
          svc,                     \* the address of tm.service, or None
          health,                  \* its tor process: "alive", "dead" or "hung"
          procs,                   \* tor processes started and not closed
          torrc,                   \* "none", "empty" or "good"
          files,                   \* key, hostname and the staged vanity key
          cli,                     \* the subcommand: its place and key
          next,                    \* the next key
          faults,
          \* history:
          owed,                    \* the address that starts shall announce, or
                                   \* None: any
          lost                     \* the key announced is not in the file, or the
                                   \* subcommand ran beside a start

torVars == <<up, cancelled, mu, th, svc, health, procs, torrc, files, cli, next, faults, owed, lost>>

Out == [pc |-> "out", op |-> "none", key |-> None]

Init ==
  /\ plan \in Plans
  /\ up = FALSE /\ cancelled = FALSE /\ mu = "free"
  /\ th = [t \in Threads |-> Out]
  /\ svc = None /\ health = "alive" /\ procs = 0
  /\ torrc \in {"none", "good"}
  /\ files = [key |-> None, host |-> None, staged |-> None]
  /\ cli = [pc |-> "idle", key |-> None]
  /\ next = 1 /\ faults = 0 /\ owed = None /\ lost = FALSE

Fault == faults < plan.faults /\ faults' = faults + 1
At(t, pc) == up /\ th[t].pc = pc
Go(t, pc) == th' = [th EXCEPT ![t].pc = pc]

\* Where a thread goes on when its operation ends: a first start that failed
\* ends its goroutine, a restart goes back to watching.
Back(t, ok) ==
  CASE t = "boot" /\ th[t].op = "start" -> IF ok THEN "watch" ELSE "ended"
    [] t = "boot" -> "watch"
    [] t = "main" -> "exit"
    [] OTHER -> "out"

Unlock(t, ok) == mu' = "free" /\ Go(t, Back(t, ok))

-----------------------------------------------------------------------------
\* The server starts; main launches the goroutine of startTor.
Launch ==
  /\ ~up
  /\ up' = TRUE /\ cancelled' = FALSE
  /\ th' = [t \in Threads |-> IF t = "boot" THEN [Out EXCEPT !.pc = "lock", !.op = "start"] ELSE Out]
  /\ UNCHANGED <<mu, svc, health, procs, torrc, files, cli, next, faults, owed, lost>>

\* Every operation of the manager takes the mutex. Start goes on to startLocked,
\* the others close the service first.
Lock(t) ==
  /\ At(t, "lock") /\ mu = "free"
  /\ mu' = t
  /\ Go(t, IF th[t].op = "start" THEN "torrc" ELSE "close")
  /\ UNCHANGED <<up, cancelled, svc, health, procs, torrc, files, cli, next, faults, owed, lost>>

\* A probe of the monitor fails when another thread closes the connection.
AfterClose(t) ==
  LET pc == CASE th[t].op = "shutdown" -> "exit" [] th[t].op = "restart" -> "torrc" [] OTHER -> "change"
  IN [u \in Threads |-> IF u = t THEN [th[t] EXCEPT !.pc = pc]
                        ELSE IF th[u].pc = "probe" THEN [Out EXCEPT !.pc = "lock", !.op = "restart"]
                        ELSE th[u]]

\* TorService.Close, in Restart, Close and the operator's calls.
CloseService(t) ==
  /\ At(t, "close")
  /\ svc' = None
  /\ procs' = IF svc = None THEN procs ELSE procs - 1
  /\ th' = AfterClose(t)
  /\ mu' = IF th[t].op = "shutdown" THEN "free" ELSE mu
  /\ UNCHANGED <<up, cancelled, health, torrc, files, cli, next, faults, owed, lost>>

\* UpdateConfig opens torrc, RegenerateAddress removes the keys, ApplyKeys opens
\* the key file; an error ends them without a service.
Change(t) ==
  /\ At(t, "change")
  /\ \/ /\ th[t].op = "update" /\ torrc' = "empty" /\ Go(t, "fill")
        /\ UNCHANGED <<mu, files, faults, owed, lost>>
     \/ /\ th[t].op = "regenerate"
        /\ files' = [key |-> None, host |-> None, staged |-> None] /\ owed' = None
        /\ lost' = (lost \/ cli.pc # "idle")
        /\ Go(t, "torrc")
        /\ UNCHANGED <<mu, torrc, faults>>
     \/ /\ th[t].op = "apply"
        /\ files' = [files EXCEPT !.key = Empty] /\ owed' = None
        /\ lost' = (lost \/ cli.pc # "idle")
        /\ Go(t, "write")
        /\ UNCHANGED <<mu, torrc, faults>>
     \/ Fault /\ Unlock(t, FALSE) /\ UNCHANGED <<torrc, files, owed, lost>>
  /\ UNCHANGED <<up, cancelled, svc, health, procs, cli, next>>

\* ensureTorFile of the operator's key.
WriteKey(t) ==
  /\ At(t, "write")
  /\ files' = [files EXCEPT !.key = th[t].key]
  /\ owed' = th[t].key
  /\ lost' = (lost \/ cli.pc # "idle" \/ files.key # Empty)
  /\ Go(t, "torrc")
  /\ UNCHANGED <<up, cancelled, mu, svc, health, procs, torrc, cli, next, faults>>

\* startDedicatedTor: ensureTorDirs, and ensureTorrc, which opens the file ...
OpenTorrc(t) ==
  /\ At(t, "torrc")
  /\ IF torrc = "none" THEN torrc' = "empty" /\ Go(t, "fill")
     ELSE Go(t, "launch") /\ UNCHANGED torrc
  /\ UNCHANGED <<up, cancelled, mu, svc, health, procs, files, cli, next, faults, owed, lost>>

\* ... and writes it, but never again once it is there.
FillTorrc(t) ==
  /\ At(t, "fill")
  /\ torrc' = "good" /\ Go(t, "launch")
  /\ UNCHANGED <<up, cancelled, mu, svc, health, procs, files, cli, next, faults, owed, lost>>

\* Mutant: a start that fails leaves its process behind.
StartLeaks(t) ==
  /\ up /\ th[t].pc \in {"torrc", "launch", "key"}
  /\ IF cancelled THEN UNCHANGED faults ELSE Fault
  /\ procs' = procs
  /\ Unlock(t, FALSE)
  /\ UNCHANGED <<up, cancelled, svc, health, torrc, files, cli, next, owed, lost>>

\* Any step of a start may fail, and does when the context is cancelled: the
\* process is closed and there is no service.
StartFails(t) ==
  /\ up /\ th[t].pc \in {"torrc", "launch", "key"}
  /\ IF cancelled THEN UNCHANGED faults ELSE Fault
  /\ procs' = IF th[t].pc = "key" THEN procs - 1 ELSE procs
  /\ Unlock(t, FALSE)
  /\ UNCHANGED <<up, cancelled, svc, health, torrc, files, cli, next, owed, lost>>

\* tor.Start and EnableNetwork, which may take minutes.
Bootstrap(t) ==
  /\ At(t, "launch") /\ ~cancelled
  /\ procs' = procs + 1
  /\ Go(t, "key")
  /\ UNCHANGED <<up, cancelled, mu, svc, health, torrc, files, cli, next, faults, owed, lost>>

\* Mutant: the key that is there is not used.
NewKey(t) ==
  /\ At(t, "key") /\ next <= MaxKeys
  /\ th' = [th EXCEPT ![t] = [@ EXCEPT !.pc = "open", !.key = next]]
  /\ next' = next + 1
  /\ UNCHANGED <<up, cancelled, mu, svc, health, procs, torrc, files, cli, faults, owed, lost>>

\* loadOnionKey and ADD_ONION: the key of the file, or a new one if there is no
\* file or an empty one.
AddOnion(t) ==
  /\ At(t, "key")
  /\ IF files.key \in Keys
     THEN th' = [th EXCEPT ![t] = [@ EXCEPT !.pc = "host", !.key = files.key]] /\ UNCHANGED next
     ELSE /\ next <= MaxKeys
          /\ th' = [th EXCEPT ![t] = [@ EXCEPT !.pc = "open", !.key = next]]
          /\ next' = next + 1
  /\ UNCHANGED <<up, cancelled, mu, svc, health, procs, torrc, files, cli, faults, owed, lost>>

\* saveOnionKey; that it fails is only logged.
OpenKey(t) ==
  /\ At(t, "open")
  /\ \/ files' = [files EXCEPT !.key = Empty] /\ Go(t, "save") /\ UNCHANGED faults
     \/ Fault /\ Go(t, "host") /\ UNCHANGED files
  /\ UNCHANGED <<up, cancelled, mu, svc, health, procs, torrc, cli, next, owed, lost>>

SaveKey(t) ==
  /\ At(t, "save")
  /\ files' = [files EXCEPT !.key = th[t].key]
  /\ Go(t, "host")
  /\ lost' = (lost \/ cli.pc # "idle" \/ files.key # Empty)
  /\ UNCHANGED <<up, cancelled, mu, svc, health, procs, torrc, cli, next, faults, owed>>

\* The hostname file, and tm.service: the address is announced, and owed from
\* then on if none was, also when its key could not be saved.
Serve(t) ==
  /\ At(t, "host")
  /\ files' = [files EXCEPT !.host = th[t].key]
  /\ svc' = th[t].key /\ health' = "alive"
  /\ owed' = IF owed = None \/ lost THEN th[t].key ELSE owed
  /\ lost' = (cli.pc # "idle" \/ IF lost THEN files.key # th[t].key ELSE files.key \notin Keys)
  /\ Unlock(t, TRUE)
  /\ UNCHANGED <<up, cancelled, procs, torrc, cli, next, faults>>

-----------------------------------------------------------------------------
\* Mutant: the monitor watches for the first restart only.
TickOnce ==
  /\ At("boot", "watch") /\ mu = "free" /\ th["boot"].op = "start"
  /\ svc # None /\ health # "alive"
  /\ Go("boot", "probe")
  /\ UNCHANGED <<up, cancelled, mu, svc, health, procs, torrc, files, cli, next, faults, owed, lost>>

\* Monitor, every 30 seconds: it takes the service under the mutex and probes it
\* after. Without a service it waits for the next tick.
Tick ==
  /\ At("boot", "watch") /\ mu = "free"
  /\ svc # None /\ health # "alive"
  /\ Go("boot", "probe")
  /\ UNCHANGED <<up, cancelled, mu, svc, health, procs, torrc, files, cli, next, faults, owed, lost>>

\* Mutant: the monitor keeps the mutex while it restarts the service.
ProbeLocked ==
  /\ At("boot", "probe") /\ health = "dead"
  /\ mu' = "boot"
  /\ th' = [th EXCEPT !["boot"] = [Out EXCEPT !.pc = "lock", !.op = "restart"]]
  /\ UNCHANGED <<up, cancelled, svc, health, procs, torrc, files, cli, next, faults, owed, lost>>

\* Restart, if the probe fails. A process that hangs does not answer, and the
\* probe has no timeout.
Probe ==
  /\ At("boot", "probe") /\ health = "dead"
  /\ th' = [th EXCEPT !["boot"] = [Out EXCEPT !.pc = "lock", !.op = "restart"]]
  /\ UNCHANGED <<up, cancelled, mu, svc, health, procs, torrc, files, cli, next, faults, owed, lost>>

\* The context is done.
MonitorEnds ==
  /\ At("boot", "watch") /\ cancelled
  /\ Go("boot", "ended")
  /\ UNCHANGED <<up, cancelled, mu, svc, health, procs, torrc, files, cli, next, faults, owed, lost>>

\* An operator's call. The code has no guard against one that comes before Start,
\* which closes no service and would leave a second process; but no route leads to
\* these methods yet, and the model's callers come once Start holds the mutex.
Call ==
  /\ At("caller", "out") /\ ~cancelled
  /\ th["boot"].op = "start" => th["boot"].pc # "lock"
  /\ \E op \in plan.calls :
       /\ op = "apply" => next <= MaxKeys
       /\ next' = IF op = "apply" THEN next + 1 ELSE next
       /\ th' = [th EXCEPT !["caller"] = [pc |-> "lock", op |-> op, key |-> IF op = "apply" THEN next ELSE None]]
  /\ UNCHANGED <<up, cancelled, mu, svc, health, procs, torrc, files, cli, faults, owed, lost>>

\* The shutdown cancels the contexts, which also kills a tor process, and then
\* asks for the mutex.
Shutdown ==
  /\ At("main", "out")
  /\ cancelled' = TRUE
  /\ th' = [th EXCEPT !["main"] = [Out EXCEPT !.pc = "lock", !.op = "shutdown"]]
  /\ health' = "dead"
  /\ UNCHANGED <<up, mu, svc, procs, torrc, files, cli, next, faults, owed, lost>>

\* The process ends. A tor that outlives a killed server keeps its data
\* directory locked; the starts that fail stand for it.
Gone ==
  /\ up' = FALSE /\ mu' = "free" /\ svc' = None /\ procs' = 0
  /\ th' = [t \in Threads |-> Out]
  /\ UNCHANGED <<cancelled, health, torrc, files, cli, next, owed, lost>>

Exit == At("main", "exit") /\ Gone /\ UNCHANGED faults

Crash == up /\ Fault /\ Gone

\* The tor process of the service crashes or hangs.
ProcessFails ==
  /\ svc # None /\ health = "alive" /\ Fault
  /\ health' \in {"dead", "hung"}
  /\ UNCHANGED <<up, cancelled, mu, th, svc, procs, torrc, files, cli, next, owed, lost>>

-----------------------------------------------------------------------------
\* A start of the server between reading the key and announcing its address.
Starting == \E t \in Threads : th[t].pc \in {"write", "open", "save", "host"}

\* The subcommand: "stage" keeps a vanity key that was found, "import" and
\* "vanity" write a key over the one that is there, "regenerate" removes it.
Command ==
  /\ cli.pc = "idle"
  /\ \/ /\ "stage" \in plan.commands /\ next <= MaxKeys /\ files.staged = None
        /\ files' = [files EXCEPT !.staged = next]
        /\ next' = next + 1 /\ UNCHANGED <<cli, lost>>
     \/ /\ "import" \in plan.commands /\ next <= MaxKeys
        /\ files' = [files EXCEPT !.key = Empty]
        /\ cli' = [pc |-> "key", key |-> next]
        /\ next' = next + 1 /\ lost' = (lost \/ Starting)
     \/ /\ "vanity" \in plan.commands /\ files.staged # None
        /\ files' = [files EXCEPT !.key = Empty]
        /\ cli' = [pc |-> "key", key |-> files.staged]
        /\ lost' = (lost \/ Starting) /\ UNCHANGED next
     \/ /\ "regenerate" \in plan.commands
        /\ files' = [files EXCEPT !.key = None]
        /\ cli' = [pc |-> "host", key |-> None]
        /\ lost' = (lost \/ Starting) /\ UNCHANGED next
  /\ owed' = IF cli' = cli THEN owed ELSE None
  /\ UNCHANGED <<up, cancelled, mu, th, svc, health, procs, torrc, faults>>

CommandKey ==
  /\ cli.pc = "key"
  /\ \/ /\ files' = [files EXCEPT !.key = cli.key]
        /\ cli' = [cli EXCEPT !.pc = "host"]
        /\ lost' = (lost \/ Starting \/ files.key # Empty) /\ UNCHANGED faults
     \/ Fault /\ cli' = [pc |-> "idle", key |-> None]
        /\ lost' = (lost \/ Starting) /\ UNCHANGED files
  /\ UNCHANGED <<up, cancelled, mu, th, svc, health, procs, torrc, next, owed>>

\* The stale hostname and the staged key are removed and the address is told.
CommandHost ==
  /\ cli.pc = "host"
  /\ files' = [files EXCEPT !.host = None, !.staged = IF cli.key = @ THEN None ELSE @]
  /\ cli' = [pc |-> "idle", key |-> None]
  /\ owed' = cli.key
  /\ lost' = (lost \/ Starting)
  /\ UNCHANGED <<up, cancelled, mu, th, svc, health, procs, torrc, next, faults>>

ThreadStep(t) ==
  \/ Lock(t) \/ CloseService(t) \/ Change(t) \/ WriteKey(t) \/ OpenTorrc(t) \/ FillTorrc(t)
  \/ StartFails(t) \/ Bootstrap(t) \/ AddOnion(t) \/ OpenKey(t) \/ SaveKey(t) \/ Serve(t)

Monitor == Tick \/ Probe \/ MonitorEnds

Steps ==
  \/ Launch \/ Tick \/ Probe \/ MonitorEnds \/ Call \/ Shutdown \/ Exit \/ Crash \/ ProcessFails
  \/ Command \/ CommandKey \/ CommandHost
  \/ \E t \in Threads : ThreadStep(t)

Next == Steps /\ UNCHANGED plan

Spec == Init /\ [][Next]_<<plan, torVars>>

\* A thread that can go on does, and waits for the mutex only so long; the
\* ticker fires.
FairSpec ==
  /\ Spec
  /\ \A t \in Threads : WF_torVars(ThreadStep(t)) /\ SF_torVars(Lock(t))
  /\ SF_torVars(Tick) /\ WF_torVars(Probe) /\ WF_torVars(Exit)

-----------------------------------------------------------------------------
\* A thread inside an operation of the manager holds its mutex.
Working(t) == th[t].pc \in {"close", "change", "write", "torrc", "fill", "launch", "key", "open", "save", "host"}

\* There is never more than one tor process on the data directory, whatever the
\* start, the monitor, the operator and the shutdown do at once, and whatever
\* step of a start fails; a service that is announced has one.
OneProcess ==
  /\ procs <= 1
  /\ svc # None => procs = 1
  /\ \A t \in Threads : Working(t) => mu = t

\* Outside a change of the key, the file has the key of the address that is owed,
\* and the hostname that "tor status" shows while there is a service is its own.
AddressFiled ==
  (~lost /\ cli.pc = "idle" /\ ~Starting) =>
     /\ owed # None => files.key = owed
     /\ (svc # None /\ files.host \in Keys /\ files.key \in Keys) => files.host = files.key

AnnouncesOwed == (svc' \notin {svc, None} /\ owed # None /\ ~lost) => svc' = owed

\* The address of the site outlives restarts of tor and crashes of the server
\* (saveOnionKey, loadOnionKey): once an address was announced, or told by the
\* subcommand, every start announces that one, until an operator or the
\* subcommand begins to replace its key. Exempt is the start after an
\* announcement whose key could not be saved, which is only logged, and what
\* is announced when the subcommand ran beside a start.
AddressKept == [][AddressFiled' /\ AnnouncesOwed]_torVars

\* A tor process that died is closed by the monitor, at a tick of its.
NoticesDeath ==
  (svc # None /\ health = "dead" /\ th["boot"].pc = "watch")
    ~> (svc = None \/ health # "dead")

\* A shutdown ends, even one that comes while tor starts or is restarted.
ShutdownEnds == (up /\ cancelled) ~> ~up

=============================================================================
