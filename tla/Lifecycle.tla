------------------------------ MODULE Lifecycle ------------------------------
(***************************************************************************)
(* The server's processes on one machine (src/main.go): the PID file that  *)
(* keeps a second instance out (src/pidfile.go), the listener goroutine    *)
(* with a signal handler of its own (src/server/server.go), the signals,   *)
(* and the tear-down.  Process ids are reused, also by other programs.     *)
(*                                                                         *)
(* One step is one access to the PID file, one channel operation or one    *)
(* stage of the start-up or the tear-down; a process may be killed between *)
(* any two.  What the scheduler does in its stages is in Scheduler.        *)
(* In a container, or without a path for it, there is no PID file          *)
(* (pidfile.go:18): nothing then keeps a second instance out but the port. *)
(***************************************************************************)
EXTENDS Integers

CONSTANTS
  Pids,        \* the process ids of the machine
  None,        \* no PID file, or nobody on the port
  Empty,       \* a PID file that was created or truncated but not written
  RunsAsRoot,  \* is the server started by root, and drops its privileges?
  MaxStarts,   \* bound: number of starts of the server
  MaxSignals   \* bound: number of signals sent

ASSUME LifecycleAssumption ==
  /\ None \notin Pids /\ Empty \notin Pids /\ None # Empty
  /\ RunsAsRoot \in BOOLEAN
  /\ MaxStarts \in Nat /\ MaxSignals \in Nat

\* SIGTERM and SIGINT; SIGQUIT and SIGRTMIN+3; SIGUSR1 and SIGUSR2.
Signals == {"TERM", "QUIT", "USR"}

VARIABLES
  proc,     \* the process table
  file,     \* the content of the PID file
  port,     \* the process that listens on the configured port
  starts,   \* number of starts of the server
  sent,     \* number of signals sent
  \* History, read by the properties only.
  raced,    \* a start read the file while another was about to write it
  crashed   \* a process of the server was killed

vars == <<proc, file, port, starts, sent, raced, crashed>>

\* What main is about to do: read the PID file, open it, write it; finish the
\* start-up (the scheduler's Start above all); select; stop Tor; stop the
\* scheduler; read the PID file again, remove it; exit.
Stages == {"check", "open", "fill", "start", "select", "tor", "sched",
           "reread", "unlink", "exit"}

\* The goroutine of server.Start: not launched; launched; port bound; serving,
\* with its signal handler installed; Serve returned after Shutdown; failed.
Listener == {"none", "launched", "bound", "serving", "closed", "failed"}

Proc == [kind : {"free", "other", "server"},
         pc : Stages,
         srv : Listener,
         stop : {"idle", "heard", "taken"},     \* the channel stop of Start
         inbox : {"empty"} \cup Signals,        \* main's sigChan, of length one
         dropped : BOOLEAN,                     \* privileges dropped?
         code : {0, 69}]                        \* argument of os.Exit

Idle == [kind |-> "free", pc |-> "check", srv |-> "none", stop |-> "idle",
         inbox |-> "empty", dropped |-> FALSE, code |-> 0]

Alive(p)    == proc[p].kind # "free"
At(p, pc)   == proc[p].kind = "server" /\ proc[p].pc = pc
Serves(p)   == proc[p].kind = "server" /\ proc[p].srv = "serving"

\* The listener has gone: server.Start has put its result into errChan.
Gone(p) == proc[p].kind = "server" /\ proc[p].srv \in {"closed", "failed"}

-----------------------------------------------------------------------------
Init ==
  /\ proc = [p \in Pids |-> Idle]
  /\ file = None /\ port = None
  /\ starts = 0 /\ sent = 0
  /\ raced = FALSE /\ crashed = FALSE

bounds  == <<starts, sent>>
history == <<raced, crashed>>

\* main goes on to its next stage.
GoTo(p, pc) == proc' = [proc EXCEPT ![p].pc = pc]

\* The process ends; the system closes what it had open.
Ends(p) ==
  /\ proc' = [proc EXCEPT ![p] = Idle]
  /\ port' = IF port = p THEN None ELSE port

\* The server is started, with any id that is free; it subscribes to signals.
Launch(p) ==
  /\ ~Alive(p) /\ starts < MaxStarts
  /\ proc' = [proc EXCEPT ![p] = [Idle EXCEPT !.kind = "server"]]
  /\ starts' = starts + 1
  /\ UNCHANGED <<file, port, sent, history>>

\* Another program gets an id, and gives it back.
OtherStarts(p) ==
  /\ ~Alive(p)
  /\ proc' = [proc EXCEPT ![p].kind = "other"]
  /\ UNCHANGED <<file, port, bounds, history>>

OtherEnds(p) ==
  /\ proc[p].kind = "other"
  /\ proc' = [proc EXCEPT ![p] = Idle]
  /\ UNCHANGED <<file, port, bounds, history>>

\* writePIDFile finds the id of another process that is alive, whatever it is.
Blocked(p) == file \in Pids \ {p} /\ Alive(file)

\* Mutant: every way out of main removes the file.
RefuseRemovingFile(p) ==
  /\ At(p, "check") /\ Blocked(p)
  /\ Ends(p)
  /\ file' = None
  /\ UNCHANGED <<bounds, history>>

\* "already running": os.Exit(71).
Refuse(p) ==
  /\ At(p, "check") /\ Blocked(p)
  /\ Ends(p)
  /\ UNCHANGED <<file, bounds, history>>

CheckPasses(p) ==
  /\ At(p, "check") /\ ~Blocked(p)
  /\ GoTo(p, "open")
  /\ raced' = (raced \/ \E q \in Pids : At(q, "open") \/ At(q, "fill"))
  /\ UNCHANGED <<file, port, bounds, crashed>>

\* os.WriteFile creates or truncates the file.
OpenFile(p) ==
  /\ At(p, "open")
  /\ file' = Empty
  /\ GoTo(p, "fill")
  /\ UNCHANGED <<port, bounds, history>>

\* os.WriteFile writes the id, unless the file was removed in the meantime;
\* main launches the goroutine of the listener.
FillFile(p) ==
  /\ At(p, "fill")
  /\ file' = IF file = None THEN None ELSE p
  /\ proc' = [proc EXCEPT ![p].pc = "start", ![p].srv = "launched"]
  /\ UNCHANGED <<port, bounds, history>>

\* The file cannot be opened or written: os.Exit(71).
WriteFails(p) ==
  /\ At(p, "open") \/ At(p, "fill")
  /\ Ends(p)
  /\ UNCHANGED <<file, bounds, history>>

\* The rest of the start-up: email, scheduler, GeoIP, Tor.
StartupDone(p) ==
  /\ At(p, "start")
  /\ GoTo(p, "select")
  /\ UNCHANGED <<file, port, bounds, history>>

-----------------------------------------------------------------------------
(* The goroutines of server.Start.                                          *)

\* The port is bound; a server started by root drops its privileges.
Bind(p) ==
  /\ proc[p].srv = "launched" /\ port = None
  /\ port' = p
  /\ proc' = [proc EXCEPT ![p].srv = "bound", ![p].dropped = RunsAsRoot]
  /\ UNCHANGED <<file, bounds, history>>

\* The signal handler is installed and the server serves.
Serve(p) ==
  /\ proc[p].srv = "bound"
  /\ proc' = [proc EXCEPT ![p].srv = "serving"]
  /\ UNCHANGED <<file, port, bounds, history>>

\* Start returns an error: the port is taken, no privileges or certificates, or
\* Serve failed.
ListenerFails(p) ==
  /\ proc[p].srv \in {"launched", "bound", "serving"}
  /\ proc' = [proc EXCEPT ![p].srv = "failed"]
  /\ port' = IF port = p THEN None ELSE port
  /\ UNCHANGED <<file, bounds, history>>

\* The goroutine in Start receives from stop and calls Shutdown, which closes
\* the listener, so that Serve and Start return, be there requests or not.
ShutdownListener(p) ==
  /\ proc[p].stop = "heard"
  /\ proc' = [proc EXCEPT ![p].stop = "taken",
                          ![p].srv = IF Serves(p) THEN "closed" ELSE @]
  /\ port' = IF port = p THEN None ELSE port
  /\ UNCHANGED <<file, bounds, history>>

-----------------------------------------------------------------------------
(* Signals and the tear-down.                                               *)

\* A signal goes to every channel that is subscribed to it and not full.
Signal(p, s) ==
  /\ proc[p].kind = "server" /\ sent < MaxSignals
  /\ sent' = sent + 1
  /\ proc' = [proc EXCEPT
       ![p].inbox = IF @ = "empty" THEN s ELSE @,
       ![p].stop  = IF s = "TERM" /\ Serves(p) /\ @ = "idle" THEN "heard" ELSE @]
  /\ UNCHANGED <<file, port, starts, history>>

\* main's select receives a signal: SIGUSR1 and SIGUSR2 only log.
SelectSignal(p) ==
  /\ At(p, "select") /\ proc[p].inbox # "empty"
  /\ proc' = [proc EXCEPT ![p].inbox = "empty",
       ![p].pc = IF proc[p].inbox = "USR" THEN @ ELSE "tor"]
  /\ UNCHANGED <<file, port, bounds, history>>

\* Mutant: a nil error is not taken for the end of the server.
SelectRealError(p) ==
  /\ At(p, "select") /\ proc[p].srv = "failed"
  /\ proc' = [proc EXCEPT ![p].pc = "reread", ![p].code = 69]
  /\ UNCHANGED <<file, port, bounds, history>>

\* main's select receives from errChan, be it an error or nil.
SelectError(p) ==
  /\ At(p, "select") /\ Gone(p)
  /\ proc' = [proc EXCEPT ![p].pc = "reread", ![p].code = 69]
  /\ UNCHANGED <<file, port, bounds, history>>

\* Tor has been closed.
TorClosed(p) ==
  /\ At(p, "tor")
  /\ GoTo(p, "sched")
  /\ UNCHANGED <<file, port, bounds, history>>

\* The scheduler's Stop has returned; the GeoIP readers are closed.
SchedulerStopped(p) ==
  /\ At(p, "sched")
  /\ GoTo(p, "reread")
  /\ UNCHANGED <<file, port, bounds, history>>

\* removePIDFile reads the file and leaves it alone if it names another process.
RereadFile(p) ==
  /\ At(p, "reread")
  /\ GoTo(p, IF file \in Pids \ {p} THEN "exit" ELSE "unlink")
  /\ UNCHANGED <<file, port, bounds, history>>

\* Mutant: a process that lost its listener leaves the file behind.
UnlinkOnSignalOnly(p) ==
  /\ At(p, "unlink")
  /\ file' = IF proc[p].code = 0 THEN None ELSE file
  /\ GoTo(p, "exit")
  /\ UNCHANGED <<port, bounds, history>>

\* removePIDFile removes the file; without privileges the attempt fails, since
\* the directory belongs to root, and the error is ignored.
UnlinkFile(p) ==
  /\ At(p, "unlink")
  /\ file' = IF proc[p].dropped THEN file ELSE None
  /\ GoTo(p, "exit")
  /\ UNCHANGED <<port, bounds, history>>

\* os.Exit with the code.
Exit(p) ==
  /\ At(p, "exit")
  /\ Ends(p)
  /\ UNCHANGED <<file, bounds, history>>

\* The process is killed.
Crash(p) ==
  /\ proc[p].kind = "server"
  /\ Ends(p)
  /\ crashed' = TRUE
  /\ UNCHANGED <<file, bounds, raced>>

\* The steps of main.
MainStep(p) ==
  \/ Refuse(p) \/ CheckPasses(p) \/ OpenFile(p) \/ FillFile(p) \/ WriteFails(p)
  \/ StartupDone(p) \/ SelectSignal(p) \/ SelectError(p) \/ TorClosed(p)
  \/ SchedulerStopped(p) \/ RereadFile(p) \/ UnlinkFile(p) \/ Exit(p)

Next ==
  \E p \in Pids :
    \/ Launch(p) \/ OtherStarts(p) \/ OtherEnds(p)
    \/ Bind(p) \/ Serve(p) \/ ListenerFails(p) \/ ShutdownListener(p)
    \/ \E s \in Signals : Signal(p, s)
    \/ MainStep(p) \/ Crash(p)

Spec == Init /\ [][Next]_vars

\* main and the goroutines of Start are scheduled; the stages of the start-up
\* and the tear-down end (the scheduler's by StartAndStopEnd of Scheduler).  Nothing
\* is assumed of signals or other programs.
FairSpec ==
  Spec /\ \A p \in Pids : WF_vars(MainStep(p)) /\ WF_vars(ShutdownListener(p))

-----------------------------------------------------------------------------
TypeOK ==
  /\ proc \in [Pids -> Proc]
  /\ file \in Pids \cup {None, Empty}
  /\ port \in Pids \cup {None}
  /\ \A p \in Pids : port = p <=> proc[p].srv \in {"bound", "serving"}
  /\ starts \in 0 .. MaxStarts /\ sent \in 0 .. MaxSignals
  /\ raced \in BOOLEAN /\ crashed \in BOOLEAN

\* The stages in which main takes itself for the only instance.
Owning(p) ==
  \E pc \in Stages \ {"check", "exit"} : At(p, pc)

\* Unless two starts overlap between their check and their write, one instance
\* runs at a time and the file names it until it removes it: across crashes,
\* files left behind, and ids used again (writePIDFile, removePIDFile).
OneInstance ==
  ~raced =>
    \A p \in Pids : Owning(p) =>
      /\ \A q \in Pids \ {p} : ~Owning(q)
      /\ file = p \/ At(p, "open") \/ At(p, "fill")

\* While no instance was ever killed, a start is refused only beside another
\* instance that runs: the stops leave no file that a new owner of the id could
\* bring back to life (removePIDFile on both ways out of main).
RefusedOnlyBesideAnother ==
  [][(~crashed /\ ~raced /\ \E p \in Pids : Refuse(p))
       => proc[file].kind = "server"]_vars

\* A process that is told to end does, whatever stage it is in: by a stop signal
\* that main's channel has room for, by a SIGTERM that only its listener hears
\* because another signal fills that channel, or by a listener that failed or
\* was closed, be it during the start-up (the loop of main, errChan, Start).
EndsWhenTold ==
  \A p \in Pids :
    (proc[p].inbox \in {"TERM", "QUIT"} \/ proc[p].stop = "heard" \/ Gone(p))
      ~> proc[p].kind = "free"
=============================================================================
