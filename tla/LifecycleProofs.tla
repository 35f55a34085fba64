--------------------------- MODULE LifecycleProofs ---------------------------
(***************************************************************************)
(* Theorems about Lifecycle, for every set of process ids and any number   *)
(* of starts and signals, and about ServiceInstall, which makes the host   *)
(* start the server: for every plan of commands, faults and starts. The    *)
(* two share no variable.                                                  *)
(***************************************************************************)
EXTENDS Lifecycle, ServiceInstall, TLAPS

\* The stages between the write of the PID file and its removal.
Settled == {"start", "select", "tor", "sched", "reread", "unlink"}

\* The fields of a process agree: before the PID file is written there is no
\* listener, and a listener that has heard a stop signal has served.
Consistent ==
  \A p \in Pids :
    /\ proc[p].kind # "server" => proc[p].srv = "none"
    /\ proc[p].pc \in {"check", "open", "fill"} => proc[p].srv = "none"
    /\ proc[p].stop # "idle" => proc[p].srv \in {"serving", "closed", "failed"}
    /\ proc[p].dropped => RunsAsRoot

\* A file that is being written is not removed.
FileStays == ~raced => \A p \in Pids : At(p, "fill") => file # None

\* While nothing was killed, a file that names a process names an instance that
\* has not begun to exit.
FileNamesInstance ==
  ~raced /\ ~crashed /\ ~RunsAsRoot /\ file \in Pids
    => \E pc \in Settled : At(file, pc)

\* The inductive invariant.
LInv == TypeOK /\ Consistent /\ OneInstance /\ FileStays /\ FileNamesInstance

-----------------------------------------------------------------------------
(* The kinds of steps: what a step of process p does, and why the invariant *)
(* survives it.                                                             *)

\* Only the entry of p changes in the process table.
Only(p) ==
  /\ proc' \in [Pids -> Proc]
  /\ \A q \in Pids \ {p} : proc'[q] = proc[q]

\* An idle entry is a legal one, without a listener.
LEMMA IdleFields ==
  /\ Idle \in Proc
  /\ Idle.kind = "free" /\ Idle.pc = "check" /\ Idle.srv = "none"
  /\ Idle.stop = "idle" /\ Idle.dropped = FALSE
BY LifecycleAssumption DEF LifecycleAssumption, Idle, Proc, Stages, Listener, Signals

\* An instance is at one of the stages from "open" to "unlink".
LEMMA OwningStages ==
  ASSUME NEW p \in Pids
  PROVE  Owning(p) <=> /\ proc[p].kind = "server"
                       /\ proc[p].pc \in {"open", "fill"} \cup Settled
BY DEF Owning, At, Stages, Settled

\* The initial states satisfy the invariant.
LEMMA InitLInv == Init => LInv
<1> SUFFICES ASSUME Init PROVE LInv
  OBVIOUS
<1>1. \A p \in Pids : proc[p] = Idle
  BY DEF Init
<1>2. TypeOK
  <2>1. proc \in [Pids -> Proc]
    BY IdleFields DEF Init
  <2>2. \A p \in Pids : port = p <=> proc[p].srv \in {"bound", "serving"}
    BY <1>1, IdleFields, LifecycleAssumption DEF Init, LifecycleAssumption
  <2>3. starts \in 0 .. MaxStarts /\ sent \in 0 .. MaxSignals
    BY LifecycleAssumption DEF Init, LifecycleAssumption
  <2>4. raced \in BOOLEAN /\ crashed \in BOOLEAN /\ file = None /\ port = None
    BY DEF Init
  <2> QED
    BY <2>1, <2>2, <2>3, <2>4 DEF TypeOK
<1>3. Consistent
  BY <1>1, IdleFields DEF Consistent
<1>4. OneInstance
  BY <1>1, IdleFields, OwningStages DEF OneInstance
<1>5. FileStays /\ FileNamesInstance
  BY <1>1, IdleFields, LifecycleAssumption
  DEF Init, FileStays, FileNamesInstance, At, LifecycleAssumption
<1> QED
  BY <1>2, <1>3, <1>4, <1>5 DEF LInv

\* A stage of main between the write and the removal of the PID file.
LEMMA StageStep ==
  ASSUME LInv, NEW p \in Pids, Only(p),
         proc[p].kind = "server", proc[p].pc \in Settled,
         proc'[p].pc \in Settled,
         proc'[p].kind = proc[p].kind, proc'[p].srv = proc[p].srv,
         proc'[p].stop = proc[p].stop, proc'[p].dropped = proc[p].dropped,
         UNCHANGED <<file, port, starts, sent, raced, crashed>>
  PROVE  LInv'
<1>1. TypeOK'
  BY DEF LInv, TypeOK, Only
<1>2. Consistent'
  BY DEF LInv, Consistent, Only, Settled
<1>3. OneInstance'
  <2>1. \A q \in Pids : Owning(q)' <=> Owning(q)
    BY DEF Owning, At, Stages, Settled, Only
  <2>2. \A q \in Pids \ {p} : At(q, "open")' = At(q, "open") /\ At(q, "fill")' = At(q, "fill")
    BY DEF At, Only
  <2>3. Owning(p) /\ ~At(p, "open") /\ ~At(p, "fill")
    BY DEF Owning, At, Stages, Settled
  <2> QED
    BY <2>1, <2>2, <2>3 DEF LInv, OneInstance
<1>4. FileStays'
  BY DEF LInv, FileStays, At, Only, Settled
<1>5. FileNamesInstance'
  BY DEF LInv, FileNamesInstance, At, Only
<1> QED
  BY <1>1, <1>2, <1>3, <1>4, <1>5 DEF LInv

\* A step of the listener, a request or a signal.
LEMMA ListenerStep ==
  ASSUME LInv, NEW p \in Pids, Only(p),
         proc'[p].kind = proc[p].kind, proc'[p].pc = proc[p].pc,
         proc[p].srv = "none" => proc'[p].srv = "none",
         proc'[p].stop # "idle" => proc'[p].srv \in {"serving", "closed", "failed"},
         proc'[p].dropped => RunsAsRoot,
         port' \in Pids \cup {None},
         \A q \in Pids : port' = q <=> proc'[q].srv \in {"bound", "serving"},
         sent' \in 0 .. MaxSignals,
         UNCHANGED <<file, starts, raced, crashed>>
  PROVE  LInv'
<1>1. TypeOK'
  BY DEF LInv, TypeOK, Only
<1>2. Consistent'
  BY DEF LInv, Consistent, Only
<1>3. \A q \in Pids, pc \in Stages : At(q, pc)' = At(q, pc)
  BY DEF At, Only
<1>4. OneInstance'
  BY <1>3 DEF LInv, OneInstance, Owning, Stages
<1>5. FileStays'
  BY <1>3 DEF LInv, FileStays, Stages
<1>6. FileNamesInstance'
  BY <1>3 DEF LInv, FileNamesInstance, Stages, Settled
<1> QED
  BY <1>1, <1>2, <1>4, <1>5, <1>6 DEF LInv

\* The end of a process, of the server or of another program.
LEMMA EndStep ==
  ASSUME LInv, NEW p \in Pids, Ends(p),
         crashed' \in BOOLEAN, crashed => crashed',
         ~raced /\ ~crashed' /\ ~RunsAsRoot => file # p,
         UNCHANGED <<file, starts, sent, raced>>
  PROVE  LInv'
<1>0. Only(p) /\ proc'[p] = Idle
  BY IdleFields DEF Ends, Only, LInv, TypeOK
<1>1. TypeOK'
  <2>1. \A q \in Pids : port' = q <=> proc'[q].srv \in {"bound", "serving"}
    BY <1>0, IdleFields, LifecycleAssumption DEF Ends, LInv, TypeOK, Only, LifecycleAssumption
  <2> QED
    BY <1>0, <2>1 DEF LInv, TypeOK, Only, Ends
<1>2. Consistent'
  BY <1>0, IdleFields DEF LInv, Consistent, Only
<1>3. \A q \in Pids \ {p}, pc \in Stages : At(q, pc)' = At(q, pc)
  BY <1>0 DEF At, Only
<1>4. \A pc \in Stages : ~At(p, pc)'
  BY <1>0, IdleFields DEF At
<1>5. OneInstance'
  BY <1>3, <1>4 DEF LInv, OneInstance, Owning, Stages
<1>6. FileStays'
  BY <1>3, <1>4 DEF LInv, FileStays, Stages
<1>7. FileNamesInstance'
  BY <1>3, <1>4 DEF LInv, FileNamesInstance, Stages, Settled
<1> QED
  BY <1>1, <1>2, <1>5, <1>6, <1>7 DEF LInv

-----------------------------------------------------------------------------
(* The steps, one by one.                                                   *)

\* An id is taken, by the server or by another program.
LEMMA LaunchStep ==
  ASSUME LInv, NEW p \in Pids, Launch(p) \/ OtherStarts(p)
  PROVE  LInv'
<1>0. Only(p) /\ UNCHANGED <<file, port, sent, raced, crashed>> /\ starts' \in 0 .. MaxStarts
  <2>1. CASE Launch(p)
    <3>1. [Idle EXCEPT !.kind = "server"] \in Proc
      BY IdleFields DEF Proc
    <3>2. Only(p)
      BY <2>1, <3>1 DEF Launch, Only, LInv, TypeOK
    <3>3. starts' \in 0 .. MaxStarts
      BY <2>1, LifecycleAssumption DEF Launch, LInv, TypeOK, LifecycleAssumption
    <3> QED
      BY <2>1, <3>2, <3>3 DEF Launch, history
  <2>2. CASE OtherStarts(p)
    <3>1. Only(p)
      BY <2>2 DEF OtherStarts, Only, LInv, TypeOK, Proc
    <3> QED
      BY <2>2, <3>1 DEF OtherStarts, history, bounds, LInv, TypeOK
  <2> QED
    BY <2>1, <2>2
<1>1. /\ proc[p].kind = "free"
      /\ \/ /\ proc'[p].kind = "server" /\ proc'[p].pc = "check" /\ proc'[p].stop = "idle"
            /\ proc'[p].srv = "none" /\ proc'[p].dropped = FALSE
         \/ /\ proc'[p].kind = "other" /\ proc'[p].pc = proc[p].pc
            /\ proc'[p].srv = proc[p].srv /\ proc'[p].stop = proc[p].stop
            /\ proc'[p].dropped = proc[p].dropped
  <2>1. proc[p].kind = "free"
    BY DEF Launch, OtherStarts, Alive
  <2>2. CASE Launch(p)
    <3> DEFINE new == [Idle EXCEPT !.kind = "server"]
    <3>1. proc'[p] = new
      BY <2>2 DEF Launch, LInv, TypeOK
    <3>2. new.kind = "server" /\ new.pc = "check" /\ new.stop = "idle" /\ new.srv = "none"
          /\ new.dropped = FALSE
      BY IdleFields DEF Proc
    <3> HIDE DEF new
    <3> QED
      BY <2>1, <3>1, <3>2
  <2>3. CASE OtherStarts(p)
    BY <2>1, <2>3 DEF OtherStarts, LInv, TypeOK, Proc
  <2> QED
    BY <2>2, <2>3
<1>2. proc[p].srv = "none" /\ proc'[p].srv = "none"
  BY <1>1 DEF LInv, Consistent
<1>3. TypeOK'
  BY <1>0, <1>2 DEF LInv, TypeOK, Only
<1>4. Consistent'
  BY <1>0, <1>1, <1>2 DEF LInv, Consistent, Only
<1>5. \A q \in Pids, pc \in Stages \ {"check"} : At(q, pc)' = At(q, pc)
  BY <1>0, <1>1 DEF At, Only
<1>6. OneInstance'
  BY <1>0, <1>5 DEF LInv, OneInstance, Owning, Stages
<1>7. FileStays'
  BY <1>0, <1>5 DEF LInv, FileStays, Stages
<1>8. FileNamesInstance'
  BY <1>0, <1>5 DEF LInv, FileNamesInstance, Stages, Settled
<1> QED
  BY <1>3, <1>4, <1>6, <1>7, <1>8 DEF LInv

\* A step of main on its way to the serving stages: what it changes of p, and
\* the facts that do not depend on the file.
Moves(p, from, to) ==
  /\ Only(p)
  /\ proc[p].kind = "server" /\ proc[p].pc = from
  /\ proc'[p].kind = "server" /\ proc'[p].pc = to
  /\ proc'[p].stop = proc[p].stop /\ proc'[p].dropped = proc[p].dropped
  /\ UNCHANGED <<port, starts, sent, crashed>>

LEMMA MovesTypes ==
  ASSUME LInv, NEW p \in Pids, NEW from \in Stages, NEW to \in Stages,
         Moves(p, from, to),
         \/ proc'[p].srv = proc[p].srv /\ (to \in {"check", "open", "fill"} => from \in {"check", "open", "fill"})
         \/ proc[p].srv = "none" /\ proc'[p].srv = "launched" /\ to = "start" /\ from = "fill",
         file' \in Pids \cup {None, Empty}, raced' \in BOOLEAN
  PROVE  TypeOK' /\ Consistent'
<1>1. TypeOK'
  BY DEF LInv, TypeOK, Only, Moves
<1>2. Consistent'
  BY DEF LInv, Consistent, Only, Moves
<1> QED
  BY <1>1, <1>2

\* writePIDFile lets p pass: no instance can be past its own check.
LEMMA CheckStep ==
  ASSUME LInv, NEW p \in Pids, CheckPasses(p)
  PROVE  LInv'
<1>0. Moves(p, "check", "open") /\ proc'[p].srv = proc[p].srv /\ raced' \in BOOLEAN /\ file' = file
  BY DEF CheckPasses, GoTo, Moves, Only, At, LInv, TypeOK, Proc, Stages, bounds
<1>1. TypeOK' /\ Consistent'
  BY <1>0, MovesTypes DEF Stages, LInv, TypeOK
<1>2. ~raced' => ~raced /\ \A q \in Pids : ~At(q, "open") /\ ~At(q, "fill")
  BY DEF CheckPasses
<1>3. ~raced' => \A q \in Pids : ~Owning(q)
  <2> SUFFICES ASSUME ~raced', NEW q \in Pids, Owning(q) PROVE FALSE
    OBVIOUS
  <2>1. file = q /\ proc[q].kind = "server" /\ proc[q].pc # "check"
    BY <1>2, OwningStages DEF LInv, OneInstance, Settled
  <2>2. q # p
    BY <1>0, <2>1 DEF Moves
  <2> QED
    BY <2>1, <2>2 DEF CheckPasses, Blocked, Alive
<1>4. \A q \in Pids \ {p}, pc \in Stages : At(q, pc)' = At(q, pc)
  BY <1>0 DEF At, Only, Moves
<1>5. \A q \in Pids \ {p} : Owning(q)' <=> Owning(q)
  BY <1>4 DEF Owning, Stages
<1>6. At(p, "open")' /\ ~At(p, "fill")'
  BY <1>0 DEF At, Moves
<1>7. OneInstance'
  BY <1>3, <1>5, <1>6 DEF OneInstance
<1>8. FileStays'
  BY <1>0, <1>2, <1>4, <1>6 DEF FileStays, Stages
<1>9. FileNamesInstance'
  <2> SUFFICES ASSUME ~raced', ~crashed', ~RunsAsRoot, file' \in Pids
               PROVE  FALSE
    BY DEF FileNamesInstance
  <2>1. PICK pc \in Settled : At(file, pc)
    BY <1>0, <1>2 DEF LInv, FileNamesInstance, Moves
  <2>2. Owning(file)
    BY <2>1 DEF Owning, Settled, Stages
  <2> QED
    BY <1>0, <1>3, <2>2
<1> QED
  BY <1>1, <1>7, <1>8, <1>9 DEF LInv

\* os.WriteFile truncates the file, then fills it.
LEMMA WriteStep ==
  ASSUME LInv, NEW p \in Pids, OpenFile(p) \/ FillFile(p)
  PROVE  LInv'
<1>1. /\ \/ /\ Moves(p, "open", "fill") /\ proc'[p].srv = proc[p].srv /\ file' = Empty
         \/ /\ Moves(p, "fill", "start") /\ proc[p].srv = "none"
            /\ proc'[p].srv = "launched" /\ file' = IF file = None THEN None ELSE p
      /\ raced' = raced /\ crashed' = crashed
  <2>1. CASE OpenFile(p)
    BY <2>1 DEF OpenFile, GoTo, Moves, Only, At, LInv, TypeOK, Proc, Stages, bounds, history
  <2>2. CASE FillFile(p)
    <3>1. proc[p].srv = "none" /\ proc[p].kind = "server" /\ proc[p].pc = "fill"
      BY <2>2 DEF FillFile, At, LInv, Consistent
    <3> QED
      BY <2>2, <3>1 DEF FillFile, Moves, Only, LInv, TypeOK, Proc, Stages, Listener, bounds, history
  <2> QED
    BY <2>1, <2>2
<1>2. TypeOK' /\ Consistent'
  BY <1>1, MovesTypes DEF Stages, LInv, TypeOK
<1>3. \A q \in Pids \ {p}, pc \in Stages : At(q, pc)' = At(q, pc)
  BY <1>1 DEF At, Only, Moves
<1>4. Owning(p) /\ Owning(p)'
  BY <1>1 DEF Owning, At, Moves, Stages
<1>5. ~raced => \A q \in Pids \ {p} : ~Owning(q) /\ ~Owning(q)'
  BY <1>3, <1>4 DEF LInv, OneInstance, Owning, Stages
<1>6. ~raced => (At(p, "fill")' /\ file' = Empty) \/ (~At(p, "open")' /\ ~At(p, "fill")' /\ file' = p)
  BY <1>1 DEF At, Moves, LInv, FileStays
<1>7. OneInstance'
  BY <1>1, <1>5, <1>6 DEF OneInstance
<1>8. FileStays'
  <2>1. ~raced => \A q \in Pids \ {p} : ~At(q, "fill")'
    BY <1>5 DEF Owning, Stages
  <2> QED
    BY <1>1, <1>6, <2>1, LifecycleAssumption DEF FileStays, LifecycleAssumption
<1>9. FileNamesInstance'
  <2> SUFFICES ASSUME ~raced', ~crashed', ~RunsAsRoot, file' \in Pids
               PROVE  At(p, "start")' /\ file' = p
    BY DEF FileNamesInstance, Settled
  <2>1. file' = p
    BY <1>1, <1>6, LifecycleAssumption DEF LifecycleAssumption
  <2>2. Moves(p, "fill", "start")
    BY <1>1, <2>1, LifecycleAssumption DEF LifecycleAssumption
  <2> QED
    BY <2>1, <2>2 DEF At, Moves
<1> QED
  BY <1>2, <1>7, <1>8, <1>9 DEF LInv

\* removePIDFile finds another id in the file, or goes on to remove it.
LEMMA RereadStep ==
  ASSUME LInv, NEW p \in Pids, RereadFile(p)
  PROVE  LInv'
<1>1. CASE file \in Pids \ {p}
  <2>0. Moves(p, "reread", "exit") /\ proc'[p].srv = proc[p].srv /\ UNCHANGED <<file, raced>>
    BY <1>1 DEF RereadFile, GoTo, Moves, Only, At, LInv, TypeOK, Proc, Stages, bounds, history
  <2>1. TypeOK' /\ Consistent'
    BY <2>0, MovesTypes DEF Stages, LInv, TypeOK
  <2>2. \A q \in Pids \ {p}, pc \in Stages : At(q, pc)' = At(q, pc)
    BY <2>0 DEF At, Only, Moves
  <2>3. \A pc \in Stages \ {"exit"} : ~At(p, pc)'
    BY <2>0 DEF At, Moves
  <2>4. OneInstance'
    BY <2>0, <2>2, <2>3 DEF LInv, OneInstance, Owning, Stages
  <2>5. FileStays'
    BY <2>0, <2>2, <2>3 DEF LInv, FileStays, Stages
  <2>6. FileNamesInstance'
    BY <1>1, <2>0, <2>2 DEF LInv, FileNamesInstance, Stages, Settled, Moves
  <2> QED
    BY <2>1, <2>4, <2>5, <2>6 DEF LInv
<1>2. CASE file \notin Pids \ {p}
  <2>1. Only(p) /\ proc[p].kind = "server" /\ proc[p].pc = "reread"
    BY <1>2 DEF RereadFile, GoTo, Only, At, LInv, TypeOK, Proc, Stages
  <2>2. proc'[p].pc = "unlink" /\ proc'[p].kind = proc[p].kind /\ proc'[p].srv = proc[p].srv
        /\ proc'[p].stop = proc[p].stop /\ proc'[p].dropped = proc[p].dropped
    BY <1>2 DEF RereadFile, GoTo, LInv, TypeOK, Proc
  <2>3. UNCHANGED <<file, port, starts, sent, raced, crashed>>
    BY DEF RereadFile, bounds, history
  <2> QED
    BY <2>1, <2>2, <2>3, StageStep DEF Settled
<1> QED
  BY <1>1, <1>2

\* removePIDFile removes the file, or fails to.
LEMMA UnlinkStep ==
  ASSUME LInv, NEW p \in Pids, UnlinkFile(p)
  PROVE  LInv'
<1>0. /\ Moves(p, "unlink", "exit") /\ proc'[p].srv = proc[p].srv /\ raced' = raced
      /\ file' = IF proc[p].dropped THEN file ELSE None
  BY DEF UnlinkFile, GoTo, Moves, Only, At, LInv, TypeOK, Proc, Stages, bounds, history
<1>1. TypeOK' /\ Consistent'
  BY <1>0, MovesTypes DEF Stages, LInv, TypeOK
<1>2. \A q \in Pids \ {p}, pc \in Stages : At(q, pc)' = At(q, pc)
  BY <1>0 DEF At, Only, Moves
<1>3. \A pc \in Stages \ {"exit"} : ~At(p, pc)'
  BY <1>0 DEF At, Moves
<1>4. Owning(p)
  BY <1>0 DEF Owning, At, Moves, Stages
<1>5. ~raced => \A q \in Pids : ~Owning(q)'
  <2>1. ~raced => \A q \in Pids \ {p} : ~Owning(q)
    BY <1>4 DEF LInv, OneInstance
  <2> QED
    BY <1>2, <1>3, <2>1 DEF Owning, Stages
<1>6. OneInstance'
  BY <1>0, <1>5 DEF OneInstance
<1>7. FileStays'
  BY <1>0, <1>5 DEF FileStays, Owning, Stages
<1>8. FileNamesInstance'
  BY <1>0, LifecycleAssumption DEF LInv, Consistent, FileNamesInstance, LifecycleAssumption
<1> QED
  BY <1>1, <1>6, <1>7, <1>8 DEF LInv

\* Stages of main between the write and the removal.
LEMMA MainStageStep ==
  ASSUME LInv, NEW p \in Pids,
         \/ StartupDone(p) \/ SelectSignal(p) \/ SelectError(p)
         \/ TorClosed(p) \/ SchedulerStopped(p)
  PROVE  LInv'
<1>1. proc[p].kind = "server" /\ proc[p].pc \in Settled
  BY DEF StartupDone, SelectSignal, SelectError, TorClosed, SchedulerStopped, At, Settled
<1>2. Only(p)
  BY DEF StartupDone, SelectSignal, SelectError, TorClosed, SchedulerStopped, GoTo,
     Only, LInv, TypeOK, Proc, Stages
<1>3. /\ proc'[p].pc \in Settled
      /\ proc'[p].kind = proc[p].kind /\ proc'[p].srv = proc[p].srv
      /\ proc'[p].stop = proc[p].stop /\ proc'[p].dropped = proc[p].dropped
  BY DEF StartupDone, SelectSignal, SelectError, TorClosed, SchedulerStopped, GoTo,
     At, LInv, TypeOK, Proc, Settled
<1>4. UNCHANGED <<file, port, starts, sent, raced, crashed>>
  BY DEF StartupDone, SelectSignal, SelectError, TorClosed, SchedulerStopped, bounds, history
<1> QED
  BY <1>1, <1>2, <1>3, <1>4, StageStep

\* Steps of the listener that give, keep or free the port.
LEMMA PortStep ==
  ASSUME LInv, NEW p \in Pids,
         Bind(p) \/ Serve(p) \/ ListenerFails(p) \/ ShutdownListener(p)
  PROVE  LInv'
<1>1. Only(p)
  BY LifecycleAssumption
  DEF Bind, Serve, ListenerFails, ShutdownListener, Serves, Only, LInv, TypeOK, Proc,
      Listener, LifecycleAssumption
<1>2. proc'[p].kind = proc[p].kind /\ proc'[p].pc = proc[p].pc /\ proc[p].srv # "none"
  BY DEF Bind, Serve, ListenerFails, ShutdownListener, LInv, TypeOK, Consistent, Proc
<1>3. proc'[p].stop # "idle" => proc'[p].srv \in {"serving", "closed", "failed"}
  BY DEF Bind, Serve, ListenerFails, ShutdownListener, Serves, LInv, TypeOK, Consistent, Proc
<1>4. proc'[p].dropped => RunsAsRoot
  BY DEF Bind, Serve, ListenerFails, ShutdownListener, LInv, TypeOK, Consistent, Proc
<1>5. port' \in Pids \cup {None}
  BY DEF Bind, Serve, ListenerFails, ShutdownListener, LInv, TypeOK
<1>6. \A q \in Pids : port' = q <=> proc'[q].srv \in {"bound", "serving"}
  <2>1. CASE Bind(p)
    BY <2>1, <1>1, LifecycleAssumption
    DEF Bind, Only, LInv, TypeOK, Proc, LifecycleAssumption
  <2>2. CASE Serve(p)
    BY <2>2, <1>1 DEF Serve, Only, LInv, TypeOK, Proc
  <2>3. CASE ListenerFails(p)
    BY <2>3, <1>1, LifecycleAssumption
    DEF ListenerFails, Only, LInv, TypeOK, Proc, LifecycleAssumption
  <2>4. CASE ShutdownListener(p)
    <3>1. proc[p].kind = "server" /\ proc[p].srv \in {"serving", "closed", "failed"}
      BY <2>4 DEF ShutdownListener, LInv, Consistent
    <3>2. proc'[p].srv \in {"closed", "failed"}
      BY <2>4, <3>1 DEF ShutdownListener, Serves, LInv, TypeOK, Proc
    <3> QED
      BY <2>4, <3>2, <1>1, LifecycleAssumption
      DEF ShutdownListener, Only, LInv, TypeOK, LifecycleAssumption
  <2> QED
    BY <2>1, <2>2, <2>3, <2>4
<1>7. sent' \in 0 .. MaxSignals /\ UNCHANGED <<file, starts, raced, crashed>>
  BY DEF Bind, Serve, ListenerFails, ShutdownListener, LInv, TypeOK, bounds, history
<1> QED
  BY <1>1, <1>2, <1>3, <1>4, <1>5, <1>6, <1>7, ListenerStep

\* A signal.
LEMMA SignalStep ==
  ASSUME LInv, NEW p \in Pids, NEW s \in Signals, Signal(p, s)
  PROVE  LInv'
<1>1. Only(p)
  <2>1. proc \in [Pids -> Proc] /\ proc[p] \in Proc /\ s \in Signals
    BY DEF LInv, TypeOK
  <2>2. proc' = [proc EXCEPT ![p] = [proc[p] EXCEPT
                   !.inbox = IF proc[p].inbox = "empty" THEN s ELSE proc[p].inbox,
                   !.stop  = IF s = "TERM" /\ Serves(p) /\ proc[p].stop = "idle" THEN "heard"
                             ELSE proc[p].stop]]
    BY <2>1 DEF Signal
  <2>3. proc'[p] \in Proc /\ \A q \in Pids \ {p} : proc'[q] = proc[q]
    BY <2>1, <2>2 DEF Proc
  <2> QED
    BY <2>1, <2>2, <2>3 DEF Only, Signal
<1>2. /\ proc'[p].kind = proc[p].kind /\ proc'[p].pc = proc[p].pc
      /\ proc'[p].srv = proc[p].srv /\ proc'[p].dropped = proc[p].dropped
      /\ proc'[p].stop = proc[p].stop \/ proc[p].srv = "serving"
  <2>1. proc[p] \in Proc
    BY DEF LInv, TypeOK
  <2>2. proc'[p].stop = IF s = "TERM" /\ Serves(p) /\ proc[p].stop = "idle"
                        THEN "heard" ELSE proc[p].stop
    BY <2>1 DEF Signal, LInv, TypeOK, Proc
  <2>3. /\ proc'[p].kind = proc[p].kind /\ proc'[p].pc = proc[p].pc
        /\ proc'[p].srv = proc[p].srv /\ proc'[p].dropped = proc[p].dropped
    BY <2>1 DEF Signal, LInv, TypeOK, Proc
  <2> QED
    BY <2>2, <2>3 DEF Serves
<1>3. sent' \in 0 .. MaxSignals
  <2>1. sent < MaxSignals /\ sent' = sent + 1 /\ sent \in 0 .. MaxSignals
    BY DEF Signal, LInv, TypeOK
  <2> QED
    BY <2>1, LifecycleAssumption DEF LifecycleAssumption
<1>4. UNCHANGED <<file, port, starts, raced, crashed>>
  BY DEF Signal, bounds, history
<1>5. \A q \in Pids : port' = q <=> proc'[q].srv \in {"bound", "serving"}
  BY <1>1, <1>2, <1>4 DEF Only, LInv, TypeOK
<1> QED
  BY <1>1, <1>2, <1>3, <1>4, <1>5, ListenerStep DEF LInv, TypeOK, Consistent

\* Every way in which a process ends.
LEMMA EndsStep ==
  ASSUME LInv, NEW p \in Pids,
         Refuse(p) \/ WriteFails(p) \/ Exit(p) \/ Crash(p) \/ OtherEnds(p)
  PROVE  LInv'
<1>1. Ends(p)
  <2>1. CASE OtherEnds(p)
    <3>1. proc[p].srv = "none" /\ proc[p].kind = "other"
      BY <2>1 DEF OtherEnds, LInv, Consistent
    <3>2. port # p
      BY <3>1 DEF LInv, TypeOK
    <3> QED
      BY <2>1, <3>2 DEF OtherEnds, Ends
  <2>2. CASE ~OtherEnds(p)
    BY <2>2 DEF Refuse, WriteFails, Exit, Crash
  <2> QED
    BY <2>1, <2>2
<1>2. crashed' \in BOOLEAN /\ (crashed => crashed') /\ UNCHANGED <<file, starts, sent, raced>>
  BY DEF Refuse, WriteFails, Exit, Crash, OtherEnds, bounds, history, LInv, TypeOK
<1>3. ASSUME ~raced, ~crashed', ~RunsAsRoot, file = p PROVE FALSE
  <2>1. PICK pc \in Settled : At(p, pc)
    BY <1>2, <1>3 DEF LInv, FileNamesInstance
  <2> QED
    BY <1>3, <2>1 DEF Refuse, WriteFails, Exit, Crash, OtherEnds, At, Settled
<1> QED
  BY <1>1, <1>2, <1>3, EndStep

\* The invariant is inductive.
LEMMA NextLInv == LInv /\ [Next]_vars => LInv'
<1> SUFFICES ASSUME LInv, [Next]_vars PROVE LInv'
  OBVIOUS
<1>1. CASE UNCHANGED vars
  BY <1>1 DEF vars, LInv, TypeOK, Consistent, OneInstance, Owning, At, FileStays,
     FileNamesInstance
<1>2. CASE Next
  <2>1. PICK p \in Pids :
          \/ Launch(p) \/ OtherStarts(p) \/ OtherEnds(p)
          \/ Bind(p) \/ Serve(p) \/ ListenerFails(p) \/ ShutdownListener(p)
          \/ \E s \in Signals : Signal(p, s)
          \/ MainStep(p) \/ Crash(p)
    BY <1>2 DEF Next
  <2> QED
    BY <2>1, LaunchStep, EndsStep, PortStep, SignalStep, CheckStep, WriteStep,
       MainStageStep, RereadStep, UnlinkStep DEF MainStep
<1> QED
  BY <1>1, <1>2

-----------------------------------------------------------------------------
\* The invariant holds in every reachable state.
LEMMA Invariance == Spec => []LInv
BY InitLInv, NextLInv, PTL DEF Spec

\* Types, and the port's agreement with the state of the listeners.
THEOREM LifecycleTypes == Spec => []TypeOK
BY Invariance, PTL DEF LInv

\* However many instances are started, killed and stopped, and whoever gets
\* their ids: without an overlap of two writes of the PID file there is one
\* instance at a time, and the file names it.
THEOREM InstanceExclusion == Spec => []OneInstance
BY Invariance, PTL DEF LInv

\* A server that keeps its privileges and was never killed leaves no PID file
\* that could refuse a later start.
THEOREM StartsNotRefused ==
  ASSUME ~RunsAsRoot
  PROVE  Spec => RefusedOnlyBesideAnother
<1>1. LInv /\ [Next]_vars =>
        [(~crashed /\ ~raced /\ \E p \in Pids : Refuse(p)) => proc[file].kind = "server"]_vars
  <2> SUFFICES ASSUME LInv, ~crashed, ~raced, NEW p \in Pids, Refuse(p)
               PROVE  proc[file].kind = "server"
    OBVIOUS
  <2>1. file \in Pids
    BY DEF Refuse, Blocked
  <2> QED
    BY <2>1 DEF LInv, FileNamesInstance, At
<1> QED
  BY <1>1, Invariance, PTL DEF Spec, RefusedOnlyBesideAnother

-----------------------------------------------------------------------------
(* The service on the host: what the steps of a command do.                 *)

\* The steps that there are, and the states of the host.
Whats == {"dirs", "account", "file", "binary", "reload", "enable", "enable-now", "create",
          "stop", "disable", "remove", "delete", "data", "remove-account"}

Host == [dirs : BOOLEAN, data : BOOLEAN, account : {"none", "group", "partial", "user"},
         file : BOOLEAN, binary : {"none", "whole", "torn"}, enabled : BOOLEAN,
         running : BOOLEAN]

\* Which steps touch which part of the host.
LEMMA DoneParts ==
  ASSUME host \in Host, NEW what \in Whats
  PROVE  /\ Done(what) \in Host
         /\ Done(what).file = (what \in {"file", "create"}
                               \/ (what \notin {"remove", "delete"} /\ host.file))
         /\ Done(what).data = (what # "data" /\ host.data)
         /\ what = "binary" /\ plan.elsewhere => Done(what).binary = "whole"
         /\ ~(what = "binary" /\ plan.elsewhere) => Done(what).binary = host.binary
         /\ Done(what).enabled = (what \in {"enable", "enable-now", "create"}
                                  \/ (what \notin {"disable", "delete"} /\ host.enabled))
         /\ what = "account" => Done(what).account \in {"user", "partial"}
         /\ what = "remove-account" => Done(what).account \in {"none", "group"}
         /\ what \notin {"account", "remove-account"} => Done(what).account = host.account
<1> USE DEF Host, Done
<1>1. CASE what = "dirs" BY <1>1
<1>2. CASE what = "account" BY <1>2
<1>3. CASE what = "file" BY <1>3
<1>4. CASE what = "binary" BY <1>4
<1>5. CASE what = "reload" BY <1>5
<1>6. CASE what = "enable" BY <1>6
<1>7. CASE what = "enable-now" BY <1>7
<1>8. CASE what = "create" BY <1>8
<1>9. CASE what = "stop" BY <1>9
<1>10. CASE what = "disable" BY <1>10
<1>11. CASE what = "remove" BY <1>11
<1>12. CASE what = "delete" BY <1>12
<1>13. CASE what = "data" BY <1>13
<1>14. CASE what = "remove-account" BY <1>14
<1> QED
  BY <1>1, <1>2, <1>3, <1>4, <1>5, <1>6, <1>7, <1>8, <1>9, <1>10, <1>11, <1>12, <1>13,
     <1>14 DEF Whats

\* A step that stops half-way leaves the group of an account, or a torn binary.
LEMMA HalfwayParts ==
  ASSUME host \in Host, NEW what \in Whats, NEW h \in Halfway(what)
  PROVE  /\ h \in Host /\ h.file = host.file /\ h.data = host.data /\ h.enabled = host.enabled
         /\ what # "account" => h.account = host.account
         /\ h.binary # host.binary => what = "binary" /\ plan.elsewhere
<1>1. CASE what = "account" BY <1>1 DEF Host, Halfway
<1>2. CASE what = "binary" BY <1>2 DEF Host, Halfway
<1>3. CASE what \notin {"account", "binary"} BY <1>3 DEF Host, Halfway
<1> QED BY <1>1, <1>2, <1>3

\* The steps of a command, as a set.
Steps == [do : Whats, must : BOOLEAN]

Members(S) == {S[i] : i \in DOMAIN S}

\* Must and Try make steps.
LEMMA StepTypes ==
  /\ Must("dirs") \in Steps /\ Must("file") \in Steps /\ Must("binary") \in Steps
  /\ Must("reload") \in Steps /\ Must("enable") \in Steps /\ Must("enable-now") \in Steps
  /\ Must("create") \in Steps /\ Must("remove") \in Steps /\ Must("delete") \in Steps
  /\ Try("account") \in Steps /\ Try("enable") \in Steps /\ Try("stop") \in Steps
  /\ Try("disable") \in Steps /\ Try("remove") \in Steps /\ Try("reload") \in Steps
  /\ Try("data") \in Steps /\ Try("remove-account") \in Steps
BY DEF Steps, Whats, Must, Try

\* What the literal sequences of the commands consist of, by their length.
LEMMA Members2 ==
  ASSUME NEW T, NEW a \in T, NEW b \in T
  PROVE  <<a, b>> \in Seq(T) /\ Members(<<a, b>>) = {a, b}
<1> DEFINE S == <<a, b>>
<1>1. /\ DOMAIN S = {1, 2}
      /\ S[1] = a /\ S[2] = b
  OBVIOUS
<1>2. S \in Seq(T)
  OBVIOUS
<1> HIDE DEF S
<1>3. Members(S) = {a, b}
  BY <1>1 DEF Members
<1> QED BY <1>2, <1>3 DEF S

\* And those of three.
LEMMA Members3 ==
  ASSUME NEW T, NEW a \in T, NEW b \in T, NEW c \in T
  PROVE  <<a, b, c>> \in Seq(T) /\ Members(<<a, b, c>>) = {a, b, c}
<1> DEFINE S == <<a, b, c>>
<1>1. /\ DOMAIN S = {1, 2, 3}
      /\ S[1] = a /\ S[2] = b /\ S[3] = c
  OBVIOUS
<1>2. S \in Seq(T)
  OBVIOUS
<1> HIDE DEF S
<1>3. Members(S) = {a, b, c}
  BY <1>1 DEF Members
<1> QED BY <1>2, <1>3 DEF S

\* And those of four.
LEMMA Members4 ==
  ASSUME NEW T, NEW a \in T, NEW b \in T, NEW c \in T, NEW d \in T
  PROVE  <<a, b, c, d>> \in Seq(T) /\ Members(<<a, b, c, d>>) = {a, b, c, d}
<1> DEFINE S == <<a, b, c, d>>
<1>1. /\ DOMAIN S = {1, 2, 3, 4}
      /\ S[1] = a /\ S[2] = b /\ S[3] = c /\ S[4] = d
  OBVIOUS
<1>2. S \in Seq(T)
  OBVIOUS
<1> HIDE DEF S
<1>3. Members(S) = {a, b, c, d}
  BY <1>1 DEF Members
<1> QED BY <1>2, <1>3 DEF S

\* And those of six.
LEMMA Members6 ==
  ASSUME NEW T, NEW a \in T, NEW b \in T, NEW c \in T, NEW d \in T, NEW e \in T, NEW f \in T
  PROVE  <<a, b, c, d, e, f>> \in Seq(T) /\ Members(<<a, b, c, d, e, f>>) = {a, b, c, d, e, f}
<1> DEFINE S == <<a, b, c, d, e, f>>
<1>1. /\ DOMAIN S = {1, 2, 3, 4, 5, 6}
      /\ S[1] = a /\ S[2] = b /\ S[3] = c /\ S[4] = d /\ S[5] = e /\ S[6] = f
  OBVIOUS
<1>2. S \in Seq(T)
  OBVIOUS
<1> HIDE DEF S
<1>3. Members(S) = {a, b, c, d, e, f}
  BY <1>1 DEF Members
<1> QED BY <1>2, <1>3 DEF S

\* What the proofs need of each step of an install, and of its steps M.
InstallStep(x) ==
  /\ x.do \in {"dirs", "account", "file", "binary", "reload", "enable", "enable-now", "create"}
  /\ x.do = "account" => ~x.must
  /\ x.do \in {"file", "create"} => x.must
  /\ x.do = "binary" => x.must /\ ~OfUser
  /\ x.do = "create" => plan.manager = "windows"

Installs(M) ==
  /\ \A x \in M : InstallStep(x)
  /\ \E x \in M : x.do \in {"file", "create"}
  /\ ~OfUser => \E x \in M : x.do = "binary"

\* In each manager an install writes the service, and the binary of a service of the
\* system, and passes over nothing but an account and a service that is not enabled.
LEMMA InstallParts ==
  ASSUME plan.manager \in Managers
  PROVE  InstallSteps \in Seq(Steps) /\ Installs(Members(InstallSteps))
<1>1. CASE plan.manager = "systemd"
  <2>1. /\ Must("dirs") \in Steps /\ Try("account") \in Steps /\ Must("file") \in Steps
        /\ Must("binary") \in Steps /\ Must("reload") \in Steps
        /\ Must("enable") \in Steps
    BY StepTypes
  <2>2. /\ InstallSteps \in Seq(Steps)
        /\ Members(InstallSteps) =
             {Must("dirs"), Try("account"), Must("file"), Must("binary"), Must("reload"),
              Must("enable")}
    BY <1>1, <2>1, Members6 DEF InstallSteps, InstallSystemd
  <2> QED BY <1>1, <2>2 DEF InstallStep, Installs, Must, Try, OfUser
<1>2. CASE plan.manager = "runit"
  <2>1. Must("file") \in Steps /\ Must("binary") \in Steps /\ Try("enable") \in Steps
    BY StepTypes
  <2>2. /\ InstallSteps \in Seq(Steps)
        /\ Members(InstallSteps) =
             {Must("file"), Must("binary"), Try("enable")}
    BY <1>2, <2>1, Members3 DEF InstallSteps, InstallRunit
  <2> QED BY <1>2, <2>2 DEF InstallStep, Installs, Must, Try, OfUser
<1>3. CASE plan.manager = "openrc"
  <2>1. /\ Try("account") \in Steps /\ Must("file") \in Steps /\ Must("binary") \in Steps
        /\ Must("enable") \in Steps
    BY StepTypes
  <2>2. /\ InstallSteps \in Seq(Steps)
        /\ Members(InstallSteps) =
             {Try("account"), Must("file"), Must("binary"), Must("enable")}
    BY <1>3, <2>1, Members4 DEF InstallSteps, InstallOpenRC
  <2> QED BY <1>3, <2>2 DEF InstallStep, Installs, Must, Try, OfUser
<1>4. CASE plan.manager = "sysvinit"
  <2>1. /\ Try("account") \in Steps /\ Must("file") \in Steps /\ Must("binary") \in Steps
        /\ Try("enable") \in Steps
    BY StepTypes
  <2>2. /\ InstallSteps \in Seq(Steps)
        /\ Members(InstallSteps) =
             {Try("account"), Must("file"), Must("binary"), Try("enable")}
    BY <1>4, <2>1, Members4 DEF InstallSteps, InstallSysVinit
  <2> QED BY <1>4, <2>2 DEF InstallStep, Installs, Must, Try, OfUser
<1>5. CASE plan.manager = "launchd"
  <2>1. /\ Must("dirs") \in Steps /\ Try("account") \in Steps /\ Must("file") \in Steps
        /\ Must("binary") \in Steps
    BY StepTypes
  <2>2. /\ InstallSteps \in Seq(Steps)
        /\ Members(InstallSteps) =
             {Must("dirs"), Try("account"), Must("file"), Must("binary")}
    BY <1>5, <2>1, Members4 DEF InstallSteps, InstallLaunchd
  <2> QED BY <1>5, <2>2 DEF InstallStep, Installs, Must, Try, OfUser
<1>6. CASE plan.manager = "windows"
  <2>1. Must("binary") \in Steps /\ Must("create") \in Steps
    BY StepTypes
  <2>2. /\ InstallSteps \in Seq(Steps)
        /\ Members(InstallSteps) =
             {Must("binary"), Must("create")}
    BY <1>6, <2>1, Members2 DEF InstallSteps, InstallWindows
  <2> QED BY <1>6, <2>2 DEF InstallStep, Installs, Must, Try, OfUser
<1>7. CASE plan.manager = "bsdrc"
  <2>1. /\ Must("dirs") \in Steps /\ Try("account") \in Steps /\ Must("file") \in Steps
        /\ Must("binary") \in Steps
    BY StepTypes
  <2>2. /\ InstallSteps \in Seq(Steps)
        /\ Members(InstallSteps) =
             {Must("dirs"), Try("account"), Must("file"), Must("binary")}
    BY <1>7, <2>1, Members4 DEF InstallSteps, InstallBSDRC
  <2> QED BY <1>7, <2>2 DEF InstallStep, Installs, Must, Try, OfUser
<1>8. CASE plan.manager = "systemd-user"
  <2>1. Must("file") \in Steps /\ Must("reload") \in Steps /\ Must("enable-now") \in Steps
    BY StepTypes
  <2>2. /\ InstallSteps \in Seq(Steps)
        /\ Members(InstallSteps) =
             {Must("file"), Must("reload"), Must("enable-now")}
    BY <1>8, <2>1, Members3 DEF InstallSteps, InstallSystemdUser
  <2> QED BY <1>8, <2>2 DEF InstallStep, Installs, Must, Try, OfUser
<1>9. CASE plan.manager = "launchd-user"
  <2>1. Must("file") \in Steps /\ Must("enable-now") \in Steps
    BY StepTypes
  <2>2. /\ InstallSteps \in Seq(Steps)
        /\ Members(InstallSteps) =
             {Must("file"), Must("enable-now")}
    BY <1>9, <2>1, Members2 DEF InstallSteps, InstallLaunchdUser
  <2> QED BY <1>9, <2>2 DEF InstallStep, Installs, Must, Try, OfUser
<1> QED BY <1>1, <1>2, <1>3, <1>4, <1>5, <1>6, <1>7, <1>8, <1>9 DEF Managers

\* And of the steps M that remove the service.
Removes(M) ==
  /\ \A x \in M :
       /\ x.do \in {"stop", "disable", "remove", "reload", "delete"}
       /\ x.do = "remove" /\ plan.manager # "runit" => x.must
       /\ x.do = "delete" => x.must
  /\ ~OfUser => \E x \in M : x.do \in {"remove", "delete"}
  /\ plan.manager \notin {"launchd", "bsdrc"} /\ ~OfUser =>
       \E x \in M : x.do \in {"disable", "delete"}

\* In each manager a service of the system is removed.
LEMMA ServiceParts ==
  ASSUME plan.manager \in Managers
  PROVE  ServiceSteps \in Seq(Steps) /\ Removes(Members(ServiceSteps))
<1>1. CASE plan.manager = "systemd"
  <2>1. /\ Try("stop") \in Steps /\ Try("disable") \in Steps /\ Must("remove") \in Steps
        /\ Try("reload") \in Steps
    BY StepTypes
  <2>2. /\ ServiceSteps \in Seq(Steps)
        /\ Members(ServiceSteps) =
             {Try("stop"), Try("disable"), Must("remove"), Try("reload")}
    BY <1>1, <2>1, Members4 DEF ServiceSteps, UninstallSystemd
  <2> QED BY <1>1, <2>2 DEF Removes, Must, Try, OfUser
<1>2. CASE plan.manager = "runit"
  <2>1. Try("stop") \in Steps /\ Try("disable") \in Steps /\ Try("remove") \in Steps
    BY StepTypes
  <2>2. /\ ServiceSteps \in Seq(Steps)
        /\ Members(ServiceSteps) =
             {Try("stop"), Try("disable"), Try("remove")}
    BY <1>2, <2>1, Members3 DEF ServiceSteps, UninstallRunit
  <2> QED BY <1>2, <2>2 DEF Removes, Must, Try, OfUser
<1>3. CASE plan.manager = "openrc"
  <2>1. Try("stop") \in Steps /\ Try("disable") \in Steps /\ Must("remove") \in Steps
    BY StepTypes
  <2>2. /\ ServiceSteps \in Seq(Steps)
        /\ Members(ServiceSteps) =
             {Try("stop"), Try("disable"), Must("remove")}
    BY <1>3, <2>1, Members3 DEF ServiceSteps, UninstallOpenRC
  <2> QED BY <1>3, <2>2 DEF Removes, Must, Try, OfUser
<1>4. CASE plan.manager = "sysvinit"
  <2>1. Try("stop") \in Steps /\ Try("disable") \in Steps /\ Must("remove") \in Steps
    BY StepTypes
  <2>2. /\ ServiceSteps \in Seq(Steps)
        /\ Members(ServiceSteps) =
             {Try("stop"), Try("disable"), Must("remove")}
    BY <1>4, <2>1, Members3 DEF ServiceSteps, UninstallSysVinit
  <2> QED BY <1>4, <2>2 DEF Removes, Must, Try, OfUser
<1>5. CASE plan.manager = "launchd"
  <2>1. Try("stop") \in Steps /\ Must("remove") \in Steps
    BY StepTypes
  <2>2. /\ ServiceSteps \in Seq(Steps)
        /\ Members(ServiceSteps) =
             {Try("stop"), Must("remove")}
    BY <1>5, <2>1, Members2 DEF ServiceSteps, UninstallLaunchd
  <2> QED BY <1>5, <2>2 DEF Removes, Must, Try, OfUser
<1>6. CASE plan.manager = "windows"
  <2>1. Try("stop") \in Steps /\ Must("delete") \in Steps
    BY StepTypes
  <2>2. /\ ServiceSteps \in Seq(Steps)
        /\ Members(ServiceSteps) =
             {Try("stop"), Must("delete")}
    BY <1>6, <2>1, Members2 DEF ServiceSteps, UninstallWindows
  <2> QED BY <1>6, <2>2 DEF Removes, Must, Try, OfUser
<1>7. CASE plan.manager = "bsdrc"
  <2>1. Try("stop") \in Steps /\ Must("remove") \in Steps
    BY StepTypes
  <2>2. /\ ServiceSteps \in Seq(Steps)
        /\ Members(ServiceSteps) =
             {Try("stop"), Must("remove")}
    BY <1>7, <2>1, Members2 DEF ServiceSteps, UninstallBSDRC
  <2> QED BY <1>7, <2>2 DEF Removes, Must, Try, OfUser
<1>8. CASE OfUser
  <2>1. ServiceSteps = <<>>
    BY <1>8 DEF ServiceSteps, OfUser
  <2>2. ServiceSteps \in Seq(Steps) /\ Members(ServiceSteps) = {}
    BY <2>1 DEF Members
  <2> QED BY <1>8, <2>2 DEF Removes
<1> QED BY <1>1, <1>2, <1>3, <1>4, <1>5, <1>6, <1>7, <1>8 DEF Managers, OfUser

\* In an uninstall with the steps S the data go after the service.
DataAfterService(S) ==
  \A i, j \in DOMAIN S : S[i].do \in {"remove", "delete"} /\ S[j].do = "data" => i < j

\* What the proofs need of each step of an uninstall.
UninstallStep(x) ==
  /\ x.do \in {"stop", "disable", "remove", "reload", "delete", "data", "remove-account"}
  /\ x.do = "remove" /\ plan.manager # "runit" => x.must
  /\ x.do = "delete" => x.must

\* And of its steps M.
Uninstalls(M) ==
  /\ \A x \in M : UninstallStep(x)
  /\ ~OfUser => \E x \in M : x.do \in {"remove", "delete"}
  /\ plan.manager \notin {"launchd", "bsdrc"} /\ ~OfUser =>
       \E x \in M : x.do \in {"disable", "delete"}
  /\ \E x \in M : x.do = "data"
  /\ \E x \in M : x.do = "remove-account"

\* An uninstall removes the service, and then the data and the account.
LEMMA UninstallParts ==
  ASSUME plan.manager \in Managers
  PROVE  /\ UninstallSteps \in Seq(Steps) /\ Uninstalls(Members(UninstallSteps))
         /\ DataAfterService(UninstallSteps)
<1> DEFINE s == ServiceSteps
           e == <<Try("data"), Try("remove-account")>>
           n == Len(s)
           u == s \o e
<1>1. s \in Seq(Steps) /\ Removes(Members(s)) /\ DOMAIN s = 1 .. n /\ n \in Nat
  BY ServiceParts
<1>2. /\ e \in Seq(Steps) /\ DOMAIN e = {1, 2}
      /\ e[1].do = "data" /\ e[2].do = "remove-account" /\ Len(e) = 2
  <2>1. Try("data") \in Steps /\ Try("remove-account") \in Steps
    BY StepTypes
  <2>2. e \in Seq(Steps)
    BY <2>1, Members2
  <2> QED BY <2>2 DEF Try
<1>3. UninstallSteps = u
  BY DEF UninstallSteps
<1> HIDE DEF s, e
<1>4. /\ u \in Seq(Steps) /\ Len(u) = n + 2 /\ DOMAIN u = 1 .. n + 2
      /\ \A i \in 1 .. n + 2 : u[i] = IF i <= n THEN s[i] ELSE e[i - n]
  <2>1. /\ u \in Seq(Steps) /\ Len(u) = Len(s) + Len(e)
        /\ \A i \in 1 .. Len(s) + Len(e) : u[i] = IF i <= Len(s) THEN s[i] ELSE e[i - Len(s)]
    <3>1. s \in Seq(Steps) /\ e \in Seq(Steps)
      BY <1>1, <1>2
    <3> QED BY <3>1
  <2>2. DOMAIN u = 1 .. Len(u)
    BY <2>1
  <2> HIDE DEF u
  <2> QED BY <1>2, <2>1, <2>2
<1> HIDE DEF u
<1>5. /\ \A i \in 1 .. n : u[i] = s[i]
      /\ u[n + 1] = e[1] /\ u[n + 2] = e[2]
      /\ n + 1 \in DOMAIN u /\ n + 2 \in DOMAIN u
      /\ 1 .. n \subseteq DOMAIN u
      /\ \A i \in DOMAIN u : i \in 1 .. n \/ i = n + 1 \/ i = n + 2
  BY <1>1, <1>4
<1> HIDE DEF n
<1>6. Members(u) = Members(s) \cup {e[1], e[2]}
  BY <1>1, <1>5 DEF Members
<1>7. Uninstalls(Members(u))
  BY <1>1, <1>2, <1>6 DEF UninstallStep, Uninstalls, Removes
<1>8. \A i \in 1 .. n : s[i].do # "data"
  BY <1>1 DEF Removes, Members
<1>9. DataAfterService(u)
  <2> SUFFICES ASSUME NEW i \in DOMAIN u, NEW j \in DOMAIN u,
                      u[i].do \in {"remove", "delete"}, u[j].do = "data"
               PROVE  i < j
    BY DEF DataAfterService
  <2>1. i \in 1 .. n
    BY <1>2, <1>5
  <2>2. j = n + 1
    BY <1>2, <1>5, <1>8
  <2> QED BY <1>1, <2>1, <2>2
<1> QED BY <1>3, <1>4, <1>7, <1>9

\* The first step, and those after it.
LEMMA FirstAndRest ==
  ASSUME NEW S \in Seq(Steps), S # <<>>
  PROVE  /\ Head(S) \in Steps /\ Tail(S) \in Seq(Steps)
         /\ Members(S) = {Head(S)} \cup Members(Tail(S))
         /\ DataAfterService(S) => DataAfterService(Tail(S))
         /\ DataAfterService(S) /\ Head(S).do = "data" =>
              \A x \in Members(S) : x.do \notin {"remove", "delete"}
<1>1. /\ Tail(S) \in Seq(Steps) /\ Len(Tail(S)) = Len(S) - 1
      /\ Head(S) = S[1] /\ Head(S) \in Steps /\ Len(S) \in Nat \ {0}
      /\ \A i \in 1 .. Len(S) - 1 : Tail(S)[i] = S[i + 1]
      /\ DOMAIN Tail(S) = 1 .. Len(S) - 1 /\ DOMAIN S = 1 .. Len(S)
  OBVIOUS
<1> DEFINE R == Tail(S)
           n == Len(S)
<1>2. /\ R \in Seq(Steps) /\ n \in Nat \ {0}
      /\ \A i \in 1 .. n - 1 : R[i] = S[i + 1]
      /\ DOMAIN R = 1 .. n - 1 /\ DOMAIN S = 1 .. n
  BY <1>1
<1> HIDE DEF R, n
<1>3. \A i \in DOMAIN R : i + 1 \in DOMAIN S /\ R[i] = S[i + 1]
  BY <1>2
<1>4. \A i \in DOMAIN S : i = 1 \/ (i - 1 \in DOMAIN R /\ S[i] = R[i - 1])
  BY <1>2
<1>5. 1 \in DOMAIN S
  BY <1>2
<1>6. Members(S) = {S[1]} \cup Members(R)
  BY <1>3, <1>4, <1>5 DEF Members
<1>7. DataAfterService(S) => DataAfterService(R)
  <2> SUFFICES ASSUME DataAfterService(S), NEW i \in DOMAIN R, NEW j \in DOMAIN R,
                      R[i].do \in {"remove", "delete"}, R[j].do = "data"
               PROVE  i < j
    BY DEF DataAfterService
  <2>1. i + 1 < j + 1
    BY <1>3 DEF DataAfterService
  <2> QED BY <1>2, <2>1
<1>8. DataAfterService(S) /\ S[1].do = "data" =>
        \A x \in Members(S) : x.do \notin {"remove", "delete"}
  BY <1>2, <1>5 DEF DataAfterService, Members
<1> QED BY <1>1, <1>6, <1>7, <1>8 DEF R


-----------------------------------------------------------------------------
(* The service on the host: what a command has done, from what is ahead.    *)

Commands == {"none", "install", "uninstall"}
UnderWay == [kind : Commands, steps : Seq(Steps), clean : BOOLEAN, passed : SUBSET Whats]
Answers  == [kind : Commands, ok : BOOLEAN, clean : BOOLEAN, passed : SUBSET Whats]

\* Types; a command that ended has no steps, and only one that ended tells.
ServiceTypes ==
  /\ plan \in Plans /\ host \in Host
  /\ cmd \in UnderWay
  /\ told \in Answers
  /\ cmd.kind = "none" => cmd.steps = <<>>
  /\ told.kind # "none" => cmd.kind = "none"

\* A step of one of these kinds is still to come.
Ahead(whats) == \E x \in Members(cmd.steps) : x.do \in whats

\* Only a service of the system, installed from elsewhere, has a binary of its own.
BinaryOfSystem == host.binary # "none" => plan.elsewhere /\ ~OfUser

Enabling == {"enable", "enable-now", "create"}

\* What an install has no more to do, it has done or passed over.
InstallUnderWay ==
  cmd.kind = "install" =>
    /\ \A x \in Members(cmd.steps) : InstallStep(x)
    /\ ~Ahead({"file", "create"}) => host.file
    /\ plan.elsewhere /\ ~OfUser /\ ~Ahead({"binary"}) => host.binary = "whole"
    /\ \A w \in Meant \cap Enabling : w \in cmd.passed \/ Ahead({w}) \/ host.enabled
    /\ "account" \in Meant =>
         "account" \in cmd.passed \/ Ahead({"account"}) \/ host.account \in {"user", "partial"}

\* And so an uninstall; the data go last.
UninstallUnderWay ==
  cmd.kind = "uninstall" =>
    /\ \A x \in Members(cmd.steps) : UninstallStep(x)
    /\ DataAfterService(cmd.steps)
    /\ Ahead({"remove", "delete"}) => Ahead({"data"})
    /\ plan.manager # "runit" => "remove" \notin cmd.passed
    /\ OfUser \/ "remove" \in cmd.passed \/ Ahead({"remove", "delete"}) \/ ~host.file
    /\ OfUser \/ plan.manager \in {"launchd", "bsdrc"} \/ "disable" \in cmd.passed
         \/ Ahead({"disable", "delete"}) \/ ~host.enabled
    /\ "data" \in cmd.passed \/ Ahead({"data"}) \/ host.file \/ ~host.data
    /\ "remove-account" \in cmd.passed \/ Ahead({"remove-account"})
         \/ host.account \in {"none", "group"}

\* The inductive invariant.
ServiceInv ==
  ServiceTypes /\ BinaryOfSystem /\ InstallUnderWay /\ UninstallUnderWay /\ TrueWhenTold

\* The initial states satisfy the invariant.
LEMMA InitServiceInv == ServiceInit => ServiceInv
<1> SUFFICES ASSUME ServiceInit PROVE ServiceInv
  OBVIOUS
<1>0. plan \in Plans /\ plan.account \in {"none", "user"}
  BY ServiceAssumption DEF ServiceInit, ServiceAssumption
<1>1. ServiceTypes
  <2>1. host \in Host
    BY <1>0 DEF ServiceInit, Host, Bare
  <2>2. cmd \in UnderWay /\ told \in Answers
    BY DEF ServiceInit, Commands, UnderWay, Answers, NoCommand, NotTold
  <2> QED BY <1>0, <2>1, <2>2 DEF ServiceInit, ServiceTypes, NoCommand, NotTold
<1>2. BinaryOfSystem /\ InstallUnderWay /\ UninstallUnderWay /\ TrueWhenTold
  BY DEF InstallStep, UninstallStep, ServiceInit, BinaryOfSystem, InstallUnderWay,
     UninstallUnderWay, TrueWhenTold, Bare, NoCommand, NotTold
<1> QED BY <1>1, <1>2 DEF ServiceInv

\* A command begins with all of its steps ahead.
LEMMA RunKeepsInv ==
  ASSUME ServiceInv, UNCHANGED plan,
         Run("install", InstallSteps) \/ Run("uninstall", UninstallSteps)
  PROVE  ServiceInv'
<1>0. plan.manager \in Managers
  BY ServiceAssumption DEF ServiceInv, ServiceTypes, ServiceAssumption
<1> USE DEF Run, NotTold
<1>1. told' = NotTold /\ host' = host /\ plan' = plan
  OBVIOUS
<1>2. BinaryOfSystem' /\ TrueWhenTold'
  BY <1>1 DEF ServiceInv, BinaryOfSystem, TrueWhenTold, OfUser
<1> HIDE DEF NotTold
<1>3. CASE Run("install", InstallSteps)
  <2>1. InstallSteps \in Seq(Steps) /\ Installs(Members(InstallSteps))
    BY <1>0, InstallParts
  <2>2. InstallSteps' = InstallSteps /\ Meant' = Meant
    BY <1>1 DEF InstallSteps, Meant
  <2>3. cmd'.kind = "install" /\ cmd'.steps = InstallSteps
    BY <1>3
  <2>4. ServiceTypes'
    BY <1>1, <1>3, <2>1 DEF ServiceInv, ServiceTypes, Commands, UnderWay, Answers, NotTold
  <2>5. \A w \in Meant : Ahead({w})'
    BY <2>2, <2>3 DEF Ahead, Meant, Members
  <2>7. InstallUnderWay'
    BY <1>1, <2>1, <2>2, <2>3, <2>5 DEF InstallStep, InstallUnderWay, Ahead, Installs, OfUser
  <2>6. UninstallUnderWay'
    BY <2>3 DEF UninstallStep, UninstallUnderWay
  <2> QED BY <1>2, <2>4, <2>6, <2>7 DEF ServiceInv
<1>4. CASE Run("uninstall", UninstallSteps)
  <2>1. /\ UninstallSteps \in Seq(Steps) /\ Uninstalls(Members(UninstallSteps))
        /\ DataAfterService(UninstallSteps)
    BY <1>0, UninstallParts
  <2>3. cmd'.kind = "uninstall" /\ cmd'.steps = UninstallSteps /\ cmd'.passed = {}
    BY <1>4
  <2>4. ServiceTypes'
    BY <1>1, <1>4, <2>1 DEF ServiceInv, ServiceTypes, Commands, UnderWay, Answers, NotTold
  <2>5. InstallUnderWay'
    BY <2>3 DEF InstallStep, InstallUnderWay
  <2>6. UninstallUnderWay'
    BY <1>1, <2>1, <2>3 DEF UninstallStep, UninstallUnderWay, Ahead, Uninstalls, OfUser
  <2> QED BY <1>2, <2>4, <2>5, <2>6 DEF ServiceInv
<1> QED BY <1>3, <1>4

\* When a command goes on, its first step is no more ahead.
LEMMA GoesOn ==
  ASSUME ServiceInv, UNCHANGED <<plan, told>>, cmd.steps # <<>>, host' \in Host,
         cmd' \in UnderWay, cmd'.kind = cmd.kind, cmd'.steps = Tail(cmd.steps)
  PROVE  /\ ServiceTypes' /\ TrueWhenTold'
         /\ cmd.kind \in {"install", "uninstall"}
         /\ Head(cmd.steps).do \in Whats /\ Head(cmd.steps) \in Members(cmd.steps)
         /\ Members(cmd.steps) = {Head(cmd.steps)} \cup Members(cmd'.steps)
         /\ \A W : Ahead(W) <=> (Head(cmd.steps).do \in W \/ Ahead(W)')
         /\ DataAfterService(cmd.steps) => DataAfterService(cmd'.steps)
         /\ DataAfterService(cmd.steps) /\ Head(cmd.steps).do = "data" =>
              ~Ahead({"remove", "delete"})
<1>1. told' = told /\ plan' = plan
  OBVIOUS
<1>2. cmd.steps \in Seq(Steps) /\ cmd.kind \in Commands /\ cmd.kind # "none"
  BY DEF ServiceInv, ServiceTypes, UnderWay
<1>3. /\ Head(cmd.steps) \in Steps /\ Tail(cmd.steps) \in Seq(Steps)
      /\ Members(cmd.steps) = {Head(cmd.steps)} \cup Members(Tail(cmd.steps))
      /\ DataAfterService(cmd.steps) => DataAfterService(Tail(cmd.steps))
      /\ DataAfterService(cmd.steps) /\ Head(cmd.steps).do = "data" =>
           \A x \in Members(cmd.steps) : x.do \notin {"remove", "delete"}
  BY <1>2, FirstAndRest
<1>5. told.kind = "none" /\ cmd.kind \in {"install", "uninstall"}
  BY <1>2 DEF ServiceInv, ServiceTypes, Commands
<1>6. ServiceTypes'
  BY <1>1, <1>2, <1>5 DEF ServiceInv, ServiceTypes
<1>7. TrueWhenTold'
  BY <1>1, <1>5 DEF TrueWhenTold
<1>8. \A W : Ahead(W) <=> (Head(cmd.steps).do \in W \/ Ahead(W)')
  BY <1>3 DEF Ahead
<1> QED BY <1>3, <1>5, <1>6, <1>7, <1>8 DEF Steps, Ahead

\* A step that succeeds has done what it is for.
LEMMA SucceedsKeepsInv ==
  ASSUME ServiceInv, UNCHANGED plan, Succeeds
  PROVE  ServiceInv'
<1> DEFINE x == Head(cmd.steps)
<1>0. /\ cmd.steps # <<>> /\ host' = Done(x.do) /\ plan' = plan /\ told' = told
      /\ cmd' = [cmd EXCEPT !.steps = Tail(cmd.steps)]
  BY DEF Succeeds, GoOn
<1>1. x.do \in Whats /\ host \in Host
  BY <1>0, FirstAndRest DEF ServiceInv, ServiceTypes, UnderWay, Steps
<1>2. /\ host' \in Host
      /\ host'.file = (x.do \in {"file", "create"}
                       \/ (x.do \notin {"remove", "delete"} /\ host.file))
      /\ host'.data = (x.do # "data" /\ host.data)
      /\ x.do = "binary" /\ plan.elsewhere => host'.binary = "whole"
      /\ ~(x.do = "binary" /\ plan.elsewhere) => host'.binary = host.binary
      /\ host'.enabled = (x.do \in {"enable", "enable-now", "create"}
                          \/ (x.do \notin {"disable", "delete"} /\ host.enabled))
      /\ x.do = "account" => host'.account \in {"user", "partial"}
      /\ x.do = "remove-account" => host'.account \in {"none", "group"}
      /\ x.do \notin {"account", "remove-account"} => host'.account = host.account
  BY <1>0, <1>1, DoneParts
<1>3. /\ cmd' \in UnderWay /\ cmd'.kind = cmd.kind /\ cmd'.steps = Tail(cmd.steps)
      /\ cmd'.passed = cmd.passed
  BY <1>0, FirstAndRest DEF ServiceInv, ServiceTypes, UnderWay
<1>4. /\ ServiceTypes' /\ TrueWhenTold'
      /\ cmd.kind \in {"install", "uninstall"}
      /\ x \in Members(cmd.steps)
      /\ Members(cmd.steps) = {x} \cup Members(cmd'.steps)
      /\ \A W : Ahead(W) <=> (x.do \in W \/ Ahead(W)')
      /\ DataAfterService(cmd.steps) => DataAfterService(cmd'.steps)
      /\ DataAfterService(cmd.steps) /\ x.do = "data" => ~Ahead({"remove", "delete"})
  BY <1>0, <1>2, <1>3, GoesOn
<1>5. OfUser' = OfUser /\ Meant' = Meant
  BY <1>0 DEF InstallSteps, OfUser, Meant
<1> HIDE DEF x
<1>6. CASE cmd.kind = "install"
  <2>1. BinaryOfSystem'
    BY <1>0, <1>2, <1>4, <1>5, <1>6 DEF InstallStep, ServiceInv, BinaryOfSystem,
       InstallUnderWay
  <2>2. UninstallUnderWay'
    BY <1>3, <1>6 DEF UninstallStep, UninstallUnderWay
  <2>3. /\ ~Ahead({"file", "create"})' => host'.file
        /\ plan.elsewhere /\ ~OfUser /\ ~Ahead({"binary"})' => host'.binary = "whole"
    BY <1>2, <1>4, <1>6 DEF InstallStep, ServiceInv, InstallUnderWay
  <2>4. ASSUME NEW w \in Meant \cap Enabling
        PROVE  w \in cmd'.passed \/ Ahead({w})' \/ host'.enabled
    <3>1. w \in cmd.passed \/ Ahead({w}) \/ host.enabled
      BY <1>6 DEF ServiceInv, InstallUnderWay
    <3>2. x.do = w => host'.enabled
      BY <1>2 DEF Enabling
    <3>3. host.enabled => host'.enabled
      BY <1>2, <1>4, <1>6 DEF InstallStep, ServiceInv, InstallUnderWay
    <3> QED BY <1>3, <1>4, <3>1, <3>2, <3>3
  <2>5. "account" \in Meant =>
          "account" \in cmd'.passed \/ Ahead({"account"})' \/ host'.account \in {"user", "partial"}
    BY <1>2, <1>3, <1>4, <1>6 DEF InstallStep, ServiceInv, InstallUnderWay
  <2>6. InstallUnderWay'
    BY <1>0, <1>3, <1>4, <1>5, <1>6, <2>3, <2>4, <2>5 DEF InstallStep, ServiceInv,
       InstallUnderWay
  <2> QED BY <1>4, <2>1, <2>2, <2>6 DEF ServiceInv
<1>7. CASE cmd.kind = "uninstall"
  <2>1. BinaryOfSystem'
    BY <1>0, <1>2, <1>4, <1>5, <1>7 DEF UninstallStep, ServiceInv, BinaryOfSystem,
       UninstallUnderWay
  <2>2. InstallUnderWay'
    BY <1>3, <1>7 DEF InstallStep, InstallUnderWay
  <2>3. DataAfterService(cmd'.steps) /\ (Ahead({"remove", "delete"})' => Ahead({"data"})')
    BY <1>4, <1>7 DEF UninstallStep, ServiceInv, UninstallUnderWay
  <2>4. OfUser \/ "remove" \in cmd'.passed \/ Ahead({"remove", "delete"})' \/ ~host'.file
    BY <1>2, <1>3, <1>4, <1>7 DEF UninstallStep, ServiceInv, UninstallUnderWay
  <2>5. OfUser \/ plan.manager \in {"launchd", "bsdrc"} \/ "disable" \in cmd'.passed
          \/ Ahead({"disable", "delete"})' \/ ~host'.enabled
    BY <1>2, <1>3, <1>4, <1>7 DEF UninstallStep, ServiceInv, UninstallUnderWay
  <2>6. "data" \in cmd'.passed \/ Ahead({"data"})' \/ host'.file \/ ~host'.data
    BY <1>2, <1>3, <1>4, <1>7 DEF UninstallStep, ServiceInv, UninstallUnderWay
  <2>7. "remove-account" \in cmd'.passed \/ Ahead({"remove-account"})'
          \/ host'.account \in {"none", "group"}
    BY <1>2, <1>3, <1>4, <1>7 DEF UninstallStep, ServiceInv, UninstallUnderWay
  <2>8. UninstallUnderWay'
    BY <1>0, <1>3, <1>4, <1>5, <1>7, <2>3, <2>4, <2>5, <2>6, <2>7 DEF UninstallStep,
       ServiceInv, UninstallUnderWay
  <2> QED BY <1>4, <2>1, <2>2, <2>8 DEF ServiceInv
<1> QED BY <1>4, <1>6, <1>7

\* A command that ends, or is cut off, with nothing to claim.
LEMMA EndsUnsaid ==
  ASSUME ServiceInv, UNCHANGED plan, cmd' = NoCommand, host' \in Host, BinaryOfSystem',
         told' \in Answers, ~told'.ok
  PROVE  ServiceInv'
<1>1. ServiceTypes'
  BY DEF ServiceInv, ServiceTypes, NoCommand, Commands, UnderWay
<1>2. InstallUnderWay' /\ UninstallUnderWay' /\ TrueWhenTold'
  BY DEF InstallStep, UninstallStep, NoCommand, InstallUnderWay, UninstallUnderWay,
     TrueWhenTold
<1> QED BY <1>1, <1>2 DEF ServiceInv

\* A step that is passed over leaves what it was for undone.
LEMMA PassedOver ==
  ASSUME ServiceInv, UNCHANGED plan, cmd.steps # <<>>, NEW clean \in BOOLEAN, PassOver(clean),
         ~Head(cmd.steps).must,
         host' = host \/ host' \in Halfway(Head(cmd.steps).do)
  PROVE  ServiceInv'
<1> DEFINE x == Head(cmd.steps)
<1>0. /\ plan' = plan /\ told' = told /\ ~x.must
      /\ cmd' = [cmd EXCEPT !.steps = Tail(cmd.steps), !.clean = cmd.clean /\ clean,
                            !.passed = cmd.passed \cup {x.do}]
  BY DEF PassOver
<1>1. x \in Steps /\ x.do \in Whats /\ host \in Host
  BY FirstAndRest DEF ServiceInv, ServiceTypes, UnderWay, Steps
<1>2. /\ host' \in Host /\ host'.file = host.file /\ host'.data = host.data
      /\ host'.enabled = host.enabled
      /\ x.do # "account" => host'.account = host.account
      /\ host'.binary # host.binary => x.do = "binary" /\ plan.elsewhere
  <2>1. CASE host' = host
    BY <1>1, <2>1
  <2>2. CASE host' \in Halfway(x.do)
    BY <1>1, <2>2, HalfwayParts
  <2> QED BY <2>1, <2>2
<1>3. /\ cmd' \in UnderWay /\ cmd'.kind = cmd.kind /\ cmd'.steps = Tail(cmd.steps)
      /\ cmd'.passed = cmd.passed \cup {x.do}
  <2>1. cmd \in UnderWay /\ Tail(cmd.steps) \in Seq(Steps)
    BY FirstAndRest DEF ServiceInv, ServiceTypes, UnderWay
  <2>2. (cmd.clean /\ clean) \in BOOLEAN /\ cmd.passed \cup {x.do} \in SUBSET Whats
    BY <1>1, <2>1 DEF UnderWay
  <2> QED BY <1>0, <2>1, <2>2 DEF UnderWay
<1>4. /\ ServiceTypes' /\ TrueWhenTold'
      /\ cmd.kind \in {"install", "uninstall"}
      /\ x \in Members(cmd.steps)
      /\ Members(cmd.steps) = {x} \cup Members(cmd'.steps)
      /\ \A W : Ahead(W) <=> (x.do \in W \/ Ahead(W)')
      /\ DataAfterService(cmd.steps) => DataAfterService(cmd'.steps)
      /\ DataAfterService(cmd.steps) /\ x.do = "data" => ~Ahead({"remove", "delete"})
  BY <1>0, <1>2, <1>3, GoesOn
<1>5. OfUser' = OfUser /\ Meant' = Meant
  BY <1>0 DEF InstallSteps, OfUser, Meant
<1> HIDE DEF x
<1>6. CASE cmd.kind = "install"
  <2>0. x.do \notin {"binary", "file", "create"}
    BY <1>0, <1>4, <1>6 DEF InstallStep, ServiceInv, InstallUnderWay
  <2>1. BinaryOfSystem'
    BY <1>0, <1>2, <1>5, <2>0 DEF ServiceInv, BinaryOfSystem
  <2>2. UninstallUnderWay'
    BY <1>3, <1>6 DEF UninstallStep, UninstallUnderWay
  <2>3. /\ ~Ahead({"file", "create"})' => host'.file
        /\ plan.elsewhere /\ ~OfUser /\ ~Ahead({"binary"})' => host'.binary = "whole"
    BY <1>2, <1>4, <1>6, <2>0 DEF InstallStep, ServiceInv, InstallUnderWay
  <2>4. ASSUME NEW w \in Meant \cap Enabling
        PROVE  w \in cmd'.passed \/ Ahead({w})' \/ host'.enabled
    BY <1>2, <1>3, <1>4, <1>6 DEF ServiceInv, InstallUnderWay
  <2>5. "account" \in Meant =>
          "account" \in cmd'.passed \/ Ahead({"account"})' \/ host'.account \in {"user", "partial"}
    BY <1>2, <1>3, <1>4, <1>6 DEF ServiceInv, InstallUnderWay
  <2>6. InstallUnderWay'
    BY <1>0, <1>3, <1>4, <1>5, <1>6, <2>3, <2>4, <2>5 DEF InstallStep, ServiceInv,
       InstallUnderWay
  <2> QED BY <1>4, <2>1, <2>2, <2>6 DEF ServiceInv
<1>7. CASE cmd.kind = "uninstall"
  <2>0. /\ x.do \notin {"binary", "account", "create", "delete"}
        /\ x.do = "remove" => plan.manager = "runit"
    BY <1>0, <1>4, <1>7 DEF UninstallStep, ServiceInv, UninstallUnderWay
  <2>1. BinaryOfSystem'
    BY <1>0, <1>2, <1>5, <2>0 DEF ServiceInv, BinaryOfSystem
  <2>2. InstallUnderWay'
    BY <1>3, <1>7 DEF InstallStep, InstallUnderWay
  <2>3. DataAfterService(cmd'.steps) /\ (Ahead({"remove", "delete"})' => Ahead({"data"})')
    BY <1>4, <1>7 DEF UninstallStep, ServiceInv, UninstallUnderWay
  <2>4. OfUser \/ "remove" \in cmd'.passed \/ Ahead({"remove", "delete"})' \/ ~host'.file
    BY <1>2, <1>3, <1>4, <1>7, <2>0 DEF ServiceInv, UninstallUnderWay
  <2>5. OfUser \/ plan.manager \in {"launchd", "bsdrc"} \/ "disable" \in cmd'.passed
          \/ Ahead({"disable", "delete"})' \/ ~host'.enabled
    BY <1>2, <1>3, <1>4, <1>7, <2>0 DEF ServiceInv, UninstallUnderWay
  <2>6. "data" \in cmd'.passed \/ Ahead({"data"})' \/ host'.file \/ ~host'.data
    BY <1>2, <1>3, <1>4, <1>7 DEF ServiceInv, UninstallUnderWay
  <2>7. "remove-account" \in cmd'.passed \/ Ahead({"remove-account"})'
          \/ host'.account \in {"none", "group"}
    BY <1>2, <1>3, <1>4, <1>7, <2>0 DEF ServiceInv, UninstallUnderWay
  <2>8. plan.manager # "runit" => "remove" \notin cmd'.passed
    BY <1>3, <1>7, <2>0 DEF ServiceInv, UninstallUnderWay
  <2>9. UninstallUnderWay'
    BY <1>0, <1>3, <1>4, <1>5, <1>7, <2>3, <2>4, <2>5, <2>6, <2>7, <2>8 DEF UninstallStep,
       ServiceInv, UninstallUnderWay
  <2> QED BY <1>4, <2>1, <2>2, <2>9 DEF ServiceInv
<1> QED BY <1>4, <1>6, <1>7

\* A torn binary is one of a service of the system.
LEMMA HalfwayBinary ==
  ASSUME ServiceInv, UNCHANGED plan, cmd.steps # <<>>, host' \in Halfway(Head(cmd.steps).do)
  PROVE  host' \in Host /\ BinaryOfSystem'
<1> DEFINE x == Head(cmd.steps)
<1>1. x \in Steps /\ x.do \in Whats /\ host \in Host /\ x \in Members(cmd.steps)
  BY FirstAndRest DEF ServiceInv, ServiceTypes, UnderWay, Steps
<1>2. /\ host' \in Host
      /\ host'.binary # host.binary => x.do = "binary" /\ plan.elsewhere
  BY <1>1, HalfwayParts
<1>3. cmd.kind \in {"install", "uninstall"}
  BY DEF ServiceInv, ServiceTypes, Commands, UnderWay
<1>4. x.do = "binary" => ~OfUser
  BY <1>1, <1>3 DEF InstallStep, UninstallStep, ServiceInv, InstallUnderWay,
     UninstallUnderWay
<1> QED BY <1>2, <1>4 DEF ServiceInv, BinaryOfSystem, OfUser

\* A step that is refused, or fails, ends the command or is passed over.
LEMMA RefusedKeepsInv ==
  ASSUME ServiceInv, UNCHANGED plan, Refused
  PROVE  ServiceInv'
<1>1. cmd.steps # <<>> /\ host' = host /\ plan' = plan
  BY DEF Refused
<1>2. CASE Head(cmd.steps).must
  <2>1. /\ cmd' = NoCommand
        /\ told' = [kind |-> cmd.kind, ok |-> FALSE, clean |-> cmd.clean, passed |-> cmd.passed]
    BY <1>2 DEF Refused, End
  <2>2. host' \in Host /\ BinaryOfSystem'
    BY <1>1 DEF ServiceInv, ServiceTypes, BinaryOfSystem, OfUser
  <2>3. /\ told' \in Answers
        /\ ~told'.ok
    BY <2>1 DEF ServiceInv, ServiceTypes, UnderWay, Answers
  <2> QED BY <2>1, <2>2, <2>3, EndsUnsaid
<1>3. CASE ~Head(cmd.steps).must
  <2>1. PassOver(TRUE)
    BY <1>3 DEF Refused
  <2> QED BY <1>1, <1>3, <2>1, PassedOver
<1> QED BY <1>2, <1>3

\* Likewise for one that fails.
LEMMA FailsKeepsInv ==
  ASSUME ServiceInv, UNCHANGED plan, Fails
  PROVE  ServiceInv'
<1>1. cmd.steps # <<>> /\ host' \in Halfway(Head(cmd.steps).do) /\ plan' = plan
  BY DEF Fails
<1>2. CASE Head(cmd.steps).must
  <2>1. /\ cmd' = NoCommand
        /\ told' = [kind |-> cmd.kind, ok |-> FALSE, clean |-> FALSE, passed |-> cmd.passed]
    BY <1>2 DEF Fails
  <2>2. host' \in Host /\ BinaryOfSystem'
    BY <1>1, HalfwayBinary
  <2>3. /\ told' \in Answers
        /\ ~told'.ok
    BY <2>1 DEF ServiceInv, ServiceTypes, UnderWay, Answers
  <2> QED BY <2>1, <2>2, <2>3, EndsUnsaid
<1>3. CASE ~Head(cmd.steps).must
  <2>1. PassOver(FALSE)
    BY <1>3 DEF Fails
  <2> QED BY <1>1, <1>3, <2>1, PassedOver
<1> QED BY <1>2, <1>3

\* A command that is cut off says nothing.
LEMMA CutOffKeepsInv ==
  ASSUME ServiceInv, UNCHANGED plan, CutOff
  PROVE  ServiceInv'
<1>1. /\ cmd.steps # <<>> /\ cmd' = NoCommand /\ told' = NotTold /\ plan' = plan
      /\ host' = host \/ host' \in Halfway(Head(cmd.steps).do)
  BY DEF CutOff
<1>2. host' \in Host /\ BinaryOfSystem'
  <2>1. CASE host' = host
    BY <1>1, <2>1 DEF ServiceInv, ServiceTypes, BinaryOfSystem, OfUser
  <2>2. CASE host' \in Halfway(Head(cmd.steps).do)
    BY <1>1, <2>2, HalfwayBinary
  <2> QED BY <1>1, <2>1, <2>2
<1>3. /\ told' \in Answers
      /\ ~told'.ok
  BY <1>1 DEF NotTold, Commands, Answers
<1> QED BY <1>1, <1>2, <1>3, EndsUnsaid

\* A command that has nothing ahead is true to its word.
LEMMA FinishedKeepsInv ==
  ASSUME ServiceInv, UNCHANGED plan, Finished
  PROVE  ServiceInv'
<1>1. /\ cmd.kind # "none" /\ cmd.steps = <<>> /\ cmd' = NoCommand /\ host' = host
      /\ plan' = plan
      /\ told' = [kind |-> cmd.kind, ok |-> TRUE, clean |-> cmd.clean, passed |-> cmd.passed]
  BY DEF Finished, End
<1>2. Members(cmd.steps) = {} /\ \A W : ~Ahead(W)
  BY <1>1 DEF Members, Ahead
<1>3. ServiceTypes'
  BY <1>1 DEF ServiceInv, ServiceTypes, NoCommand, Commands, UnderWay, Answers
<1>4. InstallUnderWay' /\ UninstallUnderWay'
  BY <1>1 DEF InstallStep, UninstallStep, NoCommand, InstallUnderWay, UninstallUnderWay
<1>5. BinaryOfSystem'
  BY <1>1 DEF ServiceInv, BinaryOfSystem, OfUser
<1>6. TrueWhenTold'
  <2>1. /\ Meant' = Meant /\ OfUser' = OfUser /\ HasBinary' = HasBinary
        /\ Startable' = Startable
    BY <1>1 DEF InstallSteps, Meant, OfUser, HasBinary, Startable, NeedsAccount
  <2>2. CASE cmd.kind = "install"
    <3>1. host.file /\ (plan.elsewhere /\ ~OfUser => host.binary = "whole")
      BY <1>2, <2>2 DEF InstallStep, ServiceInv, InstallUnderWay
    <3>2. HasBinary
      BY <3>1 DEF ServiceInv, BinaryOfSystem, HasBinary
    <3>3. (Meant \ cmd.passed) \cap {"enable", "enable-now", "create"} # {} => host.enabled
      BY <1>2, <2>2 DEF ServiceInv, InstallUnderWay, Enabling
    <3>4. "account" \in Meant \ cmd.passed => Startable \/ host.account = "partial"
      BY <1>2, <2>2, <3>1, <3>2 DEF ServiceInv, InstallUnderWay, Startable
    <3> QED BY <1>1, <2>1, <2>2, <3>1, <3>2, <3>3, <3>4 DEF TrueWhenTold
  <2>3. CASE cmd.kind = "uninstall"
    <3>1. ~OfUser =>
            /\ "remove" \notin cmd.passed => ~host.file
            /\ "data" \notin cmd.passed /\ ~host.file => ~host.data
            /\ "remove-account" \notin cmd.passed => host.account \in {"none", "group"}
            /\ plan.manager \notin {"launchd", "bsdrc"} /\ "disable" \notin cmd.passed
                 => ~host.enabled
      BY <1>2, <2>3 DEF ServiceInv, UninstallUnderWay
    <3> QED BY <1>1, <2>1, <2>3, <3>1 DEF TrueWhenTold
  <2> QED BY <1>1, <2>2, <2>3 DEF ServiceInv, ServiceTypes, UnderWay, Commands
<1> QED BY <1>3, <1>4, <1>5, <1>6 DEF ServiceInv

\* What the manager does leaves the service where it is.
LEMMA ManagerKeepsInv ==
  ASSUME ServiceInv, UNCHANGED plan, StartService \/ StopService \/ Disable
  PROVE  ServiceInv'
<1>0. plan' = plan /\ cmd' = cmd /\ Meant' = Meant /\ OfUser' = OfUser
  BY DEF StartService, StopService, Disable, InstallSteps, Meant, OfUser
<1>1. host \in Host
  BY DEF ServiceInv, ServiceTypes
<1>2. \A W : Ahead(W)' = Ahead(W)
  BY <1>0 DEF Ahead
<1>3. CASE StartService \/ StopService
  <2>1. /\ told' = told /\ host' \in Host
        /\ host'.file = host.file /\ host'.binary = host.binary
        /\ host'.account = host.account /\ host'.enabled = host.enabled
        /\ host'.data = host.data \/ host.file
    BY <1>1, <1>3 DEF StartService, StopService, Startable, Host
  <2>2. HasBinary' = HasBinary /\ Startable' = Startable
    BY <1>0, <2>1 DEF HasBinary, Startable, NeedsAccount
  <2>3. ServiceTypes' /\ BinaryOfSystem'
    BY <1>0, <2>1 DEF ServiceInv, ServiceTypes, BinaryOfSystem
  <2>4. TrueWhenTold'
    BY <1>0, <2>1, <2>2 DEF ServiceInv, TrueWhenTold
  <2>5. InstallUnderWay'
    BY <1>0, <1>2, <2>1 DEF InstallStep, ServiceInv, InstallUnderWay
  <2>6. UninstallUnderWay'
    BY <1>0, <1>2, <2>1 DEF UninstallStep, ServiceInv, UninstallUnderWay
  <2> QED BY <2>3, <2>4, <2>5, <2>6 DEF ServiceInv
<1>4. CASE Disable
  <2>1. /\ told' = NotTold /\ cmd.kind = "none" /\ host' \in Host
        /\ host'.binary = host.binary
    BY <1>1, <1>4 DEF Disable, Host
  <2>2. ServiceTypes' /\ BinaryOfSystem' /\ TrueWhenTold'
    BY <1>0, <2>1 DEF ServiceInv, ServiceTypes, BinaryOfSystem, TrueWhenTold, NotTold,
       Commands, Answers
  <2>3. InstallUnderWay' /\ UninstallUnderWay'
    BY <1>0, <2>1 DEF InstallStep, UninstallStep, InstallUnderWay, UninstallUnderWay
  <2> QED BY <2>2, <2>3 DEF ServiceInv
<1> QED BY <1>3, <1>4

\* The invariant holds in every state.
LEMMA ServiceInvariance == ServiceSpec => []ServiceInv
<1>1. ServiceInv /\ [ServiceNext]_<<plan, serviceVars>> => ServiceInv'
  <2> SUFFICES ASSUME ServiceInv, [ServiceNext]_<<plan, serviceVars>> PROVE ServiceInv'
    OBVIOUS
  <2>1. CASE UNCHANGED plan /\ (Run("install", InstallSteps) \/ Run("uninstall", UninstallSteps))
    BY <2>1, RunKeepsInv
  <2>2. CASE UNCHANGED plan /\ Succeeds
    BY <2>2, SucceedsKeepsInv
  <2>3. CASE UNCHANGED plan /\ Refused
    BY <2>3, RefusedKeepsInv
  <2>4. CASE UNCHANGED plan /\ Fails
    BY <2>4, FailsKeepsInv
  <2>5. CASE UNCHANGED plan /\ Finished
    BY <2>5, FinishedKeepsInv
  <2>6. CASE UNCHANGED plan /\ CutOff
    BY <2>6, CutOffKeepsInv
  <2>7. CASE UNCHANGED plan /\ (StartService \/ StopService \/ Disable)
    BY <2>7, ManagerKeepsInv
  <2>8. CASE UNCHANGED <<plan, serviceVars>>
    <3>1. /\ plan' = plan /\ host' = host /\ cmd' = cmd /\ told' = told
          /\ Meant' = Meant /\ OfUser' = OfUser
      BY <2>8 DEF serviceVars, InstallSteps, Meant, OfUser
    <3> QED BY <3>1 DEF InstallStep, UninstallStep, ServiceInv, ServiceTypes, BinaryOfSystem,
               InstallUnderWay, UninstallUnderWay, TrueWhenTold, Ahead, HasBinary, Startable,
               NeedsAccount
  <2> QED BY <2>1, <2>2, <2>3, <2>4, <2>5, <2>6, <2>7, <2>8 DEF ServiceNext
<1> QED BY <1>1, InitServiceInv, PTL DEF ServiceSpec

\* For each service manager, any number of commands, faults and starts: what an
\* install or an uninstall says when it ends is true, whatever the commands before it
\* left half done (TrueWhenTold).
THEOREM CommandsTellTheTruth == ServiceSpec => []TrueWhenTold
<1>1. ServiceInv => TrueWhenTold
  BY DEF ServiceInv
<1> QED BY <1>1, ServiceInvariance, PTL

\* An install in which no step failed by a fault succeeds, however the commands
\* before it ended, unless the binary is in use or the manager is that of Windows
\* (InstallRepeats).
THEOREM HalfDoneInstallsRepeat == ServiceSpec => InstallRepeats
<1> DEFINE A == (told'.kind = "install" /\ told'.clean /\ told.kind = "none") =>
                  (told'.ok \/ host.running \/ plan.manager = "windows")
<1>1. ServiceInv /\ [ServiceNext]_<<plan, serviceVars>> => [A]_serviceVars
  <2> SUFFICES ASSUME ServiceInv, ServiceNext,
                      told'.kind = "install", told'.clean, told.kind = "none", ~told'.ok,
                      plan.manager # "windows"
               PROVE  host.running
    BY DEF serviceVars
  <2>1. told' # told
    OBVIOUS
  <2>2. CASE Refused
    <3>1. /\ cmd.steps # <<>> /\ ~Possible(Head(cmd.steps).do)
          /\ Head(cmd.steps).must /\ told'.kind = cmd.kind
      BY <2>1, <2>2 DEF Refused, PassOver, End
    <3>2. cmd.kind = "install"
      BY <3>1
    <3>3. Head(cmd.steps) \in Members(cmd.steps)
      BY <3>1, FirstAndRest DEF ServiceInv, ServiceTypes, UnderWay
    <3>4. /\ Head(cmd.steps).do \in {"dirs", "account", "file", "binary", "reload", "enable",
                                      "enable-now", "create"}
          /\ Head(cmd.steps).do \notin {"account", "create"}
      BY <3>1, <3>2, <3>3 DEF InstallStep, ServiceInv, InstallUnderWay
    <3>5. Head(cmd.steps).do = "binary" /\ Busy
      BY <3>1, <3>4 DEF Possible
    <3> QED BY <3>5 DEF Busy
  <2>3. CASE Finished
    BY <2>3 DEF Finished, End
  <2>4. CASE Fails
    BY <2>1, <2>4 DEF Fails, PassOver
  <2>5. CASE CutOff \/ Disable \/ Run("install", InstallSteps) \/ Run("uninstall", UninstallSteps)
    BY <2>5 DEF CutOff, Disable, Run, NotTold
  <2>6. CASE Succeeds \/ StartService \/ StopService
    BY <2>1, <2>6 DEF Succeeds, GoOn, StartService, StopService
  <2> QED BY <2>2, <2>3, <2>4, <2>5, <2>6 DEF ServiceNext
<1> QED BY <1>1, ServiceInvariance, PTL DEF ServiceSpec, InstallRepeats

\* The data of the server are removed only after its service, but for a service
\* of runit and one of a user, so that an uninstall that ends early leaves a server
\* that works (DataGoesLast).
THEOREM DataAreRemovedLast == ServiceSpec => DataGoesLast
<1> DEFINE A == (host.data /\ ~host'.data) => (~host.file \/ plan.manager = "runit" \/ OfUser)
<1>1. ServiceInv /\ [ServiceNext]_<<plan, serviceVars>> => [A]_serviceVars
  <2> SUFFICES ASSUME ServiceInv, ServiceNext, host.data, ~host'.data,
                      plan.manager # "runit", ~OfUser
               PROVE  ~host.file
    BY DEF serviceVars
  <2>0. host \in Host
    BY DEF ServiceInv, ServiceTypes
  <2>1. CASE Succeeds
    <3>1. cmd.steps # <<>> /\ host' = Done(Head(cmd.steps).do)
      BY <2>1 DEF Succeeds
    <3>2. /\ Head(cmd.steps).do \in Whats /\ Head(cmd.steps) \in Members(cmd.steps)
          /\ DataAfterService(cmd.steps) /\ Head(cmd.steps).do = "data" =>
               \A x \in Members(cmd.steps) : x.do \notin {"remove", "delete"}
      BY <3>1, FirstAndRest DEF ServiceInv, ServiceTypes, UnderWay, Steps
    <3>3. Head(cmd.steps).do = "data"
      BY <2>0, <3>1, <3>2, DoneParts
    <3>4. cmd.kind = "uninstall"
      BY <3>1, <3>2, <3>3 DEF InstallStep, ServiceInv, ServiceTypes, UnderWay, InstallUnderWay,
         Commands
    <3>5. DataAfterService(cmd.steps)
      BY <3>4 DEF UninstallStep, ServiceInv, UninstallUnderWay
    <3>6. ~Ahead({"remove", "delete"})
      BY <3>2, <3>3, <3>5 DEF Ahead
    <3> QED BY <3>4, <3>6 DEF UninstallStep, ServiceInv, UninstallUnderWay
  <2>2. CASE Fails \/ CutOff
    <3>1. cmd.steps # <<>> /\ host' \in {host} \cup Halfway(Head(cmd.steps).do)
      BY <2>2 DEF Fails, CutOff
    <3>2. Head(cmd.steps).do \in Whats
      BY <3>1, FirstAndRest DEF ServiceInv, ServiceTypes, UnderWay, Steps
    <3> QED BY <2>0, <3>1, <3>2, HalfwayParts
  <2>3. CASE Refused \/ Finished \/ Run("install", InstallSteps) \/ Run("uninstall", UninstallSteps)
    BY <2>3 DEF Refused, Finished, Run
  <2>4. CASE StartService \/ StopService \/ Disable
    BY <2>0, <2>4 DEF StartService, StopService, Disable, Host
  <2> QED BY <2>1, <2>2, <2>3, <2>4 DEF ServiceNext
<1> QED BY <1>1, ServiceInvariance, PTL DEF ServiceSpec, DataGoesLast

=============================================================================
