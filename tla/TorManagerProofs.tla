-------------------------- MODULE TorManagerProofs --------------------------
(***************************************************************************)
(* Theorems about TorManager, for every bound on keys and every plan of an *)
(* operator: one tor process at a time, and an address that is kept.       *)
(***************************************************************************)
EXTENDS TorManager, TLAPS

Places == {"out", "lock", "close", "change", "write", "torrc", "fill", "launch",
           "key", "open", "save", "host", "watch", "probe", "ended", "exit"}

\* The places of an operation between the close of the old process and the start
\* of the new one, and those after it.
Closed   == {"change", "write", "torrc", "fill", "launch"}
Launched == {"key", "open", "save", "host"}

\* What the proof needs to know of types; a new key is never None.
Thread == [pc : Places,
           op : {"none", "start", "restart", "shutdown", "update", "regenerate", "apply"},
           key : Nat]

Types ==
  /\ plan \in Plans
  /\ mu \in Threads \cup {"free"}
  /\ th \in [Threads -> Thread]
  /\ svc \in Nat /\ next \in Nat \ {0} /\ procs \in Nat

\* Which operations a thread is ever in; main only closes.
Roles ==
  /\ th["boot"].op \in {"none", "start", "restart"}
  /\ th["caller"].op \notin {"start", "restart", "shutdown"}
  /\ th["caller"].pc \notin {"watch", "probe"}
  /\ th["main"].op \in {"none", "shutdown"}
  /\ th["main"].pc \in {"out", "lock", "close", "exit"}
  /\ th["main"].pc \in {"lock", "close"} => th["main"].op = "shutdown"
  /\ \A t \in Threads : th[t].pc \in {"open", "save", "host"} => th[t].key # None

\* A server that is down has no thread and no process.
DownIsEmpty ==
  ~up => /\ mu = "free" /\ svc = None /\ procs = 0
         /\ \A t \in Threads : th[t] = Out

\* The first start, which closes nothing, finds nothing to close.
StartComesFirst ==
  (th["boot"].pc = "lock" /\ th["boot"].op = "start") => svc = None /\ th["caller"].pc = "out"

\* There is a process exactly while it is announced or being launched.
ProcessCounted ==
  /\ svc # None => /\ procs = 1
                   /\ \A t \in Threads : th[t].pc \notin Closed \cup Launched
  /\ \A t \in Threads : th[t].pc \in Launched => procs = 1
  /\ (svc = None /\ \A t \in Threads : th[t].pc \notin Launched) => procs = 0

Exclusive == \A t \in Threads : Working(t) => mu = t

\* The inductive invariant.
IInv == Types /\ Roles /\ DownIsEmpty /\ StartComesFirst /\ ProcessCounted /\ Exclusive

LEMMA InvImpliesProperty == IInv => OneProcess
BY DEF IInv, OneProcess, Exclusive, ProcessCounted, Types, Working, None

LEMMA InitIInv == Init => IInv
BY TorAssumption DEF TorAssumption, Init, IInv, Types, Roles, DownIsEmpty, StartComesFirst, ProcessCounted, Exclusive,
   Working, Closed, Launched, Places, Thread, Threads, Out, None


\* What Go does to the threads, without EXCEPT.
Moved(t, pc) ==
  /\ th' \in [Threads -> Thread]
  /\ th'[t].pc = pc /\ th'[t].op = th[t].op /\ th'[t].key = th[t].key
  /\ \A u \in Threads \ {t} : th'[u] = th[u]

LEMMA GoMoves == ASSUME Types, NEW t \in Threads, NEW pc \in Places, Go(t, pc)
                 PROVE  Moved(t, pc)
BY DEF Types, Go, Moved, Thread

LEMMA BackPlaces == ASSUME NEW t \in Threads, NEW ok \in BOOLEAN
                    PROVE  /\ Back(t, ok) \in {"watch", "ended", "exit", "out"}
                           /\ Back(t, ok) = "exit" <=> t = "main"
                           /\ t # "boot" => Back(t, ok) \notin {"watch", "ended"}
                           /\ t = "boot" => Back(t, ok) # "out"
BY DEF Back, Threads

\* The mutex is free and its holder is back where it came from.
LEMMA UnlockMoves == ASSUME Types, NEW t \in Threads, NEW ok \in BOOLEAN, Unlock(t, ok)
                     PROVE  mu' = "free" /\ Moved(t, Back(t, ok))
BY BackPlaces, GoMoves DEF Unlock, Places

\* A step inside an operation changes neither the holder of the mutex nor, in
\* these three ways, what is announced and started.
Inside(t, pc) ==
  /\ up /\ up' = up /\ mu' = mu /\ plan' = plan
  /\ Moved(t, pc) /\ next' \in Nat \ {0}

LEMMA StaysBeforeLaunch ==
  ASSUME IInv, NEW t \in Threads, NEW pc \in Closed, th[t].pc \in Closed, Inside(t, pc),
         svc' = svc, procs' = procs
  PROVE  IInv'
<1> USE DEF IInv, Inside, Moved, Threads
<1>1. Types' BY DEF Types
<1>2. Roles' BY DEF Roles, Closed
<1>3. DownIsEmpty' BY DEF DownIsEmpty
<1>4. StartComesFirst' BY DEF StartComesFirst, Closed
<1>5. ProcessCounted' BY DEF ProcessCounted, Closed, Launched
<1>6. Exclusive' BY DEF Exclusive, Working, Closed
<1> QED BY <1>1, <1>2, <1>3, <1>4, <1>5, <1>6

LEMMA LockStep == ASSUME IInv, NEW t \in Threads, Lock(t), plan' = plan PROVE IInv'
<1> DEFINE pc == IF th[t].op = "start" THEN "torrc" ELSE "close"
<1>0. Moved(t, pc)
  <2>1. pc \in Places BY DEF Places
  <2>2. Go(t, pc) BY DEF Lock
  <2> QED BY <2>1, <2>2, GoMoves DEF IInv
<1>a. /\ up /\ th[t].pc = "lock" /\ mu = "free" /\ mu' = t
      /\ up' = up /\ svc' = svc /\ procs' = procs /\ next' = next
  BY DEF Lock, At
<1>b. pc \in {"torrc", "close"} /\ (pc = "torrc" <=> th[t].op = "start") OBVIOUS
<1> HIDE DEF pc
<1> USE <1>0, <1>a, <1>b DEF IInv, Moved, Threads
<1>1. Types' BY DEF Types
<1>2. Roles' BY DEF Roles
<1>3. DownIsEmpty' BY DEF DownIsEmpty
<1>4. StartComesFirst' BY DEF Roles, StartComesFirst
<1>5. ProcessCounted' BY DEF Roles, StartComesFirst, ProcessCounted, Exclusive, Working, Closed, Launched
<1>6. Exclusive' BY DEF Exclusive, Working
<1> QED BY <1>1, <1>2, <1>3, <1>4, <1>5, <1>6

LEMMA CloseStep == ASSUME IInv, NEW t \in Threads, CloseService(t), plan' = plan PROVE IInv'
<1> USE DEF IInv, Threads
<1>1. /\ up /\ up' = up /\ th[t].pc = "close" /\ svc' = None /\ next' = next
      /\ procs' = IF svc = None THEN procs ELSE procs - 1
      /\ mu' = IF th[t].op = "shutdown" THEN "free" ELSE mu
      /\ th' = AfterClose(t)
  BY DEF CloseService, At
<1>2. mu = t /\ \A u \in Threads : Working(u) => u = t BY <1>1 DEF Exclusive, Working
<1>3. procs' = 0 BY <1>1, <1>2 DEF ProcessCounted, Working, Launched, Types
<1>4. /\ th' \in [Threads -> Thread]
      /\ th'[t].pc = (CASE th[t].op = "shutdown" -> "exit" [] th[t].op = "restart" -> "torrc" [] OTHER -> "change")
      /\ th'[t].op = th[t].op
      /\ \A u \in Threads \ {t} :
            \/ th'[u] = th[u] /\ th[u].pc # "probe"
            \/ th[u].pc = "probe" /\ th'[u].pc = "lock" /\ th'[u].op = "restart"
  <2> DEFINE R == [Out EXCEPT !.pc = "lock", !.op = "restart"]
  <2> DEFINE pc == CASE th[t].op = "shutdown" -> "exit" [] th[t].op = "restart" -> "torrc" [] OTHER -> "change"
  <2>1. pc \in Places BY DEF Places
  <2>2. R.pc = "lock" /\ R.op = "restart" /\ R \in Thread BY DEF Out, Thread, Places, None
  <2>3. [th[t] EXCEPT !.pc = pc] \in Thread /\ [th[t] EXCEPT !.pc = pc].pc = pc
        /\ [th[t] EXCEPT !.pc = pc].op = th[t].op
    <3> HIDE DEF pc
    <3> QED BY <2>1 DEF Types, Thread
  <2>4. th' = [u \in Threads |-> IF u = t THEN [th[t] EXCEPT !.pc = pc]
                                 ELSE IF th[u].pc = "probe" THEN R ELSE th[u]]
    BY <1>1 DEF AfterClose
  <2> HIDE DEF pc, R
  <2>5. \A u \in Threads : th[u] \in Thread BY DEF Types
  <2>6. th' \in [Threads -> Thread] BY <2>2, <2>3, <2>4, <2>5
  <2>7. th'[t] = [th[t] EXCEPT !.pc = pc] BY <2>4
  <2>8. \A u \in Threads \ {t} : th'[u] = IF th[u].pc = "probe" THEN R ELSE th[u] BY <2>4
  <2> QED BY <2>2, <2>3, <2>6, <2>7, <2>8 DEF pc
<1>5. /\ th[t].op = "shutdown" => th'[t].pc = "exit"
      /\ th[t].op # "shutdown" => th'[t].pc \in {"torrc", "change"}
      /\ t = "main" => th[t].op = "shutdown"
      /\ t # "main" => th[t].op # "shutdown"
  BY <1>1, <1>4 DEF Roles
<1>6. \A u \in Threads \ {t} : th[u].pc \notin Closed \cup Launched /\ th'[u].pc \notin Closed \cup Launched \cup {"close"}
  BY <1>2, <1>4 DEF Working, Closed, Launched
<1>7. \A u \in Threads \ {t} : u # "boot" => th'[u] = th[u] BY <1>4 DEF Roles
<1>8. \/ th'["boot"] = th["boot"]
      \/ th'["boot"].op = "restart"
      \/ t = "boot" /\ th'["boot"].pc \in {"torrc", "change"}
  BY <1>4, <1>5
<1>a. Types' BY <1>1, <1>3, <1>4 DEF Types, None
<1>b. Roles'
  <2>1. th'["boot"].op \in {"none", "start", "restart"} BY <1>4, <1>8 DEF Roles
  <2>2. th'["caller"].op = th["caller"].op BY <1>4, <1>7
  <2>3. th'["caller"].pc \notin {"watch", "probe"} BY <1>5, <1>7 DEF Roles
  <2>4. th'["main"].op = th["main"].op BY <1>4, <1>7
  <2>5. th'["main"].pc = th["main"].pc \/ th'["main"].pc = "exit" BY <1>5, <1>7
  <2>6. \A u \in Threads : th'[u].pc \in {"open", "save", "host"} => th'[u] = th[u] BY <1>4, <1>5
  <2> QED BY <2>1, <2>2, <2>3, <2>4, <2>5, <2>6 DEF Roles
<1>c. DownIsEmpty' BY <1>1 DEF DownIsEmpty
<1>d. StartComesFirst'
  <2> SUFFICES ASSUME th'["boot"].pc = "lock", th'["boot"].op = "start"
               PROVE  th'["caller"].pc = "out"
    BY <1>1 DEF StartComesFirst
  <2>1. th'["boot"] = th["boot"] BY <1>8
  <2>2. th["caller"].pc = "out" BY <2>1 DEF StartComesFirst
  <2>3. t # "caller" BY <1>1, <2>2
  <2> QED BY <1>7, <2>2, <2>3
<1>e. ProcessCounted' BY <1>1, <1>3, <1>5, <1>6 DEF ProcessCounted, Launched
<1>f. Exclusive' BY <1>1, <1>2, <1>4, <1>5, <1>6 DEF Exclusive, Working, Closed, Launched
<1> QED BY <1>a, <1>b, <1>c, <1>d, <1>e, <1>f

\* Before the launch there is neither a service nor a process, and nobody else is
\* inside an operation.
LEMMA StoppedBeforeLaunch ==
  ASSUME IInv, NEW t \in Threads, th[t].pc \in Closed
  PROVE  svc = None /\ procs = 0
<1>1. \A u \in Threads : th[u].pc \notin Launched
  BY DEF IInv, Exclusive, Working, Closed, Launched
<1> QED BY <1>1 DEF IInv, ProcessCounted

\* An operation that ends with neither a service nor a process, ...
LEMMA EndsWithoutService ==
  ASSUME IInv, NEW t \in Threads, th[t].pc \in Closed \cup Launched, NEW ok \in BOOLEAN,
         Unlock(t, ok), up, up' = up, plan' = plan, svc' = None, procs' = 0, next' \in Nat \ {0}
  PROVE  IInv'
<1>1. mu' = "free" /\ Moved(t, Back(t, ok)) BY UnlockMoves DEF IInv
<1>2. /\ th'[t].pc \in {"watch", "ended", "exit", "out"}
      /\ t # "boot" => th'[t].pc \notin {"watch", "ended"}
      /\ t = "main" => th'[t].pc = "exit"
  BY <1>1, BackPlaces DEF Moved
<1>3. \A u \in Threads \ {t} : ~Working(u)
  BY DEF IInv, Exclusive, Working, Closed, Launched
<1>4. t # "main" BY DEF IInv, Roles, Closed, Launched
<1> USE <1>1, <1>2, <1>3, <1>4 DEF IInv, Moved, Threads
<1>a. Types' BY DEF Types, None
<1>b. Roles' BY DEF Roles
<1>c. DownIsEmpty' BY DEF DownIsEmpty
<1>d. StartComesFirst' BY DEF StartComesFirst, Closed, Launched
<1>e. ProcessCounted' BY DEF ProcessCounted, Working, Closed, Launched, None
<1>f. Exclusive' BY DEF Exclusive, Working
<1> QED BY <1>a, <1>b, <1>c, <1>d, <1>e, <1>f

LEMMA ChangeStep == ASSUME IInv, NEW t \in Threads, Change(t), plan' = plan PROVE IInv'
<1>1. up /\ up' = up /\ th[t].pc = "change" /\ svc' = svc /\ procs' = procs /\ next' = next
  BY DEF Change, At
<1>2. \/ mu' = mu /\ \E pc \in {"fill", "torrc", "write"} : Go(t, pc)
      \/ Unlock(t, FALSE)
  BY DEF Change
<1>3. CASE mu' = mu /\ \E pc \in {"fill", "torrc", "write"} : Go(t, pc)
  <2>1. PICK pc \in {"fill", "torrc", "write"} : Go(t, pc) BY <1>3
  <2>2. pc \in Closed /\ pc \in Places /\ th[t].pc \in Closed BY <1>1 DEF Closed, Places
  <2>3. Moved(t, pc) BY <2>1, <2>2, GoMoves DEF IInv
  <2>4. Inside(t, pc) BY <1>1, <1>3, <2>3 DEF Inside, IInv, Types
  <2> QED BY <1>1, <2>2, <2>4, StaysBeforeLaunch
<1>4. CASE Unlock(t, FALSE)
  <2>1. procs' = 0 /\ svc' = None BY <1>1, StoppedBeforeLaunch DEF Closed
  <2>2. next' \in Nat \ {0} BY <1>1 DEF IInv, Types
  <2> QED BY <1>1, <1>4, <2>1, <2>2, EndsWithoutService DEF Closed
<1> QED BY <1>2, <1>3, <1>4

LEMMA WriteKeyStep == ASSUME IInv, NEW t \in Threads, WriteKey(t), plan' = plan PROVE IInv'
<1>1. /\ up /\ up' = up /\ mu' = mu /\ th[t].pc = "write" /\ Go(t, "torrc")
      /\ svc' = svc /\ procs' = procs /\ next' = next
  BY DEF WriteKey, At
<1>2. Moved(t, "torrc") BY <1>1, GoMoves DEF IInv, Places
<1>3. Inside(t, "torrc") BY <1>1, <1>2 DEF Inside, IInv, Types
<1> QED BY <1>1, <1>3, StaysBeforeLaunch DEF Closed

LEMMA TorrcStep == ASSUME IInv, NEW t \in Threads, OpenTorrc(t) \/ FillTorrc(t), plan' = plan PROVE IInv'
<1>1. /\ up /\ up' = up /\ mu' = mu /\ th[t].pc \in {"torrc", "fill"}
      /\ svc' = svc /\ procs' = procs /\ next' = next
  BY DEF OpenTorrc, FillTorrc, At
<1>2. PICK pc \in {"fill", "launch"} : Go(t, pc) BY DEF OpenTorrc, FillTorrc
<1>3. pc \in Places /\ pc \in Closed BY DEF Places, Closed
<1>4. Moved(t, pc) BY <1>2, <1>3, GoMoves DEF IInv
<1>5. Inside(t, pc) BY <1>1, <1>4 DEF Inside, IInv, Types
<1>6. th[t].pc \in Closed BY <1>1 DEF Closed
<1> QED BY <1>1, <1>3, <1>5, <1>6, StaysBeforeLaunch

LEMMA StartFailsStep == ASSUME IInv, NEW t \in Threads, StartFails(t), plan' = plan PROVE IInv'
<1>1. /\ up /\ up' = up /\ th[t].pc \in {"torrc", "launch", "key"}
      /\ procs' = IF th[t].pc = "key" THEN procs - 1 ELSE procs
      /\ Unlock(t, FALSE) /\ svc' = svc /\ next' = next
  BY DEF StartFails
<1>2. svc' = None /\ procs' = 0
  <2>1. CASE th[t].pc = "key"
    <3>1. svc = None BY <2>1 DEF IInv, ProcessCounted, Launched
    <3>2. procs = 1 BY <2>1 DEF IInv, ProcessCounted, Launched
    <3> QED BY <1>1, <2>1, <3>1, <3>2
  <2>2. CASE th[t].pc # "key" BY <1>1, <2>2, StoppedBeforeLaunch DEF Closed
  <2> QED BY <2>1, <2>2
<1>3. next' \in Nat \ {0} BY <1>1 DEF IInv, Types
<1> QED BY <1>1, <1>2, <1>3, EndsWithoutService DEF Closed, Launched

\* The process is counted while its service is being made.
LEMMA StaysLaunched ==
  ASSUME IInv, NEW t \in Threads, th[t].pc \in Closed \cup Launched,
         up, up' = up, mu' = mu, plan' = plan, svc' = None, procs' = 1, next' \in Nat \ {0},
         th' \in [Threads -> Thread], th'[t].pc \in Launched, th'[t].op = th[t].op,
         th'[t].pc = "key" \/ th'[t].key # None,
         \A u \in Threads \ {t} : th'[u] = th[u]
  PROVE  IInv'
<1>1. mu = t /\ \A u \in Threads \ {t} : ~Working(u)
  BY DEF IInv, Exclusive, Working, Closed, Launched
<1>2. t # "main" BY DEF IInv, Roles, Closed, Launched
<1> USE <1>1, <1>2 DEF IInv, Threads
<1>a. Types' BY DEF Types, None
<1>b. Roles' BY DEF Roles, Launched
<1>c. DownIsEmpty' BY DEF DownIsEmpty
<1>d. StartComesFirst' BY DEF StartComesFirst, Closed, Launched
<1>e. ProcessCounted' BY DEF ProcessCounted
<1>f. Exclusive' BY DEF Exclusive, Working
<1> QED BY <1>a, <1>b, <1>c, <1>d, <1>e, <1>f

LEMMA BootstrapStep == ASSUME IInv, NEW t \in Threads, Bootstrap(t), plan' = plan PROVE IInv'
<1>1. /\ up /\ up' = up /\ mu' = mu /\ th[t].pc = "launch" /\ Go(t, "key")
      /\ svc' = svc /\ procs' = procs + 1 /\ next' = next
  BY DEF Bootstrap, At
<1>2. th[t].pc \in Closed BY <1>1 DEF Closed
<1>3. svc' = None /\ procs' = 1 BY <1>1, <1>2, StoppedBeforeLaunch
<1>4. Moved(t, "key") BY <1>1, GoMoves DEF IInv, Places
<1>5. next' \in Nat \ {0} BY <1>1 DEF IInv, Types
<1> QED BY <1>1, <1>2, <1>3, <1>4, <1>5, StaysLaunched DEF Moved, Launched

\* What a launched thread knows.
LEMMA LaunchedHasProcess ==
  ASSUME IInv, NEW t \in Threads, th[t].pc \in Launched
  PROVE  svc = None /\ procs = 1
BY DEF IInv, ProcessCounted

LEMMA AddOnionStep == ASSUME IInv, NEW t \in Threads, AddOnion(t), plan' = plan PROVE IInv'
<1>1. /\ up /\ up' = up /\ mu' = mu /\ th[t].pc = "key"
      /\ svc' = svc /\ procs' = procs
  BY DEF AddOnion, At
<1>2. \E pc \in {"host", "open"}, k \in Nat \ {0} :
         th' = [th EXCEPT ![t] = [@ EXCEPT !.pc = pc, !.key = k]] /\ next' \in Nat \ {0}
  <2>1. CASE files.key \in Keys
    <3>1. files.key \in Nat \ {0} BY <2>1, TorAssumption DEF Keys, TorAssumption
    <3>2. th' = [th EXCEPT ![t] = [@ EXCEPT !.pc = "host", !.key = files.key]] /\ next' = next
      BY <2>1 DEF AddOnion
    <3> QED BY <3>1, <3>2 DEF IInv, Types
  <2>2. CASE files.key \notin Keys
    <3>1. th' = [th EXCEPT ![t] = [@ EXCEPT !.pc = "open", !.key = next]] /\ next' = next + 1
      BY <2>2 DEF AddOnion
    <3>2. next \in Nat \ {0} /\ next' \in Nat \ {0} BY <3>1 DEF IInv, Types
    <3> QED BY <3>1, <3>2
  <2> QED BY <2>1, <2>2
<1> PICK pc \in {"host", "open"}, k \in Nat \ {0} :
         th' = [th EXCEPT ![t] = [@ EXCEPT !.pc = pc, !.key = k]] /\ next' \in Nat \ {0}
  BY <1>2
<1>3. /\ th' \in [Threads -> Thread] /\ th'[t].pc = pc /\ th'[t].op = th[t].op
      /\ th'[t].key # None /\ \A u \in Threads \ {t} : th'[u] = th[u]
  BY DEF IInv, Types, Thread, Places, None
<1>4. svc' = None /\ procs' = 1 BY <1>1, LaunchedHasProcess DEF Launched
<1>5. th[t].pc \in Closed \cup Launched /\ pc \in Launched BY <1>1 DEF Launched
<1> QED BY <1>1, <1>3, <1>4, <1>5, StaysLaunched

LEMMA KeyFileStep == ASSUME IInv, NEW t \in Threads, OpenKey(t) \/ SaveKey(t), plan' = plan PROVE IInv'
<1>1. /\ up /\ up' = up /\ mu' = mu /\ th[t].pc \in {"open", "save"}
      /\ svc' = svc /\ procs' = procs /\ next' = next
  BY DEF OpenKey, SaveKey, At
<1>2. PICK pc \in {"save", "host"} : Go(t, pc) BY DEF OpenKey, SaveKey
<1>3. pc \in Places /\ pc \in Launched BY DEF Places, Launched
<1>4. Moved(t, pc) BY <1>2, <1>3, GoMoves DEF IInv
<1>5. th[t].pc \in Closed \cup Launched BY <1>1 DEF Launched
<1>6. svc' = None /\ procs' = 1 BY <1>1, LaunchedHasProcess DEF Launched
<1>7. th'[t].key # None BY <1>1, <1>4 DEF Moved, IInv, Roles
<1>8. next' \in Nat \ {0} BY <1>1 DEF IInv, Types
<1> QED BY <1>1, <1>3, <1>4, <1>5, <1>6, <1>7, <1>8, StaysLaunched DEF Moved

LEMMA ServeStep == ASSUME IInv, NEW t \in Threads, Serve(t), plan' = plan PROVE IInv'
<1>1. /\ up /\ up' = up /\ th[t].pc = "host" /\ svc' = th[t].key
      /\ procs' = procs /\ next' = next /\ Unlock(t, TRUE)
  BY DEF Serve, At
<1>2. mu' = "free" /\ Moved(t, Back(t, TRUE)) BY <1>1, UnlockMoves DEF IInv
<1>3. /\ th'[t].pc \in {"watch", "ended", "exit", "out"}
      /\ t # "boot" => th'[t].pc \notin {"watch", "ended"}
      /\ t = "main" => th'[t].pc = "exit"
  BY <1>2, BackPlaces DEF Moved
<1>4. \A u \in Threads \ {t} : ~Working(u)
  BY <1>1 DEF IInv, Exclusive, Working
<1>5. t # "main" BY <1>1 DEF IInv, Roles
<1>6. procs' = 1 BY <1>1, LaunchedHasProcess DEF Launched
<1>7. svc' # None /\ svc' \in Nat BY <1>1 DEF IInv, Roles, Types, Thread
<1>8. /\ mu' = "free" /\ th' \in [Threads -> Thread] /\ th'[t].op = th[t].op
      /\ \A u \in Threads \ {t} : th'[u] = th[u] /\ ~Working(u)
  BY <1>2, <1>4 DEF Moved
<1>9. up /\ up' = up /\ th[t].pc = "host" /\ next' = next BY <1>1
<1> USE <1>3, <1>5, <1>6, <1>7, <1>8, <1>9 DEF IInv, Threads
<1>a. Types' BY DEF Types
<1>b. Roles' BY DEF Roles
<1>c. DownIsEmpty' BY DEF DownIsEmpty
<1>d. StartComesFirst' BY DEF StartComesFirst
<1>e. ProcessCounted' BY DEF ProcessCounted, Working, Closed, Launched
<1>f. Exclusive' BY DEF Exclusive, Working
<1> QED BY <1>a, <1>b, <1>c, <1>d, <1>e, <1>f

\* A thread that is in no operation, and enters none.
LEMMA OutsideStep ==
  ASSUME IInv, NEW t \in Threads, ~Working(t), th'[t].pc \in {"lock", "watch", "probe", "ended"},
         th' \in [Threads -> Thread], \A u \in Threads \ {t} : th'[u] = th[u],
         up, up' = up, mu' = mu, plan' = plan, svc' = svc, procs' = procs, next' \in Nat \ {0},
         Roles', StartComesFirst'
  PROVE  IInv'
<1> USE DEF IInv, Threads
<1>a. Types' BY DEF Types
<1>c. DownIsEmpty' BY DEF DownIsEmpty
<1>e. ProcessCounted' BY DEF ProcessCounted, Working, Closed, Launched
<1>f. Exclusive' BY DEF Exclusive, Working
<1> QED BY <1>a, <1>c, <1>e, <1>f

LEMMA MonitorStep == ASSUME IInv, Monitor, plan' = plan PROVE IInv'
<1>1. /\ up /\ up' = up /\ mu' = mu /\ svc' = svc /\ procs' = procs /\ next' = next
      /\ th["boot"].pc \in {"watch", "probe"}
  BY DEF Monitor, Tick, Probe, MonitorEnds, At
<1>2. /\ th' \in [Threads -> Thread] /\ \A u \in Threads \ {"boot"} : th'[u] = th[u]
      /\ \/ th'["boot"].pc \in {"probe", "ended"} /\ th'["boot"].op = th["boot"].op
         \/ th'["boot"].pc = "lock" /\ th'["boot"].op = "restart"
  <2>1. CASE Tick
    <3>1. Moved("boot", "probe") BY <2>1, GoMoves DEF Tick, IInv, Threads, Places
    <3> QED BY <3>1 DEF Moved
  <2>2. CASE MonitorEnds
    <3>1. Moved("boot", "ended") BY <2>2, GoMoves DEF MonitorEnds, IInv, Threads, Places
    <3> QED BY <3>1 DEF Moved
  <2>3. CASE Probe
    <3> DEFINE R == [Out EXCEPT !.pc = "lock", !.op = "restart"]
    <3>1. R.pc = "lock" /\ R.op = "restart" /\ R \in Thread BY DEF Out, Thread, Places, None
    <3>2. th' = [th EXCEPT !["boot"] = R] BY <2>3 DEF Probe
    <3> HIDE DEF R
    <3> QED BY <3>1, <3>2 DEF IInv, Types, Threads
  <2> QED BY <2>1, <2>2, <2>3 DEF Monitor
<1>3. Roles' BY <1>2 DEF IInv, Roles, Threads
<1>4. StartComesFirst' BY <1>1, <1>2 DEF IInv, StartComesFirst, Threads
<1>5. ~Working("boot") BY <1>1 DEF Working
<1>6. next' \in Nat \ {0} BY <1>1 DEF IInv, Types
<1>7. "boot" \in Threads BY DEF Threads
<1> QED BY <1>1, <1>2, <1>3, <1>4, <1>5, <1>6, <1>7, OutsideStep

LEMMA CallStep == ASSUME IInv, Call, plan' = plan PROVE IInv'
<1>1. /\ up /\ up' = up /\ mu' = mu /\ svc' = svc /\ procs' = procs
      /\ th["caller"].pc = "out"
      /\ th["boot"].op = "start" => th["boot"].pc # "lock"
  BY DEF Call, At
<1>2. PICK op \in plan.calls :
        /\ next' = IF op = "apply" THEN next + 1 ELSE next
        /\ th' = [th EXCEPT !["caller"] = [pc |-> "lock", op |-> op, key |-> IF op = "apply" THEN next ELSE None]]
  BY DEF Call
<1>3. op \in {"update", "regenerate", "apply"} BY TorAssumption DEF IInv, Types, TorAssumption
<1>4. next \in Nat \ {0} /\ next' \in Nat \ {0} BY <1>2 DEF IInv, Types
<1>5. /\ th' \in [Threads -> Thread] /\ \A u \in Threads \ {"caller"} : th'[u] = th[u]
      /\ th'["caller"].pc = "lock" /\ th'["caller"].op = op
  <2> DEFINE k == IF op = "apply" THEN next ELSE None
  <2>1. k \in Nat BY <1>4 DEF None
  <2>2. th' = [th EXCEPT !["caller"] = [pc |-> "lock", op |-> op, key |-> k]] BY <1>2
  <2> HIDE DEF k
  <2>3. [pc |-> "lock", op |-> op, key |-> k] \in Thread BY <1>3, <2>1 DEF Thread, Places
  <2> QED BY <2>2, <2>3 DEF IInv, Types, Threads
<1>6. Roles' BY <1>3, <1>5 DEF IInv, Roles, Threads
<1>7. StartComesFirst' BY <1>1, <1>5 DEF IInv, StartComesFirst, Threads
<1>8. ~Working("caller") BY <1>1 DEF Working
<1>9. "caller" \in Threads BY DEF Threads
<1> QED BY <1>1, <1>4, <1>5, <1>6, <1>7, <1>8, <1>9, OutsideStep

LEMMA ShutdownStep == ASSUME IInv, Shutdown, plan' = plan PROVE IInv'
<1>1. /\ up /\ up' = up /\ mu' = mu /\ svc' = svc /\ procs' = procs /\ next' = next
      /\ th["main"].pc = "out"
  BY DEF Shutdown, At
<1>2. /\ th' \in [Threads -> Thread] /\ \A u \in Threads \ {"main"} : th'[u] = th[u]
      /\ th'["main"].pc = "lock" /\ th'["main"].op = "shutdown"
  <2> DEFINE R == [Out EXCEPT !.pc = "lock", !.op = "shutdown"]
  <2>1. R.pc = "lock" /\ R.op = "shutdown" /\ R \in Thread BY DEF Out, Thread, Places, None
  <2>2. th' = [th EXCEPT !["main"] = R] BY DEF Shutdown
  <2> HIDE DEF R
  <2> QED BY <2>1, <2>2 DEF IInv, Types, Threads
<1>3. Roles' BY <1>2 DEF IInv, Roles, Threads
<1>4. StartComesFirst' BY <1>1, <1>2 DEF IInv, StartComesFirst, Threads
<1>5. ~Working("main") BY <1>1 DEF Working
<1>6. next' \in Nat \ {0} BY <1>1 DEF IInv, Types
<1>7. "main" \in Threads BY DEF Threads
<1> QED BY <1>1, <1>2, <1>3, <1>4, <1>5, <1>6, <1>7, OutsideStep

\* The server comes up, with nothing of its predecessor.
LEMMA LaunchStep == ASSUME IInv, Launch, plan' = plan PROVE IInv'
<1> DEFINE R == [Out EXCEPT !.pc = "lock", !.op = "start"]
<1>1. /\ up' = TRUE /\ mu' = "free" /\ svc' = None /\ procs' = 0 /\ next' = next
      /\ th' = [t \in Threads |-> IF t = "boot" THEN R ELSE Out]
  BY DEF Launch, IInv, DownIsEmpty
<1>2. R.pc = "lock" /\ R.op = "start" /\ R \in Thread BY DEF Out, Thread, Places, None
<1>3. Out.pc = "out" /\ Out.op = "none" /\ Out \in Thread BY DEF Out, Thread, Places, None
<1> HIDE DEF R
<1> USE <1>1, <1>2, <1>3 DEF IInv, Threads
<1>a. Types' BY DEF Types, None
<1>b. Roles' BY DEF Roles
<1>c. DownIsEmpty' BY DEF DownIsEmpty
<1>d. StartComesFirst' BY DEF StartComesFirst
<1>e. ProcessCounted' BY DEF ProcessCounted, Closed, Launched
<1>f. Exclusive' BY DEF Exclusive, Working
<1> QED BY <1>a, <1>b, <1>c, <1>d, <1>e, <1>f

\* The server goes down, and what it launched with it.
LEMMA GoneStep == ASSUME IInv, Gone, plan' = plan PROVE IInv'
<1>1. /\ up' = FALSE /\ mu' = "free" /\ svc' = None /\ procs' = 0 /\ next' = next
      /\ th' = [t \in Threads |-> Out]
  BY DEF Gone
<1>2. Out.pc = "out" /\ Out.op = "none" /\ Out \in Thread BY DEF Out, Thread, Places, None
<1> USE <1>1, <1>2 DEF IInv, Threads
<1>a. Types' BY DEF Types, None
<1>b. Roles' BY DEF Roles
<1>c. DownIsEmpty' BY DEF DownIsEmpty
<1>d. StartComesFirst' BY DEF StartComesFirst
<1>e. ProcessCounted' BY DEF ProcessCounted, Launched
<1>f. Exclusive' BY DEF Exclusive, Working
<1> QED BY <1>a, <1>b, <1>c, <1>d, <1>e, <1>f

\* What the invariant does not look at: tor itself, the subcommand, a stutter.
LEMMA OtherStep ==
  ASSUME IInv, UNCHANGED <<up, mu, th, svc, procs, plan>>, next' \in Nat \ {0}
  PROVE  IInv'
BY DEF IInv, Types, Roles, DownIsEmpty, StartComesFirst, ProcessCounted, Exclusive, Working

LEMMA NextKeepsIInv == IInv /\ [Next]_<<plan, torVars>> => IInv'
<1> SUFFICES ASSUME IInv, [Next]_<<plan, torVars>> PROVE IInv' OBVIOUS
<1>1. CASE UNCHANGED <<plan, torVars>>
  <2>1. next' \in Nat \ {0} BY <1>1 DEF torVars, IInv, Types
  <2> QED BY <1>1, <2>1, OtherStep DEF torVars
<1>2. CASE Steps /\ UNCHANGED plan
  <2>0. plan' = plan BY <1>2
  <2>1. CASE Launch BY <2>0, <2>1, LaunchStep
  <2>2. CASE Tick \/ Probe \/ MonitorEnds BY <2>0, <2>2, MonitorStep DEF Monitor
  <2>3. CASE Call BY <2>0, <2>3, CallStep
  <2>4. CASE Shutdown BY <2>0, <2>4, ShutdownStep
  <2>5. CASE Exit \/ Crash BY <2>0, <2>5, GoneStep DEF Exit, Crash
  <2>6. CASE ProcessFails \/ Command \/ CommandKey \/ CommandHost
    <3>1. UNCHANGED <<up, mu, th, svc, procs>>
      BY <2>6 DEF ProcessFails, Command, CommandKey, CommandHost
    <3>2. next' = next \/ next' = next + 1
      BY <2>6 DEF ProcessFails, Command, CommandKey, CommandHost
    <3>3. next' \in Nat \ {0} BY <3>2 DEF IInv, Types
    <3> QED BY <2>0, <3>1, <3>3, OtherStep
  <2>7. CASE \E t \in Threads : ThreadStep(t)
    BY <2>0, <2>7, LockStep, CloseStep, ChangeStep, WriteKeyStep, TorrcStep, StartFailsStep,
       BootstrapStep, AddOnionStep, KeyFileStep, ServeStep DEF ThreadStep
  <2> QED BY <1>2, <2>1, <2>2, <2>3, <2>4, <2>5, <2>6, <2>7 DEF Steps
<1> QED BY <1>1, <1>2 DEF Next

\* At most one tor process works on the data directory, and an announced service
\* has one, whatever the start, the monitor, an operator and the shutdown do at
\* once, whatever fails and whenever the server dies: the operations of tor.go
\* hold tm.mu throughout, and the monitor restarts under it.
THEOREM OneTorProcess == Spec => []OneProcess
<1>1. IInv /\ [Next]_<<plan, torVars>> => IInv' BY NextKeepsIInv
<1> QED BY InitIInv, <1>1, InvImpliesProperty, PTL DEF Spec
-----------------------------------------------------------------------------
\* The key and its address.
KeyTypes ==
  /\ DOMAIN files = {"key", "host", "staged"}
  /\ files.key \in 0..Empty /\ files.staged \in 0..MaxKeys
  /\ owed \in 0..MaxKeys
  /\ DOMAIN cli = {"pc", "key"} /\ cli.pc \in {"idle", "key", "host"} /\ cli.key \in 0..MaxKeys
  /\ \A t \in Threads : th[t].key \in 0..MaxKeys

\* A thread that has no key in the file yet.
Unsaved(t) == th[t].pc \in {"write", "open", "save"}

\* What is kept as long as the key announced is in the file and the subcommand ran
\* beside no start: the address owed is that of the file, also in a start; ...
OwedIsFiled ==
  ~lost /\ cli.pc = "idle" =>
    /\ owed # None => files.key = owed
    /\ \A t \in Threads : Unsaved(t) => owed = None

\* ... the subcommand tells the address of the key that it wrote; ...
ToldIsFiled ==
  ~lost /\ cli.pc = "host" /\ cli.key # None =>
    /\ files.key = cli.key
    /\ \A t \in Threads : ~Unsaved(t)

\* ... nothing is owed while it works, and the file is empty before it writes; ...
BusyOwesNothing ==
  ~lost /\ cli.pc # "idle" => owed = None /\ (cli.pc = "key" => files.key = Empty)

\* ... a start made a key because there is none in the file, and announces the one
\* that is there; ...
ReadsTheFile ==
  ~lost /\ cli.pc = "idle" =>
    \A t \in Threads : /\ th[t].pc = "open" => files.key \notin Keys
                       /\ th[t].pc = "host" => (files.key \in Keys => files.key = th[t].key)

\* ... and the hostname of an announced service is that of the key.
HostIsKey ==
  (~lost /\ cli.pc = "idle" /\ svc # None /\ files.host \in Keys /\ files.key \in Keys)
    => files.host = files.key

KeyInv == KeyTypes /\ OwedIsFiled /\ ToldIsFiled /\ BusyOwesNothing /\ ReadsTheFile /\ HostIsKey

LEMMA KeyInvImpliesFiled == KeyInv => AddressFiled
BY DEF KeyInv, OwedIsFiled, HostIsKey, AddressFiled

LEMMA InitKeyInv == Init => KeyInv
BY TorAssumption
DEF TorAssumption, Init, KeyInv, KeyTypes, OwedIsFiled, ToldIsFiled, BusyOwesNothing, ReadsTheFile, HostIsKey,
    Unsaved, Out, Empty, None, Threads

\* A step that changes no key, hostname or address, and begins no write.
LEMMA KeysQuiet ==
  ASSUME KeyInv, UNCHANGED <<files, owed, cli>>, ~lost' => ~lost, svc' \in {svc, None},
         \A u \in Threads : th'[u].key \in 0..MaxKeys,
         \A u \in Threads : Unsaved(u)' => Unsaved(u),
         ReadsTheFile'
  PROVE  KeyInv'
<1> USE DEF KeyInv
<1>1. KeyTypes' BY DEF KeyTypes
<1>2. OwedIsFiled' BY DEF OwedIsFiled
<1>3. ToldIsFiled' BY DEF ToldIsFiled
<1>4. HostIsKey' BY DEF HostIsKey
<1>5. BusyOwesNothing' BY DEF BusyOwesNothing
<1> QED BY <1>1, <1>2, <1>3, <1>4, <1>5

\* Threads that come into no place between a key and its announcement.
LEMMA ReadsAsBefore ==
  ASSUME KeyInv, UNCHANGED <<files, cli>>, ~lost' => ~lost,
         \A u \in Threads : th'[u].pc \in {"open", "host"} => th'[u] = th[u]
  PROVE  ReadsTheFile'
BY DEF KeyInv, ReadsTheFile

\* A thread that goes on keeps its key.
LEMMA GoesQuietly ==
  ASSUME IInv, KeyInv, NEW t \in Threads, NEW pc \in Places \ {"write", "open", "host"}, Go(t, pc),
         pc = "save" => th[t].pc = "open",
         UNCHANGED <<files, owed, cli>>, ~lost' => ~lost, svc' \in {svc, None}
  PROVE  KeyInv'
<1>1. Moved(t, pc) BY GoMoves DEF IInv
<1>2. \A u \in Threads : th'[u].key \in 0..MaxKeys BY <1>1 DEF Moved, KeyInv, KeyTypes
<1>3. \A u \in Threads : Unsaved(u)' => Unsaved(u) BY <1>1 DEF Moved, Unsaved
<1>4. ReadsTheFile' BY <1>1, ReadsAsBefore DEF Moved
<1> QED BY <1>2, <1>3, <1>4, KeysQuiet

\* Nobody else is between the key and its file, or its announcement.
LEMMA AloneInside ==
  ASSUME IInv, NEW t \in Threads, Working(t)
  PROVE  \A u \in Threads \ {t} : ~Unsaved(u) /\ th[u].pc # "host"
BY DEF IInv, Exclusive, Working, Unsaved

\* A step of a thread that has no service writes the key file.
LEMMA KeyWritten ==
  ASSUME KeyInv, NEW t \in Threads, svc' = None, UNCHANGED cli,
         DOMAIN files' = DOMAIN files, files'.key \in 0..Empty, files'.staged \in 0..MaxKeys, owed' \in 0..MaxKeys,
         \A u \in Threads : th'[u].key \in 0..MaxKeys,
         ~lost' => cli.pc = "idle" /\ (owed' # None => files'.key = owed'),
         ~lost' => \A u \in Threads : Unsaved(u)' => owed' = None,
         \A u \in Threads : /\ th'[u].pc # "open"
                            /\ th'[u].pc = "host" => files'.key = th'[u].key
  PROVE  KeyInv'
<1>1. KeyTypes' BY DEF KeyTypes, KeyInv
<1>2. OwedIsFiled' BY DEF OwedIsFiled
<1>3. ToldIsFiled' BY DEF ToldIsFiled
<1>4. HostIsKey' BY DEF HostIsKey
<1>5. BusyOwesNothing' BY DEF BusyOwesNothing
<1>6. ReadsTheFile' BY DEF ReadsTheFile
<1> QED BY <1>1, <1>2, <1>3, <1>4, <1>5, <1>6 DEF KeyInv

LEMMA KeyNumbers == MaxKeys \in Nat \ {0} /\ Empty = MaxKeys + 1 /\ None = 0 /\ Keys = 1..MaxKeys
BY TorAssumption DEF TorAssumption, Empty, None, Keys

LEMMA ChangeKeys == ASSUME IInv, KeyInv, NEW t \in Threads, Change(t) PROVE KeyInv'
<1>1. svc' = svc /\ UNCHANGED cli /\ th[t].pc = "change" BY DEF Change, At
<1>2. svc = None /\ Working(t) BY <1>1, StoppedBeforeLaunch DEF Closed, Working
<1>3. CASE UNCHANGED <<files, owed, lost>> /\ (Go(t, "fill") \/ Unlock(t, FALSE))
  <2>1. CASE Go(t, "fill") BY <1>1, <1>3, <2>1, GoesQuietly DEF Places
  <2>2. CASE Unlock(t, FALSE)
    BY <1>1, <1>3, <2>2, BackPlaces, GoesQuietly DEF Unlock, Places
  <2> QED BY <1>3, <2>1, <2>2
<1>4. CASE /\ files'.key \in {None, Empty} /\ DOMAIN files' = DOMAIN files
           /\ files'.staged \in {None, files.staged}
           /\ owed' = None /\ lost' = (lost \/ cli.pc # "idle")
           /\ \E pc \in {"torrc", "write"} : Go(t, pc)
  <2>1. PICK pc \in {"torrc", "write"} : Moved(t, pc) BY <1>4, GoMoves DEF IInv, Places
  <2>2. \A u \in Threads : th'[u].key \in 0..MaxKeys BY <2>1 DEF Moved, KeyInv, KeyTypes
  <2>3. files'.key \in 0..Empty /\ files'.staged \in 0..MaxKeys /\ owed' \in 0..MaxKeys
    BY <1>4, KeyNumbers DEF KeyInv, KeyTypes
  <2>4. ~lost' => cli.pc = "idle" BY <1>4
  <2>5. \A u \in Threads : th'[u].pc \notin {"open", "host"} BY <1>2, <2>1, AloneInside DEF Moved, Unsaved
  <2> QED BY <1>1, <1>2, <1>4, <2>2, <2>3, <2>4, <2>5, KeyWritten
<1>5. CASE th[t].op = "regenerate" /\ files' = [key |-> None, host |-> None, staged |-> None]
           /\ owed' = None /\ lost' = (lost \/ cli.pc # "idle") /\ Go(t, "torrc")
  BY <1>4, <1>5 DEF KeyInv, KeyTypes
<1>6. CASE th[t].op = "apply" /\ files' = [files EXCEPT !.key = Empty]
           /\ owed' = None /\ lost' = (lost \/ cli.pc # "idle") /\ Go(t, "write")
  BY <1>4, <1>6 DEF KeyInv, KeyTypes
<1> QED BY <1>3, <1>5, <1>6 DEF Change

LEMMA WriteKeys == ASSUME IInv, KeyInv, NEW t \in Threads, WriteKey(t) PROVE KeyInv'
<1>1. /\ svc' = svc /\ UNCHANGED cli /\ th[t].pc = "write" /\ Go(t, "torrc")
      /\ files' = [files EXCEPT !.key = th[t].key] /\ owed' = th[t].key
      /\ lost' = (lost \/ cli.pc # "idle" \/ files.key # Empty)
  BY DEF WriteKey, At
<1>2. svc = None /\ Working(t) BY <1>1, StoppedBeforeLaunch DEF Closed, Working
<1>3. Moved(t, "torrc") BY <1>1, GoMoves DEF IInv, Places
<1>4. \A u \in Threads : ~Unsaved(u)' /\ th'[u].pc \notin {"open", "host"}
  BY <1>2, <1>3, AloneInside DEF Moved, Unsaved
<1>5. \A u \in Threads : th'[u].key \in 0..MaxKeys BY <1>3 DEF Moved, KeyInv, KeyTypes
<1>6. /\ DOMAIN files' = DOMAIN files /\ files'.key = th[t].key /\ files'.staged = files.staged
  BY <1>1 DEF KeyInv, KeyTypes
<1>7. files'.key \in 0..Empty /\ files'.staged \in 0..MaxKeys /\ owed' \in 0..MaxKeys
  BY <1>1, <1>6, KeyNumbers DEF KeyInv, KeyTypes
<1> QED BY <1>1, <1>2, <1>4, <1>5, <1>6, <1>7, KeyWritten

\* A key is made only when there is none in the file, so that none is owed.
LEMMA AddOnionKeys == ASSUME IInv, KeyInv, NEW t \in Threads, AddOnion(t) PROVE KeyInv'
<1>1. /\ UNCHANGED <<files, owed, cli, lost>> /\ svc' = svc /\ th[t].pc = "key"
  BY DEF AddOnion, At
<1>2. PICK pc \in {"host", "open"}, k \in 0..MaxKeys :
        /\ th' = [th EXCEPT ![t] = [@ EXCEPT !.pc = pc, !.key = k]]
        /\ pc = "open" => files.key \notin Keys
        /\ pc = "host" => k = files.key
  <2>1. CASE files.key \in Keys
    <3>1. files.key \in 0..MaxKeys BY <2>1, KeyNumbers
    <3>2. th' = [th EXCEPT ![t] = [@ EXCEPT !.pc = "host", !.key = files.key]] BY <2>1 DEF AddOnion
    <3> QED BY <3>1, <3>2
  <2>2. CASE files.key \notin Keys
    <3>1. th' = [th EXCEPT ![t] = [@ EXCEPT !.pc = "open", !.key = next]] /\ next <= MaxKeys
      BY <2>2 DEF AddOnion
    <3>2. next \in 0..MaxKeys BY <3>1, KeyNumbers DEF IInv, Types
    <3> QED BY <2>2, <3>1, <3>2
  <2> QED BY <2>1, <2>2
<1>3. th'[t].pc = pc /\ th'[t].key = k /\ \A u \in Threads \ {t} : th'[u] = th[u]
  BY <1>2 DEF IInv, Types, Thread
<1>4. \A u \in Threads : th'[u].key \in 0..MaxKeys BY <1>3 DEF KeyInv, KeyTypes
<1>5. CASE pc = "host"
  <2>1. \A u \in Threads : Unsaved(u)' => Unsaved(u) BY <1>3, <1>5 DEF Unsaved
  <2>2. files.key \in Keys => k = files.key BY <1>2
  <2>3. ReadsTheFile' BY <1>1, <1>3, <1>5, <2>2 DEF KeyInv, ReadsTheFile
  <2> QED BY <1>1, <1>4, <2>1, <2>3, KeysQuiet
<1>6. CASE pc = "open"
  <2>1. files.key \notin Keys BY <1>2, <1>6
  <2>2. ~lost /\ cli.pc = "idle" => owed = None
    <3>1. owed # None => owed \in Keys BY KeyNumbers DEF KeyInv, KeyTypes
    <3> QED BY <2>1, <3>1 DEF KeyInv, OwedIsFiled
  <2>3. ~(~lost /\ cli.pc = "host" /\ cli.key # None)
    <3>1. cli.key # None => cli.key \in Keys BY KeyNumbers DEF KeyInv, KeyTypes
    <3> QED BY <2>1, <3>1 DEF KeyInv, ToldIsFiled
  <2>4. KeyTypes' BY <1>1, <1>4 DEF KeyInv, KeyTypes
  <2>5. OwedIsFiled' BY <1>1, <2>2 DEF KeyInv, OwedIsFiled
  <2>6. ToldIsFiled' BY <1>1, <2>3 DEF ToldIsFiled
  <2>7. HostIsKey' BY <1>1 DEF KeyInv, HostIsKey
  <2>8. BusyOwesNothing' BY <1>1 DEF KeyInv, BusyOwesNothing
  <2>9. ReadsTheFile' BY <1>1, <1>3, <1>6, <2>1 DEF KeyInv, ReadsTheFile
  <2> QED BY <2>4, <2>5, <2>6, <2>7, <2>8, <2>9 DEF KeyInv
<1> QED BY <1>5, <1>6

\* Nothing is owed while the file is without the new key.
LEMMA OpenKeys == ASSUME IInv, KeyInv, NEW t \in Threads, OpenKey(t) PROVE KeyInv'
<1>1. svc' = svc /\ UNCHANGED <<cli, owed, lost>> /\ th[t].pc = "open" BY DEF OpenKey, At
<1>2. CASE Go(t, "host") /\ UNCHANGED files
  <2>1. Moved(t, "host") BY <1>2, GoMoves DEF IInv, Places
  <2>2. \A u \in Threads : th'[u].key \in 0..MaxKeys BY <2>1 DEF Moved, KeyInv, KeyTypes
  <2>3. \A u \in Threads : Unsaved(u)' => Unsaved(u) BY <2>1 DEF Moved, Unsaved
  <2>4. ReadsTheFile' BY <1>1, <1>2, <2>1 DEF KeyInv, ReadsTheFile, Moved
  <2> QED BY <1>1, <1>2, <2>2, <2>3, <2>4, KeysQuiet
<1>3. CASE files' = [files EXCEPT !.key = Empty] /\ Go(t, "save")
  <2>1. Moved(t, "save") BY <1>3, GoMoves DEF IInv, Places
  <2>2. svc' = None BY <1>1, LaunchedHasProcess DEF Launched
  <2>3. /\ DOMAIN files' = DOMAIN files /\ files'.key = Empty /\ files'.staged = files.staged
    BY <1>3 DEF KeyInv, KeyTypes
  <2>4. ~lost /\ cli.pc = "idle" => owed = None BY <1>1 DEF KeyInv, OwedIsFiled, Unsaved
  <2>5. ~(~lost /\ cli.pc = "host" /\ cli.key # None) BY <1>1 DEF KeyInv, ToldIsFiled, Unsaved
  <2>6. KeyTypes' BY <1>1, <2>1, <2>3, KeyNumbers DEF KeyInv, KeyTypes, Moved
  <2>7. OwedIsFiled' BY <1>1, <1>3, <2>4 DEF OwedIsFiled
  <2>8. ToldIsFiled' BY <1>1, <1>3, <2>5 DEF ToldIsFiled
  <2>9. HostIsKey' BY <2>2 DEF HostIsKey
  <2>a. BusyOwesNothing' BY <1>1, <2>3 DEF KeyInv, BusyOwesNothing
  <2>b. \A u \in Threads : th'[u].pc # "host" BY <1>1, <2>1, AloneInside DEF Moved, Working
  <2>c. ReadsTheFile' BY <2>3, <2>b, KeyNumbers DEF ReadsTheFile
  <2> QED BY <2>6, <2>7, <2>8, <2>9, <2>a, <2>c DEF KeyInv
<1> QED BY <1>2, <1>3 DEF OpenKey

LEMMA SaveKeys == ASSUME IInv, KeyInv, NEW t \in Threads, SaveKey(t) PROVE KeyInv'
<1>1. /\ svc' = svc /\ UNCHANGED <<cli, owed>> /\ th[t].pc = "save" /\ Go(t, "host")
      /\ files' = [files EXCEPT !.key = th[t].key]
      /\ lost' = (lost \/ cli.pc # "idle" \/ files.key # Empty)
  BY DEF SaveKey, At
<1>2. Moved(t, "host") BY <1>1, GoMoves DEF IInv, Places
<1>3. svc' = None BY <1>1, LaunchedHasProcess DEF Launched
<1>4. ~lost' => cli.pc = "idle" /\ owed' = None BY <1>1 DEF KeyInv, OwedIsFiled, Unsaved
<1>5. /\ DOMAIN files' = DOMAIN files /\ files'.key = th[t].key /\ files'.staged = files.staged
  BY <1>1 DEF KeyInv, KeyTypes
<1>6. \A u \in Threads : th'[u].key \in 0..MaxKeys BY <1>2 DEF Moved, KeyInv, KeyTypes
<1>7. files'.key \in 0..Empty /\ files'.staged \in 0..MaxKeys /\ owed' \in 0..MaxKeys
  BY <1>1, <1>5, KeyNumbers DEF KeyInv, KeyTypes
<1>8. \A u \in Threads : th'[u].pc # "open" /\ (th'[u].pc = "host" => files'.key = th'[u].key)
  BY <1>1, <1>2, <1>5, AloneInside DEF Moved, Working, Unsaved
<1> QED BY <1>1, <1>3, <1>4, <1>5, <1>6, <1>7, <1>8, KeyWritten

\* What is announced is what is owed.
LEMMA ServesWhatIsOwed ==
  ASSUME KeyInv, NEW t \in Threads, Serve(t), owed # None, ~lost
  PROVE  th[t].key = owed
<1>1. cli.pc = "idle" BY DEF KeyInv, BusyOwesNothing
<1>2. files.key = owed /\ owed \in Keys BY <1>1, KeyNumbers DEF KeyInv, OwedIsFiled, KeyTypes
<1> QED BY <1>1, <1>2 DEF Serve, At, KeyInv, ReadsTheFile

\* The address that is announced is owed from then on.
LEMMA ServeKeys == ASSUME IInv, KeyInv, NEW t \in Threads, Serve(t) PROVE KeyInv'
<1>1. /\ files' = [files EXCEPT !.host = th[t].key] /\ svc' = th[t].key
      /\ owed' = IF owed = None \/ lost THEN th[t].key ELSE owed
      /\ lost' = (cli.pc # "idle" \/ IF lost THEN files.key # th[t].key ELSE files.key \notin Keys)
      /\ UNCHANGED cli /\ th[t].pc = "host" /\ Unlock(t, TRUE)
  BY DEF Serve, At
<1>2. Moved(t, Back(t, TRUE)) BY <1>1, UnlockMoves DEF IInv
<1>3. \A u \in Threads : ~Unsaved(u)' /\ th'[u].pc \notin {"open", "host"}
  <2>1. th'[t].pc \notin {"write", "open", "save", "host"} BY <1>2, BackPlaces DEF Moved
  <2>2. \A u \in Threads \ {t} : th'[u] = th[u] /\ ~Unsaved(u) /\ th[u].pc # "host"
    BY <1>1, <1>2, AloneInside DEF Moved, Working
  <2> QED BY <2>1, <2>2 DEF Unsaved
<1>a. owed' = th[t].key BY <1>1, ServesWhatIsOwed
<1>b. ~lost' => cli.pc = "idle" /\ files.key = th[t].key BY <1>1 DEF KeyInv, ReadsTheFile
<1>4. /\ DOMAIN files' = DOMAIN files /\ files'.key = files.key /\ files'.host = th[t].key
      /\ files'.staged = files.staged
  BY <1>1 DEF KeyInv, KeyTypes
<1>5. KeyTypes' BY <1>1, <1>2, <1>4, <1>a DEF KeyInv, KeyTypes, Moved
<1>6. OwedIsFiled' BY <1>3, <1>4, <1>a, <1>b DEF OwedIsFiled
<1>7. ToldIsFiled' BY <1>1, <1>b DEF ToldIsFiled
<1>8. HostIsKey' BY <1>1, <1>4, <1>b DEF HostIsKey
<1>9. BusyOwesNothing' BY <1>1, <1>b DEF BusyOwesNothing
<1>c. ReadsTheFile' BY <1>3 DEF ReadsTheFile
<1> QED BY <1>5, <1>6, <1>7, <1>8, <1>9, <1>c DEF KeyInv

LEMMA CloseKeys == ASSUME IInv, KeyInv, NEW t \in Threads, CloseService(t) PROVE KeyInv'
<1>1. UNCHANGED <<files, owed, cli, lost>> /\ svc' = None /\ th' = AfterClose(t)
  BY DEF CloseService
<1> DEFINE R == [Out EXCEPT !.pc = "lock", !.op = "restart"]
           pc == CASE th[t].op = "shutdown" -> "exit" [] th[t].op = "restart" -> "torrc" [] OTHER -> "change"
<1>2. R.key = 0 /\ R.pc = "lock" /\ 0 \in 0..MaxKeys BY KeyNumbers DEF Out, None
<1>3. pc \notin {"write", "open", "save", "host"} OBVIOUS
<1>4. \A u \in Threads : th'[u] = IF u = t THEN [th[t] EXCEPT !.pc = pc]
                                  ELSE IF th[u].pc = "probe" THEN R ELSE th[u]
  BY <1>1 DEF AfterClose
<1> HIDE DEF R, pc
<1>5. [th[t] EXCEPT !.pc = pc].pc = pc /\ [th[t] EXCEPT !.pc = pc].key = th[t].key
  BY DEF IInv, Types, Thread
<1>6. \A u \in Threads : th'[u].key \in 0..MaxKeys
  BY <1>2, <1>4, <1>5, KeyNumbers DEF KeyInv, KeyTypes
<1>7. \A u \in Threads : Unsaved(u)' => Unsaved(u) BY <1>2, <1>3, <1>4, <1>5 DEF Unsaved
<1>8. \A u \in Threads : th'[u].pc \in {"open", "host"} => th'[u] = th[u] BY <1>2, <1>3, <1>4, <1>5
<1>9. ReadsTheFile' BY <1>1, <1>8, ReadsAsBefore
<1> QED BY <1>1, <1>6, <1>7, <1>9, KeysQuiet

LEMMA ThreadKeys == ASSUME IInv, KeyInv, NEW t \in Threads, ThreadStep(t) PROVE KeyInv'
<1>1. CASE Lock(t)
  <2>1. Go(t, IF th[t].op = "start" THEN "torrc" ELSE "close") BY <1>1 DEF Lock
  <2>2. Go(t, "torrc") \/ Go(t, "close") BY <2>1
  <2> QED BY <1>1, <2>2, GoesQuietly DEF Lock, Places
<1>2. CASE OpenTorrc(t)
  <2>1. Go(t, "fill") \/ Go(t, "launch") BY <1>2 DEF OpenTorrc
  <2> QED BY <1>2, <2>1, GoesQuietly DEF OpenTorrc, Places
<1>3. CASE FillTorrc(t) BY <1>3, GoesQuietly DEF FillTorrc, Places
<1>4. CASE Bootstrap(t) BY <1>4, GoesQuietly DEF Bootstrap, Places
<1>5. CASE StartFails(t)
  <2>1. Go(t, Back(t, FALSE)) /\ UNCHANGED <<files, owed, cli, lost, svc>>
    BY <1>5 DEF StartFails, Unlock
  <2>2. Back(t, FALSE) \in Places \ {"write", "open", "host"} /\ Back(t, FALSE) # "save"
    BY BackPlaces DEF Places
  <2> QED BY <2>1, <2>2, GoesQuietly
<1> QED
  BY <1>1, <1>2, <1>3, <1>4, <1>5, CloseKeys, ChangeKeys, WriteKeys, AddOnionKeys, OpenKeys, SaveKeys, ServeKeys
  DEF ThreadStep

\* A thread that comes into its place with a new operation.
LEMMA NewcomerKeys ==
  ASSUME KeyInv, UNCHANGED <<files, owed, cli>>, ~lost' => ~lost, svc' \in {svc, None},
         \A u \in Threads : th'[u] = th[u] \/ (th'[u].key \in 0..MaxKeys /\ th'[u].pc \in {"lock", "out"})
  PROVE  KeyInv'
<1>1. \A u \in Threads : th'[u].key \in 0..MaxKeys BY DEF KeyInv, KeyTypes
<1>2. \A u \in Threads : Unsaved(u)' => Unsaved(u) BY DEF Unsaved
<1>3. ReadsTheFile' BY ReadsAsBefore
<1> QED BY <1>1, <1>2, <1>3, KeysQuiet

LEMMA ServerKeys ==
  ASSUME IInv, KeyInv, Launch \/ Probe \/ Call \/ Shutdown \/ Exit \/ Crash PROVE KeyInv'
<1>1. UNCHANGED <<files, owed, cli>> /\ svc' \in {svc, None}
  BY DEF Launch, Probe, Call, Shutdown, Exit, Crash, Gone
<1>6. ~lost' => ~lost
  BY DEF Launch, Probe, Call, Shutdown, Exit, Crash, Gone
<1>2. Out.key = 0 /\ Out.pc = "out" BY DEF Out, None
<1>3. \A op : [Out EXCEPT !.pc = "lock", !.op = op].key = 0 /\ [Out EXCEPT !.pc = "lock", !.op = op].pc = "lock"
  BY DEF Out, None
<1>4. 0 \in 0..MaxKeys BY KeyNumbers
<1>5. \A u \in Threads : th'[u] = th[u] \/ (th'[u].key \in 0..MaxKeys /\ th'[u].pc \in {"lock", "out"})
  <2>0. th \in [Threads -> Thread] BY DEF IInv, Types
  <2>1. CASE Launch BY <1>2, <1>3, <1>4, <2>1 DEF Launch
  <2>2. CASE Probe BY <1>3, <1>4, <2>0, <2>2 DEF Probe
  <2>3. CASE Shutdown BY <1>3, <1>4, <2>0, <2>3 DEF Shutdown
  <2>4. CASE Exit \/ Crash BY <1>2, <1>4, <2>4 DEF Exit, Crash, Gone
  <2>5. CASE Call
    <3>1. PICK op \in plan.calls :
            /\ op = "apply" => next <= MaxKeys
            /\ th' = [th EXCEPT !["caller"] = [pc |-> "lock", op |-> op, key |-> IF op = "apply" THEN next ELSE None]]
      BY <2>5 DEF Call
    <3> DEFINE k == IF op = "apply" THEN next ELSE None
    <3>2. k \in 0..MaxKeys BY <3>1, KeyNumbers DEF IInv, Types
    <3>3. th' = [th EXCEPT !["caller"] = [pc |-> "lock", op |-> op, key |-> k]] BY <3>1
    <3> HIDE DEF k
    <3> QED BY <2>0, <3>2, <3>3
  <2> QED BY <2>1, <2>2, <2>3, <2>4, <2>5
<1> QED BY <1>1, <1>5, <1>6, NewcomerKeys

-----------------------------------------------------------------------------
\* The subcommand. Who writes a key beside a start that has read it loses it.
LEMMA NobodyStarts == ~Starting => \A t \in Threads : ~Unsaved(t) /\ th[t].pc \notin {"open", "host"}
BY DEF Starting, Unsaved

LEMMA CommandKeys == ASSUME IInv, KeyInv, Command PROVE KeyInv'
<1>0. UNCHANGED <<th, svc>> /\ cli.pc = "idle" BY DEF Command
<1>1. CASE /\ files' = [files EXCEPT !.staged = next] /\ next <= MaxKeys /\ UNCHANGED <<cli, lost>>
  <2>1. owed' = owed BY <1>1 DEF Command
  <2>2. /\ files'.key = files.key /\ files'.host = files.host /\ files'.staged = next
        /\ DOMAIN files' = DOMAIN files
    BY <1>1 DEF KeyInv, KeyTypes
  <2>3. next \in 0..MaxKeys BY <1>1, KeyNumbers DEF IInv, Types
  <2>4. KeyTypes' BY <1>0, <1>1, <2>1, <2>2, <2>3 DEF KeyInv, KeyTypes
  <2>5. OwedIsFiled' /\ ToldIsFiled' /\ BusyOwesNothing' /\ ReadsTheFile' /\ HostIsKey'
    BY <1>0, <1>1, <2>1, <2>2
    DEF KeyInv, OwedIsFiled, ToldIsFiled, BusyOwesNothing, ReadsTheFile, HostIsKey, Unsaved
  <2> QED BY <2>4, <2>5 DEF KeyInv
<1>2. CASE \E k \in 0..MaxKeys :
             /\ \/ files' = [files EXCEPT !.key = Empty] /\ cli' = [pc |-> "key", key |-> k]
                \/ k = None /\ files' = [files EXCEPT !.key = None] /\ cli' = [pc |-> "host", key |-> k]
             /\ lost' = (lost \/ Starting)
  <2>1. PICK k \in 0..MaxKeys :
             /\ \/ files' = [files EXCEPT !.key = Empty] /\ cli' = [pc |-> "key", key |-> k]
                \/ k = None /\ files' = [files EXCEPT !.key = None] /\ cli' = [pc |-> "host", key |-> k]
             /\ lost' = (lost \/ Starting)
    BY <1>2
  <2>2. cli'.pc # "idle" /\ (cli'.pc = "host" => cli'.key = None) BY <2>1
  <2>3. owed' = None BY <1>0, <2>2 DEF Command
  <2>4. KeyTypes' BY <1>0, <2>1, <2>3, KeyNumbers DEF KeyInv, KeyTypes
  <2>5. cli'.pc = "key" => files'.key = Empty BY <2>1 DEF KeyInv, KeyTypes
  <2> QED BY <2>2, <2>3, <2>4, <2>5 DEF KeyInv, OwedIsFiled, ToldIsFiled, BusyOwesNothing, ReadsTheFile, HostIsKey
<1>3. files.staged \in 0..MaxKeys /\ None \in 0..MaxKeys /\ (next <= MaxKeys => next \in 0..MaxKeys)
  BY KeyNumbers DEF KeyInv, KeyTypes, IInv, Types
<1>4. CASE UNCHANGED cli
  BY <1>0, <1>1, <1>4 DEF Command
<1>5. CASE cli' # cli
  <2>1. \/ /\ next <= MaxKeys /\ files' = [files EXCEPT !.key = Empty]
           /\ cli' = [pc |-> "key", key |-> next] /\ lost' = (lost \/ Starting)
        \/ /\ files' = [files EXCEPT !.key = Empty]
           /\ cli' = [pc |-> "key", key |-> files.staged] /\ lost' = (lost \/ Starting)
        \/ /\ files' = [files EXCEPT !.key = None]
           /\ cli' = [pc |-> "host", key |-> None] /\ lost' = (lost \/ Starting)
    BY <1>5 DEF Command
  <2> QED BY <1>2, <1>3, <2>1
<1> QED BY <1>4, <1>5

LEMMA CommandKeyKeys == ASSUME IInv, KeyInv, CommandKey PROVE KeyInv'
<1>0. UNCHANGED <<th, svc, owed>> /\ cli.pc = "key" BY DEF CommandKey
<1>1. CASE cli' = [pc |-> "idle", key |-> None] /\ lost' = (lost \/ Starting) /\ UNCHANGED files
  <2>1. KeyTypes' BY <1>0, <1>1, KeyNumbers DEF KeyInv, KeyTypes
  <2>2. ~lost' => ~lost /\ ~Starting BY <1>1
  <2>3. ~lost' => owed' = None BY <1>0, <2>2 DEF KeyInv, BusyOwesNothing
  <2>4. ~lost' => \A t \in Threads : th'[t].pc \notin {"open", "host"} BY <1>0, <2>2, NobodyStarts
  <2>5. OwedIsFiled' BY <2>3 DEF OwedIsFiled
  <2>6. ReadsTheFile' BY <2>4 DEF ReadsTheFile
  <2>7. cli'.pc = "idle" BY <1>1
  <2>8. ~lost' => files'.key = Empty BY <1>0, <1>1, <2>2 DEF KeyInv, BusyOwesNothing
  <2>9. HostIsKey' BY <2>8, KeyNumbers DEF HostIsKey
  <2> QED BY <2>1, <2>5, <2>6, <2>7, <2>9 DEF KeyInv, ToldIsFiled, BusyOwesNothing
<1>2. CASE /\ files' = [files EXCEPT !.key = cli.key] /\ cli' = [cli EXCEPT !.pc = "host"]
           /\ lost' = (lost \/ Starting \/ files.key # Empty)
  <2>1. files'.key = cli.key /\ files'.staged = files.staged /\ DOMAIN files' = DOMAIN files
    BY <1>2 DEF KeyInv, KeyTypes
  <2>2. cli'.pc = "host" /\ cli'.key = cli.key /\ DOMAIN cli' = DOMAIN cli
    BY <1>2 DEF KeyInv, KeyTypes
  <2>3. KeyTypes' BY <1>0, <2>1, <2>2, KeyNumbers DEF KeyInv, KeyTypes
  <2>4. ToldIsFiled'
    <3>1. ~lost' => \A t \in Threads : ~Unsaved(t)' BY <1>0, <1>2, NobodyStarts DEF Unsaved
    <3> QED BY <2>1, <2>2, <3>1 DEF ToldIsFiled
  <2>5. BusyOwesNothing'
    <3>1. ~lost' => ~lost BY <1>2
    <3> QED BY <1>0, <2>2, <3>1 DEF KeyInv, BusyOwesNothing
  <2> QED BY <2>2, <2>3, <2>4, <2>5 DEF KeyInv, OwedIsFiled, ReadsTheFile, HostIsKey
<1> QED BY <1>1, <1>2 DEF CommandKey

LEMMA CommandHostKeys == ASSUME IInv, KeyInv, CommandHost PROVE KeyInv'
<1>0. /\ UNCHANGED <<th, svc>> /\ cli.pc = "host" /\ cli' = [pc |-> "idle", key |-> None]
      /\ owed' = cli.key /\ lost' = (lost \/ Starting)
  BY DEF CommandHost
<1>1. /\ files'.key = files.key /\ files'.host = None /\ files'.staged \in {None, files.staged}
      /\ DOMAIN files' = DOMAIN files
  BY DEF CommandHost, KeyInv, KeyTypes
<1>2. cli'.pc = "idle" /\ cli'.key = None /\ DOMAIN cli' = {"pc", "key"} BY <1>0
<1>3. KeyTypes' BY <1>0, <1>1, <1>2, KeyNumbers DEF KeyInv, KeyTypes
<1>4. OwedIsFiled'
  <2>1. ~lost' => ~lost /\ \A t \in Threads : ~Unsaved(t)' BY <1>0, NobodyStarts DEF Unsaved
  <2> QED BY <1>0, <1>1, <2>1 DEF OwedIsFiled, KeyInv, ToldIsFiled
<1>5. ToldIsFiled' /\ BusyOwesNothing' /\ HostIsKey'
  BY <1>1, <1>2, KeyNumbers DEF ToldIsFiled, BusyOwesNothing, HostIsKey
<1>6. ReadsTheFile'
  <2>1. ~lost' => \A t \in Threads : th'[t].pc \notin {"open", "host"} BY <1>0, NobodyStarts
  <2> QED BY <2>1 DEF ReadsTheFile
<1> QED BY <1>3, <1>4, <1>5, <1>6 DEF KeyInv

LEMMA NextKeepsKeyInv == IInv /\ KeyInv /\ [Next]_<<plan, torVars>> => KeyInv'
<1> SUFFICES ASSUME IInv, KeyInv, [Next]_<<plan, torVars>> PROVE KeyInv' OBVIOUS
<1>0. \A u \in Threads : th[u].key \in 0..MaxKeys BY DEF KeyInv, KeyTypes
<1>1. CASE UNCHANGED <<th, svc, files, owed, cli, lost>>
  <2>1. \A u \in Threads : Unsaved(u)' => Unsaved(u) BY <1>1 DEF Unsaved
  <2>2. ReadsTheFile' BY <1>1, ReadsAsBefore
  <2> QED BY <1>0, <1>1, <2>1, <2>2, KeysQuiet
<1>2. CASE UNCHANGED torVars BY <1>1, <1>2 DEF torVars
<1>3. CASE ProcessFails BY <1>1, <1>3 DEF ProcessFails
<1>4. CASE Tick \/ MonitorEnds
  BY <1>4, GoesQuietly DEF Tick, MonitorEnds, Places, Threads
<1>5. CASE \E t \in Threads : ThreadStep(t) BY <1>5, ThreadKeys
<1> QED
  BY <1>2, <1>3, <1>4, <1>5, ServerKeys, CommandKeys, CommandKeyKeys, CommandHostKeys DEF Next, Steps

\* An address appears only when a thread announces it.
LEMMA OnlyServeAnnounces ==
  ASSUME [Next]_<<plan, torVars>>, svc' \notin {svc, None}
  PROVE  \E t \in Threads : Serve(t)
<1>1. Steps BY DEF Next, torVars
<1>2. ~(Launch \/ Tick \/ Probe \/ MonitorEnds \/ Call \/ Shutdown \/ Exit \/ Crash \/ ProcessFails
        \/ Command \/ CommandKey \/ CommandHost)
  BY DEF Launch, Tick, Probe, MonitorEnds, Call, Shutdown, Exit, Crash, Gone, ProcessFails,
         Command, CommandKey, CommandHost
<1>3. PICK t \in Threads : ThreadStep(t) BY <1>1, <1>2 DEF Steps
<1>4. ~(Lock(t) \/ CloseService(t) \/ Change(t) \/ WriteKey(t) \/ OpenTorrc(t) \/ FillTorrc(t)
        \/ StartFails(t) \/ Bootstrap(t) \/ AddOnion(t) \/ OpenKey(t) \/ SaveKey(t))
  BY DEF Lock, CloseService, Change, WriteKey, OpenTorrc, FillTorrc, StartFails, Bootstrap,
         AddOnion, OpenKey, SaveKey
<1> QED BY <1>3, <1>4 DEF ThreadStep

\* The address of the site outlives restarts of tor, crashes and failing steps,
\* whatever the operator and the subcommand change meanwhile: every start announces
\* the address that was announced or told last and is in the file (saveOnionKey,
\* loadOnionKey), except after an announcement whose key could not be saved, or
\* when the subcommand ran beside a start.
THEOREM AddressIsKept == Spec => AddressKept
<1>1. Spec => []IInv
  BY InitIInv, NextKeepsIInv, PTL DEF Spec
<1>2. Spec => []KeyInv
  BY <1>1, InitKeyInv, NextKeepsKeyInv, PTL DEF Spec
<1>3. KeyInv /\ [Next]_<<plan, torVars>> => AnnouncesOwed
  <2> SUFFICES ASSUME KeyInv, [Next]_<<plan, torVars>>, svc' \notin {svc, None}, owed # None, ~lost
               PROVE  svc' = owed
    BY DEF AnnouncesOwed
  <2>1. PICK t \in Threads : Serve(t) BY OnlyServeAnnounces
  <2>2. th[t].key = owed BY <2>1, ServesWhatIsOwed
  <2> QED BY <2>1, <2>2 DEF Serve
<1>4. KeyInv' => AddressFiled'
  BY KeyInvImpliesFiled, PTL
<1>5. KeyInv /\ KeyInv' /\ [Next]_<<plan, torVars>> => [AddressFiled' /\ AnnouncesOwed]_torVars
  BY <1>3, <1>4
<1>6. Spec => [][AddressFiled' /\ AnnouncesOwed]_torVars
  BY <1>2, <1>5, PTL DEF Spec
<1> QED BY <1>6 DEF AddressKept
=============================================================================
