---------------------------- MODULE Installation ----------------------------
(***************************************************************************)
(* main of src/main.go from the flags to the running server and back, as   *)
(* it strings together the configuration, the database, the certificates   *)
(* and the updates of one installation, with commands beside the server,   *)
(* crashes at every step, and a supervisor that starts the server again.   *)
(***************************************************************************)
EXTENDS ConfigStore, AdminStore, CertStore, Updater

VARIABLE ops                       \* what the operator has done so far

vars == <<control, ops, configVars, adminVars, certVars, updVars>>

Init ==
  /\ ProgramsInit /\ ConfigInit /\ AdminInit /\ CertInit /\ UpdaterInit
  /\ ops = 0

Operator == ops < plan.ops /\ ops' = ops + 1

\* A command, or the server: the operator's, or the supervisor's restart.
Launch(p, j) ==
  /\ at[p] = "down"
  /\ IF j = "serve" THEN UNCHANGED ops ELSE Operator
  /\ Loaded(p) /\ Goto(p, "load")
  /\ job' = [job EXCEPT ![p] = j]
  /\ UNCHANGED <<faults, configVars, adminVars, certVars, dir, out, overlapped>>

\* Without a job of its own for the file, a program goes on with its copy.
GoOn(p) ==
  /\ at[p] = "loaded"
  /\ \/ job[p] = "serve" /\ Override(p) /\ Goto(p, "migrate")
     \/ job[p] = "status" /\ Goto(p, "exit") /\ UNCHANGED mem
  /\ UNCHANGED <<job, faults, ops, server_yml, current, outdated, saidHistory>>
  /\ UNCHANGED <<adminVars, certVars, updVars>>

\* --maintenance setup loads the file once more before it resets the section.
LoadAgain(p) ==
  /\ at[p] = "loaded" /\ job[p] = "setup"
  /\ job' = [job EXCEPT ![p] = "reset"]
  /\ Goto(p, "load")
  /\ UNCHANGED <<faults, ops, configVars, adminVars, certVars, updVars>>

\* The PID file lets one server pass (Lifecycle looks at how); it launches the
\* goroutine of the listener, which needs a certificate if SSL is on.
CheckPid(p) ==
  /\ at[p] = "pid"
  /\ IF \E q \in Programs \ {p} : Serving(q)
     THEN Goto(p, "exit") /\ UNCHANGED tls
     ELSE Goto(p, "email") /\ TlsGo(p, IF mem[p]["ssl"] = "on" THEN "find" ELSE "serving")
  /\ UNCHANGED <<job, faults, ops, configVars, adminVars, updVars>>
  /\ UNCHANGED <<cert, key, live, pairs>>

ConfigStep(p) ==
  /\ \/ /\ \/ LoadMissing(p) \/ LoadFile(p) \/ LoadEmpty(p) \/ LoadFails(p)
           \/ Truncate(p) \/ Fill(p) \/ Command(p) \/ DetectSMTP(p)
        /\ UNCHANGED <<job, faults>>
     \/ SaveFails(p)
  /\ UNCHANGED <<ops, adminVars, certVars, updVars>>

AdminStep(p) ==
  /\ \/ /\ InitDatabase(p) \/ SetCredentials(p) \/ ShowCredentials(p)
        /\ UNCHANGED <<job, faults>>
     \/ InitFails(p) \/ HasCredentials(p)
  /\ UNCHANGED <<ops, configVars, certVars, updVars>>

CertStep(p) ==
  /\ \/ /\ \/ UseExisting(p) \/ UseAcme(p) \/ OpenCert(p)
           \/ WriteCert(p) \/ OpenKey(p) \/ WriteKey(p)
        /\ UNCHANGED control
     \/ GenerateFails(p)
  /\ UNCHANGED <<ops, configVars, adminVars, updVars>>

UpdateStep(p) ==
  /\ \/ /\ \/ Check(p, mem[p]["branch"]) \/ Notify(p) \/ NothingToReplace(p)
           \/ ReplaceBackup(p) \/ StageOpen(p) \/ StageFill(p)
           \/ MoveAside(p) \/ Swap(p) \/ RemoveBackup(p) \/ Installed(p)
        /\ UNCHANGED <<job, faults>>
     \/ Record(p) \/ Download(p) \/ Replace(p)
     \/ StageFails(p) \/ MoveAsideFails(p) \/ SwapFails(p)
  /\ UNCHANGED <<ops, configVars, adminVars, certVars>>

\* The listener goes with the image of the process.
Restart(p) ==
  /\ RestartSelf(p) /\ ListenerGone(p)
  /\ UNCHANGED <<job, faults, ops, configVars, adminVars, cert, key, live, pairs>>

\* The memory of a process that has ended.
Freed(p) ==
  /\ mem' = [mem EXCEPT ![p] = Default]
  /\ current' = [current EXCEPT ![p] = FALSE]
  /\ outdated' = [outdated EXCEPT ![p] = {}]
  /\ UNCHANGED <<file, saidHistory>>

Reaped(p) ==
  /\ at[p] = "exit"
  /\ Goto(p, "down") /\ Freed(p)
  /\ UNCHANGED <<job, faults, ops, open, adminVars, certVars, updVars>>

\* The select loop: the signal to stop, which waits for the update task, ...
Quit(p) ==
  /\ at[p] = "running" /\ job[p] = "serve" /\ upd[p].pc = "idle"
  /\ Operator
  /\ Goto(p, "down") /\ Freed(p) /\ ListenerGone(p)
  /\ UNCHANGED <<job, faults, open, adminVars, updVars, cert, key, live, pairs>>

\* ... or an error of the listener, upon which the process exits at once.
ListenerFails(p) ==
  /\ at[p] = "running" /\ tls[p].pc = "failed"
  /\ Goto(p, "down") /\ Freed(p) /\ ListenerGone(p) /\ Interrupted(p)
  /\ UNCHANGED <<job, faults, ops, open, adminVars, cert, key, live, pairs>>
  /\ UNCHANGED <<dir, out, overlapped>>

Crash(p) ==
  /\ Up(p) /\ Fault
  /\ Goto(p, "down") /\ Freed(p) /\ Released(p)
  /\ Forgotten(p) /\ ListenerGone(p) /\ Interrupted(p)
  /\ UNCHANGED <<job, ops, rows, printed, rivals, cert, key, live, pairs>>
  /\ UNCHANGED <<dir, out, overlapped>>

World ==
  /\ \/ Publish /\ UNCHANGED <<configVars, certVars, ops>>
     \/ Age /\ UNCHANGED <<configVars, certVars, ops>>
     \/ CertbotEnds /\ UNCHANGED <<configVars, updVars, ops>>
     \/ /\ \E f \in DOMAIN plan.edits : Edit(f, plan.edits[f])
        /\ Operator
        /\ UNCHANGED <<certVars, updVars>>
  /\ UNCHANGED <<control, adminVars>>

ProgramStep(p) ==
  \/ GoOn(p) \/ LoadAgain(p) \/ CheckPid(p) \/ ConfigStep(p) \/ AdminStep(p)
  \/ CertStep(p) \/ UpdateStep(p) \/ Restart(p) \/ Reaped(p)

Next ==
  /\ UNCHANGED plan
  /\ \/ \E p \in Programs : \E j \in plan.jobs[p] : Launch(p, j)
     \/ \E p \in Programs : ProgramStep(p) \/ Quit(p) \/ ListenerFails(p) \/ Crash(p)
     \/ World

Spec == Init /\ [][Next]_<<plan, vars>>

\* A program that can take a step takes one, a server that has ended is
\* started again by the service manager, certbot finishes what it began.
FairSpec ==
  /\ Spec
  /\ \A p \in Programs : /\ WF_vars(ProgramStep(p))
                         /\ WF_vars(CertStep(p))
                         /\ WF_vars(UpdateStep(p))
                         /\ WF_vars(ListenerFails(p))
  /\ WF_vars(\E p \in Programs : "serve" \in plan.jobs[p] /\ Launch(p, "serve"))
  /\ WF_vars(CertbotEnds /\ UNCHANGED <<configVars, updVars, ops, control, adminVars>>)

-----------------------------------------------------------------------------
\* Unless two programs replace it across file systems at a time, the binary is
\* never a partial or unverified download, and when there is none at its path
\* the old one is at .bak: an update cut off at any step can be undone.
BinarySound ==
  ~overlapped => /\ dir.bin # Partial
                 /\ dir.bin = Gone => dir.bak \notin {Gone, Partial}

\* However many first starts there are at a time, a password that is accepted by
\* VerifyAdminPassword has been or is about to be shown, unless a program died that
\* held one; and unless two of them found no credentials at a time, every password
\* shown is the one that is accepted.
CredentialsUsable ==
  /\ rows # <<>> /\ ~unseen =>
       \E c \in printed \cup {made[p] : p \in Programs} : Verifies(c)
  /\ ~rivals => \A c \in printed : Verifies(c)

\* What c says of f is what was last acknowledged, ...
Agrees(c, f) == \/ c[f] = said[f]
                \/ said[f] = ""                    \* left to the program
                \/ f = "mode" /\ c[f] = EnvMode    \* overridden by MODE

\* ... be it an edit, a command, the port of the first run or a mail server found,
\* and server.yml says the same of every setting, with two exceptions that are in
\* the code. Any save, of whatever, puts a setting that generateConfigYAML does not
\* write back to its default; it stays there until it is edited again. And the save
\* of a copy undoes what was set after the copy was loaded, but nothing else; a file
\* torn by a crash that is read as empty loses all of it.
SettingsHold ==
  file \notin {None, Torn} =>
    \A f \in Fields : IF f \in wiped THEN file[f] = Default[f]
                      ELSE f \in reverted \/ Agrees(file, f)

Listening == \E p \in Programs : at[p] = "running" /\ tls[p].pc = "serving"

\* Two wounds that do not heal by themselves: no whole binary at its path, and a
\* key file that was opened and not written.
Wounded == dir.bin \in {Gone, Partial} \/ key = Empty

\* The server is up again and again, through crashes, failing calls, renewals
\* and updates, unless it is wounded for good.
ServesAgain == []<>Listening \/ <>[]Wounded

\* There is a newest stable release, old enough, and p runs another one.
Behind(p) ==
  \E r \in 1..out.published :
    /\ Kinds[r] = "stable" /\ \A s \in (r + 1)..out.published : Kinds[s] # "stable"
    /\ Deferred => r <= out.aged
    /\ upd[p].version # r

\* On the stable channel, unless it is wounded for good, the server comes to run
\* the newest release that is old enough, whatever fails or is cut off on the way
\* and whatever the command installs meanwhile; but a server whose binary was
\* renamed under it neither restarts nor updates itself any more.
Settles ==
  \/ <>[](\A p \in Programs : at[p] = "running" => ~Behind(p))
  \/ []<>(\E p \in Programs : mem[p]["branch"] # "stable")
  \/ <>[]Wounded
  \/ <>[](\E p \in Programs : at[p] = "running" /\ upd[p].path # "bin")

=============================================================================
