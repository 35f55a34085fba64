------------------------------- MODULE Backup -------------------------------
(***************************************************************************)
(* src/backup.go: backups, made by the tasks of the server and by commands,*)
(* and restores, beside a server that writes what they copy and replace.   *)
(* A file is the number of its version, an archive the versions it holds.  *)
(***************************************************************************)
EXTENDS Naturals, FiniteSets, Functions

CONSTANTS Tasks, Commands,         \* who makes backups
          Restorers,               \* commands that restore
          NameOf,                  \* the file each backup writes
          Casts,                   \* those of them that a behaviour is about
          Daily,                   \* the name whose backups recur
          NoFile, Bad,             \* no archive; one that is cut short or mixed
          MaxVersion, MaxFaults

Writers == Tasks \cup Commands
Names   == {NameOf[w] : w \in Writers}
Files   == {"server.yml", "db"}
Missing == 0
Torn    == MaxVersion + 1          \* read or left half-way through a write

ASSUME BackupAssumption ==
  /\ MaxVersion \in Nat \ {0} /\ MaxFaults \in Nat
  /\ DOMAIN NameOf = Writers /\ Daily \in Names
  /\ \A c \in Casts : c \subseteq Writers \cup Restorers

VARIABLES cast,                    \* who acts in this behaviour
          encrypt,                 \* backup.encryption.enabled
          disk,                    \* the two files at their paths
          log,                     \* "-wal": commits that are not in db, or none
          fits,                    \* log belongs to the db at its path
          srv,                     \* the server: "down", "up", "saving", "moving"
          version,                 \* of the newest content
          arc,                     \* the archives
          job,                     \* each backup and restore: its place, what it
                                   \* read, the files that are left to treat
          faults,
          \* history:
          told,                    \* the outcome last reported for each name
          made                     \* the archives some backup put together

backupVars == <<encrypt, disk, log, fits, srv, version, arc, job, faults, told, made>>
system     == <<disk, log, fits, srv, version>>

Idle     == [pc |-> "idle", data |-> NoFile, left |-> {}]
Whole(a) == a # NoFile /\ a # Bad
Present  == {f \in Files : disk[f] # Missing}

Init ==
  /\ cast \in Casts
  /\ encrypt \in BOOLEAN
  /\ \/ disk = [f \in Files |-> 1]
     \/ disk = [f \in Files |-> Missing] /\ ~encrypt
  /\ log = 0 /\ fits = TRUE /\ srv = "down" /\ version = 1
  /\ arc = [n \in Names |-> NoFile]
  /\ job = [a \in Writers \cup Restorers |-> Idle]
  /\ faults = 0
  /\ told = [n \in Names |-> "nothing"] /\ made = {}

Fault     == faults < MaxFaults /\ faults' = faults + 1
At(a, pc) == job[a].pc = pc
Go(a, pc) == job' = [job EXCEPT ![a].pc = pc]
End(a)    == job' = [job EXCEPT ![a] = Idle]
Tell(w, what) == told' = [told EXCEPT ![NameOf[w]] = what]

-----------------------------------------------------------------------------
\* runBackup. The password comes from a terminal, which a task has not; a
\* command may get two that differ.
Refuse(w) ==
  /\ At(w, "idle") /\ encrypt
  /\ w \in Tasks => srv = "up"
  /\ Tell(w, "failed")
  /\ UNCHANGED <<encrypt, system, arc, job, faults, made>>

\* collectBackupSources: what is there, a directory of templates or themes as
\* server.yml. Nothing is an error.
Collect(w) ==
  /\ At(w, "idle")
  /\ IF w \in Tasks THEN srv = "up" /\ ~encrypt ELSE TRUE
  /\ IF Present = {} THEN Tell(w, "failed") /\ UNCHANGED job
     ELSE /\ job' = [job EXCEPT ![w] = [pc |-> "read", left |-> Present,
                                        data |-> [f \in Files |-> Missing]]]
          /\ UNCHANGED told
  /\ UNCHANGED <<encrypt, system, arc, faults, made>>

\* buildBackupArchive reads the files in their order, each as it is.
ReadSource(w) ==
  /\ At(w, "read") /\ job[w].left # {}
  /\ LET f == IF "server.yml" \in job[w].left THEN "server.yml" ELSE "db"
     IN  job' = [job EXCEPT ![w].data[f] = disk[f], ![w].left = @ \ {f}]
  /\ UNCHANGED <<encrypt, system, arc, faults, told, made>>

Others(w) == {q \in Writers \ {w} : NameOf[q] = NameOf[w] /\ At(q, "fill")}

\* Mutant: an archive that is there is not written over.
OpenNew(w) ==
  /\ At(w, "read") /\ job[w].left = {}
  /\ made' = made \cup {job[w].data}
  /\ IF arc[NameOf[w]] = NoFile
     THEN arc' = [arc EXCEPT ![NameOf[w]] = Bad] /\ Go(w, "fill") /\ UNCHANGED told
     ELSE Tell(w, "failed") /\ End(w) /\ UNCHANGED arc
  /\ UNCHANGED <<encrypt, system, faults>>

\* os.WriteFile truncates the archive of the previous backup ...
Open(w) ==
  /\ At(w, "read") /\ job[w].left = {}
  /\ made' = made \cup {job[w].data}
  /\ arc' = [arc EXCEPT ![NameOf[w]] = Bad]
  /\ Go(w, "fill")
  /\ UNCHANGED <<encrypt, system, faults, told>>

\* ... and writes the new one; two that write at a time may leave a mixture.
Fill(w) ==
  /\ At(w, "fill")
  /\ \E a \in {job[w].data} \cup IF Others(w) # {} \/ arc[NameOf[w]] # Bad THEN {Bad} ELSE {} :
       arc' = [arc EXCEPT ![NameOf[w]] = a]
  /\ Go(w, "verify")
  /\ UNCHANGED <<encrypt, system, faults, told, made>>

\* The disk is full: what was written of it stays.
FillFails(w) ==
  /\ At(w, "fill") /\ Fault
  /\ Tell(w, "failed") /\ End(w)
  /\ UNCHANGED <<encrypt, system, arc, made>>

\* Mutant: what was written is taken for good.
VerifyNothing(w) ==
  /\ At(w, "verify")
  /\ Tell(w, "done") /\ End(w)
  /\ UNCHANGED <<encrypt, system, arc, faults, made>>

\* verifyBackupFile reads the archive at the name, be it this backup's or not.
Verify(w) ==
  /\ At(w, "verify")
  /\ IF Whole(arc[NameOf[w]]) THEN Tell(w, "done") /\ End(w)
     ELSE Go(w, "remove") /\ UNCHANGED told
  /\ UNCHANGED <<encrypt, system, arc, faults, made>>

\* The file that failed is removed, or the one that has its name by now.
Remove(w) ==
  /\ At(w, "remove")
  /\ arc' = [arc EXCEPT ![NameOf[w]] = NoFile]
  /\ Tell(w, "failed") /\ End(w)
  /\ UNCHANGED <<encrypt, system, faults, made>>

-----------------------------------------------------------------------------
\* runRestore reads the archive once, while a backup may be writing it.
ReadArchive(r) ==
  /\ At(r, "idle")
  /\ \E n \in Names :
       /\ arc[n] # NoFile
       /\ \E a \in {arc[n]} \cup (IF \E w \in Writers : NameOf[w] = n /\ At(w, "fill") THEN {Bad} ELSE {}) :
            job' = [job EXCEPT ![r] = [pc |-> "staged", data |-> a, left |-> {}]]
  /\ UNCHANGED <<encrypt, system, arc, faults, told, made>>

\* Mutant: files are installed as they are extracted, up to the first bad one.
InstallUnverified(r) ==
  /\ At(r, "staged")
  /\ job' = [job EXCEPT ![r] =
               [pc |-> "install",
                data |-> IF @.data = Bad THEN [f \in Files |-> Torn] ELSE @.data,
                left |-> Files]]
  /\ UNCHANGED <<encrypt, system, arc, faults, told, made>>

\* extractToStaging and loadAndVerifyManifest: no file is touched unless all are
\* there and have their checksums (and the password was the right one).
VerifyStaging(r) ==
  /\ At(r, "staged")
  /\ \/ /\ Whole(job[r].data)
        /\ job' = [job EXCEPT ![r] = [@ EXCEPT !.pc = "install",
                                      !.left = {f \in Files : job[r].data[f] # Missing}]]
     \/ (~Whole(job[r].data) \/ encrypt) /\ End(r)
  /\ UNCHANGED <<encrypt, system, arc, faults, told, made>>

\* installFile renames a whole copy over the file; a server that is up goes on
\* with the database it has open, and the log stays.
InstallFile(r) ==
  /\ At(r, "install") /\ job[r].left # {}
  /\ LET f == IF "server.yml" \in job[r].left THEN "server.yml" ELSE "db"
     IN  /\ disk' = [disk EXCEPT ![f] = job[r].data[f]]
         /\ job' = [job EXCEPT ![r].left = @ \ {f}]
         /\ fits' = IF f = "db" THEN log = 0 /\ srv = "down" ELSE fits
  /\ UNCHANGED <<encrypt, log, srv, version, arc, faults, told, made>>

\* It fails: what was installed before stays.
InstallFails(r) ==
  /\ At(r, "install") /\ job[r].left # {} /\ Fault
  /\ End(r)
  /\ UNCHANGED <<encrypt, system, arc, told, made>>

Restored(r) ==
  /\ At(r, "install") /\ job[r].left = {}
  /\ End(r)
  /\ UNCHANGED <<encrypt, system, arc, faults, told, made>>

\* The server makes its files; a log that is there is replayed, over whatever
\* database is at the path.
Launch ==
  /\ srv = "down"
  /\ srv' = "up"
  /\ disk' = [f \in Files |-> IF disk[f] = Missing THEN 1
                              ELSE IF f = "db" /\ ~fits /\ log # 0 THEN Torn ELSE disk[f]]
  /\ log' = IF fits THEN log ELSE 0
  /\ fits' = TRUE
  /\ UNCHANGED version

New == version < MaxVersion /\ version' = version + 1

\* A save of server.yml truncates it and writes it.
BeginSave ==
  /\ srv = "up" /\ version < MaxVersion
  /\ srv' = "saving"
  /\ disk' = [disk EXCEPT !["server.yml"] = Torn]
  /\ UNCHANGED <<log, fits, version>>

EndSave ==
  /\ srv = "saving" /\ srv' = "up" /\ New
  /\ disk' = [disk EXCEPT !["server.yml"] = version']
  /\ UNCHANGED <<log, fits>>

\* A transaction of the database goes to the log.
Commit ==
  /\ srv = "up" /\ New
  /\ log' = version'
  /\ UNCHANGED <<disk, fits, srv>>

\* A checkpoint moves the log into the database that the server has open.
BeginCheckpoint ==
  /\ srv = "up" /\ log # 0
  /\ srv' = "moving"
  /\ disk' = IF fits THEN [disk EXCEPT !["db"] = Torn] ELSE disk
  /\ UNCHANGED <<log, fits, version>>

EndCheckpoint ==
  /\ srv = "moving"
  /\ srv' = "up" /\ log' = 0
  /\ disk' = IF fits THEN [disk EXCEPT !["db"] = log] ELSE disk
  /\ UNCHANGED <<fits, version>>

\* os.Exit, without db.Close: the log stays.
Stop ==
  /\ srv = "up" /\ \A t \in Tasks : At(t, "idle")
  /\ srv' = "down"
  /\ UNCHANGED <<disk, log, fits, version>>

ServerStep ==
  /\ \/ Launch \/ BeginSave \/ EndSave \/ Commit
     \/ BeginCheckpoint \/ EndCheckpoint \/ Stop
  /\ UNCHANGED <<encrypt, arc, job, faults, told, made>>

\* The server, with its tasks, or a command is killed or loses power.
Crash(who) ==
  /\ Fault
  /\ IF who = Tasks THEN srv # "down" ELSE \E a \in who : ~At(a, "idle")
  /\ job' = [a \in DOMAIN job |-> IF a \in who THEN Idle ELSE job[a]]
  /\ told' = [n \in Names |-> IF \E w \in who \cap Writers : NameOf[w] = n THEN "nothing" ELSE told[n]]
  /\ srv' = IF who = Tasks THEN "down" ELSE srv
  /\ UNCHANGED <<encrypt, disk, log, fits, version, arc, made>>

BackupStep(w) ==
  \/ Refuse(w) \/ Collect(w) \/ ReadSource(w) \/ Open(w) \/ Fill(w) \/ FillFails(w)
  \/ Verify(w) \/ Remove(w)

RestoreStep(r) ==
  \/ ReadArchive(r) \/ VerifyStaging(r) \/ InstallFile(r) \/ InstallFails(r) \/ Restored(r)

Next ==
  /\ UNCHANGED cast
  /\ \/ \E w \in cast \cap Writers : BackupStep(w)
     \/ \E r \in cast \cap Restorers : RestoreStep(r)
     \/ ServerStep
     \/ Crash(Tasks)
     \/ \E c \in cast \ Tasks : Crash({c})

Spec == Init /\ [][Next]_<<cast, backupVars>>

\* The server is started again and ends what it began; the scheduler runs a task that became due while
\* the server was down, so that no sequence of restarts passes over it for ever.
FairSpec ==
  /\ Spec
  /\ WF_backupVars(srv # "up" /\ ServerStep)
  /\ \A w \in Writers : WF_backupVars(~At(w, "idle") /\ BackupStep(w))
  /\ \A t \in Tasks : SF_backupVars(t \in cast /\ At(t, "idle") /\ BackupStep(t))

-----------------------------------------------------------------------------
\* When nobody is writing an archive and the last word about it was "Backup
\* created", it is there and whole, whoever wrote, verified and removed that name
\* at a time; each of the others reports its failure after what it broke.
GoodUnlessTold ==
  \A n \in Names :
    /\ told[n] = "done"
    /\ \A w \in Writers : NameOf[w] = n => job[w].pc \in {"idle", "read"}
    => Whole(arc[n])

\* What a restore installs is what one backup put together, in full, even if the
\* archive is being written, verified or removed while it is read.
InstallsOneBackup == \A r \in Restorers : At(r, "install") => job[r].data \in made

\* After every crash and every full disk there is a whole daily archive again,
\* unless backups are encrypted, which no task can do, or commands that write the
\* same name never cease.
DailyRecurs ==
  \/ []<>Whole(arc[Daily])
  \/ []encrypt
  \/ []<>(\E c \in Commands : ~At(c, "idle"))
  \/ [](\A t \in Tasks : NameOf[t] = Daily => t \notin cast)

=============================================================================
