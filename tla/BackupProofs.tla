---------------------------- MODULE BackupProofs ----------------------------
(***************************************************************************)
(* Theorems about Backup, for every set of tasks, commands and restores,   *)
(* every cast of them and every number of faults.                          *)
(***************************************************************************)
EXTENDS Backup, TLAPS

Actors == Writers \cup Restorers

\* What the proofs need to know of types: a job is a record with a known place.
JobTypes ==
  /\ cast \in Casts
  /\ DOMAIN job = Actors
  /\ \A a \in Actors : /\ DOMAIN job[a] = {"pc", "data", "left"}
                       /\ job[a].pc \in {"idle", "read", "fill", "verify", "remove", "staged", "install"}
  /\ DOMAIN arc = Names /\ DOMAIN told = Names

\* Whoever is about to write, install or give up works on what some backup put
\* together, and the archives that are whole hold nothing else.
MadeInv ==
  /\ \A n \in Names : Whole(arc[n]) => arc[n] \in made
  /\ \A a \in Actors :
       /\ At(a, "fill") \/ At(a, "install") => job[a].data \in made
       /\ At(a, "staged") /\ Whole(job[a].data) => job[a].data \in made

\* The places between the truncation of an archive and the word about it.
Unsettled(n) == \E w \in Writers : NameOf[w] = n /\ job[w].pc \in {"fill", "verify", "remove"}

ToldInv == \A n \in Names : told[n] = "done" /\ ~Unsettled(n) => Whole(arc[n])

IInv == JobTypes /\ MadeInv /\ ToldInv

LEMMA InvImpliesProperties == IInv => InstallsOneBackup /\ GoodUnlessTold
BY DEF IInv, JobTypes, MadeInv, ToldInv, Unsettled, InstallsOneBackup, GoodUnlessTold, At, Actors

LEMMA InitIInv == Init => IInv
BY DEF Init, IInv, JobTypes, MadeInv, ToldInv, Unsettled, Idle, Whole, At, Actors

\* What a step of the actor a makes of its job; the others keep theirs.
Moved(a, pc) ==
  /\ DOMAIN job' = Actors
  /\ DOMAIN job'[a] = {"pc", "data", "left"} /\ job'[a].pc = pc
  /\ \A b \in Actors \ {a} : job'[b] = job[b]

LEMMA GoMoves ==
  ASSUME JobTypes, NEW a \in Actors, NEW pc, Go(a, pc)
  PROVE  Moved(a, pc) /\ job'[a].data = job[a].data
BY DEF JobTypes, Go, Moved

LEMMA EndMoves ==
  ASSUME JobTypes, NEW a \in Actors, End(a)
  PROVE  Moved(a, "idle")
BY DEF JobTypes, End, Moved, Idle

LEMMA NamesOfWriters == \A w \in Writers : NameOf[w] \in Names
BY DEF Names

\* A step that leaves the archives and what was said: it may take nobody out of
\* the places that are not settled.
LEMMA QuietMove ==
  ASSUME IInv, NEW a \in Actors, NEW pc \in {"idle", "read", "staged", "install", "verify", "remove"},
         Moved(a, pc),
         pc \in {"idle", "read"} => job[a].pc \notin {"fill", "verify", "remove"},
         pc \in {"staged", "install"} => job[a].pc \notin {"fill", "verify", "remove"},
         pc = "staged" /\ Whole(job'[a].data) => job'[a].data \in made,
         pc = "install" => job'[a].data \in made,
         UNCHANGED <<cast, arc, made, told>>
  PROVE  IInv'
<1>1. JobTypes' BY DEF IInv, JobTypes, Moved
<1>2. MadeInv' BY DEF IInv, MadeInv, Moved, At, Whole
<1>3. ToldInv' BY DEF IInv, ToldInv, Moved, Unsettled, Actors, Whole
<1> QED BY <1>1, <1>2, <1>3 DEF IInv

\* A writer that has its word about the archive told.
LEMMA ToldMove ==
  ASSUME IInv, NEW w \in Writers, NEW what, Moved(w, "idle"), Tell(w, what),
         what = "done" => Whole(arc'[NameOf[w]]),
         \/ arc' = arc
         \/ arc' = [arc EXCEPT ![NameOf[w]] = NoFile],
         UNCHANGED <<cast, made>>
  PROVE  IInv'
<1>0. w \in Actors /\ NameOf[w] \in Names BY NamesOfWriters DEF Actors
<1>1. /\ DOMAIN told' = Names /\ told'[NameOf[w]] = what
      /\ \A n \in Names \ {NameOf[w]} : told'[n] = told[n]
  BY <1>0 DEF IInv, JobTypes, Tell
<1>2. /\ DOMAIN arc' = Names /\ \A n \in Names \ {NameOf[w]} : arc'[n] = arc[n]
      /\ \A n \in Names : Whole(arc'[n]) => arc'[n] = arc[n]
  BY <1>0 DEF IInv, JobTypes, Whole
<1>3. JobTypes' BY <1>0, <1>1, <1>2 DEF IInv, JobTypes, Moved
<1>4. MadeInv' BY <1>0, <1>2 DEF IInv, MadeInv, Moved, At
<1>5. ToldInv'
  <2> SUFFICES ASSUME NEW n \in Names, told'[n] = "done", ~Unsettled(n)' PROVE Whole(arc'[n])
    BY DEF ToldInv
  <2>1. CASE n = NameOf[w] BY <1>1, <2>1
  <2>2. CASE n # NameOf[w]
    <3>1. ~Unsettled(n) BY <1>0, <2>2 DEF Unsettled, Moved, Actors
    <3> QED BY <1>1, <1>2, <2>2, <3>1 DEF IInv, ToldInv
  <2> QED BY <2>1, <2>2
<1> QED BY <1>3, <1>4, <1>5 DEF IInv

\* A writer at work on the archive itself.
LEMMA ArchiveMove ==
  ASSUME IInv, NEW w \in Writers, NEW pc \in {"fill", "verify"}, Moved(w, pc), NEW a,
         arc' = [arc EXCEPT ![NameOf[w]] = a],
         Whole(a) => a \in made', pc = "fill" => job'[w].data \in made',
         made \subseteq made', UNCHANGED <<cast, told>>
  PROVE  IInv'
<1>0. w \in Actors /\ NameOf[w] \in Names BY NamesOfWriters DEF Actors
<1>1. /\ DOMAIN arc' = Names /\ arc'[NameOf[w]] = a
      /\ \A n \in Names \ {NameOf[w]} : arc'[n] = arc[n]
  BY <1>0 DEF IInv, JobTypes
<1>2. JobTypes' BY <1>0, <1>1 DEF IInv, JobTypes, Moved
<1>3. MadeInv' BY <1>0, <1>1 DEF IInv, MadeInv, Moved, At
<1>4. ToldInv'
  <2> SUFFICES ASSUME NEW n \in Names, told[n] = "done", ~Unsettled(n)' PROVE Whole(arc'[n])
    BY DEF ToldInv
  <2>1. n # NameOf[w] BY DEF Unsettled, Moved
  <2>2. ~Unsettled(n) BY <1>0, <2>1 DEF Unsettled, Moved, Actors
  <2> QED BY <1>1, <2>1, <2>2 DEF IInv, ToldInv
<1> QED BY <1>2, <1>3, <1>4 DEF IInv

LEMMA BackupStepIInv ==
  ASSUME IInv, NEW w \in Writers, BackupStep(w), UNCHANGED cast
  PROVE  IInv'
<1>0. w \in Actors /\ NameOf[w] \in Names /\ JobTypes BY NamesOfWriters DEF Actors, IInv
<1>1. CASE Refuse(w)
  <2>1. Tell(w, "failed") /\ UNCHANGED <<arc, made>> /\ job' = job /\ At(w, "idle") BY <1>1 DEF Refuse
  <2>2. Moved(w, "idle") BY <1>0, <2>1 DEF Moved, At, JobTypes
  <2> QED BY <2>1, <2>2, ToldMove
<1>2. CASE Collect(w)
  <2>1. UNCHANGED <<arc, made>> /\ At(w, "idle") BY <1>2 DEF Collect
  <2>2. CASE Tell(w, "failed") /\ UNCHANGED job
    <3>1. Moved(w, "idle") BY <1>0, <2>1, <2>2 DEF Moved, At, JobTypes
    <3> QED BY <2>1, <2>2, <3>1, ToldMove
  <2>3. CASE /\ job' = [job EXCEPT ![w] = [pc |-> "read", left |-> Present,
                                           data |-> [f \in Files |-> Missing]]]
             /\ UNCHANGED told
    <3>1. Moved(w, "read") BY <1>0, <2>3 DEF Moved, JobTypes
    <3> QED BY <1>0, <2>1, <2>3, <3>1, QuietMove DEF At
  <2> QED BY <1>2, <2>2, <2>3 DEF Collect
<1>3. CASE ReadSource(w)
  <2>1. UNCHANGED <<arc, made, told>> /\ At(w, "read") BY <1>3 DEF ReadSource
  <2>2. Moved(w, "read") BY <1>0, <1>3 DEF Moved, JobTypes, ReadSource, At
  <2> QED BY <1>0, <2>1, <2>2, QuietMove DEF At
<1>4. CASE Open(w)
  <2>1. /\ Go(w, "fill") /\ made' = made \cup {job[w].data} /\ UNCHANGED told
        /\ arc' = [arc EXCEPT ![NameOf[w]] = Bad]
    BY <1>4 DEF Open
  <2>2. Moved(w, "fill") /\ job'[w].data = job[w].data BY <1>0, <2>1, GoMoves
  <2>3. ~Whole(Bad) BY DEF Whole
  <2> QED BY <2>1, <2>2, <2>3, ArchiveMove
<1>5. CASE Fill(w)
  <2>1. PICK a : /\ a = job[w].data \/ a = Bad
                 /\ arc' = [arc EXCEPT ![NameOf[w]] = a]
    BY <1>5 DEF Fill
  <2>2. Go(w, "verify") /\ UNCHANGED <<made, told>> /\ At(w, "fill") BY <1>5 DEF Fill
  <2>3. Moved(w, "verify") BY <1>0, <2>2, GoMoves
  <2>4. Whole(a) => a \in made BY <1>0, <2>1, <2>2 DEF Whole, IInv, MadeInv
  <2> QED BY <2>1, <2>2, <2>3, <2>4, ArchiveMove
<1>6. CASE FillFails(w)
  BY <1>0, <1>6, EndMoves, ToldMove DEF FillFails
<1>7. CASE Verify(w)
  <2>1. UNCHANGED <<arc, made>> /\ At(w, "verify") BY <1>7 DEF Verify
  <2>2. CASE Whole(arc[NameOf[w]]) /\ Tell(w, "done") /\ End(w)
    BY <1>0, <2>1, <2>2, EndMoves, ToldMove
  <2>3. CASE Go(w, "remove") /\ UNCHANGED told
    BY <1>0, <2>1, <2>3, GoMoves, QuietMove
  <2> QED BY <1>7, <2>2, <2>3 DEF Verify
<1>8. CASE Remove(w)
  BY <1>0, <1>8, EndMoves, ToldMove DEF Remove
<1> QED BY <1>1, <1>2, <1>3, <1>4, <1>5, <1>6, <1>7, <1>8 DEF BackupStep

LEMMA RestoreStepIInv ==
  ASSUME IInv, NEW r \in Restorers, RestoreStep(r), UNCHANGED cast
  PROVE  IInv'
<1>0. r \in Actors /\ JobTypes /\ UNCHANGED <<arc, told, made>>
  BY DEF Actors, IInv, RestoreStep, ReadArchive, VerifyStaging, InstallFile, InstallFails, Restored
<1>1. CASE ReadArchive(r)
  <2>0. PICK n \in Names : \E a \in {arc[n], Bad} :
          job' = [job EXCEPT ![r] = [pc |-> "staged", data |-> a, left |-> {}]]
    BY <1>1 DEF ReadArchive
  <2>1. PICK a \in {arc[n], Bad} : job' = [job EXCEPT ![r] = [pc |-> "staged", data |-> a, left |-> {}]]
    BY <2>0
  <2>2. Moved(r, "staged") /\ job'[r].data = a BY <1>0, <2>1 DEF Moved, JobTypes
  <2>3. Whole(a) => a \in made BY <2>1 DEF Whole, IInv, MadeInv
  <2> QED BY <1>0, <1>1, <2>2, <2>3, QuietMove DEF ReadArchive, At
<1>2. CASE VerifyStaging(r)
  <2>1. At(r, "staged") BY <1>2 DEF VerifyStaging
  <2>2. CASE /\ Whole(job[r].data)
             /\ job' = [job EXCEPT ![r] = [@ EXCEPT !.pc = "install",
                                           !.left = {f \in Files : job[r].data[f] # Missing}]]
    <3>1. Moved(r, "install") /\ job'[r].data = job[r].data BY <1>0, <2>2 DEF Moved, JobTypes
    <3>2. job[r].data \in made BY <1>0, <2>1, <2>2 DEF IInv, MadeInv
    <3> QED BY <1>0, <2>1, <3>1, <3>2, QuietMove DEF At
  <2>3. CASE End(r)
    BY <1>0, <2>1, <2>3, EndMoves, QuietMove DEF At
  <2> QED BY <1>2, <2>2, <2>3 DEF VerifyStaging
<1>3. CASE InstallFile(r)
  <2>1. At(r, "install") BY <1>3 DEF InstallFile
  <2>2. Moved(r, "install") /\ job'[r].data = job[r].data
    BY <1>0, <1>3 DEF Moved, JobTypes, InstallFile, At
  <2>3. job[r].data \in made BY <1>0, <2>1 DEF IInv, MadeInv
  <2> QED BY <1>0, <2>1, <2>2, <2>3, QuietMove DEF At
<1>4. CASE InstallFails(r) \/ Restored(r)
  <2>1. At(r, "install") /\ End(r) BY <1>4 DEF InstallFails, Restored
  <2> QED BY <1>0, <2>1, EndMoves, QuietMove DEF At
<1> QED BY <1>1, <1>2, <1>3, <1>4 DEF RestoreStep

\* A crash takes everybody's word about what the ones that died were at.
LEMMA CrashIInv ==
  ASSUME IInv, NEW who, Crash(who), UNCHANGED cast
  PROVE  IInv'
<1>1. /\ \A a \in Actors : job'[a] = IF a \in who THEN Idle ELSE job[a]
      /\ DOMAIN job' = Actors /\ DOMAIN told' = Names /\ UNCHANGED <<arc, made>>
      /\ \A n \in Names : told'[n] = IF \E w \in who \cap Writers : NameOf[w] = n THEN "nothing" ELSE told[n]
  BY DEF Crash, IInv, JobTypes
<1>2. JobTypes' BY <1>1 DEF IInv, JobTypes, Idle
<1>3. MadeInv' BY <1>1 DEF IInv, MadeInv, At, Idle
<1>4. ToldInv'
  <2> SUFFICES ASSUME NEW n \in Names, told'[n] = "done", ~Unsettled(n)' PROVE Whole(arc[n])
    BY <1>1 DEF ToldInv
  <2>1. told[n] = "done" /\ \A w \in Writers : NameOf[w] = n => job'[w] = job[w]
    BY <1>1 DEF Actors
  <2>2. ~Unsettled(n) BY <2>1 DEF Unsettled
  <2> QED BY <2>1, <2>2 DEF IInv, ToldInv
<1> QED BY <1>2, <1>3, <1>4 DEF IInv

LEMMA NextIInv == IInv /\ [Next]_<<cast, backupVars>> => IInv'
<1> SUFFICES ASSUME IInv, [Next]_<<cast, backupVars>> PROVE IInv'
  OBVIOUS
<1>1. CASE UNCHANGED <<cast, backupVars>>
  BY <1>1 DEF backupVars, IInv, JobTypes, MadeInv, ToldInv, Unsettled, At, Whole
<1>2. CASE Next
  <2>1. UNCHANGED cast BY <1>2 DEF Next
  <2>2. ASSUME NEW w \in cast \cap Writers, BackupStep(w) PROVE IInv'
    BY <2>1, <2>2, BackupStepIInv
  <2>3. ASSUME NEW r \in cast \cap Restorers, RestoreStep(r) PROVE IInv'
    BY <2>1, <2>3, RestoreStepIInv
  <2>4. CASE ServerStep
    BY <2>1, <2>4 DEF ServerStep, IInv, JobTypes, MadeInv, ToldInv, Unsettled, At, Whole
  <2>5. CASE Crash(Tasks) \/ \E c \in cast \ Tasks : Crash({c})
    BY <2>1, <2>5, CrashIInv
  <2> QED BY <1>2, <2>2, <2>3, <2>4, <2>5 DEF Next
<1> QED BY <1>1, <1>2

LEMMA Inductive == Spec => []IInv
BY InitIInv, NextIInv, PTL DEF Spec

\* Whatever backups, restores and crashes overlap, what runRestore puts in place
\* is what buildBackupArchive made in one call: extractToStaging and
\* loadAndVerifyManifest let no archive through that is cut short or mixed.
THEOREM RestoresOneBackup == Spec => []InstallsOneBackup
<1>1. IInv => InstallsOneBackup BY InvImpliesProperties
<1> QED BY <1>1, Inductive, PTL

\* For any number of writers of one name: if the last word about the archive was
\* "Backup created" and nobody is between the truncation of the file and the
\* report of its check, it is there and whole.
THEOREM SuccessIsGood == Spec => []GoodUnlessTold
<1>1. IInv => GoodUnlessTold BY InvImpliesProperties
<1> QED BY <1>1, Inductive, PTL
=============================================================================
