------------------------- MODULE InstallationProofs -------------------------
(***************************************************************************)
(* What the three invariants of Installation rest on, and that they hold   *)
(* for every set of programs and plans. Each is about a part of the state  *)
(* of its own, so each has an inductive invariant of its own and a lemma   *)
(* that the steps which leave that part alone keep it.                     *)
(***************************************************************************)
EXTENDS Installation, TLAPS

(***************************************************************************)
(* The binary.                                                             *)
(***************************************************************************)
UpdTypes ==
  /\ DOMAIN dir = {"bin", "bak", "stage", "notified"}
  /\ DOMAIN out = {"published", "aged"}
  /\ DOMAIN upd = Programs
  /\ \A p \in Programs : DOMAIN upd[p] = {"pc", "version", "path", "target", "tmp"}
  /\ at \in [Programs -> Places] /\ DOMAIN job = Programs
  /\ plan \in Plans

\* An update is the task of a server that is up, or the command --update yes.
UpdPlaces ==
  \A p \in Programs : upd[p].pc # "idle" =>
    \/ job[p] = "serve" /\ at[p] = "running"
    \/ job[p] = "update" /\ at[p] = "loaded"

\* What is installed is a release, and what was downloaded is all of it.
Targets ==
  /\ out.published \in Nat /\ out.published <= plan.releases
  /\ \A p \in Programs :
       /\ upd[p].pc # "idle" => upd[p].target \in Releases
       /\ upd[p].pc \in {"rename", "copying", "backup"} => upd[p].tmp \in Releases

Whole(c) == c \notin {Gone, Partial}

InReplacement == {"copying", "backup", "swap", "cleanup"}

\* One program at a time is between the stage and the removal of the backup, and
\* there is a whole file to go on with at each place of it.
BinWhole ==
  /\ dir.bin # Partial
  /\ dir.bin = Gone => Whole(dir.bak)
  /\ \A p, q \in Programs :
       upd[p].pc \in InReplacement /\ upd[q].pc \in InReplacement => p = q
  /\ \A p \in Programs :
       /\ upd[p].pc \in {"copying", "backup", "cleanup"} => Whole(dir.bin)
       /\ upd[p].pc \in {"backup", "swap"} => dir.stage # Partial
       /\ upd[p].pc = "swap" => Whole(dir.bak)

BinInv == UpdTypes /\ UpdPlaces /\ Targets /\ (~overlapped => BinWhole)

LEMMA FilesDiffer ==
  /\ Gone # Partial /\ Gone \notin Releases /\ Partial \notin Releases
  /\ Whole(0) /\ \A r \in Releases : Whole(r)
<1>1. Len(Kinds) \in Nat
  BY UpdaterAssumption
<1> QED
  BY <1>1 DEF Gone, Partial, Releases, Whole

LEMMA BinInit == Init => BinInv
<1> SUFFICES ASSUME Init PROVE BinInv
  OBVIOUS
<1> USE DEF Init, UpdaterInit, ProgramsInit
<1>1. plan.releases \in Nat
  BY ProgramsAssumption
<1>2. UpdTypes /\ UpdPlaces
  BY DEF UpdTypes, UpdPlaces, Places, Saves
<1>3. Targets
  BY <1>1 DEF Targets
<1>4. BinWhole
  BY FilesDiffer DEF BinWhole, InReplacement, Whole
<1> QED
  BY <1>2, <1>3, <1>4 DEF BinInv

\* A step that leaves the updates alone moves no program that is at one.
LEMMA BinQuiet ==
  ASSUME BinInv, UNCHANGED <<plan, updVars>>,
         at' \in [Programs -> Places], DOMAIN job' = Programs,
         \A p \in Programs : upd[p].pc = "idle" \/ (at'[p] = at[p] /\ job'[p] = job[p])
  PROVE  BinInv'
BY DEF BinInv, UpdTypes, UpdPlaces, Targets, BinWhole, updVars, Whole

LEMMA RenamedKeeps ==
  ASSUME UpdTypes, NEW to
  PROVE  /\ DOMAIN Renamed(to) = Programs
         /\ \A p \in Programs :
              /\ DOMAIN Renamed(to)[p] = DOMAIN upd[p]
              /\ Renamed(to)[p].pc = upd[p].pc
              /\ Renamed(to)[p].target = upd[p].target
              /\ Renamed(to)[p].tmp = upd[p].tmp
BY DEF Renamed, UpdTypes

\* Where a program is in an update, and what it installs.
Same(q) == /\ upd'[q].pc = upd[q].pc /\ upd'[q].target = upd[q].target
           /\ upd'[q].tmp = upd[q].tmp

\* What is left to show of a step of one program.
LEMMA BinStep ==
  ASSUME BinInv, NEW p \in Programs, UNCHANGED <<plan, job, out>>,
         DOMAIN dir' = DOMAIN dir, at' \in [Programs -> Places], DOMAIN upd' = Programs,
         \A q \in Programs : DOMAIN upd'[q] = DOMAIN upd[q],
         \A q \in Programs \ {p} : at'[q] = at[q] /\ Same(q),
         upd'[p].pc # "idle" =>
           /\ at'[p] = at[p]
           /\ \/ upd[p].pc # "idle"
              \/ job[p] = "serve" /\ at[p] = "running"
              \/ job[p] = "update" /\ at[p] = "loaded"
           /\ upd'[p].target \in Releases
           /\ upd'[p].pc \in {"rename", "copying", "backup"} => upd'[p].tmp \in Releases,
         ~overlapped' => BinWhole'
  PROVE  BinInv'
<1>1. UpdTypes'
  BY DEF BinInv, UpdTypes
<1>2. UpdPlaces'
  BY DEF BinInv, UpdPlaces, Same
<1>3. Targets'
  BY DEF BinInv, Targets, Same
<1> QED
  BY <1>1, <1>2, <1>3 DEF BinInv

\* A step between places at which no file is moved keeps BinWhole.
LEMMA Harmless ==
  ASSUME BinWhole, NEW p \in Programs,
         \A q \in Programs \ {p} : Same(q), upd'[p].pc \notin InReplacement,
         dir'.bin = dir.bin, dir'.bak = dir.bak, dir'.stage = dir.stage
  PROVE  BinWhole'
BY DEF BinWhole, InReplacement, Whole, Same

\* The end of an update, whatever becomes of the names.
LEMMA EndsFacts ==
  ASSUME BinInv, NEW p \in Programs, NEW u, EndsAs(p, u),
         DOMAIN u = Programs,
         \A q \in Programs : /\ DOMAIN u[q] = DOMAIN upd[q] /\ u[q].pc = upd[q].pc
                             /\ u[q].target = upd[q].target /\ u[q].tmp = upd[q].tmp
  PROVE  /\ at' \in [Programs -> Places] /\ DOMAIN upd' = Programs
         /\ \A q \in Programs : DOMAIN upd'[q] = DOMAIN upd[q]
         /\ \A q \in Programs \ {p} : at'[q] = at[q] /\ Same(q)
         /\ upd'[p].pc = "idle"
<1>1. /\ upd' = [u EXCEPT ![p].pc = "idle", ![p].tmp = Gone]
      /\ DOMAIN u[p] = {"pc", "version", "path", "target", "tmp"}
  BY DEF EndsAs, BinInv, UpdTypes
<1>2. \A q \in Programs \ {p} : upd'[q] = u[q]
  BY <1>1
<1>3. DOMAIN upd'[p] = DOMAIN u[p] /\ upd'[p].pc = "idle"
  BY <1>1
<1>4. at' \in [Programs -> Places] /\ \A q \in Programs \ {p} : at'[q] = at[q]
  BY DEF EndsAs, Goto, BinInv, UpdTypes, Places, Saves
<1>5. DOMAIN upd' = Programs
  BY <1>1
<1> QED
  BY <1>2, <1>3, <1>4, <1>5 DEF Same

\* A step that only moves the place of the update.
LEMMA GoFacts ==
  ASSUME BinInv, NEW p \in Programs, NEW pc, NEW u,
         upd' = [u EXCEPT ![p].pc = pc], DOMAIN u = Programs,
         \A q \in Programs : /\ DOMAIN u[q] = DOMAIN upd[q] /\ u[q].pc = upd[q].pc
                             /\ u[q].target = upd[q].target /\ u[q].tmp = upd[q].tmp
  PROVE  /\ DOMAIN upd' = Programs
         /\ \A q \in Programs : DOMAIN upd'[q] = DOMAIN upd[q]
         /\ \A q \in Programs \ {p} : Same(q)
         /\ upd'[p].pc = pc /\ upd'[p].target = upd[p].target /\ upd'[p].tmp = upd[p].tmp
<1>1. DOMAIN u[p] = {"pc", "version", "path", "target", "tmp"}
  BY DEF BinInv, UpdTypes
<1>2. \A q \in Programs \ {p} : upd'[q] = u[q]
  OBVIOUS
<1> QED
  BY <1>1, <1>2 DEF Same

LEMMA RenamedGoFacts ==
  ASSUME BinInv, NEW p \in Programs, NEW pc, NEW to,
         upd' = [Renamed(to) EXCEPT ![p].pc = pc]
  PROVE  /\ DOMAIN upd' = Programs
         /\ \A q \in Programs : DOMAIN upd'[q] = DOMAIN upd[q]
         /\ \A q \in Programs \ {p} : Same(q)
         /\ upd'[p].pc = pc /\ upd'[p].target = upd[p].target /\ upd'[p].tmp = upd[p].tmp
<1> DEFINE u == Renamed(to)
<1>1. /\ DOMAIN u = Programs /\ upd' = [u EXCEPT ![p].pc = pc]
      /\ \A q \in Programs : /\ DOMAIN u[q] = DOMAIN upd[q] /\ u[q].pc = upd[q].pc
                             /\ u[q].target = upd[q].target /\ u[q].tmp = upd[q].tmp
  BY RenamedKeeps DEF BinInv
<1> HIDE DEF u
<1>2. DOMAIN u[p] = {"pc", "version", "path", "target", "tmp"}
  BY <1>1 DEF BinInv, UpdTypes
<1>3. DOMAIN upd' = Programs /\ \A q \in Programs \ {p} : upd'[q] = u[q]
  BY <1>1
<1>4. /\ DOMAIN upd'[p] = DOMAIN upd[p] /\ upd'[p].pc = pc
      /\ upd'[p].target = upd[p].target /\ upd'[p].tmp = upd[p].tmp
  BY <1>1, <1>2
<1> QED
  BY <1>1, <1>3, <1>4 DEF Same

LEMMA CheckKeepsBin ==
  ASSUME BinInv, NEW p \in Programs, NEW branch, Check(p, branch), UNCHANGED <<job, plan>>
  PROVE  BinInv'
<1>1. UNCHANGED <<dir, out, overlapped>> /\ UpdTypes
  BY DEF Check, BinInv
<1>2. CASE Choice(p, branch) = {} /\ Ends(p)
  BY <1>1, <1>2, EndsFacts, BinStep, Harmless DEF Ends, BinInv, UpdTypes, InReplacement
<1>3. ASSUME NEW r \in Choice(p, branch), UNCHANGED at,
             upd' = [upd EXCEPT ![p].target = r,
                               ![p].pc = IF job[p] = "serve" THEN "notify" ELSE "download"]
      PROVE  BinInv'
  <2>1. r \in 1..out.published
    BY <1>3 DEF Choice, StableChoice, OtherChoice
  <2>2. out.published <= Len(Kinds) /\ Len(Kinds) \in Nat
    BY UpdaterAssumption, ProgramsAssumption DEF BinInv, Targets, UpdTypes
  <2>3. r \in Releases
    BY <2>1, <2>2 DEF Releases, BinInv, Targets
  <2>4. \/ job[p] = "serve" /\ at[p] = "running"
        \/ job[p] = "update" /\ at[p] = "loaded"
    <3>1. at[p] # "none"
      BY DEF BinInv, UpdTypes, Places, Saves
    <3> QED
      BY <3>1 DEF Check
  <2>5. DOMAIN upd[p] = {"pc", "version", "path", "target", "tmp"} /\ p \in DOMAIN upd
    BY <1>1 DEF UpdTypes
  <2>6. /\ upd'[p].pc \in {"notify", "download"} /\ upd'[p].target = r
        /\ DOMAIN upd'[p] = DOMAIN upd[p]
    BY <1>3, <2>5
  <2>7. DOMAIN upd' = Programs /\ \A q \in Programs \ {p} : upd'[q] = upd[q]
    BY <1>1, <1>3 DEF UpdTypes
  <2> QED
    BY <1>1, <1>3, <2>3, <2>4, <2>6, <2>7, BinStep, Harmless DEF BinInv, UpdTypes, Same, InReplacement
<1> QED
  BY <1>2, <1>3 DEF Check

LEMMA NotifyKeepsBin ==
  ASSUME BinInv, NEW p \in Programs, Notify(p), UNCHANGED <<job, plan>>
  PROVE  BinInv'
<1>1. PICK pc \in {"record", "download", "idle"} : UpdGo(p, pc)
  BY DEF Notify, AfterNotice
<1>2. UNCHANGED <<at, dir, out, overlapped>> /\ upd[p].pc = "notify"
  BY DEF Notify, UpdAt
<1> QED
  BY <1>1, <1>2, GoFacts, BinStep, Harmless
  DEF UpdGo, BinInv, UpdTypes, Targets, InReplacement

LEMMA RecordKeepsBin ==
  ASSUME BinInv, NEW p \in Programs, Record(p), UNCHANGED plan
  PROVE  BinInv'
<1>1. PICK pc \in {"download", "idle"} : UpdGo(p, pc)
  BY DEF Record, AfterNotice
<1>2. UNCHANGED <<at, job, out, overlapped>> /\ upd[p].pc = "record"
  BY DEF Record, UpdAt
<1>3. /\ DOMAIN dir' = DOMAIN dir
      /\ dir'.bin = dir.bin /\ dir'.bak = dir.bak /\ dir'.stage = dir.stage
  BY DEF Record, BinInv, UpdTypes
<1> QED
  BY <1>1, <1>2, <1>3, GoFacts, BinStep, Harmless
  DEF UpdGo, BinInv, UpdTypes, Targets, InReplacement

\* What downloadVerified leaves is the release that was asked for.
LEMMA DownloadKeepsBin ==
  ASSUME BinInv, NEW p \in Programs, Download(p), UNCHANGED plan
  PROVE  BinInv'
<1>1. UNCHANGED <<job, dir, out, overlapped>> /\ upd[p].pc = "download"
  BY DEF Download, UpdAt
<1>2. CASE Ends(p)
  BY <1>1, <1>2, EndsFacts, BinStep, Harmless DEF Ends, BinInv, UpdTypes, InReplacement
<1>3. CASE /\ upd' = [upd EXCEPT ![p].pc = "rename", ![p].tmp = upd[p].target]
           /\ UNCHANGED at
  <2>1. DOMAIN upd[p] = {"pc", "version", "path", "target", "tmp"} /\ p \in DOMAIN upd
    BY DEF BinInv, UpdTypes
  <2>2. /\ upd'[p].pc = "rename" /\ upd'[p].target = upd[p].target
        /\ upd'[p].tmp = upd[p].target /\ DOMAIN upd'[p] = DOMAIN upd[p]
    BY <1>3, <2>1
  <2>3. DOMAIN upd' = Programs /\ \A q \in Programs \ {p} : upd'[q] = upd[q]
    BY <1>3 DEF BinInv, UpdTypes
  <2> QED
    BY <1>1, <1>3, <2>2, <2>3, BinStep, Harmless
    DEF BinInv, UpdTypes, Targets, Same, InReplacement
<1> QED
  BY <1>2, <1>3 DEF Download

\* The rename over the binary.
LEMMA ReplaceKeepsBin ==
  ASSUME BinInv, NEW p \in Programs, Replace(p), UNCHANGED plan
  PROVE  BinInv'
<1>1. /\ UNCHANGED <<job, out, overlapped>> /\ upd[p].pc = "rename"
      /\ upd[p].tmp \in Releases /\ upd[p].target \in Releases
  BY DEF Replace, UpdAt, BinInv, Targets
<1>2. /\ DOMAIN dir' = DOMAIN dir
      /\ dir'.bin = upd[p].tmp /\ dir'.bak = dir.bak /\ dir'.stage = dir.stage
  BY DEF Replace, BinInv, UpdTypes
<1>3. ASSUME DOMAIN upd' = Programs, \A q \in Programs \ {p} : Same(q),
             upd'[p].pc \in {"done", "idle"}
      PROVE  BinWhole => BinWhole'
  BY <1>1, <1>2, <1>3, FilesDiffer DEF BinWhole, Same, InReplacement, Whole
<1>4. CASE UpdGo(p, "done") /\ UNCHANGED at
  <2>1. /\ DOMAIN upd' = Programs /\ \A q \in Programs : DOMAIN upd'[q] = DOMAIN upd[q]
        /\ \A q \in Programs \ {p} : Same(q)
        /\ upd'[p].pc = "done" /\ upd'[p].target = upd[p].target
    BY <1>4, GoFacts DEF UpdGo, BinInv, UpdTypes
  <2> QED
    BY <1>1, <1>2, <1>3, <1>4, <2>1, BinStep DEF BinInv, UpdTypes
<1>5. CASE Ends(p)
  <2>1. /\ at' \in [Programs -> Places] /\ DOMAIN upd' = Programs
        /\ \A q \in Programs : DOMAIN upd'[q] = DOMAIN upd[q]
        /\ \A q \in Programs \ {p} : at'[q] = at[q] /\ Same(q)
        /\ upd'[p].pc = "idle"
    BY <1>5, EndsFacts DEF Ends, BinInv, UpdTypes
  <2> QED
    BY <1>1, <1>2, <1>3, <2>1, BinStep DEF BinInv
<1> QED
  BY <1>4, <1>5 DEF Replace

\* The end of a task or a command at which no file moves.
LEMMA EndsKeepsBin ==
  ASSUME BinInv, NEW p \in Programs, Ends(p), UNCHANGED <<job, plan, dir, out, overlapped>>
  PROVE  BinInv'
BY EndsFacts, BinStep, Harmless DEF Ends, BinInv, UpdTypes, InReplacement

\* Opening the stage: whoever is behind it would have been noticed.
LEMMA StageOpenKeepsBin ==
  ASSUME BinInv, NEW p \in Programs, StageOpen(p), UNCHANGED <<job, plan>>
  PROVE  BinInv'
<1>1. UpdTypes /\ UpdPlaces /\ Targets /\ (~overlapped => BinWhole)
  BY DEF BinInv
<1>2. UNCHANGED <<at, out>> /\ upd[p].pc = "rename" /\ dir.bin # Gone
      /\ upd[p].tmp \in Releases
      /\ overlapped' = (overlapped \/ \E q \in Programs \ {p} : Replacing(q))
  BY <1>1 DEF StageOpen, UpdAt, Targets
<1>3. /\ DOMAIN dir' = DOMAIN dir
      /\ dir'.bin = dir.bin /\ dir'.bak = dir.bak
  BY <1>1 DEF StageOpen, UpdTypes
<1>4. upd' = [upd EXCEPT ![p].pc = "copying"]
  BY <1>2 DEF StageOpen, UpdGo
<1>5. /\ DOMAIN upd' = Programs /\ \A q \in Programs : DOMAIN upd'[q] = DOMAIN upd[q]
      /\ \A q \in Programs \ {p} : Same(q)
      /\ upd'[p].pc = "copying" /\ upd'[p].target = upd[p].target /\ upd'[p].tmp = upd[p].tmp
  BY <1>1, <1>4, GoFacts DEF UpdTypes
<1>6. ~overlapped' => ~overlapped /\ BinWhole'
  <2> SUFFICES ASSUME ~overlapped' PROVE ~overlapped /\ BinWhole'
    OBVIOUS
  <2>1. ~overlapped /\ \A q \in Programs \ {p} : ~Replacing(q)
    BY <1>2
  <2>2. \A q \in Programs : upd[q].pc # "idle" => Up(q)
    BY <1>1 DEF UpdPlaces, Up
  <2>3. \A q \in Programs \ {p} : upd[q].pc \notin InReplacement
    BY <2>1, <2>2 DEF Replacing, InReplacement
  <2>4. Whole(dir.bin) /\ dir.bin # Partial
    BY <1>1, <1>2, <2>1 DEF BinWhole, Whole
  <2> QED
    BY <1>3, <1>5, <2>1, <2>3, <2>4 DEF BinWhole, Same, InReplacement, Whole
<1> QED
  BY <1>1, <1>2, <1>3, <1>5, <1>6, BinStep DEF UpdTypes, Targets

\* The complete copy on the stage.
LEMMA StageFillKeepsBin ==
  ASSUME BinInv, NEW p \in Programs, StageFill(p), UNCHANGED <<job, plan>>
  PROVE  BinInv'
<1>1. UpdTypes /\ UpdPlaces /\ Targets /\ (~overlapped => BinWhole)
  BY DEF BinInv
<1>2. UNCHANGED <<at, out, overlapped>> /\ upd[p].pc = "copying" /\ upd[p].tmp \in Releases
  BY <1>1 DEF StageFill, UpdAt, Targets
<1>3. /\ DOMAIN dir' = DOMAIN dir
      /\ dir'.bin = dir.bin /\ dir'.bak = dir.bak /\ dir'.stage \in {Gone, upd[p].tmp}
  BY <1>1 DEF StageFill, UpdTypes
<1>4. upd' = [upd EXCEPT ![p].pc = "backup"]
  BY <1>2 DEF StageFill, UpdGo
<1>5. /\ DOMAIN upd' = Programs /\ \A q \in Programs : DOMAIN upd'[q] = DOMAIN upd[q]
      /\ \A q \in Programs \ {p} : Same(q)
      /\ upd'[p].pc = "backup" /\ upd'[p].target = upd[p].target /\ upd'[p].tmp = upd[p].tmp
  BY <1>1, <1>4, GoFacts DEF UpdTypes
<1>6. ~overlapped' => ~overlapped /\ BinWhole'
  BY <1>1, <1>2, <1>3, <1>5, FilesDiffer
  DEF BinWhole, Same, InReplacement, Whole
<1> QED
  BY <1>1, <1>2, <1>3, <1>5, <1>6, BinStep DEF UpdTypes, Targets

\* The stage over the binary.
LEMMA SwapKeepsBin ==
  ASSUME BinInv, NEW p \in Programs, Swap(p), UNCHANGED <<job, plan>>
  PROVE  BinInv'
<1>1. UpdTypes /\ UpdPlaces /\ Targets /\ (~overlapped => BinWhole)
  BY DEF BinInv
<1>2. UNCHANGED <<at, out, overlapped>> /\ upd[p].pc = "swap" /\ dir.stage # Gone
  BY <1>1 DEF Swap, UpdAt, Targets
<1>3. /\ DOMAIN dir' = DOMAIN dir
      /\ dir'.bin = dir.stage /\ dir'.bak = dir.bak /\ dir'.stage = Gone
  BY <1>1 DEF Swap, UpdTypes
<1>4. upd' = [upd EXCEPT ![p].pc = "cleanup"]
  BY <1>2 DEF Swap, UpdGo
<1>5. /\ DOMAIN upd' = Programs /\ \A q \in Programs : DOMAIN upd'[q] = DOMAIN upd[q]
      /\ \A q \in Programs \ {p} : Same(q)
      /\ upd'[p].pc = "cleanup" /\ upd'[p].target = upd[p].target /\ upd'[p].tmp = upd[p].tmp
  BY <1>1, <1>4, GoFacts DEF UpdTypes
<1>6. ~overlapped' => ~overlapped /\ BinWhole'
  BY <1>1, <1>2, <1>3, <1>5, FilesDiffer
  DEF BinWhole, Same, InReplacement, Whole
<1> QED
  BY <1>1, <1>2, <1>3, <1>5, <1>6, BinStep DEF UpdTypes, Targets

\* The end of a replacement: the binary is whole before the backup goes.
LEMMA RemoveBackupKeepsBin ==
  ASSUME BinInv, NEW p \in Programs, RemoveBackup(p), UNCHANGED <<job, plan>>
  PROVE  BinInv'
<1>1. UpdTypes /\ UpdPlaces /\ Targets /\ (~overlapped => BinWhole)
  BY DEF BinInv
<1>2. UNCHANGED <<at, out, overlapped>> /\ upd[p].pc = "cleanup"
  BY <1>1 DEF RemoveBackup, UpdAt, Targets
<1>3. /\ DOMAIN dir' = DOMAIN dir
      /\ dir'.bin = dir.bin /\ dir'.bak = Gone /\ dir'.stage = dir.stage
  BY <1>1 DEF RemoveBackup, UpdTypes
<1>4. upd' = [Renamed([bak |-> "lost"]) EXCEPT ![p].pc = "done"]
  BY <1>2 DEF RemoveBackup, UpdGo, BackupGone
<1>5. /\ DOMAIN upd' = Programs /\ \A q \in Programs : DOMAIN upd'[q] = DOMAIN upd[q]
      /\ \A q \in Programs \ {p} : Same(q)
      /\ upd'[p].pc = "done" /\ upd'[p].target = upd[p].target /\ upd'[p].tmp = upd[p].tmp
  BY <1>1, <1>4, RenamedGoFacts
<1>6. ~overlapped' => ~overlapped /\ BinWhole'
  BY <1>1, <1>2, <1>3, <1>5, FilesDiffer
  DEF BinWhole, Same, InReplacement, Whole
<1> QED
  BY <1>1, <1>2, <1>3, <1>5, <1>6, BinStep DEF UpdTypes, Targets

\* A server whose image is the backup installs over the backup.
LEMMA ReplaceBackupKeepsBin ==
  ASSUME BinInv, NEW p \in Programs, ReplaceBackup(p), UNCHANGED <<job, plan>>
  PROVE  BinInv'
<1>1. UpdTypes /\ UpdPlaces /\ Targets /\ (~overlapped => BinWhole)
  BY DEF BinInv
<1>2. UNCHANGED <<at, out, overlapped>> /\ upd[p].pc = "rename" /\ upd[p].tmp \in Releases
  BY <1>1 DEF ReplaceBackup, UpdAt, Targets
<1>3. /\ DOMAIN dir' = DOMAIN dir
      /\ dir'.bin = dir.bin /\ dir'.bak = upd[p].tmp /\ dir'.stage = dir.stage
  BY <1>1 DEF ReplaceBackup, UpdTypes
<1>4. upd' = [Renamed([bak |-> "lost"]) EXCEPT ![p].pc = "done"]
  BY <1>2 DEF ReplaceBackup, UpdGo, BackupGone
<1>5. /\ DOMAIN upd' = Programs /\ \A q \in Programs : DOMAIN upd'[q] = DOMAIN upd[q]
      /\ \A q \in Programs \ {p} : Same(q)
      /\ upd'[p].pc = "done" /\ upd'[p].target = upd[p].target /\ upd'[p].tmp = upd[p].tmp
  BY <1>1, <1>4, RenamedGoFacts
<1>6. ~overlapped' => ~overlapped /\ BinWhole'
  BY <1>1, <1>2, <1>3, <1>5, FilesDiffer
  DEF BinWhole, Same, InReplacement, Whole
<1> QED
  BY <1>1, <1>2, <1>3, <1>5, <1>6, BinStep DEF UpdTypes, Targets

\* A copy that fails takes the stage with it.
LEMMA StageFailsKeepsBin ==
  ASSUME BinInv, NEW p \in Programs, StageFails(p), UNCHANGED plan
  PROVE  BinInv'
<1>1. UpdTypes /\ (~overlapped => BinWhole)
  BY DEF BinInv
<1>2. /\ UNCHANGED <<job, out, overlapped>> /\ Ends(p)
      /\ DOMAIN dir' = DOMAIN dir
      /\ dir'.bin = dir.bin /\ dir'.bak = dir.bak /\ dir'.stage = Gone
  BY <1>1 DEF StageFails, UpdTypes
<1>3. /\ at' \in [Programs -> Places] /\ DOMAIN upd' = Programs
      /\ \A q \in Programs : DOMAIN upd'[q] = DOMAIN upd[q]
      /\ \A q \in Programs \ {p} : at'[q] = at[q] /\ Same(q)
      /\ upd'[p].pc = "idle"
  BY <1>1, <1>2, EndsFacts DEF Ends, UpdTypes
<1>4. BinWhole => BinWhole'
  BY <1>2, <1>3, FilesDiffer DEF BinWhole, Same, InReplacement, Whole
<1> QED
  BY <1>1, <1>2, <1>3, <1>4, BinStep

\* The old binary steps aside, whole, and stays at .bak until the new one is there.
LEMMA MoveAsideKeepsBin ==
  ASSUME BinInv, NEW p \in Programs, MoveAside(p), UNCHANGED <<job, plan>>
  PROVE  BinInv'
<1>1. UpdTypes /\ UpdPlaces /\ Targets /\ (~overlapped => BinWhole)
  BY DEF BinInv
<1>2. UNCHANGED <<out, overlapped>> /\ upd[p].pc = "backup"
  BY DEF MoveAside, UpdAt
<1>3. /\ upd' = [Renamed([bin |-> "bak", bak |-> "lost"]) EXCEPT ![p].pc = "swap"]
      /\ UNCHANGED at /\ DOMAIN dir' = DOMAIN dir
      /\ dir'.bin = Gone /\ dir'.bak = dir.bin /\ dir'.stage = dir.stage
  BY <1>1 DEF MoveAside, UpdTypes
<1>4. /\ DOMAIN upd' = Programs /\ \A q \in Programs : DOMAIN upd'[q] = DOMAIN upd[q]
      /\ \A q \in Programs \ {p} : Same(q)
      /\ upd'[p].pc = "swap" /\ upd'[p].target = upd[p].target
  BY <1>1, <1>3, RenamedGoFacts
<1>5. ~overlapped => BinWhole'
  BY <1>1, <1>2, <1>3, <1>4, FilesDiffer DEF BinWhole, Same, InReplacement, Whole
<1> QED
  BY <1>1, <1>2, <1>3, <1>4, <1>5, BinStep DEF UpdTypes, Targets

\* Where it cannot, the binary stays; only an older backup has gone.
LEMMA MoveAsideFailsKeepsBin ==
  ASSUME BinInv, NEW p \in Programs, MoveAsideFails(p), UNCHANGED plan
  PROVE  BinInv'
<1>1. UpdTypes /\ (~overlapped => BinWhole)
  BY DEF BinInv
<1>2. /\ UNCHANGED <<job, out, overlapped>> /\ EndsAs(p, Renamed([bak |-> "lost"]))
      /\ upd[p].pc = "backup" /\ DOMAIN dir' = DOMAIN dir
      /\ dir'.bin = dir.bin /\ dir'.bak = Gone /\ dir'.stage = Gone
  BY <1>1 DEF MoveAsideFails, UpdAt, UpdTypes, BackupGone
<1>3. /\ at' \in [Programs -> Places] /\ DOMAIN upd' = Programs
      /\ \A q \in Programs : DOMAIN upd'[q] = DOMAIN upd[q]
      /\ \A q \in Programs \ {p} : at'[q] = at[q] /\ Same(q)
      /\ upd'[p].pc = "idle"
  BY <1>1, <1>2, EndsFacts, RenamedKeeps
<1>4. BinWhole => BinWhole'
  BY <1>2, <1>3, FilesDiffer DEF BinWhole, Same, InReplacement, Whole
<1> QED
  BY <1>1, <1>2, <1>3, <1>4, BinStep

\* The roll-back finds the backup that the step aside left.
LEMMA SwapFailsKeepsBin ==
  ASSUME BinInv, NEW p \in Programs, SwapFails(p), UNCHANGED plan
  PROVE  BinInv'
<1>1. UpdTypes /\ (~overlapped => BinWhole)
  BY DEF BinInv
<1>2. /\ UNCHANGED <<job, out, overlapped>> /\ EndsAs(p, Renamed([bak |-> "bin"]))
      /\ upd[p].pc = "swap" /\ DOMAIN dir' = DOMAIN dir
      /\ dir'.bin = IF dir.bak # Gone THEN dir.bak ELSE dir.bin
      /\ dir'.bak = Gone /\ dir'.stage = Gone
  BY <1>1 DEF SwapFails, SwapCannot, UpdAt, UpdTypes
<1>3. /\ at' \in [Programs -> Places] /\ DOMAIN upd' = Programs
      /\ \A q \in Programs : DOMAIN upd'[q] = DOMAIN upd[q]
      /\ \A q \in Programs \ {p} : at'[q] = at[q] /\ Same(q)
      /\ upd'[p].pc = "idle"
  BY <1>1, <1>2, EndsFacts, RenamedKeeps
<1>4. BinWhole => BinWhole'
  BY <1>2, <1>3, FilesDiffer DEF BinWhole, Same, InReplacement, Whole
<1> QED
  BY <1>1, <1>2, <1>3, <1>4, BinStep

\* A restart of the server's process by itself, with the image it installed.
LEMMA RestartKeepsBin ==
  ASSUME BinInv, NEW p \in Programs, Restart(p), UNCHANGED plan
  PROVE  BinInv'
<1>1. UpdTypes /\ (~overlapped => BinWhole)
  BY DEF BinInv
<1>2. /\ UNCHANGED <<job, dir, out, overlapped>>
      /\ upd' = [upd EXCEPT ![p] = [upd[p] EXCEPT !.pc = "idle", !.tmp = Gone,
                                                  !.version = Image(p)]]
      /\ at' = [at EXCEPT ![p] = "load"]
  BY DEF Restart, RestartSelf, Goto
<1>3. /\ at' \in [Programs -> Places] /\ \A q \in Programs \ {p} : at'[q] = at[q]
  BY <1>1, <1>2 DEF UpdTypes, Places
<1>4. /\ DOMAIN upd' = Programs /\ \A q \in Programs \ {p} : upd'[q] = upd[q]
      /\ DOMAIN upd'[p] = DOMAIN upd[p] /\ upd'[p].pc = "idle"
  BY <1>1, <1>2 DEF UpdTypes
<1> QED
  BY <1>1, <1>2, <1>3, <1>4, BinStep, Harmless DEF Same, InReplacement

\* Where a step takes a program.
Moves(p, from, to) ==
  at' = at \/ (at[p] \in from /\ \E place \in to : at' = [at EXCEPT ![p] = place])

\* Where the steps of ConfigStore lead.
Configured == Saves \cup {"loaded", "exit", "running"}

LEMMA ConfigMoves ==
  ASSUME NEW p \in Programs, ConfigStep(p), p \in open => at[p] \in Saves
  PROVE  /\ \/ Moves(p, {"load", "email"} \cup Saves, Configured)
            \/ job[p] \in {"mode", "branch", "reset"} /\ Moves(p, {"loaded"}, Configured)
         /\ UNCHANGED <<job, ops, adminVars, certVars, updVars>>
<1> DEFINE From == {"load", "email"} \cup Saves
<1>1. CASE LoadMissing(p) \/ LoadFile(p) \/ LoadEmpty(p) \/ LoadFails(p)
  <2>1. at[p] = "load" /\ \E place \in Configured : at' = [at EXCEPT ![p] = place]
    BY <1>1 DEF LoadMissing, LoadFile, LoadEmpty, LoadFails, LoadDone, Goto, Configured, Saves
  <2> QED
    BY <1>1, <2>1 DEF Moves, ConfigStep, SaveFails, LoadMissing, LoadFile, LoadEmpty, LoadFails
<1>2. CASE Truncate(p)
  BY <1>2 DEF Moves, Truncate, ConfigStep, SaveFails
<1>3. CASE Fill(p) \/ SaveFails(p)
  <2>1. at[p] \in Saves /\ \E place \in Configured : at' = [at EXCEPT ![p] = place]
    BY <1>3 DEF Fill, SaveFails, Goto, After, Configured, Saves
  <2> QED
    BY <1>3, <2>1 DEF Moves, ConfigStep, SaveFails
<1>4. CASE Command(p)
  <2>1. /\ job[p] \in {"mode", "branch", "reset"} /\ at[p] = "loaded"
        /\ \E place \in Configured : at' = [at EXCEPT ![p] = place]
    BY <1>4 DEF Command, Goto, Configured, Saves
  <2> QED
    BY <1>4, <2>1 DEF Moves, ConfigStep, SaveFails
<1>5. CASE DetectSMTP(p)
  <2>1. at[p] = "email" /\ \E place \in Configured : at' = [at EXCEPT ![p] = place]
    BY <1>5 DEF DetectSMTP, Goto, Configured, Saves
  <2> QED
    BY <1>5, <2>1 DEF Moves, ConfigStep, SaveFails
<1> QED
  BY <1>1, <1>2, <1>3, <1>4, <1>5 DEF ConfigStep

LEMMA AdminMoves ==
  ASSUME NEW p \in Programs, AdminStep(p)
  PROVE  /\ Moves(p, {"migrate", "has", "insert", "print"},
                     {"has", "insert", "print", "pid", "exit"})
         /\ UNCHANGED <<job, ops, configVars, certVars, updVars>>
<1>1. CASE InitDatabase(p) \/ SetCredentials(p) \/ ShowCredentials(p)
  BY <1>1 DEF AdminStep, InitFails, HasCredentials, Moves, Goto,
              InitDatabase, SetCredentials, ShowCredentials
<1>2. CASE InitFails(p) \/ HasCredentials(p)
  BY <1>2 DEF AdminStep, InitFails, HasCredentials, Moves, Goto
<1> QED
  BY <1>1, <1>2 DEF AdminStep

LEMMA UpdateMoves ==
  ASSUME UpdTypes, UpdPlaces, NEW p \in Programs, UpdateStep(p)
  PROVE  /\ Moves(p, {"loaded"}, {"exit"})
         /\ UNCHANGED <<job, ops, configVars, adminVars, certVars>>
<1>0. SUFFICES Moves(p, {"loaded"}, {"exit"})
  BY DEF UpdateStep, Record, Download, Replace, StageFails, MoveAsideFails, SwapFails
<1>1. ASSUME NEW u, EndsAs(p, u), upd[p].pc # "idle"
      PROVE  Moves(p, {"loaded"}, {"exit"})
  BY <1>1 DEF EndsAs, Goto, Moves, UpdPlaces
<1>2. CASE Check(p, mem[p]["branch"])
  <2>1. CASE UNCHANGED at
    BY <2>1 DEF Moves
  <2>2. CASE Ends(p)
    <3>1. at[p] # "none"
      BY DEF UpdTypes, Places, Saves
    <3>2. job[p] = "serve" \/ at[p] = "loaded"
      BY <1>2, <3>1 DEF Check
    <3> QED
      BY <1>2, <2>2, <3>2 DEF Ends, EndsAs, Goto, Moves
  <2> QED
    BY <1>2, <2>1, <2>2 DEF Check
<1>3. CASE Notify(p) \/ ReplaceBackup(p) \/ StageOpen(p) \/ StageFill(p) \/ MoveAside(p)
            \/ Swap(p) \/ RemoveBackup(p) \/ Record(p)
  BY <1>3 DEF Notify, ReplaceBackup, StageOpen, StageFill, MoveAside, Swap, RemoveBackup,
              Record, Moves
<1>4. CASE \/ NothingToReplace(p) \/ Installed(p) \/ StageFails(p) \/ SwapFails(p)
           \/ MoveAsideFails(p)
  BY <1>1, <1>4 DEF NothingToReplace, Installed, StageFails, SwapFails, SwapCannot,
                    MoveAsideFails, Ends, UpdAt
<1>5. CASE Replace(p) \/ Download(p)
  BY <1>1, <1>5 DEF Replace, Download, Ends, UpdAt, Moves
<1> QED
  BY <1>2, <1>3, <1>4, <1>5 DEF UpdateStep

LEMMA UpdateKeepsBin ==
  ASSUME BinInv, NEW p \in Programs, UpdateStep(p), UNCHANGED plan
  PROVE  BinInv'
<1>1. UNCHANGED job
  BY UpdateMoves DEF BinInv
<1>2. CASE NothingToReplace(p)
  BY <1>1, <1>2, EndsKeepsBin DEF NothingToReplace
<1>3. CASE Installed(p)
  BY <1>1, <1>3, EndsKeepsBin DEF Installed
<1> QED
  BY <1>1, <1>2, <1>3, CheckKeepsBin, NotifyKeepsBin, RecordKeepsBin, DownloadKeepsBin,
     ReplaceKeepsBin, ReplaceBackupKeepsBin, StageOpenKeepsBin, StageFillKeepsBin,
     StageFailsKeepsBin, MoveAsideKeepsBin, MoveAsideFailsKeepsBin, SwapKeepsBin,
     SwapFailsKeepsBin, RemoveBackupKeepsBin DEF UpdateStep

\* A move that no update runs at.
LEMMA MoveKeepsBin ==
  ASSUME BinInv, NEW p \in Programs, NEW from, NEW to, Moves(p, from, to),
         to \subseteq Places, UNCHANGED <<plan, job, updVars>>,
         at[p] \in from => upd[p].pc = "idle"
  PROVE  BinInv'
<1>1. at' \in [Programs -> Places]
  BY DEF Moves, BinInv, UpdTypes
<1>2. \A q \in Programs : upd[q].pc = "idle" \/ (at'[q] = at[q] /\ job'[q] = job[q])
  BY DEF Moves, BinInv, UpdTypes
<1> QED
  BY <1>1, <1>2, BinQuiet DEF BinInv, UpdTypes

\* A process that starts, with the binary that is there, or ends.
LEMMA LaunchKeepsBin ==
  ASSUME BinInv, NEW p \in Programs, NEW j, Launch(p, j), UNCHANGED plan
  PROVE  BinInv'
<1>1. UpdTypes /\ UpdPlaces /\ upd[p].pc = "idle"
  BY DEF Launch, BinInv, UpdPlaces
<1>2. /\ UNCHANGED <<dir, out, overlapped>>
      /\ at' = [at EXCEPT ![p] = "load"] /\ job' = [job EXCEPT ![p] = j]
      /\ upd' = [upd EXCEPT ![p].version = dir.bin, ![p].path = "bin"]
  BY DEF Launch, Loaded, Goto
<1>3. /\ DOMAIN upd' = Programs /\ \A q \in Programs \ {p} : upd'[q] = upd[q]
      /\ DOMAIN upd'[p] = DOMAIN upd[p] /\ upd'[p].pc = "idle"
  BY <1>1, <1>2 DEF UpdTypes
<1>4. UpdTypes'
  BY <1>1, <1>2, <1>3 DEF UpdTypes, Places, Saves
<1>5. UpdPlaces'
  BY <1>1, <1>2, <1>3 DEF UpdPlaces, UpdTypes
<1>6. Targets'
  BY <1>2, <1>3 DEF BinInv, Targets
<1>7. BinWhole => BinWhole'
  BY <1>2, <1>3 DEF BinWhole, InReplacement, Whole
<1> QED
  BY <1>2, <1>4, <1>5, <1>6, <1>7 DEF BinInv

LEMMA DeadKeepsBin ==
  ASSUME BinInv, NEW p \in Programs, Goto(p, "down"), Interrupted(p),
         UNCHANGED <<plan, job, dir, out, overlapped>>
  PROVE  BinInv'
<1>1. UpdTypes
  BY DEF BinInv
<1>2. /\ UNCHANGED <<job, dir, out, overlapped>>
      /\ at' = [at EXCEPT ![p] = "down"]
      /\ upd' = [upd EXCEPT ![p].pc = "idle", ![p].tmp = Gone]
  BY DEF Goto, Interrupted
<1>3. /\ DOMAIN upd' = Programs /\ \A q \in Programs \ {p} : upd'[q] = upd[q]
      /\ DOMAIN upd'[p] = DOMAIN upd[p] /\ upd'[p].pc = "idle"
  BY <1>1, <1>2 DEF UpdTypes
<1>4. /\ at' \in [Programs -> Places] /\ \A q \in Programs \ {p} : at'[q] = at[q]
  BY <1>1, <1>2 DEF UpdTypes, Places
<1> QED
  BY <1>1, <1>2, <1>3, <1>4, BinStep, Harmless DEF BinInv, Same, InReplacement

LEMMA WorldKeepsBin ==
  ASSUME BinInv, World, UNCHANGED plan
  PROVE  BinInv'
<1>1. UNCHANGED <<at, job>>
  BY DEF World, control
<1>2. CASE Publish \/ Age
  <2>1. /\ UNCHANGED <<dir, upd, overlapped>> /\ DOMAIN out' = DOMAIN out
        /\ \/ out'.published = out.published
           \/ out.published < plan.releases /\ out'.published = out.published + 1
    BY <1>2 DEF Publish, Age, BinInv, UpdTypes
  <2>2. Targets'
    BY <2>1, ProgramsAssumption DEF BinInv, Targets, UpdTypes
  <2> QED
    BY <1>1, <2>1, <2>2 DEF BinInv, UpdTypes, UpdPlaces, BinWhole, Whole
<1>3. CASE UNCHANGED updVars
  BY <1>1, <1>3, BinQuiet DEF BinInv, UpdTypes
<1> QED
  BY <1>2, <1>3 DEF World

(***************************************************************************)
(* The credentials.                                                        *)
(***************************************************************************)
\* The row that is looked at was made by one program, which holds its password
\* in clear until it has shown it or died.
FirstRow ==
  /\ rows \in Seq(Nat) /\ (rows # <<>> => rows[1] = 1)
  /\ \A p \in Programs : made[p] # 0 => at[p] = "print"
  /\ rows # <<>> /\ ~unseen => 1 \in printed \/ \E p \in Programs : made[p] = 1

\* Unless there were two, there is one first start at a time and one row.
OneFirstRow ==
  /\ rows \in {<<>>, <<1>>}
  /\ printed \subseteq {1}
  /\ rows = <<>> => printed = {}
  /\ \A p \in Programs :
       /\ at[p] = "insert" => rows = <<>>
       /\ at[p] = "print" => rows = <<1>>
       /\ made[p] = IF at[p] = "print" THEN 1 ELSE 0
  /\ \A p, q \in Programs : at[p] = "insert" /\ at[q] = "insert" => p = q

CredInv == DOMAIN made = Programs /\ FirstRow /\ (~rivals => OneFirstRow)

Asking == {"insert", "print"}

LEMMA RowsDiffer == <<>> # <<1>> /\ <<1>>[1] = 1 /\ Len(<<>>) = 0
OBVIOUS

LEMMA CredInit == Init => CredInv
<1> SUFFICES ASSUME Init PROVE CredInv
  OBVIOUS
<1>1. /\ DOMAIN made = Programs /\ \A p \in Programs : made[p] = 0 /\ at[p] = "down"
      /\ \/ rows = <<>> /\ printed = {}
         \/ rows = <<1>> /\ printed = {1}
  BY DEF Init, AdminInit, ProgramsInit
<1>2. rows \in Seq(Nat) /\ (rows # <<>> => rows[1] = 1)
  <2>1. <<>> \in Seq(Nat) /\ <<1>> \in Seq(Nat)
    OBVIOUS
  <2> QED
    BY <1>1, <2>1, RowsDiffer
<1> QED
  BY <1>1, <1>2, RowsDiffer DEF CredInv, FirstRow, OneFirstRow

LEMMA CredQuiet ==
  ASSUME CredInv, UNCHANGED adminVars,
         \A q \in Programs : at'[q] = at[q] \/ (at[q] \notin Asking /\ at'[q] \notin Asking)
  PROVE  CredInv'
<1>1. FirstRow'
  BY DEF CredInv, FirstRow, adminVars, Asking
<1>2. OneFirstRow => OneFirstRow'
  BY DEF OneFirstRow, adminVars, Asking
<1> QED
  BY <1>1, <1>2 DEF CredInv, adminVars

LEMMA CredMoves ==
  ASSUME CredInv, UpdTypes, NEW p \in Programs, NEW from, NEW to, Moves(p, from, to),
         from \cap Asking = {}, to \cap Asking = {}, UNCHANGED adminVars
  PROVE  CredInv'
<1>1. \A q \in Programs : at'[q] = at[q] \/ (at[q] \notin Asking /\ at'[q] \notin Asking)
  BY DEF Moves, UpdTypes
<1> QED
  BY <1>1, CredQuiet

LEMMA SetKeepsCred ==
  ASSUME CredInv, UpdTypes, NEW p \in Programs, SetCredentials(p)
  PROVE  CredInv'
<1>1. /\ at[p] = "insert" /\ rows' = Append(rows, Len(rows) + 1)
      /\ made' = [made EXCEPT ![p] = Len(rows) + 1]
      /\ at' = [at EXCEPT ![p] = "print"] /\ UNCHANGED <<printed, rivals, unseen>>
  BY DEF SetCredentials, Goto
<1>2. at'[p] = "print" /\ \A q \in Programs \ {p} : at'[q] = at[q]
  BY <1>1 DEF UpdTypes
<1>3. made'[p] = Len(rows) + 1 /\ \A q \in Programs \ {p} : made'[q] = made[q]
  BY <1>1 DEF CredInv
<1>4. rows \in Seq(Nat) /\ rows' \in Seq(Nat)
  BY <1>1 DEF CredInv, FirstRow
<1>5. CASE rows = <<>>
  <2>1. rows'[1] = 1 /\ made'[p] = 1
    BY <1>1, <1>3, <1>5, RowsDiffer
  <2> QED
    <3>1. FirstRow'
      BY <1>1, <1>2, <1>3, <1>4, <2>1 DEF CredInv, FirstRow
    <3>2. OneFirstRow => OneFirstRow'
      <4>1. rows' = <<1>>
        BY <1>1, <1>5, RowsDiffer
      <4> QED
        BY <1>1, <1>2, <1>3, <1>5, <2>1, <4>1, RowsDiffer DEF OneFirstRow
    <3> QED
      BY <1>1, <3>1, <3>2 DEF CredInv
<1>6. CASE rows # <<>>
  <2>1. rows'[1] = 1
    BY <1>1, <1>4, <1>6 DEF CredInv, FirstRow
  <2>2. made[p] = 0
    BY <1>1 DEF CredInv, FirstRow
  <2>3. FirstRow'
    BY <1>1, <1>2, <1>3, <1>4, <1>6, <2>1, <2>2 DEF CredInv, FirstRow
  <2> QED
    BY <1>1, <1>6, <2>3 DEF CredInv, OneFirstRow
<1> QED
  BY <1>5, <1>6

LEMMA ShowKeepsCred ==
  ASSUME CredInv, UpdTypes, NEW p \in Programs, ShowCredentials(p)
  PROVE  CredInv'
<1>1. /\ at[p] = "print" /\ printed' = printed \cup {made[p]}
      /\ made' = [made EXCEPT ![p] = 0]
      /\ at' = [at EXCEPT ![p] = "pid"] /\ UNCHANGED <<rows, rivals, unseen>>
  BY DEF ShowCredentials, Goto
<1>2. at'[p] = "pid" /\ \A q \in Programs \ {p} : at'[q] = at[q]
  BY <1>1 DEF UpdTypes
<1>3. made'[p] = 0 /\ \A q \in Programs \ {p} : made'[q] = made[q]
  BY <1>1 DEF CredInv
<1>4. FirstRow'
  BY <1>1, <1>2, <1>3 DEF CredInv, FirstRow
<1>5. OneFirstRow => OneFirstRow'
  BY <1>1, <1>2, <1>3, RowsDiffer DEF OneFirstRow
<1> QED
  BY <1>1, <1>4, <1>5 DEF CredInv

LEMMA AdminKeepsCred ==
  ASSUME CredInv, UpdTypes, NEW p \in Programs, AdminStep(p)
  PROVE  CredInv'
<1>1. CASE InitDatabase(p)
  <2>1. UNCHANGED adminVars /\ Moves(p, {"migrate"}, {"has"})
    BY <1>1 DEF InitDatabase, Goto, Moves
  <2> QED
    BY <2>1, CredMoves DEF Asking
<1>2. CASE InitFails(p)
  <2>1. /\ UNCHANGED adminVars /\ at[p] \in {"migrate", "insert"}
        /\ at' = [at EXCEPT ![p] = "exit"]
    BY <1>2 DEF InitFails, Goto
  <2>2. at'[p] = "exit" /\ \A q \in Programs \ {p} : at'[q] = at[q]
    BY <2>1 DEF UpdTypes
  <2>3. FirstRow'
    BY <2>1, <2>2 DEF CredInv, FirstRow, adminVars
  <2>4. OneFirstRow => OneFirstRow'
    BY <2>1, <2>2 DEF OneFirstRow, adminVars
  <2> QED
    BY <2>1, <2>3, <2>4 DEF CredInv, adminVars
<1>3. CASE HasCredentials(p)
  <2>1. /\ at[p] = "has" /\ UNCHANGED <<rows, made, printed, unseen>>
        /\ \/ /\ rows = <<>> /\ at' = [at EXCEPT ![p] = "insert"]
              /\ rivals' = (rivals \/ \E q \in Programs \ {p} : at[q] = "insert")
           \/ at' = [at EXCEPT ![p] = "pid"] /\ UNCHANGED rivals
    BY <1>3 DEF HasCredentials, Goto
  <2>2. CASE at' = [at EXCEPT ![p] = "pid"] /\ UNCHANGED rivals
    <3>1. UNCHANGED adminVars /\ Moves(p, {"has"}, {"pid"})
      BY <2>1, <2>2 DEF adminVars, Moves
    <3> QED
      BY <3>1, CredMoves DEF Asking
  <2>3. CASE /\ rows = <<>> /\ at' = [at EXCEPT ![p] = "insert"]
             /\ rivals' = (rivals \/ \E q \in Programs \ {p} : at[q] = "insert")
    <3>1. at'[p] = "insert" /\ \A q \in Programs \ {p} : at'[q] = at[q]
      BY <2>3 DEF UpdTypes
    <3>2. FirstRow'
      BY <2>1, <2>3, <3>1 DEF CredInv, FirstRow
    <3>3. ~rivals' => OneFirstRow'
      <4> SUFFICES ASSUME ~rivals' PROVE OneFirstRow'
        OBVIOUS
      <4>1. OneFirstRow /\ \A q \in Programs \ {p} : at[q] # "insert"
        BY <2>3 DEF CredInv
      <4>2. printed = {} /\ rows # <<1>> /\ \A q \in Programs : at[q] # "print"
        BY <2>3, <4>1, RowsDiffer DEF OneFirstRow
      <4>3. \A q \in Programs : made[q] = 0 /\ at'[q] # "print"
        BY <3>1, <4>1, <4>2 DEF OneFirstRow
      <4> QED
        BY <2>1, <2>3, <3>1, <4>1, <4>2, <4>3 DEF OneFirstRow
    <3> QED
      BY <2>1, <3>2, <3>3 DEF CredInv
  <2> QED
    BY <2>1, <2>2, <2>3
<1> QED
  BY <1>1, <1>2, <1>3, SetKeepsCred, ShowKeepsCred DEF AdminStep

\* A program that dies between the row and the screen leaves a row nobody has seen.
LEMMA CrashKeepsCred ==
  ASSUME CredInv, UpdTypes, NEW p \in Programs, Crash(p)
  PROVE  CredInv'
<1>1. /\ UNCHANGED <<rows, printed, rivals>> /\ at' = [at EXCEPT ![p] = "down"]
      /\ made' = [made EXCEPT ![p] = 0] /\ unseen' = (unseen \/ made[p] # 0)
  BY DEF Crash, Goto, Forgotten
<1>2. at'[p] = "down" /\ \A q \in Programs \ {p} : at'[q] = at[q]
  BY <1>1 DEF UpdTypes
<1>3. made'[p] = 0 /\ \A q \in Programs \ {p} : made'[q] = made[q]
  BY <1>1 DEF CredInv
<1>4. FirstRow'
  <2>1. \A q \in Programs : made'[q] # 0 => at'[q] = "print"
    BY <1>2, <1>3 DEF CredInv, FirstRow
  <2>2. ASSUME rows # <<>>, ~unseen'
        PROVE  1 \in printed \/ \E q \in Programs : made'[q] = 1
    <3>1. ~unseen /\ made[p] = 0
      BY <1>1, <2>2, Zenon
    <3> QED
      BY <1>3, <2>2, <3>1 DEF CredInv, FirstRow
  <2> QED
    BY <1>1, <2>1, <2>2 DEF CredInv, FirstRow
<1>5. OneFirstRow => OneFirstRow'
  BY <1>1, <1>2, <1>3 DEF OneFirstRow
<1> QED
  BY <1>1, <1>4, <1>5 DEF CredInv

(***************************************************************************)
(* The configuration.                                                      *)
(***************************************************************************)
ConfTypes ==
  /\ DOMAIN mem = Programs /\ DOMAIN current = Programs /\ DOMAIN said = Fields
  /\ DOMAIN outdated = Programs /\ wiped \cap Rendered = {}
  /\ \A p \in Programs : DOMAIN mem[p] = Fields
  /\ file \notin {None, Torn} => DOMAIN file = Fields

\* Only a copy that came from a file is saved, but for the one of the first run.
ConfPlaces ==
  \A p \in Programs :
    /\ p \in open => at[p] \in Saves
    /\ at[p] \in {"ported", "smtp", "command"} => current[p]
    /\ at[p] = "created" => ~current[p]
    /\ at[p] = "command" => job[p] \in {"mode", "branch", "reset"}

\* What a command is about to save, it has not acknowledged yet.
Pending(p) == IF at[p] = "command" THEN Acknowledged(p) ELSE {}

Held(p) == at[p] \notin {"down", "exit", "load"} /\ current[p]

Kept(p, f) == f \notin Pending(p) /\ f \notin outdated[p] /\ f \notin reverted

\* A copy says what was said but for what was set since it was loaded, so that
\* a save of all of it changes no setting but that and the one it is for.
CopiesAgree ==
  \A p \in Programs : Held(p) =>
    \A f \in Rendered : Kept(p, f) => Agrees(mem[p], f)

ConfInv == ConfTypes /\ ConfPlaces /\ SettingsHold /\ CopiesAgree

LEMMA FieldsAre ==
  /\ Fields = {"port", "fqdn", "mode", "branch", "ssl", "smtp", "backup"}
  /\ Rendered = {"port", "fqdn", "mode", "branch", "ssl", "smtp"}
  /\ Default["port"] = "" /\ Default["fqdn"] = ""
BY DEF Fields, Rendered, Default

LEMMA ConfInit == Init => ConfInv
<1> SUFFICES ASSUME Init PROVE ConfInv
  OBVIOUS
<1>1. /\ file # None => DOMAIN file = Fields
      /\ said = IF file = None THEN Default ELSE file
      /\ mem = [p \in Programs |-> Default] /\ current = [p \in Programs |-> FALSE]
      /\ outdated = [p \in Programs |-> {}] /\ wiped = {}
      /\ open = {} /\ at = [p \in Programs |-> "down"]
  BY ConfigAssumption DEF Init, ConfigInit, ProgramsInit
<1>2. DOMAIN Default = Fields
  BY DEF Fields
<1>3. ConfTypes
  BY <1>1, <1>2 DEF ConfTypes
<1>4. ConfPlaces
  BY <1>1 DEF ConfPlaces, Saves
<1>5. SettingsHold /\ CopiesAgree
  BY <1>1 DEF SettingsHold, CopiesAgree, Agrees, Held
<1> QED
  BY <1>3, <1>4, <1>5 DEF ConfInv

\* A step that leaves the configuration alone and moves nobody at a save.
LEMMA ConfQuiet ==
  ASSUME ConfInv, UNCHANGED configVars,
         \A q \in Programs :
           \/ at'[q] = at[q] /\ job'[q] = job[q]
           \/ /\ at[q] \notin Saves /\ at'[q] \notin Saves
              /\ \/ at'[q] \in {"down", "exit", "load"}
                 \/ at[q] \notin {"down", "exit", "load"} /\ job'[q] = job[q]
  PROVE  ConfInv'
<1> USE DEF configVars, saidHistory
<1>1. ConfTypes'
  BY DEF ConfInv, ConfTypes
<1>2. ConfPlaces'
  BY DEF ConfInv, ConfPlaces, Saves
<1>3. SettingsHold'
  BY DEF ConfInv, SettingsHold, Agrees
<1>4. CopiesAgree'
  <2> SUFFICES ASSUME NEW q \in Programs, Held(q)', NEW f \in Rendered, Kept(q, f)'
               PROVE  Agrees(mem[q], f)'
    BY DEF CopiesAgree
  <2>1. Held(q)
    BY DEF Held
  <2>2. Kept(q, f)
    BY DEF Held, Kept, Pending, Acknowledged, Saves
  <2>3. Agrees(mem[q], f)
    BY <2>1, <2>2 DEF ConfInv, CopiesAgree
  <2> QED
    BY <2>3 DEF Agrees
<1> QED
  BY <1>1, <1>2, <1>3, <1>4 DEF ConfInv

\* What is left to show of a step that loads.
LEMMA LoadKeeps ==
  ASSUME ConfInv, UpdTypes, NEW p \in Programs, at[p] = "load",
         NEW c, NEW ok \in BOOLEAN, NEW place \in {"created", "ported", "loaded", "exit"},
         LoadDone(p, c, ok, place), DOMAIN c = Fields,
         UNCHANGED <<server_yml, said, wiped, job>>, reverted \subseteq reverted',
         place = "ported" => ok, place = "created" => ~ok,
         ok => \A f \in Rendered : f \in reverted' \/ Agrees(c, f)
  PROVE  ConfInv'
<1>1. /\ mem' = [mem EXCEPT ![p] = c] /\ current' = [current EXCEPT ![p] = ok]
      /\ at' = [at EXCEPT ![p] = place] /\ outdated' = [outdated EXCEPT ![p] = {}]
      /\ UNCHANGED <<file, open>>
  BY DEF LoadDone, Goto, server_yml
<1>2. /\ mem'[p] = c /\ current'[p] = ok /\ at'[p] = place
      /\ \A q \in Programs \ {p} :
           /\ mem'[q] = mem[q] /\ current'[q] = current[q] /\ at'[q] = at[q]
           /\ outdated'[q] = outdated[q]
  BY <1>1 DEF ConfInv, ConfTypes, UpdTypes
<1>3. ConfTypes'
  BY <1>1, <1>2 DEF ConfInv, ConfTypes
<1>4. ConfPlaces'
  BY <1>1, <1>2 DEF ConfInv, ConfPlaces, Saves
<1>5. SettingsHold'
  BY <1>1 DEF ConfInv, SettingsHold, Agrees
<1>6. CopiesAgree'
  <2> SUFFICES ASSUME NEW q \in Programs, Held(q)', NEW f \in Rendered, Kept(q, f)'
               PROVE  Agrees(mem[q], f)'
    BY DEF CopiesAgree
  <2>1. CASE q = p
    BY <1>2, <2>1 DEF Held, Kept, Agrees
  <2>2. CASE q # p
    <3>1. Held(q) /\ Kept(q, f)
      BY <1>1, <1>2, <2>2 DEF Held, Kept, Pending, Acknowledged
    <3>2. Agrees(mem[q], f)
      BY <3>1 DEF ConfInv, CopiesAgree
    <3> QED
      BY <1>2, <2>2, <3>2 DEF Agrees
  <2> QED
    BY <2>1, <2>2
<1> QED
  BY <1>3, <1>4, <1>5, <1>6 DEF ConfInv

\* Load fills in nothing but what the file leaves to the program.
LEMMA ComputedAgrees ==
  ASSUME NEW c, NEW port, NEW f \in Rendered, DOMAIN c = Fields, Agrees(c, f)
  PROVE  Agrees(Ported(c, port), f) /\ Agrees(Named(c), f)
BY FieldsAre DEF Ported, Named, Agrees

LEMMA ComputedFields ==
  ASSUME NEW c, NEW port, DOMAIN c = Fields
  PROVE  DOMAIN Ported(c, port) = Fields /\ DOMAIN Named(c) = Fields
BY DEF Ported, Named

LEMMA LoadsKeepConf ==
  ASSUME ConfInv, UpdTypes, NEW p \in Programs, UNCHANGED job,
         LoadMissing(p) \/ LoadFile(p) \/ LoadEmpty(p) \/ LoadFails(p)
  PROVE  ConfInv'
<1>1. at[p] = "load" /\ UNCHANGED <<server_yml, said, wiped>>
  BY DEF LoadMissing, LoadFile, LoadEmpty, LoadFails, saidHistory
<1>2. DOMAIN Default = Fields
  BY DEF Fields
<1>3. CASE LoadMissing(p)
  <2>1. /\ UNCHANGED reverted
        /\ \E port \in Ports : LoadDone(p, Named(Ported(Default, port)), FALSE, "created")
    BY <1>3 DEF LoadMissing, saidHistory
  <2>2. PICK port \in Ports : LoadDone(p, Named(Ported(Default, port)), FALSE, "created")
    BY <2>1
  <2>3. DOMAIN Named(Ported(Default, port)) = Fields
    BY <1>2, ComputedFields
  <2> QED
    BY <1>1, <2>1, <2>2, <2>3, LoadKeeps
<1>4. CASE LoadFile(p)
  <2>1. /\ file \notin {None, Torn} /\ DOMAIN file = Fields /\ UNCHANGED reverted
        /\ \A f \in Rendered : f \in reverted \/ Agrees(file, f)
    BY <1>4, FieldsAre DEF LoadFile, saidHistory, ConfInv, ConfTypes, SettingsHold
  <2>2. \A port : \A f \in Rendered :
          f \notin reverted => Agrees(Ported(file, port), f) /\ Agrees(Named(file), f)
    <3> SUFFICES ASSUME NEW port, NEW f \in Rendered, f \notin reverted
                 PROVE  Agrees(Ported(file, port), f) /\ Agrees(Named(file), f)
      OBVIOUS
    <3> QED
      BY <2>1, ComputedAgrees
  <2>3. CASE file["port"] = ""
    <3>1. PICK port \in Ports : LoadDone(p, Ported(file, port), TRUE, "ported")
      BY <1>4, <2>3 DEF LoadFile
    <3>2. DOMAIN Ported(file, port) = Fields
      BY <2>1, ComputedFields
    <3> QED
      BY <1>1, <2>1, <2>2, <3>1, <3>2, LoadKeeps
  <2>4. CASE file["port"] # ""
    <3>1. LoadDone(p, Named(file), TRUE, "loaded")
      BY <1>4, <2>4 DEF LoadFile
    <3>2. DOMAIN Named(file) = Fields
      BY <2>1, ComputedFields
    <3> QED
      BY <1>1, <2>1, <2>2, <3>1, <3>2, LoadKeeps
  <2> QED
    BY <2>3, <2>4
<1>5. CASE LoadEmpty(p)
  <2>1. /\ reverted' = Fields
        /\ \E port \in Ports : LoadDone(p, Ported(Default, port), TRUE, "ported")
    BY <1>5 DEF LoadEmpty
  <2>2. PICK port \in Ports : LoadDone(p, Ported(Default, port), TRUE, "ported")
    BY <2>1
  <2>3. DOMAIN Ported(Default, port) = Fields
    BY <1>2, ComputedFields
  <2>4. \A f \in Rendered : f \in reverted'
    BY <2>1, FieldsAre
  <2>5. ConfTypes' /\ ConfPlaces' /\ SettingsHold' /\ CopiesAgree'
    <3>1. /\ mem' = [mem EXCEPT ![p] = Ported(Default, port)]
          /\ current' = [current EXCEPT ![p] = TRUE]
          /\ at' = [at EXCEPT ![p] = "ported"] /\ outdated' = [outdated EXCEPT ![p] = {}]
          /\ UNCHANGED <<file, open>> /\ file = Torn
      BY <1>1, <1>5, <2>2 DEF LoadDone, Goto, server_yml, LoadEmpty
    <3>2. /\ mem'[p] = Ported(Default, port) /\ current'[p] = TRUE /\ at'[p] = "ported"
          /\ \A q \in Programs \ {p} :
               mem'[q] = mem[q] /\ current'[q] = current[q] /\ at'[q] = at[q]
      BY <3>1 DEF ConfInv, ConfTypes, UpdTypes
    <3>3. ConfTypes'
      BY <1>1, <2>3, <3>1, <3>2 DEF ConfInv, ConfTypes
    <3>4. ConfPlaces'
      BY <1>1, <3>1, <3>2 DEF ConfInv, ConfPlaces, Saves
    <3>5. SettingsHold' /\ CopiesAgree'
      BY <2>4, <3>1 DEF SettingsHold, CopiesAgree, Kept
    <3> QED
      BY <3>3, <3>4, <3>5
  <2> QED
    BY <2>5 DEF ConfInv
<1>6. CASE LoadFails(p)
  <2>1. /\ LoadDone(p, Default, FALSE, "exit") \/ LoadDone(p, Default, FALSE, "loaded")
        /\ UNCHANGED reverted
    BY <1>6 DEF LoadFails, saidHistory
  <2> QED
    BY <1>1, <1>2, <2>1, LoadKeeps
<1> QED
  BY <1>3, <1>4, <1>5, <1>6

LEMMA TruncateKeepsConf ==
  ASSUME ConfInv, NEW p \in Programs, UNCHANGED job, Truncate(p)
  PROVE  ConfInv'
<1>1. /\ at[p] \in Saves /\ file' = Torn /\ open' = open \cup {p}
      /\ UNCHANGED <<at, mem, current, outdated, said, reverted, wiped>>
  BY DEF Truncate, saidHistory
<1>2. ConfTypes' /\ ConfPlaces'
  BY <1>1 DEF ConfInv, ConfTypes, ConfPlaces
<1>3. SettingsHold' /\ (CopiesAgree => CopiesAgree')
  BY <1>1 DEF SettingsHold, CopiesAgree, Agrees, Held, Kept, Pending, Acknowledged
<1> QED
  BY <1>2, <1>3 DEF ConfInv

\* What the caller goes on with is the copy that was saved, with the name.
LEMMA RepairedFacts ==
  ASSUME ConfTypes, NEW p \in Programs, mem' = Repaired(p)
  PROVE  /\ DOMAIN mem' = Programs /\ \A q \in Programs \ {p} : mem'[q] = mem[q]
         /\ mem'[p] = mem[p] \/ mem'[p] = Named(mem[p])
         /\ DOMAIN mem'[p] = Fields
<1>1. DOMAIN Named(mem[p]) = Fields
  BY ComputedFields DEF ConfTypes
<1> QED
  BY <1>1 DEF Repaired, ConfTypes

\* A save: what it acknowledges is in it, and the rest was said before, unless it
\* was set after the copy was loaded.
LEMMA FillKeepsConf ==
  ASSUME ConfInv, UpdTypes, NEW p \in Programs, UNCHANGED job, Fill(p)
  PROVE  ConfInv'
<1>1. /\ p \in open /\ at[p] \in Saves
      /\ file' \in {Written(mem[p]), Torn}
      /\ said' = [f \in Fields |-> IF f \in Acknowledged(p) THEN mem[p][f] ELSE said[f]]
      /\ reverted' = (reverted \cup outdated[p]) \ Acknowledged(p)
      /\ wiped' = Fields \ Rendered
      /\ outdated' = [q \in Programs |->
                        IF q \in Programs \ {p} /\ Up(q) /\ at[q] # "load"
                        THEN outdated[q] \cup Acknowledged(p) ELSE {}]
      /\ open' = open \ {p} /\ mem' = Repaired(p)
      /\ current' = [current EXCEPT ![p] = TRUE]
      /\ at' = [at EXCEPT ![p] = After(p)]
  BY DEF Fill, Outdate, Goto, ConfInv, ConfPlaces
<1>2. /\ DOMAIN mem' = Programs /\ \A q \in Programs \ {p} : mem'[q] = mem[q]
      /\ mem'[p] = mem[p] \/ mem'[p] = Named(mem[p])
      /\ DOMAIN mem'[p] = Fields
  BY <1>1, RepairedFacts DEF ConfInv
<1>3. /\ at'[p] \in {"loaded", "running", "exit"} /\ current'[p] = TRUE
      /\ \A q \in Programs \ {p} : at'[q] = at[q] /\ current'[q] = current[q]
  BY <1>1 DEF After, UpdTypes, ConfInv, ConfTypes
<1>4. /\ DOMAIN Written(mem[p]) = Fields
      /\ \A f \in Rendered : Written(mem[p])[f] = mem[p][f]
      /\ \A f \in Fields \ Rendered : Written(mem[p])[f] = Default[f]
  BY FieldsAre DEF Written
<1>5. ConfTypes'
  BY <1>1, <1>2, <1>3, <1>4 DEF ConfInv, ConfTypes
<1>6. ConfPlaces'
  BY <1>1, <1>3 DEF ConfInv, ConfPlaces, Saves
<1>7. \A f \in Rendered :
        \/ f \in reverted' \/ mem[p][f] = said'[f] \/ said'[f] = ""
        \/ f = "mode" /\ mem[p][f] = EnvMode
  <2> TAKE f \in Rendered
  <2>1. f \in Fields
    BY FieldsAre
  <2>2. CASE f \in Acknowledged(p)
    BY <1>1, <2>1, <2>2
  <2>3. CASE f \notin Acknowledged(p) /\ f \notin reverted'
    <3>1. Held(p) /\ Kept(p, f)
      BY <1>1, <2>3 DEF ConfInv, ConfPlaces, Held, Kept, Pending, Acknowledged, Saves
    <3>2. Agrees(mem[p], f)
      BY <3>1 DEF ConfInv, CopiesAgree
    <3> QED
      BY <1>1, <2>1, <2>3, <3>2 DEF Agrees
  <2> QED
    BY <2>2, <2>3
<1>8. SettingsHold'
  <2> SUFFICES ASSUME file' = Written(mem[p]), NEW f \in Fields
               PROVE  IF f \in wiped' THEN file'[f] = Default[f]
                      ELSE f \in reverted' \/ Agrees(file, f)'
    BY <1>1 DEF SettingsHold
  <2>1. CASE f \in Rendered
    BY <1>1, <1>4, <1>7, <2>1 DEF Agrees
  <2>2. CASE f \notin Rendered
    BY <1>1, <1>4, <2>2
  <2> QED
    BY <2>1, <2>2
<1>9. CopiesAgree'
  <2> SUFFICES ASSUME NEW q \in Programs, Held(q)', NEW f \in Rendered, Kept(q, f)'
               PROVE  Agrees(mem[q], f)'
    BY DEF CopiesAgree
  <2>1. f \in Fields
    BY FieldsAre
  <2>2. CASE q = p
    <3>1. \/ mem[p][f] = said'[f] \/ said'[f] = ""
          \/ f = "mode" /\ mem[p][f] = EnvMode
      BY <1>7, <2>2 DEF Kept
    <3>2. DOMAIN mem[p] = Fields
      BY DEF ConfInv, ConfTypes
    <3>3. mem'[p][f] = mem[p][f] \/ (f = "fqdn" /\ mem[p][f] = "")
      <4>1. Named(mem[p])[f] = mem[p][f] \/ (f = "fqdn" /\ mem[p][f] = "")
        BY <2>1, <3>2 DEF Named
      <4> QED
        BY <1>2, <4>1
    <3> QED
      BY <2>2, <3>1, <3>3 DEF Agrees
  <2>3. CASE q # p
    <3>1. Held(q) /\ Up(q) /\ at[q] # "load"
      BY <1>3, <2>3 DEF Held, Up
    <3>2. f \notin Acknowledged(p) /\ f \notin outdated[q] /\ f \notin reverted
      BY <1>1, <2>3, <3>1 DEF Kept
    <3>3. Kept(q, f)
      BY <1>1, <1>3, <2>3, <3>2 DEF Kept, Pending, Acknowledged
    <3>4. Agrees(mem[q], f)
      BY <3>1, <3>3 DEF ConfInv, CopiesAgree
    <3> QED
      BY <1>1, <1>2, <2>1, <2>3, <3>2, <3>4 DEF Agrees
  <2> QED
    BY <2>2, <2>3
<1> QED
  BY <1>5, <1>6, <1>8, <1>9 DEF ConfInv

\* A save that fails changes no setting of anybody's copy, but for the copy of
\* the first run.
LEMMA SaveFailsKeepsConf ==
  ASSUME ConfInv, UpdTypes, NEW p \in Programs, SaveFails(p)
  PROVE  ConfInv'
<1>1. /\ at[p] \in Saves /\ open' = open \ {p}
      /\ mem' = IF at[p] = "created" THEN [mem EXCEPT ![p] = Default] ELSE Repaired(p)
      /\ at' = [at EXCEPT ![p] = IF at[p] = "created" /\ job[p] = "reset" THEN "exit"
                                 ELSE After(p)]
      /\ UNCHANGED <<file, current, outdated, said, reverted, wiped, job>>
  BY DEF SaveFails, Goto, saidHistory
<1>2. /\ at'[p] \in {"loaded", "running", "exit"}
      /\ at[p] = "command" => at'[p] = "exit"
      /\ \A q \in Programs \ {p} : at'[q] = at[q]
  BY <1>1 DEF After, Saves, UpdTypes
<1>3. /\ DOMAIN mem' = Programs /\ \A q \in Programs \ {p} : mem'[q] = mem[q]
      /\ DOMAIN mem'[p] = Fields
      /\ ~current[p] \/ mem'[p] = mem[p] \/ mem'[p] = Named(mem[p])
  <2>1. CASE at[p] = "created"
    BY <1>1, <2>1 DEF ConfInv, ConfTypes, ConfPlaces, Fields
  <2>2. CASE at[p] # "created"
    BY <1>1, <2>2, RepairedFacts DEF ConfInv
  <2> QED
    BY <2>1, <2>2
<1>4. ConfTypes'
  BY <1>1, <1>3 DEF ConfInv, ConfTypes
<1>5. ConfPlaces'
  BY <1>1, <1>2 DEF ConfInv, ConfPlaces, Saves
<1>6. SettingsHold'
  BY <1>1 DEF ConfInv, SettingsHold, Agrees
<1>7. CopiesAgree'
  <2> SUFFICES ASSUME NEW q \in Programs, Held(q)', NEW f \in Rendered, Kept(q, f)'
               PROVE  Agrees(mem[q], f)'
    BY DEF CopiesAgree
  <2>1. Held(q) /\ Kept(q, f)
    BY <1>1, <1>2 DEF Held, Kept, Pending, Acknowledged, Saves
  <2>2. Agrees(mem[q], f) /\ current[q] /\ DOMAIN mem[q] = Fields
    BY <2>1 DEF ConfInv, CopiesAgree, ConfTypes, Held
  <2>3. mem'[q] = mem[q] \/ mem'[q] = Named(mem[q])
    BY <1>3, <2>2
  <2>4. Agrees(Named(mem[q]), f)
    BY <2>2, ComputedAgrees
  <2> QED
    BY <1>1, <2>2, <2>3, <2>4 DEF Agrees
<1> QED
  BY <1>4, <1>5, <1>6, <1>7 DEF ConfInv

\* A step of a program that changes only its own copy, and not what it says of
\* what was said.
LEMMA CopyKeeps ==
  ASSUME ConfInv, UpdTypes, NEW p \in Programs, NEW c, NEW place \in Places,
         at[p] \notin Saves \cup {"down", "exit", "load"},
         mem' = [mem EXCEPT ![p] = c], DOMAIN c = Fields,
         at' = [at EXCEPT ![p] = place],
         UNCHANGED <<server_yml, current, outdated, saidHistory, job>>,
         place \notin {"created", "ported"}, place \in {"command", "smtp"} => current[p],
         place = "command" => job[p] \in {"mode", "branch", "reset"},
         \A f \in Rendered : \/ c[f] = mem[p][f]
                             \/ place = "command" /\ f \in Acknowledged(p)'
                             \/ Held(p) /\ Agrees(mem[p], f) => Agrees(c, f)
  PROVE  ConfInv'
<1>1. /\ mem'[p] = c /\ at'[p] = place /\ DOMAIN mem' = Programs
      /\ \A q \in Programs \ {p} : at'[q] = at[q] /\ mem'[q] = mem[q]
  BY DEF ConfInv, ConfTypes, UpdTypes
<1>2. UNCHANGED <<file, open, said, reverted, wiped>>
  BY DEF server_yml, saidHistory
<1>3. ConfTypes'
  BY <1>1, <1>2 DEF ConfInv, ConfTypes
<1>4. ConfPlaces'
  BY <1>1, <1>2 DEF ConfInv, ConfPlaces, Saves
<1>5. SettingsHold'
  BY <1>2 DEF ConfInv, SettingsHold, Agrees
<1>6. CopiesAgree'
  <2> SUFFICES ASSUME NEW q \in Programs, Held(q)', NEW f \in Rendered, Kept(q, f)'
               PROVE  Agrees(mem[q], f)'
    BY DEF CopiesAgree
  <2>1. Held(q)
    BY <1>1 DEF Held
  <2>2. CASE q # p
    <3>1. Kept(q, f)
      BY <1>1, <1>2, <2>2 DEF Kept, Pending, Acknowledged
    <3>2. Agrees(mem[q], f)
      BY <2>1, <3>1 DEF ConfInv, CopiesAgree
    <3> QED
      BY <1>1, <1>2, <2>2, <3>2 DEF Agrees
  <2>3. CASE q = p
    <3>1. Kept(p, f)
      BY <1>2, <2>3 DEF Kept, Pending, Saves
    <3>2. Agrees(mem[p], f)
      BY <2>1, <2>3, <3>1 DEF ConfInv, CopiesAgree
    <3>3. Agrees(c, f)
      BY <1>1, <2>1, <2>3, <3>2 DEF Kept, Pending, Agrees
    <3> QED
      BY <1>1, <1>2, <2>3, <3>3 DEF Agrees
  <2> QED
    BY <2>2, <2>3
<1> QED
  BY <1>3, <1>4, <1>5, <1>6 DEF ConfInv

LEMMA CommandKeepsConf ==
  ASSUME ConfInv, UpdTypes, NEW p \in Programs, UNCHANGED job, Command(p)
  PROVE  ConfInv'
<1>1. /\ at[p] = "loaded" /\ job[p] \in {"mode", "branch", "reset"}
      /\ UNCHANGED <<server_yml, current, outdated, saidHistory>>
      /\ DOMAIN mem[p] = Fields /\ DOMAIN Default = Fields
  BY DEF Command, ConfInv, ConfTypes, Fields
<1>2. CASE ~current[p]
  <2>1. at' = [at EXCEPT ![p] = "exit"] /\ UNCHANGED mem
    BY <1>2 DEF Command, Goto
  <2>2. /\ at'[p] = "exit" /\ \A q \in Programs \ {p} : at'[q] = at[q]
        /\ UNCHANGED configVars
    BY <1>1, <2>1 DEF UpdTypes, configVars, server_yml, saidHistory
  <2> QED
    BY <1>1, <2>2, ConfQuiet DEF Saves
<1>3. CASE current[p]
  <2>1. mem' = [mem EXCEPT ![p] = AfterCommand(p)] /\ at' = [at EXCEPT ![p] = "command"]
    BY <1>3 DEF Command, Goto
  <2>2. /\ Acknowledged(p)' = IF job[p] = "reset" THEN Rendered \ {"port", "fqdn"}
                              ELSE {job[p]}
    BY <1>1, <2>1 DEF Acknowledged, UpdTypes
  <2>3. DOMAIN AfterCommand(p) = Fields
    BY <1>1 DEF AfterCommand
  <2>4. \A f \in Rendered : \/ AfterCommand(p)[f] = mem[p][f]
                            \/ f \in Acknowledged(p)'
    BY <1>1, <2>2, FieldsAre DEF AfterCommand
  <2> QED
    BY <1>1, <1>3, <2>1, <2>3, <2>4, CopyKeeps DEF Places, Saves
<1> QED
  BY <1>2, <1>3

\* A mail server is looked for only where none was ever said.
LEMMA DetectKeepsConf ==
  ASSUME ConfInv, UpdTypes, NEW p \in Programs, UNCHANGED job, DetectSMTP(p)
  PROVE  ConfInv'
<1>1. /\ at[p] = "email" /\ DOMAIN mem[p] = Fields
      /\ UNCHANGED <<server_yml, current, outdated, saidHistory>>
  BY DEF DetectSMTP, ConfInv, ConfTypes
<1>2. CASE /\ mem[p]["smtp"] = ""
           /\ mem' = [mem EXCEPT ![p]["smtp"] = "detected"]
           /\ Goto(p, IF current[p] THEN "smtp" ELSE "running")
  <2> DEFINE c == [mem[p] EXCEPT !["smtp"] = "detected"]
             place == IF current[p] THEN "smtp" ELSE "running"
  <2>1. mem' = [mem EXCEPT ![p] = c] /\ at' = [at EXCEPT ![p] = place]
    BY <1>2 DEF Goto
  <2>2. \A f \in Rendered : c[f] = mem[p][f] \/ (f = "smtp" /\ mem[p][f] = "")
    BY <1>1, <1>2, FieldsAre
  <2>3. \A f \in Rendered : c[f] = mem[p][f] \/ (Agrees(mem[p], f) => Agrees(c, f))
    BY <2>2 DEF Agrees
  <2>4. DOMAIN c = Fields
    BY <1>1
  <2>5. /\ place \in {"smtp", "running"} /\ (place = "smtp" => current[p])
        /\ place \in Places /\ at[p] \notin Saves \cup {"down", "exit", "load"}
    BY <1>1 DEF Places, Saves
  <2> HIDE DEF c, place
  <2> QED
    BY <1>1, <2>1, <2>3, <2>4, <2>5, CopyKeeps
<1>3. CASE Goto(p, "running") /\ UNCHANGED mem
  <2>1. /\ at'[p] = "running" /\ \A q \in Programs \ {p} : at'[q] = at[q]
        /\ UNCHANGED configVars
    BY <1>1, <1>3 DEF Goto, UpdTypes, configVars, server_yml, saidHistory
  <2> QED
    BY <1>1, <2>1, ConfQuiet DEF Saves
<1> QED
  BY <1>2, <1>3 DEF DetectSMTP

\* MODE, where it overrides a copy, is the exception that SettingsHold makes.
LEMMA GoOnKeepsConf ==
  ASSUME ConfInv, UpdTypes, NEW p \in Programs, GoOn(p)
  PROVE  ConfInv'
<1>1. /\ at[p] = "loaded" /\ DOMAIN mem[p] = Fields
      /\ UNCHANGED <<server_yml, current, outdated, saidHistory, job>>
  BY DEF GoOn, ConfInv, ConfTypes
<1>2. CASE Override(p) /\ Goto(p, "migrate")
  <2> DEFINE m == mem[p]["mode"]
             place == "migrate"
             c == [mem[p] EXCEPT !["mode"] =
                     IF EnvMode # "" /\ m = "production" THEN EnvMode ELSE m]
  <2>1. mem' = [mem EXCEPT ![p] = c] /\ at' = [at EXCEPT ![p] = place]
    BY <1>2 DEF Override, Goto
  <2>2. \A f \in Rendered : c[f] = mem[p][f] \/ (f = "mode" /\ c[f] = EnvMode)
    BY <1>1, FieldsAre
  <2>3. \A f \in Rendered : c[f] = mem[p][f] \/ Agrees(c, f)
    BY <2>2 DEF Agrees
  <2>4. DOMAIN c = Fields
    BY <1>1
  <2>5. /\ place \in Places \ (Saves \cup {"down", "exit", "load"})
        /\ at[p] \notin Saves \cup {"down", "exit", "load"}
    BY <1>1 DEF Places, Saves
  <2>6. place \notin {"created", "ported", "smtp", "command"}
    OBVIOUS
  <2> HIDE DEF c, place
  <2> QED
    BY <1>1, <2>1, <2>3, <2>4, <2>5, <2>6, CopyKeeps
<1>3. CASE Goto(p, "exit") /\ UNCHANGED mem
  <2>1. /\ at'[p] = "exit" /\ \A q \in Programs \ {p} : at'[q] = at[q]
        /\ UNCHANGED configVars
    BY <1>1, <1>3 DEF Goto, UpdTypes, configVars, server_yml, saidHistory
  <2> QED
    BY <1>1, <2>1, ConfQuiet DEF Saves
<1> QED
  BY <1>2, <1>3 DEF GoOn

\* An edit by hand leaves every copy behind.
LEMMA EditKeepsConf ==
  ASSUME ConfInv, NEW e, NEW v, Edit(e, v), UNCHANGED control
  PROVE  ConfInv'
<1>1. /\ file \notin {None, Torn} /\ DOMAIN file = Fields /\ DOMAIN said = Fields
      /\ file' = [file EXCEPT ![e] = v] /\ said' = [said EXCEPT ![e] = v]
      /\ reverted' = reverted \ {e} /\ wiped' = wiped \ {e}
      /\ outdated' = [q \in Programs |-> IF q \in Programs /\ Up(q) /\ at[q] # "load"
                                         THEN outdated[q] \cup {e} ELSE {}]
      /\ UNCHANGED <<mem, current, open, at, job>>
  BY DEF Edit, Outdate, control, ConfInv, ConfTypes
<1>2. ConfTypes' /\ ConfPlaces'
  BY <1>1 DEF ConfInv, ConfTypes, ConfPlaces
<1>3. SettingsHold'
  <2> SUFFICES ASSUME NEW f \in Fields
               PROVE  IF f \in wiped' THEN file'[f] = Default[f]
                      ELSE f \in reverted' \/ Agrees(file, f)'
    BY DEF SettingsHold
  <2>1. CASE f = e
    BY <1>1, <2>1 DEF Agrees
  <2>2. CASE f # e
    BY <1>1, <2>2 DEF ConfInv, SettingsHold, Agrees
  <2> QED
    BY <2>1, <2>2
<1>4. CopiesAgree'
  <2> SUFFICES ASSUME NEW q \in Programs, Held(q)', NEW f \in Rendered, Kept(q, f)'
               PROVE  Agrees(mem[q], f)'
    BY DEF CopiesAgree
  <2>1. Held(q) /\ f # e /\ f \notin outdated[q]
    BY <1>1 DEF Held, Kept, Up
  <2>2. Kept(q, f)
    BY <1>1, <2>1 DEF Kept, Pending, Acknowledged
  <2>3. Agrees(mem[q], f)
    BY <2>1, <2>2 DEF ConfInv, CopiesAgree
  <2>4. said'[f] = said[f]
    BY <1>1, <2>1, FieldsAre
  <2> QED
    BY <1>1, <2>3, <2>4 DEF Agrees
<1> QED
  BY <1>2, <1>3, <1>4 DEF ConfInv

\* The copy of a process that has ended is gone.
LEMMA FreedKeepsConf ==
  ASSUME ConfInv, UpdTypes, NEW p \in Programs, UNCHANGED job,
         Goto(p, "down"), Freed(p), open' = open \ {p}
  PROVE  ConfInv'
<1>1. /\ at'[p] = "down" /\ mem'[p] = Default /\ current'[p] = FALSE
      /\ DOMAIN mem' = Programs /\ DOMAIN current' = Programs /\ DOMAIN outdated' = Programs
      /\ \A q \in Programs \ {p} :
           /\ at'[q] = at[q] /\ mem'[q] = mem[q] /\ current'[q] = current[q]
           /\ outdated'[q] = outdated[q]
      /\ UNCHANGED <<file, said, reverted, wiped>>
  BY DEF Goto, Freed, saidHistory, UpdTypes, ConfInv, ConfTypes
<1>2. ConfTypes'
  BY <1>1 DEF ConfInv, ConfTypes, Fields
<1>3. ConfPlaces'
  BY <1>1 DEF ConfInv, ConfPlaces, Saves
<1>4. SettingsHold'
  BY <1>1 DEF ConfInv, SettingsHold, Agrees
<1>5. CopiesAgree'
  <2> SUFFICES ASSUME NEW q \in Programs, Held(q)', NEW f \in Rendered, Kept(q, f)'
               PROVE  Agrees(mem[q], f)'
    BY DEF CopiesAgree
  <2>1. q # p /\ Held(q) /\ Kept(q, f)
    BY <1>1 DEF Held, Kept, Pending, Acknowledged
  <2>2. Agrees(mem[q], f)
    BY <2>1 DEF ConfInv, CopiesAgree
  <2> QED
    BY <1>1, <2>1, <2>2 DEF Agrees
<1> QED
  BY <1>2, <1>3, <1>4, <1>5 DEF ConfInv

LEMMA ConfMoves ==
  ASSUME ConfInv, UpdTypes, NEW p \in Programs, NEW from, NEW to, Moves(p, from, to),
         from \cap (Saves \cup {"down", "exit", "load"}) = {}, to \cap Saves = {},
         UNCHANGED <<configVars, job>>
  PROVE  ConfInv'
<1>1. \A q \in Programs :
        \/ at'[q] = at[q] /\ job'[q] = job[q]
        \/ /\ at[q] \notin Saves /\ at'[q] \notin Saves
           /\ at[q] \notin {"down", "exit", "load"} /\ job'[q] = job[q]
  BY DEF Moves, UpdTypes
<1> QED
  BY <1>1, ConfQuiet

LEMMA ConfigKeepsConf ==
  ASSUME ConfInv, UpdTypes, NEW p \in Programs, ConfigStep(p)
  PROVE  ConfInv'
<1>1. UNCHANGED job
  BY ConfigMoves DEF ConfInv, ConfPlaces
<1> QED
  BY <1>1, LoadsKeepConf, TruncateKeepsConf, FillKeepsConf, SaveFailsKeepsConf,
     CommandKeepsConf, DetectKeepsConf DEF ConfigStep

(***************************************************************************)
(* All of main.                                                            *)
(***************************************************************************)
IInv == BinInv /\ CredInv /\ ConfInv

LEMMA LaunchStep ==
  ASSUME IInv, NEW p \in Programs, NEW j, Launch(p, j), UNCHANGED plan
  PROVE  IInv'
<1>1. /\ at[p] = "down" /\ at' = [at EXCEPT ![p] = "load"]
      /\ job' = [job EXCEPT ![p] = j] /\ UNCHANGED <<configVars, adminVars>>
  BY DEF Launch, Goto
<1>2. at'[p] = "load" /\ \A q \in Programs \ {p} : at'[q] = at[q] /\ job'[q] = job[q]
  BY <1>1 DEF IInv, BinInv, UpdTypes
<1>3. CredInv'
  BY <1>1, <1>2, CredQuiet DEF IInv, Asking
<1>4. ConfInv'
  BY <1>1, <1>2, ConfQuiet DEF IInv, Saves
<1> QED
  BY <1>3, <1>4, LaunchKeepsBin DEF IInv

\* The steps between the parts.
LEMMA MainStep ==
  ASSUME IInv, NEW p \in Programs, UNCHANGED plan,
         GoOn(p) \/ LoadAgain(p) \/ CheckPid(p) \/ Restart(p)
  PROVE  IInv'
<1>1. UpdTypes /\ UpdPlaces /\ BinInv /\ CredInv /\ ConfInv
  BY DEF IInv, BinInv
<1>2. CASE GoOn(p)
  <2>1. /\ at[p] = "loaded" /\ job[p] \in {"serve", "status"}
        /\ Moves(p, {"loaded"}, {"migrate", "exit"})
        /\ UNCHANGED <<job, adminVars, updVars>>
    BY <1>2 DEF GoOn, Goto, Moves
  <2>2. upd[p].pc = "idle"
    BY <1>1, <2>1 DEF UpdPlaces
  <2>3. {"migrate", "exit"} \subseteq Places
    BY DEF Places
  <2>4. CredInv'
    BY <1>1, <2>1, CredMoves DEF Asking
  <2> QED
    BY <1>1, <1>2, <2>1, <2>2, <2>3, <2>4, MoveKeepsBin, GoOnKeepsConf DEF IInv
<1>3. CASE CheckPid(p)
  <2>1. /\ at[p] = "pid" /\ Moves(p, {"pid"}, {"email", "exit"})
        /\ UNCHANGED <<job, configVars, adminVars, updVars>>
    BY <1>3 DEF CheckPid, Goto, Moves
  <2>2. upd[p].pc = "idle"
    BY <1>1, <2>1 DEF UpdPlaces
  <2>3. {"email", "exit"} \subseteq Places
    BY DEF Places
  <2>4. CredInv'
    BY <1>1, <2>1, CredMoves DEF Asking
  <2>5. ConfInv'
    BY <1>1, <2>1, ConfMoves DEF Saves
  <2> QED
    BY <1>1, <2>1, <2>2, <2>3, <2>4, <2>5, MoveKeepsBin DEF IInv
<1>4. CASE Restart(p)
  <2>1. /\ upd[p].pc # "idle" /\ job[p] = "serve" /\ at' = [at EXCEPT ![p] = "load"]
        /\ UNCHANGED <<job, configVars, adminVars>>
    BY <1>4 DEF Restart, RestartSelf, UpdAt, Goto
  <2>2. /\ at[p] = "running" /\ at'[p] = "load"
        /\ \A q \in Programs \ {p} : at'[q] = at[q]
    BY <1>1, <2>1 DEF UpdPlaces, UpdTypes
  <2>3. CredInv'
    BY <1>1, <2>1, <2>2, CredQuiet DEF Asking
  <2>4. ConfInv'
    BY <1>1, <2>1, <2>2, ConfQuiet DEF Saves
  <2> QED
    BY <1>1, <1>4, <2>3, <2>4, RestartKeepsBin DEF IInv
<1>5. CASE LoadAgain(p)
  <2>1. /\ at[p] = "loaded" /\ job[p] = "setup" /\ at' = [at EXCEPT ![p] = "load"]
        /\ job' = [job EXCEPT ![p] = "reset"] /\ UNCHANGED <<configVars, adminVars, updVars>>
    BY <1>5 DEF LoadAgain, Goto
  <2>2. /\ at'[p] = "load" /\ DOMAIN job' = Programs /\ at' \in [Programs -> Places]
        /\ \A q \in Programs \ {p} : at'[q] = at[q] /\ job'[q] = job[q]
    BY <1>1, <2>1 DEF UpdTypes, Places
  <2>3. upd[p].pc = "idle"
    BY <1>1, <2>1 DEF UpdPlaces
  <2>4. BinInv'
    BY <1>1, <2>1, <2>2, <2>3, BinQuiet
  <2>5. CredInv'
    BY <1>1, <2>1, <2>2, CredQuiet DEF Asking
  <2>6. ConfInv'
    BY <1>1, <2>1, <2>2, ConfQuiet DEF Saves
  <2> QED
    BY <2>4, <2>5, <2>6 DEF IInv
<1> QED
  BY <1>2, <1>3, <1>4, <1>5

\* The steps of the parts.
LEMMA PartStep ==
  ASSUME IInv, NEW p \in Programs, UNCHANGED plan,
         ConfigStep(p) \/ AdminStep(p) \/ CertStep(p) \/ UpdateStep(p)
  PROVE  IInv'
<1>1. UpdTypes /\ UpdPlaces /\ BinInv /\ CredInv /\ ConfInv
  BY DEF IInv, BinInv
<1>2. CASE ConfigStep(p)
  <2>1. /\ \/ Moves(p, {"load", "email"} \cup Saves, Configured)
           \/ job[p] \in {"mode", "branch", "reset"} /\ Moves(p, {"loaded"}, Configured)
        /\ UNCHANGED <<job, adminVars, updVars>>
    BY <1>1, <1>2, ConfigMoves DEF ConfInv, ConfPlaces
  <2>2. /\ at[p] \in {"load", "email"} \cup Saves => upd[p].pc = "idle"
        /\ at[p] = "loaded" /\ job[p] \in {"mode", "branch", "reset"} => upd[p].pc = "idle"
    BY <1>1 DEF UpdPlaces, Saves
  <2>3. Configured \subseteq Places /\ Configured \cap Asking = {}
        /\ ({"load", "email", "loaded"} \cup Saves) \cap Asking = {}
    BY DEF Configured, Places, Saves, Asking
  <2>4. BinInv'
    BY <1>1, <2>1, <2>2, <2>3, MoveKeepsBin
  <2>5. CredInv'
    BY <1>1, <2>1, <2>3, CredMoves
  <2> QED
    BY <1>1, <1>2, <2>4, <2>5, ConfigKeepsConf DEF IInv
<1>3. CASE AdminStep(p)
  <2> DEFINE from == {"migrate", "has", "insert", "print"}
             to == {"has", "insert", "print", "pid", "exit"}
  <2>1. Moves(p, from, to) /\ UNCHANGED <<job, configVars, updVars>>
    BY <1>3, AdminMoves
  <2>2. at[p] \in from => upd[p].pc = "idle"
    BY <1>1 DEF UpdPlaces
  <2>3. /\ to \subseteq Places /\ to \cap Saves = {}
        /\ from \cap (Saves \cup {"down", "exit", "load"}) = {}
    BY DEF Places, Saves
  <2> HIDE DEF from, to
  <2>4. BinInv'
    BY <1>1, <2>1, <2>2, <2>3, MoveKeepsBin
  <2>5. ConfInv'
    BY <1>1, <2>1, <2>3, ConfMoves
  <2> QED
    BY <1>1, <1>3, <2>4, <2>5, AdminKeepsCred DEF IInv
<1>4. CASE CertStep(p)
  <2>1. UNCHANGED <<at, job, configVars, adminVars, updVars>>
    BY <1>4 DEF CertStep, control, GenerateFails
  <2> QED
    BY <1>1, <2>1, BinQuiet, CredQuiet, ConfQuiet DEF IInv, UpdTypes
<1>5. CASE UpdateStep(p)
  <2>1. Moves(p, {"loaded"}, {"exit"}) /\ UNCHANGED <<job, configVars, adminVars>>
    BY <1>1, <1>5, UpdateMoves
  <2>2. CredInv' /\ ConfInv'
    BY <1>1, <2>1, CredMoves, ConfMoves DEF Asking, Saves
  <2> QED
    BY <1>1, <1>5, <2>2, UpdateKeepsBin DEF IInv
<1> QED
  BY <1>2, <1>3, <1>4, <1>5

\* The ends of a process: reaped, stopped, dead.
LEMMA EndStep ==
  ASSUME IInv, NEW p \in Programs, UNCHANGED plan,
         Reaped(p) \/ Quit(p) \/ ListenerFails(p) \/ Crash(p)
  PROVE  IInv'
<1>1. UpdTypes /\ UpdPlaces /\ BinInv /\ CredInv /\ ConfInv
  BY DEF IInv, BinInv
<1>2. CASE Reaped(p) \/ Quit(p)
  <2>1. /\ at[p] \in {"exit", "running"} /\ upd[p].pc = "idle"
        /\ Goto(p, "down") /\ Freed(p)
        /\ UNCHANGED <<job, open, adminVars, updVars>>
    BY <1>1, <1>2 DEF Reaped, Quit, UpdPlaces
  <2>2. Moves(p, {"exit", "running"}, {"down"}) /\ {"down"} \subseteq Places
    BY <2>1 DEF Moves, Goto, Places
  <2>3. open' = open \ {p}
    BY <1>1, <2>1 DEF ConfInv, ConfPlaces, Saves
  <2>4. BinInv'
    BY <1>1, <2>1, <2>2, MoveKeepsBin
  <2>5. CredInv'
    BY <1>1, <2>1, <2>2, CredMoves DEF Asking
  <2>6. ConfInv'
    BY <1>1, <2>1, <2>3, FreedKeepsConf
  <2> QED
    BY <2>4, <2>5, <2>6 DEF IInv
<1>3. CASE Crash(p)
  <2>1. Goto(p, "down") /\ Freed(p) /\ Released(p) /\ UNCHANGED job
    BY <1>3 DEF Crash
  <2>2. ConfInv'
    BY <1>1, <2>1, FreedKeepsConf DEF Released
  <2>3. BinInv'
    BY <1>1, <1>3, <2>1, DeadKeepsBin DEF Crash
  <2> QED
    BY <1>1, <1>3, <2>2, <2>3, CrashKeepsCred DEF IInv
<1>4. CASE ListenerFails(p)
  <2>1. /\ at[p] = "running" /\ Goto(p, "down") /\ Freed(p) /\ Interrupted(p)
        /\ UNCHANGED <<job, open, adminVars, dir, out, overlapped>>
    BY <1>4 DEF ListenerFails
  <2>2. open' = open \ {p}
    BY <1>1, <2>1 DEF ConfInv, ConfPlaces, Saves
  <2>3. BinInv' /\ ConfInv'
    BY <1>1, <2>1, <2>2, DeadKeepsBin, FreedKeepsConf
  <2>4. Moves(p, {"running"}, {"down"})
    BY <2>1 DEF Moves, Goto
  <2>5. CredInv'
    BY <1>1, <2>1, <2>4, CredMoves DEF Asking
  <2> QED
    BY <2>3, <2>5 DEF IInv
<1> QED
  BY <1>2, <1>3, <1>4

LEMMA WorldStep ==
  ASSUME IInv, World, UNCHANGED plan
  PROVE  IInv'
<1>1. UpdTypes /\ BinInv /\ CredInv /\ ConfInv
  BY DEF IInv, BinInv
<1>2. UNCHANGED control /\ UNCHANGED <<at, job, adminVars>>
  BY DEF World, control
<1>3. CASE UNCHANGED configVars
  BY <1>1, <1>2, <1>3, WorldKeepsBin, CredQuiet, ConfQuiet DEF IInv
<1>4. CASE \E f \in DOMAIN plan.edits : Edit(f, plan.edits[f])
  BY <1>1, <1>2, <1>4, WorldKeepsBin, CredQuiet, EditKeepsConf DEF IInv
<1> QED
  BY <1>3, <1>4 DEF World

LEMMA IInvNext == IInv /\ [Next]_<<plan, vars>> => IInv'
<1> SUFFICES ASSUME IInv, [Next]_<<plan, vars>> PROVE IInv'
  OBVIOUS
<1>1. CASE UNCHANGED <<plan, vars>>
  BY <1>1, BinQuiet, CredQuiet, ConfQuiet DEF IInv, vars, control, BinInv, UpdTypes
<1>2. CASE Next
  BY <1>2, LaunchStep, MainStep, PartStep, EndStep, WorldStep DEF Next, ProgramStep
<1> QED
  BY <1>1, <1>2

LEMMA IInvHolds == Spec => []IInv
<1>1. Init => IInv
  BY BinInit, CredInit, ConfInit DEF IInv
<1> QED
  BY <1>1, IInvNext, PTL DEF Spec

(* However many programs there are and whatever they install, unless two of  *)
(* them were between the stage and the removal of the backup at a time, the  *)
(* path of the binary never names a partial download, and a whole file is at *)
(* .bak while there is none: crossDeviceReplace can be cut off at any step.  *)
THEOREM BinaryIsSound == Spec => []BinarySound
<1>1. IInv => BinarySound
  BY DEF IInv, BinInv, BinWhole, Whole, BinarySound
<1> QED
  BY <1>1, IInvHolds, PTL

(* However many first starts there are at a time, the password that          *)
(* VerifyAdminPassword accepts has been shown, or is held by the program     *)
(* that is about to show it, or was held by one that died; and unless two of *)
(* them found no credentials at a time, every password shown is that one.    *)
THEOREM CredentialsAreUsable == Spec => []CredentialsUsable
<1>1. IInv => CredentialsUsable
  <2> SUFFICES ASSUME IInv PROVE CredentialsUsable
    OBVIOUS
  <2>1. FirstRow /\ (~rivals => OneFirstRow)
    BY DEF IInv, CredInv
  <2>2. ASSUME rows # <<>>, ~unseen
        PROVE  \E c \in printed \cup {made[p] : p \in Programs} : Verifies(c)
    <3>1. Verifies(1)
      BY <2>1, <2>2 DEF FirstRow, Verifies
    <3> QED
      BY <2>1, <2>2, <3>1 DEF FirstRow
  <2>3. ~rivals => \A c \in printed : Verifies(c)
    BY <2>1, RowsDiffer DEF OneFirstRow, Verifies
  <2> QED
    BY <2>2, <2>3 DEF CredentialsUsable
<1> QED
  BY <1>1, IInvHolds, PTL

(* Whatever commands, edits, servers, restarts and failing saves there are   *)
(* beside each other, server.yml says of every setting what was last         *)
(* acknowledged, unless the last save left the setting out, which puts it    *)
(* back to its default, or a save of a copy loaded before it was set, or a   *)
(* torn file read as empty, undid it since.                                  *)
THEOREM SettingsAreKept == Spec => []SettingsHold
<1>1. IInv => SettingsHold
  BY DEF IInv, ConfInv
<1> QED
  BY <1>1, IInvHolds, PTL
=============================================================================
