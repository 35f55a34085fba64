------------------------------ MODULE Updater ------------------------------
(***************************************************************************)
(* src/updater and src/update_wire.go: the choice of a release, its        *)
(* installation over the running binary, step by step as other programs    *)
(* and a crash may see it, and the update_check task of the server, which  *)
(* runs in a goroutine beside its main.                                    *)
(***************************************************************************)
EXTENDS Programs

CONSTANTS Kinds,                   \* of the releases in order: "stable", "beta"
                                   \* and "daily", by flag and form of the tag
          AutoInstall,             \* update.auto_install of the server
          Deferred                 \* update.defer_days is not 0

ASSUME UpdaterAssumption ==
  /\ Kinds \in Seq({"stable", "beta", "daily"})
  /\ \A s \in Plans : s.releases <= Len(Kinds)

Releases == 1..Len(Kinds)
Gone     == Len(Kinds) + 1         \* no such file
Partial  == Len(Kinds) + 2         \* a file cut short
Contents == 0..Len(Kinds) + 2      \* 0: the binary of the first installation

VARIABLES dir,                     \* the binary, it with .bak and .new, and the
                                   \* file update_last_notified (0: none)
          upd,                     \* each program's image in memory and the path
                                   \* of that image, the release it installs, its
                                   \* temporary file, its place
          out,                     \* releases published, and past the deferral
          \* history:
          overlapped               \* two programs replaced the binary at a time

updVars == <<dir, upd, out, overlapped>>

UpdaterInit ==
  /\ dir = [bin |-> 0, bak |-> Gone, stage |-> Gone, notified |-> 0]
  /\ upd = [p \in Programs |->
              [pc |-> "idle", version |-> 0, path |-> "bin", target |-> 0, tmp |-> Gone]]
  /\ out = [published |-> 0, aged |-> 0]
  /\ overlapped = FALSE

\* What os.Executable of p names: /proc/self/exe follows the file as it is renamed,
\* where plan.follows says so; a file that was removed has no name.
Image(p) ==
  CASE upd[p].path = "bin" -> dir.bin [] upd[p].path = "bak" -> dir.bak [] OTHER -> Gone

Renamed(to) ==
  [p \in Programs |->
     IF plan.follows /\ upd[p].path \in DOMAIN to THEN [upd[p] EXCEPT !.path = to[@]]
     ELSE upd[p]]

BackupGone == Renamed([bak |-> "lost"])

UpdAt(p, pc) == Up(p) /\ upd[p].pc = pc
UpdGo(p, pc) == upd' = [upd EXCEPT ![p].pc = pc]

\* The task of a server ends, or the command --update yes ends its program;
\* Install removes the temporary file whatever happens.
EndsAs(p, u) ==
  /\ upd' = [u EXCEPT ![p].pc = "idle", ![p].tmp = Gone]
  /\ IF job[p] = "serve" THEN UNCHANGED at ELSE Goto(p, "exit")

Ends(p) == EndsAs(p, upd)

\* matchesBranch: each channel also takes the releases of the more stable ones.
MatchesBranch(r, branch) ==
  \/ Kinds[r] = "stable"
  \/ Kinds[r] = "beta" /\ branch \in {"beta", "daily"}
  \/ Kinds[r] = "daily" /\ branch = "daily"

MaxIn(S) == CHOOSE r \in S : \A s \in S : s <= r

\* Only the task defers; --update yes takes a release as soon as it is out.
CutoffOK(p, r) == job[p] = "serve" /\ Deferred => r <= out.aged

\* Not the version that runs, and old enough.
Eligible(p, r) == r # upd[p].version /\ CutoffOK(p, r)

\* GitHub's "latest" is the newest release that is no prerelease.
StableChoice(p) ==
  LET stable == {r \in 1..out.published : Kinds[r] = "stable"}
  IN  {r \in stable : r = MaxIn(stable) /\ Eligible(p, r)}

\* The first of the list, newest first, that matches the channel.
OtherChoice(p, branch) ==
  LET eligible == {r \in 1..out.published : MatchesBranch(r, branch) /\ Eligible(p, r)}
  IN  {r \in eligible : r = MaxIn(eligible)}

\* Updater.check: at most one release.
Choice(p, branch) == IF branch = "stable" THEN StableChoice(p) ELSE OtherChoice(p, branch)

\* The server's task runs while the server does; the command once.
Check(p, branch) ==
  /\ upd[p].pc = "idle"
  /\ at[p] = CASE job[p] = "serve" -> "running" [] job[p] = "update" -> "loaded" [] OTHER -> "none"
  /\ \/ Choice(p, branch) = {} /\ Ends(p)
     \/ \E r \in Choice(p, branch) :
          /\ upd' = [upd EXCEPT ![p].target = r,
                               ![p].pc = IF job[p] = "serve" THEN "notify" ELSE "download"]
          /\ UNCHANGED at
  /\ UNCHANGED <<dir, out, overlapped>>

AfterNotice == IF AutoInstall THEN "download" ELSE "idle"

\* Mutant: a release that was announced is not tried again.
NotifyOrLeave(p) ==
  /\ UpdAt(p, "notify")
  /\ UpdGo(p, IF dir.notified = upd[p].target THEN "idle" ELSE "record")
  /\ UNCHANGED <<at, dir, out, overlapped>>

\* update_available is announced unless the file names the release ...
Notify(p) ==
  /\ UpdAt(p, "notify")
  /\ IF dir.notified = upd[p].target
     THEN UpdGo(p, AfterNotice)
     ELSE UpdGo(p, "record")
  /\ UNCHANGED <<at, dir, out, overlapped>>

\* ... which is then written; an error is logged.
Record(p) ==
  /\ UpdAt(p, "record")
  /\ \/ dir' = [dir EXCEPT !.notified = upd[p].target] /\ UNCHANGED faults
     \/ Fault /\ UNCHANGED dir
  /\ UpdGo(p, AfterNotice)
  /\ UNCHANGED <<at, job, out, overlapped>>

\* downloadVerified: what arrives goes into a temporary file of its own, which
\* is given up unless it is all there and has the checksum of the release.
Download(p) ==
  /\ UpdAt(p, "download")
  /\ \/ /\ upd' = [upd EXCEPT ![p].pc = "rename", ![p].tmp = upd[p].target]
        /\ UNCHANGED <<at, faults>>
     \/ Fault /\ Ends(p)
  /\ UNCHANGED <<job, dir, out, overlapped>>

\* replaceBinary renames the new binary over the old one, at once, and gives it
\* the old one's permissions, ...
Replace(p) ==
  /\ UpdAt(p, "rename") /\ Image(p) # Gone /\ plan.rename
  /\ dir' = [dir EXCEPT !.bin = upd[p].tmp]
  /\ \/ UpdGo(p, "done") /\ UNCHANGED <<at, faults>>
     \/ Fault /\ Ends(p)
  /\ UNCHANGED <<job, out, overlapped>>

\* ... or finds nothing to replace, ...
NothingToReplace(p) ==
  /\ UpdAt(p, "rename") /\ Image(p) = Gone
  /\ Ends(p)
  /\ UNCHANGED <<dir, out, overlapped>>

Replacing(q) == Up(q) /\ upd[q].pc \in {"copying", "backup", "swap", "cleanup"}

\* ... or, across file systems, goes on to crossDeviceReplace, where copyFile
\* opens the stage, truncating it. (Two programs that are here at a time use the
\* same names; only that it happened is kept.)
StageOpen(p) ==
  /\ UpdAt(p, "rename") /\ upd[p].path = "bin" /\ dir.bin # Gone /\ ~plan.rename
  /\ dir' = [dir EXCEPT !.stage = Partial]
  /\ UpdGo(p, "copying")
  /\ overlapped' = (overlapped \/ \E q \in Programs \ {p} : Replacing(q))
  /\ UNCHANGED <<at, out>>

\* A server whose image another program left at .bak replaces that one, under
\* names derived from .bak; the steps are not told apart.
ReplaceBackup(p) ==
  /\ UpdAt(p, "rename") /\ upd[p].path = "bak" /\ dir.bak # Gone
  /\ dir' = [dir EXCEPT !.bak = upd[p].tmp]
  /\ upd' = [BackupGone EXCEPT ![p].pc = "done"]
  /\ UNCHANGED <<at, out, overlapped>>

\* The copy is complete, or fails and removes the stage.
StageFill(p) ==
  /\ UpdAt(p, "copying")
  /\ dir' = [dir EXCEPT !.stage = IF @ = Gone THEN Gone ELSE upd[p].tmp]
  /\ UpdGo(p, "backup")
  /\ UNCHANGED <<at, out, overlapped>>

StageFails(p) ==
  /\ UpdAt(p, "copying") /\ Fault
  /\ dir' = [dir EXCEPT !.stage = Gone]
  /\ Ends(p)
  /\ UNCHANGED <<job, out, overlapped>>

\* An older backup is removed and the binary is renamed to it: from here on
\* there is no binary at its path.
MoveAside(p) ==
  /\ UpdAt(p, "backup") /\ dir.bin # Gone
  /\ dir' = [dir EXCEPT !.bak = dir.bin, !.bin = Gone]
  /\ upd' = [Renamed([bin |-> "bak", bak |-> "lost"]) EXCEPT ![p].pc = "swap"]
  /\ UNCHANGED <<at, out, overlapped>>

\* There is nothing to rename, or it cannot be renamed.
MoveAsideFails(p) ==
  /\ UpdAt(p, "backup")
  /\ \/ dir.bin = Gone /\ UNCHANGED faults
     \/ dir.bin # Gone /\ Fault
  /\ dir' = [dir EXCEPT !.bak = Gone, !.stage = Gone]
  /\ EndsAs(p, BackupGone)
  /\ UNCHANGED <<job, out, overlapped>>

\* The stage takes its place.
Swap(p) ==
  /\ UpdAt(p, "swap") /\ dir.stage # Gone
  /\ dir' = [dir EXCEPT !.bin = dir.stage, !.stage = Gone]
  /\ UpdGo(p, "cleanup")
  /\ UNCHANGED <<at, out, overlapped>>

\* The second rename fails, or another program took the stage away.
SwapCannot(p) ==
  /\ UpdAt(p, "swap")
  /\ \/ dir.stage = Gone /\ UNCHANGED faults
     \/ dir.stage # Gone /\ Fault

\* Mutant: a failed swap does not bring the backup back.
SwapFailsForGood(p) ==
  /\ SwapCannot(p)
  /\ dir' = [dir EXCEPT !.bak = Gone, !.stage = Gone]
  /\ EndsAs(p, upd)
  /\ UNCHANGED <<job, out, overlapped>>

\* The roll-back.
SwapFails(p) ==
  /\ SwapCannot(p)
  /\ dir' = [dir EXCEPT !.bin = IF dir.bak # Gone THEN dir.bak ELSE @,
                       !.bak = Gone, !.stage = Gone]
  /\ EndsAs(p, Renamed([bak |-> "bin"]))
  /\ UNCHANGED <<job, out, overlapped>>

RemoveBackup(p) ==
  /\ UpdAt(p, "cleanup")
  /\ dir' = [dir EXCEPT !.bak = Gone]
  /\ upd' = [BackupGone EXCEPT ![p].pc = "done"]
  /\ UNCHANGED <<at, out, overlapped>>

\* Install has succeeded and the command ends, or the server's task finds
\* nothing to replace its process by.
Installed(p) ==
  /\ UpdAt(p, "done")
  /\ job[p] = "serve" => Image(p) \in {Gone, Partial}
  /\ Ends(p)
  /\ UNCHANGED <<dir, out, overlapped>>

\* RestartSelf: the server's process goes on with the image that is now at the
\* path of its own.
RestartSelf(p) ==
  /\ UpdAt(p, "done") /\ job[p] = "serve"
  /\ Image(p) \notin {Gone, Partial}
  /\ upd' = [upd EXCEPT ![p] = [@ EXCEPT !.pc = "idle", !.tmp = Gone, !.version = Image(p)]]
  /\ Goto(p, "load")
  /\ UNCHANGED <<dir, out, overlapped>>

\* The outside world: a release appears, a release becomes old enough.
Publish ==
  /\ out.published < plan.releases
  /\ out' = [out EXCEPT !.published = @ + 1]
  /\ UNCHANGED <<dir, upd, overlapped>>

Age ==
  /\ Deferred /\ out.aged < out.published
  /\ out' = [out EXCEPT !.aged = @ + 1]
  /\ UNCHANGED <<dir, upd, overlapped>>

\* A new process has the image that is at the path; one that dies leaves its
\* files as they are.
Loaded(p) ==
  /\ dir.bin \notin {Gone, Partial}
  /\ upd' = [upd EXCEPT ![p].version = dir.bin, ![p].path = "bin"]

Interrupted(p) == upd' = [upd EXCEPT ![p].pc = "idle", ![p].tmp = Gone]
=============================================================================
