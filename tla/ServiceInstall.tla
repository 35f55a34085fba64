--------------------------- MODULE ServiceInstall ---------------------------
(***************************************************************************)
(* src/service: the service of the server is installed and uninstalled by  *)
(* a command that runs a sequence of steps on the host, one sequence for   *)
(* each service manager. A step may fail: then the command ends, or goes   *)
(* on with a warning, and what was done before remains. Meanwhile the      *)
(* manager starts and stops the service.                                   *)
(***************************************************************************)
EXTENDS Naturals, Sequences, FiniteSets

CONSTANTS Plans                    \* the scenarios, see plan

VARIABLES plan,                    \* one of Plans, the same throughout: the
                                   \* service manager, whether the command is run
                                   \* from elsewhere than the binary's place, the
                                   \* account that the host has already, and how
                                   \* many commands, faults and launches
          host,                    \* what is on the host, see Bare
          cmd,                     \* the command under way
          told,                    \* history: how the last command ended
          commands, faults, launches

serviceVars == <<host, cmd, told, commands, faults, launches>>

Managers == {"systemd", "runit", "openrc", "sysvinit", "launchd", "windows", "bsdrc",
             "systemd-user", "launchd-user"}

ASSUME ServiceAssumption ==
  \A s \in Plans : s.manager \in Managers /\ s.account \in {"none", "user"}

Bare == [dirs |-> FALSE, data |-> FALSE, account |-> "none", file |-> FALSE,
         binary |-> "none", enabled |-> FALSE, running |-> FALSE]

NoCommand == [kind |-> "none", steps |-> <<>>, clean |-> TRUE, passed |-> {}]
NotTold   == [kind |-> "none", ok |-> FALSE, clean |-> FALSE, passed |-> {}]

ServiceInit ==
  /\ plan \in Plans
  /\ host = [Bare EXCEPT !.account = plan.account] /\ cmd = NoCommand /\ told = NotTold
  /\ commands = 0 /\ faults = 0 /\ launches = 0

\* A step that ends the command when it fails, and one that does not.
Must(what) == [do |-> what, must |-> TRUE]
Try(what)  == [do |-> what, must |-> FALSE]

InstallSystemd  == <<Must("dirs"), Try("account"), Must("file"), Must("binary"), Must("reload"), Must("enable")>>
InstallRunit    == <<Must("file"), Must("binary"), Try("enable")>>
InstallOpenRC   == <<Try("account"), Must("file"), Must("binary"), Must("enable")>>
InstallSysVinit == <<Try("account"), Must("file"), Must("binary"), Try("enable")>>
InstallLaunchd  == <<Must("dirs"), Try("account"), Must("file"), Must("binary")>>
InstallWindows  == <<Must("binary"), Must("create")>>
InstallBSDRC    == <<Must("dirs"), Try("account"), Must("file"), Must("binary")>>
InstallSystemdUser == <<Must("file"), Must("reload"), Must("enable-now")>>
InstallLaunchdUser == <<Must("file"), Must("enable-now")>>

\* Mutant: a binary that cannot be copied is passed over.
InstallAnyway ==
  CASE plan.manager = "systemd"      -> <<Must("dirs"), Try("account"), Must("file"), Try("binary"), Must("reload"), Must("enable")>>
    [] plan.manager = "runit"        -> InstallRunit
    [] plan.manager = "openrc"       -> InstallOpenRC
    [] plan.manager = "sysvinit"     -> InstallSysVinit
    [] plan.manager = "launchd"      -> InstallLaunchd
    [] plan.manager = "windows"      -> InstallWindows
    [] plan.manager = "bsdrc"        -> InstallBSDRC
    [] plan.manager = "systemd-user" -> InstallSystemdUser
    [] plan.manager = "launchd-user" -> InstallLaunchdUser

InstallSteps ==
  CASE plan.manager = "systemd"      -> InstallSystemd
    [] plan.manager = "runit"        -> InstallRunit
    [] plan.manager = "openrc"       -> InstallOpenRC
    [] plan.manager = "sysvinit"     -> InstallSysVinit
    [] plan.manager = "launchd"      -> InstallLaunchd
    [] plan.manager = "windows"      -> InstallWindows
    [] plan.manager = "bsdrc"        -> InstallBSDRC
    [] plan.manager = "systemd-user" -> InstallSystemdUser
    [] plan.manager = "launchd-user" -> InstallLaunchdUser

UninstallSystemd  == <<Try("stop"), Try("disable"), Must("remove"), Try("reload")>>
UninstallRunit    == <<Try("stop"), Try("disable"), Try("remove")>>
UninstallOpenRC   == <<Try("stop"), Try("disable"), Must("remove")>>
UninstallSysVinit == <<Try("stop"), Try("disable"), Must("remove")>>
UninstallLaunchd  == <<Try("stop"), Must("remove")>>
UninstallWindows  == <<Try("stop"), Must("delete")>>
UninstallBSDRC    == <<Try("stop"), Must("remove")>>

\* The system's service, then the data, then the account. A service of a user
\* is none of the system's: nothing is found, and the data are removed.
ServiceSteps ==
  CASE plan.manager = "systemd"  -> UninstallSystemd
    [] plan.manager = "runit"    -> UninstallRunit
    [] plan.manager = "openrc"   -> UninstallOpenRC
    [] plan.manager = "sysvinit" -> UninstallSysVinit
    [] plan.manager = "launchd"  -> UninstallLaunchd
    [] plan.manager = "windows"  -> UninstallWindows
    [] plan.manager = "bsdrc"    -> UninstallBSDRC
    [] OTHER -> <<>>

\* Mutant: the data are removed first.
DataFirst == <<Try("data")>> \o ServiceSteps \o <<Try("remove-account")>>

UninstallSteps == ServiceSteps \o <<Try("data"), Try("remove-account")>>

\* A manager that runs a script of the service to stop it, or reads its file.
ByScript == plan.manager \in {"runit", "openrc", "sysvinit", "launchd", "bsdrc"}

OfUser == plan.manager \in {"systemd-user", "launchd-user"}

\* The manager runs the server as its user, or as root, and then the server takes
\* that user once it listens, or ends if there is none.
NeedsAccount == ~OfUser /\ plan.manager # "windows"

\* userdel refuses while a process of the user runs; pw and dscl do not.
Userdel == plan.manager \in {"systemd", "runit", "openrc", "sysvinit"}

\* A binary that is run cannot be written.
Busy == host.running /\ plan.manager # "launchd"

\* Mutant: a directory is made anew.
PossibleOnce(what) ==
  CASE what = "account" -> host.account # "group"
    [] what = "dirs"    -> ~host.dirs
    [] what = "binary"  -> ~plan.elsewhere \/ ~Busy
    [] what = "create"  -> ~host.file
    [] what = "delete"  -> host.file
    [] what = "stop"    -> ByScript => host.file
    [] what = "remove-account" -> ~(host.running /\ Userdel)
    [] OTHER -> TRUE

\* What a step needs to succeed. groupadd fails if the group is there; sc.exe
\* creates a service only once and deletes only one that there is.
Possible(what) ==
  CASE what = "account" -> host.account # "group"
    [] what = "binary"  -> ~plan.elsewhere \/ ~Busy
    [] what = "create"  -> ~host.file
    [] what = "delete"  -> host.file
    [] what = "stop"    -> ByScript => host.file
    [] what = "remove-account" -> ~(host.running /\ Userdel)
    [] OTHER -> TRUE

\* The host after a step.
Done(what) ==
  CASE what = "dirs"           -> [host EXCEPT !.dirs = TRUE]
    [] what = "account"        -> [host EXCEPT !.account = IF @ = "partial" THEN @ ELSE "user"]
    [] what = "file"           -> [host EXCEPT !.file = TRUE]
    [] what = "binary"         -> [host EXCEPT !.binary = IF plan.elsewhere THEN "whole" ELSE @]
    [] what = "reload"         -> host
    [] what = "enable"         -> [host EXCEPT !.enabled = TRUE]
    [] what = "enable-now"     -> [host EXCEPT !.enabled = TRUE, !.running = TRUE]
    [] what = "create"         -> [host EXCEPT !.file = TRUE, !.enabled = TRUE]
    [] what = "stop"           -> [host EXCEPT !.running = FALSE]
    [] what = "disable"        -> [host EXCEPT !.enabled = FALSE]
    [] what = "remove"         -> [host EXCEPT !.file = FALSE]
    [] what = "delete"         -> [host EXCEPT !.file = FALSE, !.enabled = FALSE]
    [] what = "data"           -> [host EXCEPT !.dirs = FALSE, !.data = FALSE]
    [] what = "remove-account" -> [host EXCEPT !.account = IF @ = "group" THEN @ ELSE "none"]

\* What it may leave when it fails half-way: the group without its user, or on
\* macOS a user, without its ids perhaps, which counts as one; a truncated binary.
Halfway(what) ==
  CASE what = "account" /\ host.account = "none" ->
         {host} \cup {[host EXCEPT !.account = a] :
                         a \in IF plan.manager = "launchd" THEN {"partial", "user"} ELSE {"group"}}
    [] what = "binary" /\ plan.elsewhere /\ ~Busy -> {[host EXCEPT !.binary = "torn"]}
    [] OTHER -> {host}

\* installService, Install, InstallUser, or Uninstall when it is confirmed.
Run(kind, steps) ==
  /\ cmd.kind = "none" /\ commands < plan.commands /\ commands' = commands + 1
  /\ cmd' = [kind |-> kind, steps |-> steps, clean |-> TRUE, passed |-> {}]
  /\ told' = NotTold
  /\ UNCHANGED <<host, faults, launches>>

\* The command ends and tells how.
End(ok) ==
  /\ cmd' = NoCommand
  /\ told' = [kind |-> cmd.kind, ok |-> ok, clean |-> cmd.clean, passed |-> cmd.passed]

GoOn == cmd' = [cmd EXCEPT !.steps = Tail(@)] /\ UNCHANGED told

\* The command warns of its step, if at all, and goes on without it.
PassOver(clean) ==
  /\ cmd' = [cmd EXCEPT !.steps = Tail(@), !.clean = @ /\ clean,
                        !.passed = @ \cup {Head(cmd.steps).do}]
  /\ UNCHANGED told

Succeeds ==
  /\ cmd.steps # <<>> /\ Possible(Head(cmd.steps).do)
  /\ host' = Done(Head(cmd.steps).do) /\ GoOn
  /\ UNCHANGED <<commands, faults, launches>>

\* A step that cannot succeed fails without a fault.
Refused ==
  /\ cmd.steps # <<>> /\ ~Possible(Head(cmd.steps).do)
  /\ IF Head(cmd.steps).must THEN End(FALSE) ELSE PassOver(TRUE)
  /\ UNCHANGED <<host, commands, faults, launches>>

Fails ==
  /\ cmd.steps # <<>> /\ Possible(Head(cmd.steps).do)
  /\ faults < plan.faults /\ faults' = faults + 1
  /\ host' \in Halfway(Head(cmd.steps).do)
  /\ IF Head(cmd.steps).must
     THEN cmd' = NoCommand /\ told' = [kind |-> cmd.kind, ok |-> FALSE, clean |-> FALSE, passed |-> cmd.passed]
     ELSE PassOver(FALSE)
  /\ UNCHANGED <<commands, launches>>

Finished ==
  /\ cmd.kind # "none" /\ cmd.steps = <<>> /\ End(TRUE)
  /\ UNCHANGED <<host, commands, faults, launches>>

\* ctrl+c, or the power, cuts the command off.
CutOff ==
  /\ cmd.steps # <<>> /\ faults < plan.faults /\ faults' = faults + 1
  /\ cmd' = NoCommand /\ told' = NotTold
  /\ host' \in {host} \cup Halfway(Head(cmd.steps).do)
  /\ UNCHANGED <<commands, launches>>

\* The binary that the service names is there; a user's service names the one that
\* was run.
HasBinary == host.binary # "torn" /\ (plan.elsewhere /\ ~OfUser => host.binary = "whole")

Startable == host.file /\ HasBinary /\ (NeedsAccount => host.account = "user")

\* The manager starts what is installed: by Start, at boot, or again when it
\* ended. The server fills its directories.
StartService ==
  /\ ~host.running /\ Startable
  /\ launches < plan.launches /\ launches' = launches + 1
  /\ host' = [host EXCEPT !.running = TRUE, !.dirs = TRUE, !.data = TRUE]
  /\ UNCHANGED <<cmd, told, commands, faults>>

\* Stop, or the server ends.
StopService ==
  /\ host.running /\ host' = [host EXCEPT !.running = FALSE]
  /\ UNCHANGED <<cmd, told, commands, faults, launches>>

\* serviceDisable, which on Linux speaks to systemd only and stops nothing, and
\* on macOS unloads the daemon.
Disable ==
  /\ cmd.kind = "none"
  /\ \/ plan.manager = "systemd" /\ host' = [host EXCEPT !.enabled = FALSE]
     \/ plan.manager = "launchd" /\ host.file /\ host' = [host EXCEPT !.running = FALSE]
  /\ told' = NotTold
  /\ UNCHANGED <<cmd, commands, faults, launches>>

ServiceNext ==
  /\ UNCHANGED plan
  /\ \/ Run("install", InstallSteps) \/ Run("uninstall", UninstallSteps)
     \/ Succeeds \/ Refused \/ Fails \/ Finished \/ CutOff
     \/ StartService \/ StopService \/ Disable

ServiceSpec == ServiceInit /\ [][ServiceNext]_<<plan, serviceVars>>

-----------------------------------------------------------------------------
\* What the steps of an install are for.
Meant == {InstallSteps[i].do : i \in DOMAIN InstallSteps}

\* What a command says when it ends is true, whatever earlier commands left half
\* done and whatever starts meanwhile, but for the steps it passed over. After an
\* install the service is there with a whole binary, enabled if the manager knows of
\* that; and if the install makes an account, the service can start, unless the
\* account is a half-made one of macOS. After an uninstall nothing remains but the
\* binary and a group whose user was never made.
TrueWhenTold ==
  /\ (told.kind = "install" /\ told.ok) =>
       /\ host.file /\ HasBinary
       /\ (Meant \ told.passed) \cap {"enable", "enable-now", "create"} # {} => host.enabled
       /\ "account" \in Meant \ told.passed => Startable \/ host.account = "partial"
  /\ (told.kind = "uninstall" /\ told.ok /\ ~OfUser) =>
       /\ "remove" \notin told.passed => ~host.file
       /\ "data" \notin told.passed /\ ~host.file => ~host.data
       /\ "remove-account" \notin told.passed => host.account \in {"none", "group"}
       /\ plan.manager \notin {"launchd", "bsdrc"} /\ "disable" \notin told.passed => ~host.enabled

\* An install that meets no failure of its own succeeds, however the commands
\* before it ended, but for a binary in use and the service manager of Windows.
InstallRepeats ==
  [][(told'.kind = "install" /\ told'.clean /\ told.kind = "none") =>
       (told'.ok \/ host.running \/ plan.manager = "windows")]_serviceVars

\* The data of the server are removed only after its service, so that an
\* uninstall that fails leaves a server that works; but for a service of runit,
\* whose removal is not checked, and one of a user, which is not found.
DataGoesLast ==
  [][(host.data /\ ~host'.data) => (~host.file \/ plan.manager = "runit" \/ OfUser)]_serviceVars

=============================================================================
