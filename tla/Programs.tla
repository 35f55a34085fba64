------------------------------ MODULE Programs ------------------------------
(***************************************************************************)
(* What the parts of an installation share: programs that run main of      *)
(* src/main.go, each at one place of it and with one job, and a budget of  *)
(* faults (a crash, or an operating system call that fails).               *)
(***************************************************************************)
EXTENDS Naturals, Sequences, FiniteSets

CONSTANTS Programs,                \* the processes that may run at a time
          Plans,                   \* the circumstances considered, see plan
          MaxFaults                \* bound on crashes and failing calls

\* The flags of main: --mode, --update branch, --maintenance setup, --update
\* yes, --status, and none for the server; "reset" is the second half of setup.
AllJobs == {"serve", "mode", "branch", "setup", "reset", "update", "status"}

ASSUME ProgramsAssumption ==
  /\ MaxFaults \in Nat
  /\ \A s \in Plans : /\ s.ops \in Nat /\ s.releases \in Nat
                     /\ s.jobs \in [Programs -> SUBSET (AllJobs \ {"reset"})]

VARIABLES plan,                    \* the circumstances of this behaviour
          at,                      \* where main of each program is
          job,                     \* the command line it was started with
          faults

control == <<at, job, faults>>

\* A plan says what surrounds the programs: the server.yml they find (file),
\* whether there are no credentials yet (fresh), the jobs each program may be
\* started with (jobs), the edits by hand (edits), how many commands and edits (ops)
\* and how many releases (releases) there will be, certbot's pair ("none", or
\* "mixed" while it exchanges its two links), if Let's Encrypt can be asked (acme:
\* it is enabled, the name is no .onion, .i2p or .exit, the challenge is not
\* dns-01), if the temporary directory and the binary share a file system (rename),
\* and if os.Executable follows a binary that is renamed, as on Linux (follows).

\* The places of main at which a save of the configuration may be pending.
Saves == {"created", "ported", "command", "smtp"}

Places == Saves \cup {"down", "exit", "load", "loaded", "migrate", "has", "insert",
                      "print", "pid", "email", "running"}

ProgramsInit ==
  /\ plan \in Plans
  /\ at = [p \in Programs |-> "down"]
  /\ job = [p \in Programs |-> "serve"]
  /\ faults = 0

Goto(p, place) == at' = [at EXCEPT ![p] = place]

CanFail == faults < MaxFaults
Fault   == CanFail /\ faults' = faults + 1
Up(p)   == at[p] \notin {"down", "exit"}

\* Past the PID file: the one server of the installation.
Serving(p) == job[p] = "serve" /\ at[p] \in {"email", "smtp", "running"}
=============================================================================
