---------------------------- MODULE ClientConfig ----------------------------
(***************************************************************************)
(* src/client: cli.yml, of which the server's address is kept, the         *)
(* processes that write it, and how gitignore-cli starts. A save truncates *)
(* the file and writes it, without a lock: the wizard of the TUI saves in  *)
(* goroutines, which share the configuration with it, and a command run    *)
(* from another terminal may write the file at the same time.              *)
(***************************************************************************)
EXTENDS Naturals, FiniteSets

CONSTANTS Servers,                 \* valid addresses
          Bad,                     \* an address that is not valid
          None, NoFile, Torn,
          WizardSaves,             \* saves of the wizard at once
          Plans                    \* the scenarios, see plan

ASSUME ClientAssumption == Servers \cap {None, NoFile} = {} /\ "command" \notin WizardSaves

VARIABLES plan,                    \* one of Plans, the same throughout: the file
                                   \* at first, the flag and the environment of the
                                   \* TUI, the commands' flag and whether they have
                                   \* others to save, what the user types, how many
                                   \* keys he hits, faults, the servers that hang
          up,                      \* the TUI runs
          file,                    \* cli.yml: its server, or NoFile, Torn
          primary,                 \* cfg.Server.Primary of the TUI
          base,                    \* client.BaseURL of the TUI
          saves,                   \* each save: its place and what it writes
          faults,
          kept,                    \* history: the address the wizard saved last,
          mixed                    \* and whether saves met, or were cut off

configVars == <<up, file, primary, base, saves, faults, kept, mixed>>

Savers == WizardSaves \cup {"command"}

NoSave   == [pc |-> "none", data |-> None]
Active   == {s \in Savers : saves[s].pc \in {"begun", "open"}}
Fault    == faults < plan.faults /\ faults' = faults + 1

ConfigInit ==
  /\ plan \in Plans
  /\ up = FALSE /\ primary = None /\ base = None /\ file = plan.file
  /\ saves = [s \in Savers |-> NoSave]
  /\ faults = 0 /\ kept = None /\ mixed = FALSE

\* Load: a file that is not there is made, with no server; so reads an empty one.
Stored == IF file = NoFile THEN None ELSE file

\* Mutant: the flag is kept whatever there is.
FlagAlways(current, flag) == flag \in Servers

\* SaveIfEmptyOrInvalid: a valid flag is kept where there is no valid address.
FlagKept(current, flag) == flag \in Servers /\ current \notin Servers

\* ResolveServer.
Resolve(flag, stored) ==
  IF flag # None THEN flag ELSE IF plan.env # None THEN plan.env ELSE stored

\* main up to the TUI: the configuration, the flag, the address.
Start ==
  LET keep   == FlagKept(Stored, plan.flag)
      server == IF keep THEN plan.flag ELSE Stored
  IN  /\ ~up /\ file # Torn
      /\ up' = TRUE
      /\ primary' = server /\ base' = Resolve(plan.flag, server)
      /\ \/ file' = server /\ UNCHANGED faults
         \/ keep /\ Fault /\ file' = None
      /\ mixed' = (mixed \/ (keep /\ Active # {}) \/ \E s \in Active : saves[s].pc = "open")
      /\ UNCHANGED <<saves, kept>>

\* A save begins; from now on it may meet another.
Begin(s, data) ==
  /\ saves' = [saves EXCEPT ![s] = [pc |-> "begun", data |-> data]]
  /\ mixed' = (mixed \/ Active # {})

\* A command in another terminal, with a flag that it keeps: --server, or one of
\* --lang, --color and --output. Its copy of everything else is saved as well.
Command ==
  /\ saves["command"].pc = "none" /\ file # Torn
  /\ LET keep == FlagKept(Stored, plan.command)
     IN  (keep \/ plan.others) /\ Begin("command", IF keep THEN plan.command ELSE Stored)
  /\ file' = Stored
  /\ UNCHANGED <<up, primary, base, faults, kept>>

\* Save: the configuration as it is now is marshalled, the file truncated; ...
OpenFile(s) ==
  /\ saves[s].pc = "begun"
  /\ saves' = [saves EXCEPT ![s] = [pc |-> "open", data |-> IF s = "command" THEN @.data ELSE primary]]
  /\ file' = None
  /\ UNCHANGED <<up, primary, base, faults, kept, mixed>>

\* ... then it is written from its start, over what another save may have
\* written meanwhile, whose end remains if it is longer.
WriteFile(s) ==
  /\ saves[s].pc = "open"
  /\ \/ /\ file' \in IF file \in {None, saves[s].data} THEN {saves[s].data} ELSE {saves[s].data, Torn}
        /\ kept' = IF s = "command" THEN kept ELSE saves[s].data
        /\ UNCHANGED <<faults, mixed>>
     \/ Fault /\ mixed' = TRUE /\ UNCHANGED <<file, kept>>
  /\ saves' = [saves EXCEPT ![s] = IF s = "command" THEN NoSave
                                   ELSE [pc |-> IF faults' = faults THEN "saved" ELSE "failed", data |-> None]]
  /\ UNCHANGED <<up, primary, base>>

\* The process of the TUI ends, and its saves with it.
ProcessEnds ==
  /\ up' = FALSE /\ primary' = None /\ base' = None
  /\ mixed' = (mixed \/ Active \cap WizardSaves # {})
  /\ saves' = [s \in Savers |-> IF s \in WizardSaves THEN NoSave ELSE saves[s]]

-----------------------------------------------------------------------------
\* The address that was entered in the wizard stays, in the file and in the
\* program, over flags, commands and starts, until another one is entered;
\* unless two saves overlap, one fails or is cut off, or a program starts in the
\* middle of one.
WizardSticks ==
  (Active = {} /\ ~mixed /\ kept # None) => file = kept /\ (up => primary = kept)
=============================================================================
