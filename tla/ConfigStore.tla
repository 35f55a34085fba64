---------------------------- MODULE ConfigStore ----------------------------
(***************************************************************************)
(* src/config/config.go: the file server.yml and the copies of it in the   *)
(* memory of the programs. A configuration is a function from fields to    *)
(* values; what matters of a field is whether a save writes it.            *)
(***************************************************************************)
EXTENDS Programs

CONSTANTS None,                    \* there is no file
          Torn,                    \* it is truncated and not written again
          Ports,                   \* what randomPort may return
          HostName,                \* what detectFQDN returns
          EnvMode                  \* the variable MODE of the server, or ""

\* DefaultConfig, for settings that stand for the others of their kind: computed
\* at the first run ("port", "fqdn"), set by commands ("mode", "branch"), by hand
\* ("ssl"), by the server ("smtp"), and known to the program only ("backup").
Default == [port |-> "", fqdn |-> "", mode |-> "production", branch |-> "stable",
            ssl |-> "off", smtp |-> "", backup |-> "off"]

Fields == DOMAIN Default

ASSUME ConfigAssumption ==
  \A s \in Plans : s.file # None => DOMAIN s.file = Fields

\* The settings that have a line in the template of generateConfigYAML.
Rendered == Fields \ {"backup"}

VARIABLES file,                    \* server.yml
          mem,                     \* the configuration each program holds
          current,                 \* config.current is set: Update works
          open,                    \* the programs that have truncated the file
          \* history:
          said,                    \* the value last acknowledged, by field
          outdated,                \* by program: set since its copy was loaded
          reverted,                \* since undone by a save of such a copy, or
                                   \* lost with a torn file
          wiped                    \* left out by the last save

server_yml  == <<file, open>>
saidHistory == <<said, reverted, wiped>>
configVars  == <<file, mem, current, open, outdated, saidHistory>>

\* What Load computes for settings that the file leaves empty.
Ported(c, port) == [c EXCEPT !["port"] = IF @ = "" THEN port ELSE @]
Named(c)        == [c EXCEPT !["fqdn"] = IF @ = "" THEN HostName ELSE @]

ConfigInit ==
  /\ file = plan.file
  /\ mem = [p \in Programs |-> Default]
  /\ current = [p \in Programs |-> FALSE]
  /\ open = {}
  /\ said = IF file = None THEN Default ELSE file
  /\ outdated = [p \in Programs |-> {}] /\ reverted = {} /\ wiped = {}

\* generateConfigYAML, read back: a setting that it does not write, or writes
\* as a constant, has its default again.
Written(c) == [f \in Fields |-> IF f \in Rendered THEN c[f] ELSE Default[f]]

LoadDone(p, c, ok, place) ==
  /\ mem' = [mem EXCEPT ![p] = c]
  /\ current' = [current EXCEPT ![p] = ok]
  /\ Goto(p, place)
  /\ outdated' = [outdated EXCEPT ![p] = {}]

\* No file: the defaults and a port that is free, to be written.
LoadMissing(p) ==
  /\ at[p] = "load" /\ file = None
  /\ \E port \in Ports : LoadDone(p, Named(Ported(Default, port)), FALSE, "created")
  /\ UNCHANGED <<server_yml, saidHistory>>

\* A file, perhaps with a hand-made gap where the port was, which is repaired
\* before the name is looked for.
LoadFile(p) ==
  /\ at[p] = "load" /\ file \notin {None, Torn}
  /\ IF file["port"] = ""
     THEN \E port \in Ports : LoadDone(p, Ported(file, port), TRUE, "ported")
     ELSE LoadDone(p, Named(file), TRUE, "loaded")
  /\ UNCHANGED <<server_yml, saidHistory>>

\* A torn file is empty, which is a configuration without any setting ...
LoadEmpty(p) ==
  /\ at[p] = "load" /\ file = Torn
  /\ \E port \in Ports : LoadDone(p, Ported(Default, port), TRUE, "ported")
  /\ reverted' = Fields
  /\ UNCHANGED <<server_yml, said, wiped>>

\* ... or does not parse: main goes on with the defaults, which have no port;
\* the second load of --maintenance setup ends with a nil pointer.
LoadFails(p) ==
  /\ at[p] = "load" /\ file = Torn
  /\ LoadDone(p, Default, FALSE, IF job[p] = "reset" THEN "exit" ELSE "loaded")
  /\ UNCHANGED <<server_yml, saidHistory>>

\* os.WriteFile of saveConfig, first half.
Truncate(p) ==
  /\ at[p] \in Saves /\ p \notin open
  /\ file' = Torn
  /\ open' = open \cup {p}
  /\ UNCHANGED <<at, mem, current, outdated, saidHistory>>

\* The fields whose new value the caller of a save is told of.
Acknowledged(p) ==
  CASE at[p] = "created" -> Rendered
    [] at[p] = "ported"  -> {"port"}
    [] at[p] = "smtp"    -> {"smtp"}
    [] OTHER -> IF job[p] = "reset" THEN Rendered \ {"port", "fqdn"} ELSE {job[p]}

\* Where main goes on after a save.
After(p) ==
  CASE at[p] \in {"created", "ported"} -> "loaded"
    [] at[p] = "smtp" -> "running"
    [] OTHER -> "exit"

\* The copies that the programs of Q hold lack what is now set in the file.
Outdate(Q, set) ==
  outdated' = [q \in Programs |->
                 IF q \in Q /\ Up(q) /\ at[q] # "load" THEN outdated[q] \cup set ELSE {}]

\* The configuration of p after the save of a repair, which Load goes on with.
Repaired(p) == IF at[p] = "ported" THEN [mem EXCEPT ![p] = Named(mem[p])] ELSE mem

\* The second half. When another program wrote in between, the longer of the
\* two texts may show behind the shorter one.
Fill(p) ==
  /\ p \in open
  /\ file' \in {Written(mem[p])} \cup (IF file = Torn THEN {} ELSE {Torn})
  /\ said' = [f \in Fields |-> IF f \in Acknowledged(p) THEN mem[p][f] ELSE said[f]]
  /\ reverted' = (reverted \cup outdated[p]) \ Acknowledged(p)
  /\ wiped' = Fields \ Rendered
  /\ Outdate(Programs \ {p}, Acknowledged(p))
  /\ open' = open \ {p}
  /\ mem' = Repaired(p)
  /\ current' = [current EXCEPT ![p] = TRUE]
  /\ Goto(p, After(p))

\* A save that fails: Load gives up the file it was to create, for which the
\* second load of --maintenance setup ends, and ignores one it was to repair, a
\* command reports the error, the server only logs it.
SaveFails(p) ==
  /\ at[p] \in Saves /\ Fault
  /\ open' = open \ {p}
  /\ mem' = IF at[p] = "created" THEN [mem EXCEPT ![p] = Default] ELSE Repaired(p)
  /\ Goto(p, IF at[p] = "created" /\ job[p] = "reset" THEN "exit" ELSE After(p))
  /\ UNCHANGED <<file, current, outdated, saidHistory, job>>

\* The value that a command sets.
CommandValue == [mode |-> "development", branch |-> "beta"]

\* Mutant: setup resets the whole section server.
AfterCommandResettingPort(p) ==
  IF job[p] = "reset" THEN Default
  ELSE [mem[p] EXCEPT ![job[p]] = CommandValue[job[p]]]

\* config.Update as called by --mode, --update branch and --maintenance setup.
AfterCommand(p) ==
  IF job[p] = "reset"
  THEN [Default EXCEPT !["port"] = mem[p]["port"], !["fqdn"] = mem[p]["fqdn"]]
  ELSE [mem[p] EXCEPT ![job[p]] = CommandValue[job[p]]]

Command(p) ==
  /\ at[p] = "loaded" /\ job[p] \in {"mode", "branch", "reset"}
  /\ IF current[p]
     THEN mem' = [mem EXCEPT ![p] = AfterCommand(p)] /\ Goto(p, "command")
     ELSE Goto(p, "exit") /\ UNCHANGED mem
  /\ UNCHANGED <<server_yml, current, outdated, saidHistory>>

\* The server lets MODE override its copy, which is the one a save writes.
Override(p) ==
  mem' = [mem EXCEPT ![p]["mode"] = IF EnvMode # "" /\ @ = "production" THEN EnvMode ELSE @]

\* initEmail: a mail server that is found is kept in the file.
DetectSMTP(p) ==
  /\ at[p] = "email"
  /\ \/ /\ mem[p]["smtp"] = ""
        /\ mem' = [mem EXCEPT ![p]["smtp"] = "detected"]
        /\ Goto(p, IF current[p] THEN "smtp" ELSE "running")
     \/ Goto(p, "running") /\ UNCHANGED mem
  /\ UNCHANGED <<server_yml, current, outdated, saidHistory>>

\* The operator changes a setting in the file.
Edit(f, v) ==
  /\ file \notin {None, Torn} /\ open = {}
  /\ file[f] # v
  /\ file' = [file EXCEPT ![f] = v]
  /\ said' = [said EXCEPT ![f] = v]
  /\ reverted' = reverted \ {f} /\ wiped' = wiped \ {f}
  /\ Outdate(Programs, {f})
  /\ UNCHANGED <<mem, current, open>>

\* A program that ends or dies closes the file as it is.
Released(p) == open' = open \ {p}
=============================================================================
