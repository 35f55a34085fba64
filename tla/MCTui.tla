-------------------------------- MODULE MCTui --------------------------------
(* Plans for the questions, for the wizard beside flags and commands, and for  *)
(* a server that hangs.                                                        *)
EXTENDS Tui

CONSTANTS u1, u2

Base == [file |-> u1, flag |-> None, env |-> None, command |-> None, others |-> FALSE, typed |-> {}, items |-> {},
         keys |-> 6, faults |-> 0, hung |-> {}]

MCPlans ==
  {[Base EXCEPT !.items = {"list", "categories", "combine", "stats", "search"}],
   [Base EXCEPT !.file = NoFile, !.typed = {u1, u2, Bad}, !.items = {"settings", "list"}, !.command = u2, !.others = TRUE, !.faults = 1],
   [Base EXCEPT !.file = Bad, !.flag = u2, !.typed = {u1}, !.items = {"settings"}, !.command = u1, !.faults = 1],
   [Base EXCEPT !.file = NoFile, !.env = u2, !.typed = {u1}, !.items = {"settings", "list"}, !.hung = {u1}, !.keys = 5]}
=============================================================================
