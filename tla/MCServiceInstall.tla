-------------------------- MODULE MCServiceInstall --------------------------
(* Each service manager, with the command run from elsewhere or from the     *)
(* binary's own place, and the account there already or not: three commands, *)
(* two faults.                                                               *)
EXTENDS ServiceInstall

MCPlans == [manager : Managers, elsewhere : BOOLEAN, account : {"none", "user"},
            commands : {3}, faults : {2}, launches : {2}]
=============================================================================
