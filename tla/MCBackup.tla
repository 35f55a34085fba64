------------------------------ MODULE MCBackup ------------------------------
(* The daily task, a command that writes what the daily task writes (scheduler *)
(* run backup_daily), and one restore.                                        *)
EXTENDS Backup, TLC

CONSTANTS daily, cmd, r1

MCNameOf == (daily :> "daily") @@ (cmd :> "daily")
MCCasts == {{daily, cmd}, {daily, r1}}
=============================================================================
