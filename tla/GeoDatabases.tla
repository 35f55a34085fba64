---------------------------- MODULE GeoDatabases ----------------------------
(***************************************************************************)
(* src/geoip: the country database that the middleware looks clients up    *)
(* in. The weekly task and the first download at the start replace the     *)
(* file and reload the reader; "scheduler run geoip_update" replaces the   *)
(* file in a process of its own, whose reader is not the server's. A       *)
(* lookup takes the reader under the lock and uses it after.               *)
(***************************************************************************)
EXTENDS Requests

CONSTANTS Updaters,                \* the weekly task, the first download
          MaxVersions              \* bound on the updates

VARIABLES disk,                    \* the version of the file; 0: none
          reader,                  \* the open reader and its version; 0: none
          open,                    \* readers that are open
          loads,                   \* readers opened so far
          versions,                \* versions published so far
          upd,                     \* each updater: its place, the version it gets
          command,                 \* the version that a command gets; 0: none runs
          faults,
          \* history:
          unseen                   \* a command replaced the file, and the server
                                   \* has not loaded it since

geoVars == <<disk, reader, open, loads, versions, upd, command, faults, unseen>>

Waiting  == [pc |-> "idle", version |-> 0]
NoReader == [id |-> 0, version |-> 0]

GeoInit ==
  /\ disk = 0 /\ reader = NoReader /\ open = {} /\ loads = 0 /\ versions = 0
  /\ upd = [u \in Updaters |-> Waiting] /\ command = 0 /\ faults = 0 /\ unseen = FALSE

Fault == faults < plan.faults /\ faults' = faults + 1
GoUpd(u, pc) == upd' = [upd EXCEPT ![u].pc = pc]

\* Mutant: the old readers stay open.
LoadKeeps ==
  /\ unseen' = FALSE
  /\ IF disk = 0
     THEN reader' = NoReader /\ UNCHANGED <<open, loads>>
     ELSE /\ loads' = loads + 1
          /\ reader' = [id |-> loads', version |-> disk]
          /\ open' = open \cup {loads'}

\* Load, under the write lock: it closes what is open and opens the file that is
\* there. A file that does not parse is as none; a complete download does.
Load ==
  /\ unseen' = FALSE
  /\ IF disk = 0
     THEN reader' = NoReader /\ open' = {} /\ UNCHANGED loads
     ELSE /\ loads' = loads + 1
          /\ reader' = [id |-> loads', version |-> disk]
          /\ open' = {loads'}

\* The scheduler runs geoip_update, main calls bootstrapGeoIP, which looks
\* whether a database is loaded.
BeginUpdate(u) ==
  /\ upd[u].pc = "idle" /\ plan.geo /\ versions < MaxVersions
  /\ u = "first" => reader.id = 0
  /\ versions' = versions + 1
  /\ upd' = [upd EXCEPT ![u] = [pc |-> "download", version |-> versions']]
  /\ UNCHANGED <<disk, reader, open, loads, command, faults, unseen>>

\* downloadFile into a file of its own, renamed when it is complete; a download
\* that fails leaves the old file, and the reload follows all the same.
Download(u) ==
  /\ upd[u].pc = "download"
  /\ \/ disk' = upd[u].version /\ UNCHANGED faults
     \/ Fault /\ UNCHANGED disk
  /\ GoUpd(u, "load")
  /\ UNCHANGED <<reader, open, loads, versions, command, unseen>>

Reload(u) ==
  /\ upd[u].pc = "load" /\ Load /\ GoUpd(u, "idle")
  /\ UNCHANGED <<disk, versions, command, faults>>

\* schedulerCLI runs geoip_update with a manager of its own: newGeoIP loads what
\* is there, and RunNow downloads ...
BeginCommand ==
  /\ command = 0 /\ plan.geo /\ versions < MaxVersions
  /\ versions' = versions + 1 /\ command' = versions'
  /\ UNCHANGED <<disk, reader, open, loads, upd, faults, unseen>>

\* ... and renames, or fails. It reloads its own reader and ends; nothing tells
\* the server.
CommandDownload ==
  /\ command # 0
  /\ \/ disk' = command /\ unseen' = TRUE /\ UNCHANGED faults
     \/ Fault /\ UNCHANGED <<disk, unseen>>
  /\ command' = 0
  /\ UNCHANGED <<reader, open, loads, versions, upd>>

\* CountryAllowed: LookupCountry takes the reader ...
TakeReader(r) ==
  /\ At(r, "geo")
  /\ IF ~req[r].caller.private /\ reader.id # 0
     THEN req' = [req EXCEPT ![r].pc = "lookup", ![r].reader = reader.id]
     ELSE BehindGeo(r)
  /\ UNCHANGED geoVars

\* ... and looks up in it: a country that is denied, or not allowed, is refused.
\* A closed reader returns an error, and the request passes.
Lookup(r) ==
  /\ At(r, "lookup")
  /\ IF req[r].reader \in open /\ req[r].caller.denied THEN Answer(r) ELSE BehindGeo(r)
  /\ UNCHANGED geoVars

\* The database was unmapped under the lookup.
LookupFaults(r) == At(r, "lookup") /\ req[r].reader \notin open

\* A new server: newGeoIP loads what is there, and the updates that ran are gone,
\* but for that of a command.
GeoRestarts ==
  /\ upd' = [u \in Updaters |-> Waiting]
  /\ Load
  /\ UNCHANGED <<disk, versions, command>>

-----------------------------------------------------------------------------
\* Outside of an update of the server the database that is loaded is the one on
\* the disk, be there two updates at once, one that fails or one of a command
\* beside them; and no other reader stays open, that nobody could close any more.
\* Only a file that a command put there after the server's last load is not the
\* one in use, until an update or a restart (scheduler_wire.go:125).
Fresh ==
  /\ (~unseen /\ \A u \in Updaters : upd[u].pc = "idle") => reader.version = disk
  /\ open = {reader.id} \ {0}
=============================================================================
