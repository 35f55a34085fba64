----------------------------- MODULE HttpServer -----------------------------
(***************************************************************************)
(* The middleware of src/server/server.go around its handlers, in its      *)
(* order: the limiter, the country policy, the statistics, the handler;    *)
(* with the clock, the GeoIP updates of the server and of a command, and   *)
(* the sweeps beside it, and a process that dies and is started again.     *)
(***************************************************************************)
EXTENDS RateLimiter, GeoDatabases, RequestStats, AdminSessions

vars == <<reqVars, limitVars, geoVars, statsVars, sessionVars>>

Init ==
  /\ RequestsInit /\ LimiterInit /\ GeoInit /\ StatsInit /\ SessionsInit

NewRequest(r) ==
  /\ Arrive(r, 0..ids)
  /\ UNCHANGED <<limitVars, geoVars, statsVars, sessionVars>>

Limiting(r) ==
  /\ Allow(r)
  /\ UNCHANGED <<now, left, geoVars, statsVars, sessionVars>>

Locating(r) ==
  /\ TakeReader(r) \/ Lookup(r)
  /\ UNCHANGED <<now, left, limitVars, statsVars, sessionVars>>

Counting(r) ==
  /\ Begin(r) \/ Bucket(r) \/ Panic(r) \/ SnapTotal(r) \/ SnapSum(r)
  /\ UNCHANGED <<now, left, limitVars, geoVars, sessionVars>>

\* A page, and the answers of the handlers of a session.
Page(r) == At(r, "handler") /\ req[r].kind = "page" /\ Finish(r) /\ UNCHANGED sessionVars

Serving(r) ==
  /\ \/ Page(r)
     \/ Login(r) /\ Finish(r)
     \/ LoginFails(r) /\ Finish(r)
     \/ NoSession(r) /\ Finish(r)
     \/ Refresh(r) /\ Finish(r)
     \/ Delete(r) /\ Finish(r)
     \/ (CheckSession(r) \/ Logout(r)) /\ UNCHANGED statsVars
  /\ UNCHANGED <<now, left, limitVars, geoVars>>

Updating(u) ==
  /\ BeginUpdate(u) \/ Download(u) \/ Reload(u)
  /\ UNCHANGED <<reqVars, limitVars, statsVars, sessionVars>>

Commanding ==
  /\ BeginCommand \/ CommandDownload
  /\ UNCHANGED <<reqVars, limitVars, statsVars, sessionVars>>

Sweep == Cleanup /\ UNCHANGED <<reqVars, limitVars, geoVars, statsVars>>

\* A request takes less than 24 hours.
Tick ==
  /\ now < plan.until
  /\ \A r \in Conns : req[r].pc \in {"bucket", "sum"} => now + 1 - req[r].at < Slots
  /\ now' = now + 1
  /\ UNCHANGED <<req, left, limitVars, geoVars, statsVars, sessionVars>>

\* The process ends, by a fault of its own or by the signal of a lookup in a
\* database that is closed, and starts again.
Dies ==
  /\ \/ Fault
     \/ (\E r \in Conns : LookupFaults(r)) /\ UNCHANGED faults
  /\ req' = [r \in Conns |-> NoRequest]
  /\ LimiterRestarts /\ GeoRestarts /\ StatsRestart /\ SessionsLost
  /\ UNCHANGED <<now, left>>

RequestStep(r) == Limiting(r) \/ Locating(r) \/ Counting(r) \/ Serving(r)

Next ==
  /\ UNCHANGED plan
  /\ \/ \E r \in Conns : NewRequest(r) \/ RequestStep(r)
     \/ \E u \in Updaters : Updating(u)
     \/ Commanding \/ Sweep \/ Tick \/ Dies

Spec == Init /\ [][Next]_<<plan, vars>>
=============================================================================
