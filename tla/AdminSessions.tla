---------------------------- MODULE AdminSessions ----------------------------
(***************************************************************************)
(* src/admin: the sessions of the administrator, kept in memory. Every     *)
(* operation takes the lock of AuthManager, but requireSession looks the   *)
(* session up, refreshes it and serves the page in three steps, and a      *)
(* logout looks it up and deletes it in two.                               *)
(***************************************************************************)
EXTENDS Requests, Functions, TLC

CONSTANTS Timeout,                 \* sessionTimeout
          MaxSessions

VARIABLES sessions,                \* id |-> ExpiresAt
          ids,                     \* sessions made so far
          gone                     \* history: the sessions logged out

sessionVars == <<sessions, ids, gone>>

NoSessions == [id \in {} |-> 0]

SessionsInit == sessions = NoSessions /\ ids = 0 /\ gone = {}

Valid(id) == id \in DOMAIN sessions /\ now <= sessions[id]

\* handleAdminLoginPost with the right password: CreateSession.
Login(r) ==
  /\ At(r, "handler") /\ req[r].kind = "login" /\ ids < MaxSessions
  /\ ids' = ids + 1
  /\ sessions' = [id \in {ids'} \cup DOMAIN sessions |-> IF id = ids' THEN now + Timeout ELSE sessions[id]]
  /\ UNCHANGED gone

\* With a wrong one, or none set up, the form again.
LoginFails(r) == At(r, "handler") /\ req[r].kind = "login" /\ UNCHANGED sessionVars

\* requireSession: GetSessionFromRequest.
CheckSession(r) ==
  /\ At(r, "handler") /\ req[r].kind = "admin" /\ Valid(req[r].cookie)
  /\ Go(r, "refresh")
  /\ UNCHANGED sessionVars

NoSession(r) ==
  /\ At(r, "handler") /\ req[r].kind \in {"admin", "logout"} /\ ~Valid(req[r].cookie)
  /\ UNCHANGED sessionVars

\* Mutant: the session that was looked up is put back.
RefreshPutsBack(r) ==
  /\ At(r, "refresh")
  /\ sessions' = (req[r].cookie :> now + Timeout) @@ sessions
  /\ UNCHANGED <<ids, gone>>

\* RefreshSession, and the page, even if the session is gone by now.
Refresh(r) ==
  /\ At(r, "refresh")
  /\ sessions' = IF req[r].cookie \in DOMAIN sessions
                 THEN [sessions EXCEPT ![req[r].cookie] = now + Timeout] ELSE sessions
  /\ UNCHANGED <<ids, gone>>

\* handleAdminLogout: GetSessionFromRequest ...
Logout(r) ==
  /\ At(r, "handler") /\ req[r].kind = "logout" /\ Valid(req[r].cookie)
  /\ Go(r, "delete")
  /\ UNCHANGED sessionVars

\* ... and DeleteSession.
Delete(r) ==
  /\ At(r, "delete")
  /\ sessions' = Restrict(sessions, DOMAIN sessions \ {req[r].cookie})
  /\ gone' = gone \cup {req[r].cookie}
  /\ UNCHANGED ids

\* cleanup, every five minutes.
Cleanup ==
  /\ \E id \in DOMAIN sessions : now > sessions[id]
  /\ sessions' = Restrict(sessions, {id \in DOMAIN sessions : now <= sessions[id]})
  /\ UNCHANGED <<ids, gone>>

\* A new process knows no session.
SessionsLost == sessions' = NoSessions /\ UNCHANGED <<ids, gone>>

-----------------------------------------------------------------------------
\* A session that was logged out does not come back, not even by a request that
\* had looked it up before and refreshes it after.
LogoutSticks == gone \cap DOMAIN sessions = {}

=============================================================================
