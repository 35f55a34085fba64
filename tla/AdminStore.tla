----------------------------- MODULE AdminStore -----------------------------
(***************************************************************************)
(* src/db/db.go as main uses it at a start: the schema, of which only      *)
(* matters that it can fail, and the administrator's credentials of the    *)
(* first run.                                                              *)
(***************************************************************************)
EXTENDS Programs

CONSTANTS MaxCredentials           \* bound on generated credentials

VARIABLES rows,                    \* server_admin_credentials, ordered by id
          made,                    \* the credentials a program holds, 0 for none
          \* history:
          printed,                 \* credentials shown to the operator
          rivals,                  \* two programs found no credentials
          unseen                   \* a program died before it showed its own

adminVars == <<rows, made, printed, rivals, unseen>>

Credentials == 1..MaxCredentials

AdminInit ==
  /\ IF plan.fresh
     THEN rows = <<>> /\ printed = {}
     ELSE rows = <<1>> /\ printed = {1}
  /\ made = [p \in Programs |-> 0]
  /\ rivals = FALSE /\ unseen = FALSE

\* db.Init fails, or a later call that main does not forgive.
InitFails(p) ==
  /\ at[p] \in {"migrate", "insert"} /\ Fault
  /\ Goto(p, "exit")
  /\ UNCHANGED <<job, adminVars>>

\* migrateSchema and createSchema leave the credentials as they are.
InitDatabase(p) ==
  /\ at[p] = "migrate"
  /\ Goto(p, "has")
  /\ UNCHANGED adminVars

\* Mutant: an error counts as "there are none".
HasCredentialsOrMakesThem(p) ==
  /\ at[p] = "has"
  /\ \/ /\ \/ rows = <<>> /\ UNCHANGED faults
           \/ Fault
        /\ Goto(p, "insert")
        /\ rivals' = (rivals \/ \E q \in Programs \ {p} : at[q] = "insert")
     \/ rows # <<>> /\ Goto(p, "pid") /\ UNCHANGED <<rivals, faults>>
  /\ UNCHANGED <<job, rows, made, printed, unseen>>

\* HasAdminCredentials; an error of it counts as "there are some".
HasCredentials(p) ==
  /\ at[p] = "has"
  /\ \/ /\ rows = <<>> /\ UNCHANGED faults
        /\ Goto(p, "insert")
        /\ rivals' = (rivals \/ \E q \in Programs \ {p} : at[q] = "insert")
     \/ rows # <<>> /\ Goto(p, "pid") /\ UNCHANGED <<rivals, faults>>
     \/ Fault /\ Goto(p, "pid") /\ UNCHANGED rivals
  /\ UNCHANGED <<job, rows, made, printed, unseen>>

\* SetAdminCredentials: the insertion has no id, so that it never conflicts
\* and adds a row.
SetCredentials(p) ==
  /\ at[p] = "insert" /\ Len(rows) < MaxCredentials
  /\ rows' = Append(rows, Len(rows) + 1)
  /\ made' = [made EXCEPT ![p] = Len(rows) + 1]
  /\ Goto(p, "print")
  /\ UNCHANGED <<printed, rivals, unseen>>

ShowCredentials(p) ==
  /\ at[p] = "print"
  /\ printed' = printed \cup {made[p]}
  /\ made' = [made EXCEPT ![p] = 0]
  /\ Goto(p, "pid")
  /\ UNCHANGED <<rows, rivals, unseen>>

\* A program that dies takes the clear text with it.
Forgotten(p) ==
  /\ made' = [made EXCEPT ![p] = 0]
  /\ unseen' = (unseen \/ made[p] # 0)

\* VerifyAdminPassword and VerifyAdminToken look at the row with the least id.
Verifies(c) == rows # <<>> /\ rows[1] = c
=============================================================================
