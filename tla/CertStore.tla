------------------------------ MODULE CertStore ------------------------------
(***************************************************************************)
(* src/ssl/ssl.go, called by configureTLS of src/server/server.go in the   *)
(* goroutine of the listener: the choice of a certificate, and the         *)
(* self-signed pair, whose two files are written one after the other.      *)
(***************************************************************************)
EXTENDS Programs

CONSTANTS MaxPairs                 \* bound on generated key pairs

Absent == 0                        \* a file that does not exist
Empty  == MaxPairs + 1             \* created or truncated, not yet written

VARIABLES tls,                     \* the goroutine of each server's listener
          cert, key,               \* the files of place 4, by the pair's number
          live,                    \* place 2, kept by certbot: "none", "ok", or
                                   \* "mixed" while it exchanges the two links
          pairs                    \* pairs generated so far

certVars == <<tls, cert, key, live, pairs>>

TlsIdle == [pc |-> "idle", pair |-> 0]

CertInit ==
  /\ tls = [p \in Programs |-> TlsIdle]
  /\ cert = Absent /\ key = Absent
  /\ live = plan.certbot
  /\ pairs = 0

TlsAt(p, pc) == Up(p) /\ tls[p].pc = pc
TlsGo(p, pc) == tls' = [tls EXCEPT ![p].pc = pc]

\* Mutant: only the certificate is looked for.
CertOnly(c, k) == c # Absent

\* certPair asks only whether both files are there.
Both(c, k) == c # Absent /\ k # Absent

\* tls.LoadX509KeyPair: both parse and belong together.
Loads(c, k) == c \in 1..MaxPairs /\ c = k

\* loadCertConfig: the listener serves, or Start returns an error.
LoadPair(p, ok) == TlsGo(p, IF ok THEN "serving" ELSE "failed")

\* findExistingCerts, in its order: certbot's pair goes before the local one.
UseExisting(p) ==
  /\ TlsAt(p, "find")
  /\ \/ live # "none" /\ LoadPair(p, live = "ok")
     \/ live = "none" /\ Both(cert, key) /\ LoadPair(p, Loads(cert, key))
  /\ UNCHANGED <<cert, key, live, pairs>>

NoneFound == live = "none" /\ ~Both(cert, key)

\* autocert requests certificates as they are asked for.
UseAcme(p) ==
  /\ TlsAt(p, "find") /\ NoneFound
  /\ plan.acme
  /\ TlsGo(p, "serving")
  /\ UNCHANGED <<cert, key, live, pairs>>

\* generateSelfSigned makes a new pair and opens cert.pem.
OpenCert(p) ==
  /\ TlsAt(p, "find") /\ NoneFound
  /\ ~plan.acme
  /\ pairs < MaxPairs
  /\ pairs' = pairs + 1
  /\ tls' = [tls EXCEPT ![p] = [pc |-> "cert", pair |-> pairs + 1]]
  /\ cert' = Empty
  /\ UNCHANGED <<key, live>>

WriteCert(p) ==
  /\ TlsAt(p, "cert")
  /\ cert' = tls[p].pair
  /\ TlsGo(p, "openKey")
  /\ UNCHANGED <<key, live, pairs>>

OpenKey(p) ==
  /\ TlsAt(p, "openKey")
  /\ key' = Empty
  /\ TlsGo(p, "key")
  /\ UNCHANGED <<cert, live, pairs>>

WriteKey(p) ==
  /\ TlsAt(p, "key")
  /\ key' = tls[p].pair
  /\ LoadPair(p, Loads(cert, tls[p].pair))
  /\ UNCHANGED <<cert, live, pairs>>

\* A file that cannot be opened or written ends Start with an error.
GenerateFails(p) ==
  /\ tls[p].pc \in {"cert", "openKey", "key"} /\ Fault
  /\ TlsGo(p, "failed")
  /\ UNCHANGED <<at, job, cert, key, live, pairs>>

\* certbot exchanges the second link.
CertbotEnds ==
  /\ live = "mixed"
  /\ live' = "ok"
  /\ UNCHANGED <<tls, cert, key, pairs>>

\* The process has gone, with the goroutine.
ListenerGone(p) == tls' = [tls EXCEPT ![p] = TlsIdle]
=============================================================================
