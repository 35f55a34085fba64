------------------------------ MODULE Requests ------------------------------
(***************************************************************************)
(* src/server: the requests that the HTTP server works on, each in a       *)
(* goroutine of its own, and the clock that the limiter, the statistics    *)
(* and the sessions read. The modules that extend this one hold what the   *)
(* stages of a request share; HttpServer strings the stages together.      *)
(***************************************************************************)
EXTENDS Integers, FiniteSets

CONSTANTS Conns,                   \* requests at work at once
          Plans,                   \* the scenarios, see plan
          Trusted,                 \* the peers of buildTrustedProxies
          None

ASSUME RequestsAssumption == IsFiniteSet(Conns)

VARIABLES plan,                    \* one of Plans, the same throughout: who calls
                                   \* for what, on which connections, how often,
                                   \* until when, with how many faults; the
                                   \* limit (0: off) and whether GeoIP is on
          now,
          req,                     \* each request: its place, its caller, what it
                                   \* asks for, and what it has read
          left                     \* requests still to come

reqVars == <<now, req, left>>

NoRequest == [pc |-> "none", caller |-> None, kind |-> "none", cookie |-> 0,
              reader |-> 0, at |-> 0]

RequestsInit ==
  /\ plan \in Plans
  /\ now = 1 /\ left = plan.requests
  /\ req = [r \in Conns |-> NoRequest]

At(r, pc) == req[r].pc = pc
Go(r, pc) == req' = [req EXCEPT ![r].pc = pc]

\* The answer is sent and the goroutine ends.
Answer(r) == req' = [req EXCEPT ![r] = NoRequest]

\* A middleware that is off, or has nothing to do, is passed over. Where a plan
\* is not about the handlers, a request that reaches them is answered.
Outermost   == IF plan.limit > 0 THEN "limit" ELSE IF plan.geo THEN "geo" ELSE "begin"
BehindGeo(r)   == IF plan.kinds = {"any"} THEN Answer(r) ELSE Go(r, "begin")
BehindLimit(r) == IF plan.geo THEN Go(r, "geo") ELSE BehindGeo(r)

\* isTrustedPeer.
TrustedPeer(p) == p \in Trusted

\* clientIP: a header counts only from a trusted peer. A caller is who it is,
\* the peer that the connection comes from, and the address that the headers
\* claim.
ClientIP(c) == IF TrustedPeer(c.peer) /\ c.claim # None THEN c.claim ELSE c.peer

\* A request arrives, with the cookie of one of the sessions there have been.
Arrive(r, cookies) ==
  /\ At(r, "none") /\ r \in plan.conns /\ left > 0
  /\ left' = left - 1
  /\ \E c \in plan.callers, k \in plan.kinds, id \in cookies :
       req' = [req EXCEPT ![r] = [NoRequest EXCEPT !.pc = Outermost, !.caller = c, !.kind = k, !.cookie = id]]
  /\ UNCHANGED now
=============================================================================
