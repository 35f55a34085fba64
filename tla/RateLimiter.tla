----------------------------- MODULE RateLimiter -----------------------------
(***************************************************************************)
(* rateLimiter of src/server/middleware.go: a bucket for each client       *)
(* address, with a window that begins at its first request, and a sweep    *)
(* of the buckets that are over, no more often than once in a window.      *)
(***************************************************************************)
EXTENDS Requests, Functions

CONSTANTS Window

ASSUME WindowAssumption == Window \in Nat \ {0}

\* A client is whoever an address stands for: what a trusted proxy claims is true.
ASSUME AddressAssumption ==
  \A s \in Plans :
    /\ s.limit \in Nat
    /\ \A c, d \in s.callers : c.who = d.who <=> ClientIP(c) = ClientIP(d)

VARIABLES hits,                    \* address |-> [count, reset]
          lastGC,
          admitted,                \* history: <<who, when, n>> for the nth time who
                                   \* was admitted then,
          refused                  \* and <<who, when>> for whoever was refused

limitVars == <<hits, lastGC, admitted, refused>>

NoBuckets == [ip \in {} |-> [count |-> 0, reset |-> 0]]

LimiterInit ==
  /\ hits = NoBuckets /\ lastGC = 1
  /\ admitted = {} /\ refused = {}

\* What the sweep leaves.
Swept ==
  IF now - lastGC > Window THEN Restrict(hits, {k \in DOMAIN hits : hits[k].reset >= now}) ELSE hits

Within(b) == b.count < plan.limit

\* How often a client was admitted from t1 to t2, in this process.
Visits(w, t1, t2)     == {a \in admitted : a[1] = w /\ a[2] \in t1..t2}
Admissions(w, t1, t2) == Cardinality(Visits(w, t1, t2))

Record(r, ok) ==
  LET w == req[r].caller.who
  IN  IF ok THEN /\ admitted' = admitted \cup {<<w, now, Admissions(w, now, now) + 1>>}
                 /\ UNCHANGED refused
      ELSE refused' = refused \cup {<<w, now>>} /\ UNCHANGED admitted

\* A bucket with its first request.
Opened(left0, ip) ==
  [k \in {ip} \cup DOMAIN left0 |->
     IF k = ip THEN [count |-> 1, reset |-> now + Window] ELSE left0[k]]

\* Mutant: a request that is refused begins the window anew.
AllowExtends(r) ==
  /\ At(r, "limit")
  /\ LET ip    == ClientIP(req[r].caller)
         left0 == Swept
         new   == ip \notin DOMAIN left0 \/ now > left0[ip].reset
         ok    == new \/ Within(left0[ip])
     IN  /\ hits' = IF new THEN Opened(left0, ip)
                    ELSE IF ok THEN [left0 EXCEPT ![ip].count = @ + 1]
                    ELSE [left0 EXCEPT ![ip].reset = now + Window]
         /\ lastGC' = IF now - lastGC > Window THEN now ELSE lastGC
         /\ Record(r, ok)
         /\ IF ok THEN BehindLimit(r) ELSE Answer(r)

\* allow, under the mutex, and rateLimitMiddleware. A new window admits its
\* first request whatever the limit.
Allow(r) ==
  /\ At(r, "limit")
  /\ LET ip    == ClientIP(req[r].caller)
         left0 == Swept
         new   == ip \notin DOMAIN left0 \/ now > left0[ip].reset
         ok    == new \/ Within(left0[ip])
     IN  /\ hits' = IF new THEN Opened(left0, ip)
                    ELSE IF ok THEN [left0 EXCEPT ![ip].count = @ + 1] ELSE left0
         /\ lastGC' = IF now - lastGC > Window THEN now ELSE lastGC
         /\ Record(r, ok)
         /\ IF ok THEN BehindLimit(r) ELSE Answer(r)

\* The limiter of a new process.
LimiterRestarts ==
  /\ hits' = NoBuckets /\ lastGC' = now
  /\ admitted' = {} /\ refused' = {}

-----------------------------------------------------------------------------
\* A client, whatever address it claims, is admitted at most twice the limit in
\* any stretch as long as a window: the end of one and the start of the next. And
\* it is refused only after it was admitted as often as the limit allows within
\* the last window: a refusal does not put off its end, and what other clients
\* do, or claim, does not count against it.
LimitHolds ==
  plan.limit > 0 =>
    /\ \A a \in admitted : Admissions(a[1], a[2] - Window + 1, a[2]) <= 2 * plan.limit
    /\ \A e \in refused : Admissions(e[1], e[2] - Window, e[2]) >= plan.limit
=============================================================================
