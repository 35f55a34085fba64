---------------------------- MODULE MCHttpServer ----------------------------
(* Callers behind the proxy and direct ones, one of them with a forged       *)
(* address; plans for the limiter, the databases, the statistics and the     *)
(* sessions, each with what the others do left out or kept small.            *)
EXTENDS HttpServer

CONSTANTS a, b, proxy

C(who, peer, claim, denied) == [who |-> who, peer |-> peer, claim |-> claim, denied |-> denied, private |-> FALSE]

Base == [callers |-> {C(a, a, None, FALSE)}, kinds |-> {"any"}, conns |-> {"c1", "c2"},
         limit |-> 0, geo |-> FALSE, requests |-> 3, until |-> 1, faults |-> 0]

MCPlans ==
  {[Base EXCEPT !.callers = {C(a, a, None, FALSE), C(a, a, b, FALSE), C(b, proxy, b, FALSE)},
                !.conns = {"c1"}, !.limit = 2, !.requests = 6, !.until = 6],
   [Base EXCEPT !.callers = {C(a, a, None, TRUE), C(b, b, None, FALSE)}, !.geo = TRUE, !.faults = 1],
   [Base EXCEPT !.callers = {C(a, a, None, TRUE), [C(b, b, None, TRUE) EXCEPT !.private = TRUE]},
                !.kinds = {"page"}, !.limit = 1, !.geo = TRUE, !.requests = 2],
   [Base EXCEPT !.kinds = {"page", "health"}, !.requests = 4, !.until = 4],
   [Base EXCEPT !.kinds = {"login", "admin", "logout"}, !.requests = 4, !.until = 3]}
=============================================================================
