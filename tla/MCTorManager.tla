--------------------------- MODULE MCTorManager ---------------------------
(* What an operator does beside a server that starts, fails and stops.     *)
EXTENDS TorManager

MCPlans ==
  {[calls |-> {"regenerate", "apply"}, commands |-> {}, faults |-> 1],
   [calls |-> {}, commands |-> {"import", "regenerate"}, faults |-> 1],
   [calls |-> {"update"}, commands |-> {"stage", "vanity"}, faults |-> 1],
   [calls |-> {"regenerate"}, commands |-> {"import"}, faults |-> 1],
   [calls |-> {}, commands |-> {"import"}, faults |-> 2],
   [calls |-> {"apply"}, commands |-> {}, faults |-> 2]}
==========================================================================
