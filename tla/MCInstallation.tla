--------------------------- MODULE MCInstallation ---------------------------
(* A server, a second program, a few settings, and a plan for each kind of  *)
(* interaction: two servers started for the first time at once, a first     *)
(* start with commands and edits beside it, commands and edits beside each  *)
(* other, certificates, and updates with and without a common file system.  *)
EXTENDS Installation, TLC

CONSTANTS p1, p2

Installed0 == [Default EXCEPT !.port = "64000", !.fqdn = "host", !.smtp = "mail"]
Nothing    == [x \in {} |-> ""]
Jobs(j, k) == (p1 :> j) @@ (p2 :> k)
MCKinds    == <<"stable", "beta", "stable">>

Base == [file |-> None, fresh |-> TRUE, ops |-> 0, releases |-> 0,
         edits |-> Nothing, jobs |-> Jobs({"serve"}, {"serve"}),
         certbot |-> "none", acme |-> FALSE, rename |-> TRUE,
         follows |-> TRUE]

FirstStarts == Base
WithCommands ==
  [Base EXCEPT !.ops = 1, !.edits = [ssl |-> "on", port |-> "", backup |-> "on"],
               !.jobs = Jobs({"serve"}, {"mode", "branch", "setup", "status"})]
WithEdits ==
  [Base EXCEPT !.file = Installed0, !.fresh = FALSE, !.ops = 2,
               !.edits = [ssl |-> "on", backup |-> "on"],
               !.jobs = Jobs({"serve", "mode"}, {"branch", "setup"})]
WithTLS == [Base EXCEPT !.file = [Installed0 EXCEPT !.ssl = "on"], !.ops = 1]
WithUpdates ==
  [Base EXCEPT !.file = Installed0, !.fresh = FALSE, !.ops = 1,
               !.releases = Len(MCKinds), !.jobs = Jobs({"serve"}, {"update", "branch"})]
Across == [WithUpdates EXCEPT !.rename = FALSE, !.releases = 1,
                              !.jobs = Jobs({"serve"}, {"update"})]

MCPlans ==
  {FirstStarts,
   WithCommands,
   WithEdits,
   WithTLS,
   [WithTLS EXCEPT !.certbot = "mixed"],
   [WithTLS EXCEPT !.acme = TRUE],
   WithUpdates,
   Across,
   [Across EXCEPT !.follows = FALSE]}
=============================================================================
