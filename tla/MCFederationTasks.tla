------------------------- MODULE MCFederationTasks -------------------------
(* Small instances of FederationTasks for TLC. *)
EXTENDS FederationTasks, TLC
=============================================================================
