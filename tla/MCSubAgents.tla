---------------------------- MODULE MCSubAgents ----------------------------
(* Small instances of SubAgents for TLC. *)
EXTENDS SubAgents, TLC
=============================================================================
