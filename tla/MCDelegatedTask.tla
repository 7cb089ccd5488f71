--------------------------- MODULE MCDelegatedTask ---------------------------
(* Small instances of DelegatedTask for TLC. *)
EXTENDS DelegatedTask, TLC
=============================================================================
