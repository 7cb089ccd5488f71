----------------------------- MODULE MCApprovals -----------------------------
(* A small instance of Approvals for TLC: one tool, to be asked for at first. *)
EXTENDS Approvals

MCPolicies == {[auto |-> {}, always |-> {"shell"}]}
=============================================================================
