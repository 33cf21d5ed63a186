----------------------------- MODULE MCHelperCalls -----------------------------
(* Instance of HelperCalls for TLC. *)
EXTENDS HelperCalls
=============================================================================
