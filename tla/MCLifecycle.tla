---------------------------- MODULE MCLifecycle -----------------------------
(***************************************************************************)
(* Small instance of Lifecycle: each of the three owners, the two profiles *)
(* of the code, and three starts of the core.                              *)
(***************************************************************************)
EXTENDS Lifecycle
=============================================================================
