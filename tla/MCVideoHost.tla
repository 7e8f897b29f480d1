----------------------------- MODULE MCVideoHost ----------------------------
(***************************************************************************)
(* A queue of one packet, so that it overflows; two configurations; three  *)
(* frames, so that one picture is painted, one waits and one comes.        *)
(* Starts of the controller are not counted: a stop and the start after it *)
(* may fall anywhere around a failure.                                     *)
(***************************************************************************)
EXTENDS VideoHost
=============================================================================
