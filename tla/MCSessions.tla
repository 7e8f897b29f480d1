----------------------------- MODULE MCSessions -----------------------------
(***************************************************************************)
(* Small instance of Sessions: two senders, three objects, so that one may *)
(* be left behind, and requests enough for two streams of one sender and   *)
(* one of the other, a replacement, and a stop and a start.                *)
(***************************************************************************)
EXTENDS Sessions
=============================================================================
