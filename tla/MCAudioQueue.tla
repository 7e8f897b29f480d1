---------------------------- MODULE MCAudioQueue ----------------------------
(***************************************************************************)
(* Small instance of AudioQueue: a ring of three frames, blocks larger     *)
(* than the ring, and two frames that can be told apart.                   *)
(***************************************************************************)
EXTENDS AudioQueue
=============================================================================
