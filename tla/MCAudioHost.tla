---------------------------- MODULE MCAudioHost -----------------------------
(***************************************************************************)
(* Small instance of AudioHost: two threads that decode at two rates, and  *)
(* a queue that one block can fill.                                        *)
(***************************************************************************)
EXTENDS AudioHost
=============================================================================
