--------------------------- MODULE MCMirrorStream ---------------------------
(***************************************************************************)
(* Small instance of MirrorStream: a ring of four slots that wraps,        *)
(* fragment sizes that overflow the budget by themselves or together, HLS  *)
(* groups of two, a clock that may repeat or go back, and generations      *)
(* enough for channels, configurations, dismissals and stops.              *)
(***************************************************************************)
EXTENDS MirrorStream

MCSizes == {1, 3}
MCClock == 0 .. 5
=============================================================================
