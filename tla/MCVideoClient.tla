--------------------------- MODULE MCVideoClient ----------------------------
(***************************************************************************)
(* Small instance of VideoClient: a ring of two fragments that overtakes a *)
(* slow player, two generations after the first, and three disturbances.   *)
(***************************************************************************)
EXTENDS VideoClient
MCSizes == {1}
MCPts == 0 .. 3
=============================================================================
