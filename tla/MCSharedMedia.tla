--------------------------- MODULE MCSharedMedia ----------------------------
(***************************************************************************)
(* Two sessions, one of them with the reverse channel, and four changes:   *)
(* enough for a photo, a configuration, a film and its report to meet.     *)
(***************************************************************************)
EXTENDS SharedMedia
=============================================================================
