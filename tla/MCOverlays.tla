----------------------------- MODULE MCOverlays -----------------------------
(***************************************************************************)
(* Two sessions, one of them with the reverse channel, and three requests, *)
(* configurations, stops or bad answers: enough for a photo, a             *)
(* configuration and a film to meet, with a status, a picture and a report *)
(* on their way.                                                           *)
(***************************************************************************)
EXTENDS Overlays
=============================================================================
