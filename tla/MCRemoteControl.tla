-------------------------- MODULE MCRemoteControl ---------------------------
(***************************************************************************)
(* Small instance of RemoteControl: the three owners, each key pressed     *)
(* once, so that one may wait behind the control of another while the      *)
(* third goes first, and room for a request that was given up before one   *)
(* that is awaited.                                                        *)
(***************************************************************************)
EXTENDS RemoteControl

MCPresses == [c \in Controls |-> 1]
=============================================================================
