------------------------------ MODULE MCHeartbeat ------------------------------
(***************************************************************************)
(* The heartbeat as deployed, in units of 30 s: visibility timeout 3600 s, *)
(* a tick every 240 s, extensions of 600 s, calls of at most 30 s.         *)
(***************************************************************************)
EXTENDS VisibilityHeartbeat
==============================================================================
