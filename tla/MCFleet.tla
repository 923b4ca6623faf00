-------------------------------- MODULE MCFleet --------------------------------
(***************************************************************************)
(* The small instance of Fleet: two shards, a tick and a force-scale that  *)
(* may overlap.                                                            *)
(***************************************************************************)
EXTENDS Fleet

CONSTANTS tickRun, forceRun, uploadA, uploadB

MCInvocations == {tickRun, forceRun}
==============================================================================
