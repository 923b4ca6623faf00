-------------------------------- MODULE MCSpot --------------------------------
(***************************************************************************)
(* An experiment of two calls that are committed together, unless a batch  *)
(* becomes due before it is full, on up to three instances: the first two  *)
(* may be interrupted, wherever they are.                                  *)
(***************************************************************************)
EXTENDS SpotWatcher

CONSTANTS c1, c2

MCCalls == {c1, c2}
==============================================================================
