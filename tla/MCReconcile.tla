------------------------------ MODULE MCReconcile ------------------------------
(***************************************************************************)
(* The small instance of Reconcile: up to three tarballs, of which the     *)
(* first two have the same requirements.                                   *)
(***************************************************************************)
EXTENDS Reconcile

CONSTANTS reqOld, reqNew

MCReqOf == <<reqOld, reqOld, reqNew>>
==============================================================================
