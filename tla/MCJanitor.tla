----------------------------- MODULE MCJanitor -----------------------------
(***************************************************************************)
(* Model checking of Janitor.tla; the MCJanitor_*.cfg files choose         *)
(* instances.                                                              *)
(***************************************************************************)
EXTENDS Janitor
=============================================================================
