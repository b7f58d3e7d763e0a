------------------------------ MODULE MCSyncer ------------------------------
(***************************************************************************)
(* Model checking of Syncer.tla; the MCSyncer*.cfg files choose instances. *)
(***************************************************************************)
EXTENDS Syncer
=============================================================================
