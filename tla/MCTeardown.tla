----------------------------- MODULE MCTeardown -----------------------------
(* Instances of TeardownSystem for TLC: Machines are numbers, names are     *)
(* ordered by them.                                                         *)
EXTENDS TeardownGate
=============================================================================
