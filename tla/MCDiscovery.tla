---------------------------- MODULE MCDiscovery ----------------------------
(***************************************************************************)
(* Model checking of Discovery.tla; the MCDiscovery*.cfg files choose      *)
(* instances.                                                              *)
(***************************************************************************)
EXTENDS Discovery

CONSTANT b1

\* b1 advertises Redfish and a console, the other BMCs nothing that is browsed.
MCEndpoints == {<<b1, "redfish">>, <<b1, "console">>}
=============================================================================
