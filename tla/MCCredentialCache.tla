------------------------- MODULE MCCredentialCache -------------------------
(***************************************************************************)
(* Model checking of CredentialCache.tla: clusters for the                 *)
(* MCCredentialCache_*.cfg files.                                          *)
(***************************************************************************)
EXTENDS CredentialCache

\* One cluster; prod-eu/talos and prod/eu-talos.
OneCluster == {[ns |-> <<"prod">>, name |-> <<"talos">>]}
DashedNames == {[ns |-> <<"prod", "eu">>, name |-> <<"talos">>],
                [ns |-> <<"prod">>, name |-> <<"eu", "talos">>]}
=============================================================================
