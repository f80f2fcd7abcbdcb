------------------------------ MODULE MCCluster ------------------------------
(***************************************************************************)
(* Small instances of Cluster.                                             *)
(***************************************************************************)
EXTENDS Cluster
=============================================================================
