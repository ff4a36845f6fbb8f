----------------------------- MODULE MCCluster -----------------------------
(***************************************************************************)
(* Instances of Cluster for TLC: the three nodes of NewCluster.            *)
(***************************************************************************)
EXTENDS Cluster

CONSTANTS a, b, c,     \* nodes
          p1,          \* a proposal
          r1           \* a recovery
=============================================================================
