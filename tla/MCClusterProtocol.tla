-------------------------- MODULE MCClusterProtocol --------------------------
(* Instances of ClusterProtocol for TLC.                                   *)
EXTENDS ClusterProtocol, TLC

CONSTANTS a, b, c, d

NodeSymmetry == Permutations(Nodes)
==============================================================================
