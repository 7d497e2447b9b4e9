---------------------------- MODULE MCClusterSync ----------------------------
(* Instances of ClusterSync for TLC.                                       *)
EXTENDS ClusterSync, TLC

CONSTANTS a, b, c

\* The nodes that may be decommissioned and those that may not are alike among
\* themselves.
NodeSymmetry == Permutations(Quitters) \cup Permutations(Nodes \ Quitters)
==============================================================================
