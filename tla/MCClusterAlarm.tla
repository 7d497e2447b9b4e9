---------------------------- MODULE MCClusterAlarm ----------------------------
(* Instances of ClusterAlarm for TLC.                                      *)
EXTENDS ClusterAlarm

CONSTANTS p1, p2, t1, t2

==============================================================================
