---------------------------- MODULE MCQueueManager ----------------------------
(* Instances of QueueManager for TLC.                                      *)
EXTENDS QueueManager, TLC

CONSTANTS a, b, c

\* The nodes with a detailed manager, and those without, are alike.
NodeSymmetry == Permutations(Managers) \cup Permutations(Nodes \ Managers)
==============================================================================
