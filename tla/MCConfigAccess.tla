---------------------------- MODULE MCConfigAccess ----------------------------
(* Instances of ConfigAccess for TLC.                                      *)
EXTENDS ConfigAccess, TLC

CONSTANTS u1, u2, x

\* Users are alike, and so are the values they may choose.
Symmetries == Permutations(Users) \cup Permutations(Values)

\* FORCE is written here and never read: states that differ in it alone are one.
Observed == <<etcd, file, revision, session, wentBack>>
==============================================================================
