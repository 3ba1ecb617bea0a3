--------------------------- MODULE MCOrphanSweep ---------------------------
(* Small instances of OrphanSweep for TLC. *)
EXTENDS OrphanSweep

CONSTANTS j1, w1, d1, s1, s2, none, sha1, output

MCJobDeployment == [j \in Jobs |-> d1]
MCWorkerDeployment == [w \in Workers |-> d1]
MCRequiredKinds == [j \in Jobs |-> Kinds]
=============================================================================
