--------------------------- MODULE MCLeaseQueue ---------------------------
(* Small instances of LeaseQueue for TLC. *)
EXTENDS LeaseQueue, TLC

CONSTANTS j1, j2, w1, w2, d1

\* One deployment: every worker can take every job.
MCJobDeployment == [j \in Jobs |-> d1]
MCWorkerDeployment == [w \in Workers |-> d1]

\* Workers differ in their name only.
MCSymmetry == Permutations(Workers)
=============================================================================
