--------------------------- MODULE MCPublication ---------------------------
(* Small instances of Publication for TLC. *)
EXTENDS Publication, TLC

CONSTANTS j1, j2, w1, w2, d1, none, sha1, sha2, output, manifest

MCJobDeployment == [j \in Jobs |-> d1]
MCWorkerDeployment == [w \in Workers |-> d1]
MCRequiredKinds == [j \in Jobs |-> Kinds]
MCSymmetry == Permutations(Workers) \cup Permutations(Digests)
=============================================================================
