------------------------- MODULE MCPublishingWorker -------------------------
(* Small instances of PublishingWorker for TLC. *)
EXTENDS PublishingWorker

CONSTANTS j1, w1, w2, d1, none, sha1, sha2

MCJobDeployment == [j \in Jobs |-> d1]
MCWorkerDeployment == [w \in Workers |-> d1]
MCRequiredKinds == [j \in Jobs |-> {Output}]
\* Every attempt makes bytes of its own: equal results could not be confused.
MCResults == [n \in 1..MaxAttempts |-> {IF n = 1 THEN sha1 ELSE sha2}]
=============================================================================
