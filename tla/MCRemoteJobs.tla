---------------------------- MODULE MCRemoteJobs ----------------------------
(* Small instances of RemoteJobs for TLC. *)
EXTENDS RemoteJobs, TLC

CONSTANTS c1, c2, n1, n2, r1, r2, w1, w2

MCSymmetry == Permutations(Clients) \cup Permutations(Namespaces)
              \cup Permutations(Requests) \cup Permutations(Writers)
=============================================================================
