-------------------------- MODULE MCInvocationCache --------------------------
(* Small instances of InvocationCache for TLC. *)
EXTENDS InvocationCache, TLC

CONSTANTS s1, s2, video, text

MCContents == 1..2
MCSymmetry == Permutations(Sessions)
=============================================================================
