---------------------------- MODULE MCRecoverySet ---------------------------
(* A small instance of RecoverySet for TLC. *)
EXTENDS RecoverySet, TLC

\* The release in use, the one before it, the next one, one with an altered
\* file, and a directory without any.
MCPackaged == <<"f1", "f2">>
MCReleases == {<<"f1">>, <<"f1", "f2">>, <<"f1", "f2", "f3">>, <<"x1", "f2">>, <<>>}
=============================================================================
