-------------------------- MODULE MCEmbeddedRuntime --------------------------
(* Small instances of EmbeddedRuntime for TLC. *)
EXTENDS EmbeddedRuntime

CONSTANTS t1, t2, t3
=============================================================================
