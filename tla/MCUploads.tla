------------------------------ MODULE MCUploads ------------------------------
(* Small instances of Uploads for TLC. *)
EXTENDS Uploads

CONSTANTS s1, s2, h1, h2, c1, good, bad, none

MCSizeOf == [d \in Contents |-> 1]
MCExpectedSize == [s \in Sessions |-> 1]
MCExpectedSha == [s \in Sessions |-> {good}]
=============================================================================
