---------------------------- MODULE SequenceFilter ----------------------------
(***************************************************************************)
(* The WHERE clause of an ordered query: the members of a sequence that    *)
(* belong to a set, in their order.  It is SelectSeq with a set in place   *)
(* of the test, so that SequenceFilter_proofs can state what it returns.   *)
(***************************************************************************)
EXTENDS Integers, Sequences

Keep(s, S) ==
    LET kept[n \in 0..Len(s)] ==
            IF n = 0 THEN <<>>
            ELSE IF s[n] \in S THEN Append(kept[n - 1], s[n]) ELSE kept[n - 1]
    IN  kept[Len(s)]

=============================================================================
