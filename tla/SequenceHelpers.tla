--------------------------- MODULE SequenceHelpers ---------------------------
(* Operators on sequences that several modules use.                        *)
EXTENDS Integers, FiniteSets, SequencesExt

\* The elements of s that are in S, in their order.
Keep(s, S) == FlattenSeq([i \in DOMAIN s |-> IF s[i] \in S THEN <<s[i]>> ELSE <<>>])
=============================================================================
