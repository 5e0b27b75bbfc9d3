--------------------------- MODULE MCStreamSlots ----------------------------
(* StreamSlots for TLC: two clients of one node, one of another. *)
EXTENDS StreamSlots

CONSTANTS n1, n2, s3

MCEntries == [s \in Streams |-> IF s = s3 THEN {n2} ELSE {n1}]
=============================================================================
