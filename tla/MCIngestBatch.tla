--------------------------- MODULE MCIngestBatch ---------------------------
(* Two partitions and an undecodable message for TLC. *)
EXTENDS IngestBatch

CONSTANTS p1, p2

Topic == [p \in {p1, p2} |-> IF p = p1 THEN <<"row", "bad", "row">> ELSE <<"row">>]
=============================================================================
