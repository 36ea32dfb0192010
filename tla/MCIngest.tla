------------------------------ MODULE MCIngest ------------------------------
(* A batch of two, a single event and a batch that is too large.           *)
EXTENDS Ingest

CONSTANTS b1, b2, s1, x, pairs, single, greedy

MCBatch == [p \in Producer |->
  CASE p = pairs -> <<b1, b2>> [] p = single -> <<s1>> [] p = greedy -> <<x, x, x>>]

ASSUME MCEventsDiffer == EventsDiffer
=============================================================================
