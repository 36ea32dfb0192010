----------------------------- MODULE MCPipeline -----------------------------
(* One client with a batch of two, one of which the rate source does not   *)
(* know.                                                                   *)
EXTENDS Pipeline

CONSTANTS a1, unk, idA, idU, pair, w1

MCIdOf == [p \in Payload |-> IF p = unk THEN idU ELSE idA]
MCKind == [p \in Payload |-> IF p = unk THEN "unknown" ELSE "ok"]
MCBatch == [c \in Client |-> <<a1, unk>>]
=============================================================================
