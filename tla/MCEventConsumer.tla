--------------------------- MODULE MCEventConsumer ---------------------------
(* Values for the constants of EventConsumer: each payload is its own model  *)
(* value; a1 and a2 are two different bodies sent under one event id.        *)
EXTENDS EventConsumer, TLC

CONSTANTS a1, a2, unk, inv, bad, idA, idU, idI, idB, w1, w2

MCIdOf == [p \in Payload |->
  CASE p \in {a1, a2} -> idA [] p = unk -> idU [] p = inv -> idI [] p = bad -> idB]

MCKind == [p \in Payload |->
  CASE p \in {a1, a2} -> "ok" [] p = unk -> "unknown"
    [] p = inv -> "invalid" [] p = bad -> "unstorable"]

Workers == Permutations({w1, w2})
=============================================================================
