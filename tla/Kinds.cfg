CONSTANTS
  a1 = a1  a2 = a2  unk = unk  inv = inv  bad = bad
  idA = idA  idU = idU  idI = idI  idB = idB
  w1 = w1  w2 = w2
  NoWorker = NoWorker
  NoRow = NoRow
  Payload = {a1, unk, inv, bad}
  EventId = {idA, idU, idI, idB}
  Worker = {w1}
  IdOf <- MCIdOf
  Kind <- MCKind
  MaxEntries = 2
  MaxLen = 1
  BatchSize = 2
  ReclaimIdle = 1
  MaxDeliveries = 2
  ScanFactor = 10
  MaxAttempts = 2
  Concurrency = 2
  MaxFaults = 3
SPECIFICATION Spec
INVARIANTS TypeOK StagesHoldTrue Custody RowsAreConverted ParkedWithCause
PROPERTIES ImplementsLedger
