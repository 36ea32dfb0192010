CONSTANTS
  a1 = a1  a2 = a2  unk = unk  inv = inv  bad = bad
  idA = idA  idU = idU  idI = idI  idB = idB
  w1 = w1  w2 = w2
  NoWorker = NoWorker
  NoRow = NoRow
  Payload = {bad}
  EventId = {idB}
  Worker = {w1}
  IdOf <- MCIdOf
  Kind <- MCKind
  MaxEntries = 2
  MaxLen = 2
  BatchSize = 1
  ReclaimIdle = 1
  MaxDeliveries = 1
  ScanFactor = 10
  MaxAttempts = 1
  Concurrency = 1
  MaxFaults = 1
SPECIFICATION Spec
PROPERTIES NoRetryOverCap
