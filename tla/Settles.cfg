CONSTANTS
  a1 = a1  a2 = a2  unk = unk  inv = inv  bad = bad
  idA = idA  idU = idU  idI = idI  idB = idB
  w1 = w1  w2 = w2
  NoWorker = NoWorker
  NoRow = NoRow
  Payload = {a1, inv, bad}
  EventId = {idA, idI, idB}
  Worker = {w1}
  IdOf <- MCIdOf
  Kind <- MCKind
  MaxEntries = 3
  MaxLen = 3
  BatchSize = 2
  ReclaimIdle = 1
  MaxDeliveries = 1
  ScanFactor = 1
  MaxAttempts = 2
  Concurrency = 1
  MaxFaults = 1
SPECIFICATION FairSpec
PROPERTIES OverCapOnlyIfCrowdedOut EveryEntrySettles StopTerminates
