CONSTANTS
  a1 = a1  unk = unk
  idA = idA  idU = idU
  pair = pair
  w1 = w1
  NoWorker = NoWorker
  NoRow = NoRow
  Payload = {a1, unk}
  EventId = {idA, idU}
  Worker = {w1}
  Client = {pair}
  IdOf <- MCIdOf
  Kind <- MCKind
  Batch <- MCBatch
  MAX_BATCH_SIZE = 2
  MaxEntries = 3
  MaxLen = 3
  BatchSize = 2
  ReclaimIdle = 1
  MaxDeliveries = 1
  ScanFactor = 10
  MaxAttempts = 1
  Concurrency = 1
  MaxFaults = 1
  MaxApiFaults = 1
SPECIFICATION FairPipelineSpec
INVARIANTS AcceptedIsInCustody DrainedMeansLanded
PROPERTIES PipelineImplementsLedger AcceptedLands
CHECK_DEADLOCK FALSE
