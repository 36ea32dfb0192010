CONSTANTS
  b1 = b1  b2 = b2  s1 = s1  x = x
  pairs = pairs  single = single  greedy = greedy
  NoWorker = NoWorker
  Payload = {b1, b2, s1, x}
  Worker = {}
  Producer = {pairs, single, greedy}
  Batch <- MCBatch
  MAX_BATCH_SIZE = 2
  MaxEntries = 7
  MaxLen = 7
  BatchSize = 1
  ReclaimIdle = 1
  MaxDeliveries = 1
  ScanFactor = 10
  MaxFaults = 2
SPECIFICATION FairSpec
INVARIANTS AcceptedIsQueued CopiesBounded ReceivedIsQueued
PROPERTIES EveryoneAnswered
CHECK_DEADLOCK FALSE
