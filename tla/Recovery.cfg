CONSTANTS
  api = api  w1 = w1
  Api = {api}
  Worker = {w1}
  STARTUP_MAX_ATTEMPTS = 2
  MaxEntries = 2
  MaxFaults = 2
SPECIFICATION FairSpec
INVARIANTS RecoveryInv SyncedSurvives
PROPERTIES SettlesOnceGroupIsSynced EveryProcessServes
