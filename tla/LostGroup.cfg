CONSTANTS
  api = api  w1 = w1
  Api = {api}
  Worker = {w1}
  STARTUP_MAX_ATTEMPTS = 2
  MaxEntries = 1
  MaxFaults = 1
SPECIFICATION FairSpec
PROPERTIES OutagesAreSurvived
