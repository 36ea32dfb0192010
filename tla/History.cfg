CONSTANTS
  ann = ann  bob = bob
  Nobody = Nobody
  Row <- MCRow
  User = {ann, bob}
  UserOf <- MCUserOf
  TimeOf <- MCTimeOf
  Bound = {10, 20, 30}
  Limit = {1, 2, 3}
  MaxPageSize = 2
SPECIFICATION Spec
INVARIANTS TypeOK NothingLeftBehind NoEmptyPage MissedOnlyByRace
