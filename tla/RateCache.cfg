CONSTANTS
  c1 = c1  c2 = c2
  Caller = {c1, c2}
  TTL = 2
  MaxAge = 4
  MaxQuotes = 2
  MaxFaults = 2
SPECIFICATION FairSpec
INVARIANTS RateInv
PROPERTIES HitsAreYoung QuoteSettles
