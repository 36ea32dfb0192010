CONSTANTS
  Unit = 4
  Amounts <- MCAmounts
  Rates <- MCRates
  MaxRows = 2
SPECIFICATION Spec
INVARIANTS HandChecked RefundsCancel OrderKept DriftBounded
