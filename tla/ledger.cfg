SPECIFICATION LFairSpec
CONSTANTS
  Chargers = {c1, c2}
  NoCharger = none
  Budget = 5
  Costs = {1, 2, 3}
  Spends = {0, 2}
  MaxAppended = 2
INVARIANTS
  LTypeOK
  CeilingHolds
  NoHalfCharge
PROPERTIES
  ImplementsAtomicLedger
  ChargesEnd
\* A charger whose process died does not come back.
CHECK_DEADLOCK FALSE
