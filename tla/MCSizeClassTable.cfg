CONSTANTS
  MaxRequest = 10500
SPECIFICATION RequestSpec
INVARIANTS
  TightestClass
  SmallObjectsFit
CHECK_DEADLOCK FALSE
