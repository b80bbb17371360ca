\* Three ids, three prices (0 only for market orders), quantities up to 2, four orders.
SPECIFICATION Spec
CONSTANTS
  a = a
  b = b
  c = c
  Ids = {a, b, c}
  Prices = {0, 1, 2}
  MaxQty = 2
  Stamps = {1, 2}
  MaxSeq = 4
  None = None
INVARIANTS
  NoEmptyLevel
  IndexMatchesLevels
  NotCrossed
PROPERTIES
  ImplementsPriceTime
CHECK_DEADLOCK FALSE
