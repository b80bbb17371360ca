\* Three producers with three requests each on two slots, so five rounds.
SPECIFICATION FairSpec
CONSTANTS
  p1 = p1
  p2 = p2
  p3 = p3
  Producers = {p1, p2, p3}
  Size = 2
  MaxItems = 3
  Empty = Empty
INVARIANTS
  HandledInClaimOrder
  SlotHasOneUser
PROPERTIES
  EveryClaimIsHandled
CHECK_DEADLOCK FALSE
