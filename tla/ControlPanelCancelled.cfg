SPECIFICATION FairSpec
CONSTANTS
  Runs = {r1}
  Cancellers = {c1}
  Cap = 1
  NoRun = NoRun
  Faults = {}
PROPERTY CancelledRunStaysCancelled
CHECK_DEADLOCK FALSE
