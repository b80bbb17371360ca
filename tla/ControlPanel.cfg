\* One run, two cancel requests, failing writes and SIGTERM.
SPECIFICATION FairSpec
CONSTANTS
  Runs = {r1}
  Cancellers = {c1, c2}
  Cap = 1
  NoRun = NoRun
  Faults = {"disk", "signal"}
INVARIANTS
  StoredRunIsCarried
  DrainLeavesNothing
PROPERTIES
  VerdictIsFinal
  RunsEnd
  SignalledExits
CHECK_DEADLOCK FALSE
