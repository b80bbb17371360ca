\* Two runs compete for the only slot, one cancel request at a time, no fault.
SPECIFICATION FairSpec
CONSTANTS
  r1 = r1
  r2 = r2
  s1 = s1
  s2 = s2
  c1 = c1
  c2 = c2
  Runs = {r1, r2}
  CreatedAt <- TwoCreatedAt
  Slots = {s1}
  Cancellers = {c1}
  NoRun = NoRun
  NoSlot = NoSlot
  Faults = {}
INVARIANTS
  ExitedRunIsTerminal
  EngineIsStoppable
  ArtifactVerdictAgrees
PROPERTIES
  ExitedRunIsFrozen
  QueuedRunIsTakenUp
  ClaimedRunEnds
  CancelStopsEngine
