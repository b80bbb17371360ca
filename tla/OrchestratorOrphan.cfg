\* SIGTERM while the worker is claiming.
SPECIFICATION FairSpec
CONSTANTS
  r1 = r1
  r2 = r2
  s1 = s1
  s2 = s2
  c1 = c1
  c2 = c2
  Runs = {r1}
  CreatedAt <- OneCreatedAt
  Slots = {s1}
  Cancellers = {}
  NoRun = NoRun
  NoSlot = NoSlot
  Faults = {"signal"}
INVARIANTS
  NoOrphanedRuns
