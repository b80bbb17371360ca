\* One run, two slots, two cancel requests, every fault.
SPECIFICATION Spec
CONSTANTS
  r1 = r1
  r2 = r2
  s1 = s1
  s2 = s2
  c1 = c1
  c2 = c2
  Runs = {r1}
  CreatedAt <- OneCreatedAt
  Slots = {s1, s2}
  Cancellers = {c1, c2}
  NoRun = NoRun
  NoSlot = NoSlot
  Faults = {"disk", "sandbox", "signal", "crash"}
SYMMETRY SlotSymmetry
INVARIANTS
  OneGoroutinePerRun
  DrainWaitsForSwept
PROPERTIES
  VerdictIsFinal
