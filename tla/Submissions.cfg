CONSTANTS
  s1 = s1
  s2 = s2
  r1 = r1
  r2 = r2
  Subs = {s1, s2}
  Runs = {r1, r2}
  SubOf <- MCSubOf
  MaxUploads = 1
  MaxInFlight = 1
  MaxFaults = 2
  None = None
SPECIFICATION Spec
INVARIANTS
  AcknowledgedSurvives
  IndexedArtifactIsWhole
PROPERTIES
  ImplementsAtomicIndex
  CreatedRunIsTakenUp
