\* Either runner: two starts that may share a port, one of them isolated, two
\* stops of any sandbox, two slots, every fault.
SPECIFICATION Spec
CONSTANTS
  Builds = {b1}
  Starts = {s1, s2}
  Stops = {t1, t2}
  Isolated = {s1}
  Ports = {p1, p2}
  Cap = 2
  Faults = {"client", "os", "signal", "lost", "remove"}
INVARIANTS
  OneOwner
  NoStrayProcess
  NothingLeftBehind
PROPERTIES
  ImplementsSandbox
  RequestsAnswered
CHECK_DEADLOCK FALSE
