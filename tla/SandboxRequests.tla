-------------------------- MODULE SandboxRequests ---------------------------
(***************************************************************************)
(* What is asked of sandbox-runner, whichever runner main.go puts behind    *)
(* the HTTP handlers.                                                      *)
(***************************************************************************)
EXTENDS Naturals, FiniteSets

CONSTANTS
  Builds, Starts, Stops,  \* requests; a start is also the sandbox it makes
  Isolated,               \* the starts with network_egress = false
  Ports,
  Cap,                    \* buildConcurrency()
  Faults                  \* what may go wrong: a subset of FaultKinds

Requests == Builds \cup Starts \cup Stops

\* client: a client goes away.  os, signal: of the local runner.  lost, remove:
\* of the docker daemon.
FaultKinds == {"client", "os", "signal", "lost", "remove"}

ASSUME RequestsAssumption ==
  /\ Builds \cap Starts = {} /\ Builds \cap Stops = {} /\ Starts \cap Stops = {}
  /\ IsFiniteSet(Requests) /\ Isolated \subseteq Starts
  /\ "none" \notin Starts \cup Ports /\ "map" \notin Requests
ASSUME SlotsAssumption == Cap \in Nat \ {0}
ASSUME RunnerFaultsAssumption == Faults \subseteq FaultKinds

\* How a request can end.
Finished == {"built", "handle", "stopped", "error"}
=============================================================================
