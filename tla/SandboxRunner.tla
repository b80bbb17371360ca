--------------------------- MODULE SandboxRunner ----------------------------
(***************************************************************************)
(* services/sandbox-runner: main.go puts one of the two runners behind the *)
(* HTTP handlers, and callers rely on the same promise whichever it is.    *)
(* The runners have their own control points; what both keep (requests,    *)
(* semaphore, samplers, the process itself) is shared here, and what only  *)
(* the other one uses stays as it was.                                     *)
(***************************************************************************)
EXTENDS SandboxRequests

VARIABLES
  mode,                           \* SANDBOX_RUNNER_MODE
  sem, pc, victim, sampler, up,   \* of either runner
  images, sandboxes, gone, proc, signal, done, port, \* of the local one
  containers, failed, networkID, containerID, network, container, hit

localv  == <<images, sandboxes, gone, proc, signal, done, port>>
dockerv == <<containers, failed, networkID, containerID, network, container, hit>>
vars    == <<mode, sem, pc, victim, sampler, up, localv, dockerv>>

Local  == INSTANCE LocalRunner
Docker == INSTANCE DockerRunner

Init == mode \in {"local", "docker"} /\ Local!Init /\ Docker!Init

LocalNext  == mode = "local" /\ Local!Next /\ UNCHANGED <<mode, dockerv>>
DockerNext == mode = "docker" /\ Docker!Next /\ UNCHANGED <<mode, localv>>

Next == LocalNext \/ DockerNext

\* One request goes on, in whichever runner serves it.
RequestStep(r) ==
  \/ mode = "local" /\ Local!RequestStep(r) /\ UNCHANGED <<mode, dockerv>>
  \/ mode = "docker" /\ Docker!RequestStep(r) /\ UNCHANGED <<mode, localv>>

\* Goroutines run; builds, health checks, waits for an exit and calls to the
\* docker daemon all have a deadline.
Fairness == \A r \in Requests : WF_vars(RequestStep(r))

Spec == Init /\ [][Next]_vars /\ Fairness

-----------------------------------------------------------------------------
\* A local sandbox is handed from its Start to the map to one Stop.
OneOwner == mode = "local" => Local!OneOwner

\* No local process is forgotten alive while the runner is up.
NoStrayProcess == mode = "local" => Local!NoStrayProcess

\* No container or network is left to nobody.
NothingLeftBehind == mode = "docker" => Docker!NothingLeftBehind

\* A Stop is confirmed only when the engine is gone, and once; a handle is
\* handed out only after the engine was started, through failed health checks,
\* engines that ignore the interrupt, lost answers of the daemon and clients
\* that leave.
Promise == INSTANCE Sandbox WITH
  engine <- IF mode = "local" THEN Local!Engine ELSE Docker!Engine,
  handed <- {s \in Starts : pc[s] = "handle"},
  confirmed <- [t \in Stops |-> IF pc[t] = "stopped" THEN victim[t] ELSE "none"]

ImplementsSandbox == Promise!Spec

\* Every request is answered: on no path out of Build, Start and their cleanup
\* does the slot stay taken, which would hold up every later build and start.
RequestsAnswered ==
  \A r \in Requests : pc[r] # "idle" ~> pc[r] \in Finished
=============================================================================
