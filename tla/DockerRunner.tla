---------------------------- MODULE DockerRunner ----------------------------
(***************************************************************************)
(* sandbox-runner in docker mode (docker_runner.go): Start makes a network,*)
(* a container on it, starts it, asks for its port and waits for its       *)
(* health, and takes back what it made when a call fails; Stop removes     *)
(* container and network.  The daemon may refuse a call; with the fault    *)
(* "lost" a call may take effect although its context ended first, and     *)
(* with "remove" a removal may fail, with "client" only that of a Stop,    *)
(* whose context ends when its client goes away.                           *)
(***************************************************************************)
EXTENDS SandboxRequests

VARIABLES
  sem,         \* tokens in r.sem
  containers,  \* keys of r.containers
  pc,          \* control point of each request
  victim,      \* the sandbox that each stop request has taken out of the map
  failed,      \* stop requests whose container could not be removed
  networkID,   \* starts that know the id of their network
  containerID, \*   and of their container
  network,     \* the daemon's network
  container,   \*   and container for each sandbox
  sampler,     \* the resource sampler of each sandbox
  up,          \* the runner's own process: serving, draining or exited
  hit          \* history: sandboxes that a fault has struck

requestv == <<sem, containers, pc, victim, failed, networkID, containerID>>
daemonv  == <<network, container>>
vars     == <<requestv, daemonv, sampler, up, hit>>

NoSandbox == "none"

Points == {"idle", "queue", "build", "network", "create", "start", "port",
           "health", "register", "flush", "container", "unlink"} \cup Finished

TypeOK ==
  /\ sem \in 0..Cap
  /\ containers \in SUBSET Starts
  /\ pc \in [Requests -> Points]
  /\ victim \in [Stops -> Starts \cup {NoSandbox}]
  /\ failed \in SUBSET Stops
  /\ networkID \in SUBSET Starts
  /\ containerID \in SUBSET Starts
  /\ network \in [Starts -> {"none", "exists", "removed"}]
  /\ container \in [Starts -> {"none", "created", "running", "removed"}]
  /\ sampler \in [Starts -> {"none", "running", "flushed"}]
  /\ up \in {"serving", "draining", "exited"}
  /\ hit \in SUBSET Starts

Init ==
  /\ sem = 0 /\ containers = {}
  /\ pc = [r \in Requests |-> "idle"]
  /\ victim = [t \in Stops |-> NoSandbox]
  /\ failed = {} /\ networkID = {} /\ containerID = {}
  /\ network = [s \in Starts |-> "none"]
  /\ container = [s \in Starts |-> "none"]
  /\ sampler = [s \in Starts |-> "none"]
  /\ up = "serving"
  /\ hit = {}

-----------------------------------------------------------------------------
(* Build, and the slots *)

Goto(r, point) == pc' = [pc EXCEPT ![r] = point]

\* r.sem <- struct{}{} and the deferred receive.
Acquire == sem < Cap /\ sem' = sem + 1

Release == sem' = sem - 1

Queue(r) ==
  /\ pc[r] = "idle" /\ r \in Builds \cup Starts /\ up = "serving"
  /\ Goto(r, "queue")
  /\ UNCHANGED <<sem, containers, victim, failed, networkID, containerID, daemonv,
                 sampler, hit, up>>

BuildAcquire(b) ==
  /\ pc[b] = "queue" /\ Acquire
  /\ Goto(b, "build")
  /\ UNCHANGED <<containers, victim, failed, networkID, containerID, daemonv,
                 sampler, hit, up>>

BuildEnds(b) ==
  /\ pc[b] = "build"
  /\ Goto(b, "built") \/ Goto(b, "error")
  /\ Release
  /\ UNCHANGED <<containers, victim, failed, networkID, containerID, daemonv,
                 sampler, hit, up>>

-----------------------------------------------------------------------------
(* Start *)

\* An error at a directory of the sandbox counts as one at the first call.
StartAcquire(s) ==
  /\ pc[s] = "queue" /\ Acquire
  /\ Goto(s, IF s \in Isolated THEN "network" ELSE "create")
  /\ UNCHANGED <<containers, victim, failed, networkID, containerID, daemonv,
                 sampler, hit, up>>

\* What a call to the daemon does to one of its objects: it succeeds; or it
\* fails without effect; or with, when its context has ended.
Struck(s) == hit' = hit \cup {s}

Lost(s) == "lost" \in Faults /\ Struck(s)

NetworkCreate(s) ==
  /\ pc[s] = "network"
  /\ \/ /\ network' = [network EXCEPT ![s] = "exists"]
        /\ networkID' = networkID \cup {s}
        /\ Goto(s, "create") /\ UNCHANGED <<sem, hit>>
     \/ /\ \/ UNCHANGED <<network, hit>>
           \/ Lost(s) /\ network' = [network EXCEPT ![s] = "exists"]
        /\ Goto(s, "error") /\ Release /\ UNCHANGED networkID
  /\ UNCHANGED <<containers, victim, failed, containerID, container, sampler, up>>

\* Mutant: no cleanup when the container cannot be created.
ContainerCreateOnly(s) ==
  /\ pc[s] = "create"
  /\ \/ /\ container' = [container EXCEPT ![s] = "created"]
        /\ containerID' = containerID \cup {s}
        /\ Goto(s, "start") /\ UNCHANGED sem
     \/ Goto(s, "error") /\ Release /\ UNCHANGED <<container, containerID>>
  /\ UNCHANGED <<containers, victim, failed, networkID, network, sampler, hit,
                 up>>

\* After a failure cleanupDockerResources has no container to remove.
ContainerCreate(s) ==
  /\ pc[s] = "create"
  /\ \/ /\ container' = [container EXCEPT ![s] = "created"]
        /\ containerID' = containerID \cup {s}
        /\ Goto(s, "start") /\ UNCHANGED hit
     \/ /\ \/ UNCHANGED <<container, hit>>
           \/ Lost(s) /\ container' = [container EXCEPT ![s] = "created"]
        /\ Goto(s, "unlink") /\ UNCHANGED containerID
  /\ UNCHANGED <<sem, containers, victim, failed, networkID, network, sampler,
                 up>>

\* From here on a failure removes container and network.
ContainerStart(s) ==
  /\ pc[s] = "start"
  /\ \/ /\ container' = [container EXCEPT ![s] = "running"]
        /\ Goto(s, "port") /\ UNCHANGED hit
     \/ /\ \/ UNCHANGED <<container, hit>>
           \/ Lost(s) /\ container' = [container EXCEPT ![s] = "running"]
        /\ Goto(s, "container")
  /\ UNCHANGED <<sem, containers, victim, failed, networkID, containerID, network,
                 sampler, up>>

\* dockerHostPort polls until the port is mapped, and then waitForHealth until
\* the engine answers.
Await(s) ==
  /\ \/ /\ pc[s] \in {"port", "health"} /\ container[s] = "running"
        /\ Goto(s, IF pc[s] = "port" THEN "health" ELSE "register")
     \/ pc[s] \in {"port", "health"} /\ Goto(s, "container")
  /\ UNCHANGED <<sem, containers, victim, failed, networkID, containerID, daemonv,
                 sampler, hit, up>>

\* Without a stats client there is no sampler.
Register(s) ==
  /\ pc[s] = "register"
  /\ \/ sampler' = [sampler EXCEPT ![s] = "running"]
     \/ UNCHANGED sampler
  /\ containers' = containers \cup {s}
  /\ Goto(s, "handle") /\ Release
  /\ UNCHANGED <<victim, failed, networkID, containerID, daemonv, hit, up>>

-----------------------------------------------------------------------------
(* Stop *)

Stop(t, s) ==
  /\ pc[t] = "idle" /\ up = "serving"
  /\ IF s \in containers
     THEN Goto(t, "flush") /\ victim' = [victim EXCEPT ![t] = s]
     ELSE Goto(t, "error") /\ UNCHANGED victim
  /\ containers' = containers \ {s}
  /\ UNCHANGED <<sem, failed, networkID, containerID, daemonv, sampler, hit, up>>

FlushSampler(t) ==
  /\ pc[t] = "flush"
  /\ sampler' = [sampler EXCEPT ![victim[t]] = IF @ = "running" THEN "flushed" ELSE @]
  /\ Goto(t, "container")
  /\ UNCHANGED <<sem, containers, victim, failed, networkID, containerID, daemonv,
                 hit, up>>

-----------------------------------------------------------------------------
(* dockerStop and dockerRemoveNetwork, in Stop and in cleanupDockerResources *)

Subject(p) == IF p \in Starts THEN p ELSE victim[p]

RemoveFails(p) == "remove" \in Faults \/ ("client" \in Faults /\ p \in Stops)

\* A container that never ran leaves no trace.
Unstarted(c) == IF c = "created" THEN "none" ELSE c

\* dockerStop forces the removal; a container that is not there is fine.
DockerStop(p) ==
  /\ pc[p] = "container"
  /\ \/ /\ container' = [container EXCEPT ![Subject(p)] =
                            IF @ = "running" THEN "removed" ELSE Unstarted(@)]
        /\ UNCHANGED <<failed, hit>>
     \/ /\ RemoveFails(p) /\ Struck(Subject(p)) /\ UNCHANGED container
        /\ failed' = IF p \in Stops THEN failed \cup {p} ELSE failed
  /\ Goto(p, "unlink")
  /\ UNCHANGED <<sem, containers, victim, networkID, containerID, network,
                 sampler, up>>

\* Mutant: the error of dockerStop is forgotten.
ReturnsNetworkError(p, ok) ==
  /\ Goto(p, IF p \in Stops /\ ok THEN "stopped" ELSE "error")
  /\ IF p \in Starts THEN Release ELSE UNCHANGED sem

\* Mutant: a Start that cleans up keeps its slot.
ReturnsKeepSlot(p, ok) ==
  /\ Goto(p, IF p \in Stops \ failed /\ ok THEN "stopped" ELSE "error")
  /\ UNCHANGED sem

\* Stop reports the first error; a failed Start its own.
Returns(p, ok) ==
  /\ Goto(p, IF p \in Stops \ failed /\ ok THEN "stopped" ELSE "error")
  /\ IF p \in Starts THEN Release ELSE UNCHANGED sem

\* dockerRemoveNetwork does nothing without an id; the daemon refuses to
\* remove a network that a running container is attached to.
DockerRemoveNetwork(p) ==
  LET s == Subject(p)
      here == s \in networkID
  IN
  /\ pc[p] = "unlink"
  /\ \/ ~here /\ UNCHANGED <<network, hit>> /\ Returns(p, TRUE)
     \/ /\ here /\ container[s] # "running"
        /\ network' = [network EXCEPT ![s] = "removed"]
        /\ Returns(p, TRUE) /\ UNCHANGED hit
     \/ /\ here /\ (container[s] = "running" \/ RemoveFails(p))
        /\ UNCHANGED network /\ Returns(p, FALSE) /\ Struck(s)
  /\ UNCHANGED <<containers, victim, failed, networkID, containerID, container,
                 sampler, up>>

-----------------------------------------------------------------------------

\* An engine ends by itself, and AutoRemove removes its container.
EngineExits(s) ==
  /\ container[s] = "running"
  /\ container' = [container EXCEPT ![s] = "removed"]
  /\ UNCHANGED <<requestv, network, sampler, hit, up>>

-----------------------------------------------------------------------------
(* SIGTERM: requests drain, or ten seconds pass *)

Signal ==
  /\ "signal" \in Faults /\ up = "serving"
  /\ up' = "draining"
  /\ UNCHANGED <<requestv, daemonv, sampler, hit>>

\* Requests, samplers and the map end with the runner; the daemon keeps what it
\* has, which strikes every sandbox.
RunnerExits ==
  /\ up = "draining"
  /\ up' = "exited"
  /\ containers' = {} /\ sem' = 0
  /\ pc' = [r \in Requests |-> IF pc[r] \in Finished THEN pc[r] ELSE "error"]
  /\ sampler' = [s \in Starts |-> IF sampler[s] = "running" THEN "none" ELSE sampler[s]]
  /\ hit' = Starts
  /\ UNCHANGED <<victim, failed, networkID, containerID, daemonv>>

-----------------------------------------------------------------------------

StartStep(s) ==
  \/ StartAcquire(s) \/ NetworkCreate(s) \/ ContainerCreate(s)
  \/ ContainerStart(s) \/ Await(s) \/ Register(s)

RemoveStep(p) == DockerStop(p) \/ DockerRemoveNetwork(p)

RequestStep(r) ==
  \/ r \in Builds /\ (BuildAcquire(r) \/ BuildEnds(r))
  \/ r \in Starts /\ (StartStep(r) \/ RemoveStep(r))
  \/ r \in Stops /\ (FlushSampler(r) \/ RemoveStep(r))

Next ==
  \/ \E r \in Requests : RequestStep(r) \/ Queue(r)
  \/ \E t \in Stops, s \in Starts : Stop(t, s)
  \/ \E s \in Starts : EngineExits(s)
  \/ Signal \/ RunnerExits

Spec == Init /\ [][Next]_vars

-----------------------------------------------------------------------------
(* Properties *)

InFlight(r) == pc[r] \notin {"idle"} \cup Finished

\* Who may still remove what belongs to a sandbox.
Owners(s) ==
  {p \in Starts \cup Stops : InFlight(p) /\ Subject(p) = s}
    \cup (IF s \in containers THEN {"map"} ELSE {})

\* What exists at the daemon can still be removed by somebody, unless an answer
\* about this very sandbox was lost, its removal failed or the runner has exited:
\* each failure in Start takes back all that the calls before it have made, and a
\* network never outlives its sandbox.
NothingLeftBehind ==
  \A s \in Starts \ hit :
    container[s] \in {"created", "running"} \/ network[s] = "exists"
      => Owners(s) # {}

\* docs/RESILIENCE.md: "a stuck container is always reaped": a container that
\* exists is known to the runner, which alone would remove it.
ContainerIsReaped ==
  \A s \in Starts : container[s] \in {"created", "running"} => Owners(s) # {}

\* The engine as a caller of the runner sees it.
Engine ==
  [s \in Starts |-> CASE container[s] = "running" -> "up"
                      [] container[s] = "removed" -> "gone"
                      [] OTHER -> "none"]
=============================================================================
