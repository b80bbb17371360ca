----------------------------- MODULE LocalRunner -----------------------------
(***************************************************************************)
(* sandbox-runner in local mode (local_runner.go): builds and starts queue *)
(* for a semaphore; Start spawns the engine on a port that was free a      *)
(* moment ago, waits until something answers on it and registers the       *)
(* sandbox; Stop takes it out of the map, flushes its sampler and          *)
(* interrupts, then kills the process.  A failed Start stops its process   *)
(* the same way.                                                           *)
(***************************************************************************)
EXTENDS SandboxRequests

VARIABLES
  sem,        \* tokens in r.sem
  images,     \* r.images
  sandboxes,  \* keys of r.sandboxes
  pc,         \* control point of each request
  victim,     \* the sandbox that each stop request has taken out of the map
  gone,       \* stop requests whose context has ended: the client went away
  proc,       \* the process of each sandbox, by what it does,
  signal,     \*   the last signal sent to it
  done,       \*   and the channel its exit is delivered on
  port,       \* the port each sandbox was given
  sampler,    \* the resource sampler of each sandbox
  up          \* the runner's own process: serving, draining or exited

requestv == <<sem, images, sandboxes, pc, victim, gone>>
processv == <<proc, signal, done>>
vars     == <<requestv, processv, port, sampler, up>>

NoPort    == "none"
NoSandbox == "none"

Points == {"idle", "queue", "build", "spawn", "health", "register", "flush",
           "stop", "interrupted", "killed"} \cup Finished

TypeOK ==
  /\ sem \in 0..Cap
  /\ images \in SUBSET Builds
  /\ sandboxes \in SUBSET Starts
  /\ pc \in [Requests -> Points]
  /\ victim \in [Stops -> Starts \cup {NoSandbox}]
  /\ gone \in SUBSET Stops
  /\ proc \in [Starts -> {"none", "booting", "listening", "exited"}]
  /\ signal \in [Starts -> {"none", "interrupt", "kill"}]
  /\ done \in [Starts -> {"empty", "full", "taken"}]
  /\ port \in [Starts -> Ports \cup {NoPort}]
  /\ sampler \in [Starts -> {"none", "running", "flushed"}]
  /\ up \in {"serving", "draining", "exited"}

Init ==
  /\ sem = 0 /\ images = {} /\ sandboxes = {}
  /\ pc = [r \in Requests |-> "idle"]
  /\ victim = [t \in Stops |-> NoSandbox]
  /\ gone = {}
  /\ proc = [s \in Starts |-> "none"]
  /\ signal = [s \in Starts |-> "none"]
  /\ done = [s \in Starts |-> "empty"]
  /\ port = [s \in Starts |-> NoPort]
  /\ sampler = [s \in Starts |-> "none"]
  /\ up = "serving"

-----------------------------------------------------------------------------
(* Requests and their slots *)

Goto(r, point) == pc' = [pc EXCEPT ![r] = point]

\* r.sem <- struct{}{} and the deferred receive.
Acquire == sem < Cap /\ sem' = sem + 1

Release == sem' = sem - 1

\* A client goes away, which ends the context of its request.  A build or a start
\* then fails at its next call, as it may anyway; a stop looks at its context.
Disconnect(t) ==
  /\ "client" \in Faults
  /\ pc[t] \notin {"idle"} \cup Finished /\ up # "exited"
  /\ gone' = gone \cup {t}
  /\ UNCHANGED <<sem, images, sandboxes, pc, victim, processv, port, sampler, up>>

-----------------------------------------------------------------------------
(* Build *)

Build(b) ==
  /\ up = "serving" /\ pc[b] = "idle"
  /\ Goto(b, "queue")
  /\ UNCHANGED <<sem, images, sandboxes, victim, gone, processv, port, sampler, up>>

BuildAcquire(b) ==
  /\ pc[b] = "queue" /\ Acquire
  /\ Goto(b, "build")
  /\ UNCHANGED <<images, sandboxes, victim, gone, processv, port, sampler, up>>

\* The build steps end well, or one of them fails or times out.
BuildEnds(b) ==
  /\ pc[b] = "build"
  /\ \/ Goto(b, "built") /\ images' = images \cup {b}
     \/ Goto(b, "error") /\ UNCHANGED images
  /\ Release
  /\ UNCHANGED <<sandboxes, victim, gone, processv, port, sampler, up>>

-----------------------------------------------------------------------------
(* Start *)

\* The image is looked up before the slot is waited for.
Start(s, b) ==
  /\ up = "serving" /\ pc[s] = "idle"
  /\ Goto(s, IF b \in images THEN "queue" ELSE "error")
  /\ UNCHANGED <<sem, images, sandboxes, victim, gone, processv, port, sampler, up>>

Listening(q) == \E s \in Starts : proc[s] = "listening" /\ port[s] = q

\* freePort binds a port and closes it again: it is free now.
StartAcquire(s) ==
  /\ pc[s] = "queue" /\ Acquire
  /\ \E q \in Ports : ~Listening(q) /\ port' = [port EXCEPT ![s] = q]
  /\ Goto(s, "spawn")
  /\ UNCHANGED <<images, sandboxes, victim, gone, processv, sampler, up>>

\* cmd.Start and the goroutine that waits for the process.
Spawn(s) ==
  /\ pc[s] = "spawn"
  /\ proc' = [proc EXCEPT ![s] = "booting"]
  /\ Goto(s, "health")
  /\ UNCHANGED <<sem, images, sandboxes, victim, gone, signal, done, port, sampler, up>>

\* A directory or the log cannot be made, or the binary cannot be executed.
SpawnFails(s) ==
  /\ "os" \in Faults /\ pc[s] = "spawn"
  /\ Goto(s, "error") /\ Release
  /\ UNCHANGED <<images, sandboxes, victim, gone, processv, port, sampler, up>>

\* Something answers on the port.
HealthPasses(s) ==
  /\ pc[s] = "health" /\ Listening(port[s])
  /\ Goto(s, "register")
  /\ UNCHANGED <<sem, images, sandboxes, victim, gone, processv, port, sampler, up>>

\* Mutant: the failed start returns without stopping its process.
HealthFailsOnly(s) ==
  /\ pc[s] = "health"
  /\ Goto(s, "error") /\ Release
  /\ UNCHANGED <<images, sandboxes, victim, gone, processv, port, sampler, up>>

\* 45 seconds have passed or the client is gone.
HealthFails(s) ==
  /\ pc[s] = "health"
  /\ Goto(s, "stop")
  /\ UNCHANGED <<sem, images, sandboxes, victim, gone, processv, port, sampler, up>>

\* The sampler starts, the sandbox is entered in the map, the handle returned.
Register(s) ==
  /\ pc[s] = "register"
  /\ sampler' = [sampler EXCEPT ![s] = "running"]
  /\ sandboxes' = sandboxes \cup {s}
  /\ Goto(s, "handle") /\ Release
  /\ UNCHANGED <<images, victim, gone, processv, port, up>>

-----------------------------------------------------------------------------
(* Stop *)

\* Mutant: the entry stays in the map until the process is stopped.
StopKeepsEntry(t, s) ==
  /\ up = "serving" /\ pc[t] = "idle"
  /\ IF s \in sandboxes
     THEN Goto(t, "flush") /\ victim' = [victim EXCEPT ![t] = s]
     ELSE Goto(t, "error") /\ UNCHANGED victim
  /\ UNCHANGED <<sem, images, sandboxes, gone, processv, port, sampler, up>>

Stop(t, s) ==
  /\ up = "serving" /\ pc[t] = "idle"
  /\ IF s \in sandboxes
     THEN Goto(t, "flush") /\ victim' = [victim EXCEPT ![t] = s]
     ELSE Goto(t, "error") /\ UNCHANGED victim
  /\ sandboxes' = sandboxes \ {s}
  /\ UNCHANGED <<sem, images, gone, processv, port, sampler, up>>

\* sampler.Stop closes a channel and waits for the goroutine.
FlushSampler(t) ==
  /\ pc[t] = "flush"
  /\ sampler' = [sampler EXCEPT ![victim[t]] = "flushed"]
  /\ Goto(t, "stop")
  /\ UNCHANGED <<sem, images, sandboxes, victim, gone, processv, port, up>>

-----------------------------------------------------------------------------
(* stopProcess, in a failed Start or in a Stop *)

Stoppers == Starts \cup Stops
Subject(p) == IF p \in Starts THEN p ELSE victim[p]

\* stopProcess returns, and so does its caller.
Returns(p, ok) ==
  /\ Goto(p, IF p \in Stops /\ ok THEN "stopped" ELSE "error")
  /\ IF p \in Starts THEN Release ELSE UNCHANGED sem

\* The exit is received, at once or while waiting for it.
Reaped(p) ==
  /\ pc[p] \in {"stop", "interrupted", "killed"}
  /\ done[Subject(p)] = "full"
  /\ done' = [done EXCEPT ![Subject(p)] = "taken"]
  /\ Returns(p, TRUE)
  /\ UNCHANGED <<images, sandboxes, victim, gone, proc, signal, port, sampler, up>>

Interrupt(p) ==
  /\ pc[p] = "stop" /\ done[Subject(p)] # "full"
  /\ signal' = [signal EXCEPT ![Subject(p)] = "interrupt"]
  /\ Goto(p, "interrupted")
  /\ UNCHANGED <<sem, images, sandboxes, victim, gone, proc, done, port, sampler, up>>

\* After 1.5 seconds.
Kill(p) ==
  /\ pc[p] = "interrupted"
  /\ signal' = [signal EXCEPT ![Subject(p)] = "kill"]
  /\ Goto(p, "killed")
  /\ UNCHANGED <<sem, images, sandboxes, victim, gone, proc, done, port, sampler, up>>

\* Mutant: a process that does not end in time counts as stopped.
GivesUpQuietly(p) ==
  /\ \/ pc[p] = "killed"
     \/ pc[p] = "interrupted" /\ p \in gone
  /\ Returns(p, TRUE)
  /\ UNCHANGED <<images, sandboxes, victim, gone, processv, port, sampler, up>>

\* The context ends, or two seconds after the kill.  The cleanup context of a
\* failed Start ends after three seconds, when the kill is out.
GivesUp(p) ==
  /\ \/ pc[p] = "killed"
     \/ pc[p] = "interrupted" /\ p \in gone
  /\ Returns(p, FALSE)
  /\ UNCHANGED <<images, sandboxes, victim, gone, processv, port, sampler, up>>

-----------------------------------------------------------------------------
(* Engine processes *)

\* The engine binds its port, if no other engine has it.
Listen(s) ==
  /\ proc[s] = "booting" /\ ~Listening(port[s])
  /\ proc' = [proc EXCEPT ![s] = "listening"]
  /\ UNCHANGED <<requestv, signal, done, port, sampler, up>>

\* It may end at any time, and cmd.Wait delivers that.
Exit(s) ==
  /\ proc[s] \in {"booting", "listening"}
  /\ proc' = [proc EXCEPT ![s] = "exited"]
  /\ done' = [done EXCEPT ![s] = "full"]
  /\ UNCHANGED <<requestv, signal, port, sampler, up>>

-----------------------------------------------------------------------------
(* SIGTERM: requests drain, or ten seconds pass *)

Signal ==
  /\ "signal" \in Faults /\ up = "serving"
  /\ up' = "draining"
  /\ UNCHANGED <<requestv, processv, port, sampler>>

\* Requests and samplers end with the runner; the engines do not.
RunnerExits ==
  /\ up = "draining"
  /\ up' = "exited"
  /\ sandboxes' = {} /\ images' = {} /\ sem' = 0 /\ gone' = {}
  /\ pc' = [r \in Requests |-> IF pc[r] \in Finished THEN pc[r] ELSE "error"]
  /\ sampler' = [s \in Starts |-> IF sampler[s] = "running" THEN "none" ELSE sampler[s]]
  /\ UNCHANGED <<victim, processv, port>>

-----------------------------------------------------------------------------

BuildStep(b) == BuildAcquire(b) \/ BuildEnds(b)

StartStep(s) ==
  \/ StartAcquire(s) \/ Spawn(s) \/ SpawnFails(s)
  \/ HealthPasses(s) \/ HealthFails(s) \/ Register(s)

StopStep(p) == Reaped(p) \/ Interrupt(p) \/ Kill(p) \/ GivesUp(p)

RequestStep(r) ==
  \/ r \in Builds /\ BuildStep(r)
  \/ r \in Starts /\ (StartStep(r) \/ StopStep(r))
  \/ r \in Stops /\ (FlushSampler(r) \/ StopStep(r))

Next ==
  \/ \E r \in Requests : RequestStep(r)
  \/ \E t \in Stops : Disconnect(t)
  \/ \E b \in Builds : Build(b)
  \/ \E s \in Starts, b \in Builds : Start(s, b)
  \/ \E t \in Stops, s \in Starts : Stop(t, s)
  \/ \E s \in Starts : Listen(s) \/ Exit(s)
  \/ Signal \/ RunnerExits

Spec == Init /\ [][Next]_vars

-----------------------------------------------------------------------------
(* Properties *)

InFlight(r) == pc[r] \notin {"idle"} \cup Finished

\* Who may still act on the process of a sandbox: the request that starts it,
\* requests that stop it, and the map.
Owners(s) ==
  {p \in Stoppers : InFlight(p) /\ Subject(p) = s}
    \cup (IF s \in sandboxes THEN {"map"} ELSE {})

\* A sandbox is handed from its Start to the map to one Stop: two requests
\* never wait for one exit, of which there is a single delivery, and no
\* sampler is stopped twice, which would panic.
OneOwner ==
  /\ \A s \in Starts : \A p, q \in Owners(s) : p = q
  /\ \A t \in Stops : pc[t] = "flush" => sampler[victim[t]] = "running"

\* While the runner is up, a process that has not been killed belongs to a
\* request or to the map, so that it can still be stopped, also after failed
\* starts and when clients leave at any point but one: a client that leaves
\* during a Stop ends it between the interrupt and the kill.
NoStrayProcess ==
  up # "exited" =>
    \A s \in Starts :
      proc[s] \in {"booting", "listening"} /\ signal[s] # "kill" =>
        Owners(s) # {} \/ \E t \in Stops : victim[t] = s /\ t \in gone

\* The engine as a caller of the runner sees it.
Engine ==
  [s \in Starts |-> CASE proc[s] = "none" -> "none"
                      [] proc[s] = "exited" -> "gone"
                      [] OTHER -> "up"]
=============================================================================
