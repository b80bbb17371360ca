------------------------ MODULE SandboxRunnerProofs -------------------------
(***************************************************************************)
(* Proofs about SandboxRunner: who owns a sandbox in either runner, that    *)
(* nothing is left to nobody, and that both runners keep the promise of     *)
(* module Sandbox.  The two runners never meet: mode is fixed, and each has *)
(* an invariant of its own.                                                *)
(***************************************************************************)
EXTENDS SandboxRunner, TLAPS

-----------------------------------------------------------------------------
(* The invariant of the local runner *)

LocalTypes ==
  /\ sandboxes \in SUBSET Starts
  /\ pc \in [Requests -> Local!Points]
  /\ victim \in [Stops -> Starts \cup {"none"}]
  /\ gone \in SUBSET Stops
  /\ proc \in [Starts -> {"none", "booting", "listening", "exited"}]
  /\ signal \in [Starts -> {"none", "interrupt", "kill"}]
  /\ done \in [Starts -> {"empty", "full", "taken"}]
  /\ sampler \in [Starts -> {"none", "running", "flushed"}]

\* A sandbox in the map was registered by its Start and is sampled; the process
\* is there from Spawn on, and its exit is delivered after it.
LocalStartInv(s) ==
  /\ s \in sandboxes => pc[s] = "handle" /\ sampler[s] = "running"
  /\ pc[s] \in {"idle", "queue", "spawn"} => proc[s] = "none"
  /\ pc[s] \in {"register", "health", "handle"} => proc[s] # "none"
  /\ done[s] # "empty" => proc[s] = "exited"
  /\ pc[s] = "killed" => signal[s] = "kill"

\* What a Stop took out of the map had been handed out, and is not there again;
\* a Stop that ends well has received the exit.
LocalStopInv(t) ==
  /\ pc[t] = "idle" => victim[t] = "none"
  /\ pc[t] \in {"flush", "stop", "interrupted", "killed", "stopped"}
       => victim[t] # "none"
  /\ victim[t] # "none" => pc[victim[t]] = "handle" /\ victim[t] \notin sandboxes
  /\ pc[t] = "flush" => sampler[victim[t]] = "running"
  /\ pc[t] = "killed" => signal[victim[t]] = "kill"
  /\ pc[t] = "stopped" => done[victim[t]] = "taken"

\* No two stops took the same sandbox out of the map.
OneVictim ==
  \A t, u \in Stops : victim[t] # "none" /\ victim[t] = victim[u] => t = u

\* Who still looks after a process.
Keeper(s) ==
  \/ Local!InFlight(s)
  \/ s \in sandboxes
  \/ \E t \in Stops : victim[t] = s /\ (Local!InFlight(t) \/ t \in gone)

LocalKept(s) ==
  up # "exited" /\ proc[s] \in {"booting", "listening"} /\ signal[s] # "kill"
    => Keeper(s)

LocalInv ==
  /\ LocalTypes
  /\ OneVictim
  /\ \A s \in Starts : LocalStartInv(s)
  /\ \A t \in Stops : LocalStopInv(t)
  /\ \A s \in Starts : LocalKept(s)

-----------------------------------------------------------------------------
(* The invariant of the docker runner *)

StartPoints == {"idle", "queue", "network", "create", "start", "port", "health",
                "register", "handle", "container", "unlink", "error"}
StopPoints  == {"idle", "flush", "container", "unlink", "stopped", "error"}

DockerTypes ==
  /\ containers \in SUBSET Starts
  /\ pc \in [Requests -> Docker!Points]
  /\ victim \in [Stops -> Starts \cup {"none"}]
  /\ failed \in SUBSET Stops
  /\ networkID \in SUBSET Starts
  /\ network \in [Starts -> {"none", "exists", "removed"}]
  /\ container \in [Starts -> {"none", "created", "running", "removed"}]
  /\ hit \in SUBSET Starts
  /\ \A s \in Starts : pc[s] \in StartPoints
  /\ \A t \in Stops : pc[t] \in StopPoints

\* Nobody needs to remove the container of s, or its network.
NoContainer(s) == container[s] \in {"none", "removed"}
NoNetwork(s)   == network[s] # "exists"

\* What has been made of a sandbox at each point of its Start.
DockerStartInv(s) ==
  /\ s \in containers => pc[s] = "handle"
  /\ pc[s] \in {"idle", "queue", "network"} => network[s] = "none"
  /\ pc[s] \in {"idle", "queue", "network", "create"} => container[s] = "none"
  /\ pc[s] = "start" => container[s] = "created"
  /\ pc[s] \in {"port", "health", "register", "handle"}
       => container[s] \in {"running", "removed"}
  /\ s \notin hit => /\ pc[s] \in {"unlink", "error"} => NoContainer(s)
                     /\ pc[s] = "error" => NoNetwork(s)
                     /\ network[s] = "exists" => s \in networkID

\* A Stop works on a sandbox that was handed out and is not in the map any more.
DockerStopInv(t) ==
  /\ pc[t] = "idle" => victim[t] = "none"
  /\ pc[t] \in {"flush", "container", "unlink", "stopped"} => victim[t] # "none"
  /\ victim[t] # "none" =>
       /\ pc[victim[t]] = "handle" /\ victim[t] \notin containers
       /\ victim[t] \notin hit =>
            /\ pc[t] \in {"unlink", "stopped", "error"} => NoContainer(victim[t])
            /\ pc[t] \in {"stopped", "error"} => NoNetwork(victim[t])
  /\ pc[t] = "unlink" /\ t \notin failed => container[victim[t]] = "removed"
  /\ pc[t] = "stopped" => container[victim[t]] = "removed"

\* A sandbox that was handed out is in the map, or a Stop took it, until the
\* runner's exit strikes them all.
DockerKept(s) ==
  s \notin hit /\ pc[s] = "handle"
    => s \in containers \/ \E t \in Stops : victim[t] = s

DockerInv ==
  /\ DockerTypes
  /\ OneVictim
  /\ \A s \in Starts : DockerStartInv(s)
  /\ \A t \in Stops : DockerStopInv(t)
  /\ \A s \in Starts : DockerKept(s)

Inv ==
  /\ mode \in {"local", "docker"}
  /\ mode = "local" => LocalInv
  /\ mode = "docker" => DockerInv

-----------------------------------------------------------------------------
(* Requests *)

\* A request is a build, a start or a stop and nothing else, and no request or
\* sandbox has the name of the map or of nobody.
LEMMA Distinct ==
  /\ \A b \in Builds : b \in Requests /\ b \notin Starts /\ b \notin Stops
  /\ \A s \in Starts : s \in Requests /\ s \notin Builds /\ s \notin Stops
  /\ \A t \in Stops : t \in Requests /\ t \notin Builds /\ t \notin Starts
  /\ "none" \notin Starts /\ "map" \notin Requests
  BY RequestsAssumption DEF Requests

-----------------------------------------------------------------------------
(* The local runner keeps its invariant *)

\* Builds, clients that leave and the signal touch no sandbox.
LEMMA LocalBuildKeepsInv ==
  ASSUME LocalInv,
         \/ \E b \in Builds : Local!Build(b) \/ Local!BuildStep(b)
         \/ \E t \in Stops : Local!Disconnect(t)
         \/ Local!Signal
  PROVE  LocalInv'
<1> USE Distinct
<1> DEFINE Effect ==
      /\ UNCHANGED <<sandboxes, victim, proc, signal, done, sampler>>
      /\ gone \subseteq gone' /\ gone' \subseteq Stops
      /\ up' = up \/ up # "exited"
      /\ pc' = pc \/ \E b \in Builds, x \in Local!Points : pc' = [pc EXCEPT ![b] = x]
<1>1. Effect
  <2>1. LocalTypes
    BY DEF LocalInv
  <2>2. "queue" \in Local!Points /\ "build" \in Local!Points
        /\ "built" \in Local!Points /\ "error" \in Local!Points
    BY DEF Local!Points, Local!Finished
  <2>3. ASSUME NEW b \in Builds, Local!Build(b) PROVE Effect
    BY <2>1, <2>2, <2>3 DEF Local!Build, Local!Goto, Local!processv, LocalTypes
  <2>4. ASSUME NEW b \in Builds, Local!BuildAcquire(b) PROVE Effect
    BY <2>1, <2>2, <2>4 DEF Local!BuildAcquire, Local!Goto, Local!processv, LocalTypes
  <2>5. ASSUME NEW b \in Builds, Local!BuildEnds(b) PROVE Effect
    BY <2>1, <2>2, <2>5 DEF Local!BuildEnds, Local!Goto, Local!processv, LocalTypes
  <2>6. ASSUME NEW t \in Stops, Local!Disconnect(t) PROVE Effect
    BY <2>1, <2>6 DEF Local!Disconnect, Local!processv, LocalTypes
  <2>7. ASSUME Local!Signal PROVE Effect
    BY <2>1, <2>7 DEF Local!Signal, Local!requestv, Local!processv, LocalTypes
  <2> HIDE DEF Effect
  <2> QED
    BY <2>3, <2>4, <2>5, <2>6, <2>7 DEF Local!BuildStep
<1>2. pc' \in [Requests -> Local!Points] /\ \A r \in Starts \cup Stops : pc'[r] = pc[r]
  BY <1>1 DEF LocalInv, LocalTypes
<1>3. LocalTypes' /\ OneVictim'
  BY <1>1, <1>2 DEF LocalInv, LocalTypes, OneVictim
<1>4. ASSUME NEW s \in Starts PROVE LocalStartInv(s)'
  BY <1>1, <1>2 DEF LocalInv, LocalStartInv
<1>5. ASSUME NEW t \in Stops PROVE LocalStopInv(t)'
  BY <1>1, <1>2 DEF LocalInv, LocalTypes, LocalStopInv
<1>6. ASSUME NEW s \in Starts PROVE LocalKept(s)'
  BY <1>1, <1>2 DEF LocalInv, LocalKept, Keeper, Local!InFlight
<1> QED
  BY <1>3, <1>4, <1>5, <1>6 DEF LocalInv

\* Start goes on in a request that no Stop works for: the sandbox is not in the
\* map before Register.
LEMMA LocalStartKeepsInv ==
  ASSUME LocalInv, NEW s \in Starts,
         (\E b \in Builds : Local!Start(s, b)) \/ Local!StartStep(s)
  PROVE  LocalInv'
<1> USE Distinct
<1>1. LocalTypes
  BY DEF LocalInv
<1> DEFINE Effect ==
      /\ UNCHANGED <<victim, gone, signal, done, up>>
      /\ pc[s] \in {"idle", "queue", "spawn", "health", "register"}
      /\ pc' = [pc EXCEPT ![s] = pc'[s]] /\ pc'[s] \in Local!Points
      /\ \A q \in Requests : q # s => pc'[q] = pc[q]
      /\ \/ /\ UNCHANGED <<proc, sandboxes, sampler>>
            /\ \/ pc[s] \in {"idle", "queue", "spawn"}
                  /\ pc'[s] \in {"queue", "spawn", "error"}
               \/ pc[s] = "health" /\ pc'[s] \in {"register", "stop"}
         \/ /\ UNCHANGED <<sandboxes, sampler>>
            /\ pc[s] = "spawn" /\ pc'[s] = "health"
            /\ proc' = [proc EXCEPT ![s] = "booting"]
         \/ /\ UNCHANGED proc
            /\ pc[s] = "register" /\ pc'[s] = "handle"
            /\ sandboxes' = sandboxes \cup {s}
            /\ sampler' = [sampler EXCEPT ![s] = "running"]
<1>2. Effect
  <2>1. {"queue", "spawn", "error", "register", "stop", "health", "handle"}
          \subseteq Local!Points
    BY DEF Local!Points, Local!Finished
  <2> USE <1>1, <2>1 DEF Local!Goto, Local!processv, LocalTypes
  <2>2. ASSUME NEW b \in Builds, Local!Start(s, b) PROVE Effect
    BY <2>2 DEF Local!Start
  <2>3. ASSUME Local!StartAcquire(s) PROVE Effect
    BY <2>3 DEF Local!StartAcquire
  <2>4. ASSUME Local!Spawn(s) PROVE Effect
    BY <2>4 DEF Local!Spawn
  <2>5. ASSUME Local!SpawnFails(s) PROVE Effect
    BY <2>5 DEF Local!SpawnFails
  <2>6. ASSUME Local!HealthPasses(s) PROVE Effect
    BY <2>6 DEF Local!HealthPasses
  <2>7. ASSUME Local!HealthFails(s) PROVE Effect
    BY <2>7 DEF Local!HealthFails
  <2>8. ASSUME Local!Register(s) PROVE Effect
    BY <2>8 DEF Local!Register
  <2> HIDE DEF Effect
  <2> QED
    BY <2>2, <2>3, <2>4, <2>5, <2>6, <2>7, <2>8 DEF Local!StartStep
<1>3. s \notin sandboxes /\ \A t \in Stops : victim[t] # s
  BY <1>2 DEF LocalInv, LocalStartInv, LocalStopInv
<1>4. LocalTypes' /\ OneVictim'
  BY <1>1, <1>2 DEF LocalInv, LocalTypes, OneVictim
<1>5. ASSUME NEW q \in Starts, q # s
      PROVE  /\ pc'[q] = pc[q] /\ proc'[q] = proc[q] /\ sampler'[q] = sampler[q]
             /\ q \in sandboxes' <=> q \in sandboxes
  BY <1>1, <1>2, <1>5 DEF LocalTypes
<1>6. LocalStartInv(s)'
  BY <1>1, <1>2, <1>3 DEF LocalInv, LocalTypes, LocalStartInv
<1>7. ASSUME NEW q \in Starts PROVE LocalStartInv(q)'
  BY <1>2, <1>5, <1>6 DEF LocalInv, LocalStartInv
<1>8. ASSUME NEW t \in Stops PROVE LocalStopInv(t)'
  <2>1. pc'[t] = pc[t]
    BY <1>2
  <2>2. CASE victim[t] = "none"
    BY <1>2, <2>1, <2>2 DEF LocalInv, LocalStopInv
  <2>3. CASE victim[t] # "none"
    <3>1. victim[t] \in Starts /\ victim[t] # s
      BY <1>1, <1>3, <2>3 DEF LocalTypes
    <3> QED
      BY <1>2, <1>5, <2>1, <3>1 DEF LocalInv, LocalStopInv
  <2> QED
    BY <2>2, <2>3
<1>9. ASSUME NEW q \in Starts PROVE LocalKept(q)'
  <2>1. \A t \in Stops : Local!InFlight(t)' <=> Local!InFlight(t)
    BY <1>2 DEF Local!InFlight
  <2>2. CASE q # s
    BY <1>2, <1>5, <2>1, <2>2 DEF LocalInv, LocalKept, Keeper, Local!InFlight
  <2>3. CASE q = s
    <3>1. proc'[s] # "none" => pc'[s] \in {"register", "stop", "health", "handle"}
      BY <1>1, <1>2 DEF LocalInv, LocalTypes, LocalStartInv
    <3>2. pc'[s] = "handle" => s \in sandboxes'
      BY <1>2
    <3> QED
      BY <2>3, <3>1, <3>2 DEF LocalKept, Keeper, Local!InFlight, Local!Finished
  <2> QED
    BY <2>2, <2>3
<1> QED
  BY <1>4, <1>7, <1>8, <1>9 DEF LocalInv

\* A Stop takes the sandbox out of the map, so that it is the only one that has
\* it, and flushes the sampler that Register started.
LEMMA LocalStopKeepsInv ==
  ASSUME LocalInv, NEW t \in Stops,
         (\E s \in Starts : Local!Stop(t, s)) \/ Local!FlushSampler(t)
  PROVE  LocalInv'
<1> USE Distinct
<1>1. LocalTypes
  BY DEF LocalInv
<1>2. {"flush", "error", "stop"} \subseteq Local!Points
  BY DEF Local!Points, Local!Finished
<1>3. ASSUME NEW s \in Starts, Local!Stop(t, s) PROVE LocalInv'
  <2>1. /\ UNCHANGED <<gone, proc, signal, done, sampler, up>>
        /\ pc[t] = "idle" /\ sandboxes' = sandboxes \ {s}
        /\ pc'[t] = IF s \in sandboxes THEN "flush" ELSE "error"
        /\ victim'[t] = IF s \in sandboxes THEN s ELSE victim[t]
        /\ \A q \in Requests : q # t => pc'[q] = pc[q]
        /\ \A u \in Stops : u # t => victim'[u] = victim[u]
        /\ pc' \in [Requests -> Local!Points]
        /\ victim' \in [Stops -> Starts \cup {"none"}]
    BY <1>1, <1>2, <1>3 DEF Local!Stop, Local!Goto, Local!processv, LocalTypes
  <2>2. victim[t] = "none" /\ (s \in sandboxes => \A u \in Stops : victim[u] # s)
    BY <2>1 DEF LocalInv, LocalStopInv
  <2>3. LocalTypes'
    BY <1>1, <2>1 DEF LocalTypes
  <2>4. OneVictim'
    BY <2>1, <2>2 DEF LocalInv, OneVictim
  <2>5. ASSUME NEW q \in Starts PROVE LocalStartInv(q)'
    BY <2>1 DEF LocalInv, LocalStartInv
  <2>6. ASSUME NEW u \in Stops PROVE LocalStopInv(u)'
    <3>1. CASE u # t
      <4>1. victim'[u] # "none" => victim'[u] \in Starts /\ victim'[u] \in Requests
        BY <2>1, <3>1, <1>1 DEF LocalTypes
      <4> QED
        BY <2>1, <3>1, <4>1 DEF LocalInv, LocalStopInv
    <3>2. CASE u = t
      BY <2>1, <2>2, <3>2 DEF LocalInv, LocalStopInv, LocalStartInv
    <3> QED
      BY <3>1, <3>2
  <2>7. ASSUME NEW q \in Starts PROVE LocalKept(q)'
    <3>1. Local!InFlight(q)' <=> Local!InFlight(q)
      BY <2>1 DEF Local!InFlight
    <3>2. \A u \in Stops : victim[u] = q /\ (Local!InFlight(u) \/ u \in gone)
                             => victim'[u] = q /\ (Local!InFlight(u)' \/ u \in gone')
      BY <2>1, <2>2 DEF Local!InFlight
    <3>3. q = s /\ s \in sandboxes => victim'[t] = s /\ Local!InFlight(t)'
      BY <2>1 DEF Local!InFlight, Local!Finished
    <3> QED
      BY <2>1, <3>1, <3>2, <3>3 DEF LocalInv, LocalKept, Keeper
  <2> QED
    BY <2>3, <2>4, <2>5, <2>6, <2>7 DEF LocalInv
<1>4. ASSUME Local!FlushSampler(t) PROVE LocalInv'
  <2>1. victim[t] \in Starts /\ pc[t] = "flush" /\ victim[t] \notin sandboxes
    BY <1>1, <1>4 DEF Local!FlushSampler, LocalInv, LocalTypes, LocalStopInv
  <2>2. /\ UNCHANGED <<sandboxes, victim, gone, proc, signal, done, up>>
        /\ pc'[t] = "stop" /\ pc' \in [Requests -> Local!Points]
        /\ \A q \in Requests : q # t => pc'[q] = pc[q]
        /\ sampler' \in [Starts -> {"none", "running", "flushed"}]
        /\ \A q \in Starts : q # victim[t] => sampler'[q] = sampler[q]
    BY <1>1, <1>2, <1>4, <2>1 DEF Local!FlushSampler, Local!Goto, Local!processv, LocalTypes
  <2>3. LocalTypes' /\ OneVictim'
    BY <1>1, <2>2 DEF LocalInv, LocalTypes, OneVictim
  <2>4. ASSUME NEW q \in Starts PROVE LocalStartInv(q)'
    BY <2>1, <2>2 DEF LocalInv, LocalStartInv
  <2>5. ASSUME NEW u \in Stops PROVE LocalStopInv(u)'
    <3>1. victim[u] # "none" => victim[u] \in Starts
      BY <1>1 DEF LocalTypes
    <3>2. CASE u # t
      <4>1. victim[u] # "none" => victim[u] # victim[t]
        BY <3>2, <2>1 DEF LocalInv, OneVictim
      <4> QED
        BY <2>1, <2>2, <3>1, <3>2, <4>1 DEF LocalInv, LocalStopInv
    <3>3. CASE u = t
      BY <2>1, <2>2, <3>1, <3>3 DEF LocalInv, LocalStopInv
    <3> QED
      BY <3>2, <3>3
  <2>6. ASSUME NEW q \in Starts PROVE LocalKept(q)'
    <3>1. \A r \in Starts \cup Stops : Local!InFlight(r) => Local!InFlight(r)'
      BY <2>2 DEF Local!InFlight, Local!Finished
    <3> QED
      BY <2>2, <3>1 DEF LocalInv, LocalKept, Keeper
  <2> QED
    BY <2>3, <2>4, <2>5, <2>6 DEF LocalInv
<1> QED
  BY <1>3, <1>4

\* Whoever stops a process works on its own sandbox, which nobody else does.
LEMMA LocalStopperOwns ==
  ASSUME LocalInv, NEW p \in Starts \cup Stops,
         pc[p] \in {"stop", "interrupted", "killed"}
  PROVE  /\ Local!Subject(p) \in Starts
         /\ Local!Subject(p) \notin sandboxes
         /\ Local!Subject(p) = p \/ (p \in Stops /\ Local!Subject(p) = victim[p])
         /\ p \in Starts => Local!Subject(p) = p /\ \A t \in Stops : victim[t] # p
         /\ p \in Stops => /\ Local!Subject(p) = victim[p]
                           /\ pc[victim[p]] = "handle"
                           /\ \A t \in Stops : victim[t] = victim[p] => t = p
<1> USE Distinct
<1>1. CASE p \in Starts
  BY <1>1 DEF LocalInv, LocalStartInv, LocalStopInv, Local!Subject
<1>2. CASE p \in Stops
  BY <1>2 DEF LocalInv, LocalTypes, LocalStopInv, OneVictim, Local!Subject
<1> QED
  BY <1>1, <1>2

\* stopProcess ends with the exit received, or with the kill sent, or because the
\* client of its Stop has gone.
LEMMA LocalStopProcessKeepsInv ==
  ASSUME LocalInv, NEW p \in Starts \cup Stops, Local!StopStep(p)
  PROVE  LocalInv'
<1> USE Distinct
<1>1. LocalTypes
  BY DEF LocalInv
<1> DEFINE v == Local!Subject(p)
<1>2. pc[p] \in {"stop", "interrupted", "killed"}
  BY DEF Local!StopStep, Local!Reaped, Local!Interrupt, Local!Kill, Local!GivesUp
<1>3. /\ v \in Starts /\ v \notin sandboxes
      /\ p \in Starts => v = p /\ \A t \in Stops : victim[t] # p
      /\ p \in Stops => /\ v = victim[p] /\ pc[v] = "handle"
                        /\ \A t \in Stops : victim[t] = v => t = p
  BY <1>2, LocalStopperOwns
<1> HIDE DEF v
<1> DEFINE Effect ==
      /\ UNCHANGED <<sandboxes, victim, gone, proc, sampler, up>>
      /\ pc' \in [Requests -> Local!Points]
      /\ \A q \in Requests : q # p => pc'[q] = pc[q]
      /\ signal' \in [Starts -> {"none", "interrupt", "kill"}]
      /\ done' \in [Starts -> {"empty", "full", "taken"}]
      /\ \A q \in Starts : q # v => signal'[q] = signal[q] /\ done'[q] = done[q]
      /\ \/ /\ done[v] = "full" /\ done'[v] = "taken" /\ signal' = signal
            /\ pc'[p] = IF p \in Stops THEN "stopped" ELSE "error"
         \/ /\ UNCHANGED done /\ pc'[p] = "interrupted"
         \/ /\ UNCHANGED done /\ pc'[p] = "killed" /\ signal'[v] = "kill"
         \/ /\ UNCHANGED <<done, signal>> /\ pc'[p] = "error"
            /\ pc[p] = "killed" \/ p \in gone
<1>4. Effect
  <2>1. {"stopped", "error", "interrupted", "killed"} \subseteq Local!Points
    BY DEF Local!Points, Local!Finished
  <2> USE <1>1, <1>3, <2>1 DEF Local!Goto, Local!Returns, Local!processv, LocalTypes
  <2>2. ASSUME Local!Reaped(p) PROVE Effect
    BY <2>2 DEF Local!Reaped, v
  <2>3. ASSUME Local!Interrupt(p) PROVE Effect
    BY <2>3 DEF Local!Interrupt, v
  <2>4. ASSUME Local!Kill(p) PROVE Effect
    BY <2>4 DEF Local!Kill, v
  <2>5. ASSUME Local!GivesUp(p) PROVE Effect
    BY <2>5 DEF Local!GivesUp
  <2> HIDE DEF Effect
  <2> QED
    BY <2>2, <2>3, <2>4, <2>5 DEF Local!StopStep
<1>5. LocalTypes' /\ OneVictim'
  BY <1>1, <1>4 DEF LocalInv, LocalTypes, OneVictim
<1>6. ASSUME NEW q \in Starts PROVE LocalStartInv(q)'
  <2>1. CASE q # v
    <3>1. pc'[q] = pc[q]
      BY <1>3, <1>4, <2>1
    <3> QED
      BY <1>4, <2>1, <3>1 DEF LocalInv, LocalStartInv
  <2>2. CASE q = v /\ p \in Starts
    BY <1>1, <1>2, <1>3, <1>4, <2>2 DEF LocalInv, LocalStartInv
  <2>3. CASE q = v /\ p \in Stops
    <3>1. pc'[q] = pc[q] /\ pc[q] = "handle"
      BY <1>3, <1>4, <2>3
    <3> QED
      BY <1>3, <1>4, <2>3, <3>1 DEF LocalInv, LocalStartInv
  <2> QED
    BY <2>1, <2>2, <2>3
<1>7. ASSUME NEW t \in Stops PROVE LocalStopInv(t)'
  <2>1. victim[t] # "none" => victim[t] \in Starts /\ pc[victim[t]] = "handle"
    BY <1>1 DEF LocalInv, LocalTypes, LocalStopInv
  <2>2. victim[t] # "none" => pc'[victim[t]] = "handle"
    BY <1>2, <1>4, <2>1
  <2>3. CASE t # p
    <3>1. pc'[t] = pc[t] /\ (victim[t] # "none" => victim[t] # v)
      BY <1>3, <1>4, <2>1, <2>3
    <3> QED
      BY <1>4, <2>1, <2>2, <2>3, <3>1 DEF LocalInv, LocalStopInv
  <2>4. CASE t = p
    BY <1>2, <1>3, <1>4, <2>1, <2>2, <2>4 DEF LocalInv, LocalStopInv
  <2> QED
    BY <2>3, <2>4
<1>8. ASSUME NEW q \in Starts PROVE LocalKept(q)'
  <2>1. CASE q # v
    <3>1. Local!InFlight(q)' <=> Local!InFlight(q)
      BY <1>3, <1>4, <2>1 DEF Local!InFlight
    <3>2. \A t \in Stops : victim[t] = q => t # p /\ (Local!InFlight(t)' <=> Local!InFlight(t))
      BY <1>3, <1>4, <2>1 DEF Local!InFlight
    <3> QED
      BY <1>4, <2>1, <3>1, <3>2 DEF LocalInv, LocalKept, Keeper
  <2>2. CASE q = v
    <3>1. CASE pc'[p] \in {"interrupted", "killed"}
      <4>1. Local!InFlight(p)'
        BY <3>1 DEF Local!InFlight, Local!Finished
      <4> QED
        BY <1>3, <1>4, <2>2, <4>1 DEF LocalKept, Keeper
    <3>2. CASE done[v] = "full"
      BY <1>4, <2>2, <3>2 DEF LocalInv, LocalKept, LocalStartInv
    <3>3. CASE UNCHANGED <<done, signal>> /\ (pc[p] = "killed" \/ p \in gone)
      <4>1. pc[p] = "killed" => signal[v] = "kill"
        BY <1>3 DEF LocalInv, LocalStartInv, LocalStopInv
      <4>2. p \in gone => p \in Stops
        BY <1>1 DEF LocalTypes
      <4> QED
        BY <1>3, <1>4, <2>2, <3>3, <4>1, <4>2 DEF LocalKept, Keeper
    <3> QED
      BY <1>4, <3>1, <3>2, <3>3
  <2> QED
    BY <2>1, <2>2
<1> QED
  BY <1>5, <1>6, <1>7, <1>8 DEF LocalInv

\* An engine binds its port, or ends.
LEMMA LocalEngineKeepsInv ==
  ASSUME LocalInv, NEW s \in Starts, Local!Listen(s) \/ Local!Exit(s)
  PROVE  LocalInv'
<1> USE Distinct
<1>1. /\ UNCHANGED <<sandboxes, pc, victim, gone, signal, sampler, up>>
      /\ proc[s] \in {"booting", "listening"}
      /\ \A q \in Starts : q # s => proc'[q] = proc[q] /\ done'[q] = done[q]
      /\ proc' \in [Starts -> {"none", "booting", "listening", "exited"}]
      /\ done' \in [Starts -> {"empty", "full", "taken"}]
      /\ \/ done' = done /\ proc'[s] = "listening"
         \/ done'[s] = "full" /\ proc'[s] = "exited"
  <2>1. LocalTypes
    BY DEF LocalInv
  <2>2. CASE Local!Listen(s)
    BY <2>1, <2>2 DEF Local!Listen, Local!requestv, LocalTypes
  <2>3. CASE Local!Exit(s)
    BY <2>1, <2>3 DEF Local!Exit, Local!requestv, LocalTypes
  <2> QED
    BY <2>2, <2>3
<1>2. LocalTypes' /\ OneVictim'
  BY <1>1 DEF LocalInv, LocalTypes, OneVictim
<1>3. done[s] = "empty"
  BY <1>1 DEF LocalInv, LocalStartInv
<1>4. ASSUME NEW q \in Starts PROVE LocalStartInv(q)' /\ LocalKept(q)'
  <2>1. CASE q # s
    BY <1>1, <2>1 DEF LocalInv, LocalStartInv, LocalKept, Keeper, Local!InFlight
  <2>2. CASE q = s
    BY <1>1, <1>3, <2>2 DEF LocalInv, LocalStartInv, LocalKept, Keeper, Local!InFlight
  <2> QED
    BY <2>1, <2>2
<1>5. ASSUME NEW t \in Stops PROVE LocalStopInv(t)'
  <2>1. pc[t] = "stopped" => victim[t] \in Starts /\ done[victim[t]] = "taken"
    BY DEF LocalInv, LocalTypes, LocalStopInv
  <2> QED
    BY <1>1, <1>3, <2>1 DEF LocalInv, LocalStopInv
<1> QED
  BY <1>2, <1>4, <1>5 DEF LocalInv

\* The runner's exit ends its requests; handles and confirmed stops stay given.
LEMMA LocalExitKeepsInv ==
  ASSUME LocalInv, Local!RunnerExits
  PROVE  LocalInv'
<1> USE Distinct
<1>1. LocalTypes
  BY DEF LocalInv
<1>2. /\ UNCHANGED <<victim, proc, signal, done>>
      /\ up' = "exited" /\ sandboxes' = {} /\ gone' = {}
      /\ \A r \in Requests : pc'[r] = IF pc[r] \in Local!Finished THEN pc[r] ELSE "error"
      /\ pc' \in [Requests -> Local!Points]
      /\ sampler' \in [Starts -> {"none", "running", "flushed"}]
  BY <1>1 DEF Local!RunnerExits, Local!processv, LocalTypes, Local!Points, Local!Finished,
              Local!Requests, Requests
<1>3. LocalTypes' /\ OneVictim'
  BY <1>1, <1>2 DEF LocalInv, LocalTypes, OneVictim
<1>4. ASSUME NEW q \in Starts PROVE LocalStartInv(q)' /\ LocalKept(q)'
  BY <1>2 DEF LocalInv, LocalStartInv, LocalKept, Local!Finished
<1>5. ASSUME NEW t \in Stops PROVE LocalStopInv(t)'
  <2>1. victim[t] # "none" => victim[t] \in Requests /\ pc[victim[t]] = "handle"
    BY <1>1 DEF LocalInv, LocalTypes, LocalStopInv
  <2> QED
    BY <1>2, <2>1 DEF LocalInv, LocalStopInv, Local!Finished
<1> QED
  BY <1>3, <1>4, <1>5 DEF LocalInv

\* Every step of the local runner keeps its invariant.
LEMMA LocalStepKeepsInv ==
  ASSUME LocalInv, Local!Next
  PROVE  LocalInv'
<1>1. ASSUME NEW r \in Requests, Local!RequestStep(r) PROVE LocalInv'
  BY <1>1, LocalBuildKeepsInv, LocalStartKeepsInv, LocalStopKeepsInv,
     LocalStopProcessKeepsInv DEF Local!RequestStep
<1> QED
  BY <1>1, LocalBuildKeepsInv, LocalStartKeepsInv, LocalStopKeepsInv,
     LocalEngineKeepsInv, LocalExitKeepsInv DEF Local!Next, Local!Requests, Requests

-----------------------------------------------------------------------------
(* The docker runner keeps its invariant *)

\* Builds touch no sandbox.
LEMMA DockerBuildKeepsInv ==
  ASSUME DockerInv, NEW b \in Builds,
         Docker!Queue(b) \/ Docker!BuildAcquire(b) \/ Docker!BuildEnds(b)
  PROVE  DockerInv'
<1> USE Distinct
<1> DEFINE Effect ==
      /\ UNCHANGED <<containers, victim, failed, networkID, network, container, hit>>
      /\ pc' \in [Requests -> Docker!Points]
      /\ \A q \in Starts \cup Stops : pc'[q] = pc[q]
<1>1. Effect
  <2>1. DockerTypes
    BY DEF DockerInv
  <2>2. {"queue", "build", "built", "error"} \subseteq Docker!Points
    BY DEF Docker!Points, Docker!Finished
  <2> USE <2>1, <2>2 DEF Docker!Goto, Docker!daemonv, DockerTypes
  <2>3. ASSUME Docker!Queue(b) PROVE Effect
    BY <2>3 DEF Docker!Queue
  <2>4. ASSUME Docker!BuildAcquire(b) PROVE Effect
    BY <2>4 DEF Docker!BuildAcquire
  <2>5. ASSUME Docker!BuildEnds(b) PROVE Effect
    BY <2>5 DEF Docker!BuildEnds
  <2> HIDE DEF Effect
  <2> QED
    BY <2>3, <2>4, <2>5
<1>2. DockerTypes' /\ OneVictim'
  BY <1>1 DEF DockerInv, DockerTypes, OneVictim
<1>3. ASSUME NEW s \in Starts PROVE DockerStartInv(s)' /\ DockerKept(s)'
  BY <1>1 DEF DockerInv, DockerStartInv, DockerKept, NoContainer, NoNetwork
<1>4. ASSUME NEW t \in Stops PROVE DockerStopInv(t)'
  <2>1. victim[t] # "none" => victim[t] \in Starts
    BY DEF DockerInv, DockerTypes
  <2> QED
    BY <1>1, <2>1 DEF DockerInv, DockerStopInv, NoContainer, NoNetwork
<1> QED
  BY <1>2, <1>3, <1>4 DEF DockerInv

\* Start goes on: no Stop works for its sandbox, and what it has made before is
\* known to it, or the sandbox was struck.
LEMMA DockerStartKeepsInv ==
  ASSUME DockerInv, NEW s \in Starts, Docker!Queue(s) \/ Docker!StartStep(s)
  PROVE  DockerInv'
<1> USE Distinct
<1>1. DockerTypes
  BY DEF DockerInv
<1> DEFINE Others ==
      /\ UNCHANGED <<victim, failed>>
      /\ pc' \in [Requests -> Docker!Points]
      /\ \A q \in Requests : q # s => pc'[q] = pc[q]
      /\ containers \subseteq containers' /\ containers' \subseteq containers \cup {s}
      /\ networkID \subseteq networkID' /\ networkID' \subseteq networkID \cup {s}
      /\ hit \subseteq hit' /\ hit' \subseteq hit \cup {s}
      /\ network' \in [Starts -> {"none", "exists", "removed"}]
      /\ container' \in [Starts -> {"none", "created", "running", "removed"}]
      /\ \A q \in Starts : q # s => network'[q] = network[q] /\ container'[q] = container[q]
      Before == pc[s] \in StartPoints
                  \ {"handle", "container", "unlink", "error"}
      Own ==
      \/ /\ UNCHANGED <<network, container>> /\ containers' = containers
         /\ \/ pc[s] = "idle" /\ pc'[s] = "queue"
            \/ pc[s] = "queue" /\ pc'[s] \in {"network", "create"}
            \/ pc[s] = "network" /\ pc'[s] = "error"
            \/ pc[s] = "create" /\ pc'[s] = "unlink"
            \/ pc[s] \in {"start", "port", "health"} /\ pc'[s] = "container"
            \/ pc[s] = "port" /\ pc'[s] = "health"
            \/ pc[s] = "health" /\ pc'[s] = "register"
      \/ /\ pc[s] = "network" /\ network'[s] = "exists" /\ containers' = containers
         /\ UNCHANGED container
         /\ \/ pc'[s] = "create" /\ s \in networkID'
            \/ pc'[s] = "error" /\ s \in hit'
      \/ /\ pc[s] = "create" /\ container'[s] = "created" /\ containers' = containers
         /\ UNCHANGED network
         /\ pc'[s] = "start" \/ (pc'[s] = "unlink" /\ s \in hit')
      \/ /\ pc[s] = "start" /\ container'[s] = "running" /\ containers' = containers
         /\ UNCHANGED network
         /\ pc'[s] \in {"port", "container"}
      \/ /\ pc[s] = "register" /\ pc'[s] = "handle" /\ s \in containers'
         /\ UNCHANGED <<network, container>>
<1>2. Others /\ Before /\ Own
  <2>2. {"queue", "network", "create", "start", "port", "health", "register",
         "handle", "container", "unlink", "error"} \subseteq Docker!Points
    BY DEF Docker!Points, Docker!Finished
  <2> USE <1>1, <2>2 DEF Docker!Goto, Docker!daemonv, DockerTypes, StartPoints
  <2>3. ASSUME Docker!Queue(s) PROVE Others /\ Before /\ Own
    BY <2>3 DEF Docker!Queue
  <2>4. ASSUME Docker!StartAcquire(s) PROVE Others /\ Before /\ Own
    BY <2>4 DEF Docker!StartAcquire
  <2>5. ASSUME Docker!NetworkCreate(s) PROVE Others /\ Before /\ Own
    BY <2>5 DEF Docker!NetworkCreate, Docker!Lost, Docker!Struck
  <2>6. ASSUME Docker!ContainerCreate(s) PROVE Others /\ Before /\ Own
    BY <2>6 DEF Docker!ContainerCreate, Docker!Lost, Docker!Struck
  <2>7. ASSUME Docker!ContainerStart(s) PROVE Others /\ Before /\ Own
    BY <2>7 DEF Docker!ContainerStart, Docker!Lost, Docker!Struck
  <2>8. ASSUME Docker!Await(s) PROVE Others /\ Before /\ Own
    BY <2>8 DEF Docker!Await
  <2>9. ASSUME Docker!Register(s) PROVE Others /\ Before /\ Own
    BY <2>9 DEF Docker!Register
  <2> HIDE DEF Others, Before, Own
  <2> QED
    BY <2>3, <2>4, <2>5, <2>6, <2>7, <2>8, <2>9 DEF Docker!StartStep
<1>3. \A t \in Stops : victim[t] # s
  <2>1. pc[s] # "handle"
    BY <1>2
  <2> QED
    BY <2>1 DEF DockerInv, DockerStopInv
<1>4. DockerTypes' /\ OneVictim'
  <2>1. pc'[s] \in StartPoints
    BY <1>2 DEF StartPoints
  <2> HIDE DEF Own, Before
  <2> QED
    BY <1>1, <1>2, <2>1 DEF DockerInv, DockerTypes, OneVictim
<1>5. DockerStartInv(s)'
  <2>1. Own
    BY <1>2
  <2>2. DockerStartInv(s) /\ s \notin containers /\ (s \in hit => s \in hit')
    BY <1>2 DEF DockerInv, DockerStartInv
  <2>3. s \in networkID => s \in networkID'
    BY <1>2
  <2> HIDE DEF Others, Before
  <2> QED
    BY <2>1, <2>2, <2>3 DEF DockerStartInv, NoContainer, NoNetwork
<1>6. DockerKept(s)'
  BY <1>2 DEF DockerKept
<1> HIDE DEF Own, Before
<1>7. ASSUME NEW q \in Starts, q # s PROVE DockerStartInv(q)' /\ DockerKept(q)'
  <2>1. /\ pc'[q] = pc[q] /\ network'[q] = network[q] /\ container'[q] = container[q]
        /\ q \in containers' <=> q \in containers
        /\ q \in networkID' <=> q \in networkID
        /\ q \in hit' <=> q \in hit
        /\ victim' = victim
    BY <1>2, <1>7
  <2> HIDE DEF Others
  <2> QED
    BY <2>1 DEF DockerInv, DockerStartInv, DockerKept, NoContainer, NoNetwork
<1>8. ASSUME NEW t \in Stops PROVE DockerStopInv(t)'
  <2>1. pc'[t] = pc[t] /\ victim' = victim /\ failed' = failed
    BY <1>2
  <2>2. victim[t] # "none" =>
          /\ victim[t] \in Starts
          /\ pc'[victim[t]] = pc[victim[t]]
          /\ network'[victim[t]] = network[victim[t]]
          /\ container'[victim[t]] = container[victim[t]]
          /\ victim[t] \in containers' <=> victim[t] \in containers
          /\ victim[t] \in hit' <=> victim[t] \in hit
    BY <1>1, <1>2, <1>3 DEF DockerTypes
  <2> HIDE DEF Others
  <2> QED
    BY <2>1, <2>2 DEF DockerInv, DockerStopInv, NoContainer, NoNetwork
<1> QED
  BY <1>4, <1>5, <1>6, <1>7, <1>8 DEF DockerInv

\* A Stop takes the sandbox out of the map.
LEMMA DockerStopKeepsInv ==
  ASSUME DockerInv, NEW t \in Stops,
         (\E s \in Starts : Docker!Stop(t, s)) \/ Docker!FlushSampler(t)
  PROVE  DockerInv'
<1> USE Distinct
<1>1. DockerTypes
  BY DEF DockerInv
<1>2. {"flush", "error", "container"} \subseteq Docker!Points
  BY DEF Docker!Points, Docker!Finished
<1>3. ASSUME NEW s \in Starts, Docker!Stop(t, s) PROVE DockerInv'
  <2>1. /\ UNCHANGED <<failed, networkID, network, container, hit>>
        /\ pc[t] = "idle" /\ containers' = containers \ {s}
        /\ pc'[t] = IF s \in containers THEN "flush" ELSE "error"
        /\ victim'[t] = IF s \in containers THEN s ELSE victim[t]
        /\ \A q \in Requests : q # t => pc'[q] = pc[q]
        /\ \A u \in Stops : u # t => victim'[u] = victim[u]
        /\ pc' \in [Requests -> Docker!Points]
        /\ victim' \in [Stops -> Starts \cup {"none"}]
    BY <1>1, <1>2, <1>3 DEF Docker!Stop, Docker!Goto, Docker!daemonv, DockerTypes
  <2>2. victim[t] = "none" /\ (s \in containers => \A u \in Stops : victim[u] # s)
    BY <2>1 DEF DockerInv, DockerStopInv
  <2>3. DockerTypes'
    BY <1>1, <2>1 DEF DockerTypes, StopPoints
  <2>4. OneVictim'
    BY <2>1, <2>2 DEF DockerInv, OneVictim
  <2>5. ASSUME NEW q \in Starts PROVE DockerStartInv(q)'
    BY <2>1 DEF DockerInv, DockerStartInv, NoContainer, NoNetwork
  <2>6. ASSUME NEW u \in Stops PROVE DockerStopInv(u)'
    <3>1. CASE u # t
      <4>1. victim'[u] # "none" => victim'[u] \in Starts /\ pc'[victim[u]] = pc[victim[u]]
        BY <2>1, <3>1, <1>1 DEF DockerTypes
      <4> QED
        BY <2>1, <3>1, <4>1 DEF DockerInv, DockerStopInv, NoContainer, NoNetwork
    <3>2. CASE u = t
      BY <2>1, <2>2, <3>2 DEF DockerInv, DockerStopInv, DockerStartInv
    <3> QED
      BY <3>1, <3>2
  <2>7. ASSUME NEW q \in Starts PROVE DockerKept(q)'
    <3>1. \A u \in Stops : victim[u] = q => victim'[u] = q
      BY <2>1, <2>2
    <3> QED
      BY <2>1, <3>1 DEF DockerInv, DockerKept
  <2> QED
    BY <2>3, <2>4, <2>5, <2>6, <2>7 DEF DockerInv
<1>4. ASSUME Docker!FlushSampler(t) PROVE DockerInv'
  <2>1. /\ UNCHANGED <<containers, victim, failed, networkID, network, container, hit>>
        /\ pc[t] = "flush" /\ pc'[t] = "container"
        /\ \A q \in Requests : q # t => pc'[q] = pc[q]
        /\ pc' \in [Requests -> Docker!Points]
    BY <1>1, <1>2, <1>4 DEF Docker!FlushSampler, Docker!Goto, Docker!daemonv, DockerTypes
  <2>2. DockerTypes' /\ OneVictim'
    BY <1>1, <2>1 DEF DockerInv, DockerTypes, StopPoints, OneVictim
  <2>3. ASSUME NEW q \in Starts PROVE DockerStartInv(q)' /\ DockerKept(q)'
    BY <2>1 DEF DockerInv, DockerStartInv, DockerKept, NoContainer, NoNetwork
  <2>4. ASSUME NEW u \in Stops PROVE DockerStopInv(u)'
    <3>1. victim[u] # "none" => victim[u] \in Starts /\ pc'[victim[u]] = pc[victim[u]]
      BY <1>1, <2>1 DEF DockerTypes
    <3> QED
      BY <2>1, <3>1 DEF DockerInv, DockerStopInv, NoContainer, NoNetwork
  <2> QED
    BY <2>2, <2>3, <2>4 DEF DockerInv
<1> QED
  BY <1>3, <1>4

\* Removing container and network, in a Stop or in a Start that cleans up: each
\* call succeeds or strikes the sandbox, and a Stop remembers a container it could
\* not remove.
LEMMA DockerRemoveKeepsInv ==
  ASSUME DockerInv, NEW p \in Starts \cup Stops, Docker!RemoveStep(p)
  PROVE  DockerInv'
<1> USE Distinct
<1>1. DockerTypes
  BY DEF DockerInv
<1> DEFINE v == Docker!Subject(p)
<1>2. pc[p] \in {"container", "unlink"}
  BY DEF Docker!RemoveStep, Docker!DockerStop, Docker!DockerRemoveNetwork
<1>3. /\ v \in Starts
      /\ p \in Starts => v = p /\ \A t \in Stops : victim[t] # p
      /\ p \in Stops => /\ v = victim[p] /\ pc[v] = "handle"
                        /\ \A t \in Stops : victim[t] = v => t = p
  <2>1. CASE p \in Starts
    BY <1>2, <2>1 DEF DockerInv, DockerStopInv, Docker!Subject
  <2>2. CASE p \in Stops
    BY <1>2, <2>2 DEF DockerInv, DockerTypes, DockerStopInv, OneVictim, Docker!Subject
  <2> QED
    BY <2>1, <2>2
<1> HIDE DEF v
<1> DEFINE Others ==
      /\ UNCHANGED <<containers, victim, networkID>>
      /\ pc' \in [Requests -> Docker!Points]
      /\ \A q \in Requests : q # p => pc'[q] = pc[q]
      /\ network' \in [Starts -> {"none", "exists", "removed"}]
      /\ container' \in [Starts -> {"none", "created", "running", "removed"}]
      /\ failed' \in SUBSET Stops
      /\ \A t \in Stops : t # p => (t \in failed' <=> t \in failed)
      /\ hit \subseteq hit' /\ hit' \subseteq hit \cup {v}
      /\ \A q \in Starts : q # v => network'[q] = network[q] /\ container'[q] = container[q]
      Own ==
      \/ /\ pc[p] = "container" /\ pc'[p] = "unlink" /\ UNCHANGED network
         /\ \/ /\ container'[v] \in {"none", "removed"}
               /\ container[v] \in {"running", "removed"} => container'[v] = "removed"
            \/ UNCHANGED container /\ v \in hit' /\ (p \in Stops => p \in failed')
      \/ /\ pc[p] = "unlink" /\ UNCHANGED <<container, failed>>
         /\ \/ pc'[p] = "error"
            \/ pc'[p] = "stopped" /\ p \in Stops /\ p \notin failed
         /\ \/ network' = network /\ v \notin networkID
            \/ network'[v] = "removed"
            \/ network' = network /\ v \in hit'
<1>4. Others /\ Own
  <2>1. {"stopped", "error", "unlink"} \subseteq Docker!Points
    BY DEF Docker!Points, Docker!Finished
  <2> USE <1>1, <1>3, <2>1 DEF Docker!Goto, Docker!Struck, DockerTypes
  <2>2. ASSUME Docker!DockerStop(p) PROVE Others /\ Own
    BY <2>2 DEF Docker!DockerStop, Docker!Unstarted, v
  <2>3. ASSUME Docker!DockerRemoveNetwork(p) PROVE Others /\ Own
    <3>1. (\E ok \in BOOLEAN : Docker!Returns(p, ok)) => pc' \in [Requests -> Docker!Points]
      BY DEF Docker!Returns
    <3> QED
      BY <2>3, <3>1 DEF Docker!DockerRemoveNetwork, Docker!Returns, v
  <2> HIDE DEF Others, Own
  <2> QED
    BY <2>2, <2>3 DEF Docker!RemoveStep
<1>5. DockerTypes' /\ OneVictim'
  <2>1. p \in Starts => pc'[p] \in StartPoints
    BY <1>4 DEF StartPoints
  <2>2. p \in Stops => pc'[p] \in StopPoints
    BY <1>4 DEF StopPoints
  <2> HIDE DEF Own
  <2> QED
    BY <1>1, <1>3, <1>4, <2>1, <2>2 DEF DockerInv, DockerTypes, OneVictim
<1>6. ASSUME NEW q \in Starts PROVE DockerStartInv(q)' /\ DockerKept(q)'
  <2>1. DockerKept(q)'
    <3>1. pc'[q] = "handle" => pc[q] = "handle"
      BY <1>4
    <3> QED
      BY <1>4, <3>1 DEF DockerInv, DockerKept
  <2>2. CASE q # v
    <3>1. /\ pc'[q] = pc[q] /\ network'[q] = network[q] /\ container'[q] = container[q]
          /\ containers' = containers /\ networkID' = networkID
          /\ q \in hit' <=> q \in hit
      BY <1>3, <1>4, <2>2
    <3> HIDE DEF Others, Own
    <3> QED
      BY <2>1, <3>1 DEF DockerInv, DockerStartInv, NoContainer, NoNetwork
  <2>3. CASE q = v /\ p \in Starts
    <3>1. p = v /\ q = p /\ DockerStartInv(p)
      BY <1>3, <2>3 DEF DockerInv
    <3>2. containers' = containers /\ networkID' = networkID /\ (p \in hit => p \in hit')
      BY <1>4
    <3>3. Own /\ p \notin Stops
      BY <1>4, <2>3
    <3> HIDE DEF Others
    <3> QED
      BY <2>1, <3>1, <3>2, <3>3 DEF DockerStartInv, NoContainer, NoNetwork
  <2>4. CASE q = v /\ p \in Stops
    <3>1. pc'[q] = "handle" /\ pc[q] = "handle" /\ DockerStartInv(q)
      BY <1>3, <1>4, <2>4 DEF DockerInv
    <3>2. containers' = containers /\ networkID' = networkID /\ (q \in hit => q \in hit')
      BY <1>4
    <3>3. container'[q] \in {"running", "removed"}
      BY <1>3, <1>4, <2>4, <3>1 DEF DockerStartInv
    <3>4. network'[q] = "exists" => network[q] = "exists"
      BY <1>4, <2>4
    <3> HIDE DEF Others, Own
    <3> QED
      BY <2>1, <3>1, <3>2, <3>3, <3>4 DEF DockerStartInv, NoContainer, NoNetwork
  <2> QED
    BY <2>2, <2>3, <2>4
<1>7. ASSUME NEW t \in Stops PROVE DockerStopInv(t)'
  <2>1. victim[t] # "none" => /\ victim[t] \in Starts /\ pc[victim[t]] = "handle"
                              /\ pc'[victim[t]] = "handle"
    BY <1>1, <1>2, <1>4 DEF DockerInv, DockerTypes, DockerStopInv
  <2>2. containers' = containers /\ victim' = victim
    BY <1>4
  <2>3. CASE t # p
    <3>1. pc'[t] = pc[t] /\ (t \in failed' <=> t \in failed)
      BY <1>4, <2>3
    <3>2. victim[t] # "none" =>
            /\ network'[victim[t]] = network[victim[t]]
            /\ container'[victim[t]] = container[victim[t]]
            /\ victim[t] \in hit' <=> victim[t] \in hit
      BY <1>3, <1>4, <2>1, <2>3
    <3> HIDE DEF Others, Own
    <3> QED
      BY <2>1, <2>2, <3>1, <3>2 DEF DockerInv, DockerStopInv, NoContainer, NoNetwork
  <2>4. CASE t = p
    <3>1. v = victim[t] /\ v # "none" /\ DockerStopInv(t) /\ DockerStartInv(v)
      BY <1>3, <2>4 DEF DockerInv
    <3>2. container[v] \in {"running", "removed"} /\ (v \in hit => v \in hit')
      BY <1>3, <1>4, <2>4, <3>1 DEF DockerStartInv
    <3>3. v \notin hit /\ network[v] = "exists" => v \in networkID
      BY <3>1 DEF DockerStartInv
    <3>4. Own
      BY <1>4
    <3> HIDE DEF Others
    <3>5. CASE pc[t] = "container"
      BY <2>1, <2>2, <2>4, <3>1, <3>2, <3>4, <3>5 DEF DockerStopInv, NoContainer, NoNetwork
    <3>6. CASE pc[t] = "unlink"
      <4>1. /\ pc'[t] = "error" \/ (pc'[t] = "stopped" /\ t \notin failed)
            /\ container' = container
        BY <2>4, <3>4, <3>6
      <4>2. v \notin hit' => network'[v] # "exists"
        BY <2>4, <3>2, <3>3, <3>4, <3>6
      <4> HIDE DEF Own
      <4> QED
        BY <2>1, <2>2, <3>1, <3>2, <3>6, <4>1, <4>2 DEF DockerStopInv, NoContainer, NoNetwork
    <3> QED
      BY <1>2, <2>4, <3>5, <3>6
  <2> QED
    BY <2>3, <2>4
<1> QED
  BY <1>5, <1>6, <1>7 DEF DockerInv

\* An engine that ends takes its container with it.
LEMMA DockerEngineKeepsInv ==
  ASSUME DockerInv, NEW s \in Starts, Docker!EngineExits(s)
  PROVE  DockerInv'
<1> USE Distinct
<1>1. /\ UNCHANGED <<containers, pc, victim, failed, networkID, network, hit>>
      /\ container[s] = "running" /\ container'[s] = "removed"
      /\ \A q \in Starts : q # s => container'[q] = container[q]
      /\ container' \in [Starts -> {"none", "created", "running", "removed"}]
  BY DEF Docker!EngineExits, Docker!requestv, DockerInv, DockerTypes
<1>2. DockerTypes' /\ OneVictim'
  BY <1>1 DEF DockerInv, DockerTypes, OneVictim
<1>3. ASSUME NEW q \in Starts PROVE DockerStartInv(q)' /\ DockerKept(q)'
  <2>1. CASE q = s
    BY <1>1, <2>1 DEF DockerInv, DockerStartInv, DockerKept, NoContainer, NoNetwork
  <2>2. CASE q # s
    BY <1>1, <2>2 DEF DockerInv, DockerStartInv, DockerKept, NoContainer, NoNetwork
  <2> QED
    BY <2>1, <2>2
<1>4. ASSUME NEW t \in Stops PROVE DockerStopInv(t)'
  <2>1. victim[t] # "none" => victim[t] \in Starts
    BY DEF DockerInv, DockerTypes
  <2>2. victim[t] # "none" => \/ container'[victim[t]] = container[victim[t]]
                              \/ container'[victim[t]] = "removed"
    BY <1>1, <2>1
  <2> QED
    BY <1>1, <2>1, <2>2 DEF DockerInv, DockerStopInv, NoContainer, NoNetwork
<1> QED
  BY <1>2, <1>3, <1>4 DEF DockerInv

\* The exit ends every request and strikes every sandbox, so nothing is promised
\* of what it leaves at the daemon.
LEMMA DockerExitKeepsInv ==
  ASSUME DockerInv, Docker!RunnerExits
  PROVE  DockerInv'
<1> USE Distinct
<1>1. DockerTypes
  BY DEF DockerInv
<1>2. /\ UNCHANGED <<victim, failed, networkID, network, container>>
      /\ containers' = {} /\ hit' = Starts
      /\ pc' = [r \in Requests |-> IF pc[r] \in Docker!Finished THEN pc[r] ELSE "error"]
  BY DEF Docker!RunnerExits, Docker!daemonv, Docker!Requests, Requests
<1>3. \A r \in Requests : \/ pc'[r] = pc[r] /\ pc[r] # "idle" /\ pc[r] # "flush"
                         \/ pc'[r] = "error"
  BY <1>2 DEF Docker!Finished
<1>4. \A r \in Requests : pc[r] \in {"handle", "stopped"} <=> pc'[r] \in {"handle", "stopped"}
  BY <1>2 DEF Docker!Finished
<1>5. DockerTypes' /\ OneVictim'
  <2>1. "error" \in Docker!Points /\ "error" \in StartPoints /\ "error" \in StopPoints
    BY DEF Docker!Points, Docker!Finished, StartPoints, StopPoints
  <2>2. pc' \in [Requests -> Docker!Points]
    BY <1>1, <1>2, <2>1 DEF DockerTypes
  <2> QED
    BY <1>1, <1>2, <1>3, <2>1, <2>2 DEF DockerInv, DockerTypes, OneVictim
<1>6. ASSUME NEW s \in Starts PROVE DockerStartInv(s)' /\ DockerKept(s)'
  <2>1. DockerStartInv(s) /\ (pc'[s] = "error" \/ (pc'[s] = pc[s] /\ pc[s] # "idle"))
    BY <1>3 DEF DockerInv
  <2> QED
    BY <1>2, <2>1 DEF DockerStartInv, DockerKept
<1>7. ASSUME NEW t \in Stops PROVE DockerStopInv(t)'
  <2>1. /\ DockerStopInv(t) /\ (victim[t] # "none" => victim[t] \in Starts)
        /\ pc'[t] = "error" \/ (pc'[t] = pc[t] /\ pc[t] # "idle")
    BY <1>1, <1>3 DEF DockerInv, DockerTypes
  <2>2. victim[t] # "none" => pc'[victim[t]] = "handle"
    BY <1>2, <2>1 DEF DockerStopInv, Docker!Finished
  <2> QED
    BY <1>2, <2>1, <2>2 DEF DockerStopInv
<1> QED
  BY <1>5, <1>6, <1>7 DEF DockerInv

\* Every step of the docker runner keeps its invariant.
LEMMA DockerStepKeepsInv ==
  ASSUME DockerInv, Docker!Next
  PROVE  DockerInv'
<1>1. ASSUME NEW r \in Requests, Docker!RequestStep(r) \/ Docker!Queue(r)
      PROVE  DockerInv'
  <2>1. r \in Builds \/ r \in Starts \/ (r \in Stops /\ ~Docker!Queue(r))
    BY Distinct DEF Requests, Docker!Queue
  <2> QED
    BY <1>1, <2>1, DockerBuildKeepsInv, DockerStartKeepsInv, DockerStopKeepsInv,
       DockerRemoveKeepsInv DEF Docker!RequestStep
<1>2. ASSUME Docker!Signal PROVE DockerInv'
  <2>1. UNCHANGED <<containers, pc, victim, failed, networkID, network, container, hit>>
    BY <1>2 DEF Docker!Signal, Docker!requestv, Docker!daemonv
  <2> QED
    BY <2>1 DEF DockerInv, DockerTypes, OneVictim, DockerStartInv, DockerStopInv,
                DockerKept, NoContainer, NoNetwork
<1> QED
  BY <1>1, <1>2, DockerStopKeepsInv, DockerEngineKeepsInv, DockerExitKeepsInv
     DEF Docker!Next, Docker!Requests, Requests

-----------------------------------------------------------------------------
(* The invariant holds, and what follows from it *)

\* Both runners begin with no request under way and nothing made.
LEMMA InitInv == Init => Inv
<1> SUFFICES ASSUME Init PROVE Inv
  OBVIOUS
<1> USE Distinct
<1>1. /\ pc = [r \in Requests |-> "idle"] /\ victim = [t \in Stops |-> "none"]
      /\ Requests = Local!Requests /\ Requests = Docker!Requests
  BY DEF Init, Local!Init, Local!NoSandbox, Local!Requests, Docker!Requests, Requests
<1>2. OneVictim
  BY <1>1 DEF OneVictim
<1>3. LocalInv
  <2>1. "idle" \in Local!Points
    BY DEF Local!Points
  <2>2. LocalTypes
    BY <1>1, <2>1 DEF Init, Local!Init, LocalTypes
  <2>3. ASSUME NEW s \in Starts PROVE LocalStartInv(s) /\ LocalKept(s)
    BY <1>1 DEF Init, Local!Init, LocalStartInv, LocalKept
  <2>4. ASSUME NEW t \in Stops PROVE LocalStopInv(t)
    BY <1>1 DEF LocalStopInv
  <2> QED
    BY <1>2, <2>2, <2>3, <2>4 DEF LocalInv
<1>4. DockerInv
  <2>1. "idle" \in Docker!Points /\ "idle" \in StartPoints /\ "idle" \in StopPoints
    BY DEF Docker!Points, StartPoints, StopPoints
  <2>2. DockerTypes
    BY <1>1, <2>1 DEF Init, Docker!Init, DockerTypes
  <2>3. ASSUME NEW s \in Starts PROVE DockerStartInv(s) /\ DockerKept(s)
    BY <1>1 DEF Init, Docker!Init, DockerStartInv, DockerKept
  <2>4. ASSUME NEW t \in Stops PROVE DockerStopInv(t)
    BY <1>1 DEF DockerStopInv
  <2> QED
    BY <1>2, <2>2, <2>3, <2>4 DEF DockerInv
<1> QED
  BY <1>3, <1>4 DEF Init, Inv

\* A step of the one runner leaves the mode alone, and a step that changes
\* nothing keeps every fact.
LEMMA StepKeepsInv == Inv /\ [Next]_vars => Inv'
<1> SUFFICES ASSUME Inv, [Next]_vars PROVE Inv'
  OBVIOUS
<1>1. CASE LocalNext
  BY <1>1, LocalStepKeepsInv DEF LocalNext, Inv
<1>2. CASE DockerNext
  BY <1>2, DockerStepKeepsInv DEF DockerNext, Inv
<1>3. CASE UNCHANGED vars
  <2>1. UNCHANGED <<mode, pc, victim, sampler, sandboxes, gone, proc, signal, done, up,
                    containers, failed, networkID, network, container, hit>>
    BY <1>3 DEF vars, localv, dockerv
  <2>2. LocalInv => LocalInv'
    BY <2>1 DEF LocalInv, LocalTypes, OneVictim, LocalStartInv, LocalStopInv, LocalKept,
                Keeper, Local!InFlight
  <2>3. DockerInv => DockerInv'
    BY <2>1 DEF DockerInv, DockerTypes, OneVictim, DockerStartInv, DockerStopInv,
                DockerKept, NoContainer, NoNetwork
  <2> QED
    BY <2>1, <2>2, <2>3 DEF Inv
<1> QED
  BY <1>1, <1>2, <1>3 DEF Next

\* The invariant holds in every state of either runner.
THEOREM InvHolds == Spec => []Inv
<1>1. Init => Inv
  BY InitInv
<1>2. Inv /\ [Next]_vars => Inv'
  BY StepKeepsInv
<1> QED
  BY <1>1, <1>2, PTL DEF Spec

\* local_runner.go: a sandbox has one owner at a time, its Start, then the map,
\* then the one Stop that deleted its entry, and that Stop finds the sampler
\* running: however many requests race, two of them never wait for the single
\* delivery of an exit, and no sampler is stopped twice.
THEOREM SandboxHasOneOwner == Spec => []OneOwner
<1>1. Inv => OneOwner
  <2> SUFFICES ASSUME Inv, mode = "local" PROVE Local!OneOwner
    BY DEF OneOwner
  <2>1. LocalInv
    BY DEF Inv
  <2>2. ASSUME NEW s \in Starts, NEW p \in Local!Owners(s), NEW q \in Local!Owners(s)
        PROVE  p = q
    <3> DEFINE Holds(x) ==
          \/ x \in Starts /\ x = s /\ Local!InFlight(s)
          \/ x \in Stops /\ victim[x] = s
          \/ x = "map" /\ s \in sandboxes
    <3>1. ASSUME NEW x \in Local!Owners(s) PROVE Holds(x)
      BY <3>1, Distinct DEF Local!Owners, Local!Stoppers, Local!Subject
    <3>2. Holds(p) /\ Holds(q)
      BY <3>1
    <3>3. /\ \A t \in Stops : victim[t] = s => pc[s] = "handle" /\ s \notin sandboxes
          /\ \A t, u \in Stops : victim[t] = s /\ victim[u] = s => t = u
          /\ s \in sandboxes => pc[s] = "handle"
          /\ pc[s] = "handle" => ~Local!InFlight(s)
      BY <2>1, Distinct DEF LocalInv, LocalStartInv, LocalStopInv, OneVictim,
                            Local!InFlight, Local!Finished
    <3> QED
      BY <3>2, <3>3
  <2>3. \A t \in Stops : pc[t] = "flush" => sampler[victim[t]] = "running"
    BY <2>1 DEF LocalInv, LocalStopInv
  <2> QED
    BY <2>2, <2>3 DEF Local!OneOwner
<1> QED
  BY <1>1, InvHolds, PTL

\* local_runner.go: while the runner is up, a process that was not killed can
\* still be reached through a request or the map, except by a Stop whose client
\* left before the kill.
THEOREM ProcessIsReachable == Spec => []NoStrayProcess
<1>1. Inv => NoStrayProcess
  <2> SUFFICES ASSUME Inv, mode = "local", up # "exited", NEW s \in Starts,
                      proc[s] \in {"booting", "listening"}, signal[s] # "kill"
               PROVE  Local!Owners(s) # {} \/ \E t \in Stops : victim[t] = s /\ t \in gone
    BY DEF NoStrayProcess, Local!NoStrayProcess
  <2>1. Keeper(s)
    BY DEF Inv, LocalInv, LocalKept
  <2>2. CASE Local!InFlight(s)
    BY <2>2 DEF Local!Owners, Local!Stoppers, Local!Subject
  <2>3. CASE s \in sandboxes
    BY <2>3 DEF Local!Owners
  <2>4. ASSUME NEW t \in Stops, victim[t] = s, Local!InFlight(t)
        PROVE  Local!Owners(s) # {}
    BY <2>4, Distinct DEF Local!Owners, Local!Stoppers, Local!Subject
  <2> QED
    BY <2>1, <2>2, <2>3, <2>4 DEF Keeper
<1> QED
  BY <1>1, InvHolds, PTL

\* docker_runner.go: unless an answer about it was lost, its removal failed or the
\* runner has exited, a container or network that exists belongs to a request under way or to the
\* map: each failing call of Start takes back what the calls before it made.
THEOREM NothingIsLeftBehind == Spec => []NothingLeftBehind
<1>1. Inv => NothingLeftBehind
  <2> SUFFICES ASSUME Inv, mode = "docker", NEW s \in Starts \ hit,
                      container[s] \in {"created", "running"} \/ network[s] = "exists"
               PROVE  Docker!Owners(s) # {}
    BY DEF NothingLeftBehind, Docker!NothingLeftBehind
  <2> USE Distinct
  <2>1. DockerInv
    BY DEF Inv
  <2>2. ~(NoContainer(s) /\ NoNetwork(s))
    BY DEF NoContainer, NoNetwork
  <2>3. pc[s] \in StartPoints \ {"idle", "error"}
    BY <2>1, <2>2 DEF DockerInv, DockerTypes, DockerStartInv, NoContainer, NoNetwork
  <2>4. CASE pc[s] # "handle"
    <3>1. Docker!InFlight(s)
      BY <2>3, <2>4 DEF Docker!InFlight, Docker!Finished, StartPoints
    <3> QED
      BY <3>1 DEF Docker!Owners, Docker!Subject
  <2>5. CASE s \in containers
    BY <2>5 DEF Docker!Owners
  <2>6. CASE pc[s] = "handle" /\ s \notin containers
    <3>1. PICK t \in Stops : victim[t] = s
      BY <2>1, <2>6 DEF DockerInv, DockerKept
    <3>2. pc[t] \in StopPoints \ {"idle", "stopped", "error"}
      BY <2>1, <2>2, <3>1 DEF DockerInv, DockerTypes, DockerStopInv
    <3>3. Docker!InFlight(t)
      BY <3>2 DEF Docker!InFlight, Docker!Finished, StopPoints
    <3> QED
      BY <3>1, <3>3 DEF Docker!Owners, Docker!Subject
  <2> QED
    BY <2>4, <2>5, <2>6
<1> QED
  BY <1>1, InvHolds, PTL

-----------------------------------------------------------------------------
(* Both runners keep the promise of module Sandbox *)

\* What a caller sees: the state of the promise.
Engines   == IF mode = "local" THEN Local!Engine ELSE Docker!Engine
Handed    == {s \in Starts : pc[s] = "handle"}
Confirmed == [t \in Stops |-> IF pc[t] = "stopped" THEN victim[t] ELSE "none"]

\* The promise, of what a caller sees.
PromisedStep ==
  \/ UNCHANGED <<Engines, Handed, Confirmed>>
  \/ \E s \in Starts :
       /\ UNCHANGED <<Handed, Confirmed>>
       /\ \/ Engines[s] = "none" /\ Engines' = [Engines EXCEPT ![s] = "up"]
          \/ Engines[s] = "up" /\ Engines' = [Engines EXCEPT ![s] = "gone"]
  \/ \E s \in Starts :
       /\ UNCHANGED <<Engines, Confirmed>>
       /\ Engines[s] # "none" /\ s \notin Handed /\ Handed' = Handed \cup {s}
  \/ \E s \in Starts, t \in Stops :
       /\ UNCHANGED <<Engines, Handed>>
       /\ Engines[s] = "gone" /\ s \in Handed /\ Confirmed[t] = "none"
       /\ \A u \in Stops : Confirmed[u] # s
       /\ Confirmed' = [Confirmed EXCEPT ![t] = s]

\* A promised step is a step of Sandbox.
LEMMA PromisedIsSandbox == PromisedStep => [Promise!Next]_(Promise!vars)
  BY DEF PromisedStep, Engines, Handed, Confirmed, Promise!Next, Promise!vars,
         Promise!ComesUp, Promise!Ends, Promise!HandsOut, Promise!Confirms,
         Promise!NoSandbox

\* A step that hands nothing out and confirms nothing.
LEMMA Quiet ==
  ASSUME \A s \in Starts : pc'[s] = "handle" <=> pc[s] = "handle",
         \A t \in Stops : /\ pc'[t] = "stopped" <=> pc[t] = "stopped"
                          /\ pc[t] = "stopped" => victim'[t] = victim[t]
  PROVE  UNCHANGED <<Handed, Confirmed>>
  BY DEF Handed, Confirmed

\* One request goes on without handing out or confirming.
LEMMA QuietMove ==
  ASSUME NEW Points, pc \in [Requests -> Points], NEW r \in Requests, NEW x,
         pc' = [pc EXCEPT ![r] = x],
         pc[r] \notin {"handle", "stopped"}, x \notin {"handle", "stopped"},
         \A t \in Stops : t # r => victim'[t] = victim[t]
  PROVE  UNCHANGED <<Handed, Confirmed>>
<1>1. pc'[r] = x /\ \A q \in Requests : q # r => pc'[q] = pc[q]
  OBVIOUS
<1> QED
  BY <1>1, Quiet, Distinct

\* Every step of the local runner is a promised one.
LEMMA LocalStepPromised ==
  ASSUME LocalInv, LocalNext
  PROVE  PromisedStep
<1> USE Distinct
<1>1. mode = "local" /\ mode' = "local" /\ Local!Next
  BY DEF LocalNext
<1>2. LocalTypes
  BY DEF LocalInv
<1>3. proc' = proc => Engines' = Engines
  BY <1>1 DEF Engines, Local!Engine
<1>4. UNCHANGED <<Handed, Confirmed, proc>> => PromisedStep
  BY <1>3 DEF PromisedStep
<1>5. pc \in [Requests -> Local!Points]
  BY <1>2 DEF LocalTypes
<1>6. ASSUME NEW b \in Builds, Local!Build(b) \/ Local!BuildStep(b) PROVE PromisedStep
  <2>1. /\ \A q \in Starts \cup Stops : pc'[q] = pc[q]
        /\ UNCHANGED <<victim, proc>>
    BY <1>5, <1>6 DEF Local!Build, Local!BuildStep, Local!BuildAcquire, Local!BuildEnds,
                      Local!Goto, Local!processv
  <2> QED
    BY <1>4, <2>1, Quiet
<1>7. ASSUME UNCHANGED <<pc, victim, proc>> PROVE PromisedStep
  BY <1>4, <1>7 DEF Handed, Confirmed
<1>8. ASSUME NEW s \in Starts, NEW b \in Builds, Local!Start(s, b) PROVE PromisedStep
  <2>1. PICK x \in {"queue", "error"} :
          pc' = [pc EXCEPT ![s] = x] /\ pc[s] = "idle" /\ UNCHANGED <<victim, proc>>
    BY <1>8 DEF Local!Start, Local!Goto, Local!processv
  <2> QED
    BY <1>4, <1>5, <2>1, QuietMove
<1>9. ASSUME NEW s \in Starts, Local!StartStep(s) PROVE PromisedStep
  <2>1. CASE Local!StartAcquire(s) \/ Local!SpawnFails(s)
             \/ Local!HealthPasses(s) \/ Local!HealthFails(s)
    <3>1. PICK x \in {"spawn", "error", "register", "stop"} :
            /\ pc' = [pc EXCEPT ![s] = x] /\ UNCHANGED <<victim, proc>>
            /\ pc[s] \notin {"handle", "stopped"}
      BY <2>1 DEF Local!StartAcquire, Local!SpawnFails, Local!HealthPasses,
                  Local!HealthFails, Local!Goto, Local!processv
    <3> QED
      BY <1>4, <1>5, <3>1, QuietMove
  <2>2. CASE Local!Spawn(s)
    <3>1. UNCHANGED <<Handed, Confirmed>>
      BY <1>5, <2>2, QuietMove DEF Local!Spawn, Local!Goto
    <3>2. proc[s] = "none" /\ proc' = [proc EXCEPT ![s] = "booting"]
      BY <2>2 DEF Local!Spawn, LocalInv, LocalStartInv
    <3>3. Engines[s] = "none" /\ Engines' = [Engines EXCEPT ![s] = "up"]
      BY <1>1, <1>2, <3>2 DEF Engines, Local!Engine, LocalTypes
    <3> QED
      BY <3>1, <3>3 DEF PromisedStep
  <2>3. CASE Local!Register(s)
    <3>1. /\ pc[s] = "register" /\ pc' = [pc EXCEPT ![s] = "handle"]
          /\ UNCHANGED <<victim, proc>>
      BY <2>3 DEF Local!Register, Local!Goto, Local!processv
    <3>2. pc'[s] = "handle" /\ \A q \in Requests : q # s => pc'[q] = pc[q]
      BY <1>5, <3>1
    <3>3. s \notin Handed /\ Handed' = Handed \cup {s} /\ Confirmed' = Confirmed
      BY <3>1, <3>2 DEF Handed, Confirmed
    <3>4. Engines[s] # "none"
      BY <1>1, <3>1 DEF Engines, Local!Engine, LocalInv, LocalStartInv
    <3> QED
      BY <1>3, <3>1, <3>3, <3>4 DEF PromisedStep
  <2> QED
    BY <1>9, <2>1, <2>2, <2>3 DEF Local!StartStep
<1>10. ASSUME NEW t \in Stops, NEW s \in Starts, Local!Stop(t, s) PROVE PromisedStep
  <2>1. PICK x \in {"flush", "error"} :
          /\ pc' = [pc EXCEPT ![t] = x] /\ pc[t] = "idle" /\ UNCHANGED proc
          /\ victim' = [victim EXCEPT ![t] = victim'[t]]
    BY <1>2, <1>10 DEF Local!Stop, Local!Goto, Local!processv, LocalTypes
  <2>2. \A u \in Stops : u # t => victim'[u] = victim[u]
    BY <1>2, <2>1 DEF LocalTypes
  <2> QED
    BY <1>4, <1>5, <2>1, <2>2, QuietMove
<1>11. ASSUME NEW t \in Stops, Local!FlushSampler(t) PROVE PromisedStep
  <2>1. PICK x \in {"stop"} : /\ pc' = [pc EXCEPT ![t] = x] /\ pc[t] = "flush"
                              /\ UNCHANGED <<victim, proc>>
    BY <1>11 DEF Local!FlushSampler, Local!Goto, Local!processv
  <2> QED
    BY <1>4, <1>5, <2>1, QuietMove
<1>12. ASSUME NEW p \in Starts \cup Stops, Local!StopStep(p) PROVE PromisedStep
  <2>1. pc[p] \in {"stop", "interrupted", "killed"} /\ UNCHANGED <<victim, proc>>
    BY <1>12 DEF Local!StopStep, Local!Reaped, Local!Interrupt, Local!Kill,
                 Local!GivesUp, Local!processv
  <2>2. CASE \E x \in {"interrupted", "killed", "error"} : pc' = [pc EXCEPT ![p] = x]
    BY <1>4, <1>5, <2>1, <2>2, QuietMove
  <2>3. CASE Local!Reaped(p) /\ p \in Stops /\ pc' = [pc EXCEPT ![p] = "stopped"]
    <3> DEFINE s == victim[p]
    <3>1. /\ s \in Starts /\ pc[s] = "handle" /\ done[s] = "full"
          /\ \A t \in Stops : victim[t] = s => t = p
      BY <2>1, <2>3, LocalStopperOwns DEF Local!Reaped
    <3> HIDE DEF s
    <3>2. Engines[s] = "gone"
      BY <1>1, <3>1 DEF Engines, Local!Engine, LocalInv, LocalStartInv
    <3>3. pc'[p] = "stopped" /\ \A q \in Requests : q # p => pc'[q] = pc[q]
      BY <1>5, <2>3
    <3>4. Handed' = Handed /\ s \in Handed
      BY <2>1, <2>3, <3>1, <3>3 DEF Handed
    <3>5. /\ Confirmed[p] = "none" /\ Confirmed' = [Confirmed EXCEPT ![p] = s]
          /\ \A u \in Stops : Confirmed[u] # s
      BY <2>1, <2>3, <3>1, <3>3 DEF Confirmed, s
    <3> QED
      BY <1>3, <2>1, <2>3, <3>1, <3>2, <3>4, <3>5 DEF PromisedStep
  <2> QED
    BY <1>12, <2>2, <2>3 DEF Local!StopStep, Local!Reaped, Local!Interrupt, Local!Kill,
                             Local!GivesUp, Local!Returns, Local!Goto
<1>13. ASSUME NEW s \in Starts, Local!Listen(s) \/ Local!Exit(s) PROVE PromisedStep
  <2>1. UNCHANGED <<Handed, Confirmed>>
    BY <1>13 DEF Local!Listen, Local!Exit, Local!requestv, Handed, Confirmed
  <2>2. CASE Local!Listen(s)
    <3>1. Engines' = Engines
      BY <1>1, <1>2, <2>2 DEF Local!Listen, Engines, Local!Engine, LocalTypes
    <3> QED
      BY <2>1, <3>1 DEF PromisedStep
  <2>3. CASE Local!Exit(s)
    <3>1. Engines[s] = "up" /\ Engines' = [Engines EXCEPT ![s] = "gone"]
      BY <1>1, <1>2, <2>3 DEF Local!Exit, Engines, Local!Engine, LocalTypes
    <3> QED
      BY <2>1, <3>1 DEF PromisedStep
  <2> QED
    BY <1>13, <2>2, <2>3
<1>14. ASSUME Local!RunnerExits PROVE PromisedStep
  <2>1. /\ UNCHANGED <<victim, proc>>
        /\ \A r \in Requests : pc'[r] = IF pc[r] \in Local!Finished THEN pc[r] ELSE "error"
    BY <1>14 DEF Local!RunnerExits, Local!processv, Local!Requests, Requests
  <2>2. UNCHANGED <<Handed, Confirmed>>
    BY <2>1, Quiet DEF Local!Finished
  <2> QED
    BY <1>4, <2>1, <2>2
<1>15. ASSUME NEW r \in Requests, Local!RequestStep(r) PROVE PromisedStep
  BY <1>6, <1>9, <1>11, <1>12, <1>15 DEF Local!RequestStep
<1>16. ASSUME Local!Signal \/ \E t \in Stops : Local!Disconnect(t) PROVE PromisedStep
  BY <1>7, <1>16 DEF Local!Signal, Local!Disconnect, Local!requestv, Local!processv
<1>17. Local!Requests = Requests
  BY DEF Local!Requests, Requests
<1> QED
  BY <1>1, <1>6, <1>8, <1>10, <1>13, <1>14, <1>15, <1>16, <1>17 DEF Local!Next

\* Every step of the docker runner is a promised one.
LEMMA DockerStepPromised ==
  ASSUME DockerInv, DockerNext
  PROVE  PromisedStep
<1> USE Distinct
<1>1. mode = "docker" /\ mode' = "docker" /\ Docker!Next
  BY DEF DockerNext
<1>2. DockerTypes
  BY DEF DockerInv
<1>3. container' = container => Engines' = Engines
  BY <1>1 DEF Engines, Docker!Engine
<1>4. UNCHANGED <<Handed, Confirmed, container>> => PromisedStep
  BY <1>3 DEF PromisedStep
<1>5. pc \in [Requests -> Docker!Points]
  BY <1>2 DEF DockerTypes
<1>6. ASSUME NEW r \in Requests, Docker!Queue(r) PROVE PromisedStep
  <2>1. PICK x \in {"queue"} : /\ pc' = [pc EXCEPT ![r] = x] /\ pc[r] = "idle"
                               /\ UNCHANGED <<victim, container>>
    BY <1>6 DEF Docker!Queue, Docker!Goto, Docker!daemonv
  <2> QED
    BY <1>4, <1>5, <2>1, QuietMove
<1>7. ASSUME NEW b \in Builds, Docker!BuildAcquire(b) \/ Docker!BuildEnds(b)
      PROVE  PromisedStep
  <2>1. PICK x \in {"build", "built", "error"} :
          /\ pc' = [pc EXCEPT ![b] = x] /\ pc[b] \in {"queue", "build"}
          /\ UNCHANGED <<victim, container>>
    BY <1>7 DEF Docker!BuildAcquire, Docker!BuildEnds, Docker!Goto, Docker!daemonv
  <2> QED
    BY <1>4, <1>5, <2>1, QuietMove
<1>8. ASSUME NEW s \in Starts, container' = [container EXCEPT ![s] = container'[s]],
             container'[s] # "running", container'[s] # "removed",
             container[s] # "running", container[s] # "removed",
             UNCHANGED <<Handed, Confirmed>>
      PROVE  PromisedStep
  <2>1. Engines' = Engines
    BY <1>1, <1>2, <1>8 DEF Engines, Docker!Engine, DockerTypes
  <2> QED
    BY <1>8, <2>1 DEF PromisedStep
<1>9. ASSUME NEW s \in Starts, container' = [container EXCEPT ![s] = "removed"],
             container[s] = "running", UNCHANGED <<Handed, Confirmed>>
      PROVE  PromisedStep
  <2>1. Engines[s] = "up" /\ Engines' = [Engines EXCEPT ![s] = "gone"]
    BY <1>1, <1>2, <1>9 DEF Engines, Docker!Engine, DockerTypes
  <2> QED
    BY <1>9, <2>1 DEF PromisedStep
<1>10. ASSUME NEW s \in Starts, Docker!StartStep(s) PROVE PromisedStep
  <2>1. CASE Docker!StartAcquire(s) \/ Docker!NetworkCreate(s) \/ Docker!Await(s)
    <3>1. PICK x \in {"network", "create", "error", "health", "register", "container"} :
            /\ pc' = [pc EXCEPT ![s] = x] /\ pc[s] \in {"queue", "network", "port", "health"}
            /\ UNCHANGED <<victim, container>>
      BY <2>1 DEF Docker!StartAcquire, Docker!NetworkCreate, Docker!Await, Docker!Goto,
                  Docker!daemonv
    <3> QED
      BY <1>4, <1>5, <3>1, QuietMove
  <2>2. CASE Docker!ContainerCreate(s)
    <3>1. PICK x \in {"start", "unlink"} :
            /\ pc' = [pc EXCEPT ![s] = x] /\ pc[s] = "create" /\ UNCHANGED victim
            /\ \/ UNCHANGED container
               \/ container' = [container EXCEPT ![s] = "created"]
      BY <2>2 DEF Docker!ContainerCreate, Docker!Goto
    <3>2. container[s] = "none" /\ UNCHANGED <<Handed, Confirmed>>
      BY <1>5, <3>1, QuietMove DEF DockerInv, DockerStartInv
    <3>3. CASE UNCHANGED container
      BY <1>4, <3>2, <3>3
    <3>4. CASE container' = [container EXCEPT ![s] = "created"]
      <4>1. container'[s] = "created"
        BY <1>2, <3>4 DEF DockerTypes
      <4> QED
        BY <1>8, <3>2, <3>4, <4>1
    <3> QED
      BY <3>1, <3>3, <3>4
  <2>3. CASE Docker!ContainerStart(s)
    <3>1. PICK x \in {"port", "container"} :
            /\ pc' = [pc EXCEPT ![s] = x] /\ pc[s] = "start" /\ UNCHANGED victim
            /\ \/ UNCHANGED container
               \/ container' = [container EXCEPT ![s] = "running"]
      BY <2>3 DEF Docker!ContainerStart, Docker!Goto
    <3>2. container[s] = "created" /\ UNCHANGED <<Handed, Confirmed>>
      BY <1>5, <3>1, QuietMove DEF DockerInv, DockerStartInv
    <3>3. CASE UNCHANGED container
      BY <1>4, <3>2, <3>3
    <3>4. CASE container' = [container EXCEPT ![s] = "running"]
      <4>1. Engines[s] = "none" /\ Engines' = [Engines EXCEPT ![s] = "up"]
        BY <1>1, <1>2, <3>2, <3>4 DEF Engines, Docker!Engine, DockerTypes
      <4> QED
        BY <3>2, <4>1 DEF PromisedStep
    <3> QED
      BY <3>1, <3>3, <3>4
  <2>4. CASE Docker!Register(s)
    <3>1. /\ pc[s] = "register" /\ pc' = [pc EXCEPT ![s] = "handle"]
          /\ UNCHANGED <<victim, container>>
      BY <2>4 DEF Docker!Register, Docker!Goto, Docker!daemonv
    <3>2. pc'[s] = "handle" /\ \A q \in Requests : q # s => pc'[q] = pc[q]
      BY <1>5, <3>1
    <3>3. s \notin Handed /\ Handed' = Handed \cup {s} /\ Confirmed' = Confirmed
      BY <3>1, <3>2 DEF Handed, Confirmed
    <3>4. container[s] \in {"running", "removed"}
      BY <3>1 DEF DockerInv, DockerStartInv
    <3>5. Engines[s] # "none"
      BY <1>1, <3>4 DEF Engines, Docker!Engine
    <3> QED
      BY <1>3, <3>1, <3>3, <3>5 DEF PromisedStep
  <2> QED
    BY <1>10, <2>1, <2>2, <2>3, <2>4 DEF Docker!StartStep
<1>11. ASSUME NEW t \in Stops, NEW s \in Starts, Docker!Stop(t, s) PROVE PromisedStep
  <2>1. PICK x \in {"flush", "error"} :
          /\ pc' = [pc EXCEPT ![t] = x] /\ pc[t] = "idle" /\ UNCHANGED container
          /\ victim' = [victim EXCEPT ![t] = victim'[t]]
    BY <1>2, <1>11 DEF Docker!Stop, Docker!Goto, Docker!daemonv, DockerTypes
  <2>2. \A u \in Stops : u # t => victim'[u] = victim[u]
    BY <1>2, <2>1 DEF DockerTypes
  <2> QED
    BY <1>4, <1>5, <2>1, <2>2, QuietMove
<1>12. ASSUME NEW t \in Stops, Docker!FlushSampler(t) PROVE PromisedStep
  <2>1. PICK x \in {"container"} : /\ pc' = [pc EXCEPT ![t] = x] /\ pc[t] = "flush"
                                   /\ UNCHANGED <<victim, container>>
    BY <1>12 DEF Docker!FlushSampler, Docker!Goto, Docker!daemonv
  <2> QED
    BY <1>4, <1>5, <2>1, QuietMove
<1>13. ASSUME NEW p \in Starts \cup Stops, Docker!DockerStop(p) PROVE PromisedStep
  <2> DEFINE v == Docker!Subject(p)
  <2>1. v \in Starts
    BY <1>13 DEF Docker!DockerStop, DockerInv, DockerTypes, DockerStopInv, Docker!Subject
  <2>2. /\ pc' = [pc EXCEPT ![p] = "unlink"] /\ pc[p] = "container" /\ UNCHANGED victim
        /\ \/ UNCHANGED container
           \/ container' = [container EXCEPT ![v] = IF @ = "running" THEN "removed"
                                                    ELSE IF @ = "created" THEN "none" ELSE @]
    BY <1>13 DEF Docker!DockerStop, Docker!Goto, Docker!Unstarted
  <2> HIDE DEF v
  <2>3. UNCHANGED <<Handed, Confirmed>>
    <3>1. PICK x \in {"unlink"} : pc' = [pc EXCEPT ![p] = x]
      BY <2>2
    <3> QED
      BY <1>5, <2>2, <3>1, QuietMove
  <2>4. CASE UNCHANGED container
    BY <1>4, <2>3, <2>4
  <2>5. CASE container[v] = "running" /\ container' = [container EXCEPT ![v] = "removed"]
    BY <1>9, <2>1, <2>3, <2>5
  <2>6. CASE container[v] = "created" /\ container' = [container EXCEPT ![v] = "none"]
    <3>1. container'[v] = "none"
      BY <1>2, <2>1, <2>6 DEF DockerTypes
    <3> QED
      BY <1>8, <2>1, <2>3, <2>6, <3>1
  <2>7. CASE container' = [container EXCEPT ![v] = container[v]]
    <3>1. container' = container
      BY <1>2, <2>1, <2>7 DEF DockerTypes
    <3> QED
      BY <2>4, <3>1
  <2> QED
    BY <2>2, <2>4, <2>5, <2>6, <2>7
<1>14. ASSUME NEW p \in Starts \cup Stops, Docker!DockerRemoveNetwork(p)
       PROVE  PromisedStep
  <2>1. PICK x \in {"stopped", "error"} :
          /\ pc' = [pc EXCEPT ![p] = x] /\ pc[p] = "unlink"
          /\ x = "stopped" => p \in Stops /\ p \notin failed
          /\ UNCHANGED <<victim, container>>
    BY <1>14 DEF Docker!DockerRemoveNetwork, Docker!Returns, Docker!Goto
  <2>2. CASE x = "error"
    BY <1>4, <1>5, <2>1, <2>2, QuietMove
  <2>3. CASE x = "stopped"
    <3> DEFINE s == victim[p]
    <3>1. /\ s \in Starts /\ pc[s] = "handle" /\ container[s] = "removed"
          /\ \A t \in Stops : victim[t] = s => t = p
      BY <2>1, <2>3 DEF DockerInv, DockerTypes, DockerStopInv, OneVictim
    <3> HIDE DEF s
    <3>2. Engines[s] = "gone"
      BY <1>1, <3>1 DEF Engines, Docker!Engine
    <3>3. pc'[p] = "stopped" /\ \A q \in Requests : q # p => pc'[q] = pc[q]
      BY <1>5, <2>1, <2>3
    <3>4. Handed' = Handed /\ s \in Handed
      BY <2>1, <2>3, <3>1, <3>3 DEF Handed
    <3>5. /\ Confirmed[p] = "none" /\ Confirmed' = [Confirmed EXCEPT ![p] = s]
          /\ \A u \in Stops : Confirmed[u] # s
      BY <2>1, <2>3, <3>1, <3>3 DEF Confirmed, s
    <3> QED
      BY <1>3, <2>1, <2>3, <3>1, <3>2, <3>4, <3>5 DEF PromisedStep
  <2> QED
    BY <2>1, <2>2, <2>3
<1>15. ASSUME NEW s \in Starts, Docker!EngineExits(s) PROVE PromisedStep
  <2>1. UNCHANGED <<Handed, Confirmed>>
    BY <1>15 DEF Docker!EngineExits, Docker!requestv, Handed, Confirmed
  <2> QED
    BY <1>9, <1>15, <2>1 DEF Docker!EngineExits
<1>16. ASSUME NEW r \in Requests, Docker!RequestStep(r) PROVE PromisedStep
  BY <1>7, <1>10, <1>12, <1>13, <1>14, <1>16 DEF Docker!RequestStep, Docker!RemoveStep
<1>17. ASSUME Docker!Signal PROVE PromisedStep
  BY <1>4, <1>17 DEF Docker!Signal, Docker!requestv, Docker!daemonv, Handed, Confirmed
<1>18. ASSUME Docker!RunnerExits PROVE PromisedStep
  <2>1. /\ UNCHANGED <<victim, container>>
        /\ \A r \in Requests : pc'[r] = IF pc[r] \in Docker!Finished THEN pc[r] ELSE "error"
    BY <1>18 DEF Docker!RunnerExits, Docker!daemonv, Docker!Requests, Requests
  <2>2. UNCHANGED <<Handed, Confirmed>>
    BY <2>1, Quiet DEF Docker!Finished
  <2> QED
    BY <1>4, <2>1, <2>2
<1>19. Docker!Requests = Requests
  BY DEF Docker!Requests, Requests
<1> QED
  BY <1>1, <1>6, <1>11, <1>15, <1>16, <1>17, <1>18, <1>19 DEF Docker!Next

\* model.go, Runner: whichever runner is configured, an engine comes up once, a
\* handle is handed out only after it came up, and a Stop is confirmed, once, only
\* when the engine is gone.
THEOREM RunnersKeepThePromise == Spec => ImplementsSandbox
<1>1. Init => Promise!Init
  <2> SUFFICES ASSUME Init PROVE Promise!Init
    OBVIOUS
  <2>1. /\ pc = [r \in Requests |-> "idle"] /\ victim = [t \in Stops |-> "none"]
        /\ proc = [s \in Starts |-> "none"] /\ container = [s \in Starts |-> "none"]
    BY DEF Init, Local!Init, Docker!Init, Local!NoSandbox, Local!Requests, Requests
  <2>2. Handed = {} /\ Confirmed = [t \in Stops |-> "none"]
    BY <2>1, Distinct DEF Handed, Confirmed
  <2>3. Local!Engine = [s \in Starts |-> "none"] /\ Docker!Engine = [s \in Starts |-> "none"]
    BY <2>1 DEF Local!Engine, Docker!Engine
  <2> QED
    BY <2>2, <2>3 DEF Promise!Init, Promise!NoSandbox, Handed, Confirmed
<1>2. Inv /\ [Next]_vars => [Promise!Next]_(Promise!vars)
  <2> SUFFICES ASSUME Inv, [Next]_vars PROVE PromisedStep
    BY PromisedIsSandbox
  <2>1. CASE LocalNext
    BY <2>1, LocalStepPromised DEF LocalNext, Inv
  <2>2. CASE DockerNext
    BY <2>2, DockerStepPromised DEF DockerNext, Inv
  <2>3. CASE UNCHANGED vars
    BY <2>3 DEF vars, localv, dockerv, PromisedStep, Engines, Handed, Confirmed,
                Local!Engine, Docker!Engine
  <2> QED
    BY <2>1, <2>2, <2>3 DEF Next
<1> QED
  BY <1>1, <1>2, InvHolds, PTL DEF Spec, ImplementsSandbox, Promise!Spec
=============================================================================
