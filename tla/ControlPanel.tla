---------------------------- MODULE ControlPanel ----------------------------
(***************************************************************************)
(* The run manager of services/control-panel.  A CreateRun request reserves*)
(* a slot or is rejected, stores the run and starts the goroutine that     *)
(* executes it; CancelRun requests and SIGTERM race it.  A run is created  *)
(* by one request only, so request, goroutine and run share a name.        *)
(*                                                                         *)
(* An access to the store is one step, under its mutex, and so is a write  *)
(* of run_spec.json.                                                       *)
(***************************************************************************)
EXTENDS Naturals, FiniteSets

CONSTANTS
  Runs,
  Cancellers,  \* concurrent CancelRun requests
  Cap,         \* maxConcurrentRuns
  NoRun,
  Faults       \* subset of {"disk", "signal"}

ASSUME PanelRunsAssumption == IsFiniteSet(Runs) /\ NoRun \notin Runs
ASSUME PanelCapAssumption == Cap \in Nat \ {0}

\* The stages of execute; METRICS is the second save under BENCHMARKING.
Stages    == {"STARTING_ENGINE", "HEALTHCHECKING", "BENCHMARKING", "METRICS",
              "VALIDATING", "SCORING"}
NextStage == [STARTING_ENGINE |-> "HEALTHCHECKING",
              HEALTHCHECKING  |-> "BENCHMARKING",
              BENCHMARKING    |-> "METRICS",
              METRICS         |-> "VALIDATING",
              VALIDATING      |-> "SCORING",
              SCORING         |-> "SCORING"]
Working   == {"STARTING_ENGINE", "BENCHMARKING", "VALIDATING", "SCORING"}

Terminal  == {"FINISHED", "FAILED", "CANCELLED"}
Status    == {"ABSENT", "QUEUED"} \cup (Stages \ {"METRICS"}) \cup Terminal

StatusOf(stage) == IF stage = "METRICS" THEN "BENCHMARKING" ELSE stage

VARIABLES
  store, spec, \* status of each run in the store and in its run_spec.json
  engine,      \* the run's engine process
  sem,         \* tokens in m.sem
  cancels,     \* keys of m.cancels
  ctx,         \* the run's context
  pc, stage,   \* of CreateRun, then of execute
  handle,      \* the engine's cleanup is deferred and has not run
  cpc, crun,   \* CancelRun requests
  phase, grace, \* of the process, and whether the shutdown deadline has passed
  hit          \* history: the runs for which a write has failed

filev   == <<store, spec>>
runv    == <<pc, stage, handle>>
cancelv == <<cpc, crun>>
procv   == <<phase, grace>>
vars    == <<filev, engine, sem, cancels, ctx, runv, cancelv, procv, hit>>

Creating   == {"queue", "queueSpec", "register"}
Registered == {"save", "spec", "op", "recheck", "fail", "finish", "lastSpec",
               "unwind", "exit"}

TypeOK ==
  /\ store \in [Runs -> Status] /\ spec \in [Runs -> Status]
  /\ engine \in [Runs -> {"down", "up"}]
  /\ sem \in 0..Cap
  /\ cancels \in SUBSET Runs
  /\ ctx \in [Runs -> {"none", "live", "canceled"}]
  /\ pc \in [Runs -> Creating \cup Registered \cup {"none", "done"}]
  /\ stage \in [Runs -> Stages \cup Terminal]
  /\ handle \in [Runs -> BOOLEAN]
  /\ cpc \in [Cancellers -> {"idle", "lookup", "save"}]
  /\ crun \in [Cancellers -> Runs \cup {NoRun}]
  /\ phase \in {"up", "http", "draining", "exited"}
  /\ grace \in BOOLEAN
  /\ hit \in SUBSET Runs

Init ==
  /\ store = [r \in Runs |-> "ABSENT"] /\ spec = store
  /\ engine = [r \in Runs |-> "down"]
  /\ sem = 0 /\ cancels = {}
  /\ ctx = [r \in Runs |-> "none"]
  /\ pc = [r \in Runs |-> "none"]
  /\ stage = [r \in Runs |-> "STARTING_ENGINE"]
  /\ handle = [r \in Runs |-> FALSE]
  /\ cpc = [c \in Cancellers |-> "idle"]
  /\ crun = [c \in Cancellers |-> NoRun]
  /\ phase = "up" /\ grace = FALSE /\ hit = {}

-----------------------------------------------------------------------------
(* The store *)

Alive     == phase # "exited"

\* Mutant: the last write wins.
LastWriteWins(old, new) == new

TerminalGuard(old, new) ==
  IF old \in Terminal /\ new \in Terminal /\ old # new THEN old ELSE new

Save(r, status) == store' = [store EXCEPT ![r] = TerminalGuard(@, status)]

WriteSpec(r, status) == spec' = [spec EXCEPT ![r] = status]

\* A write for run r fails, or none does.
WriteFails(r) == "disk" \in Faults /\ hit' = hit \cup {r}

Written == UNCHANGED hit

At(r, point) == Alive /\ pc[r] = point

Goto(r, point) == pc' = [pc EXCEPT ![r] = point]

-----------------------------------------------------------------------------
(* CreateRun *)

\* A request that finds no slot is rejected and changes nothing.
Reserve == sem < Cap /\ sem' = sem + 1

\* A handler can be running: the server serves or drains, or gave up draining.
HandlersMayRun == Alive /\ (phase \in {"up", "http"} \/ grace)

CreateRun(r) ==
  /\ HandlersMayRun /\ pc[r] = "none"
  /\ Reserve
  /\ Goto(r, "queue")
  /\ UNCHANGED <<filev, engine, cancels, ctx, stage, handle, cancelv, procv, hit>>

\* An error before the goroutine is launched gives the slot back.
Rejected(r) ==
  /\ WriteFails(r)
  /\ Goto(r, "done") /\ sem' = sem - 1

QueueRun(r) ==
  /\ At(r, "queue")
  /\ \/ Save(r, "QUEUED") /\ Written /\ Goto(r, "queueSpec") /\ UNCHANGED sem
     \/ Rejected(r) /\ UNCHANGED store
  /\ UNCHANGED <<spec, engine, cancels, ctx, stage, handle, cancelv, procv>>

\* run_spec.json and config.json.
WriteQueued(r) ==
  /\ At(r, "queueSpec")
  /\ \/ WriteSpec(r, "QUEUED") /\ Written /\ Goto(r, "register") /\ UNCHANGED sem
     \/ Rejected(r) /\ UNCHANGED spec
  /\ UNCHANGED <<store, engine, cancels, ctx, stage, handle, cancelv, procv>>

Launch(r) ==
  /\ At(r, "register")
  /\ cancels' = cancels \cup {r}
  /\ ctx' = [ctx EXCEPT ![r] = "live"]
  /\ Goto(r, "save")
  /\ UNCHANGED <<filev, engine, sem, stage, handle, cancelv, procv, hit>>

-----------------------------------------------------------------------------
(* execute *)

\* save(): the store, which ignores the context, ...
SaveStage(r) ==
  /\ At(r, "save")
  /\ \/ Save(r, StatusOf(stage[r])) /\ Written /\ Goto(r, "spec")
     \/ WriteFails(r) /\ UNCHANGED store /\ Goto(r, "fail")
  /\ UNCHANGED <<spec, engine, sem, cancels, ctx, stage, handle, cancelv, procv>>

\* ... and run_spec.json.  When startEngine has returned without an error the
\* engine's cleanup is deferred.
WriteStage(r) ==
  /\ At(r, "spec")
  /\ \/ /\ WriteSpec(r, StatusOf(stage[r])) /\ Written
        /\ handle' = [handle EXCEPT ![r] = @ \/ stage[r] = "HEALTHCHECKING"]
        /\ IF stage[r] \in Working
           THEN Goto(r, "op") /\ UNCHANGED stage
           ELSE Goto(r, "save") /\ stage' = [stage EXCEPT ![r] = NextStage[@]]
     \/ WriteFails(r) /\ Goto(r, "fail") /\ UNCHANGED <<spec, stage, handle>>
  /\ UNCHANGED <<store, engine, sem, cancels, ctx, cancelv, procv>>

\* The work of a stage ends well, perhaps although the context has ended.
Operation(r) ==
  /\ At(r, "op")
  /\ engine' = IF stage[r] = "STARTING_ENGINE"
                 THEN [engine EXCEPT ![r] = "up"] ELSE engine
  /\ Goto(r, IF stage[r] = "SCORING" THEN "recheck" ELSE "save")
  /\ stage' = [stage EXCEPT ![r] = NextStage[@]]
  /\ UNCHANGED <<filev, sem, cancels, ctx, handle, cancelv, procv, hit>>

\* An error: the engine's Start has stopped its process again.
OperationFails(r) ==
  /\ At(r, "op")
  /\ Goto(r, "fail")
  /\ UNCHANGED <<filev, engine, sem, cancels, ctx, stage, handle, cancelv, procv, hit>>

\* exec.CommandContext kills the engine when the run's context ends.
ContextKillsEngine(r) ==
  /\ Alive /\ engine[r] = "up" /\ ctx[r] = "canceled"
  /\ engine' = [engine EXCEPT ![r] = "down"]
  /\ UNCHANGED <<filev, sem, cancels, ctx, runv, cancelv, procv, hit>>

Recheck(r) ==
  /\ At(r, "recheck")
  /\ IF ctx[r] = "live"
     THEN Goto(r, "finish") /\ stage' = [stage EXCEPT ![r] = "FINISHED"]
     ELSE Goto(r, "fail") /\ UNCHANGED stage
  /\ UNCHANGED <<filev, engine, sem, cancels, ctx, handle, cancelv, procv, hit>>

\* failOrCancel: the verdict.
Fail(r) ==
  /\ At(r, "fail")
  /\ stage' = [stage EXCEPT ![r] = IF ctx[r] = "canceled" THEN "CANCELLED" ELSE "FAILED"]
  /\ Goto(r, "finish")
  /\ UNCHANGED <<filev, engine, sem, cancels, ctx, handle, cancelv, procv, hit>>

\* Mutant: a verdict is not saved when the context has ended.
SaveVerdictIfLive(r) ==
  /\ At(r, "finish")
  /\ IF ctx[r] = "live" THEN Save(r, stage[r]) ELSE UNCHANGED store
  /\ Goto(r, "lastSpec")
  /\ UNCHANGED <<spec, engine, sem, cancels, ctx, stage, handle, cancelv, procv, hit>>

\* The last writes, of a finished or a failed run; their errors are ignored.
SaveVerdict(r) ==
  /\ At(r, "finish")
  /\ (Save(r, stage[r]) /\ Written) \/ (WriteFails(r) /\ UNCHANGED store)
  /\ Goto(r, "lastSpec")
  /\ UNCHANGED <<spec, engine, sem, cancels, ctx, stage, handle, cancelv, procv>>

WriteVerdict(r) ==
  /\ At(r, "lastSpec")
  /\ (WriteSpec(r, stage[r]) /\ Written) \/ (WriteFails(r) /\ UNCHANGED spec)
  /\ Goto(r, "unwind")
  /\ UNCHANGED <<store, engine, sem, cancels, ctx, stage, handle, cancelv, procv>>

\* The deferred cleanup of the engine.
Unwind(r) ==
  /\ At(r, "unwind")
  /\ engine' = IF handle[r] THEN [engine EXCEPT ![r] = "down"] ELSE engine
  /\ handle' = [handle EXCEPT ![r] = FALSE]
  /\ Goto(r, "exit")
  /\ UNCHANGED <<filev, sem, cancels, ctx, stage, cancelv, procv, hit>>

\* Mutant: the entry stays in m.cancels.
ExitKeepsEntry(r) ==
  /\ At(r, "exit")
  /\ sem' = sem - 1
  /\ Goto(r, "done")
  /\ UNCHANGED <<filev, engine, cancels, ctx, stage, handle, cancelv, procv, hit>>

\* The first deferred call, which runs last.
Exit(r) ==
  /\ At(r, "exit")
  /\ cancels' = cancels \ {r}
  /\ sem' = sem - 1
  /\ Goto(r, "done")
  /\ UNCHANGED <<filev, engine, ctx, stage, handle, cancelv, procv, hit>>

-----------------------------------------------------------------------------
(* CancelRun *)

Canceled(c) == IF c = "live" THEN "canceled" ELSE c

CancelGet(c, r) ==
  /\ HandlersMayRun /\ cpc[c] = "idle"
  /\ store[r] \notin Terminal \cup {"ABSENT"}
  /\ cpc' = [cpc EXCEPT ![c] = "lookup"]
  /\ crun' = [crun EXCEPT ![c] = r]
  /\ UNCHANGED <<filev, engine, sem, cancels, ctx, runv, procv, hit>>

CancelContext(c) ==
  /\ Alive /\ cpc[c] = "lookup"
  /\ ctx' = IF crun[c] \in cancels
              THEN [ctx EXCEPT ![crun[c]] = Canceled(@)] ELSE ctx
  /\ cpc' = [cpc EXCEPT ![c] = "save"]
  /\ UNCHANGED <<filev, engine, sem, cancels, runv, crun, procv, hit>>

CancelSave(c) ==
  /\ Alive /\ cpc[c] = "save"
  /\ \/ Save(crun[c], "CANCELLED") /\ Written
     \/ WriteFails(crun[c]) /\ UNCHANGED store
  /\ cpc' = [cpc EXCEPT ![c] = "idle"]
  /\ crun' = [crun EXCEPT ![c] = NoRun]
  /\ UNCHANGED <<spec, engine, sem, cancels, ctx, runv, procv>>

-----------------------------------------------------------------------------
(* SIGTERM *)

Signal ==
  /\ "signal" \in Faults /\ phase = "up"
  /\ phase' = "http"
  /\ UNCHANGED <<filev, engine, sem, cancels, ctx, runv, cancelv, grace, hit>>

GraceElapses ==
  /\ phase \in {"http", "draining"} /\ ~grace
  /\ grace' = TRUE
  /\ UNCHANGED <<filev, engine, sem, cancels, ctx, runv, cancelv, phase, hit>>

HandlersIdle ==
  /\ \A r \in Runs : pc[r] \notin Creating
  /\ \A c \in Cancellers : cpc[c] = "idle"

\* srv.Shutdown has returned, and Manager.Shutdown cancels every run.
Shutdown ==
  /\ phase = "http" /\ (HandlersIdle \/ grace)
  /\ ctx' = [r \in Runs |-> IF r \in cancels THEN Canceled(ctx[r]) ELSE ctx[r]]
  /\ phase' = IF cancels = {} THEN "exited" ELSE "draining"
  /\ UNCHANGED <<filev, engine, sem, cancels, runv, cancelv, grace, hit>>

\* Mutant: Shutdown cancels and does not wait.
DrainedAtOnce ==
  /\ phase = "draining"
  /\ phase' = "exited"
  /\ UNCHANGED <<filev, engine, sem, cancels, ctx, runv, cancelv, grace, hit>>

Drained ==
  /\ phase = "draining" /\ (cancels = {} \/ grace)
  /\ phase' = "exited"
  /\ UNCHANGED <<filev, engine, sem, cancels, ctx, runv, cancelv, grace, hit>>

-----------------------------------------------------------------------------

RunStep(r) ==
  \/ QueueRun(r) \/ WriteQueued(r) \/ Launch(r)
  \/ SaveStage(r) \/ WriteStage(r) \/ Operation(r) \/ OperationFails(r)
  \/ Recheck(r) \/ Fail(r) \/ SaveVerdict(r) \/ WriteVerdict(r)
  \/ Unwind(r) \/ Exit(r)

CancelStep(c) == CancelContext(c) \/ CancelSave(c)

Next ==
  \/ \E r \in Runs : CreateRun(r) \/ RunStep(r) \/ ContextKillsEngine(r)
  \/ \E c \in Cancellers : (\E r \in Runs : CancelGet(c, r)) \/ CancelStep(c)
  \/ Signal \/ GraceElapses \/ Shutdown \/ Drained

Spec == Init /\ [][Next]_vars

\* Requests and goroutines go on; executors return, since bots and validator
\* work for a bounded time.
FairSpec ==
  /\ Spec
  /\ \A r \in Runs : WF_vars(RunStep(r)) /\ WF_vars(ContextKillsEngine(r))
  /\ \A c \in Cancellers : WF_vars(CancelStep(c))
  /\ WF_vars(Shutdown) /\ WF_vars(Drained)

-----------------------------------------------------------------------------
(* Properties *)

Active(r) == pc[r] \in Creating \cup Registered

\* The process has exited after its grace period was over.
GaveUp == phase = "exited" /\ grace

\* A record that says FINISHED or FAILED never changes again, whatever stale
\* copies CancelRun requests save.
VerdictIsFinal ==
  [][\A r \in Runs : store[r] \in {"FINISHED", "FAILED"} => store'[r] = store[r]]_vars

\* A run on record that is not over has a request or a goroutine of a live process
\* at work on it, unless one of its own writes has failed: no run is stuck, also
\* when a late transition has overwritten CANCELLED or writes of other runs fail.
\* Only a process that ran out of its grace period leaves such a run behind.
StoredRunIsCarried ==
  \A r \in Runs \ hit :
    store[r] \notin Terminal \cup {"ABSENT"} => (Alive /\ Active(r)) \/ GaveUp

\* Shutdown "cancels every in-flight run so its goroutine unwinds and persists
\* a terminal state": a drain that ends in time leaves no run in progress and
\* no engine up, but for runs whose own writes failed.
DrainLeavesNothing ==
  phase = "exited" /\ ~grace =>
    \A r \in Runs \ hit :
      store[r] \in Terminal \cup {"ABSENT"} /\ engine[r] = "down"

\* Every run that was created ends, and its record is terminal for good, unless
\* one of its writes failed.
RunsEnd ==
  \A r \in Runs :
    store[r] \notin Terminal \cup {"ABSENT"} ~>
      (phase = "exited" \/ r \in hit \/ [](store[r] \in Terminal))

\* The drain of Manager.Shutdown ends, and does not need its deadline for it:
\* every entry leaves m.cancels.
SignalledExits == phase = "draining" ~> phase = "exited"

\* manager_cancel_race_test.go: "a cancelled run must not be silently
\* overwritten to FINISHED", and manager.go: the recheck and "the store's
\* terminal-state guard" see to it.
CancelledRunStaysCancelled ==
  \A r \in Runs : [](store[r] = "CANCELLED" => [](store[r] # "FINISHED"))

\* json_store.go: "the first to reach a terminal state wins".
FirstTerminalWins ==
  [][\A r \in Runs : store[r] \in Terminal => store'[r] = store[r]]_vars

\* manager.go on Shutdown: without it a kill "leaves a goroutine (and its child
\* engine process) running detached".
NoDetachedEngine ==
  phase = "exited" /\ ~grace => \A r \in Runs : engine[r] = "down"
=============================================================================
