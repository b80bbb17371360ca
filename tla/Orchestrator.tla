---------------------------- MODULE Orchestrator ----------------------------
(***************************************************************************)
(* The run lifecycle of services/orchestrator: the claim worker and the    *)
(* HTTP start requests that take a build slot and claim a queued run, the  *)
(* execute goroutine that drives a run through its stages, the CancelRun   *)
(* requests that race it, the run timeout, SIGTERM shutdown, crashes and   *)
(* restarts, all over the JSON index file shared with submission-api.      *)
(*                                                                         *)
(* A slot is one token of the channel m.sem.  Whoever holds the token (the *)
(* caller that acquired it, then the execute goroutine it spawned) is      *)
(* identified with the slot, so pc[s] is the control point of that holder. *)
(* Every access to the index file is one step: the store performs it under *)
(* its mutex and the cross-process flock.                                  *)
(***************************************************************************)
EXTENDS Naturals, FiniteSets

CONSTANTS
  Runs,        \* run ids that submission-api may create
  CreatedAt,   \* [Runs -> Nat], the creation stamp of each run
  Slots,       \* tokens of the channel m.sem
  Cancellers,  \* concurrent CancelRun requests
  NoRun, NoSlot,
  Faults       \* which faults may happen: a subset of FaultKinds

FaultKinds == {"disk", "sandbox", "signal", "crash"}

ASSUME CreatedAtAssumption == CreatedAt \in [Runs -> Nat]
ASSUME NoRunAssumption == NoRun \notin Runs
ASSUME NoSlotAssumption == NoSlot \notin Slots
ASSUME FaultsAssumption == Faults \subseteq FaultKinds

InProgress == {"BUILDING", "SANDBOX_STARTING", "HEALTHCHECKING",
               "BENCHMARKING", "VALIDATING", "SCORING"}

Terminal == {"FINISHED", "FAILED", "CANCELLED", "TIMED_OUT"}

\* ABSENT: the index holds no record of the run yet.
Status == {"ABSENT", "QUEUED"} \cup InProgress \cup Terminal

\* The order in which execute enters the stages.
NextStage == [BUILDING         |-> "SANDBOX_STARTING",
              SANDBOX_STARTING |-> "HEALTHCHECKING",
              HEALTHCHECKING   |-> "BENCHMARKING",
              BENCHMARKING     |-> "VALIDATING",
              VALIDATING       |-> "SCORING",
              SCORING          |-> "SCORING"]

VARIABLES
  store,       \* status of each run in the index file
  spec,        \* status in the run's run_spec.json
  engine,      \* the run's contestant engine in the sandbox
  published,   \* runs the leaderboard accepted
  pc,          \* control point of the holder of each slot
  run,         \* the run the holder of a slot was asked for, or works on
  stage,       \* the goroutine's run.Status, or the one it is about to set
  handle,      \* TRUE while stopEngine is registered and has not run
  worker,      \* slot the claim worker is claiming with, or NoSlot
  cancels,     \* keys of the map m.cancels
  ctx,         \* state of each run's context
  cpc, crun,   \* CancelRun requests: control point and run
  phase,       \* of the orchestrator process
  grace,       \* TRUE once the shutdown deadline has passed
  swept        \* runs that Shutdown found registered

disk  == <<store, spec, engine, published>>
slotv == <<pc, run, stage, handle, worker>>
ctxv  == <<cancels, ctx>>
cancv == <<cpc, crun>>
procv == <<phase, grace, swept>>
vars  == <<disk, slotv, ctxv, cancv, procv>>

\* Control points.  Claimed: the holder owns a run it has taken from the
\* queue.  Registered: the run's cancel function is in m.cancels.
Registered == {"prepare", "enter", "save", "op", "stop", "recheck",
               "finishSave", "publish", "panicked", "fail", "failSave",
               "unwind", "cleanup"}
Claimed    == Registered \cup {"register", "release"}
PC         == Claimed \cup {"free", "claim"}

\* lost: up, but the answer to the start request never made it back.
EngineState == {"down", "up", "lost"}

ContextState == {"none", "live", "canceled", "deadline"}

TypeOK ==
  /\ store \in [Runs -> Status]
  /\ spec \in [Runs -> Status]
  /\ engine \in [Runs -> EngineState]
  /\ published \in SUBSET Runs
  /\ pc \in [Slots -> PC]
  /\ run \in [Slots -> Runs \cup {NoRun}]
  /\ stage \in [Slots -> InProgress \cup Terminal]
  /\ handle \in [Slots -> BOOLEAN]
  /\ worker \in Slots \cup {NoSlot}
  /\ cancels \in SUBSET Runs
  /\ ctx \in [Runs -> ContextState]
  /\ cpc \in [Cancellers -> {"idle", "lookup", "save"}]
  /\ crun \in [Cancellers -> Runs \cup {NoRun}]
  /\ phase \in {"up", "http", "draining", "exited"}
  /\ grace \in BOOLEAN
  /\ swept \in SUBSET Runs

\* What a freshly started process holds in memory.
Volatile(pcs, rs, sts, hs, w, cs, cx, cp, cr, ph, g, sw) ==
  /\ pcs = [s \in Slots |-> "free"]
  /\ rs = [s \in Slots |-> NoRun]
  /\ sts = [s \in Slots |-> "BUILDING"]
  /\ hs = [s \in Slots |-> FALSE]
  /\ w = NoSlot
  /\ cs = {}
  /\ cx = [r \in Runs |-> "none"]
  /\ cp = [c \in Cancellers |-> "idle"]
  /\ cr = [c \in Cancellers |-> NoRun]
  /\ ph = "up"
  /\ g = FALSE
  /\ sw = {}

Init ==
  /\ store = [r \in Runs |-> "ABSENT"]
  /\ spec = [r \in Runs |-> "ABSENT"]
  /\ engine = [r \in Runs |-> "down"]
  /\ published = {}
  /\ Volatile(pc, run, stage, handle, worker, cancels, ctx, cpc, crun,
              phase, grace, swept)

-----------------------------------------------------------------------------
(* The store *)

\* Mutant: the last write wins.
LastWriteWins(old, new) == new

\* A cancel and a finish that race: the record keeps the first terminal state.
TerminalGuard(old, new) ==
  IF old \in Terminal /\ new \in Terminal /\ old # new THEN old ELSE new

SaveRun(r, status) ==
  store' = [store EXCEPT ![r] = TerminalGuard(@, status)]

\* A write of the index, or of an artifact, that fails leaves the file alone.
DiskFault == "disk" \in Faults

WriteRunSpec(r, status) == spec' = [spec EXCEPT ![r] = status]

\* submission-api's CreateRun: a new record, in another process.
CreateRun(r) ==
  /\ store[r] = "ABSENT"
  /\ store' = [store EXCEPT ![r] = "QUEUED"]
  /\ UNCHANGED <<spec, engine, published, slotv, ctxv, cancv, procv>>

-----------------------------------------------------------------------------
(* Taking a slot and claiming a run *)

Alive == phase # "exited"

\* An HTTP handler can be running: the server still serves, drains, or gave
\* up draining because the shutdown deadline passed.
HandlersMayRun == Alive /\ (phase \in {"up", "http"} \/ grace)

Acquire(s, r) ==
  /\ pc[s] = "free"
  /\ pc' = [pc EXCEPT ![s] = "claim"]
  /\ run' = [run EXCEPT ![s] = r]

\* A StartRun request for r, or (r = NoRun) a StartNextQueued request.
StartRequest(s, r) ==
  /\ HandlersMayRun
  /\ Acquire(s, r)
  /\ UNCHANGED <<disk, stage, handle, worker, ctxv, cancv, procv>>

\* The claim worker.  Its select may take the slot although serverCtx is
\* already done, so the signal does not disable it.
WorkerPoll(s) ==
  /\ Alive
  /\ worker = NoSlot
  /\ Acquire(s, NoRun)
  /\ worker' = s
  /\ UNCHANGED <<disk, stage, handle, ctxv, cancv, procv>>

\* Mutant: only the first run of the sorted index is looked at.
OldestIfQueued(r) ==
  /\ store[r] = "QUEUED"
  /\ \A q \in Runs : store[q] # "ABSENT" => CreatedAt[r] <= CreatedAt[q]

\* Unstable sort by CreatedAt: any of the oldest queued runs may come first.
OldestQueued(r) ==
  /\ store[r] = "QUEUED"
  /\ \A q \in Runs : store[q] = "QUEUED" => CreatedAt[r] <= CreatedAt[q]

\* Mutant: a StartRun request takes any run that is not over.
ClaimableUnlessTerminal(s, r) ==
  IF run[s] = NoRun THEN OldestQueued(r)
                    ELSE r = run[s] /\ store[r] \notin Terminal \cup {"ABSENT"}

\* The run a claim by the holder of slot s may take.
Claimable(s, r) ==
  IF run[s] = NoRun THEN OldestQueued(r) ELSE r = run[s] /\ store[r] = "QUEUED"

Claim(s) ==
  /\ Alive /\ pc[s] = "claim"
  /\ \E r \in Runs :
       /\ Claimable(s, r)
       /\ store' = [store EXCEPT ![r] = "BUILDING"]
       /\ run' = [run EXCEPT ![s] = r]
  /\ pc' = [pc EXCEPT ![s] = "register"]
  /\ UNCHANGED <<spec, engine, published, stage, handle, worker, ctxv, cancv,
                 procv>>

\* Nothing to claim, a terminal run, one already in progress, or a store
\* error: the slot is given back.
ClaimReturnsNothing(s) ==
  /\ Alive /\ pc[s] = "claim"
  /\ DiskFault \/ \A r \in Runs : ~Claimable(s, r)
  /\ pc' = [pc EXCEPT ![s] = "free"]
  /\ run' = [run EXCEPT ![s] = NoRun]
  /\ worker' = IF worker = s THEN NoSlot ELSE worker
  /\ UNCHANGED <<disk, stage, handle, ctxv, cancv, procv>>

\* Register the cancel function, then start the execute goroutine.
Register(s) ==
  /\ Alive /\ pc[s] = "register"
  /\ cancels' = cancels \cup {run[s]}
  /\ ctx' = [ctx EXCEPT ![run[s]] = "live"]
  /\ pc' = [pc EXCEPT ![s] = "prepare"]
  /\ stage' = [stage EXCEPT ![s] = "BUILDING"]
  /\ worker' = IF worker = s THEN NoSlot ELSE worker
  /\ UNCHANGED <<disk, run, handle, cancv, procv>>

-----------------------------------------------------------------------------
(* The execute goroutine *)

At(s, point) == Alive /\ pc[s] = point

Goto(s, point) == pc' = [pc EXCEPT ![s] = point]

\* Artifact directory, config.json, GetSubmission: any of them may fail.
Prepare(s) ==
  /\ At(s, "prepare")
  /\ \E next \in {"enter", "fail"} : Goto(s, next)
  /\ UNCHANGED <<disk, run, stage, handle, worker, ctxv, cancv, procv>>

\* transition(): the context check, Touch and run_spec.json.
Enter(s) ==
  /\ At(s, "enter")
  /\ \/ /\ ctx[run[s]] = "live"
        /\ WriteRunSpec(run[s], stage[s])
        /\ Goto(s, "save")
     \/ /\ ctx[run[s]] # "live" \/ DiskFault
        /\ Goto(s, "fail")
        /\ UNCHANGED spec
  /\ UNCHANGED <<store, engine, published, run, stage, handle, worker, ctxv,
                 cancv, procv>>

\* transition(): the save, which ignores the context.  HEALTHCHECKING has no
\* work of its own, so execute goes straight on to the next transition.
SaveStage(s) ==
  /\ At(s, "save")
  /\ \/ /\ SaveRun(run[s], stage[s])
        /\ IF stage[s] = "HEALTHCHECKING"
             THEN /\ Goto(s, "enter")
                  /\ stage' = [stage EXCEPT ![s] = NextStage[@]]
             ELSE Goto(s, "op") /\ UNCHANGED stage
     \/ /\ DiskFault
        /\ Goto(s, "fail")
        /\ UNCHANGED <<store, stage>>
  /\ UNCHANGED <<spec, engine, published, run, handle, worker, ctxv, cancv,
                 procv>>

\* The work of the stage (Build, Start, bot fleet, validator, Score) succeeds.
\* It may do so although the context ended while it was finishing.
Operation(s) ==
  /\ At(s, "op")
  /\ IF stage[s] = "SANDBOX_STARTING"
       THEN /\ engine' = [engine EXCEPT ![run[s]] = "up"]
            /\ handle' = [handle EXCEPT ![s] = TRUE]
       ELSE UNCHANGED <<engine, handle>>
  /\ CASE stage[s] = "BENCHMARKING" -> Goto(s, "stop") /\ UNCHANGED stage
       [] stage[s] = "SCORING" -> Goto(s, "recheck") /\ UNCHANGED stage
       [] OTHER -> Goto(s, "enter") /\
                   stage' = [stage EXCEPT ![s] = NextStage[@]]
  /\ UNCHANGED <<store, spec, published, run, worker, ctxv, cancv, procv>>

\* The work of the stage returns an error.  Start gives up when the context
\* ends, when the answer does not arrive and when sandbox.json cannot be
\* written; if the sandbox came up before, no handle exists to stop it with.
OperationFails(s) ==
  /\ At(s, "op")
  /\ \/ UNCHANGED engine
     \/ /\ stage[s] = "SANDBOX_STARTING"
        /\ ctx[run[s]] # "live" \/ "sandbox" \in Faults \/ DiskFault
        /\ engine' = [engine EXCEPT ![run[s]] = "lost"]
  /\ Goto(s, "fail")
  /\ UNCHANGED <<store, spec, published, run, stage, handle, worker, ctxv,
                 cancv, procv>>

\* stopEngine, at most once per handle.  The stop call may fail, and is not
\* tried again.
StopEngine(s) ==
  /\ handle' = [handle EXCEPT ![s] = FALSE]
  /\ \/ handle[s] /\ engine' = [engine EXCEPT ![run[s]] = "down"]
     \/ (~handle[s] \/ "sandbox" \in Faults) /\ UNCHANGED engine

\* After the benchmark: stop the engine, read its resource sample, go on.
StopAfterBenchmark(s) ==
  /\ At(s, "stop")
  /\ StopEngine(s)
  /\ Goto(s, "enter")
  /\ stage' = [stage EXCEPT ![s] = NextStage[@]]
  /\ UNCHANGED <<store, spec, published, run, worker, ctxv, cancv, procv>>

\* The last context check, and the run's FINISHED verdict.
Recheck(s) ==
  /\ At(s, "recheck")
  /\ \/ /\ ctx[run[s]] = "live"
        /\ stage' = [stage EXCEPT ![s] = "FINISHED"]
        /\ \/ WriteRunSpec(run[s], "FINISHED")
           \/ DiskFault /\ UNCHANGED spec
        /\ Goto(s, "finishSave")
     \/ /\ ctx[run[s]] # "live"
        /\ Goto(s, "fail")
        /\ UNCHANGED <<stage, spec>>
  /\ UNCHANGED <<store, engine, published, run, handle, worker, ctxv, cancv,
                 procv>>

\* The error of the final save is ignored.
SaveFinished(s) ==
  /\ At(s, "finishSave")
  /\ SaveRun(run[s], stage[s]) \/ (DiskFault /\ UNCHANGED store)
  /\ Goto(s, "publish")
  /\ UNCHANGED <<spec, engine, published, run, stage, handle, worker, ctxv,
                 cancv, procv>>

\* The publisher's request carries the run's context; its error is logged.
Publish(s) ==
  /\ At(s, "publish")
  /\ \/ ctx[run[s]] = "live" /\ published' = published \cup {run[s]}
     \/ UNCHANGED published
  /\ Goto(s, "unwind")
  /\ UNCHANGED <<store, spec, engine, run, stage, handle, worker, ctxv, cancv,
                 procv>>

\* A panic anywhere in execute's body.
Panic(s) ==
  /\ \E point \in {"prepare", "enter", "op", "recheck", "publish"} : At(s, point)
  /\ Goto(s, "panicked")
  /\ UNCHANGED <<disk, run, stage, handle, worker, ctxv, cancv, procv>>

\* Mutant: the recover only logs the panic.
RecoverWithoutFail(s) ==
  /\ At(s, "panicked")
  /\ StopEngine(s)
  /\ Goto(s, "unwind")
  /\ UNCHANGED <<store, spec, published, run, stage, worker, ctxv, cancv,
                 procv>>

\* Deferred calls run last-in first-out: stopEngine, then the recover.
Recover(s) ==
  /\ At(s, "panicked")
  /\ StopEngine(s)
  /\ Goto(s, "fail")
  /\ UNCHANGED <<store, spec, published, run, stage, worker, ctxv, cancv,
                 procv>>

Verdict(r) == CASE ctx[r] = "canceled" -> "CANCELLED"
                [] ctx[r] = "deadline" -> "TIMED_OUT"
                [] OTHER -> "FAILED"

\* Mutant: run_spec.json is not rewritten on failure.
FailWithoutRunSpec(s) ==
  /\ At(s, "fail")
  /\ stage' = [stage EXCEPT ![s] = Verdict(run[s])]
  /\ Goto(s, "failSave")
  /\ UNCHANGED <<disk, run, handle, worker, ctxv, cancv, procv>>

\* fail(): the verdict the context gives, and run_spec.json.
Fail(s) ==
  /\ At(s, "fail")
  /\ stage' = [stage EXCEPT ![s] = Verdict(run[s])]
  /\ WriteRunSpec(run[s], Verdict(run[s])) \/ (DiskFault /\ UNCHANGED spec)
  /\ Goto(s, "failSave")
  /\ UNCHANGED <<store, engine, published, run, handle, worker, ctxv, cancv,
                 procv>>

\* Mutant: the failed run is not saved.
FailWithoutSave(s) ==
  /\ At(s, "failSave")
  /\ Goto(s, "unwind")
  /\ UNCHANGED <<disk, run, stage, handle, worker, ctxv, cancv, procv>>

\* fail(): the save, whose error is ignored.
SaveFailed(s) ==
  /\ At(s, "failSave")
  /\ SaveRun(run[s], stage[s]) \/ (DiskFault /\ UNCHANGED store)
  /\ Goto(s, "unwind")
  /\ UNCHANGED <<spec, engine, published, run, stage, handle, worker, ctxv,
                 cancv, procv>>

\* Mutant: no deferred stopEngine.
UnwindWithoutStop(s) ==
  /\ At(s, "unwind")
  /\ Goto(s, "cleanup")
  /\ UNCHANGED <<disk, run, stage, handle, worker, ctxv, cancv, procv>>

\* The deferred stopEngine.
Unwind(s) ==
  /\ At(s, "unwind")
  /\ StopEngine(s)
  /\ Goto(s, "cleanup")
  /\ UNCHANGED <<store, spec, published, run, stage, worker, ctxv, cancv,
                 procv>>

\* context.CancelFunc: only the first end of a context counts.
Ended(c) == IF c = "live" THEN "canceled" ELSE c

\* The deferred cleanup: forget and call the cancel function ...
Cleanup(s) ==
  /\ At(s, "cleanup")
  /\ cancels' = cancels \ {run[s]}
  /\ ctx' = [ctx EXCEPT ![run[s]] = Ended(@)]
  /\ Goto(s, "release")
  /\ UNCHANGED <<disk, run, stage, handle, worker, cancv, procv>>

\* ... and give the slot back.
Release(s) ==
  /\ At(s, "release")
  /\ Goto(s, "free")
  /\ run' = [run EXCEPT ![s] = NoRun]
  /\ stage' = [stage EXCEPT ![s] = "BUILDING"]
  /\ UNCHANGED <<disk, handle, worker, ctxv, cancv, procv>>

\* The run timeout.
Timeout(r) ==
  /\ Alive /\ r \in cancels /\ ctx[r] = "live"
  /\ ctx' = [ctx EXCEPT ![r] = "deadline"]
  /\ UNCHANGED <<disk, slotv, cancels, cancv, procv>>

-----------------------------------------------------------------------------
(* CancelRun: a read of the index, the cancel, and a save of the copy read *)

\* A terminal run (or none) is returned as it is: nothing happens.
CancelGet(c, r) ==
  /\ HandlersMayRun /\ cpc[c] = "idle"
  /\ store[r] \notin Terminal \cup {"ABSENT"}
  /\ cpc' = [cpc EXCEPT ![c] = "lookup"]
  /\ crun' = [crun EXCEPT ![c] = r]
  /\ UNCHANGED <<disk, slotv, ctxv, procv>>

CancelContext(c) ==
  /\ Alive /\ cpc[c] = "lookup"
  /\ ctx' = IF crun[c] \in cancels
              THEN [ctx EXCEPT ![crun[c]] = Ended(@)] ELSE ctx
  /\ cpc' = [cpc EXCEPT ![c] = "save"]
  /\ UNCHANGED <<disk, slotv, cancels, crun, procv>>

CancelSave(c) ==
  /\ Alive /\ cpc[c] = "save"
  /\ SaveRun(crun[c], "CANCELLED") \/ (DiskFault /\ UNCHANGED store)
  /\ cpc' = [cpc EXCEPT ![c] = "idle"]
  /\ crun' = [crun EXCEPT ![c] = NoRun]
  /\ UNCHANGED <<spec, engine, published, slotv, ctxv, procv>>

-----------------------------------------------------------------------------
(* Shutdown, crash and restart *)

Signal ==
  /\ "signal" \in Faults /\ phase = "up"
  /\ phase' = "http"
  /\ UNCHANGED <<disk, slotv, ctxv, cancv, grace, swept>>

\* The deadline that srv.Shutdown and Manager.Shutdown share.
GraceElapses ==
  /\ phase \in {"http", "draining"} /\ ~grace
  /\ grace' = TRUE
  /\ UNCHANGED <<disk, slotv, ctxv, cancv, phase, swept>>

HandlersIdle ==
  /\ \A s \in Slots : pc[s] \in {"claim", "register"} => worker = s
  /\ \A c \in Cancellers : cpc[c] = "idle"

\* srv.Shutdown has returned; Manager.Shutdown cancels what is registered and
\* returns at once when that is nothing.
Shutdown ==
  /\ phase = "http"
  /\ HandlersIdle \/ grace
  /\ ctx' = [r \in Runs |-> IF r \in cancels THEN Ended(ctx[r]) ELSE ctx[r]]
  /\ swept' = cancels
  /\ phase' = IF cancels = {} THEN "exited" ELSE "draining"
  /\ UNCHANGED <<disk, slotv, cancels, cancv, grace>>

\* Mutant: Shutdown does not wait for the goroutines it cancelled.
DrainedAtOnce ==
  /\ phase = "draining"
  /\ phase' = "exited"
  /\ UNCHANGED <<disk, slotv, ctxv, cancv, grace, swept>>

\* The polling loop of Manager.Shutdown ends, and with it the process.
Drained ==
  /\ phase = "draining"
  /\ cancels = {} \/ grace
  /\ phase' = "exited"
  /\ UNCHANGED <<disk, slotv, ctxv, cancv, grace, swept>>

\* A new process; nothing reads the index for runs left in progress.
Restart ==
  /\ phase = "exited"
  /\ Volatile(pc', run', stage', handle', worker', cancels', ctx', cpc',
              crun', phase', grace', swept')
  /\ UNCHANGED disk

\* The process dies without running any of its deferred calls, and is started
\* again (what submission-api does in between it could also do before).
Crash ==
  /\ Alive /\ "crash" \in Faults
  /\ Volatile(pc', run', stage', handle', worker', cancels', ctx', cpc',
              crun', phase', grace', swept')
  /\ UNCHANGED disk

-----------------------------------------------------------------------------

\* Steps of the holder of slot s that it takes by itself.
HolderStep(s) ==
  \/ Claim(s) \/ ClaimReturnsNothing(s) \/ Register(s) \/ Prepare(s)
  \/ Enter(s) \/ SaveStage(s) \/ Operation(s) \/ OperationFails(s)
  \/ StopAfterBenchmark(s) \/ Recheck(s) \/ SaveFinished(s) \/ Publish(s)
  \/ Recover(s) \/ Fail(s) \/ SaveFailed(s) \/ Unwind(s) \/ Cleanup(s)
  \/ Release(s)

CancelStep(c) == CancelContext(c) \/ CancelSave(c)

Next ==
  \/ \E r \in Runs : CreateRun(r) \/ Timeout(r)
  \/ \E s \in Slots : \/ \E r \in Runs \cup {NoRun} : StartRequest(s, r)
                      \/ WorkerPoll(s) \/ HolderStep(s) \/ Panic(s)
  \/ \E c \in Cancellers : (\E r \in Runs : CancelGet(c, r)) \/ CancelStep(c)
  \/ Signal \/ GraceElapses \/ Shutdown \/ Drained \/ Crash \/ Restart

Spec == Init /\ [][Next]_vars

\* The Go scheduler runs every goroutine that can run.  An operation returns:
\* it is given the run's context, whose deadline always comes.  The worker
\* gets a slot again and again: senders blocked on a channel are served in the
\* order in which they came.
Fairness ==
  /\ \A s \in Slots : WF_vars(HolderStep(s))
  /\ \A c \in Cancellers : WF_vars(CancelStep(c))
  /\ SF_vars(\E s \in Slots : phase = "up" /\ WorkerPoll(s))

FairSpec == Spec /\ Fairness

-----------------------------------------------------------------------------
(* Properties *)

\* A run is executed by at most one goroutine: a claim moves the record out of
\* QUEUED in one locked step and no save ever puts it back.
OneGoroutinePerRun ==
  \A s, t \in Slots :
    s # t /\ pc[s] \in Claimed /\ pc[t] \in Claimed => run[s] # run[t]

\* m.cancels holds exactly the runs a goroutine is executing: every one of
\* them can be cancelled, and no entry outlives its goroutine.
CancelsMatchExecutions ==
  cancels = {run[s] : s \in {t \in Slots : pc[t] \in Registered}}

\* The verdict of the executing goroutine is final: a record that says
\* FINISHED, FAILED or TIMED_OUT never changes again, whatever CancelRun
\* requests, restarts and later claims do.
VerdictIsFinal ==
  [][\A r \in Runs :
       store[r] \in Terminal \ {"CANCELLED"} => store'[r] = store[r]]_vars

Exited(r) == ctx[r] # "none" /\ r \notin cancels

\* When the goroutine of a run is gone its record is terminal; this rests on
\* every exit path of execute going through a save of a terminal status.
ExitedRunIsTerminal == \A r \in Runs : Exited(r) => store[r] \in Terminal

\* ... and from then on the record never changes, late CancelRun saves of a
\* stale copy included.
ExitedRunIsFrozen ==
  [][\A r \in Runs : Exited(r) => store'[r] = store[r]]_vars

\* An engine the orchestrator knows of is up only while its goroutine can still
\* stop it: no exit path (error, timeout, cancel, panic) forgets stopEngine.
EngineIsStoppable ==
  \A r \in Runs : engine[r] = "up" =>
    \E s \in Slots : run[s] = r /\ pc[s] \in Registered /\ handle[s]

\* run_spec.json and the index disagree about a run that is over only in two
\* ways: a CancelRun won the terminal-state guard, or execute panicked after it
\* had saved FINISHED.  A failure or timeout on record is in both.
ArtifactVerdictAgrees ==
  \A r \in Runs :
    Exited(r) => spec[r] = store[r] \/ store[r] \in {"CANCELLED", "FINISHED"}

\* A shutdown that ends before its deadline has waited for each goroutine it
\* cancelled, its terminal save and the stop of its engine included: an entry
\* leaves m.cancels neither before them nor while the polling loop looks away.
DrainWaitsForSwept ==
  phase = "exited" /\ ~grace =>
    \A s \in Slots : pc[s] \in Registered => run[s] \notin swept

\* Without disk errors it leaves each run it cancelled terminal.
SweptRunsEndTerminal ==
  phase = "exited" /\ ~grace => \A r \in swept : store[r] \in Terminal

\* A queued run is taken up sooner or later: no exit path of an earlier run,
\* and no failed claim, keeps its slot.
QueuedRunIsTakenUp ==
  \A r \in Runs : store[r] = "QUEUED" ~> store[r] # "QUEUED"

\* A run that was claimed ends in a terminal state for good, even when a
\* cancelled record was overwritten by a late transition.
ClaimedRunEnds ==
  \A r \in Runs : store[r] \in InProgress ~> [](store[r] \in Terminal)

\* Cancelling a running run takes its engine down, unless the cancel fell
\* between the start of the sandbox and the arrival of the answer.
CancelStopsEngine ==
  \A r \in Runs : ctx[r] = "canceled" ~> engine[r] # "up"

\* json_store.go: "the first to reach a terminal state wins".
FirstTerminalWins ==
  [][\A r \in Runs : store[r] \in Terminal => store'[r] = store[r]]_vars

\* main.go: a shutdown that drains before its deadline leaves "no orphaned
\* runs".
NoOrphanedRuns ==
  phase = "exited" /\ ~grace => \A r \in Runs : store[r] \notin InProgress

\* main.go, same place: "no orphaned ... child processes".
NoOrphanedEngines ==
  phase = "exited" /\ ~grace => \A r \in Runs : engine[r] = "down"
=============================================================================
