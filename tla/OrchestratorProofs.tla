------------------------- MODULE OrchestratorProofs -------------------------
(***************************************************************************)
(* Proofs about Orchestrator, for any number of runs, slots and concurrent *)
(* cancel requests, and for every set of faults.                           *)
(***************************************************************************)
EXTENDS Orchestrator, TLAPS

USE DEF At, Goto, Alive, HandlersMayRun, DiskFault, Acquire, WriteRunSpec

\* The holder of a slot works on a run from its claim on.
HolderHasRun == \A s \in Slots : pc[s] \in Claimed => run[s] \in Runs

\* A CancelRun request that has read the index knows its run.
CancelHasRun == \A c \in Cancellers : cpc[c] # "idle" => crun[c] \in Runs

\* The goroutine's status is a stage until its verdict, and then a verdict.
StageFitsPC ==
  \A s \in Slots :
    /\ pc[s] \in {"prepare", "enter", "save", "op", "stop", "recheck"}
         => stage[s] \in InProgress
    /\ pc[s] = "finishSave" => stage[s] = "FINISHED"
    /\ pc[s] = "failSave" => stage[s] \in Terminal \ {"FINISHED"}

TypeInv == TypeOK /\ HolderHasRun /\ CancelHasRun /\ StageFitsPC

\* execute never leaves the list of stages by advancing.
LEMMA NextStageType == \A st \in InProgress : NextStage[st] \in InProgress
  BY DEF InProgress, NextStage

\* The types and the shape of the goroutines' local state are kept by every
\* action of the run lifecycle.
THEOREM TypeInvariance == Spec => []TypeInv
<1> USE DEF TypeInv, HolderHasRun, CancelHasRun, StageFitsPC
<1>1. Init => TypeInv
  <2> SUFFICES ASSUME Init PROVE TypeInv
    OBVIOUS
  <2> USE DEF Init, Volatile
  <2>1. TypeOK
    BY DEF TypeOK, Status, EngineState, PC, ContextState, InProgress
  <2> QED
    BY <2>1, NoRunAssumption DEF Claimed, Registered
<1>2. TypeInv /\ [Next]_vars => TypeInv'
  <2> SUFFICES ASSUME TypeInv, [Next]_vars PROVE TypeInv'
    OBVIOUS
  <2> USE DEF TypeOK
  <2>1. ASSUME NEW r \in Runs, CreateRun(r) \/ Timeout(r) PROVE TypeInv'
    BY <2>1 DEF CreateRun, Timeout, slotv, ctxv, cancv, procv, disk, Status,
                ContextState
  <2>2. ASSUME NEW s \in Slots, NEW r \in Runs \cup {NoRun}, StartRequest(s, r)
        PROVE  TypeInv'
    BY <2>2 DEF StartRequest, ctxv, cancv, procv, disk, PC, Claimed, Registered
  <2>3. ASSUME NEW s \in Slots, WorkerPoll(s) PROVE TypeInv'
    BY <2>3 DEF WorkerPoll, ctxv, cancv, procv, disk, PC, Claimed, Registered
  <2>4. ASSUME NEW s \in Slots, HolderStep(s) \/ Panic(s) PROVE TypeInv'
    <3>1. CASE Claim(s)
      BY <3>1 DEF Claim, ctxv, cancv, procv, PC, Claimed, Status, InProgress
    <3>2. CASE ClaimReturnsNothing(s) \/ Register(s)
      BY <3>2 DEF ClaimReturnsNothing, Register, ctxv, cancv, procv, disk, PC,
                  Claimed, Registered, ContextState, InProgress
    <3>3. CASE Prepare(s) \/ Panic(s)
      BY <3>3 DEF Prepare, Panic, ctxv, cancv, procv, disk, PC, Claimed,
                  Registered
    <3>4. CASE Enter(s)
      BY <3>4 DEF Enter, ctxv, cancv, procv, PC, Claimed, Registered, Status
    <3>5. CASE SaveStage(s)
      BY <3>5 DEF SaveStage, SaveRun, TerminalGuard, ctxv, cancv, procv, PC,
                  Claimed, Registered, Status, InProgress, Terminal, NextStage
    <3>6. CASE Operation(s)
      <4>1. stage[s] \in InProgress /\ NextStage[stage[s]] \in InProgress
        BY <3>6, NextStageType DEF Operation
      <4>2. /\ engine' \in [Runs -> EngineState]
            /\ handle' \in [Slots -> BOOLEAN]
            /\ pc' \in [Slots -> PC]
            /\ stage' \in [Slots -> InProgress \cup Terminal]
        BY <3>6, <4>1 DEF Operation, EngineState, PC, Claimed, Registered
      <4> QED
        BY <3>6, <4>1, <4>2 DEF Operation, ctxv, cancv, procv, Claimed,
                                Registered
    <3>6a. CASE OperationFails(s)
      BY <3>6a DEF OperationFails, EngineState, ctxv, cancv, procv, PC, Claimed,
                   Registered
    <3>7. CASE StopAfterBenchmark(s)
      <4>1. stage[s] \in InProgress /\ NextStage[stage[s]] \in InProgress
        BY <3>7, NextStageType DEF StopAfterBenchmark
      <4>2. engine' \in [Runs -> EngineState] /\ handle' \in [Slots -> BOOLEAN]
        BY <3>7 DEF StopAfterBenchmark, StopEngine, EngineState, Claimed,
                    Registered
      <4> QED
        BY <3>7, <4>1, <4>2 DEF StopAfterBenchmark, ctxv, cancv, procv, PC,
                                Claimed, Registered
    <3>7a. CASE Recover(s) \/ Unwind(s)
      <4>1. engine' \in [Runs -> EngineState] /\ handle' \in [Slots -> BOOLEAN]
        BY <3>7a DEF Recover, Unwind, StopEngine, EngineState, Claimed, Registered
      <4>2. CASE Recover(s)
        BY <4>1, <4>2 DEF Recover, ctxv, cancv, procv, PC, Claimed, Registered
      <4>3. CASE Unwind(s)
        BY <4>1, <4>3 DEF Unwind, ctxv, cancv, procv, PC, Claimed, Registered
      <4> QED
        BY <3>7a, <4>2, <4>3
    <3>8. CASE Recheck(s) \/ Fail(s)
      BY <3>8 DEF Recheck, Fail, Verdict, ctxv, cancv, procv, PC, Claimed,
                  Registered, Status, Terminal
    <3>9. CASE SaveFinished(s) \/ SaveFailed(s)
      BY <3>9 DEF SaveFinished, SaveFailed, SaveRun, TerminalGuard, ctxv, cancv,
                  procv, PC, Claimed, Registered, Status
    <3>10. CASE Publish(s)
      BY <3>10 DEF Publish, ctxv, cancv, procv, PC, Claimed, Registered
    <3>11. CASE Cleanup(s) \/ Release(s)
      BY <3>11 DEF Cleanup, Release, Ended, ctxv, cancv, procv, disk, PC,
                   Claimed, Registered, ContextState, InProgress
    <3> QED
      BY <2>4, <3>1, <3>2, <3>3, <3>4, <3>5, <3>6, <3>6a, <3>7, <3>7a, <3>8,
         <3>9, <3>10, <3>11 DEF HolderStep
  <2>5. ASSUME NEW c \in Cancellers,
               (\E r \in Runs : CancelGet(c, r)) \/ CancelStep(c)
        PROVE  TypeInv'
    BY <2>5 DEF CancelGet, CancelStep, CancelContext, CancelSave, SaveRun,
                TerminalGuard, Ended, ctxv, slotv, procv, disk, Status,
                Terminal, ContextState
  <2>6. CASE Signal \/ GraceElapses \/ Shutdown \/ Drained
    BY <2>6 DEF Signal, GraceElapses, Shutdown, Drained, Ended, ctxv, cancv,
                slotv, procv, disk, ContextState
  <2>7. CASE Crash \/ Restart
    <3> USE <2>7 DEF Crash, Restart, Volatile, disk
    <3>1. /\ store' \in [Runs -> Status] /\ spec' \in [Runs -> Status]
          /\ engine' \in [Runs -> EngineState] /\ published' \in SUBSET Runs
      OBVIOUS
    <3>2. /\ pc' \in [Slots -> PC]
          /\ run' \in [Slots -> Runs \cup {NoRun}]
      BY DEF PC
    <3>2a. stage' \in [Slots -> InProgress \cup Terminal]
      BY DEF InProgress
    <3>2b. handle' \in [Slots -> BOOLEAN]
      OBVIOUS
    <3>3. /\ worker' \in Slots \cup {NoSlot}
          /\ cancels' \in SUBSET Runs
          /\ ctx' \in [Runs -> ContextState]
          /\ cpc' \in [Cancellers -> {"idle", "lookup", "save"}]
          /\ crun' \in [Cancellers -> Runs \cup {NoRun}]
      BY DEF ContextState
    <3>4. /\ phase' \in {"up", "http", "draining", "exited"}
          /\ grace' \in BOOLEAN /\ swept' \in SUBSET Runs
      OBVIOUS
    <3> QED
      BY <3>1, <3>2, <3>2a, <3>2b, <3>3, <3>4 DEF Claimed, Registered
  <2>8. CASE UNCHANGED vars
    BY <2>8 DEF vars, disk, slotv, ctxv, cancv, procv
  <2> QED
    BY <2>1, <2>2, <2>3, <2>4, <2>5, <2>6, <2>7, <2>8 DEF Next
<1> QED
  BY <1>1, <1>2, PTL DEF Spec

-----------------------------------------------------------------------------

\* The run of a claimed slot has left the queue.
ClaimedIsTaken ==
  \A s \in Slots : pc[s] \in Claimed => store[run[s]] \notin {"ABSENT", "QUEUED"}

\* Points of execute before its verdict is saved.
Unjudged == {"register", "prepare", "enter", "save", "op", "stop", "recheck",
             "finishSave"}

\* Until then the only terminal state a record can show is a cancel request's.
UnjudgedIsOpen ==
  \A s \in Slots :
    pc[s] \in Unjudged => store[run[s]] \in InProgress \cup {"CANCELLED"}

\* m.cancels, element by element.
CancelsAreExecutions ==
  \A r \in Runs :
    r \in cancels <=> \E s \in Slots : run[s] = r /\ pc[s] \in Registered

ClaimInv == /\ OneGoroutinePerRun /\ ClaimedIsTaken /\ UnjudgedIsOpen
            /\ CancelsAreExecutions

\* What a save leaves in the record of run r, and that it leaves the others.
LEMMA SaveEffect ==
  ASSUME TypeOK, NEW r \in Runs, NEW st \in InProgress \cup Terminal,
         SaveRun(r, st)
  PROVE  /\ \A q \in Runs : q # r => store'[q] = store[q]
         /\ store'[r] \in {store[r], st}
         /\ store'[r] = store[r] => store[r] = st \/ store[r] \in Terminal
         /\ st \in Terminal /\ store[r] \in Terminal => store'[r] = store[r]
  BY DEF SaveRun, TerminalGuard, TypeOK

\* Claiming is exclusive in every reachable state: the four parts above support
\* one another, since a goroutine that is alone with its run is the only one
\* that writes a verdict for it and the only one that unregisters it.
THEOREM ClaimInvariance == Spec => []ClaimInv
<1> USE DEF ClaimInv, OneGoroutinePerRun, ClaimedIsTaken, UnjudgedIsOpen,
            CancelsAreExecutions
<1>1. Init => ClaimInv
  BY DEF Init, Volatile, Claimed, Registered, Unjudged
<1>2. TypeInv /\ ClaimInv /\ [Next]_vars => ClaimInv'
  <2> SUFFICES ASSUME TypeInv, ClaimInv, [Next]_vars PROVE ClaimInv'
    OBVIOUS
  <2> USE DEF TypeInv, TypeOK, HolderHasRun, CancelHasRun, StageFitsPC
  <2>1. ASSUME NEW r \in Runs, CreateRun(r) \/ Timeout(r) PROVE ClaimInv'
    BY <2>1 DEF CreateRun, Timeout, slotv, ctxv, disk, Claimed, Registered,
                Unjudged, InProgress
  <2>2. ASSUME NEW s \in Slots, NEW r \in Runs \cup {NoRun}, StartRequest(s, r)
        PROVE  ClaimInv'
    BY <2>2 DEF StartRequest, ctxv, disk, Claimed, Registered, Unjudged
  <2>3. ASSUME NEW s \in Slots, WorkerPoll(s) PROVE ClaimInv'
    BY <2>3 DEF WorkerPoll, ctxv, disk, Claimed, Registered, Unjudged
  <2>4. ASSUME NEW s \in Slots, HolderStep(s) \/ Panic(s) PROVE ClaimInv'
    <3> USE DEF Claimed, Registered, Unjudged
    <3>1. CASE Claim(s)
      <4>1. PICK r \in Runs : /\ store[r] = "QUEUED"
                              /\ store' = [store EXCEPT ![r] = "BUILDING"]
                              /\ run' = [run EXCEPT ![s] = r]
        BY <3>1 DEF Claim, Claimable, OldestQueued
      <4>2. \A t \in Slots : pc[t] \in Claimed => run[t] # r
        BY <4>1
      <4>3. /\ pc' = [pc EXCEPT ![s] = "register"]
            /\ pc[s] = "claim"
            /\ cancels' = cancels
        BY <3>1 DEF Claim, ctxv
      <4> QED
        BY <4>1, <4>2, <4>3 DEF InProgress
    <3>2. CASE ClaimReturnsNothing(s)
      BY <3>2 DEF ClaimReturnsNothing, ctxv, disk
    <3>3. CASE Register(s)
      BY <3>3 DEF Register, disk
    <3>4. CASE Prepare(s) \/ Panic(s) \/ Recheck(s) \/ Fail(s) \/ Enter(s)
      BY <3>4 DEF Prepare, Panic, Recheck, Fail, Enter, ctxv, disk
    <3>5. CASE Operation(s) \/ OperationFails(s) \/ StopAfterBenchmark(s)
               \/ Recover(s) \/ Unwind(s) \/ Publish(s)
      BY <3>5 DEF Operation, OperationFails, StopAfterBenchmark, Recover,
                  Unwind, Publish, ctxv, disk
    <3>6. CASE SaveStage(s)
      <4>1. /\ run[s] \in Runs /\ stage[s] \in InProgress
            /\ pc[s] = "save" /\ run' = run /\ cancels' = cancels
            /\ pc' \in {[pc EXCEPT ![s] = x] : x \in {"enter", "op", "fail"}}
            /\ SaveRun(run[s], stage[s]) \/ store' = store
        BY <3>6 DEF SaveStage, ctxv
      <4>2. \A q \in Runs : \/ store'[q] = store[q]
                            \/ q = run[s] /\ store'[q] \in InProgress
        BY <4>1, SaveEffect
      <4> QED
        BY <4>1, <4>2 DEF InProgress
    <3>7. CASE SaveFinished(s) \/ SaveFailed(s)
      <4>1. /\ run[s] \in Runs /\ stage[s] \in Terminal
            /\ pc[s] \in {"finishSave", "failSave"} /\ run' = run
            /\ cancels' = cancels
            /\ pc' \in {[pc EXCEPT ![s] = x] : x \in {"publish", "unwind"}}
            /\ SaveRun(run[s], stage[s]) \/ store' = store
        BY <3>7 DEF SaveFinished, SaveFailed, ctxv, Terminal
      <4>2. \A q \in Runs : \/ store'[q] = store[q]
                            \/ q = run[s] /\ store'[q] \in Terminal
        BY <4>1, SaveEffect
      <4> QED
        BY <4>1, <4>2 DEF Terminal
    <3>8. CASE Cleanup(s)
      BY <3>8 DEF Cleanup, disk
    <3>9. CASE Release(s)
      BY <3>9 DEF Release, disk, ctxv
    <3> QED
      BY <2>4, <3>1, <3>2, <3>3, <3>4, <3>5, <3>6, <3>7, <3>8, <3>9
         DEF HolderStep
  <2>5. ASSUME NEW c \in Cancellers,
               (\E r \in Runs : CancelGet(c, r)) \/ CancelContext(c)
        PROVE  ClaimInv'
    BY <2>5 DEF CancelGet, CancelContext, ctxv, slotv, disk, Claimed,
                Registered, Unjudged
  <2>6. ASSUME NEW c \in Cancellers, CancelSave(c) PROVE ClaimInv'
    <3>1. /\ crun[c] \in Runs /\ UNCHANGED <<pc, run, cancels>>
          /\ SaveRun(crun[c], "CANCELLED") \/ store' = store
      BY <2>6 DEF CancelSave, slotv, ctxv
    <3>2. \A q \in Runs : store'[q] = store[q] \/ store'[q] = "CANCELLED"
      BY <3>1, SaveEffect DEF Terminal
    <3> QED
      BY <3>1, <3>2 DEF Claimed, Registered, Unjudged
  <2>7. CASE Signal \/ GraceElapses \/ Shutdown \/ Drained \/ UNCHANGED vars
    BY <2>7 DEF Signal, GraceElapses, Shutdown, Drained, vars, ctxv, slotv,
                disk, Claimed, Registered, Unjudged
  <2>8. CASE Crash \/ Restart
    BY <2>8 DEF Crash, Restart, Volatile, Claimed, Registered, Unjudged
  <2> QED
    BY <2>1, <2>2, <2>3, <2>4, <2>5, <2>6, <2>7, <2>8 DEF Next, CancelStep
<1> QED
  BY <1>1, <1>2, TypeInvariance, PTL DEF Spec

-----------------------------------------------------------------------------

\* Every variable of the run lifecycle keeps its type.
THEOREM TypeCorrect == Spec => []TypeOK
  BY TypeInvariance, PTL DEF TypeInv

\* No two goroutines ever execute the same run: the claim and the saves of the
\* store are enough for that, whatever fails, crashes or is restarted.
THEOREM ExclusiveExecution == Spec => []OneGoroutinePerRun
  BY ClaimInvariance, PTL DEF ClaimInv

\* m.cancels is always the set of the runs in execution.
THEOREM CancelsTrackExecutions == Spec => []CancelsMatchExecutions
<1>1. TypeInv /\ ClaimInv => CancelsMatchExecutions
  BY DEF TypeInv, TypeOK, HolderHasRun, ClaimInv, CancelsAreExecutions,
         CancelsMatchExecutions, Claimed
<1> QED
  BY <1>1, TypeInvariance, ClaimInvariance, PTL

\* A record that says FINISHED, FAILED or TIMED_OUT never changes again.
THEOREM FinalVerdict == Spec => VerdictIsFinal
<1>1. TypeInv /\ ClaimInv /\ [Next]_vars =>
        [\A r \in Runs :
           store[r] \in Terminal \ {"CANCELLED"} => store'[r] = store[r]]_vars
  <2> SUFFICES ASSUME TypeInv, ClaimInv, [Next]_vars, NEW r \in Runs,
                      store[r] \in Terminal \ {"CANCELLED"}
               PROVE  store'[r] = store[r]
    OBVIOUS
  <2> USE DEF TypeInv, TypeOK
  <2>1. CASE store' = store
    BY <2>1
  <2>2. ASSUME NEW q \in Runs, CreateRun(q) PROVE store'[r] = store[r]
    BY <2>2 DEF CreateRun, Terminal
  <2>3. ASSUME NEW s \in Slots, Claim(s) PROVE store'[r] = store[r]
    BY <2>3 DEF Claim, Claimable, OldestQueued, Terminal
  <2>4. ASSUME NEW s \in Slots, SaveStage(s) PROVE store'[r] = store[r]
    <3>1. /\ run[s] \in Runs /\ run[s] # r
          /\ stage[s] \in InProgress \cup Terminal
      BY <2>4 DEF SaveStage, ClaimInv, UnjudgedIsOpen, Unjudged, HolderHasRun,
                  Claimed, Registered, InProgress, Terminal
    <3> QED
      BY <2>4, <3>1, SaveEffect DEF SaveStage
  <2>5. ASSUME NEW s \in Slots, SaveFinished(s) \/ SaveFailed(s)
        PROVE  store'[r] = store[r]
    <3>1. run[s] \in Runs /\ stage[s] \in Terminal
      BY <2>5 DEF SaveFinished, SaveFailed, HolderHasRun, StageFitsPC, Claimed,
                  Registered, Terminal
    <3> QED
      BY <2>5, <3>1, SaveEffect DEF SaveFinished, SaveFailed
  <2>6. ASSUME NEW c \in Cancellers, CancelSave(c) PROVE store'[r] = store[r]
    <3>1. crun[c] \in Runs /\ "CANCELLED" \in Terminal
      BY <2>6 DEF CancelSave, CancelHasRun, Terminal
    <3> QED
      BY <2>6, <3>1, SaveEffect DEF CancelSave
  <2> QED
    BY <2>1, <2>2, <2>3, <2>4, <2>5, <2>6
       DEF Next, HolderStep, CancelStep, Timeout, StartRequest, WorkerPoll,
           ClaimReturnsNothing, Register, Prepare, Enter, Operation,
           OperationFails, StopAfterBenchmark, Recheck, Publish, Panic,
           Recover, Fail, Unwind, Cleanup, Release, CancelGet, CancelContext,
           Signal, GraceElapses, Shutdown, Drained, Crash, Restart, disk, vars
<1> QED
  BY <1>1, TypeInvariance, ClaimInvariance, PTL DEF Spec, VerdictIsFinal

-----------------------------------------------------------------------------

\* Points of execute after its verdict is saved.
Judged == {"publish", "unwind", "cleanup", "release"}

JudgedIsTerminal ==
  \A s \in Slots : pc[s] \in Judged => store[run[s]] \in Terminal

EndInv == ExitedRunIsTerminal /\ JudgedIsTerminal

\* As long as the disk takes its writes, a run whose goroutine is gone has a
\* terminal record.
THEOREM ExitIsTerminal ==
  ASSUME "disk" \notin Faults
  PROVE  Spec => []EndInv
<1> USE DEF EndInv, ExitedRunIsTerminal, JudgedIsTerminal, Exited
<1>1. Init => EndInv
  BY DEF Init, Volatile, Judged
<1>2. TypeInv /\ ClaimInv /\ EndInv /\ [Next]_vars => EndInv'
  <2> SUFFICES ASSUME TypeInv, ClaimInv, EndInv, [Next]_vars PROVE EndInv'
    OBVIOUS
  <2> USE DEF TypeInv, TypeOK, HolderHasRun, CancelHasRun, StageFitsPC,
              ClaimInv, OneGoroutinePerRun, ClaimedIsTaken,
              CancelsAreExecutions
  <2>1. ASSUME NEW r \in Runs, CreateRun(r) \/ Timeout(r) PROVE EndInv'
    BY <2>1 DEF CreateRun, Timeout, slotv, ctxv, disk, Claimed, Registered,
                Judged, Terminal
  <2>2. ASSUME NEW s \in Slots, NEW r \in Runs \cup {NoRun}, StartRequest(s, r)
        PROVE  EndInv'
    BY <2>2 DEF StartRequest, ctxv, disk, Judged
  <2>3. ASSUME NEW s \in Slots, WorkerPoll(s) PROVE EndInv'
    BY <2>3 DEF WorkerPoll, ctxv, disk, Judged
  <2>4. ASSUME NEW s \in Slots, HolderStep(s) \/ Panic(s) PROVE EndInv'
    <3> USE DEF Claimed, Registered, Judged
    <3>1. CASE Claim(s)
      <4>1. PICK r \in Runs : /\ store[r] = "QUEUED"
                              /\ store' = [store EXCEPT ![r] = "BUILDING"]
                              /\ run' = [run EXCEPT ![s] = r]
        BY <3>1 DEF Claim, Claimable, OldestQueued
      <4>2. /\ pc' = [pc EXCEPT ![s] = "register"]
            /\ cancels' = cancels /\ ctx' = ctx
        BY <3>1 DEF Claim, ctxv
      <4> QED
        BY <4>1, <4>2 DEF Terminal
    <3>2. CASE ClaimReturnsNothing(s) \/ Register(s)
      BY <3>2 DEF ClaimReturnsNothing, Register, ctxv, disk
    <3>3. CASE Prepare(s) \/ Panic(s) \/ Recheck(s) \/ Fail(s) \/ Enter(s)
      BY <3>3 DEF Prepare, Panic, Recheck, Fail, Enter, ctxv, disk
    <3>4. CASE Operation(s) \/ OperationFails(s) \/ StopAfterBenchmark(s)
               \/ Recover(s) \/ Unwind(s) \/ Publish(s)
      BY <3>4 DEF Operation, OperationFails, StopAfterBenchmark, Recover,
                  Unwind, Publish, ctxv, disk
    <3>5. CASE SaveStage(s)
      <4>1. /\ run[s] \in Runs /\ stage[s] \in InProgress
            /\ pc[s] = "save" /\ run' = run /\ cancels' = cancels
            /\ ctx' = ctx
            /\ pc' \in {[pc EXCEPT ![s] = x] : x \in {"enter", "op", "fail"}}
            /\ SaveRun(run[s], stage[s]) \/ store' = store
        BY <3>5 DEF SaveStage, ctxv
      <4>2. \A q \in Runs : q # run[s] => store'[q] = store[q]
        BY <4>1, SaveEffect
      <4> QED
        BY <4>1, <4>2
    <3>6. CASE SaveFinished(s) \/ SaveFailed(s)
      <4>1. /\ run[s] \in Runs /\ stage[s] \in Terminal
            /\ pc[s] \in {"finishSave", "failSave"} /\ run' = run
            /\ cancels' = cancels /\ ctx' = ctx
            /\ pc' \in {[pc EXCEPT ![s] = x] : x \in {"publish", "unwind"}}
            /\ SaveRun(run[s], stage[s])
        BY <3>6 DEF SaveFinished, SaveFailed, ctxv, Terminal
      <4>2. /\ store'[run[s]] \in Terminal
            /\ \A q \in Runs : q # run[s] => store'[q] = store[q]
        BY <4>1, SaveEffect
      <4> QED
        BY <4>1, <4>2
    <3>7. CASE Cleanup(s)
      BY <3>7 DEF Cleanup, disk
    <3>8. CASE Release(s)
      BY <3>8 DEF Release, disk, ctxv
    <3> QED
      BY <2>4, <3>1, <3>2, <3>3, <3>4, <3>5, <3>6, <3>7, <3>8 DEF HolderStep
  <2>5. ASSUME NEW c \in Cancellers,
               (\E r \in Runs : CancelGet(c, r)) \/ CancelContext(c)
        PROVE  EndInv'
    BY <2>5 DEF CancelGet, CancelContext, ctxv, slotv, disk, Judged
  <2>6. ASSUME NEW c \in Cancellers, CancelSave(c) PROVE EndInv'
    <3>1. /\ crun[c] \in Runs /\ UNCHANGED <<pc, run, cancels, ctx>>
          /\ SaveRun(crun[c], "CANCELLED")
      BY <2>6 DEF CancelSave, slotv, ctxv
    <3>2. \A q \in Runs : store'[q] = store[q] \/ store'[q] \in Terminal
      BY <3>1, SaveEffect DEF Terminal
    <3> QED
      BY <3>1, <3>2 DEF Judged, Claimed, Registered
  <2>7. CASE Signal \/ GraceElapses \/ Shutdown \/ Drained \/ UNCHANGED vars
    BY <2>7 DEF Signal, GraceElapses, Shutdown, Drained, vars, ctxv, slotv,
                disk, Judged, Claimed, Registered
  <2>8. CASE Crash \/ Restart
    BY <2>8 DEF Crash, Restart, Volatile, Judged
  <2> QED
    BY <2>1, <2>2, <2>3, <2>4, <2>5, <2>6, <2>7, <2>8 DEF Next, CancelStep
<1> QED
  BY <1>1, <1>2, TypeInvariance, ClaimInvariance, PTL DEF Spec

\* The same as a statement about the property itself.
THEOREM ExitedTerminal ==
  ASSUME "disk" \notin Faults
  PROVE  Spec => []ExitedRunIsTerminal
  BY ExitIsTerminal, PTL DEF EndInv

\* ... and that record never changes again, late saves of CancelRun included.
THEOREM ExitedFrozen ==
  ASSUME "disk" \notin Faults
  PROVE  Spec => ExitedRunIsFrozen
<1>1. TypeInv /\ ClaimInv /\ EndInv /\ [Next]_vars =>
        [\A r \in Runs : Exited(r) => store'[r] = store[r]]_vars
  <2> SUFFICES ASSUME TypeInv, ClaimInv, EndInv, [Next]_vars, NEW r \in Runs,
                      Exited(r)
               PROVE  store'[r] = store[r]
    OBVIOUS
  <2> USE DEF TypeInv, TypeOK
  <2>0. store[r] \in Terminal
    BY DEF EndInv, ExitedRunIsTerminal
  <2>1. CASE store' = store
    BY <2>1
  <2>2. ASSUME NEW q \in Runs, CreateRun(q) PROVE store'[r] = store[r]
    BY <2>0, <2>2 DEF CreateRun, Terminal
  <2>3. ASSUME NEW s \in Slots, Claim(s) PROVE store'[r] = store[r]
    BY <2>0, <2>3 DEF Claim, Claimable, OldestQueued, Terminal
  <2>4. ASSUME NEW s \in Slots, SaveStage(s) PROVE store'[r] = store[r]
    <3>1. /\ run[s] \in Runs /\ run[s] # r
          /\ stage[s] \in InProgress \cup Terminal
      BY <2>4 DEF SaveStage, ClaimInv, CancelsAreExecutions, Exited,
                  HolderHasRun, Claimed, Registered
    <3> QED
      BY <2>4, <3>1, SaveEffect DEF SaveStage
  <2>5. ASSUME NEW s \in Slots, SaveFinished(s) \/ SaveFailed(s)
        PROVE  store'[r] = store[r]
    <3>1. run[s] \in Runs /\ stage[s] \in Terminal
      BY <2>5 DEF SaveFinished, SaveFailed, HolderHasRun, StageFitsPC, Claimed,
                  Registered, Terminal
    <3> QED
      BY <2>0, <2>5, <3>1, SaveEffect DEF SaveFinished, SaveFailed
  <2>6. ASSUME NEW c \in Cancellers, CancelSave(c) PROVE store'[r] = store[r]
    <3>1. crun[c] \in Runs /\ "CANCELLED" \in Terminal
      BY <2>6 DEF CancelSave, CancelHasRun, Terminal
    <3> QED
      BY <2>0, <2>6, <3>1, SaveEffect DEF CancelSave
  <2> QED
    BY <2>1, <2>2, <2>3, <2>4, <2>5, <2>6
       DEF Next, HolderStep, CancelStep, Timeout, StartRequest, WorkerPoll,
           ClaimReturnsNothing, Register, Prepare, Enter, Operation,
           OperationFails, StopAfterBenchmark, Recheck, Publish, Panic,
           Recover, Fail, Unwind, Cleanup, Release, CancelGet, CancelContext,
           Signal, GraceElapses, Shutdown, Drained, Crash, Restart, disk, vars
<1> QED
  BY <1>1, TypeInvariance, ClaimInvariance, ExitIsTerminal, PTL
     DEF Spec, ExitedRunIsFrozen

-----------------------------------------------------------------------------

\* Points of execute at which no failure of the run has been saved.
Unfailed == Unjudged \cup {"publish", "panicked", "fail", "failSave"}

Agreed(r) == spec[r] = store[r] \/ store[r] \in {"CANCELLED", "FINISHED"}

\* Until its failure is saved the record shows a stage, a cancel request's verdict,
\* or FINISHED when execute panicked after that save; then the file and the record
\* get the same verdict, and nobody writes either again.
AgreeInv ==
  /\ \A s \in Slots :
       /\ pc[s] \in Unfailed => store[run[s]] \in InProgress \cup {"CANCELLED", "FINISHED"}
       /\ pc[s] = "failSave" => spec[run[s]] = stage[s]
       /\ pc[s] \in Judged => Agreed(run[s])
  /\ \A r \in Runs : Exited(r) => Agreed(r)

\* manager.go: when the disk takes its writes, run_spec.json and the index of a run
\* whose goroutine is gone disagree only where a cancel won or execute panicked
\* after FINISHED; every failure and timeout on record is in both.
THEOREM VerdictsAgree ==
  ASSUME "disk" \notin Faults
  PROVE  Spec => []ArtifactVerdictAgrees
<1> USE DEF AgreeInv, Agreed, Exited, Unfailed
<1>1. Init => AgreeInv
  BY DEF Init, Volatile, Judged, Unjudged
<1>2. TypeInv /\ ClaimInv /\ EndInv /\ AgreeInv /\ [Next]_vars => AgreeInv'
  <2> SUFFICES ASSUME TypeInv, ClaimInv, EndInv, AgreeInv, [Next]_vars PROVE AgreeInv'
    OBVIOUS
  <2> USE DEF TypeInv, TypeOK, HolderHasRun, CancelHasRun, StageFitsPC,
              ClaimInv, OneGoroutinePerRun, ClaimedIsTaken, CancelsAreExecutions,
              EndInv, ExitedRunIsTerminal, JudgedIsTerminal
  <2>1. ASSUME NEW r \in Runs, CreateRun(r) \/ Timeout(r) PROVE AgreeInv'
    BY <2>1 DEF CreateRun, Timeout, slotv, ctxv, disk, Claimed, Registered, Judged,
                Unjudged, Terminal
  <2>2. ASSUME NEW s \in Slots, NEW r \in Runs \cup {NoRun}, StartRequest(s, r)
        PROVE  AgreeInv'
    BY <2>2 DEF StartRequest, ctxv, disk, Judged, Unjudged
  <2>3. ASSUME NEW s \in Slots, WorkerPoll(s) PROVE AgreeInv'
    BY <2>3 DEF WorkerPoll, ctxv, disk, Judged, Unjudged
  <2>4. ASSUME NEW s \in Slots, HolderStep(s) \/ Panic(s) PROVE AgreeInv'
    <3> USE DEF Claimed, Registered, Judged, Unjudged
    <3>1. CASE Claim(s)
      <4>1. PICK r \in Runs : /\ store[r] = "QUEUED"
                              /\ store' = [store EXCEPT ![r] = "BUILDING"]
                              /\ run' = [run EXCEPT ![s] = r]
        BY <3>1 DEF Claim, Claimable, OldestQueued
      <4>2. /\ pc' = [pc EXCEPT ![s] = "register"]
            /\ UNCHANGED <<cancels, ctx, spec, stage>>
        BY <3>1 DEF Claim, ctxv
      <4>3. \A t \in Slots : pc[t] \in Claimed => run[t] # r
        BY <4>1
      <4> QED
        BY <4>1, <4>2, <4>3 DEF Terminal, InProgress
    <3>2. CASE ClaimReturnsNothing(s) \/ Register(s)
      BY <3>2 DEF ClaimReturnsNothing, Register, ctxv, disk
    <3>3. CASE Prepare(s) \/ Panic(s) \/ OperationFails(s)
      BY <3>3 DEF Prepare, Panic, OperationFails, ctxv, disk
    <3>4. CASE Enter(s) \/ Recheck(s)
      <4>1. /\ pc[s] \in {"enter", "recheck"} /\ run[s] \in Runs
            /\ UNCHANGED <<store, run, cancels, ctx>>
            /\ pc' \in {[pc EXCEPT ![s] = x] : x \in {"save", "finishSave", "fail"}}
            /\ \A t \in Slots : t # s => stage'[t] = stage[t]
            /\ \A r \in Runs : r # run[s] => spec'[r] = spec[r]
        BY <3>4 DEF Enter, Recheck, ctxv
      <4> QED
        BY <4>1
    <3>5. CASE Fail(s)
      <4>1. /\ pc[s] = "fail" /\ run[s] \in Runs
            /\ UNCHANGED <<store, run, cancels, ctx>>
            /\ pc' = [pc EXCEPT ![s] = "failSave"]
            /\ \A t \in Slots : t # s => stage'[t] = stage[t]
            /\ \A r \in Runs : r # run[s] => spec'[r] = spec[r]
            /\ spec'[run[s]] = stage'[s]
        BY <3>5 DEF Fail, ctxv
      <4> QED
        BY <4>1
    <3>6. CASE Operation(s) \/ StopAfterBenchmark(s) \/ Recover(s)
      <4>1. /\ pc[s] \in {"op", "stop", "panicked"} /\ run[s] \in Runs
            /\ UNCHANGED <<store, spec, run, cancels, ctx>>
            /\ pc' \in {[pc EXCEPT ![s] = x] : x \in {"stop", "recheck", "enter", "fail"}}
            /\ \A t \in Slots : t # s => stage'[t] = stage[t]
        BY <3>6 DEF Operation, StopAfterBenchmark, Recover, ctxv
      <4> QED
        BY <4>1
    <3>7. CASE Unwind(s) \/ Publish(s)
      BY <3>7 DEF Unwind, Publish, ctxv
    <3>8. CASE SaveStage(s)
      <4>1. /\ run[s] \in Runs /\ stage[s] \in InProgress
            /\ pc[s] = "save" /\ UNCHANGED <<run, cancels, ctx, spec>>
            /\ pc' \in {[pc EXCEPT ![s] = x] : x \in {"enter", "op", "fail"}}
            /\ \A t \in Slots : t # s => stage'[t] = stage[t]
            /\ SaveRun(run[s], stage[s]) \/ store' = store
        BY <3>8 DEF SaveStage, ctxv
      <4>2. \A q \in Runs : \/ store'[q] = store[q]
                            \/ q = run[s] /\ store'[q] \in InProgress
        BY <4>1, SaveEffect
      <4> QED
        BY <4>1, <4>2
    <3>9. CASE SaveFinished(s)
      <4>1. /\ run[s] \in Runs /\ stage[s] = "FINISHED" /\ stage[s] \in Terminal
            /\ pc[s] = "finishSave" /\ UNCHANGED <<run, cancels, ctx, spec, stage>>
            /\ pc' = [pc EXCEPT ![s] = "publish"]
            /\ SaveRun(run[s], stage[s])
        BY <3>9 DEF SaveFinished, ctxv, Terminal
      <4>2. /\ store[run[s]] \in InProgress \cup {"CANCELLED"}
            /\ store[run[s]] \in InProgress => store[run[s]] \notin Terminal
        BY <4>1 DEF UnjudgedIsOpen, InProgress, Terminal
      <4>3. /\ store'[run[s]] \in {"FINISHED", "CANCELLED"}
            /\ \A q \in Runs : q # run[s] => store'[q] = store[q]
        BY <4>1, <4>2, SaveEffect
      <4> QED
        BY <4>1, <4>3
    <3>10. CASE SaveFailed(s)
      <4>1. /\ run[s] \in Runs /\ stage[s] \in Terminal /\ spec[run[s]] = stage[s]
            /\ pc[s] = "failSave" /\ UNCHANGED <<run, cancels, ctx, spec, stage>>
            /\ pc' = [pc EXCEPT ![s] = "unwind"]
            /\ SaveRun(run[s], stage[s])
        BY <3>10 DEF SaveFailed, ctxv, Terminal
      <4>2. /\ store[run[s]] \in InProgress \cup {"CANCELLED", "FINISHED"}
            /\ store[run[s]] \in InProgress => store[run[s]] \notin Terminal
        BY <4>1 DEF InProgress, Terminal
      <4>3. /\ store'[run[s]] \in {stage[s], "FINISHED", "CANCELLED"}
            /\ \A q \in Runs : q # run[s] => store'[q] = store[q]
        BY <4>1, <4>2, SaveEffect
      <4> QED
        BY <4>1, <4>3
    <3>11. CASE Cleanup(s)
      BY <3>11 DEF Cleanup, disk
    <3>12. CASE Release(s)
      BY <3>12 DEF Release, disk, ctxv
    <3> QED
      BY <2>4, <3>1, <3>2, <3>3, <3>4, <3>5, <3>6, <3>7, <3>8, <3>9, <3>10, <3>11,
         <3>12 DEF HolderStep
  <2>5. ASSUME NEW c \in Cancellers,
               (\E r \in Runs : CancelGet(c, r)) \/ CancelContext(c)
        PROVE  AgreeInv'
    BY <2>5 DEF CancelGet, CancelContext, ctxv, slotv, disk, Judged, Unjudged
  <2>6. ASSUME NEW c \in Cancellers, CancelSave(c) PROVE AgreeInv'
    <3>1. /\ crun[c] \in Runs /\ UNCHANGED <<pc, run, stage, cancels, ctx, spec>>
          /\ SaveRun(crun[c], "CANCELLED")
      BY <2>6 DEF CancelSave, slotv, ctxv
    <3>2. \A q \in Runs : store'[q] = store[q] \/ store'[q] = "CANCELLED"
      BY <3>1, SaveEffect DEF Terminal
    <3> QED
      BY <3>1, <3>2 DEF Judged, Unjudged, Claimed, Registered
  <2>7. CASE Signal \/ GraceElapses \/ Shutdown \/ Drained \/ UNCHANGED vars
    BY <2>7 DEF Signal, GraceElapses, Shutdown, Drained, vars, ctxv, slotv,
                disk, Judged, Unjudged, Claimed, Registered
  <2>8. CASE Crash \/ Restart
    BY <2>8 DEF Crash, Restart, Volatile, Judged, Unjudged
  <2> QED
    BY <2>1, <2>2, <2>3, <2>4, <2>5, <2>6, <2>7, <2>8 DEF Next, CancelStep
<1>3. AgreeInv => ArtifactVerdictAgrees
  BY DEF ArtifactVerdictAgrees
<1> QED
  BY <1>1, <1>2, <1>3, TypeInvariance, ClaimInvariance, ExitIsTerminal, PTL DEF Spec

-----------------------------------------------------------------------------

\* A registered stopEngine is called before the goroutine ends.
HandleInExecution ==
  \A s \in Slots : handle[s] =>
    pc[s] \in Registered \ {"prepare", "cleanup"}

EngineInv == EngineIsStoppable /\ HandleInExecution /\ phase = "up"

\* In a process that is not stopped, and as long as stop calls succeed, no exit
\* path of execute leaves an engine behind that it holds the handle of.
THEOREM EngineConfinement ==
  ASSUME Faults \cap {"sandbox", "signal", "crash"} = {}
  PROVE  Spec => []EngineIsStoppable
<1> USE DEF EngineInv, EngineIsStoppable, HandleInExecution
<1>1. Init => EngineInv
  BY DEF Init, Volatile
<1>2. TypeInv /\ EngineInv /\ [Next]_vars => EngineInv'
  <2> SUFFICES ASSUME TypeInv, EngineInv, [Next]_vars PROVE EngineInv'
    OBVIOUS
  <2> USE DEF TypeInv, TypeOK, Registered
  <2>1. ASSUME NEW r \in Runs, CreateRun(r) \/ Timeout(r) PROVE EngineInv'
    BY <2>1 DEF CreateRun, Timeout, slotv, procv, disk
  <2>2. ASSUME NEW s \in Slots, NEW r \in Runs \cup {NoRun}, StartRequest(s, r)
        PROVE  EngineInv'
    BY <2>2 DEF StartRequest, procv, disk
  <2>3. ASSUME NEW s \in Slots, WorkerPoll(s) PROVE EngineInv'
    BY <2>3 DEF WorkerPoll, procv, disk
  <2>4. ASSUME NEW s \in Slots, HolderStep(s) \/ Panic(s) PROVE EngineInv'
    <3>1. CASE Claim(s) \/ ClaimReturnsNothing(s) \/ Register(s)
      BY <3>1 DEF Claim, ClaimReturnsNothing, Register, procv, disk
    <3>2. CASE Prepare(s) \/ Panic(s) \/ Recheck(s) \/ Fail(s) \/ Enter(s)
      BY <3>2 DEF Prepare, Panic, Recheck, Fail, Enter, procv, disk
    <3>3. CASE SaveStage(s) \/ SaveFinished(s) \/ SaveFailed(s) \/ Publish(s)
      BY <3>3 DEF SaveStage, SaveFinished, SaveFailed, Publish, procv
    <3>4. CASE Operation(s)
      BY <3>4 DEF Operation, procv
    <3>5. CASE OperationFails(s)
      BY <3>5 DEF OperationFails, procv
    <3>6. CASE StopAfterBenchmark(s) \/ Recover(s) \/ Unwind(s)
      BY <3>6 DEF StopAfterBenchmark, Recover, Unwind, StopEngine, procv
    <3>7. CASE Cleanup(s) \/ Release(s)
      BY <3>7 DEF Cleanup, Release, procv, disk
    <3> QED
      BY <2>4, <3>1, <3>2, <3>3, <3>4, <3>5, <3>6, <3>7 DEF HolderStep
  <2>5. ASSUME NEW c \in Cancellers,
               (\E r \in Runs : CancelGet(c, r)) \/ CancelStep(c)
        PROVE  EngineInv'
    BY <2>5 DEF CancelGet, CancelStep, CancelContext, CancelSave, slotv, procv,
                disk
  <2>6. ~(Signal \/ GraceElapses \/ Shutdown \/ Drained \/ Crash \/ Restart)
    BY DEF Signal, GraceElapses, Shutdown, Drained, Crash, Restart
  <2>7. CASE UNCHANGED vars
    BY <2>7 DEF vars, disk, slotv, procv
  <2> QED
    BY <2>1, <2>2, <2>3, <2>4, <2>5, <2>6, <2>7 DEF Next
<1> QED
  BY <1>1, <1>2, TypeInvariance, PTL DEF Spec

-----------------------------------------------------------------------------

\* What Shutdown has cancelled has had a context, as all that is registered, and
\* is not registered any more when the process exits in time.
DrainInv ==
  /\ \A r \in cancels : ctx[r] # "none"
  /\ \A r \in swept : ctx[r] # "none"
  /\ phase = "exited" /\ ~grace => cancels \cap swept = {}

\* Entries leave m.cancels one by one while the process is alive, and none enters
\* it afterwards.
THEOREM DrainInvariance == Spec => []DrainInv
<1> USE DEF DrainInv
<1>1. Init => DrainInv
  BY DEF Init, Volatile
<1>2. TypeInv /\ DrainInv /\ [Next]_vars => DrainInv'
  <2> SUFFICES ASSUME TypeInv, DrainInv, [Next]_vars PROVE DrainInv'
    OBVIOUS
  <2> USE DEF TypeInv, TypeOK
  <2>1. CASE UNCHANGED <<ctxv, procv>>
    BY <2>1 DEF ctxv, procv
  <2>2. ASSUME NEW s \in Slots, Register(s) \/ Cleanup(s) PROVE DrainInv'
    <3>1. phase # "exited" /\ UNCHANGED procv /\ run[s] \in Runs
      BY <2>2 DEF Register, Cleanup, HolderHasRun, Claimed, Registered
    <3>2. /\ ctx' \in {[ctx EXCEPT ![run[s]] = x] : x \in {"live", Ended(ctx[run[s]])}}
          /\ cancels' \in {cancels \cup {run[s]}, cancels \ {run[s]}}
          /\ run[s] \in cancels' => ctx'[run[s]] = "live"
          /\ Ended(ctx[run[s]]) = "none" => ctx[run[s]] = "none"
      BY <2>2, <3>1 DEF Register, Cleanup, Ended
    <3> QED
      BY <3>1, <3>2 DEF procv
  <2>3. ASSUME NEW r \in Runs, Timeout(r) PROVE DrainInv'
    BY <2>3 DEF Timeout, procv
  <2>4. ASSUME NEW c \in Cancellers, CancelContext(c) PROVE DrainInv'
    BY <2>4 DEF CancelContext, CancelHasRun, Ended, procv
  <2>5. CASE Signal \/ GraceElapses \/ Drained
    BY <2>5 DEF Signal, GraceElapses, Drained, ctxv
  <2>6. CASE Shutdown
    BY <2>6 DEF Shutdown, Ended
  <2>7. CASE Crash \/ Restart
    BY <2>7 DEF Crash, Restart, Volatile
  <2>8. ASSUME NEW s \in Slots, HolderStep(s) \/ Panic(s) PROVE DrainInv'
    <3>1. CASE Register(s) \/ Cleanup(s)
      BY <2>2, <3>1
    <3>2. CASE ~(Register(s) \/ Cleanup(s))
      <4>1. UNCHANGED <<ctxv, procv>>
        BY <2>8, <3>2 DEF HolderStep, Panic, Claim, ClaimReturnsNothing, Prepare,
             Enter, SaveStage, Operation, OperationFails, StopAfterBenchmark,
             Recheck, SaveFinished, Publish, Recover, Fail, SaveFailed, Unwind,
             Release
      <4> QED
        BY <2>1, <4>1
    <3> QED
      BY <3>1, <3>2
  <2>9. CASE \/ \E r \in Runs : CreateRun(r)
             \/ \E s \in Slots : \/ \E r \in Runs \cup {NoRun} : StartRequest(s, r)
                                 \/ WorkerPoll(s)
             \/ \E c \in Cancellers : CancelSave(c) \/ \E r \in Runs : CancelGet(c, r)
             \/ UNCHANGED vars
    <3>1. UNCHANGED <<ctxv, procv>>
      BY <2>9 DEF CreateRun, StartRequest, WorkerPoll, CancelSave, CancelGet, vars
    <3> QED
      BY <2>1, <3>1
  <2> QED
    BY <2>3, <2>4, <2>5, <2>6, <2>7, <2>8, <2>9 DEF Next, CancelStep
<1> QED
  BY <1>1, <1>2, TypeInvariance, PTL DEF Spec

\* An exit before the deadline comes after the cleanup of every goroutine that
\* Shutdown cancelled, under every fault.
THEOREM DrainWaits == Spec => []DrainWaitsForSwept
<1>1. TypeInv /\ ClaimInv /\ DrainInv => DrainWaitsForSwept
  BY DEF TypeInv, HolderHasRun, ClaimInv, CancelsAreExecutions, DrainInv,
         DrainWaitsForSwept, Claimed
<1> QED
  BY <1>1, TypeInvariance, ClaimInvariance, DrainInvariance, PTL

\* ... so that, while the disk takes its writes, their records are terminal.
THEOREM SweptTerminal ==
  ASSUME "disk" \notin Faults
  PROVE  Spec => []SweptRunsEndTerminal
<1>1. TypeInv /\ EndInv /\ DrainInv => SweptRunsEndTerminal
  BY DEF TypeInv, TypeOK, EndInv, ExitedRunIsTerminal, Exited, DrainInv,
         SweptRunsEndTerminal
<1> QED
  BY <1>1, TypeInvariance, ExitIsTerminal, DrainInvariance, PTL
=============================================================================
