------------------------- MODULE ControlPanelProofs --------------------------
(***************************************************************************)
(* Proofs about ControlPanel, for any number of runs, slots and concurrent *)
(* cancel requests, and for every set of faults.                           *)
(***************************************************************************)
EXTENDS ControlPanel, FiniteSetTheorems, TLAPS

PC == Creating \cup Registered \cup {"none", "done"}

\* m.cancels lists a run from launch to exit.
CancelsInv(r) == r \in cancels <=> pc[r] \in Registered

\* execute's status is a stage, then a verdict.
StageInv(r) ==
  /\ pc[r] \in {"none", "save", "spec", "op", "recheck"} \cup Creating
       => stage[r] \in Stages
  /\ pc[r] \in {"finish", "lastSpec"} => stage[r] \in Terminal

\* Until the goroutine saves its verdict the record has none, save CANCELLED;
\* from then on it is terminal.
AfterVerdict == {"lastSpec", "unwind", "exit", "done"}

RecordInv(r) ==
  /\ pc[r] \in {"none", "queue"} => store[r] = "ABSENT"
  /\ pc[r] \notin AfterVerdict => store[r] \notin {"FINISHED", "FAILED"}
  /\ pc[r] \in AfterVerdict => r \in hit \/ store[r] \in Terminal

\* An engine that is up will be stopped: its cleanup is deferred, or about to be.
EngineInv(r) ==
  /\ handle[r] => pc[r] \in Registered \ {"exit"}
  /\ engine[r] = "up" /\ r \notin hit =>
       \/ handle[r]
       \/ pc[r] \in {"save", "spec"} /\ stage[r] = "HEALTHCHECKING"

RunInv(r) == CancelsInv(r) /\ StageInv(r) /\ RecordInv(r) /\ EngineInv(r)

\* A run that has a request or a goroutine at work on it holds a token.
ActiveRuns == {r \in Runs : Active(r)}

SlotsInv == sem = Cardinality(ActiveRuns)

\* A CancelRun request is about a run that is on record.
CancelInv ==
  \A c \in Cancellers :
    cpc[c] # "idle" => crun[c] \in Runs /\ store[crun[c]] # "ABSENT"

\* A drain within its grace period starts after the handlers, and ends after the
\* goroutines.
DrainInv ==
  ~grace => /\ phase = "draining" => \A r \in Runs : pc[r] \notin Creating
            /\ phase = "exited" => \A r \in Runs : ~Active(r)

Inv ==
  /\ TypeOK /\ SlotsInv /\ CancelInv /\ DrainInv
  /\ \A r \in Runs : RunInv(r)

-----------------------------------------------------------------------------
(* Counting slots.                                                          *)

\* Tokens are counted by a natural number.
LEMMA ActiveFinite == IsFiniteSet(ActiveRuns) /\ Cardinality(ActiveRuns) \in Nat
<1>1. IsFiniteSet(ActiveRuns)
  BY PanelRunsAssumption, FS_Subset DEF ActiveRuns
<1> QED
  BY <1>1, FS_CardinalityType

\* A step that changes the control point of one run takes a token, gives one
\* back or does neither.
LEMMA ActiveRunsStep ==
  ASSUME SlotsInv, NEW r \in Runs, \A q \in Runs : q # r => pc'[q] = pc[q]
  PROVE  /\ (Active(r)' <=> Active(r)) => Cardinality(ActiveRuns') = sem
         /\ Active(r)' /\ ~Active(r) => Cardinality(ActiveRuns') = sem + 1
         /\ ~Active(r)' /\ Active(r) => /\ sem \in Nat \ {0}
                                        /\ Cardinality(ActiveRuns') = sem - 1
<1>1. \A q \in Runs : q # r => (Active(q)' <=> Active(q))
  BY DEF Active
<1>2. ASSUME Active(r)' <=> Active(r) PROVE ActiveRuns' = ActiveRuns
  BY <1>1, <1>2 DEF ActiveRuns
<1>3. ASSUME Active(r)', ~Active(r)
      PROVE  ActiveRuns' = ActiveRuns \cup {r} /\ r \notin ActiveRuns
  BY <1>1, <1>3 DEF ActiveRuns
<1>4. ASSUME ~Active(r)', Active(r)
      PROVE  ActiveRuns' = ActiveRuns \ {r} /\ r \in ActiveRuns
  BY <1>1, <1>4 DEF ActiveRuns
<1>5. IsFiniteSet(ActiveRuns) /\ Cardinality(ActiveRuns) \in Nat
  BY ActiveFinite
<1>6. ASSUME r \notin ActiveRuns
      PROVE  Cardinality(ActiveRuns \cup {r}) = Cardinality(ActiveRuns) + 1
  BY <1>5, <1>6, FS_AddElement
<1>7. ASSUME r \in ActiveRuns
      PROVE  /\ Cardinality(ActiveRuns \ {r}) = Cardinality(ActiveRuns) - 1
             /\ Cardinality(ActiveRuns) # 0
  BY <1>5, <1>7, FS_RemoveElement, FS_EmptySet
<1> QED
  BY <1>2, <1>3, <1>4, <1>5, <1>6, <1>7 DEF SlotsInv

-----------------------------------------------------------------------------
(* The steps of a run.                                                      *)

\* Everything of TypeOK but the bound on the tokens.
Types ==
  /\ store \in [Runs -> Status] /\ spec \in [Runs -> Status]
  /\ engine \in [Runs -> {"down", "up"}]
  /\ cancels \in SUBSET Runs
  /\ ctx \in [Runs -> {"none", "live", "canceled"}]
  /\ pc \in [Runs -> PC]
  /\ stage \in [Runs -> Stages \cup Terminal]
  /\ handle \in [Runs -> BOOLEAN]
  /\ cpc \in [Cancellers -> {"idle", "lookup", "save"}]
  /\ crun \in [Cancellers -> Runs \cup {NoRun}]
  /\ phase \in {"up", "http", "draining", "exited"}
  /\ grace \in BOOLEAN
  /\ hit \in SUBSET Runs

\* The bound on sem is the part of the type that steps have to earn.
LEMMA TypeOKSplit == TypeOK <=> Types /\ sem \in 0..Cap
  BY DEF TypeOK, Types, PC

\* A stage is followed by a stage, and saved under a status of the store.
LEMMA StageTypes ==
  \A st \in Stages : NextStage[st] \in Stages /\ StatusOf(st) \in Status \ Terminal
                     /\ StatusOf(st) # "ABSENT"
  BY DEF Stages, NextStage, StatusOf, Status, Terminal

\* What TerminalGuard lets through.
LEMMA GuardTypes ==
  \A old, new \in Status :
    /\ TerminalGuard(old, new) \in Status
    /\ new \notin Terminal => TerminalGuard(old, new) = new
    /\ new \in Terminal => TerminalGuard(old, new) \in Terminal
    /\ old \in Terminal /\ new \in Terminal => TerminalGuard(old, new) = old
    /\ old \notin Terminal => TerminalGuard(old, new) = new
  BY DEF TerminalGuard

Rest(r) ==
  /\ UNCHANGED <<cpc, crun, phase, grace>>
  /\ \A q \in Runs : q # r =>
       /\ pc'[q] = pc[q] /\ stage'[q] = stage[q] /\ handle'[q] = handle[q]
       /\ store'[q] = store[q] /\ engine'[q] = engine[q]
       /\ q \in cancels' <=> q \in cancels
       /\ q \in hit' <=> q \in hit

\* The steps of CreateRun and execute are about one run.
LEMMA RunStepRest ==
  ASSUME Types, NEW r \in Runs, CreateRun(r) \/ RunStep(r)
  PROVE  Rest(r)
<1> USE DEF Types, filev, runv, cancelv, procv, Goto, Save, WriteSpec, Written,
            WriteFails, Rest
<1>1. CASE CreateRun(r) \/ Launch(r) \/ Exit(r)
  BY <1>1 DEF CreateRun, Launch, Exit
<1>2. CASE QueueRun(r)
  BY <1>2 DEF QueueRun, Rejected
<1>3. CASE WriteQueued(r)
  BY <1>3 DEF WriteQueued, Rejected
<1>4. CASE SaveStage(r)
  BY <1>4 DEF SaveStage
<1>5. CASE WriteStage(r)
  BY <1>5 DEF WriteStage
<1>6. CASE Operation(r)
  BY <1>6 DEF Operation
<1>7. CASE OperationFails(r) \/ Recheck(r) \/ Fail(r)
  BY <1>7 DEF OperationFails, Recheck, Fail
<1>8. CASE SaveVerdict(r)
  BY <1>8 DEF SaveVerdict
<1>9. CASE WriteVerdict(r)
  BY <1>9 DEF WriteVerdict
<1>10. CASE Unwind(r)
  BY <1>10 DEF Unwind
<1> QED
  BY <1>1, <1>2, <1>3, <1>4, <1>5, <1>6, <1>7, <1>8, <1>9, <1>10 DEF RunStep

\* They keep the types.
LEMMA RunStepTypes ==
  ASSUME Types, NEW r \in Runs, RunInv(r), CreateRun(r) \/ RunStep(r)
  PROVE  Types'
<1> USE DEF filev, runv, cancelv, procv, At, Goto, Save, WriteSpec, Written,
            WriteFails, RunInv, StageInv, PC, Creating, Registered
<1>0. store[r] \in Status /\ spec[r] \in Status /\ pc[r] \in PC
      /\ stage[r] \in Stages \cup Terminal /\ "QUEUED" \in Status
  BY DEF Types, Status
<1>1. CASE CreateRun(r)
  BY <1>1 DEF CreateRun, Types
<1>2. CASE Launch(r) \/ Exit(r)
  BY <1>2 DEF Launch, Exit, Types
<1>3. CASE QueueRun(r)
  BY <1>0, <1>3, GuardTypes DEF QueueRun, Rejected, Types
<1>4. CASE WriteQueued(r)
  BY <1>0, <1>4 DEF WriteQueued, Rejected, Types
<1>5. CASE SaveStage(r)
  BY <1>0, <1>5, GuardTypes, StageTypes DEF SaveStage, Types
<1>6. CASE WriteStage(r)
  <2>1. stage[r] \in Stages
    BY <1>6 DEF WriteStage
  <2>2. spec' \in [Runs -> Status]
    BY <1>6, <2>1, StageTypes DEF WriteStage, Types
  <2>3. stage' \in [Runs -> Stages \cup Terminal]
    BY <1>6, <2>1, StageTypes DEF WriteStage, Types
  <2>4. handle' \in [Runs -> BOOLEAN]
    BY <1>6 DEF WriteStage, Types
  <2>5. pc' \in [Runs -> PC]
    BY <1>6 DEF WriteStage, Types
  <2>6. hit' \in SUBSET Runs
    BY <1>6 DEF WriteStage, Types
  <2> QED
    BY <1>6, <2>2, <2>3, <2>4, <2>5, <2>6 DEF WriteStage, Types
<1>7. CASE Operation(r)
  <2>1. NextStage[stage[r]] \in Stages
    BY <1>7, StageTypes DEF Operation
  <2> QED
    BY <1>7, <2>1 DEF Operation, Types
<1>8. CASE OperationFails(r) \/ Recheck(r) \/ Fail(r)
  BY <1>8 DEF OperationFails, Recheck, Fail, Types, Terminal
<1>9. CASE SaveVerdict(r)
  <2>1. stage[r] \in Status /\ stage[r] \in Terminal
    BY <1>9 DEF SaveVerdict, Status
  <2> QED
    BY <1>0, <1>9, <2>1, GuardTypes DEF SaveVerdict, Types
<1>10. CASE WriteVerdict(r)
  <2>1. stage[r] \in Status
    BY <1>10 DEF WriteVerdict, Status
  <2> QED
    BY <1>10, <2>1 DEF WriteVerdict, Types
<1>11. CASE Unwind(r)
  BY <1>11 DEF Unwind, Types
<1> QED
  BY <1>1, <1>2, <1>3, <1>4, <1>5, <1>6, <1>7, <1>8, <1>9, <1>10, <1>11 DEF RunStep

\* A step of a run keeps what the invariant says of the run.
LEMMA RunStepRunInv ==
  ASSUME Types, NEW r \in Runs, RunInv(r), CreateRun(r) \/ RunStep(r)
  PROVE  RunInv(r)'
<1> USE DEF filev, runv, cancelv, procv, At, Goto, Save, WriteSpec, Written,
            WriteFails, Creating, Registered
<1>0. /\ store[r] \in Status /\ pc[r] \in PC /\ stage[r] \in Stages \cup Terminal
      /\ "QUEUED" \in Status
  BY DEF Types, Status
<1>1. CASE CreateRun(r) \/ Launch(r)
  <2>1. /\ \/ pc[r] = "none" /\ pc'[r] = "queue" /\ cancels' = cancels
           \/ pc[r] = "register" /\ pc'[r] = "save" /\ r \in cancels'
        /\ UNCHANGED <<store, engine, stage, handle, hit>>
    BY <1>1 DEF CreateRun, Launch, Types
  <2>2. pc[r] = "register" => stage[r] \in Stages
    BY DEF RunInv, StageInv
  <2> QED
    BY <1>0, <2>1, <2>2 DEF RunInv, CancelsInv, StageInv, RecordInv, AfterVerdict,
                            EngineInv
<1>2. CASE QueueRun(r)
  <2>1. /\ pc[r] = "queue" /\ pc'[r] \in {"queueSpec", "done"}
        /\ pc'[r] = "done" => r \in hit' /\ store'[r] = store[r]
        /\ pc'[r] = "queueSpec" => store'[r] = "QUEUED" /\ hit' = hit
        /\ UNCHANGED <<engine, cancels, stage, handle>>
        /\ hit \subseteq hit'
    BY <1>0, <1>2, GuardTypes DEF QueueRun, Rejected, Types, Terminal
  <2> QED
    BY <1>0, <2>1 DEF RunInv, CancelsInv, StageInv, RecordInv, AfterVerdict, EngineInv
<1>3. CASE WriteQueued(r)
  <2>1. /\ pc[r] = "queueSpec" /\ pc'[r] \in {"register", "done"}
        /\ pc'[r] = "done" => r \in hit'
        /\ UNCHANGED <<store, engine, cancels, stage, handle>>
        /\ hit \subseteq hit'
    BY <1>0, <1>3 DEF WriteQueued, Rejected, Types
  <2> QED
    BY <1>0, <2>1 DEF RunInv, CancelsInv, StageInv, RecordInv, AfterVerdict, EngineInv
<1>5. CASE SaveStage(r)
  <2>1. /\ pc[r] = "save" /\ pc'[r] \in {"spec", "fail"}
        /\ pc'[r] = "fail" => r \in hit' /\ store'[r] = store[r]
        /\ UNCHANGED <<engine, cancels, stage, handle>>
        /\ hit \subseteq hit'
    BY <1>0, <1>5 DEF SaveStage, Types
  <2>2. pc'[r] = "spec" => store'[r] \notin Terminal
    <3>1. stage[r] \in Stages
      BY <2>1 DEF RunInv, StageInv
    <3>2. StatusOf(stage[r]) \in Status \ Terminal
      BY <3>1, StageTypes
    <3> QED
      BY <1>0, <1>5, <3>2, GuardTypes DEF SaveStage, Types
  <2> QED
    BY <1>0, <2>1, <2>2 DEF RunInv, CancelsInv, StageInv, RecordInv, AfterVerdict,
                            EngineInv, Terminal
<1>6. CASE WriteStage(r)
  <2>1. /\ pc[r] = "spec" /\ stage[r] \in Stages
        /\ \/ pc'[r] = "fail" /\ r \in hit' /\ UNCHANGED <<stage, handle>>
           \/ /\ pc'[r] \in {"op", "save"} /\ stage'[r] \in Stages
              /\ handle'[r] = (handle[r] \/ stage[r] = "HEALTHCHECKING")
        /\ UNCHANGED <<store, engine, cancels>>
        /\ hit \subseteq hit'
    BY <1>0, <1>6, StageTypes DEF WriteStage, Types, RunInv, StageInv
  <2> QED
    BY <1>0, <2>1 DEF RunInv, CancelsInv, StageInv, RecordInv, AfterVerdict, EngineInv
<1>7. CASE Operation(r)
  <2>1. /\ pc[r] = "op" /\ stage[r] \in Stages
        /\ pc'[r] \in {"save", "recheck"} /\ stage'[r] \in Stages
        /\ UNCHANGED <<store, cancels, handle, hit>>
    BY <1>0, <1>7, StageTypes DEF Operation, Types, RunInv, StageInv
  <2>2. \/ engine'[r] = engine[r]
        \/ pc'[r] = "save" /\ stage'[r] = "HEALTHCHECKING"
    BY <1>7 DEF Operation, Types, NextStage
  <2> QED
    BY <1>0, <2>1, <2>2 DEF RunInv, CancelsInv, StageInv, RecordInv, AfterVerdict,
                            EngineInv
<1>8. CASE OperationFails(r) \/ Recheck(r) \/ Fail(r)
  <2>1. /\ pc[r] \in {"op", "recheck", "fail"} /\ pc'[r] \in {"fail", "finish"}
        /\ pc'[r] = "finish" => stage'[r] \in Terminal
        /\ UNCHANGED <<store, engine, cancels, handle, hit>>
    BY <1>0, <1>8 DEF OperationFails, Recheck, Fail, Types, Terminal
  <2> QED
    BY <1>0, <2>1 DEF RunInv, CancelsInv, StageInv, RecordInv, AfterVerdict, EngineInv
<1>9. CASE SaveVerdict(r)
  <2>1. /\ pc[r] = "finish" /\ pc'[r] = "lastSpec" /\ stage[r] \in Terminal
        /\ UNCHANGED <<engine, cancels, stage, handle>>
        /\ hit \subseteq hit'
    BY <1>0, <1>9 DEF SaveVerdict, Types, RunInv, StageInv
  <2>2. r \in hit' \/ store'[r] \in Terminal
    <3>1. stage[r] \in Status
      BY <2>1 DEF Status
    <3>2. TerminalGuard(store[r], stage[r]) \in Terminal
      BY <1>0, <2>1, <3>1, GuardTypes
    <3> QED
      BY <1>9, <3>2 DEF SaveVerdict, Types
  <2> QED
    BY <1>0, <2>1, <2>2 DEF RunInv, CancelsInv, StageInv, RecordInv, AfterVerdict,
                            EngineInv
<1>10. CASE WriteVerdict(r)
  <2>1. /\ pc[r] = "lastSpec" /\ pc'[r] = "unwind"
        /\ UNCHANGED <<store, engine, cancels, stage, handle>>
        /\ hit \subseteq hit'
    BY <1>0, <1>10 DEF WriteVerdict, Types
  <2> QED
    BY <1>0, <2>1 DEF RunInv, CancelsInv, StageInv, RecordInv, AfterVerdict, EngineInv
<1>11. CASE Unwind(r)
  <2>1. /\ pc[r] = "unwind" /\ pc'[r] = "exit" /\ ~handle'[r]
        /\ handle[r] => engine'[r] = "down"
        /\ ~handle[r] => engine'[r] = engine[r]
        /\ UNCHANGED <<store, cancels, stage, hit>>
    BY <1>0, <1>11 DEF Unwind, Types
  <2> QED
    BY <1>0, <2>1 DEF RunInv, CancelsInv, StageInv, RecordInv, AfterVerdict, EngineInv
<1>12. CASE Exit(r)
  <2>1. /\ pc[r] = "exit" /\ pc'[r] = "done" /\ r \notin cancels'
        /\ UNCHANGED <<store, engine, stage, handle, hit>>
    BY <1>0, <1>12 DEF Exit, Types
  <2> QED
    BY <1>0, <2>1 DEF RunInv, CancelsInv, StageInv, RecordInv, AfterVerdict, EngineInv
<1> QED
  BY <1>1, <1>2, <1>3, <1>5, <1>6, <1>7, <1>8, <1>9, <1>10, <1>11, <1>12 DEF RunStep

\* What does not touch a run keeps what the invariant says of it.
LEMMA RunInvFrame ==
  ASSUME NEW q \in Runs, RunInv(q),
         pc'[q] = pc[q], stage'[q] = stage[q], handle'[q] = handle[q],
         store'[q] = store[q], engine'[q] = engine[q],
         q \in cancels' <=> q \in cancels, q \in hit' <=> q \in hit
  PROVE  RunInv(q)'
  BY DEF RunInv, CancelsInv, StageInv, RecordInv, EngineInv

\* The steps of CreateRun and execute keep the invariant.
LEMMA RunStepKeepsInv ==
  ASSUME Inv, NEW r \in Runs, CreateRun(r) \/ RunStep(r)
  PROVE  Inv'
<1>1. Types /\ sem \in 0..Cap /\ RunInv(r)
  BY TypeOKSplit DEF Inv
<1>2. Types' /\ RunInv(r)' /\ Rest(r)
  BY <1>1, RunStepTypes, RunStepRunInv, RunStepRest
<1>3. \A q \in Runs : RunInv(q)'
  BY <1>2, RunInvFrame DEF Inv, Rest
<1>4. SlotsInv' /\ sem' \in 0..Cap
  <2>1. pc[r] \in PC /\ \A q \in Runs : q # r => pc'[q] = pc[q]
    BY <1>1, <1>2 DEF Types, Rest
  <2>2. \/ Active(r)' /\ ~Active(r) /\ sem < Cap /\ sem' = sem + 1
        \/ ~Active(r)' /\ Active(r) /\ sem' = sem - 1
        \/ Active(r)' /\ Active(r) /\ sem' = sem
    <3> USE <1>1, <2>1 DEF Types, Active, PC, Creating, Registered, At, Goto, Rejected
    <3>1. CASE CreateRun(r) \/ QueueRun(r) \/ WriteQueued(r) \/ Launch(r)
      BY <3>1 DEF CreateRun, Reserve, QueueRun, WriteQueued, Launch
    <3>2. CASE SaveStage(r) \/ WriteStage(r) \/ Operation(r) \/ OperationFails(r)
      BY <3>2 DEF SaveStage, WriteStage, Operation, OperationFails
    <3>3. CASE Recheck(r) \/ Fail(r) \/ SaveVerdict(r) \/ WriteVerdict(r)
      BY <3>3 DEF Recheck, Fail, SaveVerdict, WriteVerdict
    <3>4. CASE Unwind(r) \/ Exit(r)
      BY <3>4 DEF Unwind, Exit
    <3> QED
      BY <3>1, <3>2, <3>3, <3>4 DEF RunStep
  <2> QED
    <3>1. /\ (Active(r)' <=> Active(r)) => Cardinality(ActiveRuns') = sem
          /\ Active(r)' /\ ~Active(r) => Cardinality(ActiveRuns') = sem + 1
          /\ ~Active(r)' /\ Active(r) => /\ sem \in Nat \ {0}
                                         /\ Cardinality(ActiveRuns') = sem - 1
      BY <2>1, ActiveRunsStep DEF Inv
    <3> QED
      BY <1>1, <2>2, <3>1, PanelCapAssumption DEF SlotsInv
<1>5. CancelInv'
  <2>1. store[r] # "ABSENT" => store'[r] # "ABSENT"
    <3>1. store[r] \in Status /\ "QUEUED" \in Status /\ "QUEUED" # "ABSENT"
      BY <1>1 DEF Types, Status
    <3>2. CASE QueueRun(r)
      BY <1>1, <3>1, <3>2, GuardTypes DEF QueueRun, Save, Types, Terminal
    <3>3. CASE SaveStage(r)
      <4>1. /\ StatusOf(stage[r]) \in Status \ Terminal
            /\ StatusOf(stage[r]) # "ABSENT"
        BY <1>1, <3>3, StageTypes DEF SaveStage, At, RunInv, StageInv
      <4> QED
        BY <1>1, <3>1, <3>3, <4>1, GuardTypes DEF SaveStage, Save, Types
    <3>4. CASE SaveVerdict(r)
      <4>1. stage[r] \in Status /\ stage[r] \in Terminal
        BY <1>1, <3>4 DEF SaveVerdict, At, RunInv, StageInv, Status
      <4>2. TerminalGuard(store[r], stage[r]) \in Terminal
        BY <3>1, <4>1, GuardTypes
      <4> QED
        BY <1>1, <3>4, <4>2 DEF SaveVerdict, Save, Types, Terminal
    <3>5. CASE UNCHANGED store
      BY <3>5
    <3> QED
      BY <3>2, <3>3, <3>4, <3>5
         DEF RunStep, CreateRun, WriteQueued, Launch, WriteStage, Operation,
             OperationFails, Recheck, Fail, WriteVerdict, Unwind, Exit, filev
  <2>2. \A q \in Runs : store[q] # "ABSENT" => store'[q] # "ABSENT"
    BY <1>2, <2>1 DEF Rest
  <2> QED
    BY <1>2, <2>2 DEF Inv, CancelInv, Rest
<1>6. DrainInv'
  <2>1. phase # "exited"
    BY DEF RunStep, CreateRun, HandlersMayRun, Alive, At, QueueRun, WriteQueued,
           Launch, SaveStage, WriteStage, Operation, OperationFails, Recheck,
           Fail, SaveVerdict, WriteVerdict, Unwind, Exit
  <2>2. ASSUME phase = "draining", ~grace PROVE pc'[r] \notin Creating
    <3>1. pc[r] \notin Creating /\ ~CreateRun(r)
      BY <2>2 DEF Inv, DrainInv, CreateRun, HandlersMayRun
    <3>2. pc'[r] \in Registered \cup {"done"}
      BY <1>1, <3>1
         DEF Types, RunStep, At, Goto, QueueRun, WriteQueued, Launch, SaveStage,
             WriteStage, Operation, OperationFails, Recheck, Fail, SaveVerdict,
             WriteVerdict, Unwind, Exit, Creating, Registered
    <3> QED
      BY <3>2 DEF Creating, Registered
  <2> QED
    BY <1>2, <2>1, <2>2 DEF Inv, DrainInv, Rest
<1>7. TypeOK'
  BY <1>2, <1>4 DEF Types, TypeOK, PC
<1> QED
  BY <1>3, <1>4, <1>5, <1>6, <1>7 DEF Inv

-----------------------------------------------------------------------------
(* Cancellation and shutdown.                                               *)

\* Steps that leave the control points alone keep the tokens in line.
LEMMA SlotsFrame == ASSUME SlotsInv, UNCHANGED <<pc, sem>> PROVE SlotsInv'
<1>1. ActiveRuns' = ActiveRuns
  BY DEF ActiveRuns, Active
<1> QED
  BY <1>1 DEF SlotsInv

\* CancelRun: its save can only be the first verdict of a record, or nothing.
LEMMA CancelKeepsInv ==
  ASSUME Inv, NEW c \in Cancellers, (\E r \in Runs : CancelGet(c, r)) \/ CancelStep(c)
  PROVE  Inv'
<1> USE DEF filev, runv, cancelv, procv
<1>1. UNCHANGED <<spec, engine, sem, cancels, pc, stage, handle, phase, grace>>
  BY DEF CancelGet, CancelStep, CancelContext, CancelSave
<1>2. Types /\ Types'
  <2>1. Types
    BY TypeOKSplit DEF Inv
  <2>2. CASE \E r \in Runs : CancelGet(c, r)
    BY <2>1, <2>2 DEF CancelGet, Types
  <2>3. CASE CancelContext(c)
    BY <2>1, <2>3 DEF CancelContext, Canceled, Types
  <2>4. CASE CancelSave(c)
    <3>1. crun[c] \in Runs /\ "CANCELLED" \in Status
      BY <2>4 DEF CancelSave, Inv, CancelInv, Status, Terminal
    <3> QED
      BY <2>1, <2>4, <3>1, GuardTypes DEF CancelSave, Save, Written, WriteFails, Types
  <2> QED
    BY <2>1, <2>2, <2>3, <2>4 DEF CancelStep
<1>3. \A q \in Runs :
        /\ \/ store'[q] = store[q]
           \/ /\ store[q] # "ABSENT"
              /\ store'[q] \in Terminal
              /\ store'[q] = IF store[q] \in Terminal THEN store[q] ELSE "CANCELLED"
        /\ q \in hit => q \in hit'
  <2>1. CASE (\E r \in Runs : CancelGet(c, r)) \/ CancelContext(c)
    BY <2>1 DEF CancelGet, CancelContext
  <2>2. CASE CancelSave(c)
    <3>1. crun[c] \in Runs /\ store[crun[c]] # "ABSENT"
      BY <2>2 DEF CancelSave, Inv, CancelInv
    <3>2. store[crun[c]] \in Status /\ "CANCELLED" \in Status /\ "CANCELLED" \in Terminal
      BY <1>2, <3>1 DEF Types, Status, Terminal
    <3>3. \/ store' = store
          \/ store' = [store EXCEPT ![crun[c]] =
                         IF @ \in Terminal THEN @ ELSE "CANCELLED"]
      BY <2>2, <3>2, GuardTypes DEF CancelSave, Save
    <3>4. hit \subseteq hit'
      BY <2>2 DEF CancelSave, Written, WriteFails
    <3> QED
      BY <1>2, <3>1, <3>2, <3>3, <3>4 DEF Types
  <2> QED
    BY <2>1, <2>2 DEF CancelStep
<1>4. \A q \in Runs : RunInv(q)'
  <2> SUFFICES ASSUME NEW q \in Runs PROVE RunInv(q)'
    OBVIOUS
  <2>1. RunInv(q)
    BY DEF Inv
  <2>2. CancelsInv(q)' /\ StageInv(q)'
    BY <1>1, <2>1 DEF RunInv, CancelsInv, StageInv
  <2>3. RecordInv(q)'
    BY <1>1, <1>3, <2>1 DEF RunInv, RecordInv, Terminal
  <2>4. EngineInv(q)'
    BY <1>1, <1>3, <2>1 DEF RunInv, EngineInv
  <2> QED
    BY <2>2, <2>3, <2>4 DEF RunInv
<1>5. CancelInv'
  <2>1. \A q \in Runs : store[q] # "ABSENT" => store'[q] # "ABSENT"
    BY <1>3 DEF Terminal
  <2>2. \A d \in Cancellers : cpc'[d] # "idle" =>
          \/ d # c /\ crun'[d] = crun[d] /\ cpc[d] # "idle"
          \/ d = c /\ crun'[d] \in Runs /\ store[crun'[d]] # "ABSENT"
    BY <1>2 DEF Types, CancelGet, CancelStep, CancelContext, CancelSave, Inv, CancelInv
  <2> QED
    BY <2>1, <2>2 DEF Inv, CancelInv
<1>6. DrainInv' /\ SlotsInv'
  BY <1>1, SlotsFrame DEF Inv, DrainInv, Active
<1>7. TypeOK'
  BY <1>1, <1>2 DEF Inv, Types, TypeOK, PC
<1> QED
  BY <1>4, <1>5, <1>6, <1>7 DEF Inv

\* The kill of an engine whose context has ended, and SIGTERM.
LEMMA ShutdownKeepsInv ==
  ASSUME Inv, (\E r \in Runs : ContextKillsEngine(r))
              \/ Signal \/ GraceElapses \/ Shutdown \/ Drained
  PROVE  Inv'
<1> USE DEF filev, runv, cancelv, procv
<1>1. UNCHANGED <<store, spec, sem, cancels, pc, stage, handle, cpc, crun, hit>>
  BY DEF ContextKillsEngine, Signal, GraceElapses, Shutdown, Drained
<1>2. engine' \in [Runs -> {"down", "up"}]
      /\ \A q \in Runs : engine'[q] = "up" => engine[q] = "up"
  BY DEF Inv, TypeOK, ContextKillsEngine, Signal, GraceElapses, Shutdown, Drained
<1>3. TypeOK'
  <2>1. ctx' \in [Runs -> {"none", "live", "canceled"}]
    BY DEF Inv, TypeOK, ContextKillsEngine, Signal, GraceElapses, Shutdown, Drained,
           Canceled
  <2>2. phase' \in {"up", "http", "draining", "exited"} /\ grace' \in BOOLEAN
    BY DEF Inv, TypeOK, ContextKillsEngine, Signal, GraceElapses, Shutdown, Drained
  <2> QED
    BY <1>1, <1>2, <2>1, <2>2 DEF Inv, TypeOK
<1>4. \A q \in Runs : RunInv(q)'
  BY <1>1, <1>2 DEF Inv, RunInv, CancelsInv, StageInv, RecordInv, EngineInv
<1>5. SlotsInv' /\ CancelInv'
  BY <1>1, SlotsFrame DEF Inv, CancelInv
<1>6. DrainInv'
  <2>1. CASE (\E r \in Runs : ContextKillsEngine(r)) \/ Signal \/ GraceElapses
    BY <1>1, <2>1 DEF ContextKillsEngine, Signal, GraceElapses, Inv, DrainInv, Active
  <2>2. CASE Shutdown
    <3>1. ~grace => \A r \in Runs : pc[r] \notin Creating
      BY <2>2 DEF Shutdown, HandlersIdle
    <3>2. cancels = {} => \A r \in Runs : pc[r] \notin Registered
      BY DEF Inv, RunInv, CancelsInv
    <3> QED
      BY <1>1, <2>2, <3>1, <3>2 DEF Shutdown, DrainInv, Active
  <2>3. CASE Drained
    <3>1. cancels = {} => \A r \in Runs : pc[r] \notin Registered
      BY DEF Inv, RunInv, CancelsInv
    <3> QED
      BY <1>1, <2>3, <3>1 DEF Drained, Inv, DrainInv, Active
  <2> QED
    BY <2>1, <2>2, <2>3
<1> QED
  BY <1>3, <1>4, <1>5, <1>6 DEF Inv

-----------------------------------------------------------------------------
\* Nothing is running, stored or counted at the start.
LEMMA InitInv == Init => Inv
<1> SUFFICES ASSUME Init PROVE Inv
  OBVIOUS
<1>1. TypeOK
  <2>1. "ABSENT" \in Status /\ "STARTING_ENGINE" \in Stages
    BY DEF Status, Stages
  <2>2. store \in [Runs -> Status] /\ spec \in [Runs -> Status]
    BY <2>1 DEF Init
  <2>3. stage \in [Runs -> Stages \cup Terminal] /\ handle \in [Runs -> BOOLEAN]
    BY <2>1 DEF Init
  <2>4. engine \in [Runs -> {"down", "up"}] /\ ctx \in [Runs -> {"none", "live", "canceled"}]
    BY DEF Init
  <2>5. pc \in [Runs -> Creating \cup Registered \cup {"none", "done"}]
    BY DEF Init
  <2>6. /\ cpc \in [Cancellers -> {"idle", "lookup", "save"}]
        /\ crun \in [Cancellers -> Runs \cup {NoRun}]
    BY DEF Init
  <2>7. sem \in 0..Cap
    BY PanelCapAssumption DEF Init
  <2>8. /\ cancels \in SUBSET Runs /\ hit \in SUBSET Runs
        /\ phase \in {"up", "http", "draining", "exited"} /\ grace \in BOOLEAN
    BY DEF Init
  <2> QED
    BY <2>2, <2>3, <2>4, <2>5, <2>6, <2>7, <2>8 DEF TypeOK
<1>2. ActiveRuns = {}
  BY DEF Init, ActiveRuns, Active, Creating, Registered
<1>3. SlotsInv
  BY <1>2, FS_EmptySet DEF Init, SlotsInv
<1>4. CancelInv /\ DrainInv
  BY DEF Init, CancelInv, DrainInv
<1>5. \A r \in Runs : RunInv(r)
  <2> SUFFICES ASSUME NEW r \in Runs PROVE RunInv(r)
    OBVIOUS
  <2>1. /\ pc[r] = "none" /\ stage[r] = "STARTING_ENGINE" /\ store[r] = "ABSENT"
        /\ engine[r] = "down" /\ handle[r] = FALSE /\ r \notin cancels
    BY DEF Init
  <2> QED
    BY <2>1 DEF RunInv, CancelsInv, StageInv, RecordInv, EngineInv, AfterVerdict,
                Registered, Stages
<1> QED
  BY <1>1, <1>3, <1>4, <1>5 DEF Inv

\* The invariant holds in every state the panel can reach.
THEOREM InvHolds == Spec => []Inv
<1>1. Inv /\ [Next]_vars => Inv'
  <2> SUFFICES ASSUME Inv, [Next]_vars PROVE Inv'
    OBVIOUS
  <2>1. CASE \E r \in Runs : CreateRun(r) \/ RunStep(r)
    BY <2>1, RunStepKeepsInv
  <2>2. CASE \E c \in Cancellers : (\E r \in Runs : CancelGet(c, r)) \/ CancelStep(c)
    BY <2>2, CancelKeepsInv
  <2>3. CASE (\E r \in Runs : ContextKillsEngine(r))
             \/ Signal \/ GraceElapses \/ Shutdown \/ Drained
    BY <2>3, ShutdownKeepsInv
  <2>4. CASE UNCHANGED vars
    <3>1. /\ UNCHANGED <<store, spec, engine, sem, cancels, ctx, pc, stage, handle>>
          /\ UNCHANGED <<cpc, crun, phase, grace, hit>>
      BY <2>4 DEF vars, filev, runv, cancelv, procv
    <3>2. TypeOK' /\ SlotsInv'
      BY <3>1, SlotsFrame DEF Inv, TypeOK
    <3>3. CancelInv' /\ DrainInv'
      BY <3>1 DEF Inv, CancelInv, DrainInv, Active
    <3>4. \A r \in Runs : RunInv(r)'
      BY <3>1, RunInvFrame DEF Inv
    <3> QED
      BY <3>2, <3>3, <3>4 DEF Inv
  <2> QED
    BY <2>1, <2>2, <2>3, <2>4 DEF Next
<1> QED
  BY <1>1, InitInv, PTL DEF Spec

\* Types; in particular the tokens stay between zero and the limit.
THEOREM TypeCorrect == Spec => []TypeOK
<1>1. Inv => TypeOK
  BY DEF Inv
<1> QED
  BY <1>1, InvHolds, PTL

AtMostCapActive == Cardinality(ActiveRuns) <= Cap

\* maxConcurrentRuns bounds the runs that are being created or executed: every
\* way out of CreateRun and execute gives back the token it took, once.
THEOREM ConcurrencyIsBounded == Spec => []AtMostCapActive
<1>1. Inv => AtMostCapActive
  BY PanelCapAssumption DEF Inv, TypeOK, SlotsInv, AtMostCapActive
<1> QED
  BY <1>1, InvHolds, PTL

\* A run on record that is not over, and whose own writes worked, has a request
\* or a goroutine of a live process at work on it, unless the process ran out of
\* its grace period.
THEOREM RunIsCarried == Spec => []StoredRunIsCarried
<1>1. Inv => StoredRunIsCarried
  <2> SUFFICES ASSUME Inv, NEW r \in Runs \ hit, ~(Alive /\ Active(r)), ~GaveUp
               PROVE  store[r] \in Terminal \cup {"ABSENT"}
    BY DEF StoredRunIsCarried
  <2>0. ~Active(r)
    BY DEF Inv, DrainInv, Alive, GaveUp
  <2>1. pc[r] \in {"none", "done"}
    BY <2>0 DEF Inv, TypeOK, Active
  <2> QED
    BY <2>1 DEF Inv, RunInv, RecordInv, AfterVerdict
<1> QED
  BY <1>1, InvHolds, PTL

\* Manager.Shutdown within its deadline: when the process exits every record is
\* terminal and every engine down, except where a write failed.
THEOREM DrainIsComplete == Spec => []DrainLeavesNothing
<1>1. Inv => DrainLeavesNothing
  <2> SUFFICES ASSUME Inv, phase = "exited", ~grace, NEW r \in Runs \ hit
               PROVE  store[r] \in Terminal \cup {"ABSENT"} /\ engine[r] = "down"
    BY DEF DrainLeavesNothing
  <2>1. ~Active(r) /\ RunInv(r)
    BY DEF Inv, DrainInv
  <2>2. pc[r] \in {"none", "done"} /\ engine[r] \in {"down", "up"}
    BY <2>1 DEF Inv, TypeOK, Active
  <2>3. store[r] \in Terminal \cup {"ABSENT"}
    BY <2>1, <2>2 DEF RunInv, RecordInv, AfterVerdict
  <2>4. engine[r] = "down"
    BY <2>1, <2>2 DEF RunInv, EngineInv, Registered
  <2> QED
    BY <2>3, <2>4
<1> QED
  BY <1>1, InvHolds, PTL

\* A FINISHED or FAILED record is final: the goroutine writes its verdict once,
\* and a CancelRun with a stale copy is stopped by the guard.
THEOREM VerdictHolds == Spec => VerdictIsFinal
<1>1. Inv /\ [Next]_vars
        => [\A r \in Runs : store[r] \in {"FINISHED", "FAILED"} => store'[r] = store[r]]_vars
  <2> SUFFICES ASSUME Inv, Next, NEW r \in Runs, store[r] \in {"FINISHED", "FAILED"}
               PROVE  store'[r] = store[r]
    OBVIOUS
  <2>1. /\ pc[r] \in AfterVerdict /\ store[r] \in Terminal /\ store[r] \in Status
        /\ store \in [Runs -> Status] /\ "CANCELLED" \in Status \cap Terminal
    BY DEF Inv, RunInv, RecordInv, Terminal, TypeOK, Status
  <2>2. CASE \E q \in Runs : CreateRun(q) \/ RunStep(q)
    <3>1. PICK q \in Runs : CreateRun(q) \/ RunStep(q)
      BY <2>2
    <3>2. CASE q # r
      <4>1. Rest(q)
        BY <3>1, RunStepRest, TypeOKSplit DEF Inv
      <4> QED
        BY <3>2, <4>1 DEF Rest
    <3>3. CASE q = r
      <4>1. ~QueueRun(r) /\ ~SaveStage(r) /\ ~SaveVerdict(r)
        BY <2>1 DEF QueueRun, SaveStage, SaveVerdict, At, AfterVerdict
      <4>2. UNCHANGED store
        BY <3>1, <3>3, <4>1
           DEF RunStep, CreateRun, WriteQueued, Launch, WriteStage, Operation,
               OperationFails, Recheck, Fail, WriteVerdict, Unwind, Exit, filev
      <4> QED
        BY <4>2
    <3> QED
      BY <3>2, <3>3
  <2>3. CASE \E c \in Cancellers : CancelSave(c)
    <3>1. PICK c \in Cancellers : CancelSave(c)
      BY <2>3
    <3>2. TerminalGuard(store[r], "CANCELLED") = store[r]
      BY <2>1, GuardTypes
    <3> QED
      BY <2>1, <3>1, <3>2 DEF CancelSave, Save
  <2>4. CASE UNCHANGED store
    BY <2>4
  <2> QED
    BY <2>2, <2>3, <2>4
       DEF Next, CancelGet, CancelStep, CancelContext, ContextKillsEngine, Signal,
           GraceElapses, Shutdown, Drained, filev
<1> QED
  BY <1>1, InvHolds, PTL DEF Spec, VerdictIsFinal

=============================================================================
