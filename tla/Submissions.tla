---------------------------- MODULE Submissions -----------------------------
(***************************************************************************)
(* Two processes share index.json: the submission-api, which adds           *)
(* submissions and runs to it, and the orchestrator, which claims the runs  *)
(* and saves what becomes of them.  A change is a load, an edit of the copy, *)
(* a write to a temporary file and a rename, under the process's own mutex   *)
(* and an flock that both processes take.  In front of them, the console-api *)
(* forwards uploads, and creates and starts a run with one request to each.  *)
(*                                                                         *)
(* A job is one request or worker that uses a store: pc says how far it is.  *)
(* What an orchestrator does with a claimed run is the module Orchestrator;  *)
(* here it is one save.  Processes may crash, and come back.                 *)
(***************************************************************************)
EXTENDS Integers, FiniteSets

CONSTANTS
  Subs, Runs,
  SubOf,       \* the submission that the creator of a run names
  MaxUploads,  \* maxConcurrentSubmissions
  MaxInFlight, \* maxInFlightRequests of the console
  MaxFaults,   \* bound on crashes, failed writes and lost answers
  None

ASSUME SubOfAssumption == SubOf \in [Runs -> Subs]
ASSUME LimitsAssumption ==
  MaxUploads \in Nat \ {0} /\ MaxInFlight \in Nat \ {0} /\ MaxFaults \in Nat

ApiJobs == ({"submit"} \X Subs) \cup ({"create"} \X Runs)
OrchestratorJobs == ({"start", "save"} \X Runs) \cup {<<"claim", None>>}
Jobs == ApiJobs \cup OrchestratorJobs
Worker == <<"claim", None>>

ASSUME NoneAssumption == None \notin Runs \cup Jobs

Process == {"api", "orchestrator"}
ProcessOf(j) == IF j \in ApiJobs THEN "api" ELSE "orchestrator"

VARIABLES
  index,  \* index.json: submissions and the status of each run
  file,   \* the artifact file of each submission
  up,     \* which processes run
  mu,     \* holder of each process's JSONStore.mu, when held for writing
  flock,  \* holder of index.json.lock
  pc, snap, \* progress of each job, and the copy of the index it loaded
  run,    \* the run a job is about
  con,    \* console: state of the request that creates and starts a run
  faults

vars == <<index, file, up, mu, flock, pc, snap, run, con, faults>>

Atomic == INSTANCE AtomicIndex WITH subs <- index.subs, runs <- index.runs

Index == [subs : SUBSET Subs, runs : [Runs -> Atomic!Status]]

TypeOK ==
  /\ index \in Index
  /\ file \in [Subs -> {"absent", "partial", "whole"}]
  /\ up \in [Process -> BOOLEAN]
  /\ mu \in [Process -> Jobs \cup {None}] /\ flock \in Jobs \cup {None}
  /\ pc \in [Jobs -> {"idle", "copy", "check", "mu", "flock", "load", "rename",
                      "done", "failed"}]
  /\ snap \in [Jobs -> Index \cup {None}]
  /\ run \in [Jobs -> Runs \cup {None}]
  /\ con \in [Runs -> {"idle", "create", "start", "202", "502", "503"}]
  /\ faults \in 0..MaxFaults

Init ==
  /\ index = [subs |-> {}, runs |-> [r \in Runs |-> "absent"]]
  /\ file = [s \in Subs |-> "absent"]
  /\ up = [p \in Process |-> TRUE]
  /\ mu = [p \in Process |-> None] /\ flock = None
  /\ pc = [j \in Jobs |-> "idle"]
  /\ snap = [j \in Jobs |-> None]
  /\ run = [j \in Jobs |-> IF j[2] \in Runs THEN j[2] ELSE None]
  /\ con = [r \in Runs |-> "idle"]
  /\ faults = 0

Alive(j) == up[ProcessOf(j)]

Goto(j, l) == pc' = [pc EXCEPT ![j] = l]

-----------------------------------------------------------------------------
(* Uploads: CreateSubmission and LocalArtifactStore.Save.                   *)

Uploading == {s \in Subs : pc[<<"submit", s>>] \notin {"idle", "done", "failed"}}

\* The console forwards the request; the api refuses it when all slots are taken
\* or the form is not complete, and else creates the artifact file.
CreateSubmission(s) ==
  /\ pc[<<"submit", s>>] = "idle" /\ up["api"]
  /\ \/ Goto(<<"submit", s>>, "failed") /\ UNCHANGED file
     \/ /\ Cardinality(Uploading) < MaxUploads
        /\ Goto(<<"submit", s>>, "copy")
        /\ file' = [file EXCEPT ![s] = "partial"]
  /\ UNCHANGED <<index, up, mu, flock, snap, run, con, faults>>

\* Mutant: a copy that ended early counts as saved.
SavedAnyway(complete) == TRUE

\* The copy ends at the end of the upload, or early: the client goes away, or a
\* write fails.  Whether the artifact then counts as saved:
SavedAfter(complete) == complete

copyWithContext(s, complete) ==
  /\ pc[<<"submit", s>>] = "copy" /\ up["api"]
  /\ file' = IF complete THEN [file EXCEPT ![s] = "whole"] ELSE file
  /\ Goto(<<"submit", s>>, IF SavedAfter(complete) THEN "mu" ELSE "failed")
  /\ UNCHANGED <<index, up, mu, flock, snap, run, con, faults>>

-----------------------------------------------------------------------------
(* The stores: one change of the index.                                     *)

Lock(j) ==
  /\ pc[j] = "mu" /\ Alive(j) /\ mu[ProcessOf(j)] = None
  /\ mu' = [mu EXCEPT ![ProcessOf(j)] = j]
  /\ Goto(j, "flock")
  /\ UNCHANGED <<index, file, up, flock, snap, run, con, faults>>

\* Mutant: the processes do not exclude each other.
FlockIgnored == TRUE

FlockFree == flock = None

acquireFileLock(j) ==
  /\ pc[j] = "flock" /\ Alive(j) /\ FlockFree
  /\ flock' = j
  /\ Goto(j, "load")
  /\ UNCHANGED <<index, file, up, mu, snap, run, con, faults>>

Release(j) ==
  /\ mu' = [mu EXCEPT ![ProcessOf(j)] = None]
  /\ flock' = None

\* Mutant: a run that has ended can be started again.
QueuedOrEnded == {r \in Runs : index.runs[r] \in {"QUEUED", "FINISHED"}}

\* The runs that can be claimed.
Queued == {r \in Runs : index.runs[r] = "QUEUED"}

\* Mutant: the claim loop leaves a run that was ever asked for to its request.
QueuedNotAsked == {r \in Queued : pc[<<"start", r>>] = "idle"}

\* The runs that the claim loop may take.  (It takes the oldest: Orchestrator.)
Waiting == Queued

\* loadLocked, and what the operation makes of the copy: a claim needs a queued
\* run, a start answers at once when its run has ended and is refused when it is
\* in progress, a save needs its run.
loadLocked(j) ==
  /\ pc[j] = "load" /\ Alive(j)
  /\ \/ /\ \/ j[1] \in {"submit", "create"} /\ UNCHANGED run
           \/ j[1] = "start" /\ run[j] \in Queued /\ UNCHANGED run
           \/ j[1] = "claim" /\ \E r \in Waiting : run' = [run EXCEPT ![j] = r]
           \/ j[1] = "save" /\ index.runs[run[j]] # "absent" /\ UNCHANGED run
        /\ snap' = [snap EXCEPT ![j] = index]
        /\ Goto(j, "rename")
        /\ UNCHANGED <<mu, flock>>
     \/ /\ \/ j[1] = "start" /\ run[j] \notin Queued
              /\ Goto(j, IF index.runs[run[j]] = "FINISHED" THEN "done"
                                                            ELSE "failed")
           \/ j[1] = "claim" /\ Waiting = {} /\ Goto(j, "idle")
        /\ Release(j)
        /\ UNCHANGED <<run, snap>>
  /\ UNCHANGED <<index, file, up, con, faults>>

\* The copy with the change in it.
Edited(j) ==
  IF j[1] = "submit" THEN [snap[j] EXCEPT !.subs = @ \cup {j[2]}]
  ELSE [snap[j] EXCEPT !.runs[run[j]] =
          IF j[1] = "create" THEN "QUEUED"
          ELSE IF j[1] = "save" THEN "FINISHED" ELSE "BUILDING"]

\* writeLocked: the temporary file becomes the index.  A claimed run is executed
\* from here on, by a job that will save it.
writeLocked(j) ==
  /\ pc[j] = "rename" /\ Alive(j)
  /\ index' = Edited(j)
  /\ snap' = [snap EXCEPT ![j] = None]
  /\ Release(j)
  /\ pc' = [k \in Jobs |->
              IF k = j THEN IF j = Worker THEN "idle" ELSE "done"
              ELSE IF j[1] \in {"start", "claim"} /\ k = <<"save", run[j]>>
                THEN "mu" ELSE pc[k]]
  /\ UNCHANGED <<file, up, run, con, faults>>

\* Reading or writing the index fails: nothing is renamed, the locks are released.
StoreFails(j) ==
  /\ pc[j] \in {"load", "rename"} /\ Alive(j) /\ faults < MaxFaults
  /\ faults' = faults + 1
  /\ Goto(j, IF j = Worker THEN "idle" ELSE "failed")
  /\ snap' = [snap EXCEPT ![j] = None]
  /\ Release(j)
  /\ UNCHANGED <<index, file, up, run, con>>

\* The orchestrator's claim loop.
StartNextQueued ==
  /\ pc[Worker] = "idle" /\ up["orchestrator"]
  /\ Goto(Worker, "mu")
  /\ UNCHANGED <<index, file, up, mu, flock, snap, run, con, faults>>

-----------------------------------------------------------------------------
(* The console's createRun, and CreateRun of the api.                       *)

InFlight == {r \in Runs : con[r] \in {"create", "start"}}

\* POST a run: to the api, unless the console is at its limit.
createRun(r) ==
  /\ con[r] = "idle"
  /\ IF Cardinality(InFlight) < MaxInFlight
       THEN IF up["api"] THEN /\ con' = [con EXCEPT ![r] = "create"]
                              /\ Goto(<<"create", r>>, "check")
                         ELSE con' = [con EXCEPT ![r] = "502"] /\ UNCHANGED pc
       ELSE con' = [con EXCEPT ![r] = "503"] /\ UNCHANGED pc
  /\ UNCHANGED <<index, file, up, mu, flock, snap, run, faults>>

\* GetSubmission reads without the flock; a writer of its own process excludes it.
\* The request fails if the submission is not there or its body is not valid.
CreateRun(r) ==
  /\ pc[<<"create", r>>] = "check" /\ up["api"] /\ mu["api"] = None
  /\ \/ SubOf[r] \in index.subs /\ Goto(<<"create", r>>, "mu")
     \/ Goto(<<"create", r>>, "failed")
  /\ UNCHANGED <<index, file, up, mu, flock, snap, run, con, faults>>

\* The api has answered: the orchestrator is asked to start the run.
start(r) ==
  /\ con[r] = "create" /\ pc[<<"create", r>>] \in {"done", "failed"}
  /\ IF pc[<<"create", r>>] = "done" /\ up["orchestrator"]
       THEN con' = [con EXCEPT ![r] = "start"] /\ Goto(<<"start", r>>, "mu")
       ELSE con' = [con EXCEPT ![r] = "502"] /\ UNCHANGED pc
  /\ UNCHANGED <<index, file, up, mu, flock, snap, run, faults>>

\* The orchestrator has answered.
doJSON(r) ==
  /\ con[r] = "start" /\ pc[<<"start", r>>] \in {"done", "failed"}
  /\ con' = [con EXCEPT ![r] =
               IF pc[<<"start", r>>] = "done" THEN "202" ELSE "502"]
  /\ UNCHANGED <<index, file, up, mu, flock, pc, snap, run, faults>>

\* The answer is lost, or the console's client times out; the request goes on.
GiveUp(r) ==
  /\ con[r] \in {"create", "start"} /\ faults < MaxFaults
  /\ faults' = faults + 1
  /\ con' = [con EXCEPT ![r] = "502"]
  /\ UNCHANGED <<index, file, up, mu, flock, pc, snap, run>>

-----------------------------------------------------------------------------
(* Crashes.  The system releases the flock of a process that ends; its jobs  *)
(* are gone, and a temporary file it leaves is never read.                   *)

FlockAfterCrash(p) ==
  IF flock # None /\ ProcessOf(flock) = p THEN None ELSE flock

Crash(p) ==
  /\ up[p] /\ faults < MaxFaults
  /\ faults' = faults + 1
  /\ up' = [up EXCEPT ![p] = FALSE]
  /\ mu' = [mu EXCEPT ![p] = None]
  /\ flock' = FlockAfterCrash(p)
  /\ pc' = [j \in Jobs |->
              IF ProcessOf(j) # p \/ pc[j] \in {"idle", "done"} THEN pc[j]
              ELSE IF j = Worker THEN "idle" ELSE "failed"]
  /\ snap' = [j \in Jobs |-> IF ProcessOf(j) = p THEN None ELSE snap[j]]
  /\ UNCHANGED <<index, file, run, con>>

Restart(p) ==
  /\ ~up[p]
  /\ up' = [up EXCEPT ![p] = TRUE]
  /\ UNCHANGED <<index, file, mu, flock, pc, snap, run, con, faults>>

Step(j) == Lock(j) \/ acquireFileLock(j) \/ loadLocked(j) \/ writeLocked(j)

Next ==
  \/ \E s \in Subs : CreateSubmission(s)
                     \/ \E complete \in BOOLEAN : copyWithContext(s, complete)
  \/ \E j \in Jobs : Step(j) \/ StoreFails(j)
  \/ StartNextQueued
  \/ \E r \in Runs : createRun(r) \/ CreateRun(r) \/ start(r) \/ doJSON(r)
                     \/ GiveUp(r)
  \/ \E p \in Process : Crash(p) \/ Restart(p)

\* Goroutines run, locks are granted, and the service manager restarts a process.
Fairness ==
  /\ \A j \in Jobs : WF_vars(Step(j))
  /\ WF_vars(StartNextQueued)
  /\ \A p \in Process : WF_vars(Restart(p))

Spec == Init /\ [][Next]_vars /\ Fairness

-----------------------------------------------------------------------------
\* Whatever the interleaving of the two processes and wherever one of them
\* crashes, the index changes as if each store operation were one step: no write
\* of one process is lost under a rename of the other, no run is claimed twice.
ImplementsAtomicIndex == Atomic!Spec

\* What was acknowledged stays: a submission answered 201 is in the index, a run
\* the console goes on to start is there, and one answered 202 was claimed.
AcknowledgedSurvives ==
  /\ \A s \in Subs : pc[<<"submit", s>>] = "done" => s \in index.subs
  /\ \A r \in Runs :
       /\ con[r] \in {"start", "202"} => index.runs[r] # "absent"
       /\ con[r] = "202" => index.runs[r] # "QUEUED"

\* An indexed submission has its whole artifact, through disconnects and crashes
\* in the middle of an upload, and a run names a submission that is indexed.
IndexedArtifactIsWhole ==
  /\ \A s \in index.subs : file[s] = "whole"
  /\ \A r \in Runs : index.runs[r] # "absent" => SubOf[r] \in index.subs

\* A run that was created is taken up, also when the console lost the answer and
\* told its user that the start had failed, and when a process crashed while it
\* held the locks.
CreatedRunIsTakenUp ==
  \A r \in Runs : index.runs[r] = "QUEUED" ~> index.runs[r] # "QUEUED"
=============================================================================
