-------------------------- MODULE SubmissionsProofs --------------------------
(***************************************************************************)
(* Proofs about Submissions, for any number of submissions, runs, uploads  *)
(* and faults.                                                             *)
(***************************************************************************)
EXTENDS Submissions, TLAPS

\* Where a job is when it uses the store, holds its process's mutex, holds the
\* lock on the file.
Storing == {"mu", "flock", "load", "rename"}
Inside == {"flock", "load", "rename"}
Locked == {"load", "rename"}

\* The types of pc and con, named.
JobPC == {"idle", "copy", "check", "mu", "flock", "load", "rename", "done", "failed"}
ConState == {"idle", "create", "start", "202", "502", "503"}

\* The two locks: a job that is past one of them is its holder.
LocksHeld ==
  \A j \in Jobs : /\ pc[j] \in Inside => mu[ProcessOf(j)] = j
                  /\ pc[j] \in Locked => flock = j

\* The copy a job is about to rename is the index as it is now.
CopyIsCurrent == \A j \in Jobs : pc[j] = "rename" => snap[j] = index

\* A request or save is about the run it names, the claim loop about one that
\* waits.
RunOfJob ==
  /\ \A r \in Runs, k \in {"create", "start", "save"} : run[<<k, r>>] = r
  /\ \A r \in Runs : pc[<<"start", r>>] = "rename" => index.runs[r] = "QUEUED"
  /\ pc[Worker] = "rename"
       => run[Worker] \in Runs /\ index.runs[run[Worker]] = "QUEUED"

\* A submission is indexed when its request is done, after its file was written.
SubmitInv ==
  \A s \in Subs :
    /\ s \in index.subs <=> pc[<<"submit", s>>] = "done"
    /\ pc[<<"submit", s>>] \in Storing \cup {"done"} => file[s] = "whole"

\* A run is indexed when its request is done, after its submission.
CreateInv ==
  \A r \in Runs :
    /\ index.runs[r] # "absent" <=> pc[<<"create", r>>] = "done"
    /\ pc[<<"create", r>>] \in Storing \cup {"done"} => SubOf[r] \in index.subs
    /\ con[r] = "idle" => pc[<<"create", r>>] = "idle"

\* A run is saved after it was claimed, and once.
SaveInv ==
  \A r \in Runs :
    /\ index.runs[r] \in {"absent", "QUEUED"} => pc[<<"save", r>>] = "idle"
    /\ pc[<<"save", r>>] \in Storing => index.runs[r] = "BUILDING"

\* What the console heard of the start.
StartInv ==
  \A r \in Runs :
    /\ pc[<<"start", r>>] = "done" => index.runs[r] \in {"BUILDING", "FINISHED"}
    /\ con[r] = "start" => index.runs[r] # "absent"
    /\ con[r] = "202" => index.runs[r] \in {"BUILDING", "FINISHED"}

Inv ==
  /\ TypeOK /\ LocksHeld /\ CopyIsCurrent /\ RunOfJob
  /\ SubmitInv /\ CreateInv /\ SaveInv /\ StartInv

-----------------------------------------------------------------------------
\* The five kinds of job, and the process each runs in.
LEMMA JobKinds ==
  /\ \A j \in Jobs :
       \/ \E s \in Subs : j = <<"submit", s>>
       \/ \E r \in Runs, k \in {"create", "start", "save"} : j = <<k, r>>
       \/ j = Worker
  /\ \A s \in Subs : <<"submit", s>> \in Jobs /\ <<"submit", s>> # Worker
  /\ \A r \in Runs, k \in {"create", "start", "save"} :
       <<k, r>> \in Jobs /\ <<k, r>> # Worker
  /\ Worker \in Jobs
  /\ \A j \in Jobs : ProcessOf(j) \in Process /\ j # None
  BY NoneAssumption DEF Jobs, ApiJobs, OrchestratorJobs, Worker, Process, ProcessOf

\* A job is of the kind it is labelled with.
LEMMA JobOfKind ==
  /\ \A j \in Jobs : j[1] = "submit" => \E s \in Subs : j = <<"submit", s>>
  /\ \A j \in Jobs, k \in {"create", "start", "save"} :
       j[1] = k => \E r \in Runs : j = <<k, r>>
  /\ \A j \in Jobs : j[1] = "claim" => j = Worker
  /\ Worker[1] = "claim"
  BY DEF Jobs, ApiJobs, OrchestratorJobs, Worker

\* What writeLocked makes of the copy, one kind of job at a time.
LEMMA EditedIndex ==
  ASSUME NEW j \in Jobs, snap[j] \in Index, run[j] \in Runs \/ j[1] = "submit"
  PROVE  /\ j[1] = "submit" =>
              /\ Edited(j).subs = snap[j].subs \cup {j[2]}
              /\ Edited(j).runs = snap[j].runs
         /\ j[1] # "submit" =>
              /\ Edited(j).subs = snap[j].subs
              /\ Edited(j).runs =
                   [snap[j].runs EXCEPT ![run[j]] =
                      IF j[1] = "create" THEN "QUEUED"
                      ELSE IF j[1] = "save" THEN "FINISHED" ELSE "BUILDING"]
         /\ Edited(j) \in Index
<1>1. snap[j].runs \in [Runs -> Atomic!Status] /\ snap[j].subs \in SUBSET Subs
  BY DEF Index
<1>2. CASE j[1] = "submit"
  <2>1. j[2] \in Subs
    BY <1>2, JobKinds DEF Worker
  <2> QED
    BY <1>1, <1>2, <2>1 DEF Edited, Index
<1>3. CASE j[1] # "submit"
  BY <1>1, <1>3 DEF Edited, Index, Atomic!Status
<1> QED
  BY <1>2, <1>3

-----------------------------------------------------------------------------
\* Init starts with nothing indexed, no job at work and the locks free.
LEMMA InitInv == Init => Inv
<1> SUFFICES ASSUME Init PROVE Inv
  OBVIOUS
<1>1. TypeOK
  BY LimitsAssumption DEF Init, TypeOK, Index, Atomic!Status, Process
<1>2. LocksHeld /\ CopyIsCurrent
  BY DEF Init, LocksHeld, CopyIsCurrent, Inside, Locked
<1>3. RunOfJob
  BY JobKinds DEF Init, RunOfJob
<1>4. SubmitInv /\ CreateInv /\ SaveInv /\ StartInv
  BY JobKinds DEF Init, SubmitInv, CreateInv, SaveInv, StartInv, Storing
<1> QED
  BY <1>1, <1>2, <1>3, <1>4 DEF Inv

\* Uploads keep the invariant: the file of a submission is written before its
\* request gets to the store.
LEMMA UploadKeepsInv ==
  ASSUME Inv, NEW s \in Subs,
         CreateSubmission(s)
           \/ \E complete \in BOOLEAN : copyWithContext(s, complete)
  PROVE  Inv'
<1> DEFINE j == <<"submit", s>>
<1>1. j \in Jobs /\ j # Worker /\ \A r \in Runs, k \in {"create", "start", "save"} : <<k, r>> # j
  BY JobKinds
<1>2. PICK l \in {"failed", "copy", "mu"} : pc' = [pc EXCEPT ![j] = l] /\ (l = "mu" => file'[s] = "whole")
  BY DEF CreateSubmission, copyWithContext, Goto, SavedAfter, Inv, TypeOK
<1>3. /\ pc[j] \in {"idle", "copy"}
      /\ UNCHANGED <<index, up, mu, flock, snap, run, con, faults>>
      /\ file' \in [Subs -> {"absent", "partial", "whole"}]
      /\ \A t \in Subs : t # s => file'[t] = file[t]
  BY DEF CreateSubmission, copyWithContext, Inv, TypeOK
<1> HIDE DEF j
<1>4. TypeOK'
  BY <1>1, <1>2, <1>3 DEF Inv, TypeOK
<1>5. LocksHeld' /\ CopyIsCurrent'
  BY <1>1, <1>2, <1>3 DEF Inv, TypeOK, LocksHeld, CopyIsCurrent, Inside, Locked
<1>6. (RunOfJob /\ CreateInv /\ SaveInv /\ StartInv)'
  BY <1>1, <1>2, <1>3, JobKinds
     DEF Inv, TypeOK, RunOfJob, CreateInv, SaveInv, StartInv, Storing
<1>7. SubmitInv'
  <2> SUFFICES ASSUME NEW t \in Subs
               PROVE  /\ t \in index'.subs <=> pc'[<<"submit", t>>] = "done"
                      /\ pc'[<<"submit", t>>] \in Storing \cup {"done"}
                           => file'[t] = "whole"
    BY DEF SubmitInv
  <2>1. CASE t = s
    BY <2>1, <1>1, <1>2, <1>3 DEF Inv, TypeOK, SubmitInv, Storing, j
  <2>2. CASE t # s
    BY <2>2, <1>1, <1>2, <1>3, JobKinds DEF Inv, TypeOK, SubmitInv, Storing, j
  <2> QED
    BY <2>1, <2>2
<1> QED
  BY <1>4, <1>5, <1>6, <1>7 DEF Inv

\* The console and its requests keep the invariant: they move a job from outside
\* the store to its first lock, or end it.
LEMMA RequestKeepsInv ==
  ASSUME Inv, NEW r \in Runs,
         createRun(r) \/ CreateRun(r) \/ start(r) \/ doJSON(r) \/ GiveUp(r)
  PROVE  Inv'
<1> USE DEF Goto
<1>1. UNCHANGED <<index, file, up, mu, flock, snap, run>>
  BY DEF createRun, CreateRun, start, doJSON, GiveUp
<1>2. \/ pc' = pc
      \/ \E l \in {"check", "mu", "failed"} : pc' = [pc EXCEPT ![<<"create", r>>] = l]
      \/ pc' = [pc EXCEPT ![<<"start", r>>] = "mu"]
  BY DEF createRun, CreateRun, start, doJSON, GiveUp
<1>3. pc \in [Jobs -> JobPC] /\ con \in [Runs -> ConState]
  BY DEF Inv, TypeOK, JobPC, ConState
<1>4. TypeOK'
  <2>1. pc' \in [Jobs -> JobPC]
    BY <1>2, <1>3 DEF JobPC
  <2>2. con' \in [Runs -> ConState]
    BY <1>3 DEF createRun, CreateRun, start, doJSON, GiveUp, ConState
  <2>3. faults' \in 0..MaxFaults
    BY LimitsAssumption
       DEF createRun, CreateRun, start, doJSON, GiveUp, Inv, TypeOK
  <2> QED
    BY <1>1, <2>1, <2>2, <2>3 DEF Inv, TypeOK, JobPC, ConState
<1>5. \A j \in Jobs : pc'[j] = pc[j] \/ pc'[j] \in {"check", "mu", "failed"}
  BY <1>2, <1>3
<1>6. LocksHeld' /\ CopyIsCurrent'
  BY <1>1, <1>5 DEF Inv, LocksHeld, CopyIsCurrent, Inside, Locked
<1>7. RunOfJob'
  BY <1>1, <1>5, JobKinds DEF Inv, RunOfJob
<1>8. SubmitInv' /\ SaveInv'
  <2>1. /\ \A s \in Subs : pc'[<<"submit", s>>] = pc[<<"submit", s>>]
        /\ \A q \in Runs : pc'[<<"save", q>>] = pc[<<"save", q>>]
    BY <1>2, <1>3, JobKinds
  <2> QED
    BY <1>1, <2>1 DEF Inv, SubmitInv, SaveInv
<1>9. CreateInv'
  <2>1. CASE createRun(r)
    <3>1. \A q \in Runs \ {r} : /\ pc'[<<"create", q>>] = pc[<<"create", q>>]
                                /\ con'[q] = con[q]
      BY <2>1, <1>3, JobKinds DEF createRun
    <3>2. /\ con[r] = "idle" /\ con'[r] # "idle"
          /\ pc'[<<"create", r>>] \in {pc[<<"create", r>>], "check"}
      BY <2>1, <1>3, JobKinds DEF createRun
    <3>3. pc'[<<"create", r>>] \in {"idle", "check"} /\ pc[<<"create", r>>] = "idle"
      BY <3>2 DEF Inv, CreateInv
    <3> QED
      BY <1>1, <3>1, <3>2, <3>3 DEF Inv, CreateInv, Storing
  <2>2. CASE CreateRun(r)
    <3>1. /\ \A q \in Runs \ {r} : pc'[<<"create", q>>] = pc[<<"create", q>>]
          /\ con' = con
      BY <2>2, <1>3, JobKinds DEF CreateRun
    <3>2. /\ pc[<<"create", r>>] = "check"
          /\ \/ pc'[<<"create", r>>] = "mu" /\ SubOf[r] \in index.subs
             \/ pc'[<<"create", r>>] = "failed"
      BY <2>2, <1>3, JobKinds DEF CreateRun
    <3> QED
      BY <1>1, <3>1, <3>2 DEF Inv, CreateInv, Storing
  <2>3. CASE start(r) \/ doJSON(r) \/ GiveUp(r)
    <3>1. \A q \in Runs : /\ pc'[<<"create", q>>] = pc[<<"create", q>>]
                          /\ con'[q] = "idle" => con[q] = "idle"
      BY <2>3, <1>3, JobKinds DEF start, doJSON, GiveUp
    <3> QED
      BY <3>1, <1>1 DEF Inv, CreateInv
  <2> QED
    BY <2>1, <2>2, <2>3
<1>10. StartInv'
  <2>1. \A q \in Runs : pc'[<<"start", q>>] = "done" => pc[<<"start", q>>] = "done"
    BY <1>5, JobKinds
  <2>2. \A q \in Runs :
          /\ con'[q] = "start" => con[q] = "start" \/ pc[<<"create", q>>] = "done"
          /\ con'[q] = "202" => con[q] = "202" \/ pc[<<"start", q>>] = "done"
    BY <1>3 DEF createRun, CreateRun, start, doJSON, GiveUp
  <2> QED
    BY <1>1, <2>1, <2>2 DEF Inv, StartInv, CreateInv
<1> QED
  BY <1>4, <1>6, <1>7, <1>8, <1>9, <1>10 DEF Inv

\* So does the claim loop, when it wakes up.
LEMMA ClaimLoopKeepsInv == ASSUME Inv, StartNextQueued PROVE Inv'
<1>1. UNCHANGED <<index, file, up, mu, flock, snap, run, con, faults>>
  BY DEF StartNextQueued
<1>2. pc \in [Jobs -> JobPC] /\ pc' = [pc EXCEPT ![Worker] = "mu"]
  BY DEF StartNextQueued, Goto, Inv, TypeOK, JobPC
<1>3. pc'[Worker] = "mu" /\ \A j \in Jobs : j # Worker => pc'[j] = pc[j]
  BY <1>2, JobKinds
<1>4. TypeOK'
  <2>1. pc' \in [Jobs -> JobPC]
    BY <1>2 DEF JobPC
  <2> QED
    BY <1>1, <2>1 DEF Inv, TypeOK, JobPC
<1>5. LocksHeld' /\ CopyIsCurrent'
  BY <1>1, <1>3 DEF Inv, LocksHeld, CopyIsCurrent, Inside, Locked
<1>6. /\ \A s \in Subs : pc'[<<"submit", s>>] = pc[<<"submit", s>>]
      /\ \A r \in Runs, k \in {"create", "start", "save"} : pc'[<<k, r>>] = pc[<<k, r>>]
  BY <1>3, JobKinds
<1>7. RunOfJob'
  BY <1>1, <1>3, <1>6 DEF Inv, RunOfJob
<1>8. SubmitInv'
  BY <1>1, <1>6 DEF Inv, SubmitInv
<1>10. CreateInv'
  BY <1>1, <1>6 DEF Inv, CreateInv
<1>9. SaveInv' /\ StartInv'
  BY <1>1, <1>6 DEF Inv, SaveInv, StartInv
<1> QED
  BY <1>4, <1>5, <1>7, <1>8, <1>9, <1>10 DEF Inv

\* The processes end and come back: a crash takes its jobs out of the store and
\* gives up their locks, and leaves the index as the last rename made it.
LEMMA CrashKeepsInv ==
  ASSUME Inv, NEW p \in Process, Crash(p) \/ Restart(p)
  PROVE  Inv'
<1>1. CASE Crash(p)
  <2>1. UNCHANGED <<index, file, run, con>>
    BY <1>1 DEF Crash
  <2>2. pc \in [Jobs -> JobPC] /\ pc' \in [Jobs -> JobPC]
    BY <1>1 DEF Crash, Inv, TypeOK, JobPC
  <2>3. TypeOK'
    <3>1. up' \in [Process -> BOOLEAN] /\ mu' \in [Process -> Jobs \cup {None}]
      BY <1>1 DEF Crash, Inv, TypeOK
    <3>2. flock' \in Jobs \cup {None} /\ faults' \in 0..MaxFaults
      BY <1>1, LimitsAssumption DEF Crash, FlockAfterCrash, Inv, TypeOK
    <3>3. snap' \in [Jobs -> Index \cup {None}]
      BY <1>1 DEF Crash, Inv, TypeOK
    <3> QED
      BY <2>1, <2>2, <3>1, <3>2, <3>3 DEF Inv, TypeOK, JobPC
  <2>4. \A j \in Jobs : \/ pc'[j] = pc[j] /\ (ProcessOf(j) # p \/ pc[j] \in {"idle", "done"})
                        \/ /\ ProcessOf(j) = p /\ pc[j] \notin {"idle", "done"}
                           /\ pc'[j] = IF j = Worker THEN "idle" ELSE "failed"
    BY <1>1 DEF Crash
  <2>5. LocksHeld'
    <3> SUFFICES ASSUME NEW j \in Jobs
                 PROVE  /\ pc'[j] \in Inside => mu'[ProcessOf(j)] = j
                        /\ pc'[j] \in Locked => flock' = j
      BY DEF LocksHeld
    <3>1. pc'[j] \in Inside => ProcessOf(j) # p /\ pc'[j] = pc[j]
      BY <2>4 DEF Inside
    <3>2. ProcessOf(j) # p => mu'[ProcessOf(j)] = mu[ProcessOf(j)]
      BY <1>1, JobKinds DEF Crash, Inv, TypeOK
    <3>3. flock = j /\ ProcessOf(j) # p => flock' = flock
      BY <1>1 DEF Crash, FlockAfterCrash
    <3> QED
      BY <3>1, <3>2, <3>3 DEF Inv, LocksHeld, Inside, Locked
  <2>6. CopyIsCurrent'
    BY <1>1, <2>1, <2>4 DEF Crash, Inv, CopyIsCurrent
  <2>7. \A j \in Jobs : j # Worker =>
          \/ pc'[j] = pc[j]
          \/ pc[j] \notin {"idle", "done"} /\ pc'[j] = "failed"
    BY <2>4
  <2>8. RunOfJob'
    <3>1. \A j \in Jobs : pc'[j] = "rename" => pc[j] = "rename"
      BY <2>4
    <3> QED
      BY <2>1, <3>1, JobKinds DEF Inv, RunOfJob
  <2>9. SubmitInv'
    BY <2>1, <2>7, JobKinds DEF Inv, SubmitInv, Storing
  <2>10. CreateInv'
    BY <2>1, <2>7, JobKinds DEF Inv, CreateInv, Storing
  <2>11. SaveInv'
    BY <2>1, <2>7, JobKinds DEF Inv, SaveInv, Storing
  <2>12. StartInv'
    BY <2>1, <2>7, JobKinds DEF Inv, StartInv
  <2> QED
    BY <2>3, <2>5, <2>6, <2>8, <2>9, <2>10, <2>11, <2>12 DEF Inv
<1>2. CASE Restart(p)
  <2>1. UNCHANGED <<index, file, mu, flock, pc, snap, run, con, faults>>
    BY <1>2 DEF Restart
  <2>2. TypeOK'
    BY <1>2, <2>1 DEF Restart, Inv, TypeOK
  <2> QED
    BY <2>1, <2>2 DEF Inv, LocksHeld, CopyIsCurrent, RunOfJob, SubmitInv,
                      CreateInv, SaveInv, StartInv
<1> QED
  BY <1>1, <1>2

\* Taking the locks, loading, and every way of leaving the store without a
\* rename keep the invariant: the index is not touched, and only the holder of a
\* lock gives it up.
LEMMA StoreKeepsInv ==
  ASSUME Inv, NEW j \in Jobs,
         Lock(j) \/ acquireFileLock(j) \/ loadLocked(j) \/ StoreFails(j)
  PROVE  Inv'
<1>1. UNCHANGED <<index, file, up, con>>
  BY DEF Lock, acquireFileLock, loadLocked, StoreFails
<1>2. /\ pc \in [Jobs -> JobPC] /\ ProcessOf(j) \in Process /\ j # None
      /\ mu \in [Process -> Jobs \cup {None}]
  BY JobKinds DEF Inv, TypeOK, JobPC
<1>3. PICK l \in {"flock", "load", "rename", "idle", "done", "failed"} :
         pc' = [pc EXCEPT ![j] = l]
  BY DEF Lock, acquireFileLock, loadLocked, StoreFails, Goto
<1>4. \/ /\ pc[j] = "mu" /\ l = "flock" /\ UNCHANGED <<flock, snap, run>>
         /\ mu[ProcessOf(j)] = None /\ mu' = [mu EXCEPT ![ProcessOf(j)] = j]
      \/ /\ pc[j] = "flock" /\ l = "load" /\ UNCHANGED <<mu, snap, run>>
         /\ flock = None /\ flock' = j
      \/ /\ pc[j] = "load" /\ l = "rename" /\ UNCHANGED <<mu, flock>>
         /\ snap' = [snap EXCEPT ![j] = index]
      \/ /\ pc[j] \in Locked /\ l \in {"idle", "done", "failed"} /\ Release(j)
         /\ UNCHANGED run
  BY <1>2, <1>3 DEF Lock, acquireFileLock, loadLocked, StoreFails, FlockFree, Locked, Goto
<1>5. TypeOK'
  <2>1. mu' \in [Process -> Jobs \cup {None}] /\ flock' \in Jobs \cup {None}
    BY <1>2, <1>4 DEF Release, Inv, TypeOK
  <2>2. snap' \in [Jobs -> Index \cup {None}]
    BY DEF Lock, acquireFileLock, loadLocked, StoreFails, Inv, TypeOK
  <2>3. run' \in [Jobs -> Runs \cup {None}]
    BY DEF Lock, acquireFileLock, loadLocked, StoreFails, Inv, TypeOK, Waiting,
           Queued
  <2>4. faults' \in 0..MaxFaults
    BY LimitsAssumption
       DEF Lock, acquireFileLock, loadLocked, StoreFails, Inv, TypeOK
  <2>5. pc' \in [Jobs -> JobPC]
    BY <1>2, <1>3 DEF JobPC
  <2> QED
    BY <1>1, <2>1, <2>2, <2>3, <2>4, <2>5 DEF Inv, TypeOK, JobPC
<1>6. LocksHeld'
  <2> SUFFICES ASSUME NEW k \in Jobs
               PROVE  /\ pc'[k] \in Inside => mu'[ProcessOf(k)] = k
                      /\ pc'[k] \in Locked => flock' = k
    BY DEF LocksHeld
  <2>1. /\ pc[k] \in Inside => mu[ProcessOf(k)] = k
        /\ pc[k] \in Locked => flock = k
        /\ pc[j] \in Inside => mu[ProcessOf(j)] = j
        /\ pc[j] \in Locked => flock = j
        /\ ProcessOf(k) \in Process /\ k # None
    BY JobKinds DEF Inv, LocksHeld
  <2>2. CASE k = j
    BY <2>2, <2>1, <1>2, <1>3, <1>4 DEF Inside, Locked, Release
  <2>3. CASE k # j
    BY <2>3, <2>1, <1>2, <1>3, <1>4 DEF Inside, Locked, Release
  <2> QED
    BY <2>2, <2>3
<1>7. CopyIsCurrent'
  <2>1. \A k \in Jobs : k # j => snap'[k] = snap[k] /\ pc'[k] = pc[k]
    BY <1>2, <1>3 DEF Lock, acquireFileLock, loadLocked, StoreFails, Inv, TypeOK
  <2>2. pc'[j] = "rename" => snap'[j] = index
    BY <1>2, <1>3, <1>4 DEF Inv, TypeOK
  <2> QED
    BY <1>1, <2>1, <2>2 DEF Inv, CopyIsCurrent
<1>8. \A k \in Jobs : k # j => pc'[k] = pc[k]
  BY <1>2, <1>3
<1>9. RunOfJob'
  <2>1. \A k \in Jobs : run'[k] = run[k] \/ (k = Worker /\ j = Worker)
    BY JobKinds DEF Lock, acquireFileLock, loadLocked, StoreFails, Inv, TypeOK
  <2>2. ASSUME NEW r \in Runs, j = <<"start", r>>, l = "rename"
        PROVE  index.runs[r] = "QUEUED"
    <3>1. pc[j] = "load" /\ pc'[j] = "rename" /\ run[j] = r
      BY <2>2, <1>2, <1>3, <1>4 DEF Inv, RunOfJob, Locked
    <3>2. loadLocked(j)
      BY <3>1, <1>2 DEF Lock, acquireFileLock, StoreFails, Goto, Worker
    <3> QED
      BY <2>2, <3>1, <3>2, <1>2 DEF loadLocked, Queued, Goto
  <2>3. ASSUME j = Worker, l = "rename"
        PROVE  run'[Worker] \in Runs /\ index.runs[run'[Worker]] = "QUEUED"
    <3>1. pc[j] = "load" /\ pc'[j] = "rename"
      BY <2>3, <1>2, <1>3, <1>4 DEF Locked
    <3>2. loadLocked(j)
      BY <3>1, <1>2 DEF Lock, acquireFileLock, StoreFails, Goto
    <3> QED
      BY <2>3, <3>1, <3>2 DEF loadLocked, Queued, Waiting, Worker, Inv, TypeOK, Goto
  <2> QED
    BY <1>1, <1>2, <1>3, <1>8, <2>1, <2>2, <2>3, JobKinds DEF Inv, RunOfJob
<1>10. /\ pc[j] \in Storing
       /\ pc'[j] \in Storing \cup {"idle", "done", "failed"}
       /\ pc'[j] = "idle" => j = Worker
       /\ pc'[j] = "done" => \E r \in Runs : /\ j = <<"start", r>>
                                            /\ index.runs[r] = "FINISHED"
  <2>1. pc[j] \in Storing /\ pc'[j] = l
    BY <1>2, <1>3, <1>4 DEF Storing, Locked
  <2>2. l = "idle" => j = Worker
    BY <2>1, JobKinds DEF Lock, acquireFileLock, loadLocked, StoreFails, Goto, Inv, TypeOK, Worker
  <2>3. l = "done" => j[1] = "start" /\ index.runs[run[j]] = "FINISHED"
    BY <2>1, <1>2 DEF Lock, acquireFileLock, loadLocked, StoreFails, Goto
  <2>4. j[1] = "start" => \E r \in Runs : j = <<"start", r>> /\ run[j] = r
    <3> SUFFICES ASSUME j[1] = "start"
                 PROVE  \E r \in Runs : j = <<"start", r>> /\ run[j] = r
      OBVIOUS
    <3>1. PICK r \in Runs : j = <<"start", r>>
      BY JobOfKind
    <3> QED
      BY <3>1 DEF Inv, RunOfJob
  <2> QED
    BY <2>1, <2>2, <2>3, <2>4 DEF Storing
<1>11. SubmitInv'
  <2> SUFFICES ASSUME NEW s \in Subs
               PROVE  /\ s \in index.subs <=> pc'[<<"submit", s>>] = "done"
                      /\ pc'[<<"submit", s>>] \in Storing \cup {"done"}
                           => file[s] = "whole"
    BY <1>1 DEF SubmitInv
  <2>1. CASE j = <<"submit", s>>
    BY <2>1, <1>10, JobKinds DEF Inv, SubmitInv, Storing
  <2>2. CASE j # <<"submit", s>>
    BY <2>2, <1>8, JobKinds DEF Inv, SubmitInv
  <2> QED
    BY <2>1, <2>2
<1>12. CreateInv'
  <2> SUFFICES ASSUME NEW r \in Runs
               PROVE  /\ index.runs[r] # "absent" <=> pc'[<<"create", r>>] = "done"
                      /\ pc'[<<"create", r>>] \in Storing \cup {"done"}
                           => SubOf[r] \in index.subs
                      /\ con[r] = "idle" => pc'[<<"create", r>>] = "idle"
    BY <1>1 DEF CreateInv
  <2>1. CASE j = <<"create", r>>
    BY <2>1, <1>10, JobKinds DEF Inv, CreateInv, Storing
  <2>2. CASE j # <<"create", r>>
    BY <2>2, <1>8, JobKinds DEF Inv, CreateInv
  <2> QED
    BY <2>1, <2>2
<1>13. SaveInv'
  BY <1>1, <1>8, <1>10, JobKinds DEF Inv, SaveInv, Storing
<1>14. StartInv'
  <2> SUFFICES ASSUME NEW r \in Runs, pc'[<<"start", r>>] = "done"
               PROVE  index.runs[r] \in {"BUILDING", "FINISHED"}
    BY <1>1 DEF StartInv, Inv
  <2>1. CASE j = <<"start", r>>
    BY <2>1, <1>10
  <2>2. CASE j # <<"start", r>>
    BY <2>2, <1>8, JobKinds DEF Inv, StartInv
  <2> QED
    BY <2>1, <2>2
<1> QED
  BY <1>5, <1>6, <1>7, <1>9, <1>11, <1>12, <1>13, <1>14 DEF Inv

\* The rename is one operation of the atomic index, on the index as it is.
LEMMA WriteIsAtomic ==
  ASSUME Inv, NEW j \in Jobs, writeLocked(j)
  PROVE  /\ index' \in Index
         /\ \/ \E s \in Subs : j = <<"submit", s>> /\ Atomic!SaveSubmission(s)
            \/ \E r \in Runs : j = <<"create", r>> /\ Atomic!CreateRun(r)
            \/ \E r \in Runs : j = <<"save", r>> /\ Atomic!SaveRun(r)
            \/ \E r \in Runs : /\ j = <<"start", r>> \/ j = Worker
                               /\ run[j] = r /\ Atomic!ClaimRun(r)
<1>1. pc[j] = "rename" /\ index' = Edited(j) /\ snap[j] = index /\ index \in Index
  BY DEF writeLocked, Inv, CopyIsCurrent, TypeOK
<1>2. CASE \E s \in Subs : j = <<"submit", s>>
  <2>1. PICK s \in Subs : j = <<"submit", s>>
    BY <1>2
  <2>2. s \notin index.subs
    BY <1>1, <2>1 DEF Inv, SubmitInv
  <2>3. j[1] = "submit" /\ j[2] = s
    BY <2>1
  <2>4. index' \in Index /\ Atomic!SaveSubmission(s)
    BY <1>1, <2>2, <2>3, EditedIndex DEF Atomic!SaveSubmission
  <2> QED
    BY <2>1, <2>4
<1>3. CASE \E r \in Runs : j = <<"create", r>>
  <2>1. PICK r \in Runs : j = <<"create", r>>
    BY <1>3
  <2>2. run[j] = r /\ j[1] = "create"
    BY <2>1 DEF Inv, RunOfJob
  <2>3. index.runs[r] = "absent" /\ SubOf[r] \in index.subs
    BY <1>1, <2>1 DEF Inv, CreateInv, Storing
  <2>4. index' \in Index /\ Atomic!CreateRun(r)
    BY <1>1, <2>2, <2>3, EditedIndex DEF Atomic!CreateRun, Atomic!Set
  <2> QED
    BY <2>1, <2>4
<1>4. CASE \E r \in Runs : j = <<"save", r>>
  <2>1. PICK r \in Runs : j = <<"save", r>>
    BY <1>4
  <2>2. run[j] = r /\ j[1] = "save"
    BY <2>1 DEF Inv, RunOfJob
  <2>3. index.runs[r] = "BUILDING"
    BY <1>1, <2>1 DEF Inv, SaveInv, Storing
  <2>4. index' \in Index /\ Atomic!SaveRun(r)
    BY <1>1, <2>2, <2>3, EditedIndex DEF Atomic!SaveRun, Atomic!Set
  <2> QED
    BY <2>1, <2>4
<1>5. CASE (\E r \in Runs : j = <<"start", r>>) \/ j = Worker
  <2>1. PICK r \in Runs : run[j] = r /\ (j = <<"start", r>> \/ j = Worker)
    BY <1>1, <1>5 DEF Inv, RunOfJob
  <2>2. j[1] \in {"start", "claim"}
    BY <1>5, JobOfKind
  <2>3. index.runs[r] = "QUEUED"
    BY <1>1, <2>1 DEF Inv, RunOfJob
  <2>4. index' \in Index /\ Atomic!ClaimRun(r)
    BY <1>1, <2>1, <2>2, <2>3, EditedIndex DEF Atomic!ClaimRun, Atomic!Set
  <2> QED
    BY <2>1, <2>4
<1> QED
  BY <1>2, <1>3, <1>4, <1>5, JobKinds

\* Renaming keeps the invariant: nobody else holds the file lock, so no other
\* copy is made stale, and what the job's place says of the index stays true.
LEMMA WriteKeepsInv ==
  ASSUME Inv, NEW j \in Jobs, writeLocked(j)
  PROVE  Inv'
<1>1. /\ pc \in [Jobs -> JobPC] /\ ProcessOf(j) \in Process /\ j # None
      /\ mu \in [Process -> Jobs \cup {None}] /\ pc[j] = "rename"
      /\ UNCHANGED <<file, up, run, con, faults>> /\ Release(j)
  BY JobKinds DEF Inv, TypeOK, JobPC, writeLocked
<1>2. flock = j /\ mu[ProcessOf(j)] = j
  BY <1>1 DEF Inv, LocksHeld, Inside, Locked
<1>3. /\ pc'[j] = IF j = Worker THEN "idle" ELSE "done"
      /\ \A k \in Jobs : k # j =>
           pc'[k] = IF j[1] \in {"start", "claim"} /\ k = <<"save", run[j]>>
                      THEN "mu" ELSE pc[k]
      /\ pc' \in [Jobs -> JobPC]
  BY <1>1 DEF writeLocked, JobPC
<1>4. index' \in Index
  BY WriteIsAtomic
<1>5. TypeOK'
  <2>1. snap' \in [Jobs -> Index \cup {None}]
    BY DEF writeLocked, Inv, TypeOK
  <2>2. mu' \in [Process -> Jobs \cup {None}] /\ flock' \in Jobs \cup {None}
    BY <1>1 DEF Release
  <2> QED
    BY <1>1, <1>3, <1>4, <2>1, <2>2 DEF Inv, TypeOK, JobPC
<1>6. LocksHeld'
  <2> SUFFICES ASSUME NEW k \in Jobs
               PROVE  /\ pc'[k] \in Inside => mu'[ProcessOf(k)] = k
                      /\ pc'[k] \in Locked => flock' = k
    BY DEF LocksHeld
  <2>1. pc'[k] \in Inside => k # j /\ pc'[k] = pc[k]
    BY <1>3 DEF Inside
  <2>2. k # j /\ pc[k] \in Inside => mu[ProcessOf(k)] = k /\ ProcessOf(k) # ProcessOf(j)
    BY <1>2 DEF Inv, LocksHeld
  <2>3. ProcessOf(k) # ProcessOf(j) => mu'[ProcessOf(k)] = mu[ProcessOf(k)]
    BY <1>1, JobKinds DEF Release
  <2>4. k # j => pc[k] \notin Locked
    BY <1>2 DEF Inv, LocksHeld
  <2> QED
    BY <2>1, <2>2, <2>3, <2>4 DEF Inside, Locked
<1>7. \A k \in Jobs : pc'[k] # "rename"
  BY <1>2, <1>3 DEF Inv, LocksHeld, Locked
<1>8. CopyIsCurrent'
  BY <1>7 DEF CopyIsCurrent
<1>9. RunOfJob'
  BY <1>1, <1>7, JobKinds DEF Inv, RunOfJob
<1>10. index.runs \in [Runs -> Atomic!Status] /\ index'.runs \in [Runs -> Atomic!Status]
  BY <1>4 DEF Inv, TypeOK, Index
<1>11. SubmitInv /\ CreateInv /\ SaveInv /\ StartInv
  BY DEF Inv
<1>12. CASE \E s \in Subs : j = <<"submit", s>> /\ Atomic!SaveSubmission(s)
  <2>1. PICK s \in Subs : j = <<"submit", s>> /\ Atomic!SaveSubmission(s)
    BY <1>12
  <2>2. pc'[j] = "done" /\ \A k \in Jobs : k # j => pc'[k] = pc[k]
    BY <2>1, <1>3, JobKinds
  <2>3. index'.runs = index.runs /\ index'.subs = index.subs \cup {s}
    BY <2>1 DEF Atomic!SaveSubmission
  <2>4. \A r \in Runs, k \in {"create", "start", "save"} : pc'[<<k, r>>] = pc[<<k, r>>]
    BY <2>1, <2>2, JobKinds
  <2>5. SubmitInv'
    <3> SUFFICES ASSUME NEW t \in Subs
                 PROVE  /\ t \in index'.subs <=> pc'[<<"submit", t>>] = "done"
                        /\ pc'[<<"submit", t>>] \in Storing \cup {"done"}
                             => file[t] = "whole"
      BY <1>1 DEF SubmitInv
    <3>1. CASE t = s
      BY <3>1, <2>1, <2>2, <2>3, <1>1, <1>11 DEF SubmitInv, Storing
    <3>2. CASE t # s
      BY <3>2, <2>1, <2>2, <2>3, <1>11, JobKinds DEF SubmitInv
    <3> QED
      BY <3>1, <3>2
  <2>6. CreateInv'
    BY <1>1, <1>11, <2>3, <2>4 DEF CreateInv
  <2>7. SaveInv' /\ StartInv'
    BY <1>1, <1>11, <2>3, <2>4 DEF SaveInv, StartInv
  <2> QED
    BY <1>5, <1>6, <1>8, <1>9, <2>5, <2>6, <2>7 DEF Inv
<1>13. CASE \E r \in Runs : j = <<"create", r>> /\ Atomic!CreateRun(r)
  <2>1. PICK r \in Runs : j = <<"create", r>> /\ Atomic!CreateRun(r)
    BY <1>13
  <2>2. pc'[j] = "done" /\ \A k \in Jobs : k # j => pc'[k] = pc[k]
    BY <2>1, <1>3, JobKinds
  <2>3. /\ index'.runs[r] = "QUEUED"
        /\ \A q \in Runs : q # r => index'.runs[q] = index.runs[q]
        /\ index.runs[r] = "absent" /\ SubOf[r] \in index.subs
        /\ index'.subs = index.subs
    BY <1>10, <2>1 DEF Atomic!CreateRun, Atomic!Set
  <2>4. /\ \A s \in Subs : pc'[<<"submit", s>>] = pc[<<"submit", s>>]
        /\ \A q \in Runs, k \in {"start", "save"} : pc'[<<k, q>>] = pc[<<k, q>>]
        /\ \A q \in Runs : q # r => pc'[<<"create", q>>] = pc[<<"create", q>>]
    BY <2>1, <2>2, JobKinds
  <2>5. SubmitInv'
    BY <1>1, <1>11, <2>3, <2>4 DEF SubmitInv
  <2>6. CreateInv'
    <3> SUFFICES ASSUME NEW q \in Runs
                 PROVE  /\ index'.runs[q] # "absent" <=> pc'[<<"create", q>>] = "done"
                        /\ pc'[<<"create", q>>] \in Storing \cup {"done"}
                             => SubOf[q] \in index.subs
                        /\ con[q] = "idle" => pc'[<<"create", q>>] = "idle"
      BY <1>1, <2>3 DEF CreateInv
    <3>1. CASE q = r
      BY <3>1, <1>1, <1>11, <2>1, <2>2, <2>3 DEF CreateInv
    <3>2. CASE q # r
      BY <3>2, <1>11, <2>3, <2>4 DEF CreateInv
    <3> QED
      BY <3>1, <3>2
  <2>7. SaveInv'
    BY <1>1, <1>11, <2>3, <2>4 DEF SaveInv, Storing
  <2>8. StartInv'
    BY <1>1, <1>11, <2>3, <2>4 DEF StartInv
  <2> QED
    BY <1>5, <1>6, <1>8, <1>9, <2>5, <2>6, <2>7, <2>8 DEF Inv
<1>14. CASE \E r \in Runs : j = <<"save", r>> /\ Atomic!SaveRun(r)
  <2>1. PICK r \in Runs : j = <<"save", r>> /\ Atomic!SaveRun(r)
    BY <1>14
  <2>2. pc'[j] = "done" /\ \A k \in Jobs : k # j => pc'[k] = pc[k]
    BY <2>1, <1>3, JobKinds
  <2>3. /\ index'.runs[r] = "FINISHED"
        /\ \A q \in Runs : q # r => index'.runs[q] = index.runs[q]
        /\ index.runs[r] = "BUILDING" /\ index'.subs = index.subs
    BY <1>10, <2>1 DEF Atomic!SaveRun, Atomic!Set
  <2>4. /\ \A s \in Subs : pc'[<<"submit", s>>] = pc[<<"submit", s>>]
        /\ \A q \in Runs, k \in {"create", "start"} : pc'[<<k, q>>] = pc[<<k, q>>]
        /\ \A q \in Runs : q # r => pc'[<<"save", q>>] = pc[<<"save", q>>]
    BY <2>1, <2>2, JobKinds
  <2>5. SubmitInv'
    BY <1>1, <1>11, <2>3, <2>4 DEF SubmitInv
  <2>6. CreateInv'
    BY <1>1, <1>11, <2>3, <2>4 DEF CreateInv
  <2>7. SaveInv'
    BY <1>1, <1>11, <2>1, <2>2, <2>3, <2>4 DEF SaveInv, Storing
  <2>8. StartInv'
    BY <1>1, <1>11, <2>3, <2>4 DEF StartInv
  <2> QED
    BY <1>5, <1>6, <1>8, <1>9, <2>5, <2>6, <2>7, <2>8 DEF Inv
<1>15. CASE \E r \in Runs : /\ j = <<"start", r>> \/ j = Worker
                            /\ run[j] = r /\ Atomic!ClaimRun(r)
  <2>1. PICK r \in Runs : /\ j = <<"start", r>> \/ j = Worker
                          /\ run[j] = r /\ Atomic!ClaimRun(r)
    BY <1>15
  <2>2. j[1] \in {"start", "claim"} /\ <<"save", r>> \in Jobs /\ <<"save", r>> # j
    <3>1. j[1] \in {"start", "claim"}
      BY <2>1, JobOfKind
    <3>2. <<"save", r>> \in Jobs /\ <<"save", r>> # Worker
      BY JobKinds
    <3>3. <<"save", r>> # <<"start", r>>
      OBVIOUS
    <3> QED
      BY <2>1, <3>1, <3>2, <3>3
  <2>3. /\ index'.runs[r] = "BUILDING"
        /\ \A q \in Runs : q # r => index'.runs[q] = index.runs[q]
        /\ index.runs[r] = "QUEUED" /\ index'.subs = index.subs
    BY <1>10, <2>1 DEF Atomic!ClaimRun, Atomic!Set
  <2>4. /\ \A k \in Jobs : k # j /\ k # <<"save", r>> => pc'[k] = pc[k]
        /\ pc'[<<"save", r>>] = "mu"
    BY <2>1, <2>2, <1>3
  <2>5. /\ \A s \in Subs : pc'[<<"submit", s>>] = pc[<<"submit", s>>]
        /\ \A q \in Runs : pc'[<<"create", q>>] = pc[<<"create", q>>]
        /\ \A q \in Runs : q # r => pc'[<<"save", q>>] = pc[<<"save", q>>]
        /\ \A q \in Runs : q # r => pc'[<<"start", q>>] = pc[<<"start", q>>]
    <3>1. CASE j = Worker
      BY <3>1, <2>4, JobKinds
    <3>2. CASE j = <<"start", r>>
      BY <3>2, <2>4, JobKinds
    <3> QED
      BY <2>1, <3>1, <3>2
  <2>6. SubmitInv'
    BY <1>1, <1>11, <2>3, <2>5 DEF SubmitInv
  <2>7. CreateInv'
    BY <1>1, <1>11, <2>3, <2>5 DEF CreateInv
  <2>8. SaveInv'
    BY <1>1, <1>11, <2>3, <2>4, <2>5 DEF SaveInv, Storing
  <2>9. StartInv'
    BY <1>1, <1>11, <2>3, <2>5 DEF StartInv
  <2> QED
    BY <1>5, <1>6, <1>8, <1>9, <2>6, <2>7, <2>8, <2>9 DEF Inv
<1> QED
  BY <1>12, <1>13, <1>14, <1>15, WriteIsAtomic

-----------------------------------------------------------------------------
\* Every reachable state satisfies the invariant, through any number of crashes,
\* failed writes and lost answers.
THEOREM InvHolds == Spec => []Inv
<1>1. Inv /\ [Next]_vars => Inv'
  <2> SUFFICES ASSUME Inv, [Next]_vars PROVE Inv'
    OBVIOUS
  <2>1. CASE \E s \in Subs :
               CreateSubmission(s)
                 \/ \E complete \in BOOLEAN : copyWithContext(s, complete)
    BY <2>1, UploadKeepsInv
  <2>2. CASE \E j \in Jobs : Step(j) \/ StoreFails(j)
    BY <2>2, StoreKeepsInv, WriteKeepsInv DEF Step
  <2>3. CASE \E r \in Runs : createRun(r) \/ CreateRun(r) \/ start(r) \/ doJSON(r)
                             \/ GiveUp(r)
    BY <2>3, RequestKeepsInv
  <2>4. CASE StartNextQueued
    BY <2>4, ClaimLoopKeepsInv
  <2>5. CASE \E p \in Process : Crash(p) \/ Restart(p)
    BY <2>5, CrashKeepsInv
  <2>6. CASE UNCHANGED vars
    BY <2>6 DEF vars, Inv, TypeOK, LocksHeld, CopyIsCurrent, RunOfJob, SubmitInv,
                CreateInv, SaveInv, StartInv
  <2> QED
    BY <2>1, <2>2, <2>3, <2>4, <2>5, <2>6 DEF Next
<1> QED
  BY <1>1, InitInv, PTL DEF Spec

\* Every variable of the two stores keeps its type.
THEOREM TypeCorrect == Spec => []TypeOK
<1>1. Inv => TypeOK
  BY DEF Inv
<1> QED
  BY <1>1, InvHolds, PTL

\* A 201 answer means the submission is indexed, and a 202 that the run was
\* claimed: nothing acknowledged is lost under a rename of the other process.
THEOREM AcknowledgedIsKept == Spec => []AcknowledgedSurvives
<1>1. Inv => AcknowledgedSurvives
  BY DEF Inv, SubmitInv, StartInv, AcknowledgedSurvives
<1> QED
  BY <1>1, InvHolds, PTL

\* An indexed submission has its whole artifact file, and an indexed run its
\* submission.
THEOREM ArtifactIsWhole == Spec => []IndexedArtifactIsWhole
<1>1. Inv => IndexedArtifactIsWhole
  BY DEF Inv, TypeOK, Index, SubmitInv, CreateInv, IndexedArtifactIsWhole
<1> QED
  BY <1>1, InvHolds, PTL

\* Two processes that load, edit and rename under the flock implement an index
\* that changes in one step.
THEOREM StoresAreAtomic == Spec => ImplementsAtomicIndex
<1>1. Init => Atomic!Init
  BY DEF Init, Atomic!Init
<1>2. Inv /\ [Next]_vars => [Atomic!Next]_Atomic!vars
  <2> SUFFICES ASSUME Inv, [Next]_vars PROVE Atomic!Next \/ UNCHANGED Atomic!vars
    OBVIOUS
  <2>1. CASE \E j \in Jobs : writeLocked(j)
    <3>1. PICK j \in Jobs : writeLocked(j)
      BY <2>1
    <3> QED
      BY <3>1, WriteIsAtomic DEF Atomic!Next
  <2>2. CASE ~ \E j \in Jobs : writeLocked(j)
    <3>1. index' = index
      BY <2>2 DEF Next, vars, Step, CreateSubmission, copyWithContext, Lock,
                  acquireFileLock, loadLocked, StoreFails, StartNextQueued,
                  createRun, CreateRun, start, doJSON, GiveUp, Crash, Restart
    <3> QED
      BY <3>1 DEF Atomic!vars
  <2> QED
    BY <2>1, <2>2
<1> QED
  BY <1>1, <1>2, InvHolds, PTL DEF Spec, ImplementsAtomicIndex, Atomic!Spec

=============================================================================
