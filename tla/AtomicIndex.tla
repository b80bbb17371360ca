----------------------------- MODULE AtomicIndex ----------------------------
(***************************************************************************)
(* The index of submissions and runs as its users think of it: every        *)
(* operation of the two stores reads and writes the whole index in one      *)
(* step.  The Orchestrator module relies on this.                           *)
(***************************************************************************)
CONSTANTS Subs, Runs, SubOf

VARIABLES subs, runs

vars == <<subs, runs>>

Status == {"absent", "QUEUED", "BUILDING", "FINISHED"}

Init == subs = {} /\ runs = [r \in Runs |-> "absent"]

SaveSubmission(s) == s \notin subs /\ subs' = subs \cup {s} /\ UNCHANGED runs

Set(r, status) == runs' = [runs EXCEPT ![r] = status] /\ UNCHANGED subs

CreateRun(r) == runs[r] = "absent" /\ SubOf[r] \in subs /\ Set(r, "QUEUED")
ClaimRun(r) == runs[r] = "QUEUED" /\ Set(r, "BUILDING")
SaveRun(r) == runs[r] = "BUILDING" /\ Set(r, "FINISHED")

Next ==
  \/ \E s \in Subs : SaveSubmission(s)
  \/ \E r \in Runs : CreateRun(r) \/ ClaimRun(r) \/ SaveRun(r)

Spec == Init /\ [][Next]_vars
=============================================================================
