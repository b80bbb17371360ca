------------------------------- MODULE Sandbox -------------------------------
(***************************************************************************)
(* What a caller of sandbox-runner relies on, whichever runner is behind   *)
(* the interface Runner of model.go: an engine comes up once, its handle   *)
(* is handed out only after it came up, and a stop is confirmed only when  *)
(* it is gone.  A caller that gets an error learns nothing.                *)
(***************************************************************************)
CONSTANTS
  Starts,   \* start requests, and the sandboxes they make
  Stops     \* stop requests

VARIABLES
  engine,   \* the engine of each sandbox
  handed,   \* sandboxes whose handle was returned by Start
  confirmed \* the sandbox whose end each Stop has confirmed, if any

vars == <<engine, handed, confirmed>>

NoSandbox == "none"

Init ==
  /\ engine = [s \in Starts |-> "none"]
  /\ handed = {}
  /\ confirmed = [t \in Stops |-> NoSandbox]

ComesUp(s) ==
  /\ engine[s] = "none"
  /\ engine' = [engine EXCEPT ![s] = "up"]
  /\ UNCHANGED <<handed, confirmed>>

Ends(s) ==
  /\ engine[s] = "up"
  /\ engine' = [engine EXCEPT ![s] = "gone"]
  /\ UNCHANGED <<handed, confirmed>>

HandsOut(s) ==
  /\ engine[s] # "none" /\ s \notin handed
  /\ handed' = handed \cup {s}
  /\ UNCHANGED <<engine, confirmed>>

Confirms(t, s) ==
  /\ engine[s] = "gone" /\ s \in handed /\ confirmed[t] = NoSandbox
  /\ \A u \in Stops : confirmed[u] # s
  /\ confirmed' = [confirmed EXCEPT ![t] = s]
  /\ UNCHANGED <<engine, handed>>

Next ==
  \/ \E s \in Starts : ComesUp(s) \/ Ends(s) \/ HandsOut(s)
  \/ \E s \in Starts, t \in Stops : Confirms(t, s)

Spec == Init /\ [][Next]_vars
=============================================================================
