---------------------------- MODULE Leaderboard -----------------------------
(***************************************************************************)
(* The file-backed leaderboard of services/leaderboard-api (board.go), the *)
(* WebSocket loop that serves it (main.go) and the page that shows it      *)
(* (web/src/useLeaderboard.ts).  Upserts change the board under its mutex  *)
(* and broadcast after the unlock; a subscriber is registered under the    *)
(* mutex and seeded after the unlock.                                      *)
(*                                                                         *)
(* The upserts are numbered in the order in which they take the mutex.  An *)
(* entry is the number of the upsert that wrote it, and a snapshot (the    *)
(* ranking is a function of the entries) the number of the last upsert     *)
(* before it.                                                              *)
(***************************************************************************)
EXTENDS Naturals, Sequences

CONSTANTS
  Runs,        \* keys of the board
  Upserters,   \* concurrent POST requests
  Conns,       \* WebSocket connections; a page that reconnects is a new one
  Cap,         \* buffer of a subscriber's channel, 8 in the code
  MaxUpserts,  \* bound on the upserts
  Faults       \* subset of {"disk", "crash"}

ASSUME RunsAssumption == Runs # {}
ASSUME CapAssumption == Cap \in Nat \ {0}
ASSUME MaxUpsertsAssumption == MaxUpserts \in Nat
ASSUME BoardFaultsAssumption == Faults \subseteq {"disk", "crash"}

VARIABLES
  entries,     \* b.entries: number of the last upsert of each run, 0 if none
  file,        \* the same, in leaderboard.json
  version,     \* number of upserts so far
  subscribers, \* b.subscribers
  upc,         \* Upsert requests: control point,
  urun, payload, \* the run and the snapshot to broadcast,
  targets,     \* the subscribers still to be served
  saved,       \* and whether writeLocked succeeded
  acked,       \* last upsert of each run that was answered without an error
  wpc,         \* WebSocket handlers: control point,
  seed,        \* the snapshot taken when subscribing
  buffer,      \* and the channel
  shown        \* what the page shows, 0 for nothing yet

boardv  == <<entries, file, version>>
upsertv == <<upc, urun, payload, targets, saved, acked>>
connv   == <<wpc, seed, buffer, shown>>
vars    == <<boardv, subscribers, upsertv, connv>>

Snapshot == 0..MaxUpserts

TypeOK ==
  /\ entries \in [Runs -> Snapshot] /\ file \in [Runs -> Snapshot]
  /\ version \in Snapshot
  /\ subscribers \in SUBSET Conns
  /\ upc \in [Upserters -> {"idle", "send"}]
  /\ urun \in [Upserters -> Runs]
  /\ payload \in [Upserters -> Snapshot]
  /\ targets \in [Upserters -> SUBSET Conns]
  /\ saved \in [Upserters -> BOOLEAN]
  /\ acked \in [Runs -> Snapshot]
  /\ wpc \in [Conns -> {"new", "seed", "open", "closed"}]
  /\ seed \in [Conns -> Snapshot]
  /\ buffer \in [Conns -> Seq(Snapshot)]
  /\ \A c \in Conns : Len(buffer[c]) <= Cap
  /\ shown \in [Conns -> Snapshot]

Init ==
  /\ entries = [r \in Runs |-> 0] /\ file = [r \in Runs |-> 0]
  /\ version = 0
  /\ subscribers = {}
  /\ upc = [u \in Upserters |-> "idle"]
  /\ urun = [u \in Upserters |-> CHOOSE r \in Runs : TRUE]
  /\ payload = [u \in Upserters |-> 0]
  /\ targets = [u \in Upserters |-> {}]
  /\ saved = [u \in Upserters |-> FALSE]
  /\ acked = [r \in Runs |-> 0]
  /\ wpc = [c \in Conns |-> "new"]
  /\ seed = [c \in Conns |-> 0]
  /\ buffer = [c \in Conns |-> <<>>]
  /\ shown = [c \in Conns |-> 0]

-----------------------------------------------------------------------------
(* Upsert *)

\* Mutant: the file is written before the entry is put in its place.
WriteOld(new) == file' = entries

\* writeLocked: a temporary file that is renamed, so all or nothing.
WriteLocked(new) == file' = new

\* The critical section: entry, snapshot, file, list of subscribers.
Upsert(u, r) ==
  /\ upc[u] = "idle" /\ version < MaxUpserts
  /\ version' = version + 1
  /\ entries' = [entries EXCEPT ![r] = version + 1]
  /\ \/ WriteLocked(entries') /\ saved' = [saved EXCEPT ![u] = TRUE]
     \/ /\ "disk" \in Faults
        /\ saved' = [saved EXCEPT ![u] = FALSE] /\ UNCHANGED file
  /\ urun' = [urun EXCEPT ![u] = r]
  /\ payload' = [payload EXCEPT ![u] = version + 1]
  /\ targets' = [targets EXCEPT ![u] = subscribers]
  /\ upc' = [upc EXCEPT ![u] = "send"]
  /\ UNCHANGED <<subscribers, acked, connv>>

\* Mutant: a send that blocks while the buffer is full.
BlockingSend(c, snapshot) ==
  Len(buffer[c]) < Cap /\ buffer' = [buffer EXCEPT ![c] = Append(@, snapshot)]

\* A send in a select with a default branch.
Send(c, snapshot) ==
  buffer' = [buffer EXCEPT ![c] =
               IF Len(@) < Cap THEN Append(@, snapshot) ELSE @]

\* The broadcast, in the arbitrary order of the map; the channel may have been
\* unregistered in the meantime.
Broadcast(u, c) ==
  /\ upc[u] = "send" /\ c \in targets[u]
  /\ Send(c, payload[u])
  /\ targets' = [targets EXCEPT ![u] = @ \ {c}]
  /\ UNCHANGED <<boardv, subscribers, upc, urun, payload, saved, acked,
                 wpc, seed, shown>>

\* The answer to the request; a failed write is reported, yet the entry stays.
Return(u) ==
  /\ upc[u] = "send" /\ targets[u] = {}
  /\ acked' = IF saved[u] /\ payload[u] > acked[urun[u]]
                THEN [acked EXCEPT ![urun[u]] = payload[u]] ELSE acked
  /\ upc' = [upc EXCEPT ![u] = "idle"]
  /\ UNCHANGED <<boardv, subscribers, urun, payload, targets, saved, connv>>

-----------------------------------------------------------------------------
(* A WebSocket connection *)

\* The critical section of Subscribe.
Subscribe(c) ==
  /\ wpc[c] = "new"
  /\ subscribers' = subscribers \cup {c}
  /\ seed' = [seed EXCEPT ![c] = version]
  /\ wpc' = [wpc EXCEPT ![c] = "seed"]
  /\ UNCHANGED <<boardv, upsertv, buffer, shown>>

\* Mutant: the seed is taken to be unnecessary.
SeedOmitted(c) ==
  /\ wpc[c] = "seed"
  /\ wpc' = [wpc EXCEPT ![c] = "open"]
  /\ UNCHANGED <<boardv, subscribers, upsertv, seed, buffer, shown>>

\* seedSubscriber, after the unlock.
SeedSubscriber(c) ==
  /\ wpc[c] = "seed"
  /\ Send(c, seed[c])
  /\ wpc' = [wpc EXCEPT ![c] = "open"]
  /\ UNCHANGED <<boardv, subscribers, upsertv, seed, shown>>

\* The page replaces what it shows by what it receives.
Replace(c, snapshot) == shown' = [shown EXCEPT ![c] = snapshot]

\* The writer loop passes a snapshot on.
Deliver(c) ==
  /\ wpc[c] = "open" /\ buffer[c] # <<>>
  /\ Replace(c, Head(buffer[c]))
  /\ buffer' = [buffer EXCEPT ![c] = Tail(@)]
  /\ UNCHANGED <<boardv, subscribers, upsertv, wpc, seed>>

\* The loop ends (failed write or ping, server going down) and unregisters.
Close(c) ==
  /\ wpc[c] = "open"
  /\ wpc' = [wpc EXCEPT ![c] = "closed"]
  /\ subscribers' = subscribers \ {c}
  /\ UNCHANGED <<boardv, upsertv, seed, buffer, shown>>

\* The process dies and is started again: load reads the file.
Restart ==
  /\ "crash" \in Faults
  /\ entries' = file
  /\ subscribers' = {}
  /\ upc' = [u \in Upserters |-> "idle"]
  /\ targets' = [u \in Upserters |-> {}]
  /\ wpc' = [c \in Conns |-> IF wpc[c] = "new" THEN "new" ELSE "closed"]
  /\ UNCHANGED <<file, version, urun, payload, saved, acked, seed, buffer, shown>>

-----------------------------------------------------------------------------

UpsertStep(u) == (\E c \in Conns : Broadcast(u, c)) \/ Return(u)

Next ==
  \/ \E u \in Upserters : (\E r \in Runs : Upsert(u, r)) \/ UpsertStep(u)
  \/ \E c \in Conns : \/ Subscribe(c) \/ SeedSubscriber(c) \/ Deliver(c)
                      \/ Close(c)
  \/ Restart

Spec == Init /\ [][Next]_vars

\* With goroutines that run and pages that read what they are sent.
ReadingSpec ==
  /\ Spec
  /\ \A u \in Upserters : WF_vars(UpsertStep(u))
  /\ \A c \in Conns : WF_vars(SeedSubscriber(c)) /\ WF_vars(Deliver(c))

-----------------------------------------------------------------------------
(* Properties *)

\* An upsert that was answered without an error is in the file, or a later one
\* of the same run is, whatever write failed or crash came before or after.
AcknowledgedIsDurable == \A r \in Runs : file[r] >= acked[r]

\* What the channel of a subscriber carries is never older than the board it
\* subscribed to, and a connection is never left with nothing to show: a seed
\* that is dropped because the buffer is full is not missed.
NeverBehindSubscription ==
  \A c \in Conns :
    /\ \A i \in DOMAIN buffer[c] : buffer[c][i] >= seed[c]
    /\ wpc[c] = "open" /\ buffer[c] = <<>> => shown[c] >= seed[c]

\* Every post is answered and every subscriber is served, also when no page ever
\* reads what it is sent: neither a full channel nor one that its connection has
\* left behind holds up the goroutines that send to it.  (To be asked of goroutines
\* that run, without the fairness of Deliver.)
NothingWaitsForAPage ==
  /\ \A u \in Upserters : upc[u] = "send" ~> upc[u] = "idle"
  /\ \A c \in Conns : wpc[c] = "seed" ~> wpc[c] # "seed"

\* useLeaderboard.ts: "The server pushes a full ranked snapshot on connect and
\* on every change, so we just replace state": once the board has changed for
\* the last time, an open page comes to show it.
PageShowsLastChange ==
  \A c \in Conns :
    wpc[c] = "open" /\ version = MaxUpserts
      ~> shown[c] = version \/ wpc[c] = "closed"
=============================================================================
