# TLA+ models of the benchmarking platform

The repository is a platform that benchmarks matching engines. Contestants
submit an engine; the platform builds it, runs it in a sandbox, loads it with
orders from a fleet of bots, replays the same orders on a reference order book
to validate the fills, scores the result and publishes it on a leaderboard.

This directory holds TLA+ modules translated from that code, TLC
configurations that check them on small instances and TLAPS proofs of what
matters most for instances of every size. `PROJECT.json` is the index: which
definition models which source lines, which run checks which property, which
small change of the code each property would notice, which hazards are covered.

    tlc -workers 2 -config OrchestratorCancel.cfg MCOrchestrator
    tlapm OrchestratorProofs.tla

## 1. Inventory

| Component | State | Operations | What is hard | What makes it correct |
|---|---|---|---|---|
| **orchestrator** (`services/orchestrator`) | JSON index of runs, shared with submission-api under a file lock; `m.cancels`; the slot channel `m.sem`; one context per run; `run_spec.json` per run | claim worker, start, cancel, execute with seven stages, fail, timeout, SIGTERM drain | a goroutine per run against cancel requests, timeout, shutdown, panics, disk errors, lost sandbox answers, crashes | a run is executed once, ends in one final verdict, and frees its slot, its map entry and its engine on every path |
| **submission-api** | submissions with their artifact files, and the same index; upload slots | upload, create run | another process loads, changes and renames the same file; uploads that break off; crashes between two steps | no write is lost, an indexed artifact is whole, a run appears once |
| **sandbox-runner** | map of sandboxes, processes or containers, resource sampler | build, start, health check, stop, stats | start and stop race; a stop fails half-way; SIGTERM leaves sandboxes | every sandbox can be stopped until it is gone |
| **reference order book** (`rust/reference-orderbook`) | two trees of price levels, each a tree of orders by (timestamp, sequence); index by order id; a sequence counter | new order, cancel | three structures updated in different places; late timestamps; ends of the matching loop | price-time priority, as the brute-force oracle defines it |
| **validator** (`rust/validator`) | events and fills in memory | order events by engine sequence, replay (sequential or by symbol in parallel), compare | reordering; duplicate ids; equality of the two replays | the expected fills do not depend on the strategy |
| **stub engine** (`examples/stub-engine`) | two engines: sorted books under a lock each, or a lock-free ring and the books of a shard per matcher; one order index, one `engine_seq` counter; an output channel and per-client queues | new order, cancel, match, rest, answer, over WebSocket and REST | lock-free slot hand-over; an index that is read without a lock; a counter that all books share; peers that stop reading | `engine_seq` order is processing order, every message is delivered or counted, no peer stops the engine |
| **bot fleet** (`rust/bot-fleet`) | connections, send channel, stamps of orders in flight | send, receive, reconnect, expire | frames lost at a reconnect; an ack that overtakes its stamp | every order is accounted for once |
| **telemetry ingester** | windows per run and bot, two generations of seen ids, sink queues | ingest, flush, shut down | redelivery; bounded queues; shutdown grace | an acknowledgement counts once |
| **bench-core, score engines** | histograms, TPS windows, scores | record, merge, score | floating-point arithmetic | |
| **leaderboard-api** | entries (file, or redis) and subscribers with bounded buffers | upsert, poll, subscribe, broadcast | broadcast after unlock; concurrent refreshes; dropped messages | subscribers converge to the board |
| **control panel** | index of runs, `m.cancels` | create, cancel, execute, shut down | the orchestrator's races again, with a simpler store | as for the orchestrator |
| **console-api** | none but its in-flight limit | create and start a run, forward the rest | two services, one request: the second call fails or its answer is lost | a created run is not forgotten |
| **web** | what the page shows | show | | |

The components interact as follows. submission-api appends QUEUED records to
the index file; the orchestrator's worker claims them from there, or the
console asks the orchestrator to start one that it has just created. For a run the
orchestrator calls sandbox-runner over HTTP (build, start, stop), starts the
bot fleet, the validator and the score engine as child processes that leave
files in the run's artifact directory, and posts the score to leaderboard-api,
which pushes it to its subscribers. The bots talk to the engine over WebSocket
and emit telemetry that the ingester aggregates.

The hazards, each with its source line and the properties aimed at it, are
listed under `hazards` in `PROJECT.json`.

## 2. Modules

### Orchestrator

`Orchestrator.tla` models the life of a run. A *slot* is a token of the channel
`m.sem`, and stands for whoever holds it: the start request or worker that
acquired it, then the `execute` goroutine it spawned.

| Model | Code |
|---|---|
| `store`, `TerminalGuard`, `SaveRun` | the index file; `JSONStore.SaveRun` and its guard |
| `spec` | the status in `run_spec.json` |
| `engine` | the sandbox: `down`, `up`, or `lost`: up, while the answer to the start request never arrived |
| `pc`, `run`, `stage` | where the holder of a slot is, its run, its `run.Status` |
| `handle` | `stopEngine` is deferred and has not yet run |
| `cancels`, `ctx` | `m.cancels`; the run's context: `live`, `canceled`, past its `deadline` |
| `cpc`, `crun` | CancelRun requests, each a read, a cancel and a save |
| `phase`, `grace`, `swept` | process up, HTTP draining, runs draining, exited; deadline passed; what Shutdown cancelled |

A step is what no other process or goroutine can see the middle of: one locked
access to the index, one write of an artifact, one operation of an executor. So
the context check of `transition` (`Enter`) and its save (`SaveStage`) are two
steps, as are the two writes of `fail`, the read and the save of CancelRun, and
the claim of a run and its registration. An executor's operation either succeeds
(`Operation`) or fails (`OperationFails`); it may succeed after its context has
ended. `Panic` may strike in the body of `execute`; `Recover` runs the deferred
calls in their order.

The constant `Faults` says what may go wrong: `disk` (a write of the index or of
an artifact fails), `sandbox` (a start or stop call is lost), `signal`
(SIGTERM), `crash`. Program errors, timeouts and cancels need no fault.
Restart begins with an empty memory and the files as they were.

Left out: the content of artifacts, logging, and `BenchmarkEndpoint`, which
benchmarks an endpoint on a path of its own.

### OrderBook and PriceTimeBook

`PriceTimeBook.tla` is the abstract specification: the book is a set of orders,
and an incoming order trades with the best of them, by price, then timestamp,
then arrival. It is translated from `oracle.rs`, the oracle that the
repository's property tests use.

`OrderBook.tla` is `book.rs` as it is stored: the keys of the two price trees,
the levels, and the index from ids to places. An incoming order is `Submit`, one
`MatchFront` for every turn of the matching loop, and `Finish`. Cancel goes to
the place the index names, as in the code. A key whose level is empty can be
represented: it is the state in which the code's `expect` would panic. Orders
of one id at the same time are left out (see the hazards).

### DisruptorRing

`DisruptorRing.tla` models `publish` and `consume` of the stub engine's ring:
every atomic operation and every access to the plain data field is a step of its
own, so a data race would be two goroutines past their spin loops on one slot.
`claims` and `handled` are histories the properties speak of.

### StubEngine

`StubEngine.tla` is the rest of the stub engine, with both values of its
`--engine` switch. The variable `log` maps each `engine_seq` to what it was given
to; a message is named by its number, and an order by its request.

| Model | Code |
|---|---|
| `ws`, `orders`, `Dispatch` | the loops of the two handlers: what is refused, what misses the index, what goes to a book |
| `Aside` | an answer that is sequenced outside any book |
| `HasLock`, `ProcessNew`, `RestOrReject`, `ProcessCancel` | the mutex engine, under the lock of a book |
| `Publish`, `Consume`, `processNew`, `shardMatch`, `processCancel` | the disruptor engine; a ring is a bounded queue here |
| `Accept`, `Trade`, `RestResidual`, `RemoveOrder` | what both do to a book: number an order, one turn of the matching loop, rest or refuse the residual, the search for an order to cancel |
| `SendJSON` | the mutex engine writes to the socket itself, and waits for it |
| `SendOut`, `outputLoop`, `enqueue`, `writeLoop` | the disruptor's output: channel, writers, bounded queue with drop, writer per client |
| `Stall`, `Reap` | a peer stops reading or goes away; the read deadline ends a connection |

An order of an unknown `order_type` needs no price and then matches and rests like
a limit order: only the check of the price asks for `LIMIT`, only matching and
resting ask for `MARKET`.

A load (`Loads`) is a set of requests with the clients whose peers may misbehave;
requests of one connection are read in the order of their ids. The reference that
the engine is compared with, `Replay`, states price-time priority without a loop:
an order takes of each resting order what the better ones have left it. Metrics,
latencies and the audit log (`JSONLLogger`) are output only and are left out. A
comment of `disruptor.go` says that the matching "mirrors the mutex engine
exactly"; it does but for the validation of fields and the cap on resting
orders, which the module keeps apart (`RefusedEarly`, `mayRest`).

### Submissions and AtomicIndex

`Submissions.tla` models the submission-api, the console's `createRun`, and the
way the orchestrator's store uses the index they share. A change of the index is
four steps of a job: the mutex of its process, the flock, the load with its
decision, the rename of the edited copy. The other process, or a crash that
releases the flock, can come between any two. The faults (at most `MaxFaults`)
are crashes of either process, failing reads and writes of the index, and answers
that the console does not get. An upload that breaks off needs no fault.

`AtomicIndex.tla` is the abstract specification: each operation reads and writes
the index in one step. `Submissions` implements it, which is what `Orchestrator`
takes for granted when it makes a claim or a save one step. What happens to a
claimed run is `Orchestrator`; here it is one save. Build slots, and which queued
run is claimed first, are there too. Ids are fresh: `uniqueID` draws eight random
bytes. The comment in `filelock.go` that reads take a shared lock is not what the
stores do, and harmless: a rename replaces the file in one step.

### Sandbox, LocalRunner, DockerRunner and SandboxRunner

`Sandbox.tla` is what a caller relies on, whichever runner is behind the
interface: an engine comes up once, its handle is handed out only after that,
and a stop is confirmed, once, only when the engine is gone. `engine` of
`Orchestrator` is the caller's side of it. `SandboxRequests.tla` declares the
requests and faults that both runners are given, and `SandboxRunner.tla` is the
service: `main.go` chooses the runner (`mode`), and the service is shown to
implement `Sandbox` in either mode.

`LocalRunner.tla` models `Build`, `Start` and `Stop` as requests with a control
point each, the semaphore they share, the map, the client that may leave (which
ends the request's context), and the engine processes: spawned, listening on
their port, signalled, exited. `stopProcess` is one set of steps that a failed
`Start` and a `Stop` go through. Two starts may be given the same port, since
`freePort` gives it back before the engine binds it; the health check asks the
port and not the process.

`DockerRunner.tla` has one step for each call to the daemon. A call succeeds,
is refused, or (fault `lost`) takes effect without an answer; removals may fail
(`remove`, or `client` for those under a request's context). The history `hit`
names the sandboxes that such a fault struck. The cleanup of a failed `Start`
depends on the ids that `Start` got to know.

SIGTERM is the same in both (`Signal`, `RunnerExits`): new requests are refused,
those under way drain or are cut off, and the exit leaves the engines, containers
and networks alone. For the docker runner it strikes every sandbox (`hit`).

### ControlPanel

`ControlPanel.tla` is the run manager of the control panel: `CreateRun` up to
the launch of the goroutine, the stages of `execute` with a save of the store
and one of `run_spec.json` each, `failOrCancel`, the deferred cleanup, `CancelRun`
in three steps, and the SIGTERM drain. Faults are `disk` and `signal`; the
history `hit` names the runs whose own writes failed. When the grace period runs
out the process exits and its goroutines stay where they were (`GaveUp`); what
they leave on record is not counted as carried by anybody.

### Leaderboard, RedisBoard and LeaderboardAPI

`Leaderboard.tla` models the file board, the WebSocket loop and the page.
Upserts are numbered in the order in which they take the mutex; a snapshot is
the number of the last upsert before it. The broadcast to each subscriber and
the seed are steps after the unlock; a send to a full channel is dropped.

`RedisBoard.tla` models the redis board together with the score engine's
`publish_leaderboard`: each redis command is a step, a refresh (by the poller or
after a post) reads the ranking and then the scorecards, installs what it read
and broadcasts it. During an outage a command may fail, or be executed and lose
its answer; either way the function that issued it returns.

`LeaderboardAPI.tla` is the service: `main.go` puts one of the boards (`backend`)
behind the handlers.

## 3. Runs

Passing runs:

| Run | Instance | Shows |
|---|---|---|
| `orchestrator_faults` | 1 run, 2 slots, 2 cancels, all faults; 0.46 M states | executed once, verdicts final, and a drain that ends in time has waited for all it cancelled, whatever fails |
| `orchestrator_cancel` | 2 runs, 1 slot, 1 cancel, no fault, fair; 65 k states | queued runs are taken up, claimed runs end, a run whose goroutine is gone is terminal and frozen, `run_spec.json` and index agree, engines can be stopped and a cancel takes them down |
| `order_book` | 4 orders under 3 ids, 3 prices, 2 stamps; 0.29 M states | the book implements price-time priority; index and levels agree; never crossed; no empty level |
| `disruptor_ring` | 3 producers with 3 requests each, 2 slots, fair; 0.31 M states | claim order, one user per slot, what claimed a position is handled |
| `stub_engine` | both engines, 2 clients and a REST caller, 2 symbols in 2 shards, 6 loads of 3 or 4 requests, fair; 0.14 M states | requests replayed in `engine_seq` order give the engine's fills, books and answers; the index is exact; every message is delivered, on its way or counted as dropped; whatever peers do, requests are handled and readers answered |
| `submissions` | 2 uploads, 2 runs, the console, the claim loop, 2 faults, fair; 0.42 M states | implements `AtomicIndex`; what was acknowledged stays; an indexed artifact is whole; a created run is taken up |
| `sandbox_runner` | either runner: 1 build, 2 starts on 2 ports, 1 of them isolated, 2 stops, 2 slots, all faults, fair; 0.22 M states | implements `Sandbox`; a local sandbox has one owner at a time and no process is forgotten alive; a failing docker start takes back all it made; requests are answered |
| `control_panel` | 1 run, 2 cancels, disk errors, SIGTERM, fair; 35 k states | verdicts final, no run of a live process is stuck, runs end for good, the drain completes by itself and leaves nothing |
| `leaderboard` | either board. File: 2 upserts at a time, 3 in all, 1 connection, failing writes and crashes. Redis: a publication, a post, the poller, a page, an outage, fair; 0.29 M states | what was acknowledged is in the file; no connection is behind its subscription; requests and seeds are finished although the page never reads; the redis board and its pages converge to redis once publications and outage end |

Runs that TLC must refute, each against a comment or a test:

| Run | Statement | What happens |
|---|---|---|
| `orchestrator_orphan` | `main.go:112`: no orphaned runs | Shutdown finds `m.cancels` empty while the worker has claimed a run and not registered it; the run stays in BUILDING |
| `control_panel_cancelled` | `manager_cancel_race_test.go:49`: a cancelled run is not overwritten to FINISHED | a cancel between the first save and the registration reaches nobody; the run goes on and finishes |
| `stub_engine_replay` | `disruptor.go:204`, `main.go:287`: the position of a cancel that misses the index can't affect any book | the order is numbered and rests between the lookup of the cancel and its number; replayed in `engine_seq` order, as the validator does with acks of every status, the cancel removes an order the engine still holds |

Further statements of comments and documents are written down as formulas and
do not hold either; they are not part of a run, and TLC refutes each of them
when its name is put into a configuration:

| Formula | Statement | What happens |
|---|---|---|
| `FirstTerminalWins` of `Orchestrator` and `ControlPanel` | both `json_store.go`: the first terminal state wins | a transition that passed its context check saves an in-progress status over CANCELLED: the guard looks at terminal writes only |
| `NoOrphanedEngines` | orchestrator `main.go:112`: no orphaned child processes | Shutdown cancels a run while its start request is in flight; the sandbox comes up and nobody can stop it |
| `NoDetachedEngine` | control panel `manager.go:136` | a save that fails after the engine's start drops the engine's cleanup |
| `ContainerIsReaped` | `RESILIENCE.md:103`: a stuck container is always reaped | a Stop whose client leaves has taken the sandbox out of the map and not removed the container |
| `PageShowsLastChange` (under `ReadingSpec`) | `useLeaderboard.ts:15`: a snapshot on every change, so state is replaced | an older snapshot enters the channel behind a newer one and stays on the page |
| `LatestRunWins` | `live.rs:231`: the latest run wins | two publications for one team each win one key |
| `BestNeverFalls` | `live.rs:214`: a regression does not demote | the best score is read and set in two commands, and falls |
| `BroadcastOnlyOnChange` | `redisboard.go:93`: broadcasts if it changed | the time of the refresh is part of what is compared |

*Bounds.* Two slots and two cancel requests are enough for every pairwise race
over one run, and a second run for competition over slots and over the oldest
queued record. The orchestrator needs no counter, so its instances are
explored completely. In the book, four orders are three resting ones and one
that sweeps them, at prices below, at and above the touch, with equal and with
late timestamps; quantities up to 2 give partial fills. Nine requests on two
slots take the ring through five rounds, with producers of different rounds on
one slot. Each load of the stub engine is a case: makers whose stamps contradict
their arrival, with a taker and a cancel that races both; a side at its cap;
a self-trade with a peer that stalls; a cancel right behind its order; two books,
a market order and one of an unknown type; messages that are refused. Rings, channels and queues of one
place fill up. Two jobs in each process and two faults are enough for every pair
of writers, and for a crash in the middle of one and a lost answer. Two stops of
the same sandbox and two starts on one port are the races of the runners. Runs of the control panel share only the semaphore and the map,
so one run with two cancels and every fault has the races that matter. The
boards are bounded by the number of upserts or publications, with channels
short enough to overflow.

*Symmetry* is over slots, in a run of safety properties only.
*Deadlock* is checked where the system never stops by itself (the orchestrator's
worker and claim loop); the book, the ring, the engine, the runners, the panel and
the boards stop when their bounds (orders, requests, publications) are used up.

*Fairness.* The holder of a slot and a cancel request keep running
(`WF`): they wait only for files and for executors, which get the run's context
and return when it ends. The claim worker gets a free slot infinitely often if
slots become free infinitely often (`SF`), because Go serves the senders
blocked on a channel in order. Nothing is assumed of clients: requests, cancels,
timeouts, faults and panics may happen or not. The ring's goroutines run (`WF`):
the spin loops yield. So do the goroutines of the stub engine; nothing is assumed
of the peers, and what a peer that does not read can hold up is part of the
properties. Jobs of the stores get the mutex and the flock (`WF` suffices: the
holder does not wait, and jobs are finitely many), the claim loop keeps polling,
and a service that went down is restarted by its supervisor. Requests of the
runners go on (`WF`), since every call has a deadline. The panel's executors return,
since bots and validator work for a bounded time. The handlers of the file board
run (`WF` of `UpsertStep` and `SeedSubscriber`), and nothing is assumed of its
pages: with `Deliver` free to stop for ever, `NothingWaitsForAPage` would fail if a
send waited for room in a channel. The redis board's pages do read, its poller
ticks for ever and its outage ends.

## 4. Proofs

TLAPS checks the following for all values of the constants that satisfy the
named assumptions (`ASSUME`) of the modules.

**`OrchestratorProofs`**

- *TypeCorrect.*
- *ExclusiveExecution* and *CancelsTrackExecutions* (all faults allowed). The
  invariant `ClaimInv` adds that a claimed run is neither absent nor queued in
  the index, so that no second claim can take it; that until the goroutine has
  saved its verdict the record is in progress or CANCELLED; and that
  `m.cancels` is the image of the registered slots. Exclusiveness alone is not
  inductive: it is lost if a save could put a run back into the queue, or if an
  entry were dropped by another goroutine.
- *FinalVerdict* (all faults): by the guard of `SaveRun` alone a verdict could
  be overwritten by an in-progress status. What excludes it is that only the one
  goroutine that owns the run writes such statuses, and that its verdict is its
  last write; the proof goes through the claim invariant.
- *ExitedTerminal* and *ExitedFrozen* assume that `disk` is no fault: the code
  ignores the error of the final save. The invariant follows the goroutine: at
  each point after the final save the record is terminal.
- *DrainWaits* (all faults): when the process exits before its deadline, no
  goroutine that Shutdown cancelled is still registered. The invariant `DrainInv`
  says that what was swept and is still in `m.cancels` keeps the drain from
  ending, and that nothing registers in an exited process; with `ClaimInv`, which
  ties `m.cancels` to the goroutines, the theorem follows. *SweptTerminal* adds
  that, without disk errors, those runs are terminal on disk.
- *EngineConfinement* assumes that sandbox calls are answered and that the
  process is neither signalled nor killed.
- *VerdictsAgree* assumes that `disk` is no fault. `AgreeInv` follows the two
  writes of a verdict: until one of them the record is in progress, CANCELLED or
  FINISHED, and after both it agrees with `run_spec.json` or is one of the last two.

**`OrderBookProofs`**

- *TypeCorrect*, *LevelsNonEmpty*, *IndexExact* and *Uncrossed*. The invariant
  `BookInv` says that keys are exactly the non-empty levels, that orders rest
  where their fields say, that the index names them, that sequence numbers
  identify orders and lie below the counter, and that the active order is not
  on the book.
- *PriceTimePriority*: the book implements `PriceTimeBook`. Each step of the
  book is the abstract step of the same name under the mapping that takes the
  union of the levels; the front of the best level is the first order of the
  side because levels are sorted by (timestamp, sequence) and no two orders
  share a sequence number.

**`LeaderboardProofs`** (`RunsAssumption`, `CapAssumption`, `MaxUpsertsAssumption`;
for redis `TeamOfAssumption`: every writer writes for a team)

- *TypeCorrect* also bounds the channels.
- *AcknowledgedDurable* (failing writes and crashes allowed): an entry is
  written while its upsert holds the mutex, so what the file holds for a run
  never gets older, although memory may run ahead of it or fall back to it.
- *NeverBehind*: an upsert that serves a connection took the list of subscribers
  after that connection was registered, so its snapshot is at least the seed;
  the invariant says so of each broadcast under way.
- *ServesTheFileBoard*: the service implements the file board, because the redis
  board leaves its variables alone and the other way round. *ServiceIsDurable* and
  *ServiceNeverBehind* carry the two results over.
- *RedisInvHolds* and *ShownWasWritten*: no score that the redis board serves, or a
  page shows, is made up or another team's, although a refresh reads ranking and
  scorecards one by one while writers stop half way and redis fails. `Known` is
  what the writers of a team that have started can have put into redis; what is
  shown came through redis, a refresh, the served snapshot and a channel, so the
  invariant `RedisInv` says it of each of these places. Snapshots also never show a
  rank without a score: a scorecard that was not found falls back to the rank's.

**`SubmissionsProofs`** (`NoneAssumption`: the mark of an unset field is no run
and no job)

- *StoresAreAtomic*: the two stores implement `AtomicIndex`. The invariant says
  that a job past the mutex or the flock is its holder (`LocksHeld`) and, the point
  of the flock, that the copy a job is about to rename is the index as it is now
  (`CopyIsCurrent`). So a rename is the abstract step of its job, and every other
  step of a job, a crash included, is a stutter.
- *AcknowledgedIsKept* and *ArtifactIsWhole* (any faults, any number of them).
  `SubmitInv`, `CreateInv`, `SaveInv` and `StartInv` follow a request: what the
  index holds at each of its control points, and that the file was whole before
  the record was written. Without the locks they are not inductive, since another
  process's rename could undo a record.

**`DisruptorRingProofs`** (`SizeAssumption`: a ring of more than one slot; the
code takes 2^14)

- *OneUserOfASlot* and *ClaimOrderIsKept*, for any number of producers and rounds.
  The positions from the consumer's cursor on, one for each slot, are the window;
  `SlotInv` says that the sequence number of a slot is its window position, or one
  more when that position is published and its data is the claimed request, and
  `WriterInv` that a producer past its spin loop is at such a position. A producer
  of a later round waits because its position lies outside. The arithmetic
  (distinct positions of a window have distinct slots, the window moves by one
  whole round) is in lemmas about `SlotOf`.

**`ControlPanelProofs`** (`PanelRunsAssumption`, `PanelCapAssumption`: finitely many
runs, a limit of at least one)

- *ConcurrencyIsBounded* and the bound in *TypeCorrect*: tokens are as many as runs
  that are being created or executed (`SlotsInv`), so no path gives a token back
  twice or keeps one. `AtMostCapActive`, which the theorem states, is defined there.
- *VerdictHolds*, *RunIsCarried* and *DrainIsComplete* (all faults). `RecordInv`:
  until the goroutine has saved its verdict the record has none but CANCELLED,
  afterwards it is terminal unless a write of this run failed. *RunIsCarried* needs
  in addition that an exit within the grace period comes after the last goroutine.
  `EngineInv`: an
  engine that is up has its cleanup deferred, or is between its start and that.
  `DrainInv` adds that handlers are gone before the drain and goroutines before the
  exit, within the grace period.

**`SandboxRunnerProofs`** (`RequestsAssumption`: a request is one of build, start
and stop)

- *SandboxHasOneOwner*, *ProcessIsReachable*, *NothingIsLeftBehind*. The mode is
  fixed, so each runner has an invariant of its own. Both rest on `OneVictim`, no
  two stops took the same entry out of the map, with what a Start has made at each
  of its points and what a Stop has still to take down. After the runner's exit
  nothing is claimed of what it leaves.
- *RunnersKeepThePromise*: under the mapping of `SandboxRunner` each step of
  either runner is a step of `Sandbox` or a stutter. A confirmed stop maps to a
  gone engine because the Stop holds the exit it received (local) or has seen the
  removal succeed (docker).

**`StubEngineProofs`** (`RequestsAssumption`: requests are well formed;
`IdsAreUnique`: no two requests of a load share an id; `ProcessesAreDistinct`;
`ShardsAssumption`: every symbol has a shard; `CapacitiesAssumption`: no capacity is
zero but, possibly, that of the output channel)

All theorems are for both engines, and from one inductive invariant, `EngineInv`.

- *IndexHoldsWhatRests*. That every step changes ladder and index together is not
  enough: an order that rested twice would leave the index with its first removal.
  `OnePlace` says that a request is in one place, unread, with one goroutine or in
  one ring, and `NotYetOnBook` that it is then on no ladder; so it rests once,
  ladders hold no order twice (`LadderInv`) and removal by position removes exactly
  one. The lemmas say what inserting and removing at a position do to a sequence,
  and what `sort.Search` returns. No lock is needed for this part.
- *TypeCorrect* (`TypeInv`): what makes it more than a check of assignments is that
  quantities stay natural numbers. A fill takes the smaller of two quantities, and
  an order without quantity never gets past validation (`Validated`).
- *LaddersStaySorted*, *RestingIsFound*, *CancelsAreTruthful*, *BestIsFilledFirst*,
  *BooksAreNeverCrossed*, *FillsMoveQuantity*, from `BookInv`. Binary search finds
  the place of an order only if the ladder is strictly sorted, which needs arrival
  numbers to be unique for what rests and what is being matched (`ArrivalInv`), and
  in turn that no two orders in play share an id (`UniqueIds`). Sorted ladders make
  the first order the best one and the search of `removeOrder` exact; so a cancel
  removes its order exactly if it rests, whatever happened after the index was
  read. An order rests only when the loop has ended, and it ends with nothing left
  that crosses.
- *BooksAreExclusive* (`InsideInv`): by `Book.mu` in the mutex engine; in the other
  because requests are in the ring of the shard of their order's symbol and only
  matchers match (`RoutedInv`).
- *MessagesAreAccounted*, *MessagesGoToTheirOwners*, *OutDroppedTellsLoss*, from
  `MessageInv`. Counting is not inductive without knowing that the counted are
  different: a message is in at most one of the pending answers of one goroutine,
  the output channel and its client's queue, and there once (`MessagesApart`), its
  number was given out (`Numbered`), and it is owed to that client and not yet
  received (`OwedInv`). A step then moves one message from one term of the equation
  to another, or adds a number to what is owed and to what is under way. A
  self-trade is the case to watch: one message, not two, which `uniqueClients` sees
  to.
- *FillsFollowTheirOrders*: in the order of `engine_seq`, one counter for all books,
  each fill comes after the entry of its maker and then of its taker, no cancel of
  either between, and after the taker's entry nothing of that book but its own
  fills. The invariant `SequenceInv` says the same of the fills to come: of every
  order that rests and of every order being matched. It needs *BooksAreExclusive*,
  the exactness of the index, and `TargetInv`: a cancel on its way may be about an
  order that is gone, but never hits another one with the same id.

Each of these inductive invariants was checked with TLC on the instance of its run
before it was proved.

Only model-checked, and why:

- liveness, fairness being outside the prover's reach (of the boards
  `NothingWaitsForAPage` and `ViewsConverge`, too);
- `SequencedAsProcessed`. It folds a replay over the whole log, and what a fold
  computes needs induction over sequences. What the replay compares step by step is
  proved: books are exclusive, ladders sorted, the best order is filled first,
  cancels are truthful, and the log has fills where processing puts them.

## 5. Limits of the proofs

The bounds on upserts and requests are constants, and no proof depends on their
values. *ExitedTerminal*, *ExitedFrozen*, *SweptTerminal* and *VerdictsAgree* assume
that writes succeed, because the code ignores the error of its final save;
*EngineConfinement* assumes that sandbox calls are answered (the run `OrchestratorOrphan.cfg`
configures shows what an unanswered one leaves behind). *MessagesAreAccounted* and
*OutDroppedTellsLoss* are about clients whose connection is up: what is under way to
one that went away is lost without being counted. That two orders of one load never
share an id is an assumption about clients; the engine does not check it.

## 6. Not modelled

The Rust programs around the judged run: the bot fleet (its connection pool loses
a frame at a reconnect and stamps after the write), the telemetry ingester (its
duplicate filter and shutdown grace), and the validator, a batch program over
files whose demand on an engine is the `Replay` of `StubEngine`. Each would be a
component of its own. `BenchmarkEndpoint` of the orchestrator runs
the same executors synchronously, for a run that is never in the index. An order id
used twice on one book, which the validator's replay handles, is left out of
`OrderBook` and `StubEngine`. That `freePort` may give one port to two starts, and
that either runner leaves its sandboxes behind at SIGTERM, is in the models; no
comment, document or test promises otherwise, so no property asks for it.

Out of reach or without state of their own: score formulas (floating point), the
resource sampler's readings, extraction of archives, read-only endpoints,
authentication, the web page, generated protobuf code, deployment files.
