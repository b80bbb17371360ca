--------------------------- MODULE DisruptorRing ----------------------------
(***************************************************************************)
(* The lock-free ring of examples/stub-engine (disruptor.go): WebSocket    *)
(* goroutines publish order requests, the matcher goroutine of the shard   *)
(* consumes them.  Every atomic operation and every access to a slot's     *)
(* plain data field is a step of its own; the slot's sequence number is    *)
(* all that keeps producers and consumer apart.                            *)
(***************************************************************************)
EXTENDS Naturals, Sequences, SequencesExt

CONSTANTS
  Producers,  \* WebSocket goroutines
  Size,       \* slots of the ring
  MaxItems,   \* bound on the requests of one producer
  Empty       \* the zero orderReq

\* The code takes a power of two, 2^14.  With a single slot "published" and
\* "free for the next round" would be the same sequence number.
ASSUME SizeAssumption == Size \in Nat \ {0, 1}
ASSUME MaxItemsAssumption == MaxItems \in Nat

VARIABLES
  prod, cons,   \* the two cursors
  seq, data,    \* the fields of each slot
  ppc, pos,     \* publish: control point and claimed position
  sent,         \* requests each producer has published or is publishing
  cpc, item,    \* consume: control point and the request it has read
  claims,       \* history: the requests in the order in which they claimed
  handled       \* history: the requests in the order in which consume returned

prodv == <<ppc, pos, sent>>
consv == <<cpc, item>>
vars  == <<prod, cons, seq, data, prodv, consv, claims, handled>>

Slot == 0..(Size - 1)
Req  == Producers \X (1..MaxItems)

TypeOK ==
  /\ prod \in Nat /\ cons \in Nat
  /\ seq \in [Slot -> Nat]
  /\ data \in [Slot -> Req \cup {Empty}]
  /\ ppc \in [Producers -> {"idle", "wait", "write", "publish"}]
  /\ pos \in [Producers -> Nat]
  /\ sent \in [Producers -> 0..MaxItems]
  /\ cpc \in {"wait", "read", "clear", "free"}
  /\ item \in Req \cup {Empty}
  /\ claims \in Seq(Req)
  /\ handled \in Seq(Req)

Init ==
  /\ prod = 0 /\ cons = 0
  /\ seq = [i \in Slot |-> i]
  /\ data = [i \in Slot |-> Empty]
  /\ ppc = [p \in Producers |-> "idle"]
  /\ pos = [p \in Producers |-> 0]
  /\ sent = [p \in Producers |-> 0]
  /\ cpc = "wait" /\ item = Empty
  /\ claims = <<>> /\ handled = <<>>

\* The slot a position falls on (pos & mask).
SlotOf(n) == n % Size

\* Mutant: a producer publishes its first request over and over.
FirstRequest(p) == <<p, 1>>

\* The argument of publish.
Request(p) == <<p, sent[p]>>

-----------------------------------------------------------------------------
(* publish *)

\* prod.Add(1)
Claim(p) ==
  /\ ppc[p] = "idle" /\ sent[p] < MaxItems
  /\ pos' = [pos EXCEPT ![p] = prod]
  /\ prod' = prod + 1
  /\ sent' = [sent EXCEPT ![p] = @ + 1]
  /\ claims' = Append(claims, <<p, sent[p] + 1>>)
  /\ ppc' = [ppc EXCEPT ![p] = "wait"]
  /\ UNCHANGED <<cons, seq, data, consv, handled>>

\* Mutant: a slot of an earlier round passes for a free one.
FreeOrBehind(p) == seq[SlotOf(pos[p])] <= pos[p]

\* The slot is free for the producer's round.
FreeForRound(p) == seq[SlotOf(pos[p])] = pos[p]

\* The spin loop on the slot's sequence ends.
Await(p) ==
  /\ ppc[p] = "wait"
  /\ FreeForRound(p)
  /\ ppc' = [ppc EXCEPT ![p] = "write"]
  /\ UNCHANGED <<prod, cons, seq, data, pos, sent, consv, claims, handled>>

Write(p) ==
  /\ ppc[p] = "write"
  /\ data' = [data EXCEPT ![SlotOf(pos[p])] = Request(p)]
  /\ ppc' = [ppc EXCEPT ![p] = "publish"]
  /\ UNCHANGED <<prod, cons, seq, pos, sent, consv, claims, handled>>

\* seq.Store(pos + 1)
Publish(p) ==
  /\ ppc[p] = "publish"
  /\ seq' = [seq EXCEPT ![SlotOf(pos[p])] = pos[p] + 1]
  /\ ppc' = [ppc EXCEPT ![p] = "idle"]
  /\ UNCHANGED <<prod, cons, data, pos, sent, consv, claims, handled>>

-----------------------------------------------------------------------------
(* consume *)

\* The consumer's spin loop ends.
AwaitPublished ==
  /\ cpc = "wait"
  /\ seq[SlotOf(cons)] = cons + 1
  /\ cpc' = "read"
  /\ UNCHANGED <<prod, cons, seq, data, prodv, item, claims, handled>>

Read ==
  /\ cpc = "read"
  /\ item' = data[SlotOf(cons)]
  /\ cpc' = "clear"
  /\ UNCHANGED <<prod, cons, seq, data, prodv, claims, handled>>

Clear ==
  /\ cpc = "clear"
  /\ data' = [data EXCEPT ![SlotOf(cons)] = Empty]
  /\ cpc' = "free"
  /\ UNCHANGED <<prod, cons, seq, prodv, item, claims, handled>>

\* Mutant: the slot is freed for the round that has just been read.
FreedForNextPosition(n) == n + 1

\* The sequence that frees a slot for the producer one buffer ahead.
FreedFor(n) == n + Size

\* The cursor, which only the consumer uses, the store that frees the slot and
\* the return of the request.
Free ==
  /\ cpc = "free"
  /\ seq' = [seq EXCEPT ![SlotOf(cons)] = FreedFor(cons)]
  /\ cons' = cons + 1
  /\ handled' = Append(handled, item)
  /\ item' = Empty
  /\ cpc' = "wait"
  /\ UNCHANGED <<prod, data, prodv, claims>>

-----------------------------------------------------------------------------

PublishStep(p) == Await(p) \/ Write(p) \/ Publish(p)

ConsumeStep == AwaitPublished \/ Read \/ Clear \/ Free

Next ==
  \/ \E p \in Producers : Claim(p) \/ PublishStep(p)
  \/ ConsumeStep

Spec == Init /\ [][Next]_vars

\* Every goroutine runs: the spin loops yield to the scheduler.
FairSpec ==
  Spec /\ WF_vars(ConsumeStep) /\ \A p \in Producers : WF_vars(PublishStep(p))

-----------------------------------------------------------------------------
(* Properties *)

\* Requests are handled exactly once and in the order in which they claimed
\* their positions, however producers overtake one another while they wait,
\* write and publish; so the requests of one connection stay in order.
HandledInClaimOrder == IsPrefix(handled, claims)

\* The slot whose plain data field a producer may be writing.
Writing(p) == ppc[p] \in {"write", "publish"}

\* The data field of a slot has one user at a time: two producers one round
\* apart, or a producer and the consumer, are never both past their spin loops.
SlotHasOneUser ==
  /\ \A p, q \in Producers :
       p # q /\ Writing(p) /\ Writing(q) => SlotOf(pos[p]) # SlotOf(pos[q])
  /\ \A p \in Producers :
       Writing(p) /\ cpc # "wait" => SlotOf(pos[p]) # SlotOf(cons)

\* No request is stuck: what has claimed a position is handled in the end, also
\* when the ring is full and every producer waits for a slot.
EveryClaimIsHandled ==
  \A n \in 1..MaxItems, p \in Producers :
    sent[p] >= n ~> \E i \in DOMAIN handled : handled[i] = <<p, n>>
=============================================================================
