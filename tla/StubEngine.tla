----------------------------- MODULE StubEngine -----------------------------
(***************************************************************************)
(* The contestant engine of examples/stub-engine: WebSocket and REST        *)
(* handlers, the two matching engines of the --engine switch, the shared    *)
(* order index that routes cancels, and the way answers reach the clients.  *)
(*                                                                         *)
(*   mutex      the goroutine of a connection matches under the book's lock *)
(*              and writes every answer to its socket itself;               *)
(*   disruptor  it publishes to the ring of the symbol's shard; the shard's *)
(*              matcher handles the request and hands the answers to the    *)
(*              channel `out`, output writers move them to a bounded queue  *)
(*              per client, and a writer per client sends them.             *)
(*                                                                         *)
(* log[n] is what engine_seq n was given to, so engineSeq is Len(log), and  *)
(* a message is named by its engine_seq.  An order is its request record;   *)
(* the fields the engines change (Qty, InsertSeq) are left and insertSeq.   *)
(* A ring is a FIFO queue of RingSize places: DisruptorRing is its detail.  *)
(***************************************************************************)
EXTENDS Integers, Sequences, FiniteSets, SequencesExt

CONSTANTS
  Clients,    \* WebSocket connections
  Callers,    \* REST callers of /orders
  Symbols, Shards, ShardOf,
  Loads,      \* what may be sent: requests, and the clients whose peer may stop
              \* reading or go away while they are served
  MaxResting, \* maxRestingPerSymbol
  RingSize, OutCap, OutputWriters, QueueCap,
  None

Conns == Clients \cup Callers
Workers == Conns \cup Shards
Side == {"BUY", "SELL"}
Requests == UNION {load.reqs : load \in Loads}
Ids == {r.id : r \in Requests}

\* The union of the inbound messages; a "bad" one does not parse or has no known
\* type, a "long" one has a field above maxOrderFieldLen.  An order of a type that
\* the engines do not know matches and rests as a limit order of any price.
Request == [id : Ids, from : Conns, type : {"new", "cancel", "bad"},
            sym : Symbols, side : Side, price : Int, ts : Nat, qty : Int,
            otype : {"LIMIT", "MARKET", "other"}, long : BOOLEAN, orig : Ids]

ASSUME RequestsAssumption == Requests \subseteq Request /\ Ids \subseteq Nat
ASSUME IdsAreUnique ==
  \A load \in Loads : \A r, q \in load.reqs : r.id = q.id => r = q
ASSUME ProcessesAreDistinct ==
  /\ Clients \cap Callers = {} /\ Conns \cap Shards = {}
  /\ \A load \in Loads : load.flaky \subseteq Clients
ASSUME ShardsAssumption == ShardOf \in [Symbols -> Shards]
ASSUME CapacitiesAssumption ==
  /\ {MaxResting, RingSize, OutputWriters, QueueCap} \subseteq Nat \ {0}
  /\ OutCap \in Nat

VARIABLES
  kind,       \* the engine the program was started with
  todo,       \* requests not yet read
  flaky,      \* clients whose peer may misbehave
  pc,         \* what each worker is doing
  task,       \* the request it works on and the order it is about
  pend,       \* answers it still has to hand over, as <<client, engine_seq>>
  log, status, \* what each engine_seq was given to; what was answered
  left, insertSeq, books, index,
  ring, out,  \* disruptor: rings, output channel with its writers' messages
  outQ, outDropped, \* per client: queue with its writer's message, drops
  peer,       \* whether the other end reads, has stopped reading, or is gone
  got         \* messages each connection received

\* engineSeq, the books and the index.
engineVars == <<log, status, left, insertSeq, books, index>>
\* The disruptor's rings and its output path.
sendVars == <<ring, out, outQ, outDropped>>
vars == <<kind, flaky, todo, pc, task, pend, engineVars, sendVars, peer, got>>

Task == [req : Request, ord : Request \cup {None}]

Ack == [at : {"book", "aside"}, req : Request]
Fill == [at : {"fill"}, taker : Request, maker : Request, qty : Nat]

TypeOK ==
  /\ kind \in {"mutex", "disruptor"} /\ flaky \subseteq Clients
  /\ todo \subseteq Request /\ index \subseteq Request
  /\ pc \in [Workers -> {"read", "idle", "aside", "enter", "book", "send"}]
  /\ task \in [Workers -> Task \cup {None}]
  /\ pend \in [Workers -> Seq(Conns \X Nat)]
  /\ log \in Seq(Ack \cup Fill)
  /\ status \in [Ids -> {"none", "accepted", "rejected", "book_full",
                         "residual_dropped", "canceled", "not_found"}]
  /\ left \in [Ids -> Nat] /\ insertSeq \in [Ids -> Nat]
  /\ books \in [Symbols -> [Side -> Seq(Request)]]
  /\ ring \in [Shards -> Seq(Task)]
  /\ out \in Seq(Clients \X Nat)
  /\ outQ \in [Clients -> Seq(Nat)] /\ outDropped \in [Clients -> Nat]
  /\ peer \in [Clients -> {"reads", "stalled", "gone"}]
  /\ got \in [Conns -> SUBSET Nat]

Init ==
  /\ kind \in {"mutex", "disruptor"}
  /\ \E load \in Loads : todo = load.reqs /\ flaky = load.flaky
  /\ pc = [p \in Workers |-> IF p \in Shards THEN "idle" ELSE "read"]
  /\ task = [p \in Workers |-> None]
  /\ pend = [p \in Workers |-> <<>>]
  /\ log = <<>>
  /\ status = [id \in Ids |-> "none"]
  /\ left = [id \in Ids |-> 0]
  /\ insertSeq = [id \in Ids |-> 0]
  /\ books = [s \in Symbols |-> [side \in Side |-> <<>>]]
  /\ index = {}
  /\ ring = [s \in Shards |-> <<>>]
  /\ out = <<>>
  /\ outQ = [c \in Clients |-> <<>>]
  /\ outDropped = [c \in Clients |-> 0]
  /\ peer = [c \in Clients |-> "reads"]
  /\ got = [p \in Conns |-> {}]

-----------------------------------------------------------------------------
(* Ladders.  sort.Search returns the least index whose predicate holds.     *)

Opposite(side) == IF side = "BUY" THEN "SELL" ELSE "BUY"

Crosses(o, price) == IF o.side = "BUY" THEN o.price >= price
                                       ELSE o.price <= price

\* Time before arrival at equal prices, the inversion of --mode
\* broken-price-time-priority.
BrokenBefore(a, b) ==
  IF a.price # b.price THEN (a.price > b.price) = (a.side = "BUY")
  ELSE IF a.ts # b.ts THEN a.ts > b.ts
  ELSE insertSeq[a.id] < insertSeq[b.id]

orderBefore(a, b) ==
  IF a.price # b.price THEN (a.price > b.price) = (a.side = "BUY")
  ELSE IF a.ts # b.ts THEN a.ts < b.ts
  ELSE insertSeq[a.id] < insertSeq[b.id]

Search(holds) == CHOOSE i \in 1..Len(holds) + 1 :
  /\ i <= Len(holds) => holds[i]
  /\ \A j \in 1..i - 1 : ~holds[j]

insertSorted(s, o) ==
  InsertAt(s, Search([i \in DOMAIN s |-> orderBefore(o, s[i])]), o)

\* The ladder position of an order; it rests exactly if it is found there.
Position(s, o) == Search([i \in DOMAIN s |-> ~orderBefore(s[i], o)])

\* Without the comparison of pointers.
RestsAtUnchecked(s, i, o) == i <= Len(s)

RestsAt(s, i, o) == i <= Len(s) /\ s[i] = o

\* The client of an order; one that came over REST has none.
client(c) == IF c \in Clients THEN <<c>> ELSE <<>>

\* A self-trade told twice.
bothClients(a, b) == client(a) \o client(b)

\* The clients of a fill: the distinct owners, the active order's first.
uniqueClients(a, b) == client(a) \o (IF a = b THEN <<>> ELSE client(b))

-----------------------------------------------------------------------------
(* Connections.                                                             *)

Invalid(r) == r.qty <= 0 \/ (r.otype = "LIMIT" /\ r.price <= 0)

\* A connection's requests are read in the order of their ids.
Take(p, r) ==
  /\ pc[p] = "read" /\ r \in todo /\ r.from = p
  /\ \A q \in todo : q.from = p => r.id <= q.id
  /\ p \in Clients => peer[p] # "gone"
  /\ todo' = todo \ {r}
  /\ UNCHANGED <<kind, flaky, pend, engineVars, sendVars, peer, got>>

\* The mutex engine validates before it looks for the book; only it bounds fields.
RefusedEarly(r) == kind = "mutex" /\ (Invalid(r) \/ r.long)

Resting(id) == {o \in index : o.id = id}

\* What never reaches a book is answered aside: orders the mutex engine rejects and
\* cancels whose order is not in the index, which is read without a lock.
Dispatch(p, r) ==
  \/ /\ \/ r.type = "bad"
        \/ r.type = "new" /\ RefusedEarly(r)
        \/ r.type = "cancel" /\ Resting(r.orig) = {}
     /\ pc' = [pc EXCEPT ![p] = "aside"]
     /\ task' = [task EXCEPT ![p] = [req |-> r, ord |-> None]]
  \/ /\ r.type = "new" /\ ~RefusedEarly(r)
     /\ pc' = [pc EXCEPT ![p] = "enter"]
     /\ task' = [task EXCEPT ![p] = [req |-> r, ord |-> r]]
  \/ /\ r.type = "cancel"
     /\ \E o \in Resting(r.orig) :
          task' = [task EXCEPT ![p] = [req |-> r, ord |-> o]]
     /\ pc' = [pc EXCEPT ![p] = "enter"]

ws(p, r) == p \in Clients /\ Take(p, r) /\ Dispatch(p, r)

\* /orders refuses a body that does not parse, and every body when the disruptor
\* runs: the caller gets an HTTP error and no engine_seq is used.
orders(p, r) ==
  /\ p \in Callers /\ Take(p, r)
  /\ IF kind = "disruptor" \/ r.type = "bad" THEN UNCHANGED <<pc, task>>
                                             ELSE Dispatch(p, r)

Stamp(entry) == log' = Append(log, entry)

\* An answer sequenced outside any book.
Aside(p) ==
  LET r == task[p].req IN
  /\ pc[p] = "aside"
  /\ Stamp([at |-> "aside", req |-> r])
  /\ status' = [status EXCEPT ![r.id] =
                  IF r.type = "cancel" THEN "not_found" ELSE "rejected"]
  /\ pend' = [pend EXCEPT ![p] = <<<<r.from, Len(log) + 1>>>>]
  /\ pc' = [pc EXCEPT ![p] = "send"]
  /\ UNCHANGED <<kind, flaky, todo, task, left, insertSeq, books, index, sendVars,
                 peer, got>>

\* ring.publish spins while the ring is full.
Publish(p) ==
  LET s == ShardOf[task[p].ord.sym] IN
  /\ kind = "disruptor" /\ p \in Conns /\ pc[p] = "enter"
  /\ Len(ring[s]) < RingSize
  /\ ring' = [ring EXCEPT ![s] = Append(@, task[p])]
  /\ pc' = [pc EXCEPT ![p] = "read"]
  /\ UNCHANGED <<kind, flaky, todo, task, pend, engineVars, out, outQ, outDropped,
                 peer, got>>

\* The matcher takes the next request; it is here that the disruptor validates.
Consume(s) ==
  /\ pc[s] = "idle" /\ ring[s] # <<>>
  /\ task' = [task EXCEPT ![s] = Head(ring[s])]
  /\ ring' = [ring EXCEPT ![s] = Tail(@)]
  /\ pc' = [pc EXCEPT ![s] =
              IF Head(ring[s]).req.type = "new" /\ Invalid(Head(ring[s]).req)
                THEN "aside" ELSE "enter"]
  /\ UNCHANGED <<kind, flaky, todo, pend, engineVars, out, outQ, outDropped,
                 peer, got>>

-----------------------------------------------------------------------------
(* Matching, which both engines do alike.                                   *)

\* The new orders that have entered a book; their number is the book's insertSeq.
Entered(sym) ==
  {n \in DOMAIN log : /\ log[n].at = "book"
                      /\ log[n].req.type = "new" /\ log[n].req.sym = sym}

\* A new order gets its engine_seq and its place in time.
Accept(p) ==
  LET o == task[p].req IN
  /\ Stamp([at |-> "book", req |-> o])
  /\ status' = [status EXCEPT ![o.id] = "accepted"]
  /\ left' = [left EXCEPT ![o.id] = o.qty]
  /\ insertSeq' = [insertSeq EXCEPT ![o.id] = 1 + Cardinality(Entered(o.sym))]
  /\ pend' = [pend EXCEPT ![p] = <<<<o.from, Len(log) + 1>>>>]
  /\ pc' = [pc EXCEPT ![p] = "book"]
  /\ UNCHANGED <<kind, flaky, todo, task, books, index, sendVars, peer, got>>

Min2(a, b) == IF a < b THEN a ELSE b

Ladder(p) == books[task[p].ord.sym][Opposite(task[p].ord.side)]

\* The condition of the loops of matchBuy and matchSell.
CanTrade(p) ==
  LET a == task[p].ord IN
  /\ left[a.id] > 0 /\ Ladder(p) # <<>>
  /\ a.otype = "MARKET" \/ Crosses(a, Head(Ladder(p)).price)

\* A fill goes to each of its recipients in turn.
sendFill(to, n) == [i \in DOMAIN to |-> <<to[i], n>>]

\* One turn of such a loop.
Trade(p) ==
  LET a == task[p].ord
      r == Head(Ladder(p))
      q == Min2(left[a.id], left[r.id])
      to == uniqueClients(a.from, r.from) IN
  /\ pc[p] = "book" /\ CanTrade(p)
  /\ Stamp([at |-> "fill", taker |-> a, maker |-> r, qty |-> q])
  /\ pend' = [pend EXCEPT ![p] = @ \o sendFill(to, Len(log) + 1)]
  /\ left' = [left EXCEPT ![a.id] = @ - q, ![r.id] = @ - q]
  /\ IF left[r.id] = q
       THEN /\ books' = [books EXCEPT ![a.sym][r.side] = Tail(@)]
            /\ index' = index \ {r}
       ELSE UNCHANGED <<books, index>>
  /\ UNCHANGED <<kind, flaky, todo, pc, task, status, insertSeq, sendVars, peer,
                 got>>

\* The ack of an order whose residual may not rest.
rejectResidual(o) == IF left[o.id] = o.qty THEN "book_full"
                                           ELSE "residual_dropped"

\* A REST call hands the fills over first and replies with the ack last.
ReplyOrder(p) == IF p \in Callers THEN Append(Tail(pend[p]), Head(pend[p]))
                                  ELSE pend[p]

\* The loop has ended; what is left of a limit order rests if it may.
RestResidual(p, mayRest) ==
  LET o == task[p].ord
      residual == left[o.id] > 0 /\ o.otype # "MARKET" IN
  /\ pc[p] = "book" /\ ~CanTrade(p)
  /\ IF residual /\ mayRest
       THEN /\ books' = [books EXCEPT ![o.sym][o.side] = insertSorted(@, o)]
            /\ index' = index \cup {o}
       ELSE UNCHANGED <<books, index>>
  /\ status' = IF residual /\ ~mayRest
                 THEN [status EXCEPT ![o.id] = rejectResidual(o)] ELSE status
  /\ pend' = [pend EXCEPT ![p] = ReplyOrder(p)]
  /\ pc' = [pc EXCEPT ![p] = "send"]
  /\ UNCHANGED <<kind, flaky, todo, task, log, left, insertSeq, sendVars, peer,
                 got>>

\* A cancel of order o, which may have traded since the index was read.
RemoveOrder(p, o, known) ==
  LET r == task[p].req
      s == books[o.sym][o.side]
      i == Position(s, o)
      found == known /\ RestsAt(s, i, o) IN
  /\ Stamp([at |-> "book", req |-> r])
  /\ status' = [status EXCEPT ![r.id] =
                  IF found THEN "canceled" ELSE "not_found"]
  /\ IF found THEN /\ books' = [books EXCEPT ![o.sym][o.side] = RemoveAt(@, i)]
                   /\ index' = index \ {o}
              ELSE UNCHANGED <<books, index>>
  /\ pend' = [pend EXCEPT ![p] = <<<<r.from, Len(log) + 1>>>>]
  /\ pc' = [pc EXCEPT ![p] = "send"]
  /\ UNCHANGED <<kind, flaky, todo, task, left, insertSeq, sendVars, peer, got>>

-----------------------------------------------------------------------------
(* The mutex engine: the connection's goroutine, under the book's lock.     *)

\* A lock that is kept until the answers are sent.
HasLockPastSending(p) ==
  /\ kind = "mutex" /\ p \in Conns /\ pc[p] = "enter"
  /\ \A q \in {c \in Conns : pc[c] \in {"book", "send"} /\ task[c].ord # None} :
       task[q].ord.sym # task[p].ord.sym

HasLock(p) ==
  /\ kind = "mutex" /\ p \in Conns /\ pc[p] = "enter"
  /\ \A q \in Conns : pc[q] = "book" => task[q].ord.sym # task[p].ord.sym

ProcessNew(p) ==
  \/ HasLock(p) /\ task[p].req.type = "new" /\ Accept(p)
  \/ p \in Conns /\ Trade(p)

\* The ladder is capped; returning releases the lock.
RestOrReject(p) ==
  /\ p \in Conns /\ pc[p] = "book"
  /\ LET o == task[p].ord IN
     RestResidual(p, Len(books[o.sym][o.side]) < MaxResting)

ProcessCancel(p) ==
  /\ HasLock(p) /\ task[p].req.type = "cancel"
  /\ RemoveOrder(p, task[p].ord, TRUE)

-----------------------------------------------------------------------------
(* The disruptor: the shard's matcher, which has the shard's books alone.   *)

processNew(s) ==
  \/ /\ s \in Shards /\ pc[s] = "enter" /\ task[s].req.type = "new"
     /\ Accept(s)
  \/ s \in Shards /\ RestResidual(s, TRUE)

shardMatch(s) == s \in Shards /\ Trade(s)

\* The index is read again.
processCancel(s) ==
  /\ s \in Shards /\ pc[s] = "enter" /\ task[s].req.type = "cancel"
  /\ RemoveOrder(s, task[s].ord, Resting(task[s].req.orig) # {})

-----------------------------------------------------------------------------
(* Answers.                                                                 *)

\* p has handed over the first of its answers.
HandedOver(p) ==
  /\ pend' = [pend EXCEPT ![p] = Tail(@)]
  /\ pc' = [pc EXCEPT ![p] = IF Len(pend[p]) > 1 THEN "send"
                             ELSE IF p \in Shards THEN "idle" ELSE "read"]

\* mutex: SendJSON on the goroutine that matched.  It waits for a peer that does
\* not read; a write to a closed connection fails and is only logged.
SendJSON(p) ==
  LET c == Head(pend[p])[1] IN
  /\ kind = "mutex" /\ pc[p] = "send"
  /\ c \in Clients => peer[c] # "stalled"
  /\ got' = IF c \in Clients /\ peer[c] = "gone" THEN got
            ELSE [got EXCEPT ![c] = @ \cup {Head(pend[p])[2]}]
  /\ HandedOver(p)
  /\ UNCHANGED <<kind, flaky, todo, task, engineVars, sendVars, peer>>

\* disruptor: the channel `out`, which blocks when it is full.
SendOut(p) ==
  /\ kind = "disruptor" /\ pc[p] = "send"
  /\ Len(out) < OutCap + OutputWriters
  /\ out' = Append(out, Head(pend[p]))
  /\ HandedOver(p)
  /\ UNCHANGED <<kind, flaky, todo, task, engineVars, ring, outQ, outDropped,
                 peer, got>>

\* A queue that makes its caller wait instead of dropping.
NeverDrops(c) == FALSE

MayDrop(c) == Len(outQ[c]) >= QueueCap

\* A message goes into its client's queue, or is dropped and counted.  The client's
\* writer holds the first message of outQ: it may or may not have taken it out of
\* the channel yet and so made room for one more.
enqueue(c, n) ==
  \/ /\ Len(outQ[c]) < QueueCap + 1
     /\ outQ' = [outQ EXCEPT ![c] = Append(@, n)]
     /\ UNCHANGED outDropped
  \/ /\ MayDrop(c)
     /\ outDropped' = [outDropped EXCEPT ![c] = @ + 1]
     /\ UNCHANGED outQ

\* The output writers hold the first messages of `out`, one each, and are done with
\* them in any order.
outputLoop(i) ==
  /\ i <= OutputWriters
  /\ out' = RemoveAt(out, i)
  /\ enqueue(out[i][1], out[i][2])
  /\ UNCHANGED <<kind, flaky, todo, pc, task, pend, engineVars, ring, peer, got>>

\* writeLoop: the client's writer is held up by a peer that does not read, and ends
\* at the first failed write.
writeLoop(c) ==
  /\ outQ[c] # <<>> /\ peer[c] = "reads"
  /\ got' = [got EXCEPT ![c] = @ \cup {Head(outQ[c])}]
  /\ outQ' = [outQ EXCEPT ![c] = Tail(@)]
  /\ UNCHANGED <<kind, flaky, todo, pc, task, pend, engineVars, ring, out, outDropped,
                 peer>>

\* The peer stops reading, or closes the connection.
Stall(c) ==
  /\ c \in flaky /\ peer[c] = "reads"
  /\ peer' \in {[peer EXCEPT ![c] = "stalled"], [peer EXCEPT ![c] = "gone"]}
  /\ UNCHANGED <<kind, flaky, todo, pc, task, pend, engineVars, sendVars, got>>

\* No pong arrives from a peer that does not read: the read deadline passes while
\* its handler waits for a message, and the handler closes the connection.
Reap(c) ==
  /\ peer[c] = "stalled" /\ pc[c] = "read"
  /\ peer' = [peer EXCEPT ![c] = "gone"]
  /\ UNCHANGED <<kind, flaky, todo, pc, task, pend, engineVars, sendVars, got>>

Handle(p) ==
  \/ Aside(p) \/ ProcessNew(p) \/ RestOrReject(p) \/ ProcessCancel(p)
  \/ processNew(p) \/ shardMatch(p) \/ processCancel(p)
  \/ SendJSON(p) \/ SendOut(p)

Next ==
  \/ \E p \in Conns : \/ \E r \in todo : ws(p, r) \/ orders(p, r)
                      \/ Publish(p)
  \/ \E s \in Shards : Consume(s)
  \/ \E p \in Workers : Handle(p)
  \/ \E i \in DOMAIN out : outputLoop(i)
  \/ \E c \in Clients : writeLoop(c) \/ Stall(c) \/ Reap(c)

\* Goroutines run; a mutex, a channel and a spinning ring let everyone through;
\* nothing is assumed of the peers.
Fairness ==
  /\ \A p \in Workers : WF_vars(Handle(p))
  /\ \A p \in Conns : WF_vars(Publish(p))
  /\ \A s \in Shards : WF_vars(Consume(s))
  /\ WF_vars(\E i \in DOMAIN out : outputLoop(i))
  /\ \A c \in Clients : WF_vars(writeLoop(c)) /\ WF_vars(Reap(c))

Spec == Init /\ [][Next]_vars /\ Fairness

-----------------------------------------------------------------------------
(* Reference: requests replayed one after the other on a book that is a      *)
(* sequence of orders in order of arrival.  Price-time priority is stated    *)
(* without a loop: an order takes what the better ones leave of it.          *)

Better(a, i, b, j) ==
  \/ a.price # b.price /\ (a.price > b.price) = (a.side = "BUY")
  \/ a.price = b.price /\ (a.ts < b.ts \/ (a.ts = b.ts /\ i < j))

ReplayNew(st, o) ==
  LET b == st.book
      Cand == {i \in DOMAIN b : /\ b[i].ord.sym = o.sym /\ b[i].ord.side # o.side
                                /\ o.otype = "MARKET" \/ Crosses(o, b[i].ord.price)}
      Ahead(i) == {j \in Cand : Better(b[j].ord, j, b[i].ord, i)}
      Part(i) == Min2(b[i].left,
                   Max({0, o.qty - MapThenSumSet(LAMBDA j : b[j].left, Ahead(i))}))
      trades == {[taker |-> o.id, maker |-> b[i].ord.id, qty |-> Part(i),
                  nth |-> Cardinality(Ahead(i)) + 1] :
                   i \in {j \in Cand : Part(j) > 0}}
      rem == o.qty - MapThenSumSet(Part, Cand)
      kept == SelectSeq([i \in DOMAIN b |-> IF i \in Cand
                           THEN [b[i] EXCEPT !.left = @ - Part(i)] ELSE b[i]],
                        LAMBDA e : e.left > 0)
      depth == Len(SelectSeq(kept, LAMBDA e : e.ord.sym = o.sym
                                              /\ e.ord.side = o.side))
      rests == rem > 0 /\ o.otype # "MARKET"
               /\ (kind = "disruptor" \/ depth < MaxResting) IN
  [book |-> IF rests THEN Append(kept, [ord |-> o, left |-> rem]) ELSE kept,
   trades |-> st.trades \cup trades,
   acks |-> st.acks \cup
     {<<o.id, IF rests \/ rem = 0 \/ o.otype = "MARKET" THEN "accepted"
              ELSE IF rem = o.qty THEN "book_full" ELSE "residual_dropped">>}]

ReplayCancel(st, r) ==
  LET kept == SelectSeq(st.book, LAMBDA e : e.ord.id # r.orig) IN
  [st EXCEPT !.book = kept,
     !.acks = @ \cup {<<r.id, IF kept = st.book THEN "not_found"
                                               ELSE "canceled">>}]

Replay(requests) ==
  FoldLeft(LAMBDA st, e : IF e.req.type = "new" THEN ReplayNew(st, e.req)
                                                ELSE ReplayCancel(st, e.req),
           [book |-> <<>>, trades |-> {}, acks |-> {}], requests)

BookOf(st) == {<<st.book[i].ord.id, st.book[i].left>> : i \in DOMAIN st.book}

\* What the engine did.
EngineBook ==
  UNION {{<<o.id, left[o.id]>> : o \in ToSet(books[s][side])} :
           s \in Symbols, side \in Side}

EngineTrades ==
  {[taker |-> log[n].taker.id, maker |-> log[n].maker.id, qty |-> log[n].qty,
    nth |-> Cardinality({m \in 1..n : log[m].at = "fill"
                                      /\ log[m].taker = log[n].taker})] :
     n \in {m \in DOMAIN log : log[m].at = "fill"}}

\* No worker is inside a book or has answers to hand over.
Settled == \A p \in Workers : pc[p] \notin {"book", "send"}

\* Requests that were handled in a book, in engine_seq order, replayed one by one
\* give the fills, the books and the answers of the engine: with matching spread
\* over goroutines, engine_seq order is still the processing order that the
\* validator relies on (main.go, Engine and ProcessNew).
SequencedAsProcessed ==
  LET entries == SelectSeq(log, LAMBDA e : e.at = "book")
      st == Replay(entries) IN
  Settled => /\ BookOf(st) = EngineBook
             /\ st.trades = EngineTrades
             /\ st.acks = {<<e.req.id, status[e.req.id]>> : e \in ToSet(entries)}

\* The validator replays every request that has an ack by engine_seq, not_found
\* cancels too.  main.go and disruptor.go say of a cancel that misses the index
\* that its position can't affect any book.
MissedCancelIsNoOp ==
  Settled => BookOf(Replay(SelectSeq(log, LAMBDA e :
               /\ e.at # "fill" /\ e.req.type # "bad"
               /\ e.at = "aside" => e.req.type = "cancel"))) = EngineBook

\* The index, which cancels read without a lock and matchers of all shards write,
\* holds exactly the orders on the books: no resting order is beyond cancelling.
IndexIsExact ==
  {o.id : o \in index} = {e[1] : e \in EngineBook}

\* Messages for c: the answers to its requests and the fills of its orders.
Owed(c) ==
  {n \in DOMAIN log : IF log[n].at = "fill"
                        THEN c \in {log[n].taker.from, log[n].maker.from}
                        ELSE log[n].req.from = c}

InFlight(c) ==
  LET pairs == ToSet(out) \cup UNION {ToSet(pend[p]) : p \in Workers} IN
  {n \in DOMAIN log : <<c, n>> \in pairs} \cup ToSet(outQ[c])

\* A message for a client that is connected is on its way, received, or dropped
\* and counted, and is so exactly once, through the output channel, its several
\* writers and the bounded queue (uniqueClients, sendFill, enqueue).
EveryMessageAccounted ==
  \A c \in Clients : peer[c] # "gone" =>
    Cardinality(Owed(c)) =
      Cardinality(InFlight(c)) + Cardinality(got[c]) + outDropped[c]

\* Requests that were read and are not yet handled.
Waiting ==
  {task[p].req.id : p \in {q \in Workers : pc[q] \in {"enter", "aside"}}}
    \cup UNION {{t.req.id : t \in ToSet(ring[s])} : s \in Shards}

\* Whatever the peers do, every request that was read is handled (the load is
\* finite): no lock is held while a socket is written to, and the output stage
\* never waits for a client.
SubmittedIsHandled == Waiting # {} ~> Waiting = {}

\* A client that reads gets all its messages, unless one was dropped and counted;
\* with the mutex engine a peer that does not read may hold its counterparties up.
ReaderIsAnswered ==
  \A c \in Clients :
    Owed(c) # {} ~>
      \/ Owed(c) \subseteq got[c] \/ peer[c] # "reads" \/ outDropped[c] > 0
      \/ kind = "mutex" /\ \E d \in Clients : peer[d] = "stalled"
=============================================================================
