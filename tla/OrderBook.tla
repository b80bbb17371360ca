----------------------------- MODULE OrderBook ------------------------------
(***************************************************************************)
(* The order book of rust/reference-orderbook (book.rs) as it is stored:   *)
(* per side a tree of price levels, per level a tree of orders keyed by    *)
(* (ts_ns, insert_seq), and an index from order ids to places that cancel  *)
(* uses instead of a search.  The validator replays every benchmark on it. *)
(*                                                                         *)
(* level[side][p] is the set of orders of a level and prices[side] the key *)
(* set of the side's tree: a key whose level is empty is a state the code  *)
(* could be in, and its `expect` calls would then panic.                   *)
(***************************************************************************)
EXTENDS Integers, Sequences

CONSTANTS Ids, Prices, MaxQty, Stamps, MaxSeq, None

VARIABLES
  prices,      \* the keys of buys and of sells
  level,       \* their levels
  index,       \* place of each resting order, or None
  insert_seq, active, market, fills

vars == <<prices, level, index, insert_seq, active, market, fills>>

\* The orders on the book.
Resting == UNION {level[side][p] : side \in {"BUY", "SELL"}, p \in Prices}

\* The book as a set of orders matched by price-time priority.
Abstract == INSTANCE PriceTimeBook WITH resting <- Resting

Side == Abstract!Side
Order == Abstract!Order
Opposite(side) == Abstract!Opposite(side)

ASSUME PricesAssumption == Prices \subseteq Int
ASSUME StampsAssumption == Stamps \subseteq Nat
ASSUME BoundsAssumption == MaxQty \in Nat /\ MaxSeq \in Nat

\* Where an order rests: the value type of the index.
Place == [side : Side, price : Prices, ts : Stamps, seq : Nat]

ASSUME NoneAssumption == None \notin Order /\ None \notin Place

PlaceOf(o) == [side |-> o.side, price |-> o.price, ts |-> o.ts, seq |-> o.seq]

TypeOK ==
  /\ prices \in [Side -> SUBSET Prices]
  /\ level \in [Side -> [Prices -> SUBSET Order]]
  /\ index \in [Ids -> Place \cup {None}]
  /\ insert_seq \in Nat
  /\ active \in Order \cup {None}
  /\ market \in BOOLEAN
  /\ fills \in Seq(Abstract!Fill)

Init ==
  /\ prices = [side \in Side |-> {}]
  /\ level = [side \in Side |-> [p \in Prices |-> {}]]
  /\ index = [id \in Ids |-> None]
  /\ insert_seq = 0
  /\ active = None
  /\ market = FALSE
  /\ fills = <<>>

\* process_new_order up to the matching loop.  The load generator gives every
\* order an id of its own; an id may come back once its order is gone.
Submit(id, side, price, qty, ts, isMarket) ==
  /\ active = None /\ insert_seq < MaxSeq
  /\ Abstract!Accepted(price, qty, isMarket)
  /\ index[id] = None
  /\ insert_seq' = insert_seq + 1
  /\ active' = [id |-> id, side |-> side, price |-> price, qty |-> qty,
                ts |-> ts, seq |-> insert_seq + 1]
  /\ market' = isMarket
  /\ fills' = <<>>
  /\ UNCHANGED <<prices, level, index>>

\* The first key of sells, or the last key of buys.
Best(side, p) ==
  /\ p \in prices[side]
  /\ \A q \in prices[side] : IF side = "SELL" THEN p <= q ELSE p >= q

\* Mutant: a level is a queue in arrival order.
FrontByArrival(side, p, o) ==
  /\ o \in level[side][p]
  /\ \A r \in level[side][p] : o.seq <= r.seq

\* The order with the least key of a level.
Front(side, p, o) ==
  /\ o \in level[side][p]
  /\ \A r \in level[side][p] : o.ts < r.ts \/ (o.ts = r.ts /\ o.seq <= r.seq)

\* Quantity of the trade between the active order and the resting order o.
Traded(o) == Abstract!Min(active.qty, o.qty)

\* Mutant: any fill drops the resting order from the index.
UnindexOnFill(o, qty) == [index EXCEPT ![o.id] = None]

\* The index loses a resting order when it is filled completely.
Unindex(o, qty) == IF o.qty = qty THEN [index EXCEPT ![o.id] = None] ELSE index

\* Mutant: the key of an empty level stays.
KeepKey(side, p, left) == prices

\* The key of a level goes with the level's last order.
DropKey(side, p, left) ==
  IF left = {} THEN [prices EXCEPT ![side] = @ \ {p}] ELSE prices

\* One turn of the loop of match_buy or match_sell.
MatchFront ==
  /\ active # None /\ active.qty > 0
  /\ LET side == Opposite(active.side) IN
     \E p \in prices[side] :
       /\ Best(side, p)
       /\ market \/ Abstract!Crosses(active.side, active.price, p)
       /\ \E o \in level[side][p] :
            LET qty  == Traded(o)
                left == (level[side][p] \ {o}) \cup Abstract!Remainder(o, qty)
            IN
            /\ Front(side, p, o)
            /\ fills' = Append(fills, Abstract!FillOf(active, o, qty))
            /\ active' = [active EXCEPT !.qty = @ - qty]
            /\ level' = [level EXCEPT ![side][p] = left]
            /\ index' = Unindex(o, qty)
            /\ prices' = DropKey(side, p, left)
  /\ UNCHANGED <<insert_seq, market>>

\* Mutant: the loop is also left when the best price equals the limit.
LoopEndsAtTouch ==
  LET side == Opposite(active.side) IN
  \/ active.qty = 0
  \/ prices[side] = {}
  \/ \E p \in prices[side] :
       Best(side, p) /\ ~market
       /\ (p = active.price \/ ~Abstract!Crosses(active.side, active.price, p))

\* The loop is left when nothing remains to be traded, or the best price of
\* the other side, if there is one, does not cross.
LoopEnds ==
  LET side == Opposite(active.side) IN
  \/ active.qty = 0
  \/ prices[side] = {}
  \/ \E p \in prices[side] :
       Best(side, p) /\ ~market
       /\ ~Abstract!Crosses(active.side, active.price, p)

\* rest_order: index entry, level (created when missing), order.
RestOrder(o) ==
  /\ index' = [index EXCEPT ![o.id] = PlaceOf(o)]
  /\ prices' = [prices EXCEPT ![o.side] = @ \cup {o.price}]
  /\ level' = [level EXCEPT ![o.side][o.price] = @ \cup {o}]

Finish ==
  /\ active # None /\ LoopEnds
  /\ IF active.qty > 0 /\ ~market THEN RestOrder(active)
                                  ELSE UNCHANGED <<prices, level, index>>
  /\ active' = None
  /\ UNCHANGED <<insert_seq, market, fills>>

\* cancel goes to the level by the stored place and removes that key.
Cancel(id) ==
  /\ active = None /\ index[id] # None
  /\ LET side == index[id].side
         p    == index[id].price
         left == {o \in level[side][p] :
                    ~(o.ts = index[id].ts /\ o.seq = index[id].seq)}
     IN
     IF p \in prices[side]
       THEN /\ level' = [level EXCEPT ![side][p] = left]
            /\ prices' = DropKey(side, p, left)
       ELSE UNCHANGED <<level, prices>>
  /\ index' = [index EXCEPT ![id] = None]
  /\ UNCHANGED <<insert_seq, active, market, fills>>

Next ==
  \/ \E id \in Ids, side \in Side, price \in Prices, qty \in 0..MaxQty,
        ts \in Stamps, isMarket \in BOOLEAN :
       Submit(id, side, price, qty, ts, isMarket)
  \/ MatchFront \/ Finish
  \/ \E id \in Ids : Cancel(id)

Spec == Init /\ [][Next]_vars

-----------------------------------------------------------------------------
(* Properties *)

\* The trees hold no empty level: the `expect` calls of the matching loop
\* cannot fail.
NoEmptyLevel ==
  \A side \in Side, p \in Prices : p \in prices[side] <=> level[side][p] # {}

\* The index and the levels describe the same orders, each at its place with a
\* positive quantity: a cancel finds exactly the order it names.
IndexMatchesLevels ==
  /\ \A side \in Side, p \in Prices : \A o \in level[side][p] :
       o.side = side /\ o.price = p /\ o.qty > 0 /\ index[o.id] = PlaceOf(o)
  /\ \A id \in Ids : index[id] # None =>
       \E o \in Resting : o.id = id

\* The book is never crossed: every bid is below every ask, also while an order
\* is being matched.
NotCrossed == \A b \in prices["BUY"], a \in prices["SELL"] : b < a

\* Every call returns the fills that price-time priority prescribes, and leaves
\* the orders it prescribes, whatever calls came before.
ImplementsPriceTime == Abstract!Spec
=============================================================================
