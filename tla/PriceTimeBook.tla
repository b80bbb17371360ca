--------------------------- MODULE PriceTimeBook ----------------------------
(***************************************************************************)
(* Price-time priority matching over one set of resting orders: what       *)
(* rust/reference-orderbook promises, in the form of its test oracle       *)
(* NaiveBook.  The oracle keeps each side as a vector sorted by price, time *)
(* stamp and insertion number; the order of a vector is a function of its  *)
(* contents, so the model keeps the contents and calls an order first when *)
(* no other order of its side sorts before it.                             *)
(*                                                                         *)
(* A call of process_new_order is the steps Submit, Match (one per turn of *)
(* the matching loop) and Finish; nothing else happens in between, since   *)
(* the book is borrowed mutably for the whole call.                        *)
(***************************************************************************)
EXTENDS Integers, Sequences

CONSTANTS
  Ids,      \* client order ids
  Prices,   \* prices that occur in requests
  MaxQty,   \* bound on the quantity of a request
  Stamps,   \* time stamps that occur in requests
  MaxSeq,   \* bound on the number of accepted orders
  None

Side == {"BUY", "SELL"}

Opposite(side) == IF side = "BUY" THEN "SELL" ELSE "BUY"

Order == [id : Ids, side : Side, price : Prices, qty : 0..MaxQty, ts : Stamps,
          seq : Nat]

Fill == [buy : Ids, sell : Ids, price : Prices, qty : 1..MaxQty]

VARIABLES
  resting,    \* the orders on the book
  insert_seq, \* number of orders accepted so far
  active,     \* the order being matched, with its remaining quantity, or None
  market,     \* whether it is a market order
  fills       \* fills returned by the current, or the last, call

vars == <<resting, insert_seq, active, market, fills>>

TypeOK ==
  /\ resting \in SUBSET Order
  /\ insert_seq \in Nat
  /\ active \in Order \cup {None}
  /\ market \in BOOLEAN
  /\ fills \in Seq(Fill)

Init ==
  /\ resting = {}
  /\ insert_seq = 0
  /\ active = None
  /\ market = FALSE
  /\ fills = <<>>

\* The checks of process_new_order; a request that fails one changes nothing.
Accepted(price, qty, isMarket) == qty > 0 /\ (isMarket \/ price > 0)

Submit(id, side, price, qty, ts, isMarket) ==
  /\ active = None /\ insert_seq < MaxSeq
  /\ Accepted(price, qty, isMarket)
  /\ \A o \in resting : o.id # id
  /\ insert_seq' = insert_seq + 1
  /\ active' = [id |-> id, side |-> side, price |-> price, qty |-> qty,
                ts |-> ts, seq |-> insert_seq + 1]
  /\ market' = isMarket
  /\ fills' = <<>>
  /\ UNCHANGED resting

\* o stands before r in the sorted vector of their side.
Before(o, r) ==
  IF o.price # r.price
    THEN IF o.side = "BUY" THEN o.price > r.price ELSE o.price < r.price
    ELSE o.ts < r.ts \/ (o.ts = r.ts /\ o.seq < r.seq)

\* An order of side `side` limited to `limit` may trade at p.
Crosses(side, limit, p) == IF side = "BUY" THEN p <= limit ELSE p >= limit

\* r is the first order of the side opposite to the active order.
First(r) ==
  /\ r \in resting /\ r.side = Opposite(active.side)
  /\ \A o \in resting : o.side = r.side => ~Before(o, r)

Min(a, b) == IF a <= b THEN a ELSE b

FillOf(a, r, qty) ==
  [buy |-> IF a.side = "BUY" THEN a.id ELSE r.id,
   sell |-> IF a.side = "BUY" THEN r.id ELSE a.id,
   price |-> r.price, qty |-> qty]

\* What a trade of qty leaves of a resting order.
Remainder(r, qty) == IF r.qty = qty THEN {} ELSE {[r EXCEPT !.qty = @ - qty]}

Match ==
  /\ active # None /\ active.qty > 0
  /\ \E r \in resting :
       LET qty == Min(active.qty, r.qty) IN
       /\ First(r)
       /\ market \/ Crosses(active.side, active.price, r.price)
       /\ fills' = Append(fills, FillOf(active, r, qty))
       /\ active' = [active EXCEPT !.qty = @ - qty]
       /\ resting' = (resting \ {r}) \cup Remainder(r, qty)
  /\ UNCHANGED <<insert_seq, market>>

\* The loop ends; what is left of a limit order rests.
Finish ==
  /\ active # None
  /\ \/ active.qty = 0
     \/ \A r \in resting :
          First(r) => ~market /\ ~Crosses(active.side, active.price, r.price)
  /\ resting' = IF active.qty > 0 /\ ~market THEN resting \cup {active}
                                             ELSE resting
  /\ active' = None
  /\ UNCHANGED <<insert_seq, market, fills>>

Cancel(id) ==
  /\ active = None
  /\ \E o \in resting : o.id = id
  /\ resting' = {o \in resting : o.id # id}
  /\ UNCHANGED <<insert_seq, active, market, fills>>

Next ==
  \/ \E id \in Ids, side \in Side, price \in Prices, qty \in 0..MaxQty,
        ts \in Stamps, isMarket \in BOOLEAN :
       Submit(id, side, price, qty, ts, isMarket)
  \/ Match \/ Finish
  \/ \E id \in Ids : Cancel(id)

Spec == Init /\ [][Next]_vars
=============================================================================
