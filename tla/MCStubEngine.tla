--------------------------- MODULE MCStubEngine ---------------------------
(* Small loads for StubEngine. *)
EXTENDS StubEngine

CONSTANTS c1, c2, rest, X, Y, s1, s2

MCShardOf == (X :> s1) @@ (Y :> s2)

New(id, from, sym, side, price, ts, qty) ==
  [id |-> id, from |-> from, type |-> "new", sym |-> sym, side |-> side,
   price |-> price, ts |-> ts, qty |-> qty, otype |-> "LIMIT", long |-> FALSE,
   orig |-> id]

Drop(id, from, orig) ==
  [New(id, from, X, "BUY", 0, 0, 0) EXCEPT !.type = "cancel", !.orig = orig]

Bad(id, from) == [New(id, from, X, "BUY", 0, 0, 0) EXCEPT !.type = "bad"]

MCLoads ==
  { \* two makers at one price whose stamps may contradict their arrival, a taker,
    \* and a cancel that races both
    [reqs |-> {New(1, c1, X, "SELL", 1, 2, 1), New(2, c2, X, "SELL", 1, 1, 2),
               New(3, c2, X, "BUY", 2, 1, 2), Drop(4, c1, 2)},
     flaky |-> {}],
    \* a side at its cap, a taker with a residual
    [reqs |-> {New(1, c1, X, "BUY", 1, 1, 1), New(2, c2, X, "BUY", 1, 1, 1),
               New(3, rest, X, "SELL", 2, 1, 1), New(4, rest, X, "BUY", 2, 1, 2)},
     flaky |-> {}],
    \* a counterparty that stops reading or goes away
    [reqs |-> {New(1, c2, X, "SELL", 1, 1, 3), New(2, c1, X, "BUY", 1, 1, 1),
               New(3, c2, X, "BUY", 1, 1, 1), New(4, c1, X, "BUY", 1, 1, 1)},
     flaky |-> {c2}],
    \* a cancel right behind its order
    [reqs |-> {New(1, c1, X, "SELL", 1, 1, 2), Drop(2, c1, 1),
               New(3, c2, X, "BUY", 1, 1, 1)},
     flaky |-> {c1}],
    \* two books, a market order, one of an unknown type, a cancel over REST
    [reqs |-> {New(1, c1, X, "SELL", 1, 1, 1),
               [New(2, c2, Y, "BUY", 0, 1, 1) EXCEPT !.otype = "other"],
               [New(3, c2, X, "BUY", 0, 1, 2) EXCEPT !.otype = "MARKET"],
               Drop(4, rest, 2)},
     flaky |-> {}],
    \* what the engines refuse
    [reqs |-> {New(1, c1, X, "SELL", 1, 1, 0), Bad(2, c2), Bad(3, rest),
               [New(4, c1, Y, "SELL", 1, 1, 1) EXCEPT !.long = TRUE]},
     flaky |-> {c2}] }
=============================================================================
