-------------------------- MODULE OrderBookProofs ---------------------------
(***************************************************************************)
(* What OrderBook.tla says of the reference order book, for every set of   *)
(* ids, prices and time stamps and every bound: the consistency of levels, *)
(* index and keys, an uncrossed book, and the refinement of price-time     *)
(* priority.                                                               *)
(***************************************************************************)
EXTENDS OrderBook, TLAPS

\* insert_seq has numbered every resting order, and no two alike: the key
\* (ts_ns, insert_seq) of a level names one order.
SeqIsKey ==
  \A s, t \in Side : \A p, q \in Prices :
    \A o \in level[s][p] : \A r \in level[t][q] :
      o.seq <= insert_seq /\ (o.seq = r.seq => o = r)

\* The order being matched is newer than every resting one and not indexed.
ActiveIsNew ==
  active # None =>
    /\ active.seq = insert_seq
    /\ index[active.id] = None
    /\ \A s \in Side : \A p \in Prices : \A o \in level[s][p] :
         o.seq < active.seq

\* The two halves of IndexMatchesLevels.
Placed ==
  \A s \in Side : \A p \in Prices : \A o \in level[s][p] :
    o.side = s /\ o.price = p /\ o.qty > 0 /\ index[o.id] = PlaceOf(o)

Indexed ==
  \A id \in Ids : index[id] # None =>
    \E s \in Side : \E p \in Prices : \E o \in level[s][p] : o.id = id

BookInv == /\ TypeOK /\ NoEmptyLevel /\ Placed /\ Indexed /\ SeqIsKey
           /\ ActiveIsNew

-----------------------------------------------------------------------------
(* Orders and quantities *)

\* An order and its fields.
LEMMA OrderFields ==
  ASSUME NEW o \in Order
  PROVE  /\ o.id \in Ids /\ o.side \in Side /\ o.price \in Prices
         /\ o.qty \in 0..MaxQty /\ o.ts \in Stamps /\ o.seq \in Nat
         /\ o # None /\ PlaceOf(o) \in Place /\ PlaceOf(o) # None
  BY NoneAssumption DEF Order, Abstract!Order, Side, PlaceOf, Place

\* The side to match against.
LEMMA OppositeSide ==
  ASSUME NEW s \in Side
  PROVE  Opposite(s) \in Side /\ Opposite(s) # s
  BY DEF Side, Abstract!Side, Opposite, Abstract!Opposite

\* A trade takes a positive quantity that neither order exceeds, uses one of
\* them up, and leaves a well-formed rest of the other.
LEMMA TradeEffect ==
  ASSUME NEW o \in Order, active \in Order, active.qty > 0, o.qty > 0
  PROVE  /\ Traded(o) \in 1..MaxQty
         /\ Traded(o) <= active.qty /\ Traded(o) <= o.qty
         /\ [active EXCEPT !.qty = @ - Traded(o)] \in Order
         /\ o.qty # Traded(o) => [o EXCEPT !.qty = @ - Traded(o)] \in Order
<1>1. active.qty \in 0..MaxQty /\ o.qty \in 0..MaxQty
  BY OrderFields
<1>2. /\ Traded(o) \in 1..MaxQty
      /\ Traded(o) <= active.qty /\ Traded(o) <= o.qty
  BY <1>1, BoundsAssumption DEF Traded, Abstract!Min
<1>3. /\ active.qty - Traded(o) \in 0..MaxQty
      /\ o.qty - Traded(o) \in 0..MaxQty
  BY <1>1, <1>2, BoundsAssumption
<1> QED
  BY <1>2, <1>3 DEF Order, Abstract!Order

\* Replacing the orders of one level.
LEMMA LevelUpdate ==
  ASSUME NEW f \in [Side -> [Prices -> SUBSET Order]], NEW s \in Side,
         NEW p \in Prices, NEW orders \in SUBSET Order
  PROVE  [f EXCEPT ![s][p] = orders] \in [Side -> [Prices -> SUBSET Order]]
  OBVIOUS

-----------------------------------------------------------------------------
(* One turn of the matching loop *)

\* What is left of o after a trade with the active order.
Rest(o) == [o EXCEPT !.qty = @ - Traded(o)]

\* The level of o after that trade.
Left(o) == (level[o.side][o.price] \ {o}) \cup Abstract!Remainder(o, Traded(o))

\* A loop turn that trades with o, in terms of the fields of o.
MatchWith(o) ==
  /\ active # None /\ active.qty > 0
  /\ o \in Order /\ o.side = Opposite(active.side)
  /\ o.price \in prices[o.side] /\ o \in level[o.side][o.price]
  /\ Best(o.side, o.price) /\ Front(o.side, o.price, o)
  /\ market \/ Abstract!Crosses(active.side, active.price, o.price)
  /\ fills' = Append(fills, Abstract!FillOf(active, o, Traded(o)))
  /\ active' = [active EXCEPT !.qty = @ - Traded(o)]
  /\ level' = [level EXCEPT ![o.side][o.price] = Left(o)]
  /\ index' = Unindex(o, Traded(o))
  /\ prices' = DropKey(o.side, o.price, Left(o))
  /\ UNCHANGED <<insert_seq, market>>

\* The order a loop turn trades with stands where its fields say.
LEMMA MatchNamesOrder ==
  ASSUME BookInv, MatchFront
  PROVE  \E o \in Order : MatchWith(o)
<1> DEFINE side == Opposite(active.side)
<1>1. active \in Order /\ side \in Side
  BY OppositeSide, OrderFields DEF MatchFront, BookInv, TypeOK
<1>2. PICK p \in prices[side] :
        /\ Best(side, p)
        /\ market \/ Abstract!Crosses(active.side, active.price, p)
        /\ \E o \in level[side][p] :
            LET qty  == Traded(o)
                left == (level[side][p] \ {o}) \cup Abstract!Remainder(o, qty)
            IN
            /\ Front(side, p, o)
            /\ fills' = Append(fills, Abstract!FillOf(active, o, qty))
            /\ active' = [active EXCEPT !.qty = @ - qty]
            /\ level' = [level EXCEPT ![side][p] = left]
            /\ index' = Unindex(o, qty)
            /\ prices' = DropKey(side, p, left)
  BY DEF MatchFront
<1>3. p \in Prices
  BY <1>1, <1>2 DEF BookInv, TypeOK
<1>4. PICK o \in level[side][p] :
        /\ Front(side, p, o)
        /\ fills' = Append(fills, Abstract!FillOf(active, o, Traded(o)))
        /\ active' = [active EXCEPT !.qty = @ - Traded(o)]
        /\ level' = [level EXCEPT ![side][p] =
                       (level[side][p] \ {o})
                         \cup Abstract!Remainder(o, Traded(o))]
        /\ index' = Unindex(o, Traded(o))
        /\ prices' = DropKey(side, p, (level[side][p] \ {o})
                                        \cup Abstract!Remainder(o, Traded(o)))
  BY <1>2
<1>5. o \in Order /\ o.side = side /\ o.price = p
  BY <1>1, <1>3, <1>4 DEF BookInv, TypeOK, Placed
<1>6. MatchWith(o)
  BY <1>1, <1>2, <1>4, <1>5 DEF MatchWith, Left, MatchFront
<1> QED
  BY <1>5, <1>6

\* The levels after a trade: those who stay, and what is left of o.
LEMMA LevelsAfterMatch ==
  ASSUME BookInv, NEW o, MatchWith(o), NEW s \in Side, NEW p \in Prices
  PROVE  /\ \A r : r \in level'[s][p] <=>
              \/ r \in level[s][p] /\ r # o
              \/ /\ s = o.side /\ p = o.price
                 /\ o.qty # Traded(o) /\ r = Rest(o)
         /\ s = o.side /\ p = o.price => level'[s][p] = Left(o)
         /\ ~(s = o.side /\ p = o.price) => level'[s][p] = level[s][p]
<1>1. o.side \in Side /\ o.price \in Prices
  BY OrderFields DEF MatchWith
<1>2. CASE s = o.side /\ p = o.price
  <2>1. level'[s][p] = Left(o)
    BY <1>1, <1>2 DEF MatchWith, BookInv, TypeOK
  <2> QED
    BY <1>2, <2>1 DEF Left, Rest, Abstract!Remainder
<1>3. CASE ~(s = o.side /\ p = o.price)
  <2>1. level'[s][p] = level[s][p]
    BY <1>1, <1>3 DEF MatchWith, BookInv, TypeOK
  <2>2. o \notin level[s][p]
    BY <1>3 DEF BookInv, Placed
  <2> QED
    BY <1>3, <2>1, <2>2
<1> QED
  BY <1>2, <1>3

\* What is left of o is o in everything but the quantity.
LEMMA RestFields ==
  ASSUME BookInv, NEW o, MatchWith(o), o.qty # Traded(o)
  PROVE  /\ Rest(o) \in Order /\ Rest(o).qty > 0
         /\ Rest(o).id = o.id /\ Rest(o).side = o.side
         /\ Rest(o).price = o.price /\ Rest(o).ts = o.ts
         /\ Rest(o).seq = o.seq /\ PlaceOf(Rest(o)) = PlaceOf(o)
<1>1. o \in Order /\ active \in Order /\ active.qty > 0 /\ o.qty > 0
  BY OrderFields DEF MatchWith, BookInv, TypeOK, Placed
<1>2. Rest(o) \in Order
  BY <1>1, TradeEffect DEF Rest
<1>3. /\ Rest(o).id = o.id /\ Rest(o).side = o.side
      /\ Rest(o).price = o.price /\ Rest(o).ts = o.ts
      /\ Rest(o).seq = o.seq /\ Rest(o).qty = o.qty - Traded(o)
  BY <1>1 DEF Rest, Order, Abstract!Order
<1>4. Rest(o).qty > 0
  <2>1. Traded(o) \in 1..MaxQty /\ Traded(o) <= o.qty
    BY <1>1, TradeEffect
  <2>2. o.qty \in 0..MaxQty
    BY <1>1, OrderFields
  <2> QED
    BY <1>3, <2>1, <2>2, BoundsAssumption
<1> QED
  BY <1>2, <1>3, <1>4 DEF PlaceOf
\* Every part of the invariant survives a loop turn.
LEMMA MatchKeepsBook ==
  ASSUME BookInv, MatchFront
  PROVE  BookInv'
<1>1. PICK o \in Order : MatchWith(o)
  BY MatchNamesOrder
<1>2. active \in Order /\ active.qty > 0 /\ o.qty > 0
  BY <1>1, OrderFields DEF MatchWith, BookInv, TypeOK, Placed
<1>3. o.side \in Side /\ o.price \in Prices /\ o.id \in Ids
  BY OrderFields
<1>4. active' \in Order /\ active'.id = active.id /\ active'.seq = active.seq
  BY <1>1, <1>2, TradeEffect DEF MatchWith, Order, Abstract!Order
<1>5. TypeOK'
  <2>1. level' \in [Side -> [Prices -> SUBSET Order]]
    <3>1. Left(o) \subseteq Order
      BY <1>1, <1>3, RestFields
      DEF Left, Rest, Abstract!Remainder, BookInv, TypeOK
    <3> QED
      BY <1>1, <1>3, <3>1 DEF MatchWith, BookInv, TypeOK
  <2>2. index' \in [Ids -> Place \cup {None}]
    BY <1>1 DEF MatchWith, Unindex, BookInv, TypeOK
  <2>3. prices' \in [Side -> SUBSET Prices]
    BY <1>1, <1>3 DEF MatchWith, DropKey, BookInv, TypeOK
  <2>4. fills' \in Seq(Abstract!Fill)
    <3>1. active.id \in Ids /\ Traded(o) \in 1..MaxQty
      BY <1>2, TradeEffect, OrderFields
    <3>2. Abstract!FillOf(active, o, Traded(o)) \in Abstract!Fill
      BY <1>3, <3>1 DEF Abstract!FillOf, Abstract!Fill
    <3> QED
      BY <1>1, <3>2 DEF MatchWith, BookInv, TypeOK
  <2> QED
    BY <1>1, <1>4, <2>1, <2>2, <2>3, <2>4 DEF MatchWith, BookInv, TypeOK
<1>6. NoEmptyLevel'
  <2> SUFFICES ASSUME NEW s \in Side, NEW p \in Prices
               PROVE  p \in prices'[s] <=> level'[s][p] # {}
    BY DEF NoEmptyLevel
  <2>1. CASE s = o.side /\ p = o.price
    <3>1. level'[s][p] = Left(o)
      BY <1>1, <2>1, LevelsAfterMatch
    <3>2. p \in prices[s]
      BY <1>1, <2>1 DEF MatchWith
    <3> QED
      BY <1>1, <2>1, <3>1, <3>2 DEF MatchWith, DropKey, BookInv, TypeOK
  <2>2. CASE ~(s = o.side /\ p = o.price)
    <3>1. level'[s][p] = level[s][p]
      BY <1>1, <2>2, LevelsAfterMatch
    <3>2. p \in prices'[s] <=> p \in prices[s]
      BY <1>1, <1>3, <2>2 DEF MatchWith, DropKey, BookInv, TypeOK
    <3> QED
      BY <3>1, <3>2 DEF BookInv, NoEmptyLevel
  <2> QED
    BY <2>1, <2>2
<1>7. Placed'
  <2> SUFFICES ASSUME NEW s \in Side, NEW p \in Prices, NEW r \in level'[s][p]
               PROVE  /\ r.side = s /\ r.price = p /\ r.qty > 0
                      /\ index'[r.id] = PlaceOf(r)
    BY DEF Placed
  <2>1. CASE r \in level[s][p] /\ r # o
    <3>1. r.id # o.id
      <4>1. index[r.id] = PlaceOf(r) /\ index[o.id] = PlaceOf(o)
        BY <1>1, <1>3, <2>1 DEF BookInv, Placed, MatchWith
      <4>2. r.seq # o.seq
        BY <1>1, <1>3, <2>1 DEF BookInv, SeqIsKey, MatchWith
      <4> QED
        BY <4>1, <4>2 DEF PlaceOf
    <3>2. r.id \in Ids
      BY <2>1, OrderFields DEF BookInv, TypeOK
    <3>3. index'[r.id] = index[r.id]
      BY <1>1, <1>3, <3>1, <3>2 DEF MatchWith, Unindex, BookInv, TypeOK
    <3> QED
      BY <2>1, <3>3 DEF BookInv, Placed
  <2>2. CASE s = o.side /\ p = o.price /\ o.qty # Traded(o) /\ r = Rest(o)
    <3>1. index'[o.id] = PlaceOf(o)
      BY <1>1, <1>3, <2>2 DEF MatchWith, Unindex, BookInv, Placed
    <3> QED
      BY <1>1, <2>2, <3>1, RestFields
  <2> QED
    BY <1>1, <2>1, <2>2, LevelsAfterMatch
<1>8. Indexed'
  <2> SUFFICES ASSUME NEW id \in Ids, index'[id] # None
               PROVE  \E s \in Side : \E p \in Prices :
                        \E r \in level'[s][p] : r.id = id
    BY DEF Indexed
  <2>1. index[id] # None /\ (id = o.id => o.qty # Traded(o))
    BY <1>1 DEF MatchWith, Unindex, BookInv, TypeOK
  <2>2. PICK s \in Side, p \in Prices : \E r \in level[s][p] : r.id = id
    BY <2>1 DEF BookInv, Indexed
  <2>3. PICK r \in level[s][p] : r.id = id
    BY <2>2
  <2>4. CASE r = o
    <3>1. Rest(o).id = id /\ Rest(o) \in level'[o.side][o.price]
      BY <1>1, <1>3, <2>1, <2>3, <2>4, RestFields, LevelsAfterMatch
    <3> QED
      BY <1>3, <3>1
  <2>5. CASE r # o
    BY <1>1, <2>3, <2>5, LevelsAfterMatch
  <2> QED
    BY <2>4, <2>5
<1>9. SeqIsKey' /\ ActiveIsNew'
  <2>1. ASSUME NEW s \in Side, NEW p \in Prices, NEW r \in level'[s][p]
        PROVE  \/ r \in level[s][p] /\ r # o
               \/ /\ s = o.side /\ p = o.price
                  /\ r = Rest(o) /\ r.seq = o.seq
    BY <1>1, <2>1, LevelsAfterMatch, RestFields
  <2>2. o \in level[o.side][o.price] /\ insert_seq' = insert_seq
    BY <1>1 DEF MatchWith
  <2>3. SeqIsKey'
    BY <1>3, <2>1, <2>2 DEF BookInv, SeqIsKey
  <2>4. index'[active.id] = None
    BY <1>1, <1>2, OrderFields
    DEF MatchWith, Unindex, BookInv, TypeOK, ActiveIsNew
  <2>5. ActiveIsNew'
    BY <1>1, <1>3, <1>4, <2>1, <2>2, <2>4
    DEF MatchWith, BookInv, ActiveIsNew
  <2> QED
    BY <2>3, <2>5
<1> QED
  BY <1>5, <1>6, <1>7, <1>8, <1>9 DEF BookInv
-----------------------------------------------------------------------------
(* The other steps *)

\* A new active order disturbs nothing: its number is fresh.
LEMMA SubmitKeepsBook ==
  ASSUME BookInv, NEW id \in Ids, NEW side \in Side, NEW price \in Prices,
         NEW qty \in 0..MaxQty, NEW ts \in Stamps, NEW isMarket \in BOOLEAN,
         Submit(id, side, price, qty, ts, isMarket)
  PROVE  BookInv'
<1> USE DEF Submit, BookInv
<1>1. insert_seq \in Nat /\ insert_seq' = insert_seq + 1
  BY DEF TypeOK
<1>2. active' \in Order /\ active' # None
  BY <1>1, NoneAssumption DEF Order, Abstract!Order, Side
<1>3. TypeOK'
  BY <1>1, <1>2 DEF TypeOK
<1>4. \A s \in Side : \A p \in Prices : \A o \in level[s][p] :
        o.seq \in Nat /\ o.seq <= insert_seq
  BY OrderFields DEF TypeOK, SeqIsKey
<1>5. SeqIsKey' /\ ActiveIsNew'
  BY <1>1, <1>2, <1>4 DEF SeqIsKey, ActiveIsNew
<1> QED
  BY <1>3, <1>5 DEF NoEmptyLevel, Placed, Indexed

\* Resting the active order: one level gains it and its index entry.
LEMMA RestKeepsBook ==
  ASSUME BookInv, active # None, active.qty > 0, RestOrder(active),
         active' = None, UNCHANGED <<insert_seq, market, fills>>
  PROVE  BookInv'
<1> DEFINE a == active
<1>1. /\ a \in Order /\ a.id \in Ids /\ a.side \in Side /\ a.price \in Prices
      /\ PlaceOf(a) \in Place /\ PlaceOf(a) # None
  BY OrderFields DEF BookInv, TypeOK
<1>2. ASSUME NEW s \in Side, NEW p \in Prices
      PROVE  /\ \A r : r \in level'[s][p] <=>
                  r \in level[s][p] \/ (s = a.side /\ p = a.price /\ r = a)
             /\ p \in prices'[s] <=>
                  p \in prices[s] \/ (s = a.side /\ p = a.price)
  BY <1>1 DEF RestOrder, BookInv, TypeOK
<1>3. ASSUME NEW id \in Ids
      PROVE  index'[id] = IF id = a.id THEN PlaceOf(a) ELSE index[id]
  BY <1>1 DEF RestOrder, BookInv, TypeOK
<1>4. TypeOK'
  BY <1>1 DEF RestOrder, BookInv, TypeOK
<1>5. NoEmptyLevel'
  BY <1>2 DEF BookInv, NoEmptyLevel
<1>6. Placed'
  <2> SUFFICES ASSUME NEW s \in Side, NEW p \in Prices, NEW r \in level'[s][p]
               PROVE  /\ r.side = s /\ r.price = p /\ r.qty > 0
                      /\ index'[r.id] = PlaceOf(r)
    BY DEF Placed
  <2>1. CASE r = a /\ s = a.side /\ p = a.price
    BY <1>1, <1>3, <2>1
  <2>2. CASE r \in level[s][p]
    <3>1. r \in Order /\ r.id \in Ids /\ PlaceOf(r) # None
      BY <2>2, OrderFields DEF BookInv, TypeOK
    <3>2. r.id # a.id
      BY <2>2, <3>1 DEF BookInv, Placed, ActiveIsNew
    <3> QED
      BY <1>3, <2>2, <3>1, <3>2 DEF BookInv, Placed
  <2> QED
    BY <1>2, <2>1, <2>2
<1>7. Indexed'
  <2> SUFFICES ASSUME NEW id \in Ids, index'[id] # None
               PROVE  \E s \in Side : \E p \in Prices :
                        \E r \in level'[s][p] : r.id = id
    BY DEF Indexed
  <2>1. CASE id = a.id
    BY <1>1, <1>2, <2>1
  <2>2. CASE id # a.id
    <3>1. PICK s \in Side, p \in Prices : \E r \in level[s][p] : r.id = id
      BY <1>3, <2>2 DEF BookInv, Indexed
    <3> QED
      BY <1>2, <3>1
  <2> QED
    BY <2>1, <2>2
<1>8. SeqIsKey'
  <2>1. a.seq \in Nat /\ a.seq = insert_seq
    BY <1>1, OrderFields DEF BookInv, ActiveIsNew
  <2>2. \A s \in Side : \A p \in Prices : \A o \in level[s][p] :
          o.seq \in Nat /\ o.seq < a.seq
    BY OrderFields DEF BookInv, TypeOK, ActiveIsNew
  <2>3. insert_seq' = insert_seq
    OBVIOUS
  <2> QED
    BY <1>2, <2>1, <2>2, <2>3 DEF BookInv, SeqIsKey
<1>9. ActiveIsNew'
  BY DEF ActiveIsNew
<1> QED
  BY <1>4, <1>5, <1>6, <1>7, <1>8, <1>9 DEF BookInv

\* The end of the matching loop.
LEMMA FinishKeepsBook ==
  ASSUME BookInv, Finish
  PROVE  BookInv'
<1>1. CASE active.qty > 0 /\ ~market
  BY <1>1, RestKeepsBook DEF Finish
<1>2. CASE ~(active.qty > 0 /\ ~market)
  BY <1>2 DEF Finish, BookInv, TypeOK, NoEmptyLevel, Placed, Indexed, SeqIsKey,
              ActiveIsNew
<1> QED
  BY <1>1, <1>2
\* A cancel removes exactly the order it names, and its entry with it.
LEMMA CancelRemoves ==
  ASSUME BookInv, NEW id \in Ids, Cancel(id), NEW s \in Side, NEW p \in Prices
  PROVE  /\ \A r : r \in level'[s][p] <=> r \in level[s][p] /\ r.id # id
         /\ p \in prices'[s] <=> level'[s][p] # {}
<1> DEFINE e == index[id]
           left == {o \in level[e.side][e.price] :
                      ~(o.ts = e.ts /\ o.seq = e.seq)}
<1>1. e \in Place /\ e # None
  BY DEF Cancel, BookInv, TypeOK
<1>2. e.side \in Side /\ e.price \in Prices
  BY <1>1 DEF Place
<1>3. PICK s0 \in Side, p0 \in Prices : \E o \in level[s0][p0] : o.id = id
  BY <1>1 DEF BookInv, Indexed
<1>4. PICK o \in level[s0][p0] : o.id = id
  BY <1>3
<1>5. o.side = s0 /\ o.price = p0 /\ e = PlaceOf(o)
  BY <1>4 DEF BookInv, Placed
<1>6. e.side = s0 /\ e.price = p0 /\ e.ts = o.ts /\ e.seq = o.seq
  BY <1>5 DEF PlaceOf
<1>7. \A t \in Side : \A q \in Prices : \A r \in level[t][q] :
        /\ r.id = id <=> r = o
        /\ r = o => t = s0 /\ q = p0
  <2> SUFFICES ASSUME NEW t \in Side, NEW q \in Prices, NEW r \in level[t][q]
               PROVE  (r.id = id <=> r = o) /\ (r = o => t = s0 /\ q = p0)
    OBVIOUS
  <2>1. r.side = t /\ r.price = q /\ index[r.id] = PlaceOf(r)
    BY DEF BookInv, Placed
  <2>2. r.id = id => r.seq = o.seq
    BY <1>5, <2>1 DEF PlaceOf
  <2>3. r.seq = o.seq => r = o
    BY <1>4 DEF BookInv, SeqIsKey
  <2> QED
    BY <1>4, <1>5, <2>1, <2>2, <2>3
<1>8. left = level[s0][p0] \ {o}
  <2>1. ASSUME NEW r \in level[s0][p0], r.seq = o.seq PROVE r = o
    BY <1>4, <2>1 DEF BookInv, SeqIsKey
  <2> QED
    BY <1>6, <2>1
<1>9. e.price \in prices[e.side]
  BY <1>4, <1>6 DEF BookInv, NoEmptyLevel
<1>10. /\ level' = [level EXCEPT ![e.side][e.price] = left]
       /\ prices' = DropKey(e.side, e.price, left)
  BY <1>9 DEF Cancel
<1>11. CASE s = s0 /\ p = p0
  <2>1. level'[s][p] = left
    BY <1>2, <1>6, <1>10, <1>11 DEF BookInv, TypeOK
  <2>2. p \in prices'[s] <=> left # {}
    BY <1>2, <1>6, <1>9, <1>10, <1>11 DEF DropKey, BookInv, TypeOK
  <2> QED
    BY <1>7, <1>8, <1>11, <2>1, <2>2
<1>12. CASE ~(s = s0 /\ p = p0)
  <2>1. level'[s][p] = level[s][p]
    BY <1>2, <1>6, <1>10, <1>12 DEF BookInv, TypeOK
  <2>2. p \in prices'[s] <=> p \in prices[s]
    BY <1>2, <1>6, <1>10, <1>12 DEF DropKey, BookInv, TypeOK
  <2> QED
    BY <1>7, <1>12, <2>1, <2>2 DEF BookInv, NoEmptyLevel
<1> QED
  BY <1>11, <1>12

\* Every part of the invariant survives a cancel.
LEMMA CancelKeepsBook ==
  ASSUME BookInv, NEW id \in Ids, Cancel(id)
  PROVE  BookInv'
<1>1. /\ active = None /\ active' = None /\ insert_seq' = insert_seq
      /\ market' = market /\ fills' = fills
      /\ index' = [index EXCEPT ![id] = None]
  BY DEF Cancel
<1>2. TypeOK'
  <2>0. index[id].side \in Side /\ index[id].price \in Prices
    BY DEF Cancel, BookInv, TypeOK, Place
  <2>1. level' \in [Side -> [Prices -> SUBSET Order]]
    <3> DEFINE left == {o \in level[index[id].side][index[id].price] :
                          ~(o.ts = index[id].ts /\ o.seq = index[id].seq)}
    <3>1. left \subseteq Order
      BY <2>0 DEF BookInv, TypeOK
    <3>2. \/ level' = level
          \/ level' = [level EXCEPT ![index[id].side][index[id].price] = left]
      BY DEF Cancel
    <3>3. level \in [Side -> [Prices -> SUBSET Order]]
      BY DEF BookInv, TypeOK
    <3>4. [level EXCEPT ![index[id].side][index[id].price] = left]
            \in [Side -> [Prices -> SUBSET Order]]
      <4> HIDE DEF left
      <4> QED
        BY <2>0, <3>1, <3>3, LevelUpdate
    <3> QED
      BY <3>2, <3>3, <3>4
  <2>2. prices' \in [Side -> SUBSET Prices]
    BY <2>0 DEF Cancel, DropKey, BookInv, TypeOK
  <2> QED
    BY <1>1, <2>1, <2>2 DEF BookInv, TypeOK
<1>3. NoEmptyLevel'
  BY CancelRemoves DEF NoEmptyLevel
<1>4. Placed'
  <2> SUFFICES ASSUME NEW s \in Side, NEW p \in Prices, NEW r \in level'[s][p]
               PROVE  /\ r.side = s /\ r.price = p /\ r.qty > 0
                      /\ index'[r.id] = PlaceOf(r)
    BY DEF Placed
  <2>1. r \in level[s][p] /\ r.id # id
    BY CancelRemoves
  <2>2. r.id \in Ids
    BY <2>1, OrderFields DEF BookInv, TypeOK
  <2> QED
    BY <1>1, <2>1, <2>2 DEF BookInv, Placed, TypeOK
<1>5. Indexed'
  <2> SUFFICES ASSUME NEW x \in Ids, index'[x] # None
               PROVE  \E s \in Side : \E p \in Prices :
                        \E r \in level'[s][p] : r.id = x
    BY DEF Indexed
  <2>1. x # id /\ index[x] # None
    BY <1>1 DEF BookInv, TypeOK
  <2>2. PICK s \in Side, p \in Prices : \E r \in level[s][p] : r.id = x
    BY <2>1 DEF BookInv, Indexed
  <2> QED
    BY <2>1, <2>2, CancelRemoves
<1>6. SeqIsKey' /\ ActiveIsNew'
  BY <1>1, CancelRemoves DEF BookInv, SeqIsKey, ActiveIsNew
<1> QED
  BY <1>2, <1>3, <1>4, <1>5, <1>6 DEF BookInv

-----------------------------------------------------------------------------
(* The invariants *)

\* Types, keys, places and numbers stay consistent under every sequence of new
\* orders and cancels.
THEOREM BookInvariance == Spec => []BookInv
<1>1. Init => BookInv
  <2> SUFFICES ASSUME Init PROVE BookInv
    OBVIOUS
  <2>1. TypeOK
    <3>1. /\ prices \in [Side -> SUBSET Prices]
          /\ level \in [Side -> [Prices -> SUBSET Order]]
          /\ index \in [Ids -> Place \cup {None}]
      BY DEF Init
    <3>2. /\ insert_seq \in Nat /\ active \in Order \cup {None}
          /\ market \in BOOLEAN
      BY DEF Init
    <3>3. fills \in Seq(Abstract!Fill)
      BY DEF Init
    <3> QED
      BY <3>1, <3>2, <3>3 DEF TypeOK
  <2> QED
    BY <2>1 DEF Init, BookInv, NoEmptyLevel, Placed, Indexed, SeqIsKey,
                ActiveIsNew
<1>2. BookInv /\ [Next]_vars => BookInv'
  <2> SUFFICES ASSUME BookInv, [Next]_vars PROVE BookInv'
    OBVIOUS
  <2>1. CASE UNCHANGED vars
    BY <2>1 DEF vars, BookInv, TypeOK, NoEmptyLevel, Placed, Indexed, SeqIsKey,
                ActiveIsNew
  <2>2. ASSUME NEW id \in Ids, NEW side \in Side, NEW price \in Prices,
               NEW qty \in 0..MaxQty, NEW ts \in Stamps,
               NEW isMarket \in BOOLEAN,
               Submit(id, side, price, qty, ts, isMarket)
        PROVE  BookInv'
    BY <2>2, SubmitKeepsBook
  <2>3. CASE MatchFront
    BY <2>3, MatchKeepsBook
  <2>4. CASE Finish
    BY <2>4, FinishKeepsBook
  <2>5. ASSUME NEW id \in Ids, Cancel(id) PROVE BookInv'
    BY <2>5, CancelKeepsBook
  <2> QED
    BY <2>1, <2>2, <2>3, <2>4, <2>5 DEF Next
<1> QED
  BY <1>1, <1>2, PTL DEF Spec

\* process_new_order and cancel keep every field in its type; in particular no
\* quantity becomes negative.
THEOREM TypeCorrect == Spec => []TypeOK
  BY BookInvariance, PTL DEF BookInv

\* A tree of levels never holds an empty one, so the `expect` calls of the
\* matching loop are safe.
THEOREM LevelsNonEmpty == Spec => []NoEmptyLevel
  BY BookInvariance, PTL DEF BookInv

\* The index is exact: a cancel reaches the order it names and no other.
THEOREM IndexExact == Spec => []IndexMatchesLevels
<1>1. BookInv => IndexMatchesLevels
  <2> SUFFICES ASSUME BookInv PROVE IndexMatchesLevels
    OBVIOUS
  <2>1. \A s \in Side : \A p \in Prices : \A o \in level[s][p] : o \in Resting
    BY DEF Resting, Side, Abstract!Side
  <2> QED
    BY <2>1 DEF BookInv, IndexMatchesLevels, Placed, Indexed
<1> QED
  BY <1>1, BookInvariance, PTL
\* A limit order that rests does not cross the other side: the loop ends only
\* after it has looked at the best price there.
LEMMA RestingDoesNotCross ==
  ASSUME BookInv, active # None, LoopEnds, active.qty > 0, ~market,
         NEW p \in prices[Opposite(active.side)]
  PROVE  ~Abstract!Crosses(active.side, active.price, p)
<1>1. /\ active.side \in Side /\ active.price \in Prices
      /\ Opposite(active.side) \in Side /\ active.qty # 0
  BY OppositeSide, OrderFields DEF BookInv, TypeOK
<1>2. PICK q \in prices[Opposite(active.side)] :
        /\ Best(Opposite(active.side), q)
        /\ ~Abstract!Crosses(active.side, active.price, q)
  BY <1>1 DEF LoopEnds
<1>3. p \in Int /\ q \in Int /\ active.price \in Int
  BY <1>1, PricesAssumption DEF BookInv, TypeOK
<1>4. CASE active.side = "BUY"
  <2>1. q <= p /\ ~(q <= active.price)
    BY <1>2, <1>4 DEF Best, Opposite, Abstract!Opposite, Abstract!Crosses
  <2> QED
    BY <1>3, <1>4, <2>1 DEF Abstract!Crosses
<1>5. CASE active.side = "SELL"
  <2>1. q >= p /\ ~(q >= active.price)
    BY <1>2, <1>5 DEF Best, Opposite, Abstract!Opposite, Abstract!Crosses
  <2> QED
    BY <1>3, <1>5, <2>1 DEF Abstract!Crosses
<1> QED
  BY <1>1, <1>4, <1>5 DEF Side, Abstract!Side

\* Matching and cancelling never add a price.
LEMMA PricesShrink ==
  ASSUME BookInv, MatchFront \/ \E id \in Ids : Cancel(id), NEW s \in Side
  PROVE  prices'[s] \subseteq prices[s]
<1>1. CASE MatchFront
  <2>1. PICK o \in Order : MatchWith(o)
    BY <1>1, MatchNamesOrder
  <2> QED
    BY <2>1 DEF MatchWith, DropKey, BookInv, TypeOK
<1>2. CASE \E id \in Ids : Cancel(id)
  <2>1. PICK id \in Ids : Cancel(id)
    BY <1>2
  <2>2. \/ prices' = prices
        \/ prices' = [prices EXCEPT ![index[id].side] = @ \ {index[id].price}]
    BY <2>1 DEF Cancel, DropKey
  <2> QED
    BY <2>2 DEF BookInv, TypeOK
<1> QED
  BY <1>1, <1>2

\* The book is never crossed, whatever is submitted and cancelled.
THEOREM Uncrossed == Spec => []NotCrossed
<1>1. Init => NotCrossed
  BY DEF Init, NotCrossed, Side, Abstract!Side
<1>2. BookInv /\ NotCrossed /\ [Next]_vars => NotCrossed'
  <2> SUFFICES ASSUME BookInv, NotCrossed, [Next]_vars PROVE NotCrossed'
    OBVIOUS
  <2>0. "BUY" \in Side /\ "SELL" \in Side
    BY DEF Side, Abstract!Side
  <2>1. CASE UNCHANGED prices
    BY <2>1 DEF NotCrossed
  <2>2. CASE MatchFront \/ \E id \in Ids : Cancel(id)
    BY <2>0, <2>2, PricesShrink DEF NotCrossed
  <2>3. CASE Finish /\ active.qty > 0 /\ ~market
    <3>1. /\ active.side \in Side /\ active.price \in Prices
          /\ active.price \in Int
      BY <2>3, OrderFields, PricesAssumption DEF Finish, BookInv, TypeOK
    <3>2. prices' = [prices EXCEPT ![active.side] = @ \cup {active.price}]
      BY <2>3 DEF Finish, RestOrder
    <3>3. \A p \in prices[Opposite(active.side)] :
            p \in Int /\ ~Abstract!Crosses(active.side, active.price, p)
      BY <2>3, <3>1, RestingDoesNotCross, OppositeSide, PricesAssumption
      DEF Finish, BookInv, TypeOK
    <3>4. CASE active.side = "BUY"
      <4>1. \A p \in prices["SELL"] : active.price < p
        BY <3>1, <3>3, <3>4
        DEF Opposite, Abstract!Opposite, Abstract!Crosses
      <4> QED
        BY <2>0, <3>2, <3>4, <4>1 DEF NotCrossed, BookInv, TypeOK
    <3>5. CASE active.side = "SELL"
      <4>1. \A p \in prices["BUY"] : p < active.price
        BY <3>1, <3>3, <3>5
        DEF Opposite, Abstract!Opposite, Abstract!Crosses
      <4> QED
        BY <2>0, <3>2, <3>5, <4>1 DEF NotCrossed, BookInv, TypeOK
    <3> QED
      BY <3>1, <3>4, <3>5 DEF Side, Abstract!Side
  <2>4. Finish => UNCHANGED prices \/ (active.qty > 0 /\ ~market)
    BY DEF Finish
  <2>5. ASSUME NEW id \in Ids, NEW side \in Side, NEW price \in Prices,
               NEW qty \in 0..MaxQty, NEW ts \in Stamps,
               NEW isMarket \in BOOLEAN,
               Submit(id, side, price, qty, ts, isMarket)
        PROVE  UNCHANGED prices
    BY <2>5 DEF Submit
  <2>6. UNCHANGED vars => UNCHANGED prices
    BY DEF vars
  <2> QED
    BY <2>1, <2>2, <2>3, <2>4, <2>5, <2>6 DEF Next
<1> QED
  BY <1>1, <1>2, BookInvariance, PTL DEF Spec

-----------------------------------------------------------------------------
(* Refinement *)

\* Membership in the set of resting orders, before and after a step.
LEMMA RestingMembers ==
  /\ \A r : r \in Resting <=>
       \E s \in Side : \E p \in Prices : r \in level[s][p]
  /\ \A r : r \in Resting' <=>
       \E s \in Side : \E p \in Prices : r \in level'[s][p]
  BY DEF Resting, Side, Abstract!Side

\* The order at the front of the best level is first in price-time priority.
LEMMA FrontIsFirst ==
  ASSUME BookInv, NEW o, MatchWith(o)
  PROVE  Abstract!First(o)
<1>1. o \in Order /\ o.side \in Side /\ o.price \in Prices
  BY OrderFields DEF MatchWith
<1>2. o \in Resting /\ o.side = Opposite(active.side)
  BY <1>1, RestingMembers DEF MatchWith
<1>3. ASSUME NEW r \in Resting, r.side = o.side PROVE ~Abstract!Before(r, o)
  <2>1. PICK s \in Side, p \in Prices : r \in level[s][p]
    BY RestingMembers
  <2>2. r.side = s /\ r.price = p /\ r \in Order
    BY <2>1 DEF BookInv, Placed, TypeOK
  <2>3. p \in prices[s]
    BY <2>1 DEF BookInv, NoEmptyLevel
  <2>4. /\ p \in Int /\ o.price \in Int /\ r.ts \in Int /\ o.ts \in Int
        /\ r.seq \in Int /\ o.seq \in Int
    <3>1. /\ r.ts \in Stamps /\ r.seq \in Nat
          /\ o.ts \in Stamps /\ o.seq \in Nat
      BY <1>1, <2>2, OrderFields
    <3>2. p \in Int /\ o.price \in Int
      BY <1>1, PricesAssumption
    <3>3. r.ts \in Nat /\ o.ts \in Nat
      BY <3>1, StampsAssumption
    <3> QED
      BY <3>1, <3>2, <3>3
  <2>5. IF s = "SELL" THEN o.price <= p ELSE o.price >= p
    BY <1>3, <2>2, <2>3 DEF MatchWith, Best
  <2>6. p = o.price => o.ts < r.ts \/ (o.ts = r.ts /\ o.seq <= r.seq)
    BY <1>3, <2>1, <2>2 DEF MatchWith, Front
  <2>7. s = "BUY" \/ s = "SELL"
    BY DEF Side, Abstract!Side
  <2> QED
    BY <2>2, <2>4, <2>5, <2>6, <2>7 DEF Abstract!Before
<1> QED
  BY <1>2, <1>3 DEF Abstract!First, Opposite

\* A loop turn of the code is a loop turn of the oracle.
LEMMA MatchRefines ==
  ASSUME BookInv, MatchFront
  PROVE  Abstract!Match
<1>1. PICK o \in Order : MatchWith(o)
  BY MatchNamesOrder
<1>2. o \in Resting /\ Abstract!First(o)
  BY <1>1, FrontIsFirst DEF Abstract!First
<1>3. o.side \in Side /\ o.price \in Prices
  BY OrderFields
<1>4. Resting' = (Resting \ {o}) \cup Abstract!Remainder(o, Traded(o))
  <2>1. \A r : r \in Abstract!Remainder(o, Traded(o)) <=>
          o.qty # Traded(o) /\ r = Rest(o)
    BY DEF Abstract!Remainder, Rest
  <2>2. ASSUME NEW r \in Resting'
        PROVE  r \in (Resting \ {o}) \cup Abstract!Remainder(o, Traded(o))
    BY <1>1, <2>1, LevelsAfterMatch, RestingMembers
  <2>3. ASSUME NEW r \in (Resting \ {o}) \cup Abstract!Remainder(o, Traded(o))
        PROVE  r \in Resting'
    BY <1>1, <1>3, <2>1, LevelsAfterMatch, RestingMembers
  <2> QED
    BY <2>2, <2>3
<1> QED
  BY <1>1, <1>2, <1>4 DEF MatchWith, Traded, Abstract!Match

\* The code leaves the loop only when the oracle does, and rests the same order.
LEMMA FinishRefines ==
  ASSUME BookInv, Finish
  PROVE  Abstract!Finish
<1>1. active \in Order /\ active.side \in Side /\ active.price \in Prices
  BY OrderFields DEF Finish, BookInv, TypeOK
<1>2. active.qty = 0 \/ active.qty > 0
  BY <1>1, OrderFields, BoundsAssumption
<1>3. ASSUME active.qty > 0, NEW r \in Resting, Abstract!First(r)
      PROVE  ~market /\ ~Abstract!Crosses(active.side, active.price, r.price)
  <2>1. PICK s \in Side, p \in Prices : r \in level[s][p]
    BY RestingMembers
  <2>2. p \in prices[Opposite(active.side)] /\ r.price = p
    BY <1>3, <2>1
    DEF BookInv, Placed, NoEmptyLevel, Abstract!First, Opposite
  <2>3. ~market
    BY <1>3, <2>2 DEF Finish, LoopEnds
  <2> QED
    BY <1>3, <2>2, <2>3, RestingDoesNotCross DEF Finish
<1>4. Resting' = IF active.qty > 0 /\ ~market THEN Resting \cup {active}
                                              ELSE Resting
  <2>1. CASE active.qty > 0 /\ ~market
    <3>1. ASSUME NEW s \in Side, NEW p \in Prices
          PROVE  \A r : r \in level'[s][p] <=>
                   \/ r \in level[s][p]
                   \/ s = active.side /\ p = active.price /\ r = active
      BY <1>1, <2>1 DEF Finish, RestOrder, BookInv, TypeOK
    <3>2. \A r : r \in Resting' <=> r \in Resting \/ r = active
      BY <1>1, <3>1, RestingMembers
    <3> QED
      BY <2>1, <3>2
  <2>2. CASE ~(active.qty > 0 /\ ~market)
    BY <2>2 DEF Finish, Resting
  <2> QED
    BY <2>1, <2>2
<1> QED
  BY <1>2, <1>3, <1>4 DEF Finish, Abstract!Finish

\* A cancel by index is a cancel by search.
LEMMA CancelRefines ==
  ASSUME BookInv, NEW id \in Ids, Cancel(id)
  PROVE  Abstract!Cancel(id)
<1>1. \E o \in Resting : o.id = id
  BY RestingMembers DEF Cancel, BookInv, Indexed
<1>2. Resting' = {o \in Resting : o.id # id}
  BY CancelRemoves, RestingMembers
<1> QED
  BY <1>1, <1>2 DEF Cancel, Abstract!Cancel

\* An accepted order starts the same call in both books.
LEMMA SubmitRefines ==
  ASSUME BookInv, NEW id \in Ids, NEW side \in Side, NEW price \in Prices,
         NEW qty \in 0..MaxQty, NEW ts \in Stamps, NEW isMarket \in BOOLEAN,
         Submit(id, side, price, qty, ts, isMarket)
  PROVE  Abstract!Submit(id, side, price, qty, ts, isMarket)
<1>1. \A o \in Resting : o.id # id
  BY RestingMembers, OrderFields DEF Submit, BookInv, Placed, TypeOK
<1>2. Resting' = Resting
  BY DEF Submit, Resting
<1> QED
  BY <1>1, <1>2 DEF Submit, Abstract!Submit

\* The tree-and-index book behaves as the sorted-vector oracle does: same fills,
\* same resting orders, after every sequence of calls.
THEOREM PriceTimePriority == Spec => ImplementsPriceTime
<1>1. Init => Abstract!Init
  BY RestingMembers DEF Init, Abstract!Init
<1>2. BookInv /\ [Next]_vars => [Abstract!Next]_(Abstract!vars)
  <2> SUFFICES ASSUME BookInv, [Next]_vars
               PROVE  Abstract!Next \/ UNCHANGED Abstract!vars
    OBVIOUS
  <2>1. CASE UNCHANGED vars
    BY <2>1 DEF vars, Abstract!vars, Resting
  <2>2. ASSUME NEW id \in Ids, NEW side \in Side, NEW price \in Prices,
               NEW qty \in 0..MaxQty, NEW ts \in Stamps,
               NEW isMarket \in BOOLEAN,
               Submit(id, side, price, qty, ts, isMarket)
        PROVE  Abstract!Next
    BY <2>2, SubmitRefines DEF Abstract!Next, Side
  <2>3. CASE MatchFront
    BY <2>3, MatchRefines DEF Abstract!Next
  <2>4. CASE Finish
    BY <2>4, FinishRefines DEF Abstract!Next
  <2>5. ASSUME NEW id \in Ids, Cancel(id) PROVE Abstract!Next
    BY <2>5, CancelRefines DEF Abstract!Next
  <2> QED
    BY <2>1, <2>2, <2>3, <2>4, <2>5 DEF Next
<1> QED
  BY <1>1, <1>2, BookInvariance, PTL
  DEF Spec, ImplementsPriceTime, Abstract!Spec
=============================================================================
