------------------------- MODULE DisruptorRingProofs -------------------------
(***************************************************************************)
(* Proofs about DisruptorRing, for any number of producers and requests    *)
(* and a ring of any size above one.                                       *)
(***************************************************************************)
EXTENDS DisruptorRing, TLAPS

Active(p) == ppc[p] # "idle"

\* The positions that own a slot at present: one round, from the consumer's on.
Window == cons..(cons + Size - 1)

\* The histories are as long as the cursors say, and what was handled is what
\* was claimed.
HistoryInv ==
  /\ Len(claims) = prod /\ Len(handled) = cons /\ cons <= prod
  /\ \A i \in 1..cons : handled[i] = claims[i]

\* A producer at work owns one position between the cursors, its own request's.
ClaimInv ==
  \A p \in Producers : Active(p) =>
    /\ cons <= pos[p] /\ pos[p] < prod
    /\ sent[p] >= 1 /\ claims[pos[p] + 1] = Request(p)

OnePosition ==
  \A p, q \in Producers : p # q /\ Active(p) /\ Active(q) => pos[p] # pos[q]

\* Every slot belongs to a position of the window.
WindowCovers == \A i \in Slot : \E n \in Window : SlotOf(n) = i

\* The request of position n lies in its slot, until the consumer takes it out.
Published(n) ==
  /\ n < prod
  /\ \A p \in Producers : Active(p) => pos[p] # n
  /\ data[SlotOf(n)] = claims[n + 1] \/ (n = cons /\ cpc = "free")

\* A slot's sequence is its position, or that plus one when it is published.
SlotInv ==
  \A n \in Window : \/ seq[SlotOf(n)] = n
                    \/ seq[SlotOf(n)] = n + 1 /\ Published(n)

\* A producer past its spin loop has a position of this round, not yet published.
WriterInv ==
  \A p \in Producers : Writing(p) =>
    /\ pos[p] \in Window /\ seq[SlotOf(pos[p])] = pos[p]
    /\ ppc[p] = "publish" => data[SlotOf(pos[p])] = Request(p)

\* The consumer past its spin loop has a published slot, and then its request.
ConsumerInv ==
  /\ cpc # "wait" => seq[SlotOf(cons)] = cons + 1
  /\ cpc \in {"clear", "free"} => item = claims[cons + 1]

Inv ==
  /\ TypeOK /\ HistoryInv /\ ClaimInv /\ OnePosition
  /\ WindowCovers /\ SlotInv /\ WriterInv /\ ConsumerInv

-----------------------------------------------------------------------------
(* Positions and slots.                                                     *)

\* Quotient and remainder of a position.
LEMMA Division ==
  \A n \in Nat : /\ n = Size * (n \div Size) + (n % Size)
                 /\ n \div Size \in Nat
                 /\ n % Size \in Slot
  BY SizeAssumption DEF Slot

\* Two multiples of the size that are less than one size apart are the same.
LEMMA SameQuotient ==
  ASSUME NEW k \in Nat, NEW l \in Nat, Size * k <= Size * l, Size * l < Size * k + Size
  PROVE  k = l
  BY SizeAssumption

\* Quotient and remainder are determined by the position.
LEMMA DivisionUnique ==
  ASSUME NEW k \in Nat, NEW l \in Nat, NEW i \in Slot, NEW j \in Slot,
         Size * k + i = Size * l + j
  PROVE  i = j
<1>1. Size * k \in Nat /\ Size * l \in Nat
  BY SizeAssumption
<1>2. ASSUME k < l PROVE FALSE
  <2>1. Size * l >= Size * k + Size
    BY <1>2, SizeAssumption
  <2> QED
    BY <1>1, <2>1, SizeAssumption DEF Slot
<1>3. ASSUME l < k PROVE FALSE
  <2>1. Size * k >= Size * l + Size
    BY <1>3, SizeAssumption
  <2> QED
    BY <1>1, <2>1, SizeAssumption DEF Slot
<1>4. k = l
  BY <1>2, <1>3
<1> QED
  BY <1>1, <1>4, SizeAssumption DEF Slot

\* A position falls on a slot; those of the first round on the slot of their own
\* number.
LEMMA SlotOfType == \A n \in Nat : SlotOf(n) \in Slot
  BY Division DEF SlotOf

\* A number below the size is its own slot.
LEMMA SlotOfSmall == \A n \in Slot : SlotOf(n) = n
  BY SizeAssumption DEF SlotOf, Slot

\* One round later a position falls on the same slot.
LEMMA SlotOfNextRound == \A n \in Nat : SlotOf(n + Size) = SlotOf(n)
<1> SUFFICES ASSUME NEW n \in Nat PROVE (n + Size) % Size = n % Size
  BY DEF SlotOf
<1>1. /\ n = Size * (n \div Size) + (n % Size)
      /\ n \div Size \in Nat /\ n % Size \in Slot
  BY Division
<1>2. /\ n + Size = Size * ((n + Size) \div Size) + ((n + Size) % Size)
      /\ (n + Size) \div Size \in Nat /\ (n + Size) % Size \in Slot
  BY Division, SizeAssumption
<1>3. /\ Size * ((n \div Size) + 1) = Size * (n \div Size) + Size
      /\ (n \div Size) + 1 \in Nat
  BY <1>1, SizeAssumption
<1>4. Size * ((n \div Size) + 1) + (n % Size)
        = Size * ((n + Size) \div Size) + ((n + Size) % Size)
  BY <1>1, <1>2, <1>3, SizeAssumption DEF Slot
<1> QED
  BY <1>1, <1>2, <1>3, <1>4, DivisionUnique

\* Two positions less than one round apart never share a slot.
LEMMA SlotOfInjective ==
  ASSUME NEW m \in Nat, NEW n \in Nat, n <= m, m < n + Size, SlotOf(m) = SlotOf(n)
  PROVE  m = n
<1>1. /\ n = Size * (n \div Size) + (n % Size)
      /\ n \div Size \in Nat /\ n % Size \in Slot
  BY Division
<1>2. m = Size * (m \div Size) + (m % Size) /\ m \div Size \in Nat
  BY Division
<1>3. m % Size = n % Size
  BY DEF SlotOf
<1>4. Size * (n \div Size) \in Nat /\ Size * (m \div Size) \in Nat
  BY <1>1, <1>2, SizeAssumption
<1>5. /\ Size * (n \div Size) <= Size * (m \div Size)
      /\ Size * (m \div Size) < Size * (n \div Size) + Size
  BY <1>1, <1>2, <1>3, <1>4, SizeAssumption DEF Slot
<1>6. n \div Size = m \div Size
  BY <1>1, <1>2, <1>5, SameQuotient
<1> QED
  BY <1>1, <1>2, <1>3, <1>6

\* So each position of the window has its slot to itself.
LEMMA WindowInjective ==
  ASSUME TypeOK, NEW m \in Window, NEW n \in Window, SlotOf(m) = SlotOf(n)
  PROVE  m = n
<1>1. m \in Nat /\ n \in Nat /\ cons \in Nat
  BY SizeAssumption DEF Window, TypeOK
<1>2. CASE n <= m
  BY <1>1, <1>2, SlotOfInjective, SizeAssumption DEF Window
<1>3. CASE m <= n
  BY <1>1, <1>3, SlotOfInjective, SizeAssumption DEF Window
<1> QED
  BY <1>1, <1>2, <1>3

\* A history grows at its end.
LEMMA AppendIsLast ==
  ASSUME NEW S, NEW h \in Seq(S), NEW e \in S
  PROVE  /\ Append(h, e) \in Seq(S)
         /\ Len(Append(h, e)) = Len(h) + 1 /\ Append(h, e)[Len(h) + 1] = e
         /\ \A n \in 1..Len(h) : Append(h, e)[n] = h[n]
  OBVIOUS

-----------------------------------------------------------------------------
(* The invariant.                                                           *)

\* newDisruptor numbers the slots: every slot is free for the first round.
LEMMA InitInv == Init => Inv
<1> SUFFICES ASSUME Init PROVE Inv
  OBVIOUS
<1>1. Slot \subseteq Nat /\ 0 \in Nat /\ Window = Slot
  BY SizeAssumption DEF Init, Slot, Window
<1>2. TypeOK
  BY <1>1, MaxItemsAssumption DEF Init, TypeOK
<1>3. HistoryInv /\ ClaimInv /\ OnePosition
  BY DEF Init, HistoryInv, ClaimInv, OnePosition, Active
<1>4. WindowCovers /\ SlotInv
  BY <1>1, SlotOfSmall DEF Init, WindowCovers, SlotInv
<1>5. WriterInv /\ ConsumerInv
  BY DEF Init, WriterInv, ConsumerInv, Writing
<1> QED
  BY <1>2, <1>3, <1>4, <1>5 DEF Inv

\* A new claim is at the end of the order, on a position nobody has.
LEMMA ClaimKeepsInv ==
  ASSUME Inv, NEW p \in Producers, Claim(p)
  PROVE  Inv'
<1> USE DEF Inv
<1>1. /\ UNCHANGED <<cons, seq, data, cpc, item, handled>>
      /\ prod' = prod + 1 /\ claims' = Append(claims, <<p, sent[p] + 1>>)
      /\ ~Active(p) /\ sent[p] < MaxItems
  BY DEF Claim, consv, Active
<1>2. /\ ppc'[p] = "wait" /\ pos'[p] = prod /\ sent'[p] = sent[p] + 1
      /\ \A q \in Producers : q # p => /\ ppc'[q] = ppc[q] /\ pos'[q] = pos[q]
                                       /\ sent'[q] = sent[q]
  <2>1. ppc'[p] = "wait" /\ \A q \in Producers : q # p => ppc'[q] = ppc[q]
    BY DEF Claim, TypeOK
  <2>2. pos'[p] = prod /\ \A q \in Producers : q # p => pos'[q] = pos[q]
    BY DEF Claim, TypeOK
  <2>3. sent'[p] = sent[p] + 1 /\ \A q \in Producers : q # p => sent'[q] = sent[q]
    BY DEF Claim, TypeOK
  <2> QED
    BY <2>1, <2>2, <2>3
<1>3. <<p, sent[p] + 1>> \in Req
  BY <1>1, MaxItemsAssumption DEF TypeOK, Req
<1>4. TypeOK'
  <2>1. /\ ppc' \in [Producers -> {"idle", "wait", "write", "publish"}]
        /\ pos' \in [Producers -> Nat]
        /\ sent' \in [Producers -> 0..MaxItems]
    BY MaxItemsAssumption DEF TypeOK, Claim
  <2>2. prod' \in Nat /\ claims' \in Seq(Req)
    BY <1>1, <1>3 DEF TypeOK
  <2> QED
    BY <1>1, <2>1, <2>2 DEF TypeOK
<1>5. /\ Len(claims') = prod + 1 /\ claims'[prod + 1] = <<p, sent[p] + 1>>
      /\ \A n \in 1..prod : claims'[n] = claims[n]
  <2>1. claims \in Seq(Req) /\ Len(claims) = prod
    BY DEF TypeOK, HistoryInv
  <2> QED
    BY <1>1, <1>3, <2>1, AppendIsLast
<1>6. HistoryInv'
  BY <1>1, <1>5 DEF TypeOK, HistoryInv
<1>7. ClaimInv'
  <2> SUFFICES ASSUME NEW q \in Producers, Active(q)'
               PROVE  /\ cons <= pos'[q] /\ pos'[q] < prod + 1
                      /\ sent'[q] >= 1 /\ claims'[pos'[q] + 1] = Request(q)'
    BY <1>1 DEF ClaimInv
  <2>1. CASE q = p
    BY <2>1, <1>2, <1>5 DEF TypeOK, HistoryInv, Request
  <2>2. CASE q # p
    <3>1. Active(q) /\ pos'[q] = pos[q] /\ Request(q)' = Request(q) /\ sent'[q] = sent[q]
      BY <2>2, <1>2 DEF Active, Request
    <3>2. cons <= pos[q] /\ pos[q] < prod /\ sent[q] >= 1 /\ claims[pos[q] + 1] = Request(q)
      BY <3>1 DEF ClaimInv
    <3>3. pos[q] + 1 \in 1..prod
      BY <3>2 DEF TypeOK
    <3> QED
      BY <1>5, <3>1, <3>2, <3>3 DEF TypeOK
  <2> QED
    BY <2>1, <2>2
<1>8. \A q \in Producers : Active(q) => pos[q] < prod
  BY DEF ClaimInv
<1>9. OnePosition'
  <2>1. pos'[p] = prod /\ prod \in Nat
    BY <1>2 DEF TypeOK
  <2>2. ASSUME NEW q \in Producers, q # p, Active(q)'
        PROVE  Active(q) /\ pos'[q] = pos[q] /\ pos[q] < prod /\ pos[q] \in Nat
    BY <1>2, <1>8, <2>2 DEF Active, TypeOK
  <2>3. ASSUME NEW q \in Producers, NEW u \in Producers, q # u, Active(q)', Active(u)'
        PROVE  pos'[q] # pos'[u]
    <3>1. CASE q = p
      BY <2>1, <2>2, <2>3, <3>1
    <3>2. CASE u = p
      BY <2>1, <2>2, <2>3, <3>2
    <3>3. CASE q # p /\ u # p
      BY <2>2, <2>3, <3>3 DEF OnePosition
    <3> QED
      BY <3>1, <3>2, <3>3
  <2> QED
    BY <2>3 DEF OnePosition
<1>10. WindowCovers'
  BY <1>1 DEF WindowCovers, Window
<1>11. SlotInv'
  <2> SUFFICES ASSUME NEW n \in Window, seq[SlotOf(n)] # n
               PROVE  seq[SlotOf(n)] = n + 1 /\ Published(n)'
    BY <1>1 DEF SlotInv, Window
  <2>1. seq[SlotOf(n)] = n + 1 /\ Published(n)
    BY DEF SlotInv
  <2>2. n \in Nat /\ n + 1 \in 1..prod
    BY <2>1, SizeAssumption DEF Window, TypeOK, Published
  <2>3. ASSUME NEW q \in Producers, Active(q)' PROVE pos'[q] # n
    <3>1. CASE q = p
      <4>1. prod \in Nat
        BY DEF TypeOK
      <4> QED
        BY <1>2, <2>2, <3>1, <4>1
    <3>2. CASE q # p
      <4>1. Active(q) /\ pos'[q] = pos[q]
        BY <1>2, <2>3, <3>2 DEF Active
      <4> QED
        BY <2>1, <4>1 DEF Published
    <3> QED
      BY <3>1, <3>2
  <2> QED
    BY <1>1, <1>5, <2>1, <2>2, <2>3 DEF Published, TypeOK
<1>12. WriterInv'
  BY <1>1, <1>2 DEF WriterInv, Writing, Window, Request
<1>13. ConsumerInv'
  <2>1. cpc # "wait" => cons + 1 \in 1..prod
    <3>1. cpc # "wait" => seq[SlotOf(cons)] = cons + 1
      BY DEF ConsumerInv
    <3>2. cons \in Window /\ cons \in Nat
      BY SizeAssumption DEF Window, TypeOK
    <3> QED
      BY <3>1, <3>2 DEF SlotInv, Published, TypeOK
  <2> QED
    BY <1>1, <1>5, <2>1 DEF ConsumerInv
<1> QED
  BY <1>4, <1>6, <1>7, <1>9, <1>10, <1>11, <1>12, <1>13

\* The end of a producer's spin loop: the slot's sequence shows that the position
\* is of this round, since no other number of the window fits.
LEMMA AwaitKeepsInv ==
  ASSUME Inv, NEW p \in Producers, Await(p)
  PROVE  Inv'
<1> USE DEF Inv
<1>1. /\ UNCHANGED <<prod, cons, seq, data, pos, sent, cpc, item, claims, handled>>
      /\ ppc[p] = "wait" /\ seq[SlotOf(pos[p])] = pos[p]
  BY DEF Await, consv, FreeForRound
<1>2. /\ ppc'[p] = "write" /\ \A q \in Producers : q # p => ppc'[q] = ppc[q]
      /\ ppc' \in [Producers -> {"idle", "wait", "write", "publish"}]
  BY DEF Await, TypeOK
<1>3. \A q \in Producers : Active(q)' <=> Active(q)
  BY <1>1, <1>2 DEF Active
<1>4. TypeOK' /\ HistoryInv'
  BY <1>1, <1>2 DEF TypeOK, HistoryInv
<1>5. ClaimInv' /\ OnePosition'
  BY <1>1, <1>3 DEF ClaimInv, OnePosition, Request
<1>6. WindowCovers' /\ SlotInv'
  BY <1>1, <1>3 DEF WindowCovers, SlotInv, Published, Window
<1>7. pos[p] \in Window
  <2>1. pos[p] \in Nat /\ cons \in Nat /\ cons <= pos[p]
    BY <1>1 DEF TypeOK, ClaimInv, Active
  <2>2. PICK n \in Window : SlotOf(n) = SlotOf(pos[p])
    BY <2>1, SlotOfType DEF WindowCovers
  <2>3. n \in Nat
    BY <2>1, SizeAssumption DEF Window
  <2>4. pos[p] = n \/ pos[p] = n + 1
    BY <1>1, <2>2 DEF SlotInv
  <2>5. pos[p] = n
    BY <2>1, <2>2, <2>3, <2>4, SlotOfInjective, SizeAssumption
  <2> QED
    BY <2>5
<1>8. WriterInv'
  BY <1>1, <1>2, <1>7 DEF WriterInv, Writing, Window, Request
<1>9. ConsumerInv'
  BY <1>1 DEF ConsumerInv
<1> QED
  BY <1>4, <1>5, <1>6, <1>8, <1>9

\* The write goes to a slot that holds no published request, and that no other
\* writer has.
LEMMA WriteKeepsInv ==
  ASSUME Inv, NEW p \in Producers, Write(p)
  PROVE  Inv'
<1> USE DEF Inv
<1>1. /\ UNCHANGED <<prod, cons, seq, pos, sent, cpc, item, claims, handled>>
      /\ ppc[p] = "write"
  BY DEF Write, consv
<1>2. /\ ppc'[p] = "publish" /\ \A q \in Producers : q # p => ppc'[q] = ppc[q]
      /\ ppc' \in [Producers -> {"idle", "wait", "write", "publish"}]
  BY DEF Write, TypeOK
<1>3. \A q \in Producers : Active(q)' <=> Active(q)
  BY <1>1, <1>2 DEF Active
<1>4. /\ pos[p] \in Window /\ pos[p] \in Nat /\ seq[SlotOf(pos[p])] = pos[p]
      /\ SlotOf(pos[p]) \in Slot
  BY <1>1, SlotOfType DEF WriterInv, Writing, TypeOK
<1>5. Request(p) \in Req
  BY <1>1, MaxItemsAssumption DEF TypeOK, ClaimInv, Active, Request, Req
<1>6. /\ data'[SlotOf(pos[p])] = Request(p)
      /\ \A i \in Slot : i # SlotOf(pos[p]) => data'[i] = data[i]
      /\ data' \in [Slot -> Req \cup {Empty}]
  BY <1>4, <1>5 DEF Write, TypeOK
<1>7. TypeOK' /\ HistoryInv'
  BY <1>1, <1>2, <1>6 DEF TypeOK, HistoryInv
<1>8. ClaimInv' /\ OnePosition'
  BY <1>1, <1>3 DEF ClaimInv, OnePosition, Request
<1>9. WindowCovers'
  BY <1>1 DEF WindowCovers, Window
<1>10. SlotInv'
  <2> SUFFICES ASSUME NEW n \in Window, seq[SlotOf(n)] # n
               PROVE  seq[SlotOf(n)] = n + 1 /\ Published(n)'
    BY <1>1 DEF SlotInv, Window
  <2>1. seq[SlotOf(n)] = n + 1 /\ Published(n)
    BY DEF SlotInv
  <2>2. SlotOf(n) # SlotOf(pos[p])
    BY <1>4, WindowInjective
  <2>3. n \in Nat /\ SlotOf(n) \in Slot
    BY SizeAssumption, SlotOfType DEF Window, TypeOK
  <2> QED
    BY <1>1, <1>3, <1>6, <2>1, <2>2, <2>3 DEF Published
<1>11. WriterInv'
  <2> SUFFICES ASSUME NEW q \in Producers, Writing(q)'
               PROVE  /\ pos[q] \in Window /\ seq[SlotOf(pos[q])] = pos[q]
                      /\ ppc'[q] = "publish" => data'[SlotOf(pos[q])] = Request(q)
    BY <1>1 DEF WriterInv, Window, Request
  <2>1. CASE q = p
    BY <2>1, <1>4, <1>6
  <2>2. CASE q # p
    <3>1. Writing(q) /\ ppc'[q] = ppc[q] /\ Active(q) /\ Active(p)
      BY <2>2, <1>1, <1>2 DEF Writing, Active
    <3>2. pos[q] # pos[p] /\ pos[q] \in Window /\ pos[q] \in Nat
      BY <2>2, <3>1 DEF OnePosition, WriterInv, TypeOK
    <3>3. SlotOf(pos[q]) # SlotOf(pos[p]) /\ SlotOf(pos[q]) \in Slot
      BY <1>4, <3>2, WindowInjective, SlotOfType
    <3> QED
      BY <1>6, <3>1, <3>3 DEF WriterInv
  <2> QED
    BY <2>1, <2>2
<1>12. ConsumerInv'
  BY <1>1 DEF ConsumerInv
<1> QED
  BY <1>7, <1>8, <1>9, <1>10, <1>11, <1>12

\* The store of pos + 1 publishes the claimed position, and none but that one.
LEMMA PublishKeepsInv ==
  ASSUME Inv, NEW p \in Producers, Publish(p)
  PROVE  Inv'
<1> USE DEF Inv
<1>1. /\ UNCHANGED <<prod, cons, data, pos, sent, cpc, item, claims, handled>>
      /\ ppc[p] = "publish"
  BY DEF Publish, consv
<1>2. /\ ppc'[p] = "idle" /\ \A q \in Producers : q # p => ppc'[q] = ppc[q]
      /\ ppc' \in [Producers -> {"idle", "wait", "write", "publish"}]
  BY DEF Publish, TypeOK
<1>3. Active(p) /\ ~Active(p)' /\ \A q \in Producers : Active(q)' <=> Active(q) /\ q # p
  BY <1>1, <1>2 DEF Active
<1>4. /\ pos[p] \in Window /\ pos[p] \in Nat /\ seq[SlotOf(pos[p])] = pos[p]
      /\ SlotOf(pos[p]) \in Slot /\ data[SlotOf(pos[p])] = Request(p)
  BY <1>1, SlotOfType DEF WriterInv, Writing, TypeOK
<1>5. /\ seq'[SlotOf(pos[p])] = pos[p] + 1
      /\ \A i \in Slot : i # SlotOf(pos[p]) => seq'[i] = seq[i]
      /\ seq' \in [Slot -> Nat]
  BY <1>4 DEF Publish, TypeOK
<1>6. TypeOK' /\ HistoryInv'
  BY <1>1, <1>2, <1>5 DEF TypeOK, HistoryInv
<1>7. ClaimInv' /\ OnePosition'
  BY <1>1, <1>3 DEF ClaimInv, OnePosition, Request
<1>8. WindowCovers'
  BY <1>1 DEF WindowCovers, Window
<1>9. SlotInv'
  <2> SUFFICES ASSUME NEW n \in Window
               PROVE  \/ seq'[SlotOf(n)] = n
                      \/ seq'[SlotOf(n)] = n + 1 /\ Published(n)'
    BY <1>1 DEF SlotInv, Window
  <2>1. CASE n = pos[p]
    <3>1. n < prod /\ data[SlotOf(n)] = claims[n + 1]
      BY <2>1, <1>3, <1>4 DEF ClaimInv
    <3>2. \A q \in Producers : Active(q)' => pos[q] # n
      BY <2>1, <1>3 DEF OnePosition
    <3> QED
      BY <2>1, <1>1, <1>5, <3>1, <3>2 DEF Published
  <2>2. CASE n # pos[p]
    <3>1. SlotOf(n) # SlotOf(pos[p])
      BY <2>2, <1>4, WindowInjective
    <3>2. n \in Nat /\ SlotOf(n) \in Slot
      BY SizeAssumption, SlotOfType DEF Window, TypeOK
    <3>3. seq'[SlotOf(n)] = seq[SlotOf(n)]
      BY <1>5, <3>1, <3>2
    <3>4. Published(n) => Published(n)'
      BY <1>1, <1>3 DEF Published
    <3> QED
      BY <3>3, <3>4 DEF SlotInv
  <2> QED
    BY <2>1, <2>2
<1>10. WriterInv'
  <2> SUFFICES ASSUME NEW q \in Producers, Writing(q)'
               PROVE  /\ pos[q] \in Window /\ seq'[SlotOf(pos[q])] = pos[q]
                      /\ ppc'[q] = "publish" => data[SlotOf(pos[q])] = Request(q)
    BY <1>1 DEF WriterInv, Window, Request
  <2>1. q # p /\ Writing(q) /\ ppc'[q] = ppc[q] /\ Active(q)
    BY <1>2 DEF Writing, Active
  <2>2. pos[q] # pos[p] /\ pos[q] \in Window /\ pos[q] \in Nat
    BY <1>3, <2>1 DEF OnePosition, WriterInv, TypeOK
  <2>3. SlotOf(pos[q]) # SlotOf(pos[p]) /\ SlotOf(pos[q]) \in Slot
    BY <1>4, <2>2, WindowInjective, SlotOfType
  <2> QED
    BY <1>5, <2>1, <2>3 DEF WriterInv
<1>11. ConsumerInv'
  <2>1. cons \in Window /\ cons \in Nat /\ SlotOf(cons) \in Slot
    BY SizeAssumption, SlotOfType DEF Window, TypeOK
  <2>2. cpc # "wait" => SlotOf(cons) # SlotOf(pos[p])
    <3>1. SlotOf(cons) = SlotOf(pos[p]) => cons = pos[p]
      BY <1>4, <2>1, WindowInjective
    <3> QED
      BY <1>4, <2>1, <3>1 DEF ConsumerInv
  <2> QED
    BY <1>1, <1>5, <2>1, <2>2 DEF ConsumerInv
<1> QED
  BY <1>6, <1>7, <1>8, <1>9, <1>10, <1>11

\* The consumer's loads: it leaves its loop on a published slot and reads the
\* request of its own position.
LEMMA ReadKeepsInv ==
  ASSUME Inv, AwaitPublished \/ Read
  PROVE  Inv'
<1> USE DEF Inv
<1>1. UNCHANGED <<prod, cons, seq, data, ppc, pos, sent, claims, handled>>
  BY DEF AwaitPublished, Read, prodv
<1>2. cons \in Window /\ cons \in Nat /\ SlotOf(cons) \in Slot
  BY SizeAssumption, SlotOfType DEF Window, TypeOK
<1>3. cpc # "free" /\ cpc' \in {"read", "clear"}
  BY DEF AwaitPublished, Read
<1>4. TypeOK'
  <2>1. item' \in Req \cup {Empty}
    BY <1>2 DEF AwaitPublished, Read, TypeOK
  <2> QED
    BY <1>1, <1>3, <2>1 DEF TypeOK
<1>5. (HistoryInv /\ ClaimInv /\ OnePosition)'
  BY <1>1 DEF HistoryInv, ClaimInv, OnePosition, Request, Active
<1>6. WindowCovers' /\ WriterInv'
  BY <1>1 DEF WindowCovers, WriterInv, Writing, Window, Request
<1>7. SlotInv'
  <2>1. \A n \in Window : Published(n) => Published(n)'
    BY <1>1, <1>3 DEF Published, Active
  <2> QED
    BY <1>1, <2>1 DEF SlotInv, Window
<1>8. seq[SlotOf(cons)] = cons + 1
  BY DEF AwaitPublished, Read, ConsumerInv
<1>9. data[SlotOf(cons)] = claims[cons + 1]
  BY <1>2, <1>3, <1>8 DEF SlotInv, Published
<1>10. cpc' = "clear" => item' = claims[cons + 1]
  BY <1>9 DEF AwaitPublished, Read
<1>11. ConsumerInv'
  BY <1>1, <1>3, <1>8, <1>10 DEF ConsumerInv
<1> QED
  BY <1>4, <1>5, <1>6, <1>7, <1>11

\* The zero value goes to the consumer's own slot: no producer is writing there.
LEMMA ClearKeepsInv ==
  ASSUME Inv, Clear
  PROVE  Inv'
<1> USE DEF Inv
<1>1. /\ UNCHANGED <<prod, cons, seq, ppc, pos, sent, item, claims, handled>>
      /\ cpc = "clear" /\ cpc' = "free"
  BY DEF Clear, prodv
<1>2. cons \in Window /\ cons \in Nat /\ SlotOf(cons) \in Slot
  BY SizeAssumption, SlotOfType DEF Window, TypeOK
<1>3. /\ \A i \in Slot : i # SlotOf(cons) => data'[i] = data[i]
      /\ data' \in [Slot -> Req \cup {Empty}]
  BY <1>2 DEF Clear, TypeOK
<1>4. TypeOK'
  BY <1>1, <1>3 DEF TypeOK
<1>5. (HistoryInv /\ ClaimInv /\ OnePosition /\ WindowCovers)'
  BY <1>1 DEF HistoryInv, ClaimInv, OnePosition, Request, Active, WindowCovers, Window
<1>6. seq[SlotOf(cons)] = cons + 1
  BY <1>1 DEF ConsumerInv
<1>7. SlotInv'
  <2> SUFFICES ASSUME NEW n \in Window, seq[SlotOf(n)] # n
               PROVE  seq[SlotOf(n)] = n + 1 /\ Published(n)'
    BY <1>1 DEF SlotInv, Window
  <2>1. seq[SlotOf(n)] = n + 1 /\ Published(n)
    BY DEF SlotInv
  <2>2. n \in Nat /\ SlotOf(n) \in Slot
    BY SizeAssumption, SlotOfType DEF Window, TypeOK
  <2>3. n # cons => data'[SlotOf(n)] = data[SlotOf(n)]
    BY <1>2, <1>3, <2>2, WindowInjective
  <2> QED
    BY <1>1, <2>1, <2>3 DEF Published, Active
<1>8. WriterInv'
  <2> SUFFICES ASSUME NEW q \in Producers, Writing(q)
               PROVE  /\ pos[q] \in Window /\ seq[SlotOf(pos[q])] = pos[q]
                      /\ ppc[q] = "publish" => data'[SlotOf(pos[q])] = Request(q)
    BY <1>1 DEF WriterInv, Window, Request, Writing
  <2>1. /\ pos[q] \in Window /\ seq[SlotOf(pos[q])] = pos[q] /\ pos[q] \in Nat
        /\ ppc[q] = "publish" => data[SlotOf(pos[q])] = Request(q)
    BY DEF WriterInv, TypeOK
  <2>2. SlotOf(pos[q]) # SlotOf(cons) /\ SlotOf(pos[q]) \in Slot
    BY <1>2, <1>6, <2>1, WindowInjective, SlotOfType
  <2> QED
    BY <1>3, <2>1, <2>2
<1>9. ConsumerInv'
  BY <1>1 DEF ConsumerInv
<1> QED
  BY <1>4, <1>5, <1>7, <1>8, <1>9

\* The store that frees the slot moves the window on by one: the slot is the one
\* of the position that enters the window.
LEMMA FreeKeepsInv ==
  ASSUME Inv, Free
  PROVE  Inv'
<1> USE DEF Inv
<1>1. /\ UNCHANGED <<prod, data, ppc, pos, sent, claims>>
      /\ cpc = "free" /\ cpc' = "wait" /\ cons' = cons + 1
      /\ handled' = Append(handled, item) /\ item' = Empty
  BY DEF Free, prodv
<1>2. cons \in Window /\ cons \in Nat /\ SlotOf(cons) \in Slot
  BY SizeAssumption, SlotOfType DEF Window, TypeOK
<1>3. /\ seq'[SlotOf(cons)] = cons + Size
      /\ \A i \in Slot : i # SlotOf(cons) => seq'[i] = seq[i]
      /\ seq' \in [Slot -> Nat]
  BY <1>2, SizeAssumption DEF Free, FreedFor, TypeOK
<1>4. seq[SlotOf(cons)] = cons + 1 /\ item = claims[cons + 1]
  BY <1>1 DEF ConsumerInv
<1>5. cons < prod /\ \A p \in Producers : Active(p) => pos[p] # cons
  BY <1>2, <1>4 DEF SlotInv, Published
<1>6. item \in Req
  <2>1. cons + 1 \in 1..Len(claims) /\ claims \in Seq(Req)
    BY <1>2, <1>5 DEF HistoryInv, TypeOK
  <2> QED
    BY <1>4, <2>1
<1>7. /\ handled' \in Seq(Req) /\ Len(handled') = cons + 1
      /\ handled'[cons + 1] = item /\ \A n \in 1..cons : handled'[n] = handled[n]
  <2>1. handled \in Seq(Req) /\ Len(handled) = cons
    BY DEF TypeOK, HistoryInv
  <2> QED
    BY <1>1, <1>6, <2>1, AppendIsLast
<1>8. TypeOK'
  BY <1>1, <1>2, <1>3, <1>7 DEF TypeOK
<1>9. HistoryInv'
  BY <1>1, <1>2, <1>4, <1>5, <1>7 DEF HistoryInv, TypeOK
<1>10. ClaimInv' /\ OnePosition'
  BY <1>1, <1>2, <1>5 DEF ClaimInv, OnePosition, Active, Request, TypeOK
<1>11. /\ \A n \in Window' : n = cons + Size \/ (n \in Window /\ n # cons)
       /\ \A n \in Window : n = cons \/ n \in Window'
       /\ cons + Size \in Window' /\ SlotOf(cons + Size) = SlotOf(cons)
  BY <1>1, <1>2, SlotOfNextRound, SizeAssumption DEF Window
<1>12. WindowCovers'
  BY <1>11 DEF WindowCovers
<1>13. \A n \in Window : n # cons => seq'[SlotOf(n)] = seq[SlotOf(n)]
  <2> SUFFICES ASSUME NEW n \in Window, n # cons
               PROVE  seq'[SlotOf(n)] = seq[SlotOf(n)]
    OBVIOUS
  <2>1. n \in Nat /\ SlotOf(n) \in Slot
    BY SizeAssumption, SlotOfType DEF Window, TypeOK
  <2> QED
    BY <1>2, <1>3, <2>1, WindowInjective
<1>14. SlotInv'
  <2> SUFFICES ASSUME NEW n \in Window'
               PROVE  \/ seq'[SlotOf(n)] = n
                      \/ seq'[SlotOf(n)] = n + 1 /\ Published(n)'
    BY DEF SlotInv
  <2>1. CASE n = cons + Size
    BY <2>1, <1>3, <1>11
  <2>2. CASE n \in Window /\ n # cons
    <3>1. Published(n) => Published(n)'
      BY <2>2, <1>1 DEF Published, Active
    <3> QED
      BY <2>2, <1>13, <3>1 DEF SlotInv
  <2> QED
    BY <2>1, <2>2, <1>11
<1>15. WriterInv'
  <2> SUFFICES ASSUME NEW q \in Producers, Writing(q)
               PROVE  /\ pos[q] \in Window' /\ seq'[SlotOf(pos[q])] = pos[q]
                      /\ ppc[q] = "publish" => data[SlotOf(pos[q])] = Request(q)
    BY <1>1 DEF WriterInv, Request, Writing
  <2>1. /\ pos[q] \in Window /\ seq[SlotOf(pos[q])] = pos[q]
        /\ ppc[q] = "publish" => data[SlotOf(pos[q])] = Request(q)
    BY DEF WriterInv
  <2>2. pos[q] # cons
    BY <1>5 DEF Writing, Active
  <2> QED
    BY <1>11, <1>13, <2>1, <2>2
<1>16. ConsumerInv'
  BY <1>1 DEF ConsumerInv
<1> QED
  BY <1>8, <1>9, <1>10, <1>12, <1>14, <1>15, <1>16

-----------------------------------------------------------------------------
\* The invariant holds in every state the ring can reach.
THEOREM InvHolds == Spec => []Inv
<1>1. Inv /\ [Next]_vars => Inv'
  <2> SUFFICES ASSUME Inv, [Next]_vars PROVE Inv'
    OBVIOUS
  <2>1. CASE \E p \in Producers : Claim(p) \/ PublishStep(p)
    BY <2>1, ClaimKeepsInv, AwaitKeepsInv, WriteKeepsInv, PublishKeepsInv
       DEF PublishStep
  <2>2. CASE ConsumeStep
    BY <2>2, ReadKeepsInv, ClearKeepsInv, FreeKeepsInv DEF ConsumeStep
  <2>3. CASE UNCHANGED vars
    <3>1. UNCHANGED <<prod, cons, seq, data, ppc, pos, sent, cpc, item, claims, handled>>
      BY <2>3 DEF vars, prodv, consv
    <3>2. (TypeOK /\ HistoryInv /\ ClaimInv /\ OnePosition)'
      BY <3>1 DEF Inv, TypeOK, HistoryInv, ClaimInv, OnePosition, Active, Request
    <3>3. (WindowCovers /\ SlotInv /\ WriterInv /\ ConsumerInv)'
      BY <3>1 DEF Inv, WindowCovers, SlotInv, Published, WriterInv, Writing,
                  ConsumerInv, Window, Active, Request
    <3> QED
      BY <3>2, <3>3 DEF Inv
  <2> QED
    BY <2>1, <2>2, <2>3 DEF Next
<1> QED
  BY <1>1, InitInv, PTL DEF Spec

\* Every field of the ring keeps its type; a cursor or sequence never goes below
\* zero and consume never returns the zero request.
THEOREM TypeCorrect == Spec => []TypeOK
<1>1. Inv => TypeOK
  BY DEF Inv
<1> QED
  BY <1>1, InvHolds, PTL

\* Each access to a slot's plain data field is alone: the sequence numbers keep
\* producers of different rounds, and the consumer, apart.
THEOREM OneUserOfASlot == Spec => []SlotHasOneUser
<1>1. Inv => SlotHasOneUser
  <2> SUFFICES ASSUME Inv PROVE SlotHasOneUser
    OBVIOUS
  <2> USE DEF Inv
  <2>1. ASSUME NEW p \in Producers, NEW q \in Producers, p # q, Writing(p), Writing(q)
        PROVE  SlotOf(pos[p]) # SlotOf(pos[q])
    <3>1. pos[p] \in Window /\ pos[q] \in Window
      BY <2>1 DEF WriterInv
    <3>2. pos[p] # pos[q]
      BY <2>1 DEF OnePosition, Writing, Active
    <3> QED
      BY <3>1, <3>2, WindowInjective
  <2>2. ASSUME NEW p \in Producers, Writing(p), cpc # "wait"
        PROVE  SlotOf(pos[p]) # SlotOf(cons)
    <3>1. pos[p] \in Window /\ seq[SlotOf(pos[p])] = pos[p]
      BY <2>2 DEF WriterInv
    <3>2. cons \in Window /\ cons \in Nat /\ seq[SlotOf(cons)] = cons + 1
      BY <2>2, SizeAssumption DEF ConsumerInv, Window, TypeOK
    <3> QED
      BY <3>1, <3>2, WindowInjective
  <2> QED
    BY <2>1, <2>2 DEF SlotHasOneUser
<1> QED
  BY <1>1, InvHolds, PTL

\* consume returns the requests once each and in the order of the claims.
THEOREM ClaimOrderIsKept == Spec => []HandledInClaimOrder
<1>1. Inv => HandledInClaimOrder
  <2> SUFFICES ASSUME Inv PROVE IsPrefix(handled, claims)
    BY DEF HandledInClaimOrder
  <2>1. /\ handled \in Seq(Req) /\ claims \in Seq(Req) /\ cons \in Nat
        /\ Len(handled) = cons /\ Len(claims) = prod /\ cons <= prod
        /\ \A i \in 1..cons : handled[i] = claims[i]
    BY DEF Inv, TypeOK, HistoryInv
  <2>2. SubSeq(handled, 1, cons) = SubSeq(claims, 1, cons)
    BY <2>1
  <2> QED
    BY <2>1, <2>2 DEF IsPrefix
<1> QED
  BY <1>1, InvHolds, PTL

=============================================================================
