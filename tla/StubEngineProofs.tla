-------------------------- MODULE StubEngineProofs --------------------------
(***************************************************************************)
(* Proofs about StubEngine, for any number of connections, shards, symbols *)
(* and requests, and for both engines.                                     *)
(*                                                                         *)
(* The index that routes cancels is exact.  Orders enter and leave ladders *)
(* in steps of many goroutines; the index follows because a request is in  *)
(* one place until it rests (OnePlace), and so rests on one ladder, once   *)
(* (LadderInv).                                                            *)
(*                                                                         *)
(* Ladders are in price-time order and never crossed (BookInv): the binary *)
(* search behind a cancel finds its order and the matching loops fill the  *)
(* best order first; no two workers are in one book (InsideInv).           *)
(*                                                                         *)
(* Every message that was sequenced is delivered, under way or counted as  *)
(* dropped (MessageInv).                                                   *)
(*                                                                         *)
(* In the order of engine_seq a fill follows the entries of its two orders *)
(* (SequenceInv).                                                          *)
(***************************************************************************)
EXTENDS StubEngine, SequenceTheorems, FiniteSetTheorems, WellFoundedInduction,
        TLAPS

-----------------------------------------------------------------------------
(* Sequences *)

\* A non-empty set of numbers has a least one.
LEMMA Least ==
  ASSUME NEW T \in SUBSET Nat, T # {}
  PROVE  \E x \in T : \A y \in T : x <= y
<1> DEFINE R == OpToRel(<, Nat)
<1>1. \E x \in T : \A y \in T : ~(<<y, x>> \in R)
  BY NatLessThanWellFounded, WFMin
<1>2. \A x, y \in Nat : y < x => <<y, x>> \in R
  BY DEF OpToRel
<1> HIDE DEF R
<1>3. PICK x \in T : \A y \in T : ~(<<y, x>> \in R)
  BY <1>1
<1>4. ASSUME NEW y \in T PROVE x <= y
  <2>1. x \in Nat /\ y \in Nat
    OBVIOUS
  <2>2. ~(y < x)
    BY <1>2, <1>3, <2>1, Zenon
  <2> QED
    BY <2>1, <2>2
<1> QED
  BY <1>4

\* sort.Search returns the least place where the predicate holds, or the end.
LEMMA SearchFinds ==
  ASSUME NEW n \in Nat, NEW S, NEW holds \in [1..n -> S]
  PROVE  /\ Search(holds) \in 1..n + 1
         /\ Search(holds) <= n => holds[Search(holds)]
         /\ \A j \in 1..Search(holds) - 1 : ~holds[j]
<1>1. Len(holds) = n
  <2>1. holds \in Seq(S)
    BY SeqDef
  <2> QED
    BY <2>1, LenProperties
<1> DEFINE Ends == {i \in 1..n + 1 : i <= n => holds[i]}
<1>2. Ends \in SUBSET Nat /\ n + 1 \in Ends
  OBVIOUS
<1>3. PICK i \in Ends : \A j \in Ends : i <= j
  BY <1>2, Least
<1>4. \A j \in 1..i - 1 : ~holds[j]
  BY <1>3
<1>5. \E k \in 1..Len(holds) + 1 : /\ k <= Len(holds) => holds[k]
                                   /\ \A j \in 1..k - 1 : ~holds[j]
  BY <1>1, <1>3, <1>4
<1>6. /\ Search(holds) \in 1..Len(holds) + 1
      /\ Search(holds) <= Len(holds) => holds[Search(holds)]
      /\ \A j \in 1..Search(holds) - 1 : ~holds[j]
  BY <1>5 DEF Search
<1> QED
  BY <1>1, <1>6

\* The elements of a sequence.
Elems(s) == {s[i] : i \in 1..Len(s)}

\* No element occurs twice.
Distinct(s) == \A i, j \in 1..Len(s) : s[i] = s[j] => i = j

\* Inserting an element.
LEMMA InsertAtIs ==
  ASSUME NEW S, NEW s \in Seq(S), NEW i \in 1..Len(s) + 1, NEW e \in S
  PROVE  /\ InsertAt(s, i, e) \in Seq(S)
         /\ Len(InsertAt(s, i, e)) = Len(s) + 1 /\ Len(s) \in Nat
         /\ \A j \in 1..Len(s) + 1 :
              InsertAt(s, i, e)[j] = IF j < i THEN s[j]
                                     ELSE IF j = i THEN e ELSE s[j - 1]
<1> DEFINE t == InsertAt(s, i, e)
<1> DEFINE a == SubSeq(s, 1, i - 1)
           b == SubSeq(s, i, Len(s))
           c == a \o <<e>>
<1>1. a \in Seq(S) /\ Len(a) = i - 1 /\ \A j \in 1..i - 1 : a[j] = s[j]
  BY SubSeqProperties, ElementOfSeq
<1>2. /\ b \in Seq(S) /\ Len(b) = Len(s) - i + 1
      /\ \A j \in 1..Len(s) - i + 1 : b[j] = s[i + j - 1]
  BY SubSeqProperties, ElementOfSeq
<1>3. <<e>> \in Seq(S) /\ Len(<<e>>) = 1 /\ <<e>>[1] = e
  OBVIOUS
<1> HIDE DEF a, b
<1>4. /\ c \in Seq(S) /\ Len(c) = i
      /\ \A j \in 1..i : c[j] = IF j <= i - 1 THEN a[j] ELSE <<e>>[j - (i - 1)]
  BY <1>1, <1>3, ConcatProperties
<1>5. \A j \in 1..i : c[j] = IF j < i THEN s[j] ELSE e
  BY <1>1, <1>3, <1>4
<1> HIDE DEF c
<1>6. /\ c \o b \in Seq(S) /\ Len(c \o b) = Len(c) + Len(b)
      /\ \A j \in 1..Len(c) + Len(b) :
           (c \o b)[j] = IF j <= Len(c) THEN c[j] ELSE b[j - Len(c)]
  BY <1>2, <1>4, ConcatProperties
<1>7. t = c \o b
  BY DEF InsertAt, a, b, c
<1> HIDE DEF t
<1>8. Len(s) \in Nat
  OBVIOUS
<1>9. t \in Seq(S) /\ Len(t) = Len(s) + 1
  BY <1>2, <1>4, <1>6, <1>7, <1>8
<1>10. ASSUME NEW j \in 1..Len(s) + 1, j <= i
       PROVE  t[j] = IF j < i THEN s[j] ELSE e
  <2>1. t[j] = c[j] /\ j \in 1..i
    BY <1>2, <1>4, <1>6, <1>7, <1>8, <1>10
  <2> QED
    BY <1>5, <2>1
<1>11. ASSUME NEW j \in 1..Len(s) + 1, j > i PROVE t[j] = s[j - 1]
  <2>1. t[j] = b[j - i]
    BY <1>2, <1>4, <1>6, <1>7, <1>8, <1>11
  <2>2. j - i \in 1..Len(s) - i + 1 /\ i + (j - i) - 1 = j - 1
    BY <1>8, <1>11
  <2> QED
    BY <1>2, <2>1, <2>2
<1> QED
  BY <1>8, <1>9, <1>10, <1>11 DEF t

\* Inserting a new element.
LEMMA InsertAtElems ==
  ASSUME NEW S, NEW s \in Seq(S), NEW i \in 1..Len(s) + 1, NEW e \in S
  PROVE  /\ InsertAt(s, i, e) \in Seq(S)
         /\ Elems(InsertAt(s, i, e)) = Elems(s) \cup {e}
         /\ Distinct(s) /\ e \notin Elems(s) => Distinct(InsertAt(s, i, e))
<1> DEFINE t == InsertAt(s, i, e)
<1>1. /\ t \in Seq(S) /\ Len(t) = Len(s) + 1 /\ Len(s) \in Nat
      /\ \A j \in 1..Len(s) + 1 :
           t[j] = IF j < i THEN s[j] ELSE IF j = i THEN e ELSE s[j - 1]
  BY InsertAtIs
<1> HIDE DEF t
<1>2. ASSUME NEW j \in 1..Len(t) PROVE t[j] \in Elems(s) \cup {e}
  <2>1. CASE j < i
    <3>1. j \in 1..Len(s) /\ t[j] = s[j]
      BY <1>1, <2>1
    <3> QED
      BY <3>1 DEF Elems
  <2>2. CASE j = i
    BY <1>1, <2>2
  <2>3. CASE j > i
    <3>1. j - 1 \in 1..Len(s) /\ t[j] = s[j - 1]
      BY <1>1, <2>3
    <3> QED
      BY <3>1 DEF Elems
  <2> QED
    BY <1>1, <2>1, <2>2, <2>3
<1>3. ASSUME NEW x \in Elems(s) \cup {e} PROVE x \in Elems(t)
  <2>1. CASE x = e
    BY <1>1, <2>1 DEF Elems
  <2>2. ASSUME NEW j \in 1..Len(s), x = s[j] PROVE x \in Elems(t)
    <3>1. CASE j < i
      <4>1. t[j] = x /\ j \in 1..Len(t)
        BY <1>1, <2>2, <3>1
      <4> QED
        BY <4>1 DEF Elems
    <3>2. CASE j >= i
      <4>1. t[j + 1] = x /\ j + 1 \in 1..Len(t)
        BY <1>1, <2>2, <3>2
      <4> QED
        BY <4>1 DEF Elems
    <3> QED
      BY <3>1, <3>2
  <2> QED
    BY <2>1, <2>2 DEF Elems
<1>4. ASSUME Distinct(s), e \notin Elems(s),
             NEW j \in 1..Len(t), NEW k \in 1..Len(t), t[j] = t[k], j # k
      PROVE  FALSE
  <2>1. \A m \in 1..Len(s) : s[m] # e
    BY <1>4 DEF Elems
  <2>2. \A m, n \in 1..Len(s) : s[m] = s[n] => m = n
    BY <1>4 DEF Distinct
  <2> DEFINE from(n) == IF n < i THEN n ELSE n - 1
  <2>3. ASSUME NEW n \in 1..Len(t), n # i
        PROVE  from(n) \in 1..Len(s) /\ t[n] = s[from(n)]
    BY <1>1, <2>3
  <2>4. t[i] = e
    BY <1>1
  <2>5. j # i /\ k # i
    BY <1>4, <2>1, <2>3, <2>4
  <2>6. from(j) = from(k)
    BY <1>4, <2>2, <2>3, <2>5
  <2> QED
    BY <1>1, <1>4, <2>5, <2>6
<1>5. Elems(t) = Elems(s) \cup {e}
  BY <1>2, <1>3 DEF Elems
<1>6. ASSUME Distinct(s), e \notin Elems(s) PROVE Distinct(t)
  BY <1>4, <1>6 DEF Distinct
<1> QED
  BY <1>1, <1>5, <1>6 DEF t

\* Removing an element.
LEMMA RemoveAtIs ==
  ASSUME NEW S, NEW s \in Seq(S), NEW i \in 1..Len(s)
  PROVE  /\ RemoveAt(s, i) \in Seq(S)
         /\ Len(RemoveAt(s, i)) = Len(s) - 1 /\ Len(s) \in Nat
         /\ \A j \in 1..Len(s) - 1 : j < i => RemoveAt(s, i)[j] = s[j]
         /\ \A j \in 1..Len(s) - 1 : j >= i => RemoveAt(s, i)[j] = s[j + 1]
<1> DEFINE t == RemoveAt(s, i)
<1> DEFINE a == SubSeq(s, 1, i - 1)
           b == SubSeq(s, i + 1, Len(s))
<1>1. a \in Seq(S) /\ Len(a) = i - 1 /\ \A j \in 1..i - 1 : a[j] = s[j]
  BY SubSeqProperties, ElementOfSeq
<1>2. /\ b \in Seq(S) /\ Len(b) = Len(s) - i
      /\ \A j \in 1..Len(s) - i : b[j] = s[i + j]
  BY SubSeqProperties, ElementOfSeq
<1> HIDE DEF a, b
<1>3. /\ a \o b \in Seq(S) /\ Len(a \o b) = Len(a) + Len(b)
      /\ \A j \in 1..Len(a) + Len(b) :
           (a \o b)[j] = IF j <= Len(a) THEN a[j] ELSE b[j - Len(a)]
  BY <1>1, <1>2, ConcatProperties
<1>4. t = a \o b
  BY DEF RemoveAt, a, b
<1> HIDE DEF t
<1>5. Len(s) \in Nat
  OBVIOUS
<1>6. t \in Seq(S) /\ Len(t) = Len(s) - 1
  BY <1>1, <1>2, <1>3, <1>4, <1>5
<1>7. ASSUME NEW j \in 1..Len(s) - 1, j < i PROVE t[j] = s[j]
  BY <1>1, <1>2, <1>3, <1>4, <1>5, <1>7
<1>8. ASSUME NEW j \in 1..Len(s) - 1, j >= i PROVE t[j] = s[j + 1]
  <2>1. t[j] = b[j - (i - 1)]
    BY <1>1, <1>2, <1>3, <1>4, <1>5, <1>8
  <2>2. j - (i - 1) \in 1..Len(s) - i /\ i + (j - (i - 1)) = j + 1
    BY <1>5, <1>8
  <2> QED
    BY <1>2, <2>1, <2>2
<1> QED
  BY <1>5, <1>6, <1>7, <1>8 DEF t

\* Removing the element at a position.
LEMMA RemoveAtElems ==
  ASSUME NEW S, NEW s \in Seq(S), NEW i \in 1..Len(s), Distinct(s)
  PROVE  /\ RemoveAt(s, i) \in Seq(S)
         /\ Elems(RemoveAt(s, i)) = Elems(s) \ {s[i]}
         /\ Distinct(RemoveAt(s, i))
<1> DEFINE t == RemoveAt(s, i)
<1>1. /\ t \in Seq(S) /\ Len(t) = Len(s) - 1 /\ Len(s) \in Nat
      /\ \A j \in 1..Len(s) - 1 : j < i => t[j] = s[j]
      /\ \A j \in 1..Len(s) - 1 : j >= i => t[j] = s[j + 1]
  BY RemoveAtIs
<1> HIDE DEF t
<1>2. Elems(t) \subseteq Elems(s) \ {s[i]}
  BY <1>1 DEF Elems, Distinct
<1>3. ASSUME NEW j \in 1..Len(s), s[j] # s[i] PROVE s[j] \in Elems(t)
  <2>1. CASE j < i
    BY <1>1, <2>1 DEF Elems
  <2>2. CASE j > i
    <3>1. t[j - 1] = s[j] /\ j - 1 \in 1..Len(t)
      BY <1>1, <2>2
    <3> QED
      BY <3>1 DEF Elems
  <2> QED
    BY <1>3, <2>1, <2>2
<1>4. Distinct(t)
  BY <1>1 DEF Distinct
<1> QED
  BY <1>1, <1>2, <1>3, <1>4 DEF t, Elems

\* Taking the first element away.
LEMMA TailElems ==
  ASSUME NEW S, NEW s \in Seq(S), s # <<>>, Distinct(s)
  PROVE  /\ Tail(s) \in Seq(S)
         /\ Elems(Tail(s)) = Elems(s) \ {Head(s)}
         /\ Distinct(Tail(s))
         /\ Head(s) \in Elems(s)
<1> DEFINE t == Tail(s)
<1>1. /\ t \in Seq(S) /\ Len(t) = Len(s) - 1 /\ Len(s) > 0
      /\ \A j \in 1..Len(s) - 1 : t[j] = s[j + 1]
      /\ Head(s) = s[1]
  OBVIOUS
<1> HIDE DEF t
<1>2. Elems(t) \subseteq Elems(s) \ {s[1]}
  BY <1>1 DEF Elems, Distinct
<1>3. ASSUME NEW j \in 1..Len(s), s[j] # s[1] PROVE s[j] \in Elems(t)
  <2>1. t[j - 1] = s[j] /\ j - 1 \in 1..Len(t)
    BY <1>1, <1>3
  <2> QED
    BY <2>1 DEF Elems
<1>4. Distinct(t)
  BY <1>1 DEF Distinct
<1>5. Head(s) \in Elems(s)
  BY <1>1 DEF Elems
<1> QED
  BY <1>1, <1>2, <1>3, <1>4, <1>5 DEF t, Elems

-----------------------------------------------------------------------------
(* The inductive invariant                                                 *)

\* Workers that hold a request which may still reach a book.
Busy(p) == pc[p] \in {"aside", "enter", "book"}

\* A task that may enter a book, and the order it is about.
Enters(t) == /\ t \in Task /\ t.ord \in Request
             /\ t.req.type = "new" => t.ord = t.req

\* What workers and rings hold.
HeldInv ==
  /\ pc \in [Workers -> {"read", "idle", "aside", "enter", "book", "send"}]
  /\ DOMAIN task = Workers
  /\ todo \subseteq Request
  /\ \A p \in Workers : Busy(p) => task[p] \in Task
  /\ \A p \in Workers : pc[p] \in {"enter", "book"} => Enters(task[p])
  /\ \A p \in Workers : pc[p] = "book" => task[p].req.type = "new"
  /\ ring \in [Shards -> Seq(Task)]
  /\ \A s \in Shards : \A i \in 1..Len(ring[s]) : Enters(ring[s][i])

\* A request that is not on a book yet is in one place.
OnePlace ==
  /\ \A p, q \in Workers : Busy(p) /\ Busy(q) /\ task[p].req = task[q].req => p = q
  /\ \A p \in Workers : Busy(p) => task[p].req \notin todo
  /\ \A s \in Shards : \A i \in 1..Len(ring[s]) : ring[s][i].req \notin todo
  /\ \A p \in Workers, s \in Shards : \A i \in 1..Len(ring[s]) :
       Busy(p) => task[p].req # ring[s][i].req
  /\ \A s, u \in Shards : \A i \in 1..Len(ring[s]), j \in 1..Len(ring[u]) :
       ring[s][i].req = ring[u][j].req => s = u /\ i = j

\* The ladders, which hold no order twice.
LadderInv ==
  /\ books \in [Symbols -> [Side -> Seq(Request)]]
  /\ \A sym \in Symbols, side \in Side :
       /\ Distinct(books[sym][side])
       /\ \A o \in Elems(books[sym][side]) : o.sym = sym /\ o.side = side

\* The index lists what is on the ladders.
IndexInv ==
  index = UNION {Elems(books[sym][side]) : sym \in Symbols, side \in Side}

\* What is on its way to a book is not on one.
NotYetOnBook ==
  /\ index \cap todo = {}
  /\ \A p \in Workers : Busy(p) => task[p].req \notin index
  /\ \A s \in Shards : \A i \in 1..Len(ring[s]) : ring[s][i].req \notin index

\* The invariant behind the index.
Inv == HeldInv /\ OnePlace /\ LadderInv /\ IndexInv /\ NotYetOnBook

-----------------------------------------------------------------------------
(* Ladders and the index                                                   *)

\* One ladder changes and the index follows it.
LEMMA LadderChanges ==
  ASSUME LadderInv, IndexInv,
         NEW sym \in Symbols, NEW side \in Side,
         NEW t \in Seq(Request), Distinct(t),
         \A o \in Elems(t) : o.sym = sym /\ o.side = side,
         books' = [books EXCEPT ![sym][side] = t],
         index' = (index \ Elems(books[sym][side])) \cup Elems(t)
  PROVE  LadderInv' /\ IndexInv'
<1> DEFINE old == books[sym][side]
<1>1. books' \in [Symbols -> [Side -> Seq(Request)]]
  BY DEF LadderInv
<1>2. ASSUME NEW y \in Symbols, NEW d \in Side
      PROVE  books'[y][d] = IF y = sym /\ d = side THEN t ELSE books[y][d]
  BY DEF LadderInv
<1>3. LadderInv'
  <2>1. ASSUME NEW y \in Symbols, NEW d \in Side
        PROVE  /\ Distinct(books'[y][d])
               /\ \A o \in Elems(books'[y][d]) : o.sym = y /\ o.side = d
    BY <1>2 DEF LadderInv
  <2> QED
    BY <1>1, <2>1 DEF LadderInv
<1>4. ASSUME NEW y \in Symbols, NEW d \in Side, ~(y = sym /\ d = side)
      PROVE  Elems(books[y][d]) \cap Elems(old) = {}
  <2>1. \A x \in Elems(old) : x.sym = sym /\ x.side = side
    BY DEF LadderInv
  <2>2. \A x \in Elems(books[y][d]) : x.sym = y /\ x.side = d
    BY DEF LadderInv
  <2> QED
    BY <1>4, <2>1, <2>2
<1>5. Elems(old) \subseteq index
  BY DEF IndexInv
<1>6. ASSUME NEW x \in index'
      PROVE  \E y \in Symbols, d \in Side : x \in Elems(books'[y][d])
  <2>1. CASE x \in Elems(t)
    BY <1>2, <2>1
  <2>2. CASE x \in index \ Elems(old)
    <3>1. PICK y \in Symbols, d \in Side : x \in Elems(books[y][d])
      BY <2>2 DEF IndexInv
    <3>2. ~(y = sym /\ d = side)
      BY <2>2, <3>1
    <3> QED
      BY <1>2, <3>1, <3>2
  <2> QED
    BY <2>1, <2>2
<1>7. ASSUME NEW y \in Symbols, NEW d \in Side, NEW x \in Elems(books'[y][d])
      PROVE  x \in index'
  <2>1. CASE y = sym /\ d = side
    BY <1>2, <1>7, <2>1
  <2>2. CASE ~(y = sym /\ d = side)
    <3>1. x \in Elems(books[y][d])
      BY <1>2, <1>7, <2>2
    <3>2. x \in index
      BY <3>1 DEF IndexInv
    <3> QED
      BY <1>4, <2>2, <3>1, <3>2
  <2> QED
    BY <2>1, <2>2
<1>8. IndexInv'
  BY <1>6, <1>7 DEF IndexInv
<1> QED
  BY <1>3, <1>8

\* An order leaves a ladder.
LEMMA OrderLeaves ==
  ASSUME LadderInv, IndexInv,
         NEW sym \in Symbols, NEW side \in Side,
         NEW t \in Seq(Request), Distinct(t),
         NEW o \in Elems(books[sym][side]),
         Elems(t) = Elems(books[sym][side]) \ {o},
         books' = [books EXCEPT ![sym][side] = t],
         index' = index \ {o}
  PROVE  LadderInv' /\ IndexInv'
<1>1. Elems(books[sym][side]) \subseteq index
  BY DEF IndexInv
<1>2. index' = (index \ Elems(books[sym][side])) \cup Elems(t)
  BY <1>1
<1>3. \A x \in Elems(t) : x.sym = sym /\ x.side = side
  BY DEF LadderInv
<1> QED
  BY <1>2, <1>3, LadderChanges

\* A ladder takes an order that was on none.
LEMMA OrderRests ==
  ASSUME LadderInv, IndexInv,
         NEW o \in Request, o \notin index,
         NEW t \in Seq(Request), Distinct(t),
         Elems(t) = Elems(books[o.sym][o.side]) \cup {o},
         books' = [books EXCEPT ![o.sym][o.side] = t],
         index' = index \cup {o}
  PROVE  LadderInv' /\ IndexInv'
<1> DEFINE sym == o.sym
           side == o.side
<1>1. sym \in Symbols /\ side \in Side
  BY DEF Request
<1>2. Elems(books[sym][side]) \subseteq index
  BY <1>1 DEF IndexInv
<1>3. index' = (index \ Elems(books[sym][side])) \cup Elems(t)
  BY <1>2
<1>4. \A x \in Elems(t) : x.sym = sym /\ x.side = side
  BY <1>1 DEF LadderInv
<1>5. books' = [books EXCEPT ![sym][side] = t]
  OBVIOUS
<1> HIDE DEF sym, side
<1> QED
  BY <1>1, <1>3, <1>4, <1>5, LadderChanges


-----------------------------------------------------------------------------
(* Where requests are                                                      *)

\* Neither the places nor the books change.
LEMMA NothingMoves ==
  ASSUME Inv, UNCHANGED <<todo, pc, task, ring, books, index>>
  PROVE  Inv'
<1>1. HeldInv' /\ OnePlace' /\ NotYetOnBook'
  BY DEF Inv, HeldInv, OnePlace, NotYetOnBook, Busy, Enters
<1>2. LadderInv' /\ IndexInv'
  BY DEF Inv, LadderInv, IndexInv
<1> QED
  BY <1>1, <1>2 DEF Inv

\* A worker goes on with its request, or is done with it.
LEMMA WorkerAdvances ==
  ASSUME HeldInv, OnePlace, NotYetOnBook,
         NEW p \in Workers, NEW x \in {"read", "idle", "book", "send"},
         pc' = [pc EXCEPT ![p] = x],
         x = "book" => pc[p] = "enter" /\ task[p].req.type = "new",
         UNCHANGED <<todo, task, ring>>,
         \/ index' \subseteq index
         \/ x = "send" /\ Busy(p) /\ index' \subseteq index \cup {task[p].req}
  PROVE  HeldInv' /\ OnePlace' /\ NotYetOnBook'
<1>1. \A q \in Workers : pc'[q] = IF q = p THEN x ELSE pc[q]
  BY DEF HeldInv
<1>2. \A q \in Workers : Busy(q)' => Busy(q) /\ (q = p => x = "book")
  BY <1>1 DEF Busy
<1>3. HeldInv'
  <2>1. pc' \in [Workers -> {"read", "idle", "aside", "enter", "book", "send"}]
    BY DEF HeldInv
  <2>2. \A q \in Workers : Busy(q)' => task'[q] \in Task
    BY <1>2 DEF HeldInv
  <2>3. \A q \in Workers : pc'[q] \in {"enter", "book"} => Enters(task'[q])
    BY <1>1 DEF HeldInv
  <2>4. \A q \in Workers : pc'[q] = "book" => task'[q].req.type = "new"
    BY <1>1 DEF HeldInv
  <2> QED
    BY <2>1, <2>2, <2>3, <2>4 DEF HeldInv, Enters
<1>4. OnePlace'
  BY <1>2 DEF OnePlace
<1>5. NotYetOnBook'
  <2>1. CASE index' \subseteq index
    BY <1>2, <2>1 DEF NotYetOnBook
  <2>2. CASE x = "send" /\ Busy(p) /\ index' \subseteq index \cup {task[p].req}
    <3>1. index' \cap todo' = {}
      BY <2>2 DEF NotYetOnBook, OnePlace
    <3>2. ASSUME NEW q \in Workers, Busy(q)' PROVE task'[q].req \notin index'
      <4>1. Busy(q) /\ q # p
        BY <1>2, <2>2, <3>2
      <4>2. task[q].req # task[p].req
        BY <2>2, <4>1 DEF OnePlace
      <4> QED
        BY <2>2, <4>1, <4>2 DEF NotYetOnBook
    <3>3. ASSUME NEW s \in Shards, NEW i \in 1..Len(ring[s])
          PROVE  ring[s][i].req \notin index'
      BY <2>2 DEF NotYetOnBook, OnePlace
    <3> QED
      BY <3>1, <3>2, <3>3 DEF NotYetOnBook
  <2> QED
    BY <2>1, <2>2
<1> QED
  BY <1>3, <1>4, <1>5

\* A connection reads a request; t is what it makes of it.
LEMMA RequestIsRead ==
  ASSUME HeldInv, OnePlace, NotYetOnBook,
         NEW p \in Workers, NEW r \in todo, NEW t \in Task,
         NEW x \in {"aside", "enter"},
         pc[p] = "read", t.req = r, x = "enter" => Enters(t),
         todo' = todo \ {r},
         pc' = [pc EXCEPT ![p] = x], task' = [task EXCEPT ![p] = t],
         UNCHANGED <<ring, index>>
  PROVE  HeldInv' /\ OnePlace' /\ NotYetOnBook'
<1>1. \A q \in Workers : /\ pc'[q] = IF q = p THEN x ELSE pc[q]
                         /\ task'[q] = IF q = p THEN t ELSE task[q]
  BY DEF HeldInv
<1>2. Busy(p)' /\ ~Busy(p) /\ \A q \in Workers \ {p} : Busy(q)' <=> Busy(q)
  BY <1>1 DEF Busy
<1>3. HeldInv'
  <2>1. pc' \in [Workers -> {"read", "idle", "aside", "enter", "book", "send"}]
    BY DEF HeldInv
  <2>2. \A q \in Workers : Busy(q)' => task'[q] \in Task
    BY <1>1, <1>2 DEF HeldInv
  <2>3. \A q \in Workers : pc'[q] \in {"enter", "book"} => Enters(task'[q])
    BY <1>1 DEF HeldInv
  <2>4. \A q \in Workers : pc'[q] = "book" => task'[q].req.type = "new"
    BY <1>1 DEF HeldInv
  <2> QED
    BY <2>1, <2>2, <2>3, <2>4 DEF HeldInv, Enters
<1>4. OnePlace'
  <2>1. ASSUME NEW q \in Workers, q # p, Busy(q)
        PROVE  task'[q].req = task[q].req /\ task[q].req # r
    BY <1>1, <2>1 DEF OnePlace
  <2>2. task'[p].req = r
    BY <1>1
  <2>3. \A q, w \in Workers :
          Busy(q)' /\ Busy(w)' /\ task'[q].req = task'[w].req => q = w
    BY <1>2, <2>1, <2>2 DEF OnePlace
  <2>4. \A q \in Workers : Busy(q)' => task'[q].req \notin todo'
    BY <1>2, <2>1, <2>2 DEF OnePlace
  <2>5. \A q \in Workers, s \in Shards : \A i \in 1..Len(ring[s]) :
          Busy(q)' => task'[q].req # ring[s][i].req
    BY <1>2, <2>1, <2>2 DEF OnePlace
  <2> QED
    BY <2>3, <2>4, <2>5 DEF OnePlace
<1>5. NotYetOnBook'
  <2>1. \A q \in Workers : Busy(q)' => task'[q].req \notin index
    BY <1>1, <1>2 DEF NotYetOnBook
  <2> QED
    BY <2>1 DEF NotYetOnBook
<1> QED
  BY <1>3, <1>4, <1>5

\* A request is read and thrown away.
LEMMA RequestIsDropped ==
  ASSUME HeldInv, OnePlace, NotYetOnBook, NEW r, todo' = todo \ {r},
         UNCHANGED <<pc, task, ring, index>>
  PROVE  HeldInv' /\ OnePlace' /\ NotYetOnBook'
BY DEF HeldInv, OnePlace, NotYetOnBook, Busy, Enters

\* A connection publishes its request to a ring.
LEMMA RequestIsPublished ==
  ASSUME HeldInv, OnePlace, NotYetOnBook,
         NEW p \in Workers, NEW u \in Shards, pc[p] = "enter",
         pc' = [pc EXCEPT ![p] = "read"],
         ring' = [ring EXCEPT ![u] = Append(@, task[p])],
         UNCHANGED <<todo, task, index>>
  PROVE  HeldInv' /\ OnePlace' /\ NotYetOnBook'
<1> DEFINE n == Len(ring[u]) + 1
<1>1. \A q \in Workers : Busy(q)' <=> Busy(q) /\ q # p
  BY DEF HeldInv, Busy
<1>2. Busy(p) /\ task[p] \in Task /\ Enters(task[p])
  BY DEF HeldInv, Busy
<1>3. ring' \in [Shards -> Seq(Task)]
  BY <1>2 DEF HeldInv
<1>4. /\ Len(ring'[u]) = n /\ ring'[u][n] = task[p] /\ n \in Nat
      /\ \A i \in 1..n - 1 : ring'[u][i] = ring[u][i]
  BY <1>2 DEF HeldInv
<1>5. \A s \in Shards \ {u} : ring'[s] = ring[s]
  BY DEF HeldInv
\* A place in a ring is the new one or was there before.
<1>6. ASSUME NEW s \in Shards, NEW i \in 1..Len(ring'[s])
      PROVE  \/ s = u /\ i = n /\ ring'[s][i] = task[p]
             \/ i \in 1..Len(ring[s]) /\ ring'[s][i] = ring[s][i] /\ ~(s = u /\ i = n)
  BY <1>4, <1>5
<1>7. HeldInv'
  <2>1. pc' \in [Workers -> {"read", "idle", "aside", "enter", "book", "send"}]
    BY DEF HeldInv
  <2>2. \A q \in Workers : pc'[q] = IF q = p THEN "read" ELSE pc[q]
    BY DEF HeldInv
  <2>3. /\ \A q \in Workers : Busy(q)' => task'[q] \in Task
        /\ \A q \in Workers : pc'[q] \in {"enter", "book"} => Enters(task'[q])
        /\ \A q \in Workers : pc'[q] = "book" => task'[q].req.type = "new"
    BY <1>1, <2>2 DEF HeldInv
  <2>4. \A s \in Shards : \A i \in 1..Len(ring'[s]) : Enters(ring'[s][i])
    BY <1>2, <1>6 DEF HeldInv
  <2> QED
    BY <1>3, <2>1, <2>3, <2>4 DEF HeldInv, Enters
<1>8. OnePlace'
  <2>1. \A q, w \in Workers :
          Busy(q)' /\ Busy(w)' /\ task'[q].req = task'[w].req => q = w
    BY <1>1 DEF OnePlace
  <2>2. \A q \in Workers : Busy(q)' => task'[q].req \notin todo'
    BY <1>1 DEF OnePlace
  <2>3. \A s \in Shards : \A i \in 1..Len(ring'[s]) : ring'[s][i].req \notin todo'
    BY <1>2, <1>6 DEF OnePlace
  <2>4. ASSUME NEW q \in Workers, NEW s \in Shards, NEW i \in 1..Len(ring'[s]),
               Busy(q)'
        PROVE  task'[q].req # ring'[s][i].req
    BY <1>1, <1>2, <1>6, <2>4 DEF OnePlace
  <2>5. ASSUME NEW s \in Shards, NEW w \in Shards,
               NEW i \in 1..Len(ring'[s]), NEW j \in 1..Len(ring'[w]),
               ring'[s][i].req = ring'[w][j].req
        PROVE  s = w /\ i = j
    <3>1. CASE s = u /\ i = n
      BY <1>2, <1>6, <2>5, <3>1 DEF OnePlace
    <3>2. CASE w = u /\ j = n
      BY <1>2, <1>6, <2>5, <3>2 DEF OnePlace
    <3>3. CASE ~(s = u /\ i = n) /\ ~(w = u /\ j = n)
      BY <1>6, <2>5, <3>3 DEF OnePlace
    <3> QED
      BY <3>1, <3>2, <3>3
  <2> QED
    BY <2>1, <2>2, <2>3, <2>4, <2>5 DEF OnePlace
<1>9. NotYetOnBook'
  <2>1. \A s \in Shards : \A i \in 1..Len(ring'[s]) : ring'[s][i].req \notin index
    BY <1>2, <1>6 DEF NotYetOnBook
  <2> QED
    BY <1>1, <2>1 DEF NotYetOnBook
<1> QED
  BY <1>7, <1>8, <1>9

\* A matcher takes the first request of its ring.
LEMMA RequestIsConsumed ==
  ASSUME HeldInv, OnePlace, NotYetOnBook,
         NEW u \in Shards, u \in Workers, pc[u] = "idle", ring[u] # <<>>,
         NEW x \in {"aside", "enter"},
         pc' = [pc EXCEPT ![u] = x],
         task' = [task EXCEPT ![u] = Head(ring[u])],
         ring' = [ring EXCEPT ![u] = Tail(@)],
         UNCHANGED <<todo, index>>
  PROVE  HeldInv' /\ OnePlace' /\ NotYetOnBook'
<1> DEFINE t == ring[u][1]
<1>1. /\ ring[u] \in Seq(Task) /\ Len(ring[u]) \in Nat /\ Len(ring[u]) > 0
      /\ Head(ring[u]) = t /\ t \in Task /\ Enters(t) /\ 1 \in 1..Len(ring[u])
  BY DEF HeldInv
<1>2. \A q \in Workers : /\ pc'[q] = IF q = u THEN x ELSE pc[q]
                         /\ task'[q] = IF q = u THEN t ELSE task[q]
  BY <1>1 DEF HeldInv
<1>3. Busy(u)' /\ ~Busy(u) /\ \A q \in Workers \ {u} : Busy(q)' <=> Busy(q)
  BY <1>2 DEF Busy
<1>4. ring' \in [Shards -> Seq(Task)]
  BY <1>1 DEF HeldInv
<1>5. /\ Len(ring'[u]) = Len(ring[u]) - 1
      /\ \A i \in 1..Len(ring[u]) - 1 : ring'[u][i] = ring[u][i + 1]
  BY <1>1 DEF HeldInv
<1>6. \A s \in Shards \ {u} : ring'[s] = ring[s]
  BY DEF HeldInv
\* Every other place keeps its request.
<1> DEFINE from(s, i) == IF s = u THEN i + 1 ELSE i
<1>7. ASSUME NEW s \in Shards, NEW i \in 1..Len(ring'[s])
      PROVE  /\ from(s, i) \in 1..Len(ring[s])
             /\ ring'[s][i] = ring[s][from(s, i)]
             /\ ~(s = u /\ from(s, i) = 1)
  BY <1>1, <1>5, <1>6
<1> HIDE DEF from
<1>8. HeldInv'
  <2>1. pc' \in [Workers -> {"read", "idle", "aside", "enter", "book", "send"}]
        /\ DOMAIN task' = Workers
    BY DEF HeldInv
  <2>2. \A q \in Workers : Busy(q)' => task'[q] \in Task
    BY <1>1, <1>2, <1>3 DEF HeldInv
  <2>3. \A q \in Workers : pc'[q] \in {"enter", "book"} => Enters(task'[q])
    BY <1>1, <1>2 DEF HeldInv
  <2>4. \A q \in Workers : pc'[q] = "book" => task'[q].req.type = "new"
    BY <1>2 DEF HeldInv
  <2>5. \A s \in Shards : \A i \in 1..Len(ring'[s]) : Enters(ring'[s][i])
    BY <1>7 DEF HeldInv
  <2> QED
    BY <1>4, <2>1, <2>2, <2>3, <2>4, <2>5 DEF HeldInv, Enters
<1>9. OnePlace'
  <2>1. ASSUME NEW q \in Workers, q # u, Busy(q)
        PROVE  task'[q].req = task[q].req /\ task[q].req # t.req
    BY <1>1, <1>2, <2>1 DEF OnePlace
  <2>2. task'[u].req = t.req /\ t.req \notin todo
    BY <1>1, <1>2 DEF OnePlace
  <2>3. \A q, w \in Workers :
          Busy(q)' /\ Busy(w)' /\ task'[q].req = task'[w].req => q = w
    BY <1>3, <2>1, <2>2 DEF OnePlace
  <2>4. \A q \in Workers : Busy(q)' => task'[q].req \notin todo'
    BY <1>3, <2>1, <2>2 DEF OnePlace
  <2>5. \A s \in Shards : \A i \in 1..Len(ring'[s]) : ring'[s][i].req \notin todo'
    BY <1>7 DEF OnePlace
  <2>6. ASSUME NEW q \in Workers, NEW s \in Shards, NEW i \in 1..Len(ring'[s]),
               Busy(q)'
        PROVE  task'[q].req # ring'[s][i].req
    <3>1. CASE q = u
      BY <1>1, <1>7, <2>2, <3>1 DEF OnePlace
    <3>2. CASE q # u
      BY <1>3, <1>7, <2>1, <2>6, <3>2 DEF OnePlace
    <3> QED
      BY <3>1, <3>2
  <2>7. ASSUME NEW s \in Shards, NEW w \in Shards,
               NEW i \in 1..Len(ring'[s]), NEW j \in 1..Len(ring'[w]),
               ring'[s][i].req = ring'[w][j].req
        PROVE  s = w /\ i = j
    <3>1. s = w /\ from(s, i) = from(w, j)
      BY <1>7, <2>7 DEF OnePlace
    <3> QED
      BY <3>1 DEF from
  <2> QED
    BY <2>3, <2>4, <2>5, <2>6, <2>7 DEF OnePlace
<1>10. NotYetOnBook'
  <2>1. \A q \in Workers : Busy(q)' => task'[q].req \notin index
    BY <1>1, <1>2, <1>3 DEF NotYetOnBook
  <2>2. \A s \in Shards : \A i \in 1..Len(ring'[s]) : ring'[s][i].req \notin index
    BY <1>7 DEF NotYetOnBook
  <2> QED
    BY <2>1, <2>2 DEF NotYetOnBook
<1> QED
  BY <1>8, <1>9, <1>10

-----------------------------------------------------------------------------
(* The actions                                                             *)

\* Nothing has been read and the books are empty.
LEMMA InitInv ==
  Init => Inv
<1> SUFFICES ASSUME Init PROVE Inv
  OBVIOUS
<1>1. todo \subseteq Request
  <2>1. PICK load \in Loads : todo = load.reqs
    BY DEF Init
  <2> QED
    BY <2>1, RequestsAssumption DEF Requests
<1>2. \A p \in Workers : pc[p] \in {"read", "idle"} /\ ~Busy(p)
  BY DEF Init, Busy
<1>3. \A s \in Shards : Len(ring[s]) = 0
  BY DEF Init
<1>4. HeldInv
  <2>1. ring \in [Shards -> Seq(Task)]
    BY DEF Init
  <2>2. pc \in [Workers -> {"read", "idle", "aside", "enter", "book", "send"}]
    BY DEF Init
  <2>3. DOMAIN task = Workers
    BY DEF Init
  <2> QED
    BY <1>1, <1>2, <1>3, <2>1, <2>2, <2>3 DEF HeldInv
<1>5. OnePlace
  BY <1>2, <1>3 DEF OnePlace
<1>6. \A sym \in Symbols, side \in Side :
        books[sym][side] = <<>> /\ Elems(books[sym][side]) = {}
  BY DEF Init, Elems
<1>7. LadderInv
  <2>1. books \in [Symbols -> [Side -> Seq(Request)]]
    BY DEF Init
  <2>2. \A sym \in Symbols, side \in Side : Distinct(books[sym][side])
    BY <1>6 DEF Distinct
  <2> QED
    BY <1>6, <2>1, <2>2 DEF LadderInv
<1>8. IndexInv
  BY <1>6 DEF Init, IndexInv
<1>9. NotYetOnBook
  BY <1>2, <1>3 DEF Init, NotYetOnBook
<1> QED
  BY <1>4, <1>5, <1>7, <1>8, <1>9 DEF Inv

\* A turn of a matching loop: a maker that is used up leaves its ladder and the
\* index together.
LEMMA TradeInv ==
  ASSUME Inv, NEW p \in Workers, Trade(p)
  PROVE  Inv'
<1> DEFINE a == task[p].ord
           side == Opposite(a.side)
           r == Head(Ladder(p))
<1>1. pc[p] = "book" /\ Ladder(p) # <<>>
  BY DEF Trade, CanTrade
<1>2. a \in Request /\ a.sym \in Symbols /\ side \in Side
  BY <1>1 DEF Inv, HeldInv, Enters, Request, Opposite, Side
<1>3. UNCHANGED <<todo, pc, task, ring>>
  BY DEF Trade, sendVars
<1>4. CASE UNCHANGED <<books, index>>
  BY <1>3, <1>4, NothingMoves
<1>5. CASE /\ books' = [books EXCEPT ![a.sym][r.side] = Tail(@)]
           /\ index' = index \ {r}
  <2> DEFINE s == books[a.sym][side]
  <2>1. s \in Seq(Request) /\ Distinct(s) /\ s # <<>> /\ r = Head(s)
    BY <1>1, <1>2 DEF Inv, LadderInv, Ladder
  <2>2. /\ Tail(s) \in Seq(Request) /\ Distinct(Tail(s))
        /\ Elems(Tail(s)) = Elems(s) \ {r} /\ r \in Elems(s)
    BY <2>1, TailElems
  <2>3. r.side = side
    BY <1>2, <2>2 DEF Inv, LadderInv
  <2>4. books' = [books EXCEPT ![a.sym][side] = Tail(s)]
    BY <1>5, <2>3
  <2> HIDE DEF a, side, r, s
  <2>5. LadderInv /\ IndexInv
    BY DEF Inv
  <2>6. LadderInv' /\ IndexInv'
    BY <1>2, <1>5, <2>2, <2>4, <2>5, OrderLeaves DEF s
  <2>7. HeldInv' /\ OnePlace'
    BY <1>3 DEF Inv, HeldInv, OnePlace, Busy, Enters
  <2>8. NotYetOnBook'
    BY <1>3, <1>5 DEF Inv, NotYetOnBook, Busy
  <2> QED
    BY <2>6, <2>7, <2>8 DEF Inv
<1> QED
  BY <1>4, <1>5 DEF Trade

\* What is left of an order goes on its ladder and into the index together.
LEMMA RestResidualInv ==
  ASSUME Inv, NEW p \in Workers, NEW mayRest, RestResidual(p, mayRest)
  PROVE  Inv'
<1> DEFINE o == task[p].ord
<1>1. pc[p] = "book" /\ Busy(p)
  BY DEF RestResidual, Busy
<1>2. o \in Request /\ o = task[p].req /\ o \notin index
      /\ o.sym \in Symbols /\ o.side \in Side
  BY <1>1 DEF Inv, HeldInv, NotYetOnBook, Enters, Request
<1>3. pc' = [pc EXCEPT ![p] = "send"] /\ UNCHANGED <<todo, task, ring>>
  BY DEF RestResidual, sendVars
<1>4. ASSUME index' \subseteq index \cup {o}
      PROVE  HeldInv' /\ OnePlace' /\ NotYetOnBook'
  <2>1. index' \subseteq index \cup {task[p].req}
    BY <1>2, <1>4
  <2> QED
    BY <1>1, <1>3, <2>1, WorkerAdvances DEF Inv
<1>5. CASE UNCHANGED <<books, index>>
  <2>1. LadderInv' /\ IndexInv'
    BY <1>5 DEF Inv, LadderInv, IndexInv
  <2> QED
    BY <1>4, <1>5, <2>1 DEF Inv
<1>6. CASE /\ books' = [books EXCEPT ![o.sym][o.side] = insertSorted(@, o)]
           /\ index' = index \cup {o}
  <2> DEFINE s == books[o.sym][o.side]
             holds == [i \in DOMAIN s |-> orderBefore(o, s[i])]
             S == {holds[i] : i \in DOMAIN s}
             t == InsertAt(s, Search(holds), o)
  <2>1. s \in Seq(Request) /\ Distinct(s) /\ Elems(s) \subseteq index
    BY <1>2 DEF Inv, LadderInv, IndexInv
  <2>2. Len(s) \in Nat /\ DOMAIN s = 1..Len(s)
    BY <2>1
  <2>3. holds \in [1..Len(s) -> S]
    BY <2>2
  <2>4. t = insertSorted(s, o)
    BY DEF insertSorted
  <2> HIDE DEF holds, S
  <2>5. Search(holds) \in 1..Len(s) + 1
    BY <2>2, <2>3, SearchFinds
  <2>6. /\ t \in Seq(Request) /\ Distinct(t)
        /\ Elems(t) = Elems(s) \cup {o}
    BY <1>2, <2>1, <2>5, InsertAtElems
  <2>7. books' = [books EXCEPT ![o.sym][o.side] = t]
    BY <1>6, <2>4
  <2>8. LadderInv /\ IndexInv
    BY DEF Inv
  <2> HIDE DEF t, o
  <2>9. LadderInv' /\ IndexInv'
    BY <1>2, <1>6, <2>6, <2>7, <2>8, OrderRests
  <2> QED
    BY <1>4, <1>6, <2>9 DEF Inv
<1> QED
  BY <1>5, <1>6 DEF RestResidual

\* A cancel takes its order off the ladder and out of the index together, or finds
\* it gone and changes neither.
LEMMA RemoveOrderInv ==
  ASSUME Inv, NEW p \in Workers, NEW known, pc[p] = "enter",
         RemoveOrder(p, task[p].ord, known)
  PROVE  Inv'
<1> DEFINE o == task[p].ord
           s == books[o.sym][o.side]
           i == Position(s, o)
<1>1. o \in Request /\ o.sym \in Symbols /\ o.side \in Side
  BY DEF Inv, HeldInv, Enters, Request
<1>2. pc' = [pc EXCEPT ![p] = "send"] /\ UNCHANGED <<todo, task, ring>>
  BY DEF RemoveOrder, sendVars
<1>3. ASSUME index' \subseteq index PROVE HeldInv' /\ OnePlace' /\ NotYetOnBook'
  BY <1>2, <1>3, WorkerAdvances DEF Inv
<1>4. CASE UNCHANGED <<books, index>>
  <2>1. LadderInv' /\ IndexInv'
    BY <1>4 DEF Inv, LadderInv, IndexInv
  <2> QED
    BY <1>3, <1>4, <2>1 DEF Inv
<1>5. CASE /\ RestsAt(s, i, o)
           /\ books' = [books EXCEPT ![o.sym][o.side] = RemoveAt(@, i)]
           /\ index' = index \ {o}
  <2> DEFINE holds == [j \in DOMAIN s |-> ~orderBefore(s[j], o)]
             S == {holds[j] : j \in DOMAIN s}
             t == RemoveAt(s, i)
  <2>1. s \in Seq(Request) /\ Distinct(s)
    BY <1>1 DEF Inv, LadderInv
  <2>2. Len(s) \in Nat /\ DOMAIN s = 1..Len(s)
    BY <2>1
  <2>3. holds \in [1..Len(s) -> S]
    BY <2>2
  <2>4. i = Search(holds)
    BY DEF Position
  <2> HIDE DEF holds, S
  <2>5. Search(holds) \in 1..Len(s) + 1
    BY <2>2, <2>3, SearchFinds
  <2>6. i \in 1..Len(s) /\ s[i] = o
    BY <1>5, <2>2, <2>4, <2>5 DEF RestsAt
  <2>7. books' = [books EXCEPT ![o.sym][o.side] = t]
    BY <1>5
  <2> HIDE DEF i
  <2>8. /\ t \in Seq(Request) /\ Distinct(t)
        /\ Elems(t) = Elems(s) \ {o} /\ o \in Elems(s)
    <3>1. o \in Elems(s)
      BY <2>6 DEF Elems
    <3> HIDE DEF s, o
    <3>2. /\ RemoveAt(s, i) \in Seq(Request) /\ Distinct(RemoveAt(s, i))
          /\ Elems(RemoveAt(s, i)) = Elems(s) \ {s[i]}
      BY <2>1, <2>6, RemoveAtElems
    <3> QED
      BY <2>6, <3>1, <3>2
  <2>9. LadderInv /\ IndexInv
    BY DEF Inv
  <2> HIDE DEF t, o, s
  <2>10. LadderInv' /\ IndexInv'
    BY <1>1, <1>5, <2>7, <2>8, <2>9, OrderLeaves DEF s
  <2> QED
    BY <1>3, <1>5, <2>10 DEF Inv
<1> QED
  BY <1>4, <1>5 DEF RemoveOrder

\* A connection reads a request.
LEMMA ReadInv ==
  ASSUME Inv, NEW p \in Conns, NEW r \in todo, ws(p, r) \/ orders(p, r)
  PROVE  Inv'
<1>1. /\ pc[p] = "read" /\ todo' = todo \ {r}
      /\ UNCHANGED <<ring, books, index>>
  BY DEF ws, orders, Take, engineVars, sendVars
<1>2. p \in Workers /\ r \in Request
  BY DEF Workers, Inv, HeldInv
<1>3. LadderInv' /\ IndexInv'
  BY <1>1 DEF Inv, LadderInv, IndexInv
<1>4. CASE UNCHANGED <<pc, task>>
  BY <1>1, <1>3, <1>4, RequestIsDropped DEF Inv
<1>5. ASSUME NEW t \in Task, NEW x \in {"aside", "enter"}, t.req = r,
             x = "enter" => Enters(t),
             pc' = [pc EXCEPT ![p] = x], task' = [task EXCEPT ![p] = t]
      PROVE  Inv'
  BY <1>1, <1>2, <1>3, <1>5, RequestIsRead DEF Inv
<1>6. ASSUME NEW o \in Request \cup {None},
             NEW x \in {"aside", "enter"},
             x = "enter" => o \in Request /\ (r.type = "new" => o = r),
             pc' = [pc EXCEPT ![p] = x],
             task' = [task EXCEPT ![p] = [req |-> r, ord |-> o]]
      PROVE  Inv'
  <2> DEFINE t == [req |-> r, ord |-> o]
  <2>1. t \in Task /\ t.req = r /\ t.ord = o
    BY <1>2 DEF Task
  <2>2. x = "enter" => Enters(t)
    BY <1>6, <2>1 DEF Enters
  <2>3. task' = [task EXCEPT ![p] = t]
    BY <1>6
  <2> HIDE DEF t
  <2> QED
    BY <1>5, <1>6, <2>1, <2>2, <2>3
<1>7. index \subseteq Request
  BY DEF Inv, IndexInv, LadderInv, Elems
<1>8. CASE Dispatch(p, r)
  <2>1. CASE /\ pc' = [pc EXCEPT ![p] = "aside"]
             /\ task' = [task EXCEPT ![p] = [req |-> r, ord |-> None]]
    BY <1>6, <2>1
  <2>2. CASE /\ pc' = [pc EXCEPT ![p] = "enter"]
             /\ task' = [task EXCEPT ![p] = [req |-> r, ord |-> r]]
    BY <1>2, <1>6, <2>2
  <2>3. CASE /\ r.type = "cancel" /\ pc' = [pc EXCEPT ![p] = "enter"]
             /\ \E o \in Resting(r.orig) :
                  task' = [task EXCEPT ![p] = [req |-> r, ord |-> o]]
    <3>1. PICK o \in Resting(r.orig) :
            task' = [task EXCEPT ![p] = [req |-> r, ord |-> o]]
      BY <2>3
    <3>2. o \in Request /\ r.type # "new"
      BY <1>7, <2>3 DEF Resting
    <3> QED
      BY <1>6, <2>3, <3>1, <3>2
  <2> QED
    BY <1>8, <2>1, <2>2, <2>3 DEF Dispatch
<1> QED
  BY <1>4, <1>8 DEF ws, orders

\* disruptor.go, publish: the request moves from its connection to the ring of the
\* shard of its symbol.
LEMMA PublishInv ==
  ASSUME Inv, NEW p \in Conns, Publish(p)
  PROVE  Inv'
<1> DEFINE u == ShardOf[task[p].ord.sym]
<1>1. /\ pc[p] = "enter" /\ pc' = [pc EXCEPT ![p] = "read"]
      /\ ring' = [ring EXCEPT ![u] = Append(@, task[p])]
      /\ UNCHANGED <<todo, task, books, index>>
  BY DEF Publish, engineVars
<1>2. p \in Workers
  BY DEF Workers
<1>3. u \in Shards
  BY <1>1, <1>2, ShardsAssumption DEF Inv, HeldInv, Enters, Request
<1>4. LadderInv' /\ IndexInv'
  BY <1>1 DEF Inv, LadderInv, IndexInv
<1> HIDE DEF u
<1>5. HeldInv' /\ OnePlace' /\ NotYetOnBook'
  BY <1>1, <1>2, <1>3, RequestIsPublished DEF Inv
<1> QED
  BY <1>4, <1>5 DEF Inv

\* The matcher's loop: the request moves from the ring to the matcher.
LEMMA ConsumeInv ==
  ASSUME Inv, NEW s \in Shards, Consume(s)
  PROVE  Inv'
<1>1. PICK x \in {"aside", "enter"} : pc' = [pc EXCEPT ![s] = x]
  BY DEF Consume
<1>2. /\ pc[s] = "idle" /\ ring[s] # <<>>
      /\ task' = [task EXCEPT ![s] = Head(ring[s])]
      /\ ring' = [ring EXCEPT ![s] = Tail(@)]
      /\ UNCHANGED <<todo, books, index>>
  BY DEF Consume, engineVars
<1>3. s \in Workers
  BY DEF Workers
<1>4. LadderInv' /\ IndexInv'
  BY <1>2 DEF Inv, LadderInv, IndexInv
<1>5. HeldInv' /\ OnePlace' /\ NotYetOnBook'
  BY <1>1, <1>2, <1>3, RequestIsConsumed DEF Inv
<1> QED
  BY <1>4, <1>5 DEF Inv

\* Steps of a worker that leave the books alone.
LEMMA QuietInv ==
  ASSUME Inv, NEW p \in Workers, NEW x \in {"read", "idle", "book", "send"},
         pc' = [pc EXCEPT ![p] = x],
         x = "book" => pc[p] = "enter" /\ task[p].req.type = "new",
         UNCHANGED <<todo, task, ring, books, index>>
  PROVE  Inv'
<1>1. LadderInv' /\ IndexInv'
  BY DEF Inv, LadderInv, IndexInv
<1>2. HeldInv' /\ OnePlace' /\ NotYetOnBook'
  BY WorkerAdvances DEF Inv
<1> QED
  BY <1>1, <1>2 DEF Inv

\* Every step of a goroutine that holds a request.
LEMMA HandleInv ==
  ASSUME Inv, NEW p \in Workers, Handle(p)
  PROVE  Inv'
<1>1. CASE Aside(p)
  <2>1. pc' = [pc EXCEPT ![p] = "send"] /\ UNCHANGED <<todo, task, ring, books, index>>
    BY <1>1 DEF Aside, sendVars
  <2> QED
    BY <2>1, QuietInv
<1>2. ASSUME pc[p] = "enter", task[p].req.type = "new", Accept(p) PROVE Inv'
  <2>1. pc' = [pc EXCEPT ![p] = "book"] /\ UNCHANGED <<todo, task, ring, books, index>>
    BY <1>2 DEF Accept, sendVars
  <2> QED
    BY <1>2, <2>1, QuietInv
<1>3. CASE ProcessNew(p)
  BY <1>2, <1>3, TradeInv DEF ProcessNew, HasLock
<1>4. CASE RestOrReject(p)
  <2> DEFINE mayRest == Len(books[task[p].ord.sym][task[p].ord.side]) < MaxResting
  <2>1. RestResidual(p, mayRest)
    BY <1>4 DEF RestOrReject
  <2> HIDE DEF mayRest
  <2> QED
    BY <2>1, RestResidualInv
<1>5. CASE ProcessCancel(p)
  BY <1>5, RemoveOrderInv DEF ProcessCancel, HasLock
<1>6. CASE processNew(p)
  BY <1>2, <1>6, RestResidualInv DEF processNew
<1>7. CASE shardMatch(p)
  BY <1>7, TradeInv DEF shardMatch
<1>8. CASE processCancel(p)
  <2> DEFINE known == Resting(task[p].req.orig) # {}
  <2>1. pc[p] = "enter" /\ RemoveOrder(p, task[p].ord, known)
    BY <1>8 DEF processCancel
  <2> HIDE DEF known
  <2> QED
    BY <2>1, RemoveOrderInv
<1>9. ASSUME HandedOver(p), UNCHANGED <<todo, task, ring, books, index>> PROVE Inv'
  <2>1. PICK x \in {"read", "idle", "send"} : pc' = [pc EXCEPT ![p] = x]
    BY <1>9 DEF HandedOver
  <2> QED
    BY <1>9, <2>1, QuietInv
<1>10. CASE SendJSON(p)
  BY <1>9, <1>10 DEF SendJSON, engineVars, sendVars
<1>11. CASE SendOut(p)
  BY <1>9, <1>11 DEF SendOut, engineVars
<1> QED
  BY <1>1, <1>3, <1>4, <1>5, <1>6, <1>7, <1>8, <1>10, <1>11 DEF Handle

\* Every step of the engine.
LEMMA StepInv ==
  Inv /\ [Next]_vars => Inv'
<1> SUFFICES ASSUME Inv, [Next]_vars PROVE Inv'
  OBVIOUS
<1>1. CASE UNCHANGED vars
  BY <1>1, NothingMoves DEF vars, engineVars, sendVars
<1>2. ASSUME NEW p \in Conns, NEW r \in todo, ws(p, r) \/ orders(p, r) PROVE Inv'
  BY <1>2, ReadInv
<1>3. ASSUME NEW p \in Conns, Publish(p) PROVE Inv'
  BY <1>3, PublishInv
<1>4. ASSUME NEW s \in Shards, Consume(s) PROVE Inv'
  BY <1>4, ConsumeInv
<1>5. ASSUME NEW p \in Workers, Handle(p) PROVE Inv'
  BY <1>5, HandleInv
<1>6. ASSUME NEW i \in DOMAIN out, outputLoop(i) PROVE Inv'
  <2>1. UNCHANGED <<todo, pc, task, ring, books, index>>
    BY <1>6 DEF outputLoop, engineVars
  <2> QED
    BY <2>1, NothingMoves
<1>7. ASSUME NEW c \in Clients, writeLoop(c) \/ Stall(c) \/ Reap(c) PROVE Inv'
  <2>1. UNCHANGED <<todo, pc, task, ring, books, index>>
    BY <1>7 DEF writeLoop, Stall, Reap, engineVars, sendVars
  <2> QED
    BY <2>1, NothingMoves
<1> QED
  BY <1>1, <1>2, <1>3, <1>4, <1>5, <1>6, <1>7 DEF Next

\* The invariant holds of every behaviour of both engines.
THEOREM InvHolds ==
  Spec => []Inv
<1> QED
  BY InitInv, StepInv, PTL DEF Spec

\* The index and the ladders name the same orders.
LEMMA InvIsExact ==
  Inv => IndexIsExact
<1> SUFFICES ASSUME Inv PROVE IndexIsExact
  OBVIOUS
<1>1. ASSUME NEW sym \in Symbols, NEW side \in Side
      PROVE  ToSet(books[sym][side]) = Elems(books[sym][side])
  <2>1. books[sym][side] \in Seq(Request)
    BY DEF Inv, LadderInv
  <2>2. DOMAIN books[sym][side] = 1..Len(books[sym][side])
    BY <2>1
  <2> QED
    BY <2>2 DEF ToSet, Elems
<1>2. ASSUME NEW o \in index
      PROVE  \E e \in EngineBook : e[1] = o.id
  <2>1. PICK sym \in Symbols, side \in Side : o \in Elems(books[sym][side])
    BY DEF Inv, IndexInv
  <2>2. <<o.id, left[o.id]>> \in EngineBook
    <3> DEFINE onLadder(y, d) ==
                 {<<q.id, left[q.id]>> : q \in ToSet(books[y][d])}
    <3>1. <<o.id, left[o.id]>> \in onLadder(sym, side)
      BY <1>1, <2>1
    <3>2. EngineBook = UNION {onLadder(y, d) : y \in Symbols, d \in Side}
      BY DEF EngineBook
    <3> HIDE DEF onLadder
    <3> QED
      BY <3>1, <3>2
  <2> QED
    BY <2>2
<1>3. ASSUME NEW e \in EngineBook
      PROVE  \E o \in index : e[1] = o.id
  <2>1. PICK sym \in Symbols, side \in Side :
          \E o \in ToSet(books[sym][side]) : e = <<o.id, left[o.id]>>
    BY DEF EngineBook
  <2>2. PICK o \in Elems(books[sym][side]) : e = <<o.id, left[o.id]>>
    BY <1>1, <2>1
  <2>3. o \in index
    BY <2>2 DEF Inv, IndexInv
  <2> QED
    BY <2>2, <2>3
<1> QED
  BY <1>2, <1>3 DEF IndexIsExact

\* Whatever matchers, connections and cancels do in whatever order, the index holds
\* exactly the orders that rest.
THEOREM IndexHoldsWhatRests ==
  Spec => []IndexIsExact
<1> QED
  BY InvHolds, InvIsExact, PTL

-----------------------------------------------------------------------------
(* What steps do                                                           *)

\* What Inv says of types.
LEMMA InvTypes ==
  ASSUME Inv
  PROVE  /\ todo \subseteq Request /\ index \subseteq Request
         /\ pc \in [Workers -> {"read", "idle", "aside", "enter", "book", "send"}]
         /\ ring \in [Shards -> Seq(Task)]
         /\ books \in [Symbols -> [Side -> Seq(Request)]]
BY DEF Inv, HeldInv, LadderInv, IndexInv, Elems

\* A connection takes a request up, or throws it away (/orders).
LEMMA ReadCases ==
  ASSUME Inv, NEW p \in Conns, NEW r \in todo, ws(p, r) \/ orders(p, r)
  PROVE  /\ p \in Workers /\ pc[p] = "read" /\ r \in Request /\ r.from = p
         /\ todo' = todo \ {r}
         /\ UNCHANGED <<kind, flaky, pend, engineVars, sendVars, peer, got>>
         /\ \/ UNCHANGED <<pc, task>>
            \/ \E x \in {"aside", "enter"}, o \in Request \cup {None} :
                 /\ pc' = [pc EXCEPT ![p] = x]
                 /\ task' = [task EXCEPT ![p] = [req |-> r, ord |-> o]]
                 /\ x = "enter" => o \in Request
                 /\ x = "enter" /\ r.type = "new" =>
                      o = r /\ (kind = "mutex" => r.qty > 0)
                 /\ x = "enter" /\ r.type = "cancel" => o.id = r.orig
                 /\ x = "enter" => o = r \/ o \in index
                 /\ kind = "disruptor" => p \in Clients
<1>1. /\ pc[p] = "read" /\ r.from = p /\ todo' = todo \ {r}
      /\ UNCHANGED <<kind, flaky, pend, engineVars, sendVars, peer, got>>
  BY DEF ws, orders, Take
<1>2. p \in Workers /\ r \in Request /\ index \subseteq Request
  BY DEF Workers, Inv, HeldInv, IndexInv, LadderInv, Elems
<1>3. CASE Dispatch(p, r) /\ (kind = "disruptor" => p \in Clients)
  <2>1. CASE /\ pc' = [pc EXCEPT ![p] = "aside"]
             /\ task' = [task EXCEPT ![p] = [req |-> r, ord |-> None]]
    BY <1>1, <1>2, <1>3, <2>1
  <2>2. CASE /\ r.type = "new" /\ ~RefusedEarly(r)
             /\ pc' = [pc EXCEPT ![p] = "enter"]
             /\ task' = [task EXCEPT ![p] = [req |-> r, ord |-> r]]
    <3>1. kind = "mutex" => r.qty > 0
      BY <1>2, <2>2 DEF RefusedEarly, Invalid, Request
    <3> QED
      BY <1>1, <1>2, <1>3, <2>2, <3>1
  <2>3. CASE /\ r.type = "cancel" /\ pc' = [pc EXCEPT ![p] = "enter"]
             /\ \E o \in Resting(r.orig) :
                  task' = [task EXCEPT ![p] = [req |-> r, ord |-> o]]
    <3>1. PICK o \in Resting(r.orig) :
            task' = [task EXCEPT ![p] = [req |-> r, ord |-> o]]
      BY <2>3
    <3>2. o \in Request /\ r.type # "new" /\ o.id = r.orig /\ o \in index
      BY <1>2, <2>3 DEF Resting
    <3> QED
      BY <1>1, <1>2, <1>3, <2>3, <3>1, <3>2
  <2> QED
    BY <1>3, <2>1, <2>2, <2>3 DEF Dispatch
<1>4. CASE UNCHANGED <<pc, task>>
  BY <1>1, <1>2, <1>4
<1> QED
  BY <1>3, <1>4 DEF ws, orders

\* The steps of a goroutine that handles a request, whichever engine runs.
LEMMA HandleCases ==
  ASSUME Inv, NEW p \in Workers, Handle(p)
  PROVE  \/ Aside(p)
         \/ /\ pc[p] = "enter" /\ task[p].req.type = "new" /\ Accept(p)
            /\ HasLock(p) \/ p \in Shards
         \/ Trade(p)
         \/ \E mayRest \in BOOLEAN : RestResidual(p, mayRest)
         \/ \E known \in BOOLEAN :
              /\ pc[p] = "enter" /\ task[p].req.type = "cancel"
              /\ RemoveOrder(p, task[p].ord, known)
              /\ HasLock(p) \/ p \in Shards
              /\ p \in Shards => known = (Resting(task[p].req.orig) # {})
              /\ p \notin Shards => known
         \/ SendJSON(p)
         \/ SendOut(p)
<1>1. CASE RestOrReject(p)
  <2> DEFINE mayRest == Len(books[task[p].ord.sym][task[p].ord.side]) < MaxResting
  <2>1. RestResidual(p, mayRest) /\ mayRest \in BOOLEAN
    BY <1>1 DEF RestOrReject
  <2> HIDE DEF mayRest
  <2> QED
    BY <2>1
<1>2. CASE processCancel(p)
  <2> DEFINE known == Resting(task[p].req.orig) # {}
  <2>1. /\ pc[p] = "enter" /\ task[p].req.type = "cancel" /\ p \in Shards
        /\ RemoveOrder(p, task[p].ord, known) /\ known \in BOOLEAN
    BY <1>2 DEF processCancel
  <2>2. known = (Resting(task[p].req.orig) # {})
    OBVIOUS
  <2> HIDE DEF known
  <2> QED
    BY <2>1, <2>2
<1>3. CASE ProcessCancel(p)
  <2>1. /\ pc[p] = "enter" /\ task[p].req.type = "cancel" /\ p \in Conns
        /\ RemoveOrder(p, task[p].ord, TRUE) /\ HasLock(p)
    BY <1>3 DEF ProcessCancel, HasLock
  <2>2. p \notin Shards
    BY <2>1, ProcessesAreDistinct
  <2> QED
    BY <2>1, <2>2
<1>4. CASE processNew(p)
  BY <1>4 DEF processNew
<1>5. CASE ProcessNew(p)
  BY <1>5 DEF ProcessNew, HasLock
<1>6. CASE shardMatch(p)
  BY <1>6 DEF shardMatch
<1>7. CASE Aside(p) \/ SendJSON(p) \/ SendOut(p)
  BY <1>7
<1> QED
  BY <1>1, <1>2, <1>3, <1>4, <1>5, <1>6, <1>7 DEF Handle

-----------------------------------------------------------------------------
(* Ids                                                                     *)

\* A request that is not yet read, on its way, being handled or resting.
InPlay(r) ==
  \/ r \in todo \/ r \in index
  \/ \E p \in Workers : Busy(p) /\ task[p].req = r
  \/ \E s \in Shards : \E i \in 1..Len(ring[s]) : ring[s][i].req = r

\* client_order_id names one request.
UniqueIds ==
  \A r, q \in Request : InPlay(r) /\ InPlay(q) /\ r.id = q.id => r = q

\* A worker goes on with its request, or lets go of it or puts it on a book.
LEMMA PlayOfWorker ==
  ASSUME Inv, NEW p \in Workers,
         NEW x \in {"read", "idle", "aside", "enter", "book", "send"},
         pc' = [pc EXCEPT ![p] = x],
         x \in {"aside", "enter", "book"} => Busy(p),
         UNCHANGED <<todo, task, ring>>,
         \/ index' \subseteq index
         \/ Busy(p) /\ index' \subseteq index \cup {task[p].req},
         NEW r, InPlay(r)'
  PROVE  InPlay(r)
<1>1. \A q \in Workers : pc'[q] = IF q = p THEN x ELSE pc[q]
  BY InvTypes
<1>2. \A q \in Workers : Busy(q)' => Busy(q)
  BY <1>1 DEF Busy
<1> QED
  BY <1>2 DEF InPlay

\* Requests come into play only by being sent.
LEMMA PlayShrinks ==
  ASSUME Inv, [Next]_vars, NEW r \in Request, InPlay(r)'
  PROVE  InPlay(r)
<1>1. ASSUME UNCHANGED <<todo, pc, task, ring, index>> PROVE InPlay(r)
  BY <1>1 DEF InPlay, Busy
<1>2. CASE UNCHANGED vars
  BY <1>1, <1>2 DEF vars, engineVars, sendVars
<1>3. ASSUME NEW p \in Conns, NEW q \in todo, ws(p, q) \/ orders(p, q) PROVE InPlay(r)
  <2>1. /\ p \in Workers /\ pc[p] = "read" /\ todo' = todo \ {q}
        /\ UNCHANGED <<ring, index>>
        /\ \/ UNCHANGED <<pc, task>>
           \/ \E x \in {"aside", "enter"}, o \in Request \cup {None} :
                /\ pc' = [pc EXCEPT ![p] = x]
                /\ task' = [task EXCEPT ![p] = [req |-> q, ord |-> o]]
    BY <1>3, ReadCases DEF engineVars, sendVars
  <2>2. CASE UNCHANGED <<pc, task>>
    BY <2>1, <2>2 DEF InPlay, Busy
  <2>3. ASSUME NEW x \in {"aside", "enter"}, NEW o \in Request \cup {None},
               pc' = [pc EXCEPT ![p] = x],
               task' = [task EXCEPT ![p] = [req |-> q, ord |-> o]]
        PROVE  InPlay(r)
    <3>1. \A w \in Workers : w # p => pc'[w] = pc[w] /\ task'[w] = task[w]
      BY <2>3, InvTypes DEF Inv, HeldInv
    <3>2. task'[p].req = q
      BY <2>1, <2>3 DEF Inv, HeldInv
    <3>3. \A w \in Workers : Busy(w)' => task'[w].req = q \/ (Busy(w) /\ task'[w] = task[w])
      BY <3>1, <3>2 DEF Busy
    <3> QED
      BY <1>3, <2>1, <3>3 DEF InPlay
  <2> QED
    BY <2>1, <2>2, <2>3
<1>4. ASSUME NEW p \in Conns, Publish(p) PROVE InPlay(r)
  <2> DEFINE u == ShardOf[task[p].ord.sym]
  <2>1. /\ pc[p] = "enter" /\ pc' = [pc EXCEPT ![p] = "read"] /\ p \in Workers
        /\ ring' = [ring EXCEPT ![u] = Append(@, task[p])]
        /\ UNCHANGED <<todo, task, index>>
    BY <1>4 DEF Publish, engineVars, Workers
  <2>2. u \in Shards /\ task[p] \in Task /\ Busy(p)
    BY <2>1, ShardsAssumption DEF Inv, HeldInv, Enters, Request, Busy
  <2> HIDE DEF u
  <2>3. \A w \in Workers : Busy(w)' => Busy(w)
    BY <2>1, InvTypes DEF Busy
  <2>4. \A s \in Shards \ {u} : ring'[s] = ring[s]
    BY <2>1, InvTypes
  <2>5. /\ Len(ring'[u]) = Len(ring[u]) + 1 /\ ring'[u][Len(ring[u]) + 1] = task[p]
        /\ Len(ring[u]) \in Nat
        /\ \A i \in 1..Len(ring[u]) : ring'[u][i] = ring[u][i]
    BY <2>1, <2>2, InvTypes
  <2>6. ASSUME NEW s \in Shards, NEW i \in 1..Len(ring'[s])
        PROVE  \/ ring'[s][i] = task[p]
               \/ i \in 1..Len(ring[s]) /\ ring'[s][i] = ring[s][i]
    BY <2>4, <2>5
  <2> QED
    BY <1>4, <2>1, <2>2, <2>3, <2>6 DEF InPlay
<1>5. ASSUME NEW u \in Shards, Consume(u) PROVE InPlay(r)
  <2>1. PICK x \in {"aside", "enter"} : pc' = [pc EXCEPT ![u] = x]
    BY <1>5 DEF Consume
  <2>2. /\ ring[u] # <<>> /\ u \in Workers
        /\ task' = [task EXCEPT ![u] = Head(ring[u])]
        /\ ring' = [ring EXCEPT ![u] = Tail(@)]
        /\ UNCHANGED <<todo, index>>
    BY <1>5 DEF Consume, engineVars, Workers
  <2>3. /\ ring[u] \in Seq(Task) /\ Len(ring[u]) \in Nat /\ 1 \in 1..Len(ring[u])
        /\ Head(ring[u]) = ring[u][1] /\ Len(ring'[u]) = Len(ring[u]) - 1
        /\ \A i \in 1..Len(ring[u]) - 1 : ring'[u][i] = ring[u][i + 1]
    BY <2>2, InvTypes
  <2>4. \A w \in Workers : w # u => pc'[w] = pc[w] /\ task'[w] = task[w]
    BY <2>1, <2>2, InvTypes DEF Inv, HeldInv
  <2>5. task'[u] = ring[u][1]
    BY <2>2, <2>3 DEF Inv, HeldInv
  <2>6. \A s \in Shards \ {u} : ring'[s] = ring[s]
    BY <2>2, InvTypes
  <2>7. ASSUME NEW s \in Shards, NEW i \in 1..Len(ring'[s])
        PROVE  \E j \in 1..Len(ring[s]) : ring'[s][i] = ring[s][j]
    <3>1. CASE s = u
      <4>1. i + 1 \in 1..Len(ring[s]) /\ ring'[s][i] = ring[s][i + 1]
        BY <2>3, <3>1
      <4> QED
        BY <4>1
    <3>2. CASE s # u
      BY <2>6, <3>2
    <3> QED
      BY <3>1, <3>2
  <2>8. \A w \in Workers : Busy(w)' => w = u \/ (Busy(w) /\ task'[w] = task[w])
    BY <2>4 DEF Busy
  <2>9. CASE \E w \in Workers : Busy(w)' /\ task'[w].req = r
    BY <2>3, <2>5, <2>8, <2>9 DEF InPlay
  <2>10. CASE \E s \in Shards : \E i \in 1..Len(ring'[s]) : ring'[s][i].req = r
    <3>1. PICK s \in Shards : \E i \in 1..Len(ring'[s]) : ring'[s][i].req = r
      BY <2>10
    <3>2. PICK i \in 1..Len(ring'[s]) : ring'[s][i].req = r
      BY <3>1
    <3>3. PICK j \in 1..Len(ring[s]) : ring'[s][i] = ring[s][j]
      BY <2>7
    <3> QED
      BY <3>2, <3>3 DEF InPlay
  <2> QED
    BY <2>2, <2>9, <2>10 DEF InPlay
<1>6. ASSUME NEW p \in Workers, Handle(p) PROVE InPlay(r)
  <2>1. CASE Aside(p)
    <3>1. pc' = [pc EXCEPT ![p] = "send"] /\ UNCHANGED <<todo, task, ring, index>>
      BY <2>1 DEF Aside, sendVars
    <3> QED
      BY <3>1, PlayOfWorker
  <2>2. CASE pc[p] = "enter" /\ Accept(p)
    <3>1. /\ pc' = [pc EXCEPT ![p] = "book"] /\ Busy(p)
          /\ UNCHANGED <<todo, task, ring, index>>
      BY <2>2 DEF Accept, sendVars, Busy
    <3> QED
      BY <3>1, PlayOfWorker
  <2>3. CASE Trade(p)
    <3>1. UNCHANGED <<todo, pc, task, ring>> /\ index' \subseteq index
      BY <2>3 DEF Trade, sendVars
    <3> QED
      BY <3>1 DEF InPlay, Busy
  <2>4. ASSUME NEW mayRest, RestResidual(p, mayRest) PROVE InPlay(r)
    <3>1. /\ pc' = [pc EXCEPT ![p] = "send"] /\ pc[p] = "book" /\ Busy(p)
          /\ UNCHANGED <<todo, task, ring>> /\ index' \subseteq index \cup {task[p].ord}
      BY <2>4 DEF RestResidual, sendVars, Busy
    <3>2. task[p].ord = task[p].req
      BY <3>1 DEF Inv, HeldInv, Enters
    <3> QED
      BY <3>1, <3>2, PlayOfWorker
  <2>5. ASSUME NEW known, RemoveOrder(p, task[p].ord, known) PROVE InPlay(r)
    <3>1. /\ pc' = [pc EXCEPT ![p] = "send"]
          /\ UNCHANGED <<todo, task, ring>> /\ index' \subseteq index
      BY <2>5 DEF RemoveOrder, sendVars
    <3> QED
      BY <3>1, PlayOfWorker
  <2>6. ASSUME HandedOver(p), UNCHANGED <<todo, task, ring, index>> PROVE InPlay(r)
    <3>1. PICK x \in {"read", "idle", "send"} : pc' = [pc EXCEPT ![p] = x]
      BY <2>6 DEF HandedOver
    <3> QED
      BY <2>6, <3>1, PlayOfWorker
  <2>7. CASE SendJSON(p)
    BY <2>6, <2>7 DEF SendJSON, engineVars, sendVars
  <2>8. CASE SendOut(p)
    BY <2>6, <2>8 DEF SendOut, engineVars
  <2> QED
    BY <1>6, <2>1, <2>2, <2>3, <2>4, <2>5, <2>7, <2>8, HandleCases
<1>7. ASSUME NEW i \in DOMAIN out, outputLoop(i) PROVE InPlay(r)
  BY <1>1, <1>7 DEF outputLoop, engineVars
<1>8. ASSUME NEW c \in Clients, writeLoop(c) \/ Stall(c) \/ Reap(c) PROVE InPlay(r)
  BY <1>1, <1>8 DEF writeLoop, Stall, Reap, engineVars, sendVars
<1> QED
  BY <1>2, <1>3, <1>4, <1>5, <1>6, <1>7, <1>8 DEF Next

\* The ids of a load are unique.
LEMMA InitIds ==
  Init => UniqueIds
<1> SUFFICES ASSUME Init PROVE UniqueIds
  OBVIOUS
<1>1. PICK load \in Loads : todo = load.reqs
  BY DEF Init
<1>2. ASSUME NEW r, InPlay(r) PROVE r \in load.reqs
  BY <1>1, <1>2 DEF InPlay, Init, Busy
<1> QED
  BY <1>2, IdsAreUnique DEF UniqueIds

\* Ids stay unique.
LEMMA StepIds ==
  ASSUME Inv, UniqueIds, [Next]_vars
  PROVE  UniqueIds'
BY PlayShrinks DEF UniqueIds

-----------------------------------------------------------------------------
(* Types                                                                   *)

\* The disruptor serves WebSocket clients only: /orders refuses what callers send.
FromClients ==
  kind = "disruptor" =>
    /\ \A p \in Workers : Busy(p) => task[p].req.from \in Clients
    /\ \A s \in Shards : \A i \in 1..Len(ring[s]) : ring[s][i].req.from \in Clients
    /\ \A p \in Workers : \A x \in Elems(pend[p]) : x[1] \in Clients

\* An order that may enter a book was validated: by the connection in the mutex
\* engine, by the matcher in the disruptor.
Validated ==
  \A p \in Workers :
    pc[p] = "enter" /\ task[p].req.type = "new" /\ (kind = "mutex" \/ p \in Shards)
      => task[p].req.qty > 0

\* Answers are handed over before the next request is taken up.
PendInv ==
  \A p \in Workers : pend[p] # <<>> <=> pc[p] \in {"book", "send"}

\* The types, with what they rest on.
TypeInv == TypeOK /\ FromClients /\ Validated /\ PendInv

\* The types of what Inv does not speak of.
RestTypes ==
  /\ kind \in {"mutex", "disruptor"} /\ flaky \subseteq Clients
  /\ task \in [Workers -> Task \cup {None}]
  /\ pend \in [Workers -> Seq(Conns \X Nat)]
  /\ log \in Seq(Ack \cup Fill)
  /\ status \in [Ids -> {"none", "accepted", "rejected", "book_full",
                         "residual_dropped", "canceled", "not_found"}]
  /\ left \in [Ids -> Nat] /\ insertSeq \in [Ids -> Nat]
  /\ out \in Seq(Clients \X Nat)
  /\ outQ \in [Clients -> Seq(Nat)] /\ outDropped \in [Clients -> Nat]
  /\ peer \in [Clients -> {"reads", "stalled", "gone"}]
  /\ got \in [Conns -> SUBSET Nat]

\* The two parts of the type invariant.
LEMMA TypeParts ==
  ASSUME Inv
  PROVE  TypeOK <=> RestTypes
BY InvTypes DEF TypeOK, RestTypes

\* Requests and ids.
LEMMA RequestFields ==
  ASSUME NEW r \in Request
  PROVE  /\ r.id \in Ids /\ r.from \in Conns /\ r.sym \in Symbols /\ r.side \in Side
         /\ r.type \in {"new", "cancel", "bad"} /\ r.price \in Int /\ r.ts \in Nat
         /\ r.qty \in Int /\ r.orig \in Ids
         /\ r.otype \in {"LIMIT", "MARKET", "other"}
BY DEF Request

\* The first states.
LEMMA InitTypes ==
  Init => TypeInv
<1> SUFFICES ASSUME Init PROVE TypeInv
  OBVIOUS
<1>1. PICK load \in Loads : todo = load.reqs /\ flaky = load.flaky
  BY DEF Init
<1>2. RestTypes
  <2>1. /\ kind \in {"mutex", "disruptor"} /\ flaky \subseteq Clients
        /\ task \in [Workers -> Task \cup {None}]
    BY <1>1, ProcessesAreDistinct DEF Init
  <2>2. /\ pend \in [Workers -> Seq(Conns \X Nat)]
        /\ log \in Seq(Ack \cup Fill)
    BY DEF Init
  <2>3. /\ status \in [Ids -> {"none", "accepted", "rejected", "book_full",
                         "residual_dropped", "canceled", "not_found"}]
        /\ left \in [Ids -> Nat] /\ insertSeq \in [Ids -> Nat]
    BY DEF Init
  <2>4. /\ out \in Seq(Clients \X Nat)
        /\ outQ \in [Clients -> Seq(Nat)] /\ outDropped \in [Clients -> Nat]
    BY DEF Init
  <2>5. /\ peer \in [Clients -> {"reads", "stalled", "gone"}]
        /\ got \in [Conns -> SUBSET Nat]
    BY DEF Init
  <2> QED
    BY <2>1, <2>2, <2>3, <2>4, <2>5 DEF RestTypes
<1>3. \A p \in Workers : pc[p] \in {"read", "idle"} /\ pend[p] = <<>>
  BY DEF Init
<1>4. FromClients
  BY <1>3 DEF Init, FromClients, Busy, Elems
<1>5. Validated /\ PendInv
  BY <1>3 DEF Validated, PendInv
<1> QED
  BY <1>2, <1>4, <1>5, InitInv, TypeParts DEF TypeInv

\* The answers of a worker grow by messages for connections.
LEMMA PendGrows ==
  ASSUME NEW s \in Seq(Conns \X Nat), NEW t \in Seq(Conns \X Nat)
  PROVE  /\ s \o t \in Seq(Conns \X Nat)
         /\ Elems(s \o t) = Elems(s) \cup Elems(t)
         /\ Len(s \o t) = Len(s) + Len(t)
         /\ Distinct(s) /\ Distinct(t) /\ Elems(s) \cap Elems(t) = {}
              => Distinct(s \o t)
<1> DEFINE S == Conns \X Nat
           u == s \o t
<1>1. /\ u \in Seq(S) /\ Len(u) = Len(s) + Len(t)
      /\ \A i \in 1..Len(s) + Len(t) :
           u[i] = IF i <= Len(s) THEN s[i] ELSE t[i - Len(s)]
  BY ConcatProperties
<1>2. Len(s) \in Nat /\ Len(t) \in Nat
  OBVIOUS
<1> HIDE DEF u, S
<1>3. ASSUME NEW i \in 1..Len(u) PROVE u[i] \in Elems(s) \cup Elems(t)
  <2>1. CASE i <= Len(s)
    BY <1>1, <1>2, <2>1 DEF Elems
  <2>2. CASE i > Len(s)
    <3>1. i - Len(s) \in 1..Len(t) /\ u[i] = t[i - Len(s)]
      BY <1>1, <1>2, <2>2
    <3> QED
      BY <3>1 DEF Elems
  <2> QED
    BY <1>1, <1>2, <2>1, <2>2
<1>4. ASSUME NEW i \in 1..Len(s) PROVE s[i] \in Elems(u)
  <2>1. i \in 1..Len(u) /\ u[i] = s[i]
    BY <1>1, <1>2
  <2> QED
    BY <2>1 DEF Elems
<1>5. ASSUME NEW i \in 1..Len(t) PROVE t[i] \in Elems(u)
  <2> DEFINE k == Len(s) + i
  <2>1. k \in 1..Len(s) + Len(t) /\ ~(k <= Len(s)) /\ k - Len(s) = i
    BY <1>2
  <2> HIDE DEF k
  <2>2. k \in 1..Len(u) /\ u[k] = t[i]
    BY <1>1, <2>1
  <2> QED
    BY <2>2 DEF Elems
<1>6. Elems(u) = Elems(s) \cup Elems(t)
  BY <1>3, <1>4, <1>5 DEF Elems
<1>7. ASSUME Distinct(s), Distinct(t), Elems(s) \cap Elems(t) = {},
             NEW i \in 1..Len(u), NEW j \in 1..Len(u), u[i] = u[j]
      PROVE  i = j
  <2>1. \A k \in 1..Len(s), m \in 1..Len(t) : s[k] # t[m]
    BY <1>7 DEF Elems
  <2>2. CASE i <= Len(s) /\ j <= Len(s)
    BY <1>1, <1>2, <1>7, <2>2 DEF Distinct
  <2>3. CASE i > Len(s) /\ j > Len(s)
    <3>1. /\ i - Len(s) \in 1..Len(t) /\ j - Len(s) \in 1..Len(t)
          /\ t[i - Len(s)] = t[j - Len(s)]
      BY <1>1, <1>2, <1>7, <2>3
    <3>2. i - Len(s) = j - Len(s)
      BY <1>7, <3>1 DEF Distinct
    <3> QED
      BY <1>1, <1>2, <3>2
  <2>4. CASE i <= Len(s) /\ j > Len(s)
    <3>1. i \in 1..Len(s) /\ j - Len(s) \in 1..Len(t) /\ s[i] = t[j - Len(s)]
      BY <1>1, <1>2, <1>7, <2>4
    <3> QED
      BY <2>1, <3>1
  <2>5. CASE i > Len(s) /\ j <= Len(s)
    <3>1. j \in 1..Len(s) /\ i - Len(s) \in 1..Len(t) /\ s[j] = t[i - Len(s)]
      BY <1>1, <1>2, <1>7, <2>5
    <3> QED
      BY <2>1, <3>1
  <2> QED
    BY <1>1, <1>2, <2>2, <2>3, <2>4, <2>5
<1>8. ASSUME Distinct(s), Distinct(t), Elems(s) \cap Elems(t) = {} PROVE Distinct(u)
  BY <1>7, <1>8 DEF Distinct
<1> QED
  BY <1>1, <1>6, <1>8 DEF u, S

\* One message.
LEMMA OneMessage ==
  ASSUME NEW c \in Conns, NEW n \in Nat
  PROVE  /\ <<<<c, n>>>> \in Seq(Conns \X Nat) /\ <<<<c, n>>>> # <<>>
         /\ Elems(<<<<c, n>>>>) = {<<c, n>>} /\ Distinct(<<<<c, n>>>>)
<1> DEFINE x == <<c, n>>
<1>1. x \in Conns \X Nat
  OBVIOUS
<1> HIDE DEF x
<1>2. <<x>> \in Seq(Conns \X Nat) /\ Len(<<x>>) = 1 /\ <<x>>[1] = x
  BY <1>1
<1>3. Elems(<<x>>) = {x} /\ Distinct(<<x>>) /\ <<x>> # <<>>
  BY <1>2 DEF Elems, Distinct
<1> QED
  BY <1>2, <1>3 DEF x

\* main.go, uniqueClients and sendFill: the fill goes once to each client that owns
\* one of its orders.
LEMMA FillMessages ==
  ASSUME NEW a \in Conns, NEW b \in Conns, NEW n \in Nat
  PROVE  LET t == sendFill(uniqueClients(a, b), n) IN
         /\ t \in Seq(Conns \X Nat) /\ Distinct(t)
         /\ Elems(t) = {<<c, n>> : c \in {a, b} \cap Clients}
<1> DEFINE to == uniqueClients(a, b)
           t == sendFill(to, n)
<1>1. ASSUME to = <<>>, {a, b} \cap Clients = {}
      PROVE  /\ t \in Seq(Conns \X Nat) /\ Distinct(t)
             /\ Elems(t) = {<<c, n>> : c \in {a, b} \cap Clients}
  <2>1. t = <<>>
    BY <1>1 DEF sendFill
  <2>2. {<<c, n>> : c \in {a, b} \cap Clients} = {}
    BY <1>1
  <2> HIDE DEF t
  <2>3. t \in Seq(Conns \X Nat) /\ Len(t) = 0
    BY <2>1
  <2>4. Distinct(t) /\ Elems(t) = {}
    BY <2>3 DEF Elems, Distinct
  <2> QED
    BY <2>2, <2>3, <2>4
<1>2. ASSUME NEW c, to = <<c>>, {a, b} \cap Clients = {c}
      PROVE  /\ t \in Seq(Conns \X Nat) /\ Distinct(t)
             /\ Elems(t) = {<<d, n>> : d \in {a, b} \cap Clients}
  <2>1. t = <<<<c, n>>>> /\ c \in Conns
    BY <1>2 DEF sendFill, Conns
  <2>2. Elems(t) = {<<c, n>>} /\ t \in Seq(Conns \X Nat) /\ Distinct(t)
    BY <2>1, OneMessage
  <2> QED
    BY <1>2, <2>2
<1>3. ASSUME a # b, to \in Seq(Conns), Len(to) = 2, to[1] = a, to[2] = b, {a, b} \cap Clients = {a, b}
      PROVE  /\ t \in Seq(Conns \X Nat) /\ Distinct(t)
             /\ Elems(t) = {<<d, n>> : d \in {a, b} \cap Clients}
  <2> DEFINE x == <<a, n>>
             y == <<b, n>>
  <2>1. x \in Conns \X Nat /\ y \in Conns \X Nat /\ x # y
    BY <1>3
  <2>2. DOMAIN to = 1..2
    BY <1>3
  <2>3. t \in [1..2 -> Conns \X Nat] /\ t[1] = x /\ t[2] = y
    BY <1>3, <2>2 DEF sendFill
  <2> HIDE DEF x, y, t
  <2>4. t \in Seq(Conns \X Nat) /\ Len(t) = 2
    <3>1. t \in Seq(Conns \X Nat)
      BY <2>3, SeqDef
    <3> QED
      BY <2>3, <3>1, LenProperties
  <2>5. Distinct(t) /\ Elems(t) = {x, y}
    BY <2>1, <2>3, <2>4 DEF Distinct, Elems
  <2> QED
    BY <1>3, <2>4, <2>5 DEF x, y
<1> HIDE DEF t
<1>4. CASE a \in Clients /\ b \in Clients /\ a = b
  <2>1. to = <<a>>
    BY <1>4 DEF uniqueClients, client
  <2> QED
    BY <1>2, <1>4, <2>1 DEF t
<1>5. CASE a \in Clients /\ b \in Clients /\ a # b
  <2>1. to = <<a>> \o <<b>>
    BY <1>5 DEF uniqueClients, client
  <2>2. /\ <<a>> \in Seq(Conns) /\ Len(<<a>>) = 1 /\ <<a>>[1] = a
        /\ <<b>> \in Seq(Conns) /\ Len(<<b>>) = 1 /\ <<b>>[1] = b
    OBVIOUS
  <2> DEFINE u == <<a>>
             v == <<b>>
  <2> HIDE DEF u, v
  <2>3. /\ u \o v \in Seq(Conns) /\ Len(u \o v) = Len(u) + Len(v)
        /\ \A i \in 1..Len(u) + Len(v) :
             (u \o v)[i] = IF i <= Len(u) THEN u[i] ELSE v[i - Len(u)]
    BY <2>2, ConcatProperties DEF u, v
  <2>4. to \in Seq(Conns) /\ Len(to) = 2 /\ to[1] = a /\ to[2] = b
    <3>1. to = u \o v
      BY <2>1 DEF u, v
    <3>2. Len(u) = 1 /\ u[1] = a /\ Len(v) = 1 /\ v[1] = b
      BY <2>2 DEF u, v
    <3> HIDE DEF to
    <3> QED
      BY <2>3, <3>1, <3>2
  <2> HIDE DEF to
  <2> QED
    BY <1>3, <1>5, <2>4 DEF t, to
<1>6. CASE a \in Clients /\ b \notin Clients
  <2>1. to = <<a>>
    BY <1>6 DEF uniqueClients, client
  <2> QED
    BY <1>2, <1>6, <2>1 DEF t
<1>7. CASE a \notin Clients /\ b \in Clients
  <2>1. to = <<b>>
    BY <1>7 DEF uniqueClients, client
  <2> QED
    BY <1>2, <1>7, <2>1 DEF t
<1>8. CASE a \notin Clients /\ b \notin Clients
  <2>1. to = <<>>
    BY <1>8 DEF uniqueClients, client
  <2> QED
    BY <1>1, <1>8, <2>1 DEF t
<1> QED
  BY <1>4, <1>5, <1>6, <1>7, <1>8 DEF t

\* A worker answers: it stamps what it answers with, or reorders its answers.
LEMMA AnswerTypes ==
  ASSUME Inv, TypeInv, NEW p \in Workers, NEW t \in Seq(Conns \X Nat), t # <<>>,
         NEW x \in {"book", "send"}, x = "book" => Busy(p),
         pend' = [pend EXCEPT ![p] = t], pc' = [pc EXCEPT ![p] = x],
         kind = "disruptor" => \A y \in Elems(t) : y[1] \in Clients,
         log' \in Seq(Ack \cup Fill),
         status' \in [Ids -> {"none", "accepted", "rejected", "book_full",
                              "residual_dropped", "canceled", "not_found"}],
         left' \in [Ids -> Nat], insertSeq' \in [Ids -> Nat],
         UNCHANGED <<kind, flaky, task, sendVars, peer, got>>
  PROVE  RestTypes' /\ FromClients' /\ Validated' /\ PendInv'
<1>1. RestTypes
  BY TypeParts DEF TypeInv
<1>2. /\ pend' \in [Workers -> Seq(Conns \X Nat)]
      /\ \A q \in Workers : pend'[q] = IF q = p THEN t ELSE pend[q]
  BY <1>1 DEF RestTypes
<1>3. \A q \in Workers : pc'[q] = IF q = p THEN x ELSE pc[q]
  BY InvTypes
<1>4. RestTypes'
  BY <1>1, <1>2 DEF RestTypes, sendVars
<1>5. FromClients'
  <2> SUFFICES ASSUME kind = "disruptor"
               PROVE  /\ \A q \in Workers : Busy(q)' => task[q].req.from \in Clients
                      /\ \A q \in Workers : \A y \in Elems(pend'[q]) : y[1] \in Clients
    BY DEF TypeInv, FromClients, sendVars
  <2>1. \A q \in Workers : Busy(q)' => Busy(q)
    BY <1>3 DEF Busy
  <2> QED
    BY <1>2, <2>1 DEF TypeInv, FromClients
<1>6. Validated' /\ PendInv'
  BY <1>2, <1>3 DEF TypeInv, Validated, PendInv
<1> QED
  BY <1>4, <1>5, <1>6

\* What a worker holds while it handles a request.
LEMMA HeldTypes ==
  ASSUME Inv, TypeInv, NEW p \in Workers, Busy(p)
  PROVE  /\ task[p].req \in Request /\ task[p].req.from \in Conns
         /\ task[p].req.id \in Ids /\ task[p].req.qty \in Int
         /\ kind = "disruptor" => task[p].req.from \in Clients
         /\ pc[p] \in {"enter", "book"} => task[p].ord \in Request
         /\ pc[p] = "book" => task[p].ord = task[p].req
<1>1. task[p].req \in Request
  BY DEF Inv, HeldInv, Task
<1>2. pc[p] \in {"enter", "book"} => Enters(task[p])
  BY DEF Inv, HeldInv
<1>3. pc[p] = "book" => task[p].req.type = "new"
  BY DEF Inv, HeldInv
<1> QED
  BY <1>1, <1>2, <1>3, RequestFields DEF TypeInv, FromClients, Enters

\* Appending to the log.
LEMMA StampTypes ==
  ASSUME TypeInv, NEW e \in Ack \cup Fill, Stamp(e)
  PROVE  /\ log' \in Seq(Ack \cup Fill) /\ Len(log') = Len(log) + 1
         /\ Len(log) + 1 \in Nat /\ log'[Len(log) + 1] = e
         /\ \A n \in 1..Len(log) : log'[n] = log[n]
<1>1. log \in Seq(Ack \cup Fill) /\ Len(log) \in Nat
  BY DEF TypeInv, TypeOK
<1> QED
  BY <1>1, AppendProperties DEF Stamp

\* One answer to the request itself.
LEMMA OneAnswerTypes ==
  ASSUME Inv, TypeInv, NEW p \in Workers, Busy(p),
         NEW at \in {"aside", "book"}, Stamp([at |-> at, req |-> task[p].req]),
         NEW x \in {"book", "send"},
         pend' = [pend EXCEPT ![p] = <<<<task[p].req.from, Len(log) + 1>>>>],
         pc' = [pc EXCEPT ![p] = x],
         NEW y \in {"none", "accepted", "rejected", "book_full",
                    "residual_dropped", "canceled", "not_found"},
         status' = [status EXCEPT ![task[p].req.id] = y],
         left' \in [Ids -> Nat], insertSeq' \in [Ids -> Nat],
         UNCHANGED <<kind, flaky, task, sendVars, peer, got>>
  PROVE  RestTypes' /\ FromClients' /\ Validated' /\ PendInv'
<1> DEFINE r == task[p].req
           e == [at |-> at, req |-> r]
           t == <<<<r.from, Len(log) + 1>>>>
<1>1. r \in Request /\ r.from \in Conns /\ (kind = "disruptor" => r.from \in Clients)
  BY HeldTypes
<1>2. e \in Ack \cup Fill
  BY <1>1 DEF Ack
<1>3. log' \in Seq(Ack \cup Fill) /\ Len(log) + 1 \in Nat
  BY <1>2, StampTypes
<1>4. t \in Seq(Conns \X Nat) /\ t # <<>> /\ Elems(t) = {<<r.from, Len(log) + 1>>}
  BY <1>1, <1>3, OneMessage
<1>5. \A z \in Elems(t) : z[1] = r.from
  BY <1>4
<1>6. status' \in [Ids -> {"none", "accepted", "rejected", "book_full",
                           "residual_dropped", "canceled", "not_found"}]
  BY DEF TypeInv, TypeOK
<1>7. pend' = [pend EXCEPT ![p] = t]
  OBVIOUS
<1> HIDE DEF r, t, e
<1> QED
  BY <1>1, <1>3, <1>4, <1>5, <1>6, <1>7, AnswerTypes

\* Accept: the order has a positive quantity.
LEMMA AcceptTypes ==
  ASSUME Inv, TypeInv, NEW p \in Workers, pc[p] = "enter",
         task[p].req.type = "new", HasLock(p) \/ p \in Shards, Accept(p)
  PROVE  RestTypes' /\ FromClients' /\ Validated' /\ PendInv'
<1> DEFINE o == task[p].req
<1>1. Busy(p) /\ kind \in {"mutex", "disruptor"}
  BY DEF Busy, TypeInv, TypeOK
<1>2. o.qty \in Nat
  <2>1. o.qty > 0
    BY DEF TypeInv, Validated, HasLock
  <2> QED
    BY <1>1, <2>1, HeldTypes
<1>3. left' \in [Ids -> Nat]
  BY <1>2 DEF TypeInv, TypeOK, Accept
<1>4. insertSeq' \in [Ids -> Nat]
  <2>1. log \in Seq(Ack \cup Fill)
    BY DEF TypeInv, TypeOK
  <2>2. Entered(o.sym) \in SUBSET (1..Len(log)) /\ Len(log) \in Nat
    BY <2>1 DEF Entered
  <2>3. IsFiniteSet(1..Len(log))
    BY <2>2, FS_Interval
  <2>4. IsFiniteSet(Entered(o.sym))
    BY <2>2, <2>3, FS_Subset
  <2>5. Cardinality(Entered(o.sym)) \in Nat
    BY <2>4, FS_CardinalityType
  <2>6. 1 + Cardinality(Entered(o.sym)) \in Nat
    BY <2>5
  <2> DEFINE k == 1 + Cardinality(Entered(o.sym))
  <2>7. insertSeq' = [insertSeq EXCEPT ![o.id] = k] /\ k \in Nat
    BY <2>6 DEF Accept
  <2> HIDE DEF k
  <2> QED
    BY <2>7 DEF TypeInv, TypeOK
<1>5. /\ Stamp([at |-> "book", req |-> task[p].req])
      /\ pend' = [pend EXCEPT ![p] = <<<<task[p].req.from, Len(log) + 1>>>>]
      /\ pc' = [pc EXCEPT ![p] = "book"]
      /\ status' = [status EXCEPT ![task[p].req.id] = "accepted"]
      /\ UNCHANGED <<kind, flaky, task, sendVars, peer, got>>
  BY DEF Accept
<1> HIDE DEF o
<1> QED
  BY <1>1, <1>3, <1>4, <1>5, OneAnswerTypes

\* A cancel.
LEMMA RemoveTypes ==
  ASSUME Inv, TypeInv, NEW p \in Workers, pc[p] = "enter", NEW known,
         RemoveOrder(p, task[p].ord, known)
  PROVE  RestTypes' /\ FromClients' /\ Validated' /\ PendInv'
<1>1. Busy(p)
  BY DEF Busy
<1>2. PICK y \in {"canceled", "not_found"} :
        status' = [status EXCEPT ![task[p].req.id] = y]
  BY DEF RemoveOrder
<1>3. /\ Stamp([at |-> "book", req |-> task[p].req])
      /\ pend' = [pend EXCEPT ![p] = <<<<task[p].req.from, Len(log) + 1>>>>]
      /\ pc' = [pc EXCEPT ![p] = "send"]
      /\ UNCHANGED <<kind, flaky, task, left, insertSeq, sendVars, peer, got>>
  BY DEF RemoveOrder
<1>4. left' \in [Ids -> Nat] /\ insertSeq' \in [Ids -> Nat]
  BY <1>3 DEF TypeInv, TypeOK
<1> QED
  BY <1>1, <1>2, <1>3, <1>4, OneAnswerTypes

\* An answer outside the books.
LEMMA AsideTypes ==
  ASSUME Inv, TypeInv, NEW p \in Workers, Aside(p)
  PROVE  RestTypes' /\ FromClients' /\ Validated' /\ PendInv'
<1>1. Busy(p)
  BY DEF Busy, Aside
<1>2. PICK y \in {"rejected", "not_found"} :
        status' = [status EXCEPT ![task[p].req.id] = y]
  BY DEF Aside
<1>3. /\ Stamp([at |-> "aside", req |-> task[p].req])
      /\ pend' = [pend EXCEPT ![p] = <<<<task[p].req.from, Len(log) + 1>>>>]
      /\ pc' = [pc EXCEPT ![p] = "send"]
      /\ UNCHANGED <<kind, flaky, task, left, insertSeq, sendVars, peer, got>>
  BY DEF Aside
<1>4. left' \in [Ids -> Nat] /\ insertSeq' \in [Ids -> Nat]
  BY <1>3 DEF TypeInv, TypeOK
<1> QED
  BY <1>1, <1>2, <1>3, <1>4, OneAnswerTypes

\* The order that a matching loop trades against.
LEMMA MakerTypes ==
  ASSUME Inv, UniqueIds, TypeInv, NEW p \in Workers, Trade(p)
  PROVE  /\ task[p].ord \in Request /\ task[p].ord = task[p].req
         /\ Head(Ladder(p)) \in Request
         /\ Head(Ladder(p)) \in index
         /\ Head(Ladder(p)).sym = task[p].ord.sym
         /\ Head(Ladder(p)).side = Opposite(task[p].ord.side)
         /\ Head(Ladder(p)).id # task[p].ord.id
<1>1. pc[p] = "book" /\ Busy(p) /\ Ladder(p) # <<>>
  BY DEF Trade, CanTrade, Busy
<1>2. task[p].ord \in Request /\ task[p].ord = task[p].req
  BY <1>1, HeldTypes
<1> DEFINE sym == task[p].ord.sym
           side == Opposite(task[p].ord.side)
           s == books[sym][side]
<1>3. sym \in Symbols /\ side \in Side
  BY <1>2 DEF Request, Opposite, Side
<1>4. s \in Seq(Request) /\ Distinct(s) /\ s # <<>> /\ Ladder(p) = s
  BY <1>1, <1>3 DEF Inv, LadderInv, Ladder
<1>5. Head(s) \in Elems(s)
  BY <1>4, TailElems
<1>6. Head(s) \in index
  BY <1>3, <1>5 DEF Inv, IndexInv
<1>7. Head(s).sym = sym /\ Head(s).side = side
  BY <1>3, <1>5 DEF Inv, LadderInv
<1>8. Head(s).id # task[p].ord.id
  <2>1. task[p].ord \notin index
    BY <1>1, <1>2 DEF Inv, NotYetOnBook
  <2>2. InPlay(Head(s)) /\ InPlay(task[p].ord)
    BY <1>1, <1>2, <1>6 DEF InPlay
  <2> QED
    BY <1>2, <1>6, <2>1, <2>2, InvTypes DEF UniqueIds
<1> QED
  BY <1>2, <1>4, <1>6, <1>7, <1>8, InvTypes

\* A turn of a matching loop.
LEMMA TradeTypes ==
  ASSUME Inv, UniqueIds, TypeInv, NEW p \in Workers, Trade(p)
  PROVE  RestTypes' /\ FromClients' /\ Validated' /\ PendInv'
<1> DEFINE a == task[p].ord
           r == Head(Ladder(p))
           q == Min2(left[a.id], left[r.id])
           m == sendFill(uniqueClients(a.from, r.from), Len(log) + 1)
           t == pend[p] \o m
           e == [at |-> "fill", taker |-> a, maker |-> r, qty |-> q]
<1>1. /\ pc[p] = "book" /\ Busy(p) /\ Stamp(e)
      /\ pend' = [pend EXCEPT ![p] = t]
      /\ left' = [left EXCEPT ![a.id] = @ - q, ![r.id] = @ - q]
      /\ UNCHANGED <<kind, flaky, pc, task, status, insertSeq, sendVars, peer, got>>
  BY DEF Trade, Busy
<1>2. a \in Request /\ r \in Request /\ a = task[p].req /\ a.id # r.id
  BY MakerTypes
<1>3. a.id \in Ids /\ r.id \in Ids /\ a.from \in Conns /\ r.from \in Conns
  BY <1>2, RequestFields
<1>4. left \in [Ids -> Nat]
  BY DEF TypeInv, TypeOK
<1>5. q \in Nat /\ q <= left[a.id] /\ q <= left[r.id]
  BY <1>3, <1>4 DEF Min2
<1> HIDE DEF q
<1>6. e \in Ack \cup Fill
  BY <1>2, <1>5 DEF Fill
<1>7. left' \in [Ids -> Nat]
  BY <1>1, <1>2, <1>3, <1>4, <1>5
<1> HIDE DEF e
<1>8. log' \in Seq(Ack \cup Fill) /\ Len(log) + 1 \in Nat
  BY <1>1, <1>6, StampTypes
<1>9. m \in Seq(Conns \X Nat) /\ \A y \in Elems(m) : y[1] \in Clients
  <2>1. /\ m \in Seq(Conns \X Nat)
        /\ Elems(m) = {<<c, Len(log) + 1>> : c \in {a.from, r.from} \cap Clients}
    BY <1>3, <1>8, FillMessages
  <2> QED
    BY <2>1
<1> HIDE DEF m
<1>10. pend[p] \in Seq(Conns \X Nat) /\ pend[p] # <<>>
  BY <1>1 DEF TypeInv, TypeOK, PendInv
<1>11. /\ t \in Seq(Conns \X Nat) /\ t # <<>> /\ Elems(t) = Elems(pend[p]) \cup Elems(m)
  <2>1. /\ t \in Seq(Conns \X Nat) /\ Elems(t) = Elems(pend[p]) \cup Elems(m)
        /\ Len(t) = Len(pend[p]) + Len(m)
    BY <1>9, <1>10, PendGrows
  <2>2. Len(pend[p]) \in Nat /\ Len(pend[p]) > 0 /\ Len(m) \in Nat
    BY <1>9, <1>10
  <2> QED
    BY <2>1, <2>2
<1> HIDE DEF t
<1>12. kind = "disruptor" => \A y \in Elems(t) : y[1] \in Clients
  BY <1>9, <1>11 DEF TypeInv, FromClients
<1>13. pc' = [pc EXCEPT ![p] = "book"]
  BY <1>1, InvTypes
<1>14. /\ status' \in [Ids -> {"none", "accepted", "rejected", "book_full",
                               "residual_dropped", "canceled", "not_found"}]
       /\ insertSeq' \in [Ids -> Nat]
  BY <1>1 DEF TypeInv, TypeOK
<1> HIDE DEF a, r
<1> QED
  BY <1>1, <1>7, <1>8, <1>11, <1>12, <1>13, <1>14, AnswerTypes

\* The reply of a REST call comes last; nothing is lost or doubled.
LEMMA ReplyMessages ==
  ASSUME TypeInv, NEW p \in Workers, pend[p] # <<>>
  PROVE  /\ ReplyOrder(p) \in Seq(Conns \X Nat) /\ ReplyOrder(p) # <<>>
         /\ Elems(ReplyOrder(p)) = Elems(pend[p])
         /\ Distinct(pend[p]) => Distinct(ReplyOrder(p))
<1> DEFINE s == pend[p]
           t == Append(Tail(s), Head(s))
<1>1. s \in Seq(Conns \X Nat) /\ s # <<>>
  BY DEF TypeInv, TypeOK
<1> HIDE DEF s
<1>2. /\ t \in Seq(Conns \X Nat) /\ t # <<>> /\ Len(s) \in Nat \ {0}
      /\ Len(t) = Len(s) /\ t[Len(s)] = s[1]
      /\ \A i \in 1..Len(s) - 1 : t[i] = s[i + 1]
  <2> DEFINE u == Tail(s)
             h == Head(s)
  <2>1. /\ u \in Seq(Conns \X Nat) /\ h \in Conns \X Nat /\ h = s[1]
        /\ Len(s) \in Nat \ {0} /\ Len(u) = Len(s) - 1
        /\ \A i \in 1..Len(s) - 1 : u[i] = s[i + 1]
    BY <1>1
  <2>2. t = Append(u, h)
    OBVIOUS
  <2> HIDE DEF u, h, t
  <2>3. /\ t \in Seq(Conns \X Nat) /\ t # <<>> /\ Len(t) = Len(u) + 1
        /\ \A i \in 1..Len(u) : t[i] = u[i]
        /\ t[Len(u) + 1] = h
    BY <2>1, <2>2, AppendProperties
  <2>4. Len(u) + 1 = Len(s)
    BY <2>1
  <2>5. Len(t) = Len(s) /\ t[Len(s)] = s[1]
    BY <2>1, <2>3, <2>4
  <2>6. ASSUME NEW i \in 1..Len(s) - 1 PROVE t[i] = s[i + 1]
    <3>1. i \in 1..Len(u)
      BY <2>1
    <3> QED
      BY <2>1, <2>3, <3>1
  <2> QED
    BY <2>1, <2>3, <2>5, <2>6
<1> HIDE DEF t
<1>3. ASSUME NEW i \in 1..Len(t) PROVE t[i] \in Elems(s)
  <2>1. CASE i = Len(s)
    BY <1>2, <2>1 DEF Elems
  <2>2. CASE i < Len(s)
    <3>1. i + 1 \in 1..Len(s) /\ t[i] = s[i + 1]
      BY <1>2, <2>2
    <3> QED
      BY <3>1 DEF Elems
  <2> QED
    BY <1>2, <2>1, <2>2
<1>4. ASSUME NEW i \in 1..Len(s) PROVE s[i] \in Elems(t)
  <2>1. CASE i = 1
    BY <1>2, <2>1 DEF Elems
  <2>2. CASE i > 1
    <3>1. i - 1 \in 1..Len(t) /\ t[i - 1] = s[i]
      BY <1>2, <2>2
    <3> QED
      BY <3>1 DEF Elems
  <2> QED
    BY <1>2, <2>1, <2>2
<1>5. Elems(t) = Elems(s)
  BY <1>3, <1>4 DEF Elems
<1> DEFINE from(i) == IF i = Len(s) THEN 1 ELSE i + 1
<1>6. ASSUME NEW i \in 1..Len(t) PROVE from(i) \in 1..Len(s) /\ t[i] = s[from(i)]
  BY <1>2
<1>7. \A i, j \in 1..Len(t) : from(i) = from(j) => i = j
  BY <1>2
<1> HIDE DEF from
<1>8. Distinct(s) => Distinct(t)
  BY <1>6, <1>7 DEF Distinct
<1>9. ReplyOrder(p) = IF p \in Callers THEN t ELSE s
  BY DEF ReplyOrder, t, s
<1>10. Elems(s) = Elems(pend[p]) /\ (Distinct(s) <=> Distinct(pend[p]))
  BY DEF s
<1> QED
  BY <1>1, <1>2, <1>5, <1>8, <1>9, <1>10

\* The loop has ended.
LEMMA RestTypesKept ==
  ASSUME Inv, TypeInv, NEW p \in Workers, NEW mayRest, RestResidual(p, mayRest)
  PROVE  RestTypes' /\ FromClients' /\ Validated' /\ PendInv'
<1>1. /\ pc[p] = "book" /\ Busy(p) /\ pc' = [pc EXCEPT ![p] = "send"]
      /\ pend' = [pend EXCEPT ![p] = ReplyOrder(p)]
      /\ UNCHANGED <<kind, flaky, task, log, left, insertSeq, sendVars, peer, got>>
  BY DEF RestResidual, Busy
<1>2. pend[p] # <<>>
  BY <1>1 DEF TypeInv, PendInv
<1>3. status' \in [Ids -> {"none", "accepted", "rejected", "book_full",
                           "residual_dropped", "canceled", "not_found"}]
  <2>1. status \in [Ids -> {"none", "accepted", "rejected", "book_full",
                            "residual_dropped", "canceled", "not_found"}]
    BY DEF TypeInv, TypeOK
  <2>2. \/ status' = status
        \/ \E y \in {"book_full", "residual_dropped"} :
             status' = [status EXCEPT ![task[p].ord.id] = y]
    BY DEF RestResidual, rejectResidual
  <2> QED
    BY <2>1, <2>2
<1>4. log' \in Seq(Ack \cup Fill) /\ left' \in [Ids -> Nat] /\ insertSeq' \in [Ids -> Nat]
  BY <1>1 DEF TypeInv, TypeOK
<1> DEFINE t == ReplyOrder(p)
<1>5. t \in Seq(Conns \X Nat) /\ t # <<>> /\ Elems(t) = Elems(pend[p])
  BY <1>2, ReplyMessages
<1>6. kind = "disruptor" => \A y \in Elems(t) : y[1] \in Clients
  BY <1>5 DEF TypeInv, FromClients
<1>7. pend' = [pend EXCEPT ![p] = t]
  BY <1>1
<1> HIDE DEF t
<1> QED
  BY <1>1, <1>3, <1>4, <1>5, <1>6, <1>7, AnswerTypes

\* p has handed its first answer over.
LEMMA HandOverTypes ==
  ASSUME Inv, TypeInv, NEW p \in Workers, pc[p] = "send", HandedOver(p),
         UNCHANGED <<kind, task, ring>>
  PROVE  /\ pend' \in [Workers -> Seq(Conns \X Nat)]
         /\ Head(pend[p]) \in Conns \X Nat /\ Head(pend[p]) \in Elems(pend[p])
         /\ kind = "disruptor" => Head(pend[p]) \in Clients \X Nat
         /\ FromClients' /\ Validated' /\ PendInv'
<1> DEFINE s == pend[p]
<1>1. s \in Seq(Conns \X Nat) /\ s # <<>> /\ pend \in [Workers -> Seq(Conns \X Nat)]
  BY DEF TypeInv, TypeOK, PendInv
<1>2. /\ Tail(s) \in Seq(Conns \X Nat) /\ Len(s) \in Nat \ {0} /\ Head(s) = s[1]
      /\ Head(s) \in Conns \X Nat /\ Len(Tail(s)) = Len(s) - 1
      /\ \A i \in 1..Len(s) - 1 : Tail(s)[i] = s[i + 1]
  BY <1>1
<1>3. Head(s) \in Elems(s) /\ Elems(Tail(s)) \subseteq Elems(s)
  <2> DEFINE u == Tail(s)
  <2> HIDE DEF u, s
  <2>1. \A i \in 1..Len(u) : i + 1 \in 1..Len(s) /\ u[i] = s[i + 1]
    BY <1>2 DEF u
  <2>2. Elems(u) \subseteq Elems(s)
    BY <2>1 DEF Elems
  <2>3. Head(s) \in Elems(s)
    BY <1>2 DEF Elems
  <2> QED
    BY <2>2, <2>3 DEF u
<1>4. Tail(s) # <<>> <=> Len(s) > 1
  <2> DEFINE u == Tail(s)
  <2>1. u \in Seq(Conns \X Nat) /\ Len(u) = Len(s) - 1 /\ Len(s) \in Nat \ {0}
    BY <1>2
  <2> HIDE DEF u, s
  <2>2. u = <<>> <=> Len(u) = 0
    BY <2>1, EmptySeq
  <2>3. u # <<>> <=> Len(s) > 1
    BY <2>1, <2>2
  <2> QED
    BY <2>3 DEF u
<1>5. /\ pend' \in [Workers -> Seq(Conns \X Nat)]
      /\ \A q \in Workers : pend'[q] = IF q = p THEN Tail(s) ELSE pend[q]
  BY <1>1, <1>2 DEF HandedOver
<1> DEFINE x == IF Len(s) > 1 THEN "send" ELSE IF p \in Shards THEN "idle" ELSE "read"
<1>6. \A q \in Workers : pc'[q] = IF q = p THEN x ELSE pc[q]
  BY InvTypes DEF HandedOver
<1>7. \A q \in Workers : (Busy(q)' => Busy(q)) /\ (pc'[q] = "enter" => pc[q] = "enter")
  BY <1>6 DEF Busy
<1>8. FromClients'
  <2> SUFFICES ASSUME kind = "disruptor"
               PROVE  /\ \A q \in Workers : Busy(q)' => task[q].req.from \in Clients
                      /\ \A q \in Workers : \A y \in Elems(pend'[q]) : y[1] \in Clients
    BY DEF TypeInv, FromClients
  <2>1. \A q \in Workers : Elems(pend'[q]) \subseteq Elems(pend[q])
    BY <1>3, <1>5
  <2> QED
    BY <1>7, <2>1 DEF TypeInv, FromClients
<1>9. Validated'
  BY <1>7 DEF TypeInv, Validated
<1>10. PendInv'
  <2>1. \A q \in Workers : q # p => (pend'[q] # <<>> <=> pc'[q] \in {"book", "send"})
    BY <1>5, <1>6 DEF TypeInv, PendInv
  <2>2. pend'[p] # <<>> <=> pc'[p] \in {"book", "send"}
    BY <1>4, <1>5, <1>6
  <2> QED
    BY <2>1, <2>2 DEF PendInv
<1>11. ASSUME kind = "disruptor" PROVE Head(s) \in Clients \X Nat
  <2>1. Head(s)[1] \in Clients
    BY <1>3, <1>11 DEF TypeInv, FromClients
  <2> QED
    BY <1>2, <2>1
<1> QED
  BY <1>2, <1>3, <1>5, <1>8, <1>9, <1>10, <1>11

\* Writing to a socket.
LEMMA SendJSONTypes ==
  ASSUME Inv, TypeInv, NEW p \in Workers, SendJSON(p)
  PROVE  RestTypes' /\ FromClients' /\ Validated' /\ PendInv'
<1>1. /\ pc[p] = "send" /\ HandedOver(p)
      /\ UNCHANGED <<kind, flaky, task, ring, log, status, left, insertSeq, out, outQ,
                     outDropped, peer>>
  BY DEF SendJSON, engineVars, sendVars
<1> DEFINE x == Head(pend[p])
<1>2. /\ pend' \in [Workers -> Seq(Conns \X Nat)] /\ x \in Conns \X Nat
      /\ FromClients' /\ Validated' /\ PendInv'
  BY <1>1, HandOverTypes
<1>3. RestTypes
  BY TypeParts DEF TypeInv
<1>4. got' = got \/ got' = [got EXCEPT ![x[1]] = @ \cup {x[2]}]
  BY DEF SendJSON
<1>5. x[1] \in Conns /\ x[2] \in Nat
  BY <1>2
<1> HIDE DEF x
<1>6. got' \in [Conns -> SUBSET Nat]
  <2>1. got \in [Conns -> SUBSET Nat]
    BY <1>3 DEF RestTypes
  <2> DEFINE c == x[1]
             g == got[c] \cup {x[2]}
  <2>2. c \in Conns /\ g \in SUBSET Nat
    BY <1>5, <2>1
  <2>3. got' = got \/ got' = [got EXCEPT ![c] = g]
    BY <1>4
  <2> HIDE DEF c, g
  <2> QED
    BY <2>1, <2>2, <2>3
<1>7. RestTypes'
  BY <1>1, <1>2, <1>3, <1>6 DEF RestTypes
<1> QED
  BY <1>2, <1>7

\* Handing an answer to the output channel.
LEMMA SendOutTypes ==
  ASSUME Inv, TypeInv, NEW p \in Workers, SendOut(p)
  PROVE  RestTypes' /\ FromClients' /\ Validated' /\ PendInv'
<1>1. /\ pc[p] = "send" /\ HandedOver(p) /\ kind = "disruptor"
      /\ out' = Append(out, Head(pend[p]))
      /\ UNCHANGED <<kind, flaky, task, ring, log, status, left, insertSeq, outQ,
                     outDropped, peer, got>>
  BY DEF SendOut, engineVars
<1> DEFINE x == Head(pend[p])
<1>2. /\ pend' \in [Workers -> Seq(Conns \X Nat)] /\ x \in Clients \X Nat
      /\ FromClients' /\ Validated' /\ PendInv'
  BY <1>1, HandOverTypes
<1>3. RestTypes
  BY TypeParts DEF TypeInv
<1>4. out' \in Seq(Clients \X Nat)
  <2>1. out \in Seq(Clients \X Nat) /\ out' = Append(out, x)
    BY <1>1, <1>3 DEF RestTypes
  <2> HIDE DEF x
  <2> QED
    BY <1>2, <2>1, AppendProperties
<1>5. RestTypes'
  BY <1>1, <1>2, <1>3, <1>4 DEF RestTypes
<1> QED
  BY <1>2, <1>5

\* Neither workers nor their requests and answers change.
LEMMA QuietTypes ==
  ASSUME TypeInv, UNCHANGED <<kind, pc, task, pend, ring>>
  PROVE  FromClients' /\ Validated' /\ PendInv'
BY DEF TypeInv, FromClients, Validated, PendInv, Busy

\* The output stage.
LEMMA OutputTypes ==
  ASSUME Inv, TypeInv, NEW i \in DOMAIN out, outputLoop(i)
  PROVE  RestTypes' /\ FromClients' /\ Validated' /\ PendInv'
<1>1. /\ out' = RemoveAt(out, i) /\ enqueue(out[i][1], out[i][2])
      /\ UNCHANGED <<kind, flaky, pc, task, pend, log, status, left, insertSeq, ring,
                     peer, got>>
  BY DEF outputLoop, engineVars
<1>2. FromClients' /\ Validated' /\ PendInv'
  BY <1>1, QuietTypes
<1>3. RestTypes
  BY TypeParts DEF TypeInv
<1>4. out \in Seq(Clients \X Nat) /\ i \in 1..Len(out)
  BY <1>3 DEF RestTypes
<1>5. out' \in Seq(Clients \X Nat)
  <2> DEFINE a == SubSeq(out, 1, i - 1)
             b == SubSeq(out, i + 1, Len(out))
  <2>1. a \in Seq(Clients \X Nat)
    BY <1>4, SubSeqProperties
  <2>2. b \in Seq(Clients \X Nat)
    BY <1>4, SubSeqProperties
  <2>3. out' = a \o b
    BY <1>1 DEF RemoveAt
  <2> HIDE DEF a, b
  <2> QED
    BY <2>1, <2>2, <2>3, ConcatProperties
<1> DEFINE c == out[i][1]
           n == out[i][2]
<1>6. c \in Clients /\ n \in Nat
  BY <1>4
<1>7. \/ outQ' = [outQ EXCEPT ![c] = Append(@, n)] /\ UNCHANGED outDropped
      \/ outDropped' = [outDropped EXCEPT ![c] = @ + 1] /\ UNCHANGED outQ
  BY <1>1 DEF enqueue
<1> HIDE DEF c, n
<1>8. outQ' \in [Clients -> Seq(Nat)] /\ outDropped' \in [Clients -> Nat]
  <2>1. outQ \in [Clients -> Seq(Nat)] /\ outDropped \in [Clients -> Nat]
    BY <1>3 DEF RestTypes
  <2>2. CASE outQ' = [outQ EXCEPT ![c] = Append(@, n)] /\ UNCHANGED outDropped
    BY <1>6, <2>1, <2>2
  <2>3. CASE outDropped' = [outDropped EXCEPT ![c] = @ + 1] /\ UNCHANGED outQ
    BY <1>6, <2>1, <2>3
  <2> QED
    BY <1>7, <2>2, <2>3
<1>9. RestTypes'
  BY <1>1, <1>3, <1>5, <1>8 DEF RestTypes
<1> QED
  BY <1>2, <1>9

\* A client's writer, and its peer.
LEMMA PeerTypes ==
  ASSUME Inv, TypeInv, NEW c \in Clients, writeLoop(c) \/ Stall(c) \/ Reap(c)
  PROVE  RestTypes' /\ FromClients' /\ Validated' /\ PendInv'
<1>1. UNCHANGED <<kind, flaky, pc, task, pend, log, status, left, insertSeq, ring, out,
                  outDropped>>
  BY DEF writeLoop, Stall, Reap, engineVars, sendVars
<1>2. FromClients' /\ Validated' /\ PendInv'
  BY <1>1, QuietTypes
<1>3. RestTypes
  BY TypeParts DEF TypeInv
<1>4. CASE writeLoop(c)
  <2>1. /\ outQ[c] # <<>> /\ UNCHANGED peer
        /\ got' = [got EXCEPT ![c] = @ \cup {Head(outQ[c])}]
        /\ outQ' = [outQ EXCEPT ![c] = Tail(@)]
    BY <1>4 DEF writeLoop
  <2>2. outQ[c] \in Seq(Nat) /\ c \in Conns
    BY <1>3 DEF RestTypes, Conns
  <2>3. Head(outQ[c]) \in Nat /\ Tail(outQ[c]) \in Seq(Nat)
    BY <2>1, <2>2
  <2>4. got' \in [Conns -> SUBSET Nat]
    BY <1>3, <2>1, <2>2, <2>3 DEF RestTypes
  <2>5. outQ' \in [Clients -> Seq(Nat)]
    BY <1>3, <2>1, <2>3 DEF RestTypes
  <2> QED
    BY <1>1, <1>2, <1>3, <2>1, <2>4, <2>5 DEF RestTypes
<1>5. CASE Stall(c) \/ Reap(c)
  <2>1. UNCHANGED <<outQ, got>>
    BY <1>5 DEF Stall, Reap, sendVars
  <2>2. peer' \in [Clients -> {"reads", "stalled", "gone"}]
    BY <1>3, <1>5 DEF Stall, Reap, RestTypes
  <2> QED
    BY <1>1, <1>2, <1>3, <2>1, <2>2 DEF RestTypes
<1> QED
  BY <1>4, <1>5

\* Reading, publishing and consuming move a request and validate it.
LEMMA MoveTypes ==
  ASSUME Inv, TypeInv,
         \/ \E p \in Conns : \/ \E r \in todo : ws(p, r) \/ orders(p, r)
                             \/ Publish(p)
         \/ \E s \in Shards : Consume(s)
  PROVE  RestTypes' /\ FromClients' /\ Validated' /\ PendInv'
<1>1. RestTypes
  BY TypeParts DEF TypeInv
<1>2. ASSUME UNCHANGED <<kind, flaky, pend, log, status, left, insertSeq, out, outQ,
                         outDropped, peer, got>>,
             task' \in [Workers -> Task \cup {None}]
      PROVE  RestTypes'
  BY <1>1, <1>2 DEF RestTypes
<1>3. ASSUME NEW p \in Conns, NEW r \in todo, ws(p, r) \/ orders(p, r)
      PROVE  RestTypes' /\ FromClients' /\ Validated' /\ PendInv'
  <2>1. /\ p \in Workers /\ pc[p] = "read" /\ r \in Request /\ r.from = p
        /\ UNCHANGED <<kind, flaky, pend, log, status, left, insertSeq, ring, out, outQ,
                       outDropped, peer, got>>
        /\ \/ UNCHANGED <<pc, task>>
           \/ \E x \in {"aside", "enter"}, o \in Request \cup {None} :
                /\ pc' = [pc EXCEPT ![p] = x]
                /\ task' = [task EXCEPT ![p] = [req |-> r, ord |-> o]]
                /\ x = "enter" /\ r.type = "new" => (kind = "mutex" => r.qty > 0)
                /\ kind = "disruptor" => p \in Clients
    BY <1>3, ReadCases DEF engineVars, sendVars
  <2>2. CASE UNCHANGED <<pc, task>>
    BY <1>1, <1>2, <2>1, <2>2, QuietTypes DEF RestTypes
  <2>3. ASSUME NEW x \in {"aside", "enter"}, NEW o \in Request \cup {None},
               pc' = [pc EXCEPT ![p] = x],
               task' = [task EXCEPT ![p] = [req |-> r, ord |-> o]],
               x = "enter" /\ r.type = "new" => (kind = "mutex" => r.qty > 0),
               kind = "disruptor" => p \in Clients
        PROVE  RestTypes' /\ FromClients' /\ Validated' /\ PendInv'
    <3> DEFINE t == [req |-> r, ord |-> o]
    <3>1. t \in Task /\ t.req = r
      BY <2>1 DEF Task
    <3>2. task' = [task EXCEPT ![p] = t]
      BY <2>3
    <3> HIDE DEF t
    <3>3. task' \in [Workers -> Task \cup {None}]
      BY <1>1, <2>1, <3>1, <3>2 DEF RestTypes
    <3>4. \A w \in Workers : /\ pc'[w] = IF w = p THEN x ELSE pc[w]
                             /\ task'[w] = IF w = p THEN t ELSE task[w]
      BY <1>1, <2>1, <2>3, <3>2, InvTypes DEF RestTypes
    <3>5. FromClients'
      BY <2>1, <2>3, <3>1, <3>4 DEF TypeInv, FromClients, Busy
    <3>6. p \notin Shards
      BY ProcessesAreDistinct
    <3>7. Validated'
      BY <2>1, <2>3, <3>1, <3>4, <3>6 DEF TypeInv, Validated
    <3>8. PendInv'
      BY <2>1, <2>3, <3>4 DEF TypeInv, PendInv
    <3> QED
      BY <1>2, <2>1, <3>3, <3>5, <3>7, <3>8
  <2> QED
    BY <2>1, <2>2, <2>3
<1>4. ASSUME NEW p \in Conns, Publish(p)
      PROVE  RestTypes' /\ FromClients' /\ Validated' /\ PendInv'
  <2> DEFINE u == ShardOf[task[p].ord.sym]
  <2>1. /\ pc[p] = "enter" /\ pc' = [pc EXCEPT ![p] = "read"] /\ p \in Workers
        /\ ring' = [ring EXCEPT ![u] = Append(@, task[p])]
        /\ UNCHANGED <<kind, flaky, task, pend, log, status, left, insertSeq, out, outQ,
                       outDropped, peer, got>>
    BY <1>4 DEF Publish, engineVars, Workers
  <2>2. u \in Shards /\ task[p] \in Task /\ Busy(p)
    BY <2>1, ShardsAssumption DEF Inv, HeldInv, Enters, Request, Busy
  <2> HIDE DEF u
  <2>3. \A w \in Workers : pc'[w] = IF w = p THEN "read" ELSE pc[w]
    BY <2>1, InvTypes
  <2>4. \A s \in Shards \ {u} : ring'[s] = ring[s]
    BY <2>1, InvTypes
  <2>5. /\ Len(ring'[u]) = Len(ring[u]) + 1 /\ ring'[u][Len(ring[u]) + 1] = task[p]
        /\ Len(ring[u]) \in Nat
        /\ \A i \in 1..Len(ring[u]) : ring'[u][i] = ring[u][i]
    BY <2>1, <2>2, InvTypes
  <2>6. ASSUME NEW s \in Shards, NEW i \in 1..Len(ring'[s])
        PROVE  \/ ring'[s][i] = task[p]
               \/ i \in 1..Len(ring[s]) /\ ring'[s][i] = ring[s][i]
    BY <2>4, <2>5
  <2>7. FromClients'
    <3>1. \A w \in Workers : Busy(w)' => Busy(w)
      BY <2>3 DEF Busy
    <3> QED
      BY <2>1, <2>2, <2>6, <3>1 DEF TypeInv, FromClients
  <2>8. Validated' /\ PendInv'
    BY <2>1, <2>3 DEF TypeInv, Validated, PendInv
  <2> QED
    BY <1>1, <1>2, <2>1, <2>7, <2>8 DEF RestTypes
<1>5. ASSUME NEW u \in Shards, Consume(u)
      PROVE  RestTypes' /\ FromClients' /\ Validated' /\ PendInv'
  <2> DEFINE x == IF Head(ring[u]).req.type = "new" /\ Invalid(Head(ring[u]).req)
                    THEN "aside" ELSE "enter"
  <2>1. /\ pc[u] = "idle" /\ ring[u] # <<>> /\ u \in Workers
        /\ pc' = [pc EXCEPT ![u] = x]
        /\ task' = [task EXCEPT ![u] = Head(ring[u])]
        /\ ring' = [ring EXCEPT ![u] = Tail(@)]
        /\ UNCHANGED <<kind, flaky, pend, log, status, left, insertSeq, out, outQ,
                       outDropped, peer, got>>
    BY <1>5 DEF Consume, engineVars, Workers
  <2>2. /\ ring[u] \in Seq(Task) /\ Len(ring[u]) \in Nat /\ 1 \in 1..Len(ring[u])
        /\ Head(ring[u]) = ring[u][1] /\ Head(ring[u]) \in Task
        /\ Len(ring'[u]) = Len(ring[u]) - 1
        /\ \A i \in 1..Len(ring[u]) - 1 : ring'[u][i] = ring[u][i + 1]
    BY <2>1, InvTypes
  <2>3. x \in {"aside", "enter"}
    OBVIOUS
  <2>4. x = "enter" /\ Head(ring[u]).req.type = "new" => Head(ring[u]).req.qty > 0
    <3>1. Head(ring[u]).req \in Request
      BY <2>2 DEF Task
    <3> QED
      BY <3>1, RequestFields DEF Invalid
  <2> HIDE DEF x
  <2>5. \A w \in Workers : /\ pc'[w] = IF w = u THEN x ELSE pc[w]
                           /\ task'[w] = IF w = u THEN Head(ring[u]) ELSE task[w]
    BY <1>1, <2>1, InvTypes DEF RestTypes
  <2>6. task' \in [Workers -> Task \cup {None}]
    BY <1>1, <2>1, <2>2 DEF RestTypes
  <2>7. \A s \in Shards \ {u} : ring'[s] = ring[s]
    BY <2>1, InvTypes
  <2>8. ASSUME NEW s \in Shards, NEW i \in 1..Len(ring'[s])
        PROVE  \E j \in 1..Len(ring[s]) : ring'[s][i] = ring[s][j]
    <3>1. CASE s = u
      <4>1. i + 1 \in 1..Len(ring[s]) /\ ring'[s][i] = ring[s][i + 1]
        BY <2>2, <3>1
      <4> QED
        BY <4>1
    <3>2. CASE s # u
      BY <2>7, <3>2
    <3> QED
      BY <3>1, <3>2
  <2>9. FromClients'
    <3> SUFFICES ASSUME kind = "disruptor"
                 PROVE  /\ \A w \in Workers : Busy(w)' => task'[w].req.from \in Clients
                        /\ \A s \in Shards : \A i \in 1..Len(ring'[s]) :
                             ring'[s][i].req.from \in Clients
      BY <2>1 DEF TypeInv, FromClients
    <3>1. \A s \in Shards : \A i \in 1..Len(ring[s]) : ring[s][i].req.from \in Clients
      BY DEF TypeInv, FromClients
    <3>2. ASSUME NEW s \in Shards, NEW i \in 1..Len(ring'[s])
          PROVE  ring'[s][i].req.from \in Clients
      BY <2>8, <3>1
    <3>3. \A w \in Workers : Busy(w)' => w = u \/ Busy(w)
      BY <2>5 DEF Busy
    <3>4. \A w \in Workers : Busy(w)' => task'[w].req.from \in Clients
      BY <2>2, <2>5, <3>1, <3>3 DEF TypeInv, FromClients
    <3> QED
      BY <3>2, <3>4
  <2>10. Validated'
    BY <2>1, <2>4, <2>5 DEF TypeInv, Validated
  <2>11. PendInv'
    BY <2>1, <2>3, <2>5 DEF TypeInv, PendInv
  <2> QED
    BY <1>2, <2>1, <2>6, <2>9, <2>10, <2>11
<1> QED
  BY <1>3, <1>4, <1>5

\* Every step keeps the types.
LEMMA StepTypes ==
  ASSUME Inv, Inv', UniqueIds, TypeInv, [Next]_vars
  PROVE  TypeInv'
<1> SUFFICES RestTypes' /\ FromClients' /\ Validated' /\ PendInv'
  <2>1. /\ todo' \subseteq Request
        /\ pc' \in [Workers -> {"read", "idle", "aside", "enter", "book", "send"}]
        /\ ring' \in [Shards -> Seq(Task)]
    BY DEF Inv, HeldInv
  <2>2. books' \in [Symbols -> [Side -> Seq(Request)]]
    BY DEF Inv, LadderInv
  <2>3. index' \subseteq Request
    BY <2>2 DEF Inv, IndexInv, Elems
  <2> QED
    BY <2>1, <2>2, <2>3 DEF TypeInv, TypeOK, RestTypes
<1>1. CASE UNCHANGED vars
  <2>1. RestTypes
    BY TypeParts DEF TypeInv
  <2> QED
    BY <1>1, <2>1, QuietTypes DEF vars, engineVars, sendVars, RestTypes
<1>2. CASE \/ \E p \in Conns : \/ \E r \in todo : ws(p, r) \/ orders(p, r)
                               \/ Publish(p)
           \/ \E s \in Shards : Consume(s)
  BY <1>2, MoveTypes
<1>3. ASSUME NEW p \in Workers, Handle(p)
      PROVE  RestTypes' /\ FromClients' /\ Validated' /\ PendInv'
  BY <1>3, HandleCases, AsideTypes, AcceptTypes, TradeTypes, RestTypesKept, RemoveTypes,
     SendJSONTypes, SendOutTypes
<1>4. ASSUME NEW i \in DOMAIN out, outputLoop(i)
      PROVE  RestTypes' /\ FromClients' /\ Validated' /\ PendInv'
  BY <1>4, OutputTypes
<1>5. ASSUME NEW c \in Clients, writeLoop(c) \/ Stall(c) \/ Reap(c)
      PROVE  RestTypes' /\ FromClients' /\ Validated' /\ PendInv'
  BY <1>5, PeerTypes
<1> QED
  BY <1>1, <1>2, <1>3, <1>4, <1>5 DEF Next

\* The state of both engines is well typed: quantities and numbers never turn
\* negative, only clients reach the disruptor's output stage, and no worker takes a
\* request up with answers outstanding.
THEOREM TypeCorrect ==
  Spec => [](TypeOK /\ PendInv)
<1>1. Init => Inv /\ UniqueIds /\ TypeInv
  BY InitInv, InitIds, InitTypes
<1>2. (Inv /\ UniqueIds /\ TypeInv) /\ [Next]_vars => (Inv /\ UniqueIds /\ TypeInv)'
  BY StepInv, StepIds, StepTypes
<1>3. TypeInv => TypeOK /\ PendInv
  BY DEF TypeInv
<1> QED
  BY <1>1, <1>2, <1>3, PTL DEF Spec

-----------------------------------------------------------------------------
(* The order of a ladder                                                   *)

\* orderBefore is a strict order of the orders of one side; arrival decides when
\* price and time do not.
LEMMA BeforeIsOrder ==
  ASSUME insertSeq \in [Ids -> Nat],
         NEW a \in Request, NEW b \in Request, NEW c \in Request,
         a.side = b.side, b.side = c.side
  PROVE  /\ ~orderBefore(a, a)
         /\ orderBefore(a, b) => ~orderBefore(b, a)
         /\ orderBefore(a, b) /\ orderBefore(b, c) => orderBefore(a, c)
         /\ insertSeq[a.id] # insertSeq[b.id] => orderBefore(a, b) \/ orderBefore(b, a)
<1>1. /\ \A x \in {a, b, c} : /\ x.price \in Int /\ x.ts \in Nat /\ x.id \in Ids
                              /\ x.side \in {"BUY", "SELL"}
  BY RequestFields DEF Side
<1>2. \A x \in {a, b, c} : insertSeq[x.id] \in Nat
  BY <1>1
<1>3. CASE a.side = "BUY"
  BY <1>1, <1>2, <1>3 DEF orderBefore
<1>4. CASE a.side # "BUY"
  BY <1>1, <1>2, <1>4 DEF orderBefore
<1> QED
  BY <1>3, <1>4

\* An order that comes first is not the worse one in price.
LEMMA BeforeIsBetter ==
  ASSUME insertSeq \in [Ids -> Nat], NEW a \in Request, NEW b \in Request,
         a.side = b.side, orderBefore(a, b)
  PROVE  IF a.side = "BUY" THEN a.price >= b.price ELSE a.price <= b.price
<1>1. /\ a.price \in Int /\ b.price \in Int
  BY RequestFields
<1> QED
  BY <1>1 DEF orderBefore

\* A sequence of orders in price-time order.
Sorted(s) == \A i, j \in 1..Len(s) : i < j => orderBefore(s[i], s[j])

\* insertSorted keeps a ladder sorted.
LEMMA InsertSorted ==
  ASSUME insertSeq \in [Ids -> Nat], NEW s \in Seq(Request), NEW o \in Request,
         Sorted(s), \A i \in 1..Len(s) : s[i].side = o.side,
         \A i \in 1..Len(s) : insertSeq[s[i].id] # insertSeq[o.id]
  PROVE  Sorted(insertSorted(s, o))
<1> DEFINE holds == [i \in DOMAIN s |-> orderBefore(o, s[i])]
           S == {holds[i] : i \in DOMAIN s}
           k == Search(holds)
           t == InsertAt(s, k, o)
<1>1. Len(s) \in Nat /\ DOMAIN s = 1..Len(s) /\ \A i \in 1..Len(s) : s[i] \in Request
  OBVIOUS
<1>2. holds \in [1..Len(s) -> S]
  BY <1>1
<1>3. \A i \in 1..Len(s) : holds[i] <=> orderBefore(o, s[i])
  BY <1>1
<1>4. t = insertSorted(s, o)
  BY DEF insertSorted
<1> HIDE DEF holds, S
<1>5. /\ k \in 1..Len(s) + 1
      /\ k <= Len(s) => holds[k]
      /\ \A j \in 1..k - 1 : ~holds[j]
  BY <1>1, <1>2, SearchFinds
<1> HIDE DEF k
<1>6. /\ Len(t) = Len(s) + 1
      /\ \A j \in 1..Len(s) + 1 :
           t[j] = IF j < k THEN s[j] ELSE IF j = k THEN o ELSE s[j - 1]
  BY <1>5, InsertAtIs
<1> HIDE DEF t
<1>7. ASSUME NEW j \in 1..Len(s), j < k PROVE orderBefore(s[j], o)
  <2>1. ~orderBefore(o, s[j])
    BY <1>1, <1>3, <1>5, <1>7
  <2> QED
    BY <1>1, <2>1, BeforeIsOrder
<1>8. ASSUME NEW j \in 1..Len(s), j >= k PROVE orderBefore(o, s[j])
  <2>1. k \in 1..Len(s) /\ orderBefore(o, s[k])
    BY <1>1, <1>3, <1>5, <1>8
  <2>2. j = k \/ orderBefore(s[k], s[j])
    BY <1>8, <2>1 DEF Sorted
  <2>3. /\ s[k] \in Request /\ s[j] \in Request /\ o.side = s[k].side
        /\ s[k].side = s[j].side
    BY <1>1, <2>1
  <2> QED
    BY <2>1, <2>2, <2>3, BeforeIsOrder
<1>9. ASSUME NEW i \in 1..Len(t), NEW j \in 1..Len(t), i < j
      PROVE  orderBefore(t[i], t[j])
  <2>1. CASE j < k
    <3>1. i \in 1..Len(s) /\ j \in 1..Len(s) /\ t[i] = s[i] /\ t[j] = s[j]
      BY <1>1, <1>5, <1>6, <1>9, <2>1
    <3> QED
      BY <1>9, <3>1 DEF Sorted
  <2>2. CASE j = k
    <3>1. i \in 1..Len(s) /\ t[i] = s[i] /\ t[j] = o
      BY <1>1, <1>5, <1>6, <1>9, <2>2
    <3> QED
      BY <1>7, <1>9, <2>2, <3>1
  <2>3. CASE i = k
    <3>1. j - 1 \in 1..Len(s) /\ t[j] = s[j - 1] /\ t[i] = o /\ j - 1 >= k
      BY <1>1, <1>5, <1>6, <1>9, <2>3
    <3> QED
      BY <1>8, <3>1
  <2>4. CASE i < k /\ k < j
    <3>1. /\ i \in 1..Len(s) /\ j - 1 \in 1..Len(s) /\ t[i] = s[i] /\ t[j] = s[j - 1]
          /\ j - 1 >= k
      BY <1>1, <1>5, <1>6, <1>9, <2>4
    <3>2. orderBefore(s[i], o) /\ orderBefore(o, s[j - 1])
      BY <1>7, <1>8, <2>4, <3>1
    <3>3. /\ s[i] \in Request /\ s[j - 1] \in Request
          /\ s[i].side = o.side /\ o.side = s[j - 1].side
      BY <1>1, <3>1
    <3> QED
      BY <3>1, <3>2, <3>3, BeforeIsOrder
  <2>5. CASE k < i
    <3>1. /\ i - 1 \in 1..Len(s) /\ j - 1 \in 1..Len(s) /\ t[i] = s[i - 1]
          /\ t[j] = s[j - 1] /\ i - 1 < j - 1
      BY <1>1, <1>5, <1>6, <1>9, <2>5
    <3> QED
      BY <3>1 DEF Sorted
  <2> QED
    BY <1>1, <1>5, <1>6, <1>9, <2>1, <2>2, <2>3, <2>4, <2>5
<1> QED
  BY <1>4, <1>9 DEF Sorted

\* Removals keep it sorted.
LEMMA RemoveSorted ==
  ASSUME NEW s \in Seq(Request), Sorted(s)
  PROVE  /\ \A i \in 1..Len(s) : Sorted(RemoveAt(s, i))
         /\ s # <<>> => Sorted(Tail(s))
<1>1. ASSUME NEW i \in 1..Len(s) PROVE Sorted(RemoveAt(s, i))
  <2> DEFINE t == RemoveAt(s, i)
             at(j) == IF j < i THEN j ELSE j + 1
  <2>1. /\ Len(t) = Len(s) - 1 /\ Len(s) \in Nat
        /\ \A j \in 1..Len(s) - 1 : j < i => t[j] = s[j]
        /\ \A j \in 1..Len(s) - 1 : j >= i => t[j] = s[j + 1]
    BY RemoveAtIs
  <2> HIDE DEF t
  <2>2. \A j \in 1..Len(t) : at(j) \in 1..Len(s) /\ t[j] = s[at(j)]
    BY <2>1
  <2>3. \A j, m \in 1..Len(t) : j < m => at(j) < at(m)
    BY <2>1
  <2> HIDE DEF at
  <2>4. Sorted(t)
    BY <2>2, <2>3 DEF Sorted
  <2> QED
    BY <2>4 DEF t
<1>2. ASSUME s # <<>> PROVE Sorted(Tail(s))
  <2> DEFINE t == Tail(s)
  <2>1. /\ Len(t) = Len(s) - 1 /\ Len(s) \in Nat
        /\ \A j \in 1..Len(s) - 1 : t[j] = s[j + 1]
    BY <1>2
  <2> HIDE DEF t
  <2>2. Sorted(t)
    BY <2>1 DEF Sorted
  <2> QED
    BY <2>2 DEF t
<1> QED
  BY <1>1, <1>2

\* On a sorted ladder, binary search finds an order that is there.
LEMMA PositionFinds ==
  ASSUME insertSeq \in [Ids -> Nat], NEW s \in Seq(Request), Sorted(s),
         NEW side, \A i \in 1..Len(s) : s[i].side = side, NEW o \in Elems(s)
  PROVE  Position(s, o) \in 1..Len(s) /\ RestsAt(s, Position(s, o), o)
<1> DEFINE holds == [i \in DOMAIN s |-> ~orderBefore(s[i], o)]
           S == {holds[i] : i \in DOMAIN s}
           k == Search(holds)
<1>1. Len(s) \in Nat /\ DOMAIN s = 1..Len(s) /\ \A i \in 1..Len(s) : s[i] \in Request
  OBVIOUS
<1>2. holds \in [1..Len(s) -> S]
  BY <1>1
<1>3. \A i \in 1..Len(s) : holds[i] <=> ~orderBefore(s[i], o)
  BY <1>1
<1>4. k = Position(s, o)
  BY DEF Position
<1> HIDE DEF holds, S
<1>5. /\ k \in 1..Len(s) + 1
      /\ k <= Len(s) => holds[k]
      /\ \A j \in 1..k - 1 : ~holds[j]
  BY <1>1, <1>2, SearchFinds
<1> HIDE DEF k
<1>6. PICK m \in 1..Len(s) : s[m] = o
  BY DEF Elems
<1>7. ~(k < m)
  <2> SUFFICES ASSUME k < m PROVE FALSE
    OBVIOUS
  <2>1. k \in 1..Len(s) /\ ~orderBefore(s[k], o)
    BY <1>1, <1>3, <1>5
  <2> QED
    BY <1>6, <2>1 DEF Sorted
<1>8. ~(m < k)
  <2> SUFFICES ASSUME m < k PROVE FALSE
    OBVIOUS
  <2>1. ~holds[m]
    BY <1>1, <1>5
  <2>2. orderBefore(o, o) /\ o \in Request
    BY <1>1, <1>3, <1>6, <2>1
  <2> QED
    BY <2>2, BeforeIsOrder
<1>9. k = m
  BY <1>5, <1>7, <1>8
<1> QED
  BY <1>1, <1>4, <1>6, <1>9 DEF RestsAt

\* insertSorted adds the order it is given.
LEMMA InsertSortedElems ==
  ASSUME NEW s \in Seq(Request), NEW o \in Request
  PROVE  Elems(insertSorted(s, o)) = Elems(s) \cup {o}
<1> DEFINE holds == [i \in DOMAIN s |-> orderBefore(o, s[i])]
           S == {holds[i] : i \in DOMAIN s}
           k == Search(holds)
<1>1. Len(s) \in Nat /\ DOMAIN s = 1..Len(s)
  OBVIOUS
<1>2. holds \in [1..Len(s) -> S]
  BY <1>1
<1>3. insertSorted(s, o) = InsertAt(s, k, o)
  BY DEF insertSorted
<1> HIDE DEF holds, S
<1>4. k \in 1..Len(s) + 1
  BY <1>1, <1>2, SearchFinds
<1> HIDE DEF k
<1>5. Elems(InsertAt(s, k, o)) = Elems(s) \cup {o}
  BY <1>4, InsertAtElems
<1> QED
  BY <1>3, <1>5

\* The position of an order is on its ladder, or just after it.
LEMMA PositionInRange ==
  ASSUME NEW s \in Seq(Request), NEW o
  PROVE  Position(s, o) \in 1..Len(s) + 1
<1> DEFINE holds == [i \in DOMAIN s |-> ~orderBefore(s[i], o)]
           S == {holds[i] : i \in DOMAIN s}
<1>1. Len(s) \in Nat /\ DOMAIN s = 1..Len(s)
  OBVIOUS
<1>2. holds \in [1..Len(s) -> S]
  BY <1>1
<1>3. Position(s, o) = Search(holds)
  BY DEF Position
<1> HIDE DEF holds, S
<1>4. Search(holds) \in 1..Len(s) + 1
  BY <1>1, <1>2, SearchFinds
<1> QED
  BY <1>3, <1>4

\* What removeOrder finds was on the ladder.
LEMMA RestsAtFinds ==
  ASSUME NEW s \in Seq(Request), NEW o, RestsAt(s, Position(s, o), o)
  PROVE  Position(s, o) \in 1..Len(s) /\ o \in Elems(s)
<1> DEFINE i == Position(s, o)
<1>1. i \in 1..Len(s) + 1 /\ Len(s) \in Nat
  BY PositionInRange
<1>2. i <= Len(s) /\ s[i] = o
  BY DEF RestsAt
<1> HIDE DEF i
<1>3. i \in 1..Len(s)
  BY <1>1, <1>2
<1>4. o \in Elems(s)
  BY <1>2, <1>3 DEF Elems
<1> QED
  BY <1>3, <1>4 DEF i

-----------------------------------------------------------------------------
(* The books                                                               *)

\* Nothing happens in a book.
Elsewhere ==
  /\ UNCHANGED <<books, index, left, insertSeq>>
  /\ log' = log \/ \E r \in Request : log' = Append(log, [at |-> "aside", req |-> r])
  /\ \A p \in Workers : /\ pc'[p] = "book" <=> pc[p] = "book"
                        /\ pc[p] = "book" => task'[p] = task[p]

\* A step is outside the books, or one of matching's four.
LEMMA BookCases ==
  ASSUME Inv, TypeInv, [Next]_vars
  PROVE  \/ Elsewhere
         \/ \E p \in Workers :
              \/ /\ pc[p] = "enter" /\ task[p].req.type = "new" /\ Accept(p)
                 /\ HasLock(p) \/ p \in Shards
              \/ Trade(p)
              \/ \E mayRest \in BOOLEAN : RestResidual(p, mayRest)
              \/ \E known \in BOOLEAN :
                   /\ pc[p] = "enter" /\ task[p].req.type = "cancel"
                   /\ RemoveOrder(p, task[p].ord, known) /\ Handle(p)
                   /\ HasLock(p) \/ p \in Shards
<1>1. ASSUME UNCHANGED <<books, index, left, insertSeq, log, pc, task>> PROVE Elsewhere
  BY <1>1 DEF Elsewhere
<1>2. CASE UNCHANGED vars
  BY <1>1, <1>2 DEF vars, engineVars
<1>3. ASSUME NEW p \in Workers, NEW x \in {"read", "idle", "aside", "enter", "send"},
             pc[p] # "book", pc' = [pc EXCEPT ![p] = x],
             task' = task \/ \E t : task' = [task EXCEPT ![p] = t],
             UNCHANGED <<books, index, left, insertSeq>>,
             \/ log' = log
             \/ \E r \in Request : log' = Append(log, [at |-> "aside", req |-> r])
      PROVE  Elsewhere
  <2>1. \A q \in Workers : pc'[q] = IF q = p THEN x ELSE pc[q]
    BY <1>3, InvTypes
  <2>2. \A q \in Workers : q # p => task'[q] = task[q]
    BY <1>3 DEF Inv, HeldInv
  <2> QED
    BY <1>3, <2>1, <2>2 DEF Elsewhere
<1>4. ASSUME NEW p \in Conns, NEW r \in todo, ws(p, r) \/ orders(p, r) PROVE Elsewhere
  <2>1. /\ p \in Workers /\ pc[p] = "read"
        /\ UNCHANGED <<books, index, left, insertSeq, log>>
        /\ \/ UNCHANGED <<pc, task>>
           \/ \E x \in {"aside", "enter"}, o \in Request \cup {None} :
                /\ pc' = [pc EXCEPT ![p] = x]
                /\ task' = [task EXCEPT ![p] = [req |-> r, ord |-> o]]
    BY <1>4, ReadCases DEF engineVars
  <2>2. CASE UNCHANGED <<pc, task>>
    BY <1>1, <2>1, <2>2
  <2>3. ASSUME NEW x \in {"aside", "enter"}, NEW o \in Request \cup {None},
               pc' = [pc EXCEPT ![p] = x],
               task' = [task EXCEPT ![p] = [req |-> r, ord |-> o]]
        PROVE  Elsewhere
    BY <1>3, <2>1, <2>3
  <2> QED
    BY <2>1, <2>2, <2>3
<1>5. ASSUME NEW p \in Conns, Publish(p) PROVE Elsewhere
  <2>1. /\ pc[p] = "enter" /\ pc' = [pc EXCEPT ![p] = "read"] /\ p \in Workers
        /\ UNCHANGED <<books, index, left, insertSeq, log, task>>
    BY <1>5 DEF Publish, engineVars, Workers
  <2> QED
    BY <1>3, <2>1
<1>6. ASSUME NEW s \in Shards, Consume(s) PROVE Elsewhere
  <2>1. PICK x \in {"aside", "enter"} : pc' = [pc EXCEPT ![s] = x]
    BY <1>6 DEF Consume
  <2>2. /\ pc[s] = "idle" /\ s \in Workers
        /\ task' = [task EXCEPT ![s] = Head(ring[s])]
        /\ UNCHANGED <<books, index, left, insertSeq, log>>
    BY <1>6 DEF Consume, engineVars, Workers
  <2> QED
    BY <1>3, <2>1, <2>2
<1>7. ASSUME NEW p \in Workers, Aside(p) PROVE Elsewhere
  <2>1. /\ pc[p] = "aside" /\ pc' = [pc EXCEPT ![p] = "send"]
        /\ log' = Append(log, [at |-> "aside", req |-> task[p].req])
        /\ UNCHANGED <<books, index, left, insertSeq, task>>
    BY <1>7 DEF Aside, Stamp
  <2>2. task[p].req \in Request
    BY <2>1, HeldTypes DEF Busy
  <2> QED
    BY <1>3, <2>1, <2>2
<1>8. ASSUME NEW p \in Workers, SendJSON(p) \/ SendOut(p) PROVE Elsewhere
  <2>1. PICK x \in {"read", "idle", "send"} : pc' = [pc EXCEPT ![p] = x]
    BY <1>8 DEF SendJSON, SendOut, HandedOver
  <2>2. pc[p] = "send" /\ UNCHANGED <<books, index, left, insertSeq, log, task>>
    BY <1>8 DEF SendJSON, SendOut, engineVars
  <2> QED
    BY <1>3, <2>1, <2>2
<1>9. ASSUME NEW i \in DOMAIN out, outputLoop(i) PROVE Elsewhere
  BY <1>1, <1>9 DEF outputLoop, engineVars
<1>10. ASSUME NEW c \in Clients, writeLoop(c) \/ Stall(c) \/ Reap(c) PROVE Elsewhere
  BY <1>1, <1>10 DEF writeLoop, Stall, Reap, engineVars
<1> QED
  BY <1>2, <1>4, <1>5, <1>6, <1>7, <1>8, <1>9, <1>10, HandleCases DEF Next

\* The number of orders a book has seen.
LEMMA EnteredCounts ==
  ASSUME TypeOK, NEW sym
  PROVE  /\ Entered(sym) \subseteq 1..Len(log) /\ IsFiniteSet(Entered(sym))
         /\ Cardinality(Entered(sym)) \in Nat
<1>1. log \in Seq(Ack \cup Fill)
  BY DEF TypeOK
<1>2. Entered(sym) \in SUBSET (1..Len(log)) /\ Len(log) \in Nat
  BY <1>1 DEF Entered
<1>3. IsFiniteSet(1..Len(log))
  BY <1>2, FS_Interval
<1>4. IsFiniteSet(Entered(sym))
  BY <1>2, <1>3, FS_Subset
<1> QED
  BY <1>2, <1>4, FS_CardinalityType

\* It grows by one with a new order, and by none with another entry.
LEMMA EnteredGrows ==
  ASSUME TypeOK, NEW e \in Ack \cup Fill, log' = Append(log, e), NEW sym
  PROVE  Cardinality(Entered(sym)') =
           IF e.at = "book" /\ e.req.type = "new" /\ e.req.sym = sym
             THEN 1 + Cardinality(Entered(sym)) ELSE Cardinality(Entered(sym))
<1> DEFINE n == Len(log) + 1
<1>1. /\ Len(log) \in Nat /\ DOMAIN log = 1..Len(log)
      /\ DOMAIN log' = 1..n /\ log'[n] = e
      /\ \A m \in 1..Len(log) : log'[m] = log[m]
  BY AppendProperties DEF TypeOK
<1>2. Entered(sym) \subseteq 1..Len(log) /\ IsFiniteSet(Entered(sym))
  BY EnteredCounts
<1>3. n \notin Entered(sym) /\ n \notin 1..Len(log) /\ 1..n = 1..Len(log) \cup {n}
  BY <1>1, <1>2
<1>4. CASE e.at = "book" /\ e.req.type = "new" /\ e.req.sym = sym
  <2>1. Entered(sym)' = Entered(sym) \cup {n}
    BY <1>1, <1>3, <1>4 DEF Entered
  <2>2. Cardinality(Entered(sym)) \in Nat
    BY EnteredCounts
  <2> HIDE DEF n
  <2>3. Cardinality(Entered(sym) \cup {n}) = Cardinality(Entered(sym)) + 1
    BY <1>2, <1>3, FS_AddElement
  <2> QED
    BY <1>4, <2>1, <2>2, <2>3
<1>5. CASE ~(e.at = "book" /\ e.req.type = "new" /\ e.req.sym = sym)
  <2>1. Entered(sym)' = Entered(sym)
    BY <1>1, <1>3, <1>5 DEF Entered
  <2> QED
    BY <1>5, <2>1
<1> QED
  BY <1>4, <1>5

\* Orders that have a place in time: being matched, or resting.
Arrived(o) == o \in index \/ \E p \in Workers : pc[p] = "book" /\ task[p].req = o

\* Of one symbol, they are told apart by their insertSeq.
ArrivalInv ==
  /\ \A o \in Request : Arrived(o) => insertSeq[o.id] \in 1..Cardinality(Entered(o.sym))
  /\ \A o, r \in Request :
       /\ Arrived(o) /\ Arrived(r)
       /\ o.sym = r.sym /\ insertSeq[o.id] = insertSeq[r.id]
       => o = r

\* Ladders are in price-time order: what binary search on them needs.
LaddersSorted == \A sym \in Symbols, side \in Side : Sorted(books[sym][side])

\* No bid reaches an ask.
NeverCrossed ==
  \A sym \in Symbols :
    \A b \in Elems(books[sym]["BUY"]), a \in Elems(books[sym]["SELL"]) :
      b.price < a.price

\* Nothing rests that has traded in full, and every fill moves quantity.
QuantityMoves ==
  /\ \A o \in index : left[o.id] > 0
  /\ \A n \in 1..Len(log) : log[n].at = "fill" => log[n].qty > 0

\* The invariant of the books.
BookInv == ArrivalInv /\ LaddersSorted /\ NeverCrossed /\ QuantityMoves

\* Places in time are kept.
LEMMA ArrivalKept ==
  ASSUME TypeOK, TypeOK', ArrivalInv, UNCHANGED insertSeq,
         \A o \in Request : Arrived(o)' => Arrived(o),
         \/ log' = log
         \/ \E e \in Ack \cup Fill : log' = Append(log, e)
  PROVE  ArrivalInv'
<1>1. ASSUME NEW sym PROVE /\ Cardinality(Entered(sym)) \in Nat
                           /\ Cardinality(Entered(sym)') \in Nat
                           /\ Cardinality(Entered(sym)') >= Cardinality(Entered(sym))
  <2>1. Cardinality(Entered(sym)) \in Nat
    BY EnteredCounts
  <2>2. CASE log' = log
    <3>1. Entered(sym)' = Entered(sym)
      BY <2>2 DEF Entered
    <3> QED
      BY <2>1, <3>1
  <2>3. ASSUME NEW e \in Ack \cup Fill, log' = Append(log, e)
        PROVE  \/ Cardinality(Entered(sym)') = Cardinality(Entered(sym))
               \/ Cardinality(Entered(sym)') = 1 + Cardinality(Entered(sym))
    BY <2>3, EnteredGrows
  <2> QED
    BY <2>1, <2>2, <2>3
<1>2. ASSUME NEW o \in Request, Arrived(o)'
      PROVE  insertSeq'[o.id] \in 1..Cardinality(Entered(o.sym)')
  <2>1. insertSeq[o.id] \in 1..Cardinality(Entered(o.sym))
    BY <1>2 DEF ArrivalInv
  <2> QED
    BY <1>1, <2>1
<1> QED
  BY <1>2 DEF ArrivalInv

\* One ladder loses orders.
LEMMA LadderLoses ==
  ASSUME Inv, LaddersSorted, NeverCrossed, UNCHANGED insertSeq,
         NEW sym \in Symbols, NEW side \in Side, NEW t,
         books' = [books EXCEPT ![sym][side] = t],
         Sorted(t), Elems(t) \subseteq Elems(books[sym][side])
  PROVE  LaddersSorted' /\ NeverCrossed'
<1>1. \A y \in Symbols, d \in Side :
        books'[y][d] = IF y = sym /\ d = side THEN t ELSE books[y][d]
  BY DEF Inv, LadderInv
<1>2. LaddersSorted'
  <2>1. ASSUME NEW y \in Symbols, NEW d \in Side PROVE Sorted(books'[y][d])
    BY <1>1 DEF LaddersSorted
  <2> QED
    BY <2>1 DEF LaddersSorted, Sorted, orderBefore
<1>3. NeverCrossed'
  <2>1. ASSUME NEW y \in Symbols, NEW d \in Side
        PROVE  Elems(books'[y][d]) \subseteq Elems(books[y][d])
    BY <1>1
  <2>2. "BUY" \in Side /\ "SELL" \in Side
    BY DEF Side
  <2>3. ASSUME NEW y \in Symbols, NEW b \in Elems(books'[y]["BUY"]),
               NEW a \in Elems(books'[y]["SELL"])
        PROVE  b.price < a.price
    <3>1. b \in Elems(books[y]["BUY"]) /\ a \in Elems(books[y]["SELL"])
      BY <2>1, <2>2
    <3> QED
      BY <3>1 DEF NeverCrossed
  <2> QED
    BY <2>3 DEF NeverCrossed, Elems
<1> QED
  BY <1>2, <1>3

\* Steps outside the books.
LEMMA ElsewhereBooks ==
  ASSUME Inv, TypeInv, TypeOK', BookInv, Elsewhere
  PROVE  BookInv'
<1>1. TypeOK /\ UNCHANGED <<books, index, left, insertSeq>>
  BY DEF TypeInv, Elsewhere
<1>2. \A o \in Request : Arrived(o)' => Arrived(o)
  BY DEF Elsewhere, Arrived
<1>3. \/ log' = log
      \/ \E e \in Ack \cup Fill : log' = Append(log, e) /\ e.at = "aside"
  <2>1. ASSUME NEW r \in Request, log' = Append(log, [at |-> "aside", req |-> r])
        PROVE  \E e \in Ack \cup Fill : log' = Append(log, e) /\ e.at = "aside"
    <3> DEFINE e == [at |-> "aside", req |-> r]
    <3>1. e \in Ack \cup Fill /\ e.at = "aside" /\ log' = Append(log, e)
      BY <2>1 DEF Ack
    <3> HIDE DEF e
    <3> QED
      BY <3>1
  <2> QED
    BY <2>1 DEF Elsewhere
<1>4. ArrivalInv'
  BY <1>1, <1>2, <1>3, ArrivalKept DEF BookInv
<1>5. LaddersSorted' /\ NeverCrossed'
  BY <1>1 DEF BookInv, LaddersSorted, NeverCrossed, Sorted, orderBefore
<1>6. QuantityMoves'
  <2>1. CASE log' = log
    BY <1>1, <2>1 DEF BookInv, QuantityMoves
  <2>2. ASSUME NEW e \in Ack \cup Fill, log' = Append(log, e), e.at = "aside"
        PROVE  QuantityMoves'
    <3>1. /\ Len(log) \in Nat /\ Len(log') = Len(log) + 1 /\ log'[Len(log) + 1] = e
          /\ \A m \in 1..Len(log) : log'[m] = log[m]
      BY <1>1, <2>2, AppendProperties DEF TypeOK
    <3>2. \A m \in 1..Len(log') : log'[m].at = "fill" => m \in 1..Len(log)
      BY <2>2, <3>1
    <3> QED
      BY <1>1, <3>1, <3>2 DEF BookInv, QuantityMoves
  <2> QED
    BY <1>3, <2>1, <2>2
<1> QED
  BY <1>4, <1>5, <1>6 DEF BookInv

\* What is on a ladder.
LEMMA OnLadder ==
  ASSUME Inv, NEW sym \in Symbols, NEW side \in Side,
         NEW i \in 1..Len(books[sym][side])
  PROVE  /\ books[sym][side][i] \in Request /\ books[sym][side][i] \in index
         /\ books[sym][side][i].sym = sym /\ books[sym][side][i].side = side
<1>1. books[sym][side] \in Seq(Request)
  BY DEF Inv, LadderInv
<1>2. books[sym][side][i] \in Elems(books[sym][side])
  BY DEF Elems
<1> QED
  BY <1>1, <1>2 DEF Inv, LadderInv, IndexInv

\* A worker's order and a resting one have different ids.
LEMMA OthersIds ==
  ASSUME Inv, UniqueIds, NEW p \in Workers, Busy(p), NEW o \in Request, Arrived(o),
         o # task[p].req
  PROVE  o.id # task[p].req.id
<1>1. task[p].req \in Request
  BY DEF Inv, HeldInv, Task
<1>2. InPlay(o) /\ InPlay(task[p].req)
  BY DEF Arrived, InPlay, Busy
<1> QED
  BY <1>1, <1>2 DEF UniqueIds

\* A new order arrives after all others.
LEMMA AcceptBooks ==
  ASSUME Inv, UniqueIds, TypeInv, TypeOK', BookInv, NEW p \in Workers,
         pc[p] = "enter", task[p].req.type = "new", Accept(p)
  PROVE  BookInv'
<1> DEFINE o == task[p].req
           e == [at |-> "book", req |-> o]
           k == 1 + Cardinality(Entered(o.sym))
<1>1. /\ log' = Append(log, e) /\ pc' = [pc EXCEPT ![p] = "book"]
      /\ left' = [left EXCEPT ![o.id] = o.qty]
      /\ insertSeq' = [insertSeq EXCEPT ![o.id] = k]
      /\ UNCHANGED <<task, books, index>>
  BY DEF Accept, Stamp
<1>2. /\ o \in Request /\ o.id \in Ids /\ Busy(p) /\ TypeOK /\ o \notin index
  BY HeldTypes DEF Busy, TypeInv, Inv, NotYetOnBook
<1>3. e \in Ack \cup Fill /\ e.at = "book" /\ e.req = o /\ o.type = "new"
  BY <1>2 DEF Ack
<1> HIDE DEF e
<1>4. \A q \in Workers : pc'[q] = IF q = p THEN "book" ELSE pc[q]
  BY <1>1, InvTypes
<1>5. \A x \in Request : Arrived(x)' => x = o \/ Arrived(x)
  BY <1>1, <1>4 DEF Arrived
<1>6. ~Arrived(o)
  <2>1. \A q \in Workers : pc[q] = "book" => task[q].req # o
    BY <1>2 DEF Inv, OnePlace, Busy
  <2> QED
    BY <1>2, <2>1 DEF Arrived
<1>7. \A x \in Request : Arrived(x) => x.id # o.id /\ x.id \in Ids
  BY <1>2, <1>6, OthersIds, RequestFields
<1>8. \A x \in Request : Arrived(x) => /\ insertSeq'[x.id] = insertSeq[x.id]
                                       /\ left'[x.id] = left[x.id]
  BY <1>1, <1>7 DEF TypeInv, TypeOK
<1>9. insertSeq'[o.id] = k
  BY <1>1, <1>2 DEF TypeOK
<1>10. \A x \in Request : Cardinality(Entered(x.sym)) \in Nat
  BY <1>2, EnteredCounts
<1>11. ASSUME NEW x \in Request
       PROVE  Cardinality(Entered(x.sym)') = IF x.sym = o.sym
                                               THEN 1 + Cardinality(Entered(x.sym))
                                               ELSE Cardinality(Entered(x.sym))
  BY <1>1, <1>2, <1>3, EnteredGrows
<1>12. ArrivalInv'
  <2>1. ASSUME NEW x \in Request, Arrived(x)'
        PROVE  insertSeq'[x.id] \in 1..Cardinality(Entered(x.sym)')
    <3>1. CASE x = o
      BY <1>2, <1>9, <1>10, <1>11, <3>1
    <3>2. CASE Arrived(x)
      <4>1. insertSeq[x.id] \in 1..Cardinality(Entered(x.sym))
        BY <3>2 DEF BookInv, ArrivalInv
      <4> QED
        BY <1>8, <1>10, <1>11, <3>2, <4>1
    <3> QED
      BY <1>5, <2>1, <3>1, <3>2
  <2>2. ASSUME NEW x \in Request, Arrived(x), x.sym = o.sym
        PROVE  insertSeq'[x.id] # insertSeq'[o.id]
    <3>1. insertSeq[x.id] \in 1..Cardinality(Entered(o.sym))
      BY <2>2 DEF BookInv, ArrivalInv
    <3> QED
      BY <1>2, <1>8, <1>9, <1>10, <2>2, <3>1
  <2> HIDE DEF k, o
  <2>3. ASSUME NEW x \in Request, NEW y \in Request, Arrived(x)', Arrived(y)',
               x.sym = y.sym, insertSeq'[x.id] = insertSeq'[y.id]
        PROVE  x = y
    <3>1. CASE Arrived(x) /\ Arrived(y)
      BY <1>8, <2>3, <3>1 DEF BookInv, ArrivalInv
    <3>2. CASE x = o \/ y = o
      BY <1>5, <2>2, <2>3, <3>2
    <3> QED
      BY <1>5, <2>3, <3>1, <3>2
  <2> QED
    BY <2>1, <2>3 DEF ArrivalInv
<1>13. \A sym \in Symbols, side \in Side : \A i \in 1..Len(books[sym][side]) :
         books[sym][side][i] \in Request /\ Arrived(books[sym][side][i])
  BY OnLadder DEF Arrived
<1>14. LaddersSorted'
  <2>1. ASSUME NEW sym \in Symbols, NEW side \in Side,
               NEW i \in 1..Len(books[sym][side]), NEW j \in 1..Len(books[sym][side]),
               i < j
        PROVE  orderBefore(books[sym][side][i], books[sym][side][j])'
    <3> DEFINE x == books[sym][side][i]
               y == books[sym][side][j]
    <3>1. orderBefore(x, y)
      BY <2>1 DEF BookInv, LaddersSorted, Sorted
    <3>2. insertSeq'[x.id] = insertSeq[x.id] /\ insertSeq'[y.id] = insertSeq[y.id]
      BY <1>8, <1>13
    <3> QED
      BY <1>1, <3>1, <3>2 DEF orderBefore
  <2> QED
    BY <1>1, <2>1 DEF LaddersSorted, Sorted
<1>15. NeverCrossed'
  BY <1>1 DEF BookInv, NeverCrossed
<1>16. QuantityMoves'
  <2>1. \A x \in index : left'[x.id] > 0
    BY <1>8, InvTypes DEF BookInv, QuantityMoves, Arrived
  <2>2. /\ Len(log) \in Nat /\ Len(log') = Len(log) + 1 /\ log'[Len(log) + 1] = e
        /\ \A m \in 1..Len(log) : log'[m] = log[m]
    BY <1>1, <1>2, <1>3, AppendProperties DEF TypeOK
  <2>3. \A m \in 1..Len(log') : log'[m].at = "fill" => m \in 1..Len(log)
    BY <1>3, <2>2
  <2> QED
    BY <1>1, <2>1, <2>2, <2>3 DEF BookInv, QuantityMoves
<1> QED
  BY <1>12, <1>14, <1>15, <1>16 DEF BookInv

\* A turn of a matching loop.
LEMMA TradeBooks ==
  ASSUME Inv, UniqueIds, TypeInv, TypeOK', BookInv, NEW p \in Workers, Trade(p)
  PROVE  BookInv'
<1> DEFINE a == task[p].ord
           r == Head(Ladder(p))
           q == Min2(left[a.id], left[r.id])
           e == [at |-> "fill", taker |-> a, maker |-> r, qty |-> q]
           side == Opposite(a.side)
           s == books[a.sym][side]
<1>1. /\ pc[p] = "book" /\ Busy(p) /\ CanTrade(p) /\ log' = Append(log, e)
      /\ left' = [left EXCEPT ![a.id] = @ - q, ![r.id] = @ - q]
      /\ IF left[r.id] = q
           THEN /\ books' = [books EXCEPT ![a.sym][r.side] = Tail(@)]
                /\ index' = index \ {r}
           ELSE UNCHANGED <<books, index>>
      /\ UNCHANGED <<pc, task, insertSeq>>
  BY DEF Trade, Stamp, Busy
<1>2. /\ a \in Request /\ a = task[p].req /\ r \in Request /\ r \in index
      /\ r.sym = a.sym /\ r.side = side /\ r.id # a.id /\ TypeOK
  BY MakerTypes DEF TypeInv
<1>3. /\ a.id \in Ids /\ r.id \in Ids /\ a.sym \in Symbols /\ side \in Side
      /\ left[a.id] \in Nat /\ left[r.id] \in Nat
  BY <1>2, RequestFields DEF TypeOK, Opposite, Side
<1>4. left[a.id] > 0 /\ left[r.id] > 0 /\ Ladder(p) # <<>>
  BY <1>1, <1>2 DEF CanTrade, BookInv, QuantityMoves
<1>5. q \in Nat /\ q > 0 /\ q <= left[r.id]
  BY <1>3, <1>4 DEF Min2
<1> HIDE DEF q
<1>6. e \in Ack \cup Fill /\ e.at = "fill" /\ e.qty = q
  BY <1>2, <1>5 DEF Fill
<1> HIDE DEF e
<1>7. index' \subseteq index /\ (index' = index \/ index' = index \ {r})
  BY <1>1
<1>8. ArrivalInv'
  <2>1. \A x \in Request : Arrived(x)' => Arrived(x)
    BY <1>1, <1>7 DEF Arrived
  <2> QED
    BY <1>1, <1>2, <1>6, <2>1, ArrivalKept DEF BookInv
<1>9. s \in Seq(Request) /\ Distinct(s) /\ s # <<>> /\ Sorted(s)
  BY <1>3, <1>4 DEF Inv, LadderInv, Ladder, BookInv, LaddersSorted
<1>10. LaddersSorted' /\ NeverCrossed'
  <2>1. CASE UNCHANGED <<books, index>>
    BY <1>1, <2>1 DEF BookInv, LaddersSorted, NeverCrossed, Sorted, orderBefore
  <2>2. CASE books' = [books EXCEPT ![a.sym][r.side] = Tail(@)]
    <3>1. Sorted(Tail(s)) /\ Elems(Tail(s)) \subseteq Elems(s)
      BY <1>9, RemoveSorted, TailElems
    <3>2. books' = [books EXCEPT ![a.sym][side] = Tail(s)]
      BY <1>2, <2>2
    <3> DEFINE sym == a.sym
               t == Tail(s)
    <3>3. /\ sym \in Symbols /\ side \in Side /\ s = books[sym][side]
          /\ books' = [books EXCEPT ![sym][side] = t]
          /\ UNCHANGED insertSeq /\ LaddersSorted /\ NeverCrossed
      BY <1>1, <1>3, <3>2 DEF BookInv
    <3> HIDE DEF sym, side, t, s
    <3>4. Sorted(t) /\ Elems(t) \subseteq Elems(s)
      BY <3>1 DEF t
    <3> QED
      BY <3>3, <3>4, LadderLoses
  <2> QED
    BY <1>1, <2>1, <2>2
<1>11. QuantityMoves'
  <2>1. /\ Len(log) \in Nat /\ Len(log') = Len(log) + 1 /\ log'[Len(log) + 1] = e
        /\ \A m \in 1..Len(log) : log'[m] = log[m]
    BY <1>1, <1>2, <1>6, AppendProperties DEF TypeOK
  <2>2. \A m \in 1..Len(log') : m \in 1..Len(log) \/ m = Len(log) + 1
    BY <2>1
  <2>3. \A m \in 1..Len(log') : log'[m].at = "fill" => log'[m].qty > 0
    BY <1>5, <1>6, <2>1, <2>2 DEF BookInv, QuantityMoves
  <2>4. ASSUME NEW x \in index' PROVE left'[x.id] > 0
    <3>1. x \in index /\ x \in Request /\ x.id \in Ids /\ left[x.id] > 0
      BY <1>7, InvTypes, RequestFields DEF BookInv, QuantityMoves
    <3>2. x.id # a.id
      <4>1. a \notin index
        BY <1>1, <1>2 DEF Inv, NotYetOnBook
      <4> QED
        BY <1>1, <1>2, <3>1, <4>1, OthersIds DEF Arrived
    <3>3. CASE x.id = r.id
      <4>1. x = r
        BY <1>2, <3>1, <3>3 DEF UniqueIds, InPlay
      <4>2. left[r.id] # q
        BY <1>1, <4>1
      <4>3. left'[r.id] = left[r.id] - q
        BY <1>1, <1>2, <1>3 DEF TypeOK
      <4> QED
        BY <1>3, <1>5, <3>3, <4>2, <4>3
    <3>4. CASE x.id # r.id
      <4>1. left'[x.id] = left[x.id]
        BY <1>1, <1>2, <3>1, <3>2, <3>4 DEF TypeOK
      <4> QED
        BY <3>1, <4>1
    <3> QED
      BY <3>3, <3>4
  <2> QED
    BY <2>3, <2>4 DEF QuantityMoves
<1> QED
  BY <1>8, <1>10, <1>11 DEF BookInv

\* A cancel takes an order off its ladder, or none.
LEMMA RemoveBooks ==
  ASSUME Inv, TypeInv, TypeOK', BookInv, NEW p \in Workers, NEW known,
         pc[p] = "enter", task[p].req.type = "cancel",
         RemoveOrder(p, task[p].ord, known)
  PROVE  BookInv'
<1> DEFINE o == task[p].ord
           s == books[o.sym][o.side]
           i == Position(s, o)
           e == [at |-> "book", req |-> task[p].req]
<1>1. /\ log' = Append(log, e) /\ pc' = [pc EXCEPT ![p] = "send"]
      /\ \/ UNCHANGED <<books, index>>
         \/ /\ RestsAt(s, i, o)
            /\ books' = [books EXCEPT ![o.sym][o.side] = RemoveAt(@, i)]
            /\ index' = index \ {o}
      /\ UNCHANGED <<task, left, insertSeq>>
  BY DEF RemoveOrder, Stamp
<1>2. o \in Request /\ o.sym \in Symbols /\ o.side \in Side /\ task[p].req \in Request
  BY HeldTypes, RequestFields DEF Busy
<1>3. e \in Ack \cup Fill /\ e.at = "book"
  BY <1>2 DEF Ack
<1> HIDE DEF e
<1>4. TypeOK /\ index' \subseteq index
  BY <1>1 DEF TypeInv
<1>5. ArrivalInv'
  <2>1. \A q \in Workers : pc'[q] = "book" => pc[q] = "book"
    BY <1>1, InvTypes
  <2>2. \A x \in Request : Arrived(x)' => Arrived(x)
    BY <1>1, <1>4, <2>1 DEF Arrived
  <2> QED
    BY <1>1, <1>3, <1>4, <2>2, ArrivalKept DEF BookInv
<1>6. LaddersSorted' /\ NeverCrossed'
  <2>1. CASE UNCHANGED <<books, index>>
    BY <1>1, <2>1 DEF BookInv, LaddersSorted, NeverCrossed, Sorted, orderBefore
  <2>2. CASE /\ RestsAt(s, i, o)
             /\ books' = [books EXCEPT ![o.sym][o.side] = RemoveAt(@, i)]
    <3> DEFINE t == RemoveAt(s, i)
    <3>1. s \in Seq(Request) /\ Distinct(s) /\ Sorted(s)
      BY <1>2 DEF Inv, LadderInv, BookInv, LaddersSorted
    <3>2. i \in 1..Len(s)
      BY <2>2, <3>1, RestsAtFinds
    <3>3. books' = [books EXCEPT ![o.sym][o.side] = t]
      BY <2>2
    <3> HIDE DEF i
    <3> DEFINE sym == o.sym
               side == o.side
    <3>4. /\ sym \in Symbols /\ side \in Side /\ s = books[sym][side]
          /\ books' = [books EXCEPT ![sym][side] = t]
          /\ UNCHANGED insertSeq /\ LaddersSorted /\ NeverCrossed
      BY <1>1, <1>2, <3>3 DEF BookInv
    <3> HIDE DEF sym, side, s
    <3>5. Sorted(t) /\ Elems(t) \subseteq Elems(s)
      BY <3>1, <3>2, RemoveSorted, RemoveAtElems
    <3> HIDE DEF t
    <3> QED
      BY <3>4, <3>5, LadderLoses
  <2> QED
    BY <1>1, <2>1, <2>2
<1>7. QuantityMoves'
  <2>1. /\ Len(log) \in Nat /\ Len(log') = Len(log) + 1 /\ log'[Len(log) + 1] = e
        /\ \A m \in 1..Len(log) : log'[m] = log[m]
    BY <1>1, <1>3, <1>4, AppendProperties DEF TypeOK
  <2>2. \A m \in 1..Len(log') : log'[m].at = "fill" => m \in 1..Len(log)
    BY <1>3, <2>1
  <2> QED
    BY <1>1, <1>4, <2>1, <2>2 DEF BookInv, QuantityMoves
<1> QED
  BY <1>5, <1>6, <1>7 DEF BookInv

\* When a matching loop ends with a limit order's residual, no resting order of the
\* other side is in its reach.
LEMMA LoopEnds ==
  ASSUME Inv, TypeInv, BookInv, NEW p \in Workers, pc[p] = "book", ~CanTrade(p),
         left[task[p].ord.id] > 0, task[p].ord.otype # "MARKET",
         NEW x \in Elems(books[task[p].ord.sym][Opposite(task[p].ord.side)])
  PROVE  IF task[p].ord.side = "BUY" THEN task[p].ord.price < x.price
                                     ELSE x.price < task[p].ord.price
<1> DEFINE o == task[p].ord
           side == Opposite(o.side)
           s == books[o.sym][side]
<1>1. o \in Request /\ o.sym \in Symbols /\ side \in Side /\ o.price \in Int
      /\ o.side \in {"BUY", "SELL"}
  BY HeldTypes, RequestFields DEF Busy, Opposite, Side
<1>2. s \in Seq(Request) /\ Sorted(s) /\ insertSeq \in [Ids -> Nat]
  BY <1>1 DEF Inv, LadderInv, BookInv, LaddersSorted, TypeInv, TypeOK
<1>3. \A i \in 1..Len(s) : s[i] \in Request /\ s[i].side = side
  BY <1>1, OnLadder
<1>4. PICK k \in 1..Len(s) : x = s[k]
  BY DEF Elems
<1>5. Len(s) \in Nat /\ 1 \in 1..Len(s) /\ s # <<>> /\ Head(s) = s[1]
  BY <1>2, <1>4
<1>6. ~Crosses(o, s[1].price)
  BY <1>5 DEF CanTrade, Ladder
<1>7. side = "BUY" <=> o.side # "BUY"
  BY <1>1 DEF Opposite
<1> HIDE DEF side, s
<1>8. s[1] \in Request /\ s[k] \in Request /\ s[1].side = side /\ s[k].side = side
      /\ s[1].price \in Int /\ s[k].price \in Int
  <2>1. s[1] \in Request /\ s[k] \in Request /\ s[1].side = side /\ s[k].side = side
    BY <1>3, <1>4, <1>5
  <2> QED
    BY <2>1, RequestFields
<1>9. k # 1 => orderBefore(s[1], s[k])
  <2>1. k # 1 => 1 < k
    BY <1>5
  <2> QED
    BY <1>2, <1>5, <2>1 DEF Sorted
<1>10. ASSUME k # 1
       PROVE  IF side = "BUY" THEN s[1].price >= s[k].price ELSE s[1].price <= s[k].price
  <2> DEFINE u == s[1]
             v == s[k]
  <2>1. /\ u \in Request /\ v \in Request /\ u.side = side /\ v.side = side
        /\ orderBefore(u, v)
    BY <1>8, <1>9, <1>10
  <2> HIDE DEF u, v
  <2>2. IF u.side = "BUY" THEN u.price >= v.price ELSE u.price <= v.price
    BY <1>2, <2>1, BeforeIsBetter
  <2> QED
    BY <2>1, <2>2 DEF u, v
<1>11. IF side = "BUY" THEN s[1].price >= x.price ELSE s[1].price <= x.price
  <2>1. CASE k = 1
    <3>1. s[1].price >= s[1].price /\ s[1].price <= s[1].price /\ x = s[1]
      BY <1>4, <1>8, <2>1
    <3> QED
      BY <3>1
  <2>2. CASE k # 1
    BY <1>4, <1>10, <2>2
  <2> QED
    BY <2>1, <2>2
<1>12. IF o.side = "BUY" THEN ~(o.price >= s[1].price) ELSE ~(o.price <= s[1].price)
  BY <1>6 DEF Crosses
<1> DEFINE a == s[1].price
           b == o.price
           y == x.price
<1>13. a \in Int /\ b \in Int /\ y \in Int
  BY <1>1, <1>4, <1>8
<1>14. CASE o.side = "BUY"
  <2>1. a <= y /\ ~(b >= a)
    BY <1>7, <1>11, <1>12, <1>14
  <2>2. b < y
    <3> HIDE DEF a, b, y
    <3> QED
      BY <1>13, <2>1
  <2> QED
    BY <1>14, <2>2
<1>15. CASE o.side # "BUY"
  <2>1. a >= y /\ ~(b <= a)
    BY <1>7, <1>11, <1>12, <1>15
  <2>2. y < b
    <3> HIDE DEF a, b, y
    <3> QED
      BY <1>13, <2>1
  <2> QED
    BY <1>15, <2>2
<1> QED
  BY <1>14, <1>15

\* What is left of an order rests.
LEMMA RestBooks ==
  ASSUME Inv, UniqueIds, TypeInv, TypeOK', BookInv, NEW p \in Workers, NEW mayRest,
         RestResidual(p, mayRest)
  PROVE  BookInv'
<1> DEFINE o == task[p].ord
           s == books[o.sym][o.side]
           t == insertSorted(s, o)
<1>1. /\ pc[p] = "book" /\ ~CanTrade(p) /\ pc' = [pc EXCEPT ![p] = "send"]
      /\ \/ UNCHANGED <<books, index>>
         \/ /\ left[o.id] > 0 /\ o.otype # "MARKET"
            /\ books' = [books EXCEPT ![o.sym][o.side] = t]
            /\ index' = index \cup {o}
      /\ UNCHANGED <<task, log, left, insertSeq>>
  BY DEF RestResidual
<1>2. /\ o \in Request /\ o = task[p].req /\ Arrived(o) /\ TypeOK
      /\ o.sym \in Symbols /\ o.side \in {"BUY", "SELL"} /\ o.price \in Int
  BY <1>1, HeldTypes, RequestFields DEF Busy, Arrived, TypeInv, Side
<1>3. o \notin index
  BY <1>1, <1>2 DEF Inv, NotYetOnBook, Busy
<1>4. ArrivalInv'
  <2>1. \A q \in Workers : pc'[q] = "book" => pc[q] = "book"
    BY <1>1, InvTypes
  <2>2. \A x \in Request : Arrived(x)' => Arrived(x)
    BY <1>1, <1>2, <2>1 DEF Arrived
  <2> QED
    BY <1>1, <1>2, <2>2, ArrivalKept DEF BookInv
<1>5. QuantityMoves'
  BY <1>1 DEF BookInv, QuantityMoves
<1>6. CASE UNCHANGED <<books, index>>
  <2>1. LaddersSorted' /\ NeverCrossed'
    BY <1>1, <1>6 DEF BookInv, LaddersSorted, NeverCrossed, Sorted, orderBefore
  <2> QED
    BY <1>4, <1>5, <2>1 DEF BookInv
<1>7. CASE /\ left[o.id] > 0 /\ o.otype # "MARKET"
           /\ books' = [books EXCEPT ![o.sym][o.side] = t]
  <2>1. o.side \in Side /\ insertSeq \in [Ids -> Nat]
    BY <1>2 DEF Side, TypeOK
  <2>2. s \in Seq(Request) /\ Distinct(s) /\ Sorted(s)
    BY <1>2, <2>1 DEF Inv, LadderInv, BookInv, LaddersSorted
  <2>3. \A i \in 1..Len(s) : /\ s[i] \in Request /\ s[i] \in index
                             /\ s[i].sym = o.sym /\ s[i].side = o.side
    BY <1>2, <2>1, OnLadder
  <2>4. ASSUME NEW i \in 1..Len(s) PROVE insertSeq[s[i].id] # insertSeq[o.id]
    <3>1. Arrived(s[i]) /\ s[i] # o
      BY <1>3, <2>3 DEF Arrived
    <3> QED
      BY <1>2, <2>3, <3>1 DEF BookInv, ArrivalInv
  <2>5. Sorted(t)
    BY <1>2, <2>1, <2>2, <2>3, <2>4, InsertSorted
  <2>6. Elems(t) = Elems(s) \cup {o}
    BY <1>2, <2>2, InsertSortedElems
  <2>7. \A y \in Symbols, d \in Side :
          books'[y][d] = IF y = o.sym /\ d = o.side THEN t ELSE books[y][d]
    BY <1>2, <1>7, <2>1 DEF Inv, LadderInv
  <2> HIDE DEF t
  <2>8. LaddersSorted'
    <3>1. ASSUME NEW y \in Symbols, NEW d \in Side PROVE Sorted(books'[y][d])
      BY <2>5, <2>7 DEF BookInv, LaddersSorted
    <3> QED
      BY <1>1, <3>1 DEF LaddersSorted, Sorted, orderBefore
  <2>9. NeverCrossed'
    <3>1. ASSUME NEW y \in Symbols, NEW b \in Elems(books'[y]["BUY"]),
                 NEW a \in Elems(books'[y]["SELL"])
          PROVE  b.price < a.price
      <4>1. "BUY" \in Side /\ "SELL" \in Side
        BY DEF Side
      <4>2. CASE b \in Elems(books[y]["BUY"]) /\ a \in Elems(books[y]["SELL"])
        BY <4>2 DEF BookInv, NeverCrossed
      <4>3. CASE y = o.sym /\ o.side = "BUY" /\ b = o
        <5>1. a \in Elems(books[o.sym][Opposite(o.side)])
          BY <2>7, <4>1, <4>3 DEF Opposite
        <5> QED
          BY <1>1, <1>7, <4>3, <5>1, LoopEnds
      <4>4. CASE y = o.sym /\ o.side = "SELL" /\ a = o
        <5>1. b \in Elems(books[o.sym][Opposite(o.side)])
          BY <2>7, <4>1, <4>4 DEF Opposite
        <5> QED
          BY <1>1, <1>7, <4>4, <5>1, LoopEnds
      <4>5. /\ b \in Elems(books[y]["BUY"]) \/ (y = o.sym /\ o.side = "BUY" /\ b = o)
            /\ a \in Elems(books[y]["SELL"]) \/ (y = o.sym /\ o.side = "SELL" /\ a = o)
        BY <2>6, <2>7, <4>1
      <4>6. "BUY" # "SELL"
        OBVIOUS
      <4> QED
        BY <4>2, <4>3, <4>4, <4>5, <4>6
    <3> QED
      BY <3>1 DEF NeverCrossed, Elems
  <2> QED
    BY <1>4, <1>5, <2>8, <2>9 DEF BookInv
<1> QED
  BY <1>1, <1>6, <1>7

\* Every step keeps the books in order.
LEMMA StepBooks ==
  ASSUME Inv, UniqueIds, TypeInv, TypeOK', BookInv, [Next]_vars
  PROVE  BookInv'
<1>1. CASE Elsewhere
  BY <1>1, ElsewhereBooks
<1>2. ASSUME NEW p \in Workers, pc[p] = "enter", task[p].req.type = "new", Accept(p)
      PROVE  BookInv'
  BY <1>2, AcceptBooks
<1>3. ASSUME NEW p \in Workers, Trade(p) PROVE BookInv'
  BY <1>3, TradeBooks
<1>4. ASSUME NEW p \in Workers, NEW mayRest \in BOOLEAN, RestResidual(p, mayRest)
      PROVE  BookInv'
  BY <1>4, RestBooks
<1>5. ASSUME NEW p \in Workers, NEW known \in BOOLEAN, pc[p] = "enter",
             task[p].req.type = "cancel", RemoveOrder(p, task[p].ord, known)
      PROVE  BookInv'
  BY <1>5, RemoveBooks
<1> QED
  BY <1>1, <1>2, <1>3, <1>4, <1>5, BookCases

\* Empty books.
LEMMA InitBooks ==
  Init => BookInv
<1> SUFFICES ASSUME Init PROVE BookInv
  OBVIOUS
<1>1. \A o : ~Arrived(o)
  BY DEF Init, Arrived
<1>2. \A sym \in Symbols, side \in Side : Len(books[sym][side]) = 0
  BY DEF Init
<1>3. index = {} /\ Len(log) = 0
  BY DEF Init
<1>4. "BUY" \in Side /\ "SELL" \in Side
  BY DEF Side
<1> QED
  BY <1>1, <1>2, <1>3, <1>4
     DEF BookInv, ArrivalInv, LaddersSorted, Sorted, NeverCrossed, Elems, QuantityMoves

-----------------------------------------------------------------------------
(* Who is inside a book                                                    *)

\* A cancel is about the order it names.
Aimed(t) == t.req.type = "cancel" => t.ord.id = t.req.orig

\* The disruptor's requests are at the shard of their order's symbol and only
\* matchers match; the mutex engine has no matchers.
RoutedInv ==
  /\ \A p \in Workers : pc[p] = "enter" => Aimed(task[p])
  /\ \A s \in Shards : \A i \in 1..Len(ring[s]) : Aimed(ring[s][i])
  /\ \A s \in Shards : pc[s] \in {"enter", "book"} => ShardOf[task[s].ord.sym] = s
  /\ \A s \in Shards : \A i \in 1..Len(ring[s]) : ShardOf[ring[s][i].ord.sym] = s
  /\ kind = "mutex" => \A s \in Shards : pc[s] = "idle" /\ Len(ring[s]) = 0
  /\ kind = "disruptor" => \A p \in Conns : pc[p] # "book"

\* No two workers match in the same book: Book.mu in the mutex engine, one matcher
\* for a symbol in the disruptor.
OneInside ==
  \A p, q \in Workers :
    pc[p] = "book" /\ pc[q] = "book" /\ task[p].ord.sym = task[q].ord.sym => p = q

\* Routing or locking, and what it is for.
InsideInv == RoutedInv /\ OneInside

\* A worker goes on, into a book if it may.
LEMMA MoveInside ==
  ASSUME Inv, TypeOK, InsideInv, NEW p \in Workers,
         NEW x \in {"read", "idle", "send", "book"},
         pc[p] \in {"aside", "enter", "book", "send"},
         pc' = [pc EXCEPT ![p] = x], UNCHANGED <<kind, task, ring>>,
         x = "book" => pc[p] = "enter" /\ (HasLock(p) \/ p \in Shards)
  PROVE  InsideInv'
<1>1. \A q \in Workers : pc'[q] = IF q = p THEN x ELSE pc[q]
  BY InvTypes
<1>2. kind \in {"mutex", "disruptor"} /\ Conns \subseteq Workers /\ Shards \subseteq Workers
  BY DEF TypeOK, Workers
<1>3. kind = "mutex" => p \notin Shards
  BY DEF InsideInv, RoutedInv
<1>4. RoutedInv'
  <2>1. \A s \in Shards : pc'[s] \in {"enter", "book"} => ShardOf[task'[s].ord.sym] = s
    BY <1>1, <1>2 DEF InsideInv, RoutedInv
  <2>2. kind = "mutex" => \A s \in Shards : pc'[s] = "idle"
    BY <1>1, <1>2, <1>3 DEF InsideInv, RoutedInv
  <2>3. kind = "disruptor" => \A q \in Conns : pc'[q] # "book"
    BY <1>1, <1>2, ProcessesAreDistinct DEF InsideInv, RoutedInv, HasLock
  <2>4. \A q \in Workers : pc'[q] = "enter" => Aimed(task'[q])
    BY <1>1 DEF InsideInv, RoutedInv
  <2> QED
    BY <2>1, <2>2, <2>3, <2>4 DEF InsideInv, RoutedInv, Aimed
<1>5. ASSUME x = "book", NEW q \in Workers, pc[q] = "book",
             task[p].ord.sym = task[q].ord.sym
      PROVE  p = q
  <2>1. CASE kind = "mutex"
    <3>1. q \in Conns /\ HasLock(p)
      BY <1>3, <1>5, <2>1 DEF InsideInv, RoutedInv, Workers
    <3> QED
      BY <1>5, <3>1 DEF HasLock
  <2>2. CASE kind = "disruptor"
    <3>1. q \in Shards /\ p \in Shards
      BY <1>5, <2>2 DEF InsideInv, RoutedInv, Workers, HasLock
    <3> QED
      BY <1>5, <3>1 DEF InsideInv, RoutedInv
  <2> QED
    BY <1>2, <2>1, <2>2
<1>6. OneInside'
  <2>1. ASSUME NEW u \in Workers, NEW v \in Workers, pc'[u] = "book", pc'[v] = "book",
               task[u].ord.sym = task[v].ord.sym
        PROVE  u = v
    BY <1>1, <1>5, <2>1 DEF InsideInv, OneInside
  <2> QED
    BY <2>1 DEF OneInside
<1> QED
  BY <1>4, <1>6 DEF InsideInv

\* A connection reads a request.
LEMMA ReadInside ==
  ASSUME Inv, InsideInv, NEW p \in Conns, NEW r \in todo, ws(p, r) \/ orders(p, r)
  PROVE  InsideInv'
<1>1. /\ p \in Workers /\ pc[p] = "read" /\ UNCHANGED <<kind, ring>> /\ p \notin Shards
      /\ \/ UNCHANGED <<pc, task>>
         \/ \E x \in {"aside", "enter"}, o \in Request \cup {None} :
              /\ pc' = [pc EXCEPT ![p] = x]
              /\ task' = [task EXCEPT ![p] = [req |-> r, ord |-> o]]
              /\ x = "enter" /\ r.type = "cancel" => o.id = r.orig
  BY ReadCases, ProcessesAreDistinct DEF sendVars
<1>2. CASE UNCHANGED <<pc, task>>
  BY <1>1, <1>2 DEF InsideInv, RoutedInv, Aimed, OneInside
<1>3. ASSUME NEW x \in {"aside", "enter"}, NEW o \in Request \cup {None},
             pc' = [pc EXCEPT ![p] = x],
             task' = [task EXCEPT ![p] = [req |-> r, ord |-> o]],
             x = "enter" /\ r.type = "cancel" => o.id = r.orig
      PROVE  InsideInv'
  <2>1. \A q \in Workers : /\ pc'[q] = IF q = p THEN x ELSE pc[q]
                           /\ q # p => task'[q] = task[q]
    BY <1>3, InvTypes DEF Inv, HeldInv
  <2>2. Conns \subseteq Workers /\ Shards \subseteq Workers
    BY DEF Workers
  <2>3. task'[p] = [req |-> r, ord |-> o]
    BY <1>1, <1>3 DEF Inv, HeldInv
  <2>4. \A q \in Workers : pc'[q] = "enter" => Aimed(task'[q])
    BY <1>3, <2>1, <2>3 DEF InsideInv, RoutedInv, Aimed
  <2>5. RoutedInv'
    BY <1>1, <2>1, <2>2, <2>4 DEF InsideInv, RoutedInv, Aimed
  <2>6. OneInside'
    BY <2>1 DEF InsideInv, OneInside
  <2> QED
    BY <2>5, <2>6 DEF InsideInv
<1> QED
  BY <1>1, <1>2, <1>3

\* A request is published to the ring of its order's symbol.
LEMMA PublishInside ==
  ASSUME Inv, InsideInv, NEW p \in Conns, Publish(p)
  PROVE  InsideInv'
<1> DEFINE u == ShardOf[task[p].ord.sym]
<1>1. /\ kind = "disruptor" /\ pc[p] = "enter" /\ pc' = [pc EXCEPT ![p] = "read"]
      /\ p \in Workers /\ p \notin Shards
      /\ ring' = [ring EXCEPT ![u] = Append(@, task[p])] /\ UNCHANGED <<kind, task>>
  BY ProcessesAreDistinct DEF Publish, Workers
<1>2. u \in Shards /\ task[p] \in Task /\ Aimed(task[p])
  BY <1>1, ShardsAssumption DEF Inv, HeldInv, Enters, Request, Busy, InsideInv, RoutedInv
<1>3. ShardOf[task[p].ord.sym] = u
  OBVIOUS
<1> HIDE DEF u
<1>4. \A q \in Workers : pc'[q] = IF q = p THEN "read" ELSE pc[q]
  BY <1>1, InvTypes
<1>5. \A s \in Shards \ {u} : ring'[s] = ring[s]
  BY <1>1, InvTypes
<1>6. /\ Len(ring'[u]) = Len(ring[u]) + 1 /\ ring'[u][Len(ring[u]) + 1] = task[p]
      /\ Len(ring[u]) \in Nat
      /\ \A i \in 1..Len(ring[u]) : ring'[u][i] = ring[u][i]
  BY <1>1, <1>2, InvTypes
<1>7. ASSUME NEW s \in Shards, NEW i \in 1..Len(ring'[s])
      PROVE  ShardOf[ring'[s][i].ord.sym] = s /\ Aimed(ring'[s][i])
  <2>1. CASE s # u
    BY <1>5, <2>1 DEF InsideInv, RoutedInv
  <2>2. CASE s = u
    <3>1. i \in 1..Len(ring[u]) \/ ring'[s][i] = task[p]
      BY <1>6, <2>2
    <3> QED
      BY <1>2, <1>3, <1>6, <2>2, <3>1 DEF InsideInv, RoutedInv
  <2> QED
    BY <2>1, <2>2
<1>8. Conns \subseteq Workers /\ Shards \subseteq Workers
  BY DEF Workers
<1>9. RoutedInv'
  BY <1>1, <1>4, <1>7, <1>8 DEF InsideInv, RoutedInv, Aimed
<1>10. OneInside'
  BY <1>1, <1>4 DEF InsideInv, OneInside
<1> QED
  BY <1>9, <1>10 DEF InsideInv

\* A matcher takes a request from its own ring.
LEMMA ConsumeInside ==
  ASSUME Inv, InsideInv, NEW u \in Shards, Consume(u)
  PROVE  InsideInv'
<1>1. PICK x \in {"aside", "enter"} : pc' = [pc EXCEPT ![u] = x]
  BY DEF Consume
<1>2. /\ ring[u] # <<>> /\ u \in Workers
      /\ task' = [task EXCEPT ![u] = Head(ring[u])]
      /\ ring' = [ring EXCEPT ![u] = Tail(@)] /\ UNCHANGED kind
  BY DEF Consume, Workers
<1>3. /\ ring[u] \in Seq(Task) /\ Len(ring[u]) \in Nat /\ 1 \in 1..Len(ring[u])
      /\ Head(ring[u]) = ring[u][1] /\ Len(ring'[u]) = Len(ring[u]) - 1
      /\ \A i \in 1..Len(ring[u]) - 1 : ring'[u][i] = ring[u][i + 1]
  BY <1>2, InvTypes
<1>4. \A w \in Workers : /\ pc'[w] = IF w = u THEN x ELSE pc[w]
                         /\ w # u => task'[w] = task[w]
  BY <1>1, <1>2, InvTypes DEF Inv, HeldInv
<1>5. task'[u] = ring[u][1]
  BY <1>2, <1>3 DEF Inv, HeldInv
<1>6. \A s \in Shards \ {u} : ring'[s] = ring[s]
  BY <1>2, InvTypes
<1>7. ShardOf[task'[u].ord.sym] = u /\ Aimed(task'[u]) /\ kind # "mutex"
  BY <1>3, <1>5 DEF InsideInv, RoutedInv
<1>8. ASSUME NEW s \in Shards, NEW i \in 1..Len(ring'[s])
      PROVE  ShardOf[ring'[s][i].ord.sym] = s /\ Aimed(ring'[s][i])
  <2>1. CASE s # u
    BY <1>6, <2>1 DEF InsideInv, RoutedInv
  <2>2. CASE s = u
    <3>1. i + 1 \in 1..Len(ring[u]) /\ ring'[s][i] = ring[u][i + 1]
      BY <1>3, <2>2
    <3> QED
      BY <2>2, <3>1 DEF InsideInv, RoutedInv
  <2> QED
    BY <2>1, <2>2
<1>9. Conns \subseteq Workers /\ Shards \subseteq Workers /\ u \notin Conns
  BY ProcessesAreDistinct DEF Workers
<1>10. RoutedInv'
  <2>1. \A s \in Shards : pc'[s] \in {"enter", "book"} => ShardOf[task'[s].ord.sym] = s
    BY <1>4, <1>7, <1>9 DEF InsideInv, RoutedInv
  <2>2. kind' = "disruptor" => \A p \in Conns : pc'[p] # "book"
    BY <1>2, <1>4, <1>9 DEF InsideInv, RoutedInv
  <2>3. \A p \in Workers : pc'[p] = "enter" => Aimed(task'[p])
    BY <1>4, <1>7 DEF InsideInv, RoutedInv
  <2>4. kind' # "mutex"
    BY <1>2, <1>7
  <2> QED
    BY <1>8, <2>1, <2>2, <2>3, <2>4 DEF RoutedInv, Aimed
<1>11. OneInside'
  BY <1>4 DEF InsideInv, OneInside
<1> QED
  BY <1>10, <1>11 DEF InsideInv

\* Every step keeps workers apart.
LEMMA StepInside ==
  ASSUME Inv, TypeInv, InsideInv, [Next]_vars
  PROVE  InsideInv'
<1>1. ASSUME UNCHANGED <<kind, pc, task, ring>> PROVE InsideInv'
  BY <1>1 DEF InsideInv, RoutedInv, Aimed, OneInside
<1>2. CASE UNCHANGED vars
  BY <1>1, <1>2 DEF vars, sendVars
<1>3. TypeOK
  BY DEF TypeInv
<1>4. ASSUME NEW p \in Workers, Handle(p) PROVE InsideInv'
  <2>1. CASE Aside(p)
    <3>1. /\ pc[p] = "aside" /\ pc' = [pc EXCEPT ![p] = "send"]
          /\ UNCHANGED <<kind, task, ring>>
      BY <2>1 DEF Aside, sendVars
    <3> QED
      BY <1>3, <3>1, MoveInside
  <2>2. CASE pc[p] = "enter" /\ Accept(p) /\ (HasLock(p) \/ p \in Shards)
    <3>1. pc' = [pc EXCEPT ![p] = "book"] /\ UNCHANGED <<kind, task, ring>>
      BY <2>2 DEF Accept, sendVars
    <3> QED
      BY <1>3, <2>2, <3>1, MoveInside
  <2>3. CASE Trade(p)
    BY <1>1, <2>3 DEF Trade, sendVars
  <2>4. ASSUME NEW mayRest, RestResidual(p, mayRest) PROVE InsideInv'
    <3>1. /\ pc[p] = "book" /\ pc' = [pc EXCEPT ![p] = "send"]
          /\ UNCHANGED <<kind, task, ring>>
      BY <2>4 DEF RestResidual, sendVars
    <3> QED
      BY <1>3, <3>1, MoveInside
  <2>5. ASSUME NEW known, pc[p] = "enter", RemoveOrder(p, task[p].ord, known)
        PROVE  InsideInv'
    <3>1. pc' = [pc EXCEPT ![p] = "send"] /\ UNCHANGED <<kind, task, ring>>
      BY <2>5 DEF RemoveOrder, sendVars
    <3> QED
      BY <1>3, <2>5, <3>1, MoveInside
  <2>6. ASSUME pc[p] = "send", HandedOver(p), UNCHANGED <<kind, task, ring>>
        PROVE  InsideInv'
    <3>1. PICK x \in {"read", "idle", "send"} : pc' = [pc EXCEPT ![p] = x]
      BY <2>6 DEF HandedOver
    <3> QED
      BY <1>3, <2>6, <3>1, MoveInside
  <2>7. CASE SendJSON(p)
    BY <2>6, <2>7 DEF SendJSON, sendVars
  <2>8. CASE SendOut(p)
    BY <2>6, <2>8 DEF SendOut
  <2> QED
    BY <1>4, <2>1, <2>2, <2>3, <2>4, <2>5, <2>7, <2>8, HandleCases
<1>5. ASSUME NEW i \in DOMAIN out, outputLoop(i) PROVE InsideInv'
  BY <1>1, <1>5 DEF outputLoop
<1>6. ASSUME NEW c \in Clients, writeLoop(c) \/ Stall(c) \/ Reap(c) PROVE InsideInv'
  BY <1>1, <1>6 DEF writeLoop, Stall, Reap, sendVars
<1> QED
  BY <1>2, <1>4, <1>5, <1>6, ReadInside, PublishInside, ConsumeInside DEF Next

\* No worker has begun.
LEMMA InitInside ==
  Init => InsideInv
<1> SUFFICES ASSUME Init PROVE InsideInv
  OBVIOUS
<1>1. \A p \in Workers : pc[p] \in {"read", "idle"} /\ (p \in Shards => pc[p] = "idle")
  BY DEF Init
<1>2. \A s \in Shards : Len(ring[s]) = 0
  BY DEF Init
<1>3. Conns \subseteq Workers /\ Shards \subseteq Workers
  BY DEF Workers
<1> QED
  BY <1>1, <1>2, <1>3 DEF InsideInv, RoutedInv, OneInside

-----------------------------------------------------------------------------
(* Cancels and fills                                                       *)

\* An order of the index is found on its ladder.
LEMMA RestingPosition ==
  ASSUME Inv, TypeInv, BookInv, NEW o \in index
  PROVE  /\ o \in Request /\ o \in Elems(books[o.sym][o.side])
         /\ RestsAt(books[o.sym][o.side], Position(books[o.sym][o.side], o), o)
<1> DEFINE s == books[o.sym][o.side]
<1>1. PICK sym \in Symbols, side \in Side : o \in Elems(books[sym][side])
  BY DEF Inv, IndexInv
<1>2. o.sym = sym /\ o.side = side /\ o \in Request
  BY <1>1, InvTypes DEF Inv, LadderInv
<1>3. s \in Seq(Request) /\ Sorted(s) /\ o \in Elems(s) /\ insertSeq \in [Ids -> Nat]
  BY <1>1, <1>2 DEF Inv, LadderInv, BookInv, LaddersSorted, TypeInv, TypeOK
<1>4. \A i \in 1..Len(s) : s[i].side = side
  BY <1>2, OnLadder
<1> HIDE DEF s
<1>5. RestsAt(s, Position(s, o), o)
  BY <1>3, <1>4, PositionFinds
<1> QED
  BY <1>2, <1>3, <1>5 DEF s

\* What a cancel finds in a book.
LEMMA CancelTruth ==
  ASSUME Inv, TypeInv, BookInv, InsideInv, NEW p \in Workers, Handle(p),
         pc[p] = "enter", task[p].req.type = "cancel"
  PROVE  /\ index' = index \ {task[p].ord}
         /\ status'[task[p].req.id] =
              IF task[p].ord \in index THEN "canceled" ELSE "not_found"
<1> DEFINE o == task[p].ord
           r == task[p].req
           s == books[o.sym][o.side]
           i == Position(s, o)
<1>1. PICK known \in BOOLEAN :
        /\ RemoveOrder(p, o, known)
        /\ p \in Shards => known = (Resting(r.orig) # {})
        /\ p \notin Shards => known
  BY HandleCases DEF Aside, Trade, RestResidual, SendJSON, SendOut
<1>2. /\ o \in Request /\ r.id \in Ids /\ o.sym \in Symbols /\ o.side \in Side
  BY HeldTypes, RequestFields DEF Busy
<1>3. o.id = r.orig
  BY DEF InsideInv, RoutedInv, Aimed
<1>4. status \in [Ids -> {"none", "accepted", "rejected", "book_full",
                          "residual_dropped", "canceled", "not_found"}]
  BY DEF TypeInv, TypeOK
<1>5. CASE o \in index
  <2>1. known
    BY <1>1, <1>3, <1>5 DEF Resting
  <2>2. RestsAt(s, i, o)
    BY <1>5, RestingPosition
  <2>3. /\ status' = [status EXCEPT ![r.id] = "canceled"]
        /\ index' = index \ {o}
    BY <1>1, <2>1, <2>2 DEF RemoveOrder
  <2> QED
    BY <1>2, <1>4, <1>5, <2>3
<1>6. CASE o \notin index
  <2>1. ~RestsAt(s, i, o)
    <3>1. s \in Seq(Request)
      BY <1>2 DEF Inv, LadderInv
    <3>2. RestsAt(s, i, o) => o \in Elems(s)
      BY <3>1, RestsAtFinds
    <3>3. Elems(s) \subseteq index
      BY <1>2 DEF Inv, IndexInv
    <3> QED
      BY <1>6, <3>2, <3>3
  <2>2. /\ status' = [status EXCEPT ![r.id] = "not_found"]
        /\ index' = index
    BY <1>1, <2>1 DEF RemoveOrder
  <2> QED
    BY <1>2, <1>4, <1>6, <2>2
<1> QED
  BY <1>5, <1>6

\* What a matching loop trades against.
LEMMA BestTrade ==
  ASSUME Inv, UniqueIds, TypeInv, BookInv, NEW p \in Workers, Trade(p), NEW o \in index,
         o.sym = task[p].ord.sym, o.side # task[p].ord.side
  PROVE  \/ o = log'[Len(log')].maker
         \/ orderBefore(log'[Len(log')].maker, o)
<1> DEFINE a == task[p].ord
           r == Head(Ladder(p))
           q == Min2(left[a.id], left[r.id])
           e == [at |-> "fill", taker |-> a, maker |-> r, qty |-> q]
           s == books[o.sym][o.side]
<1>1. log' = Append(log, e) /\ Ladder(p) # <<>>
  BY DEF Trade, Stamp, CanTrade
<1>2. a \in Request /\ r \in Request
  BY MakerTypes
<1>3. e \in Ack \cup Fill /\ e.maker = r
  <2>1. a.id \in Ids /\ r.id \in Ids
    BY <1>2, RequestFields
  <2>2. q \in Nat
    BY <2>1 DEF Min2, TypeInv, TypeOK
  <2> HIDE DEF q
  <2> QED
    BY <1>2, <2>2 DEF Fill
<1> HIDE DEF e
<1>4. log'[Len(log')].maker = r
  BY <1>1, <1>3, AppendProperties DEF TypeInv, TypeOK
<1>5. o \in Request /\ o \in Elems(s)
  BY RestingPosition
<1>6. o.side = Opposite(a.side) /\ s = Ladder(p)
  BY <1>2, <1>5, RequestFields DEF Opposite, Side, Ladder
<1>7. o.sym \in Symbols /\ o.side \in Side
  BY <1>5, RequestFields
<1>8. s \in Seq(Request) /\ Sorted(s)
  BY <1>7 DEF Inv, LadderInv, BookInv, LaddersSorted
<1>9. PICK k \in 1..Len(s) : o = s[k]
  BY <1>5 DEF Elems
<1>10. 1 \in 1..Len(s) /\ r = s[1]
  BY <1>6, <1>8, <1>9
<1>11. k = 1 \/ orderBefore(s[1], s[k])
  BY <1>8, <1>10 DEF Sorted
<1> QED
  BY <1>4, <1>9, <1>10, <1>11

-----------------------------------------------------------------------------
(* Messages                                                                *)

\* A message is in one place, once.
MessagesApart ==
  /\ \A p \in Workers : Distinct(pend[p])
  /\ Distinct(out)
  /\ \A c \in Clients : Distinct(outQ[c])
  /\ \A p, q \in Workers : \A x \in Elems(pend[p]) : x \in Elems(pend[q]) => p = q
  /\ \A p \in Workers : \A x \in Elems(pend[p]) : x \notin Elems(out)
  /\ \A c \in Clients : \A n \in Elems(outQ[c]) :
       /\ <<c, n>> \notin Elems(out)
       /\ \A p \in Workers : <<c, n>> \notin Elems(pend[p])

\* Messages carry numbers that were given out.
Numbered ==
  /\ \A p \in Workers : \A x \in Elems(pend[p]) : x[2] \in 1..Len(log)
  /\ \A x \in Elems(out) : x[2] \in 1..Len(log)
  /\ \A c \in Clients : \A n \in Elems(outQ[c]) : n \in 1..Len(log)

\* A client is sent what it is owed, and no message twice.
OwedInv ==
  \A c \in Clients : /\ InFlight(c) \subseteq Owed(c) /\ got[c] \subseteq Owed(c)
                     /\ InFlight(c) \cap got[c] = {}

\* The invariant of the messages.
MessageInv == MessagesApart /\ Numbered /\ OwedInv /\ EveryMessageAccounted

\* Message n is on its way to c.
Flies(c, n) ==
  \/ \E p \in Workers : <<c, n>> \in Elems(pend[p])
  \/ <<c, n>> \in Elems(out)
  \/ n \in Elems(outQ[c])

\* InFlight, which the model builds as a set of pairs, says no more than that.
FlightIs == \A c \in Clients, n \in 1..Len(log) : n \in InFlight(c) <=> Flies(c, n)

\* What is owed and under way are numbers of the log, finitely many.
OwedIs ==
  \A c \in Clients :
    /\ Owed(c) \subseteq 1..Len(log) /\ InFlight(c) \subseteq 1..Len(log)
    /\ IsFiniteSet(Owed(c))

\* Appending a new element.
LEMMA AppendElems ==
  ASSUME NEW S, NEW s \in Seq(S), NEW e \in S, Distinct(s), e \notin Elems(s)
  PROVE  /\ Elems(Append(s, e)) = Elems(s) \cup {e} /\ Distinct(Append(s, e))
<1> DEFINE t == Append(s, e)
<1>1. /\ Len(t) = Len(s) + 1 /\ Len(s) \in Nat /\ t[Len(s) + 1] = e
      /\ \A i \in 1..Len(s) : t[i] = s[i]
  BY AppendProperties
<1> HIDE DEF t
<1>2. \A i \in 1..Len(s) : s[i] # e
  BY DEF Elems
<1>3. Distinct(t)
  BY <1>1, <1>2 DEF Distinct
<1>4. ASSUME NEW i \in 1..Len(t) PROVE t[i] \in Elems(s) \cup {e}
  BY <1>1 DEF Elems
<1>5. ASSUME NEW i \in 1..Len(s) PROVE s[i] \in Elems(t)
  <2>1. i \in 1..Len(t) /\ t[i] = s[i]
    BY <1>1
  <2> QED
    BY <2>1 DEF Elems
<1>6. e \in Elems(t)
  <2>1. Len(s) + 1 \in 1..Len(t)
    BY <1>1
  <2> QED
    BY <1>1, <2>1 DEF Elems
<1>7. Elems(t) = Elems(s) \cup {e}
  BY <1>4, <1>5, <1>6 DEF Elems
<1> QED
  BY <1>3, <1>7 DEF t

\* InFlight, message by message.
LEMMA FlightFacts ==
  TypeOK /\ Numbered => FlightIs /\ OwedIs
<1> SUFFICES ASSUME TypeOK, Numbered PROVE FlightIs /\ OwedIs
  OBVIOUS
<1>1. Len(log) \in Nat /\ DOMAIN log = 1..Len(log)
  BY DEF TypeOK
<1>2. \A p \in Workers : ToSet(pend[p]) = Elems(pend[p])
  <2> SUFFICES ASSUME NEW p \in Workers PROVE ToSet(pend[p]) = Elems(pend[p])
    OBVIOUS
  <2>1. pend[p] \in Seq(Conns \X Nat)
    BY DEF TypeOK
  <2>2. DOMAIN pend[p] = 1..Len(pend[p])
    BY <2>1
  <2> QED
    BY <2>2 DEF ToSet, Elems
<1>3. ToSet(out) = Elems(out)
  <2>1. DOMAIN out = 1..Len(out)
    BY DEF TypeOK
  <2> QED
    BY <2>1 DEF ToSet, Elems
<1>4. ASSUME NEW c \in Clients PROVE ToSet(outQ[c]) = Elems(outQ[c])
  <2>1. outQ[c] \in Seq(Nat)
    BY DEF TypeOK
  <2>2. DOMAIN outQ[c] = 1..Len(outQ[c])
    BY <2>1
  <2> QED
    BY <2>2 DEF ToSet, Elems
<1>5. ASSUME NEW c \in Clients, NEW n
      PROVE  n \in InFlight(c) <=> n \in 1..Len(log) /\ Flies(c, n)
  <2> DEFINE held == UNION {ToSet(pend[p]) : p \in Workers}
  <2>1. <<c, n>> \in held <=> \E p \in Workers : <<c, n>> \in Elems(pend[p])
    BY <1>2
  <2>2. n \in InFlight(c) <=> \/ n \in DOMAIN log /\ <<c, n>> \in held \cup ToSet(out)
                              \/ n \in ToSet(outQ[c])
    BY DEF InFlight
  <2> HIDE DEF held
  <2>3. n \in Elems(outQ[c]) => n \in 1..Len(log)
    BY DEF Numbered
  <2>4. ToSet(outQ[c]) = Elems(outQ[c])
    BY <1>4
  <2>5. n \in InFlight(c) <=> \/ n \in 1..Len(log) /\ <<c, n>> \in held
                              \/ n \in 1..Len(log) /\ <<c, n>> \in Elems(out)
                              \/ n \in Elems(outQ[c])
    BY <1>1, <1>3, <2>2, <2>4
  <2> QED
    BY <2>1, <2>3, <2>5 DEF Flies
<1>6. ASSUME NEW c \in Clients PROVE Owed(c) \in SUBSET (1..Len(log))
  BY <1>1 DEF Owed
<1>7. IsFiniteSet(1..Len(log))
  BY <1>1, FS_Interval
<1>8. ASSUME NEW c \in Clients PROVE IsFiniteSet(Owed(c))
  BY <1>6, <1>7, FS_Subset
<1>9. FlightIs
  BY <1>5 DEF FlightIs
<1>10. OwedIs
  BY <1>5, <1>6, <1>8 DEF OwedIs
<1> QED
  BY <1>9, <1>10

\* The same of the next state.
LEMMA FlightFactsNext ==
  (TypeOK /\ Numbered => FlightIs /\ OwedIs)'
BY FlightFacts, PTL

\* Counting: a message is sequenced, ...
LEMMA CountGrows ==
  ASSUME NEW W, NEW F, NEW G, NEW d \in Nat, NEW k, IsFiniteSet(W),
         F \subseteq W, G \subseteq W, k \notin W,
         Cardinality(W) = Cardinality(F) + Cardinality(G) + d
  PROVE  Cardinality(W \cup {k}) = Cardinality(F \cup {k}) + Cardinality(G) + d
<1>1. IsFiniteSet(F) /\ IsFiniteSet(G)
  BY FS_Subset
<1>2. Cardinality(W) \in Nat /\ Cardinality(F) \in Nat /\ Cardinality(G) \in Nat
  BY <1>1, FS_CardinalityType
<1>3. Cardinality(W \cup {k}) = Cardinality(W) + 1
  BY FS_AddElement
<1>4. Cardinality(F \cup {k}) = Cardinality(F) + 1
  BY <1>1, FS_AddElement
<1> QED
  BY <1>2, <1>3, <1>4

\* ... received, ...
LEMMA CountMoves ==
  ASSUME NEW W, NEW F, NEW G, NEW d \in Nat, NEW k \in F, IsFiniteSet(W),
         F \subseteq W, G \subseteq W, F \cap G = {},
         Cardinality(W) = Cardinality(F) + Cardinality(G) + d
  PROVE  Cardinality(W) = Cardinality(F \ {k}) + Cardinality(G \cup {k}) + d
<1>1. IsFiniteSet(F) /\ IsFiniteSet(G)
  BY FS_Subset
<1>2. Cardinality(W) \in Nat /\ Cardinality(F) \in Nat /\ Cardinality(G) \in Nat
  BY <1>1, FS_CardinalityType
<1>3. Cardinality(F \ {k}) = Cardinality(F) - 1
  BY <1>1, FS_RemoveElement
<1>4. Cardinality(G \cup {k}) = Cardinality(G) + 1
  <2>1. k \notin G
    OBVIOUS
  <2> QED
    BY <1>1, <2>1, FS_AddElement
<1> QED
  BY <1>2, <1>3, <1>4

\* ... or dropped.
LEMMA CountDrops ==
  ASSUME NEW W, NEW F, NEW G, NEW d \in Nat, NEW k \in F, IsFiniteSet(W),
         F \subseteq W, G \subseteq W,
         Cardinality(W) = Cardinality(F) + Cardinality(G) + d
  PROVE  Cardinality(W) = Cardinality(F \ {k}) + Cardinality(G) + (d + 1)
<1>1. IsFiniteSet(F) /\ IsFiniteSet(G)
  BY FS_Subset
<1>2. Cardinality(W) \in Nat /\ Cardinality(F) \in Nat /\ Cardinality(G) \in Nat
  BY <1>1, FS_CardinalityType
<1>3. Cardinality(F \ {k}) = Cardinality(F) - 1
  BY <1>1, FS_RemoveElement
<1> QED
  BY <1>2, <1>3

\* What a step may do with the messages of a client: nothing, ...
Still(c) ==
  Owed(c)' = Owed(c) /\ InFlight(c)' = InFlight(c) /\ UNCHANGED <<got[c], outDropped[c]>>

\* ... sequence one, ...
Sequences(c, k) ==
  /\ k \notin Owed(c) /\ Owed(c)' = Owed(c) \cup {k}
  /\ InFlight(c)' = InFlight(c) \cup {k} /\ UNCHANGED <<got[c], outDropped[c]>>

\* ... deliver one, ...
Delivers(c, k) ==
  /\ k \in InFlight(c) /\ Owed(c)' = Owed(c) /\ InFlight(c)' = InFlight(c) \ {k}
  /\ got[c]' = got[c] \cup {k} /\ UNCHANGED outDropped[c]

\* ... or lose one, which is counted unless the peer is gone.
Loses(c, k) ==
  /\ k \in InFlight(c) /\ Owed(c)' = Owed(c) /\ InFlight(c)' = InFlight(c) \ {k}
  /\ UNCHANGED got[c]
  /\ \/ outDropped[c]' = outDropped[c] + 1
     \/ peer[c] = "gone" /\ UNCHANGED outDropped[c]

\* These keep the account, and a peer that is gone stays so.
LEMMA AccountKept ==
  ASSUME TypeOK, MessageInv,
         \A c \in Clients : peer[c] = "gone" => peer'[c] = "gone",
         \A c \in Clients : \/ Still(c)
                            \/ \E k : Sequences(c, k) \/ Delivers(c, k) \/ Loses(c, k)
  PROVE  OwedInv' /\ EveryMessageAccounted'
<1>1. OwedIs
  BY FlightFacts DEF MessageInv
<1>2. ASSUME NEW c \in Clients
      PROVE  /\ InFlight(c)' \subseteq Owed(c)' /\ got'[c] \subseteq Owed(c)'
             /\ InFlight(c)' \cap got'[c] = {}
             /\ peer'[c] # "gone" =>
                  Cardinality(Owed(c)') =
                    Cardinality(InFlight(c)') + Cardinality(got'[c]) + outDropped'[c]
  <2> DEFINE W == Owed(c)
             F == InFlight(c)
             G == got[c]
             d == outDropped[c]
  <2>1. /\ IsFiniteSet(W) /\ F \subseteq W /\ G \subseteq W /\ F \cap G = {}
        /\ d \in Nat
    BY <1>1 DEF OwedIs, MessageInv, OwedInv, TypeOK
  <2>2. peer'[c] # "gone" =>
          peer[c] # "gone" /\ Cardinality(W) = Cardinality(F) + Cardinality(G) + d
    BY DEF MessageInv, EveryMessageAccounted
  <2>3. CASE Still(c)
    BY <2>1, <2>2, <2>3 DEF Still
  <2>4. ASSUME NEW k, Sequences(c, k)
        PROVE  /\ InFlight(c)' \subseteq Owed(c)' /\ got'[c] \subseteq Owed(c)'
               /\ InFlight(c)' \cap got'[c] = {}
               /\ peer'[c] # "gone" =>
                    Cardinality(Owed(c)') =
                      Cardinality(InFlight(c)') + Cardinality(got'[c]) + outDropped'[c]
    <3>1. /\ k \notin W /\ Owed(c)' = W \cup {k} /\ InFlight(c)' = F \cup {k}
          /\ got'[c] = G /\ outDropped'[c] = d
      BY <2>4 DEF Sequences
    <3> HIDE DEF W, F, G, d
    <3>2. ASSUME peer'[c] # "gone"
          PROVE  Cardinality(W \cup {k}) = Cardinality(F \cup {k}) + Cardinality(G) + d
      BY <2>1, <2>2, <3>1, <3>2, CountGrows
    <3> QED
      BY <2>1, <3>1, <3>2
  <2>5. ASSUME NEW k, Delivers(c, k)
        PROVE  /\ InFlight(c)' \subseteq Owed(c)' /\ got'[c] \subseteq Owed(c)'
               /\ InFlight(c)' \cap got'[c] = {}
               /\ peer'[c] # "gone" =>
                    Cardinality(Owed(c)') =
                      Cardinality(InFlight(c)') + Cardinality(got'[c]) + outDropped'[c]
    <3>1. /\ k \in F /\ Owed(c)' = W /\ InFlight(c)' = F \ {k}
          /\ got'[c] = G \cup {k} /\ outDropped'[c] = d
      BY <2>5 DEF Delivers
    <3> HIDE DEF W, F, G, d
    <3>2. ASSUME peer'[c] # "gone"
          PROVE  Cardinality(W) = Cardinality(F \ {k}) + Cardinality(G \cup {k}) + d
      BY <2>1, <2>2, <3>1, <3>2, CountMoves
    <3> QED
      BY <2>1, <3>1, <3>2
  <2>6. ASSUME NEW k, Loses(c, k)
        PROVE  /\ InFlight(c)' \subseteq Owed(c)' /\ got'[c] \subseteq Owed(c)'
               /\ InFlight(c)' \cap got'[c] = {}
               /\ peer'[c] # "gone" =>
                    Cardinality(Owed(c)') =
                      Cardinality(InFlight(c)') + Cardinality(got'[c]) + outDropped'[c]
    <3>1. /\ k \in F /\ Owed(c)' = W /\ InFlight(c)' = F \ {k} /\ got'[c] = G
          /\ peer[c] # "gone" => outDropped'[c] = d + 1
      BY <2>6 DEF Loses
    <3> HIDE DEF W, F, G, d
    <3>2. ASSUME peer'[c] # "gone"
          PROVE  Cardinality(W) = Cardinality(F \ {k}) + Cardinality(G) + (d + 1)
      BY <2>1, <2>2, <3>1, <3>2, CountDrops
    <3> QED
      BY <2>1, <2>2, <3>1, <3>2
  <2> HIDE DEF W, F, G, d
  <2> QED
    BY <2>3, <2>4, <2>5, <2>6
<1> QED
  BY <1>2 DEF OwedInv, EveryMessageAccounted

\* A worker stamps an entry and answers its recipients.
LEMMA StampMessages ==
  ASSUME TypeOK, TypeOK', MessageInv, NEW p \in Workers,
         NEW e \in Ack \cup Fill, NEW To, NEW t \in Seq(Conns \X Nat),
         log' = Append(log, e), pend' = [pend EXCEPT ![p] = t], Distinct(t),
         Elems(t) = Elems(pend[p]) \cup {<<c, Len(log) + 1>> : c \in To},
         \A c \in Clients : c \in To <=> IF e.at = "fill"
                                           THEN c \in {e.taker.from, e.maker.from}
                                           ELSE e.req.from = c,
         UNCHANGED <<out, outQ, outDropped, peer, got>>
  PROVE  MessageInv'
<1> DEFINE n == Len(log) + 1
           new == {<<c, n>> : c \in To}
<1>1. /\ Len(log) \in Nat /\ Len(log') = n /\ DOMAIN log = 1..Len(log)
      /\ DOMAIN log' = 1..n /\ log'[n] = e
      /\ \A m \in 1..Len(log) : log'[m] = log[m]
  BY AppendProperties DEF TypeOK
<1>2. \A q \in Workers : pend'[q] = IF q = p THEN t ELSE pend[q]
  BY DEF TypeOK
<1>3. \A x \in new : x[2] = n
  OBVIOUS
<1>4. /\ \A q \in Workers : \A x \in Elems(pend[q]) : x[2] \in 1..Len(log)
      /\ \A x \in Elems(out) : x[2] \in 1..Len(log)
      /\ \A c \in Clients : \A m \in Elems(outQ[c]) : m \in 1..Len(log)
  BY DEF MessageInv, Numbered
<1>5. n \notin 1..Len(log) /\ \A m \in 1..Len(log) : m \in 1..n
  BY <1>1
<1>6. /\ \A q \in Workers : \A x \in Elems(pend[q]) : x \notin new
      /\ \A x \in Elems(out) : x \notin new
      /\ \A c \in Clients : \A m \in Elems(outQ[c]) : <<c, m>> \notin new
  BY <1>3, <1>4, <1>5
<1>7. Elems(t) = Elems(pend[p]) \cup new /\ n \in 1..n
  BY <1>1
<1> HIDE DEF new, n
<1>8. Numbered'
  <2>1. ASSUME NEW q \in Workers, NEW x \in Elems(pend'[q]) PROVE x[2] \in 1..n
    <3>1. CASE q = p
      BY <1>2, <1>3, <1>4, <1>5, <1>7, <3>1
    <3>2. CASE q # p
      BY <1>2, <1>4, <1>5, <3>2
    <3> QED
      BY <3>1, <3>2
  <2>2. \A x \in Elems(out') : x[2] \in 1..n
    BY <1>4, <1>5
  <2>3. \A c \in Clients : \A m \in Elems(outQ'[c]) : m \in 1..n
    BY <1>4, <1>5
  <2> QED
    BY <1>1, <2>1, <2>2, <2>3 DEF Numbered
<1>9. MessagesApart'
  <2>1. \A q \in Workers : Distinct(pend'[q])
    BY <1>2 DEF MessageInv, MessagesApart
  <2>2. ASSUME NEW q \in Workers, NEW w \in Workers, NEW x \in Elems(pend'[q]),
               x \in Elems(pend'[w])
        PROVE  q = w
    <3>1. \A y \in Workers : x \in Elems(pend'[y]) =>
            x \in Elems(pend[y]) \/ (y = p /\ x \in new)
      BY <1>2, <1>7
    <3> QED
      BY <1>6, <2>2, <3>1 DEF MessageInv, MessagesApart
  <2>3. \A q \in Workers : \A x \in Elems(pend'[q]) : x \notin Elems(out)
    BY <1>2, <1>6, <1>7 DEF MessageInv, MessagesApart
  <2>4. ASSUME NEW c \in Clients, NEW m \in Elems(outQ[c])
        PROVE  \A q \in Workers : <<c, m>> \notin Elems(pend'[q])
    BY <1>2, <1>6, <1>7 DEF MessageInv, MessagesApart
  <2> QED
    BY <2>1, <2>2, <2>3, <2>4 DEF MessageInv, MessagesApart
<1>10. FlightIs /\ OwedIs /\ FlightIs' /\ OwedIs'
  BY <1>8, FlightFacts, FlightFactsNext DEF MessageInv
<1>11. ASSUME NEW c \in Clients, NEW m
       PROVE  Flies(c, m)' <=> Flies(c, m) \/ (m = n /\ c \in To)
  <2>1. <<c, m>> \in new <=> m = n /\ c \in To
    BY DEF new
  <2>2. \A q \in Workers : <<c, m>> \in Elems(pend'[q]) <=>
          <<c, m>> \in Elems(pend[q]) \/ (q = p /\ <<c, m>> \in new)
    BY <1>2, <1>7
  <2> QED
    BY <2>1, <2>2 DEF Flies
<1>12. ASSUME NEW c \in Clients PROVE ~Flies(c, n) /\ n \notin Owed(c)
  BY <1>4, <1>5, <1>10 DEF Flies, OwedIs
<1>13. ASSUME NEW c \in Clients
       PROVE  Owed(c)' = Owed(c) \cup (IF c \in To THEN {n} ELSE {})
  <2>1. n \in Owed(c)' <=> c \in To
    BY <1>1, <1>7 DEF Owed
  <2>2. \A m \in 1..Len(log) : m \in Owed(c)' <=> m \in Owed(c)
    BY <1>1, <1>5 DEF Owed
  <2>3. \A m \in Owed(c)' : m = n \/ m \in 1..Len(log)
    BY <1>1 DEF Owed, n
  <2>4. \A m \in Owed(c) : m \in 1..Len(log)
    BY <1>10 DEF OwedIs
  <2> QED
    BY <2>1, <2>2, <2>3, <2>4
<1>14. ASSUME NEW c \in Clients
       PROVE  InFlight(c)' = InFlight(c) \cup (IF c \in To THEN {n} ELSE {})
  <2>1. \A m \in 1..n : m \in InFlight(c)' <=> Flies(c, m)'
    BY <1>1, <1>10 DEF FlightIs
  <2>2. \A m \in 1..Len(log) : m \in InFlight(c) <=> Flies(c, m)
    BY <1>10 DEF FlightIs
  <2>3. \A m \in InFlight(c)' : m = n \/ m \in 1..Len(log)
    <3>1. \A m \in InFlight(c)' : m \in 1..n
      BY <1>1, <1>10 DEF OwedIs
    <3> QED
      BY <1>1, <3>1 DEF n
  <2>4. \A m \in InFlight(c) : m \in 1..Len(log)
    BY <1>10 DEF OwedIs
  <2>5. n \in InFlight(c)' <=> c \in To
    BY <1>7, <1>11, <1>12, <2>1
  <2>6. \A m \in 1..Len(log) : m \in InFlight(c)' <=> m \in InFlight(c)
    BY <1>5, <1>11, <2>1, <2>2
  <2> QED
    BY <2>3, <2>4, <2>5, <2>6
<1>15. ASSUME NEW c \in Clients PROVE Still(c) \/ Sequences(c, n)
  <2>1. CASE c \in To
    BY <1>12, <1>13, <1>14, <2>1 DEF Sequences
  <2>2. CASE c \notin To
    <3>1. Owed(c)' = Owed(c)
      BY <1>13, <2>2
    <3>2. InFlight(c)' = InFlight(c)
      BY <1>14, <2>2
    <3> QED
      BY <3>1, <3>2 DEF Still
  <2> QED
    BY <2>1, <2>2
<1>16. OwedInv' /\ EveryMessageAccounted'
  BY <1>15, AccountKept
<1> QED
  BY <1>8, <1>9, <1>16 DEF MessageInv

\* Messages of c that are on their way, but for those that are gone.
LEMMA FlightShrinks ==
  ASSUME TypeOK, TypeOK', Numbered, Numbered', log' = log,
         NEW c \in Clients, NEW Gone,
         \A m \in 1..Len(log) : Flies(c, m)' <=> Flies(c, m) /\ m \notin Gone
  PROVE  InFlight(c)' = InFlight(c) \ Gone /\ Owed(c)' = Owed(c)
<1>1. FlightIs /\ OwedIs /\ FlightIs' /\ OwedIs'
  BY FlightFacts, FlightFactsNext
<1>2. /\ \A m \in 1..Len(log) : m \in InFlight(c) <=> Flies(c, m)
      /\ \A m \in 1..Len(log) : m \in InFlight(c)' <=> Flies(c, m)'
      /\ InFlight(c) \subseteq 1..Len(log) /\ InFlight(c)' \subseteq 1..Len(log)
  BY <1>1 DEF FlightIs, OwedIs
<1>3. Owed(c)' = Owed(c)
  BY DEF Owed
<1> QED
  BY <1>2, <1>3

\* The messages of c that are on their way stay on it.
LEMMA FlightStays ==
  ASSUME TypeOK, TypeOK', Numbered, Numbered', log' = log, NEW c \in Clients,
         \A m \in 1..Len(log) : Flies(c, m)' <=> Flies(c, m)
  PROVE  InFlight(c)' = InFlight(c) /\ Owed(c)' = Owed(c)
<1>1. FlightIs /\ OwedIs /\ FlightIs' /\ OwedIs'
  BY FlightFacts, FlightFactsNext
<1>2. /\ \A m \in 1..Len(log) : m \in InFlight(c) <=> Flies(c, m)
      /\ \A m \in 1..Len(log) : m \in InFlight(c)' <=> Flies(c, m)'
      /\ InFlight(c) \subseteq 1..Len(log) /\ InFlight(c)' \subseteq 1..Len(log)
  BY <1>1 DEF FlightIs, OwedIs
<1>3. Owed(c)' = Owed(c)
  BY DEF Owed
<1> QED
  BY <1>2, <1>3

\* Answers of a worker change their order.
LEMMA ReplyKeepsMessages ==
  ASSUME TypeOK, TypeOK', MessageInv, NEW p \in Workers,
         NEW t, Distinct(t), Elems(t) = Elems(pend[p]),
         pend' = [pend EXCEPT ![p] = t],
         UNCHANGED <<log, out, outQ, outDropped, peer, got>>
  PROVE  MessageInv'
<1>1. \A q \in Workers : Elems(pend'[q]) = Elems(pend[q])
  BY DEF TypeOK
<1>2. Numbered'
  BY <1>1 DEF MessageInv, Numbered
<1>3. \A q \in Workers : Distinct(pend'[q])
  <2>1. \A q \in Workers : pend'[q] = IF q = p THEN t ELSE pend[q]
    BY DEF TypeOK
  <2> QED
    BY <2>1 DEF MessageInv, MessagesApart
<1>4. MessagesApart'
  BY <1>1, <1>3 DEF MessageInv, MessagesApart
<1>5. ASSUME NEW c \in Clients PROVE Still(c)
  <2>1. \A m \in 1..Len(log) : Flies(c, m)' <=> Flies(c, m)
    BY <1>1 DEF Flies
  <2>2. InFlight(c)' = InFlight(c) /\ Owed(c)' = Owed(c)
    BY <1>2, <2>1, FlightStays DEF MessageInv
  <2> QED
    BY <2>2 DEF Still
<1>6. OwedInv' /\ EveryMessageAccounted'
  BY <1>5, AccountKept
<1> QED
  BY <1>2, <1>4, <1>6 DEF MessageInv

\* The first answer of a worker leaves it; what is left stays apart.
LEMMA FirstAnswer ==
  ASSUME TypeOK, MessageInv, NEW p \in Workers, pend[p] # <<>>, HandedOver(p)
  PROVE  /\ Head(pend[p]) \in Conns \X Nat
         /\ Head(pend[p]) \in Elems(pend[p]) /\ Head(pend[p])[2] \in 1..Len(log)
         /\ \A q \in Workers : Elems(pend'[q]) = Elems(pend[q]) \ {Head(pend[p])}
         /\ \A q \in Workers : Distinct(pend'[q])
<1> DEFINE s == pend[p]
<1>1. s \in Seq(Conns \X Nat) /\ s # <<>> /\ Distinct(s)
  BY DEF TypeOK, MessageInv, MessagesApart
<1>2. /\ Elems(Tail(s)) = Elems(s) \ {Head(s)} /\ Distinct(Tail(s))
      /\ Head(s) \in Elems(s)
  BY <1>1, TailElems
<1>3. Head(s) \in Conns \X Nat
  BY <1>1
<1>4. \A q \in Workers : pend'[q] = IF q = p THEN Tail(s) ELSE pend[q]
  BY DEF HandedOver, TypeOK
<1> HIDE DEF s
<1>5. ASSUME NEW q \in Workers
      PROVE  Distinct(pend'[q]) /\ Elems(pend'[q]) = Elems(pend[q]) \ {Head(s)}
  <2>1. CASE q = p
    <3>1. pend[q] = s /\ pend'[q] = Tail(s)
      BY <1>4, <2>1 DEF s
    <3> QED
      BY <1>2, <3>1
  <2>2. CASE q # p
    <3>1. Head(s) \in Elems(pend[p])
      BY <1>2 DEF s
    <3>2. Head(s) \notin Elems(pend[q]) /\ Distinct(pend[q])
      BY <2>2, <3>1 DEF MessageInv, MessagesApart
    <3>3. pend'[q] = pend[q]
      BY <1>4, <2>2
    <3> QED
      BY <3>2, <3>3
  <2> QED
    BY <2>1, <2>2
<1>6. Head(s)[2] \in 1..Len(log)
  BY <1>2 DEF MessageInv, Numbered, s
<1> QED
  BY <1>2, <1>3, <1>5, <1>6 DEF s

\* mutex: the answer is written to its socket, or lost when the peer is gone.
LEMMA SendJSONMessages ==
  ASSUME TypeInv, TypeOK', MessageInv, NEW p \in Workers, SendJSON(p)
  PROVE  MessageInv'
<1>1. /\ pc[p] = "send" /\ HandedOver(p)
      /\ UNCHANGED <<log, out, outQ, outDropped, peer>>
  BY DEF SendJSON, engineVars, sendVars
<1>2. TypeOK /\ pend[p] # <<>>
  BY <1>1 DEF TypeInv, PendInv
<1> DEFINE x == Head(pend[p])
<1>3. /\ x \in Conns \X Nat /\ x \in Elems(pend[p]) /\ x[2] \in 1..Len(log)
      /\ \A q \in Workers : Elems(pend'[q]) = Elems(pend[q]) \ {x}
      /\ \A q \in Workers : Distinct(pend'[q])
  BY <1>1, <1>2, FirstAnswer
<1>4. got' = IF x[1] \in Clients /\ peer[x[1]] = "gone" THEN got
             ELSE [got EXCEPT ![x[1]] = @ \cup {x[2]}]
  BY DEF SendJSON
<1> HIDE DEF x
<1>5. Numbered'
  BY <1>1, <1>3 DEF MessageInv, Numbered
<1>6. MessagesApart'
  BY <1>1, <1>3 DEF MessageInv, MessagesApart
<1> DEFINE k == x[2]
<1>7. x[1] \in Conns /\ x = <<x[1], k>>
  BY <1>3
<1>8. x \notin Elems(out)
  BY <1>3 DEF MessageInv, MessagesApart
<1>9. ASSUME NEW c \in Clients, c = x[1] PROVE Delivers(c, k) \/ Loses(c, k)
  <2>1. x = <<c, k>> /\ k \notin Elems(outQ[c]) /\ Flies(c, k)
    BY <1>3, <1>7, <1>9 DEF MessageInv, MessagesApart, Flies
  <2> HIDE DEF k
  <2>2. \A m \in 1..Len(log) : Flies(c, m)' <=> Flies(c, m) /\ m \notin {k}
    <3> SUFFICES ASSUME NEW m \in 1..Len(log)
                 PROVE  Flies(c, m)' <=> Flies(c, m) /\ m # k
      OBVIOUS
    <3>1. <<c, m>> = x <=> m = k
      BY <2>1
    <3>2. \A q \in Workers : <<c, m>> \in Elems(pend'[q]) <=>
            <<c, m>> \in Elems(pend[q]) /\ m # k
      BY <1>3, <3>1
    <3> QED
      BY <1>1, <1>8, <2>1, <3>1, <3>2 DEF Flies
  <2>3. InFlight(c)' = InFlight(c) \ {k} /\ Owed(c)' = Owed(c)
    BY <1>1, <1>2, <1>5, <2>2, FlightShrinks DEF MessageInv
  <2>4. k \in InFlight(c)
    <3>1. k \in 1..Len(log) /\ FlightIs
      BY <1>2, <1>3, FlightFacts DEF MessageInv, k
    <3> QED
      BY <2>1, <3>1 DEF FlightIs
  <2>5. CASE peer[c] = "gone"
    BY <1>1, <1>4, <1>9, <2>3, <2>4, <2>5 DEF Loses
  <2>6. CASE peer[c] # "gone"
    <3>1. got' = [got EXCEPT ![c] = @ \cup {k}]
      BY <1>4, <1>9, <2>6 DEF k
    <3>2. got'[c] = got[c] \cup {k}
      BY <1>2, <3>1 DEF TypeOK, Conns
    <3> QED
      BY <1>1, <2>3, <2>4, <3>2 DEF Delivers
  <2> QED
    BY <2>5, <2>6
<1>10. ASSUME NEW c \in Clients, c # x[1] PROVE Still(c)
  <2>1. \A m \in 1..Len(log) : Flies(c, m)' <=> Flies(c, m)
    <3> SUFFICES ASSUME NEW m \in 1..Len(log) PROVE Flies(c, m)' <=> Flies(c, m)
      OBVIOUS
    <3>1. <<c, m>> # x
      BY <1>7, <1>10
    <3> QED
      BY <1>1, <1>3, <3>1 DEF Flies
  <2>2. InFlight(c)' = InFlight(c) /\ Owed(c)' = Owed(c)
    BY <1>1, <1>2, <1>5, <2>1, FlightStays DEF MessageInv
  <2>3. got'[c] = got[c]
    BY <1>2, <1>4, <1>10 DEF TypeOK, Conns
  <2> QED
    BY <1>1, <2>2, <2>3 DEF Still
<1> HIDE DEF k
<1>11. OwedInv' /\ EveryMessageAccounted'
  BY <1>1, <1>2, <1>9, <1>10, AccountKept
<1> QED
  BY <1>5, <1>6, <1>11 DEF MessageInv

\* disruptor: the answer goes into the output channel.
LEMMA SendOutMessages ==
  ASSUME TypeInv, TypeOK', MessageInv, NEW p \in Workers, SendOut(p)
  PROVE  MessageInv'
<1>1. /\ pc[p] = "send" /\ HandedOver(p) /\ kind = "disruptor"
      /\ out' = Append(out, Head(pend[p]))
      /\ UNCHANGED <<log, outQ, outDropped, peer, got>>
  BY DEF SendOut, engineVars
<1>2. TypeOK /\ pend[p] # <<>>
  BY <1>1 DEF TypeInv, PendInv
<1> DEFINE x == Head(pend[p])
<1>3. /\ x \in Conns \X Nat /\ x \in Elems(pend[p]) /\ x[2] \in 1..Len(log)
      /\ \A q \in Workers : Elems(pend'[q]) = Elems(pend[q]) \ {x}
      /\ \A q \in Workers : Distinct(pend'[q])
  BY <1>1, <1>2, FirstAnswer
<1>4. out' = Append(out, x)
  BY <1>1
<1> HIDE DEF x
<1>5. x \notin Elems(out)
  BY <1>3 DEF MessageInv, MessagesApart
<1>6. Elems(out') = Elems(out) \cup {x} /\ Distinct(out')
  <2>1. x \in Clients \X Nat
    <3>1. x[1] \in Clients
      BY <1>1, <1>3 DEF TypeInv, FromClients
    <3> QED
      BY <1>3, <3>1
  <2>2. out \in Seq(Clients \X Nat) /\ Distinct(out)
    BY <1>2 DEF TypeOK, MessageInv, MessagesApart
  <2> QED
    BY <1>4, <1>5, <2>1, <2>2, AppendElems
<1>7. Numbered'
  BY <1>1, <1>3, <1>6 DEF MessageInv, Numbered
<1>8. MessagesApart'
  <2>1. \A q \in Workers : Distinct(pend'[q])
    BY <1>3
  <2>2. \A q, w \in Workers : \A y \in Elems(pend'[q]) : y \in Elems(pend'[w]) => q = w
    BY <1>3 DEF MessageInv, MessagesApart
  <2>3. \A q \in Workers : \A y \in Elems(pend'[q]) : y \notin Elems(out')
    BY <1>3, <1>6 DEF MessageInv, MessagesApart
  <2>4. ASSUME NEW c \in Clients, NEW n \in Elems(outQ[c])
        PROVE  /\ <<c, n>> \notin Elems(out')
               /\ \A q \in Workers : <<c, n>> \notin Elems(pend'[q])
    <3>1. <<c, n>> # x
      BY <1>3 DEF MessageInv, MessagesApart
    <3> QED
      BY <1>3, <1>6, <3>1 DEF MessageInv, MessagesApart
  <2> QED
    BY <1>1, <1>6, <2>1, <2>2, <2>3, <2>4 DEF MessageInv, MessagesApart
<1>9. ASSUME NEW c \in Clients PROVE Still(c)
  <2>1. ASSUME NEW m \in 1..Len(log) PROVE Flies(c, m)' <=> Flies(c, m)
    <3>1. CASE <<c, m>> = x
      BY <1>3, <1>6, <3>1 DEF Flies
    <3>2. CASE <<c, m>> # x
      BY <1>1, <1>3, <1>6, <3>2 DEF Flies
    <3> QED
      BY <3>1, <3>2
  <2>2. InFlight(c)' = InFlight(c) /\ Owed(c)' = Owed(c)
    BY <1>1, <1>2, <1>7, <2>1, FlightStays DEF MessageInv
  <2> QED
    BY <1>1, <2>2 DEF Still
<1>10. OwedInv' /\ EveryMessageAccounted'
  BY <1>1, <1>2, <1>9, AccountKept
<1> QED
  BY <1>7, <1>8, <1>10 DEF MessageInv

\* An output writer puts a message into its client's queue or drops it.
LEMMA OutputMessages ==
  ASSUME TypeInv, TypeOK', MessageInv, NEW i \in DOMAIN out, outputLoop(i)
  PROVE  MessageInv'
<1> DEFINE x == out[i]
<1>1. /\ out' = RemoveAt(out, i) /\ enqueue(x[1], x[2])
      /\ UNCHANGED <<log, pend, peer, got>>
  BY DEF outputLoop, engineVars
<1>2. TypeOK /\ out \in Seq(Clients \X Nat) /\ i \in 1..Len(out) /\ Distinct(out)
  <2>1. TypeOK /\ out \in Seq(Clients \X Nat) /\ Distinct(out)
    BY DEF TypeInv, TypeOK, MessageInv, MessagesApart
  <2> QED
    BY <2>1
<1>3. x \in Clients \X Nat /\ x \in Elems(out)
  BY <1>2 DEF Elems
<1>4. Elems(out') = Elems(out) \ {x} /\ Distinct(out')
  BY <1>1, <1>2, RemoveAtElems
<1> HIDE DEF x
<1>5. PICK c \in Clients, k \in Nat : x = <<c, k>> /\ x[1] = c /\ x[2] = k
  BY <1>3
<1>6. k \in 1..Len(log)
  BY <1>3, <1>5 DEF MessageInv, Numbered
<1>7. /\ \A q \in Workers : x \notin Elems(pend[q])
      /\ k \notin Elems(outQ[c])
  BY <1>3, <1>5 DEF MessageInv, MessagesApart
<1>8. \/ outQ' = [outQ EXCEPT ![c] = Append(@, k)] /\ UNCHANGED outDropped
      \/ outDropped' = [outDropped EXCEPT ![c] = @ + 1] /\ UNCHANGED outQ
  BY <1>1, <1>5 DEF enqueue
<1>9. CASE outDropped' = [outDropped EXCEPT ![c] = @ + 1] /\ UNCHANGED outQ
  <2>1. Numbered'
    BY <1>1, <1>4, <1>9 DEF MessageInv, Numbered
  <2>2. MessagesApart'
    BY <1>1, <1>4, <1>9 DEF MessageInv, MessagesApart
  <2>3. ASSUME NEW d \in Clients, d # c PROVE Still(d)
    <3>1. \A m \in 1..Len(log) : Flies(d, m)' <=> Flies(d, m)
      <4> SUFFICES ASSUME NEW m \in 1..Len(log) PROVE Flies(d, m)' <=> Flies(d, m)
        OBVIOUS
      <4>1. <<d, m>> # x
        BY <1>5, <2>3
      <4> QED
        BY <1>1, <1>4, <1>9, <4>1 DEF Flies
    <3>2. InFlight(d)' = InFlight(d) /\ Owed(d)' = Owed(d)
      BY <1>1, <1>2, <2>1, <3>1, FlightStays DEF MessageInv
    <3>3. outDropped'[d] = outDropped[d]
      BY <1>2, <1>9, <2>3 DEF TypeOK
    <3> QED
      BY <1>1, <3>2, <3>3 DEF Still
  <2>4. Loses(c, k)
    <3>1. \A m \in 1..Len(log) : Flies(c, m)' <=> Flies(c, m) /\ m \notin {k}
      <4> SUFFICES ASSUME NEW m \in 1..Len(log)
                   PROVE  Flies(c, m)' <=> Flies(c, m) /\ m # k
        OBVIOUS
      <4>1. <<c, m>> = x <=> m = k
        BY <1>5
      <4>2. CASE m = k
        BY <1>1, <1>4, <1>7, <1>9, <4>1, <4>2 DEF Flies
      <4>3. CASE m # k
        BY <1>1, <1>4, <1>9, <4>1, <4>3 DEF Flies
      <4> QED
        BY <4>2, <4>3
    <3>2. InFlight(c)' = InFlight(c) \ {k} /\ Owed(c)' = Owed(c)
      BY <1>1, <1>2, <1>5, <2>1, <3>1, FlightShrinks DEF MessageInv
    <3>3. FlightIs /\ Flies(c, k)
      BY <1>2, <1>3, <1>5, FlightFacts DEF MessageInv, Flies
    <3>4. k \in InFlight(c)
      BY <1>5, <1>6, <3>3 DEF FlightIs
    <3>5. outDropped'[c] = outDropped[c] + 1
      BY <1>2, <1>5, <1>9 DEF TypeOK
    <3> QED
      BY <1>1, <3>2, <3>4, <3>5 DEF Loses
  <2>5. OwedInv' /\ EveryMessageAccounted'
    BY <1>1, <1>2, <2>3, <2>4, AccountKept
  <2> QED
    BY <2>1, <2>2, <2>5 DEF MessageInv
<1>10. CASE outQ' = [outQ EXCEPT ![c] = Append(@, k)] /\ UNCHANGED outDropped
  <2>1. \A d \in Clients : d # c => outQ'[d] = outQ[d]
    BY <1>2, <1>10 DEF TypeOK
  <2>2. Elems(outQ'[c]) = Elems(outQ[c]) \cup {k} /\ Distinct(outQ'[c])
    <3>1. outQ[c] \in Seq(Nat) /\ Distinct(outQ[c]) /\ outQ'[c] = Append(outQ[c], k)
      BY <1>2, <1>5, <1>10 DEF TypeOK, MessageInv, MessagesApart
    <3> QED
      BY <1>5, <1>7, <3>1, AppendElems
  <2>3. Numbered'
    <3>1. \A d \in Clients : \A m \in Elems(outQ'[d]) : m \in 1..Len(log)
      BY <1>6, <2>1, <2>2 DEF MessageInv, Numbered
    <3> QED
      BY <1>1, <1>4, <3>1 DEF MessageInv, Numbered
  <2>4. MessagesApart'
    <3>1. \A d \in Clients : Distinct(outQ'[d])
      BY <2>1, <2>2 DEF MessageInv, MessagesApart
    <3>2. ASSUME NEW d \in Clients, NEW m \in Elems(outQ'[d])
          PROVE  /\ <<d, m>> \notin Elems(out')
                 /\ \A q \in Workers : <<d, m>> \notin Elems(pend'[q])
      <4>1. CASE m \in Elems(outQ[d])
        BY <1>1, <1>4, <4>1 DEF MessageInv, MessagesApart
      <4>2. CASE d = c /\ m = k
        BY <1>1, <1>4, <1>5, <1>7, <4>2
      <4> QED
        BY <2>1, <2>2, <4>1, <4>2
    <3> QED
      BY <1>1, <1>4, <3>1, <3>2 DEF MessageInv, MessagesApart
  <2>5. ASSUME NEW d \in Clients PROVE Still(d)
    <3>1. ASSUME NEW m \in 1..Len(log) PROVE Flies(d, m)' <=> Flies(d, m)
      <4>1. CASE <<d, m>> = x
        <5>1. d = c /\ m = k
          BY <1>5, <4>1
        <5> QED
          BY <1>3, <2>2, <4>1, <5>1 DEF Flies
      <4>2. CASE <<d, m>> # x
        <5>1. m \in Elems(outQ'[d]) <=> m \in Elems(outQ[d])
          BY <1>5, <2>1, <2>2, <4>2
        <5> QED
          BY <1>1, <1>4, <4>2, <5>1 DEF Flies
      <4> QED
        BY <4>1, <4>2
    <3>2. InFlight(d)' = InFlight(d) /\ Owed(d)' = Owed(d)
      BY <1>1, <1>2, <2>3, <3>1, FlightStays DEF MessageInv
    <3> QED
      BY <1>1, <1>10, <3>2 DEF Still
  <2>6. OwedInv' /\ EveryMessageAccounted'
    BY <1>1, <1>2, <2>5, AccountKept
  <2> QED
    BY <2>3, <2>4, <2>6 DEF MessageInv
<1> QED
  BY <1>8, <1>9, <1>10

\* A client's writer sends a message.
LEMMA WriteMessages ==
  ASSUME TypeInv, TypeOK', MessageInv, NEW c \in Clients, writeLoop(c)
  PROVE  MessageInv'
<1> DEFINE k == Head(outQ[c])
<1>1. /\ outQ[c] # <<>> /\ got' = [got EXCEPT ![c] = @ \cup {k}]
      /\ outQ' = [outQ EXCEPT ![c] = Tail(@)]
      /\ UNCHANGED <<log, pend, out, outDropped, peer>>
  BY DEF writeLoop, engineVars
<1>2. TypeOK /\ outQ[c] \in Seq(Nat) /\ Distinct(outQ[c])
  BY DEF TypeInv, TypeOK, MessageInv, MessagesApart
<1>3. /\ Elems(Tail(outQ[c])) = Elems(outQ[c]) \ {k} /\ Distinct(Tail(outQ[c]))
      /\ k \in Elems(outQ[c])
  BY <1>1, <1>2, TailElems
<1>4. \A d \in Clients : outQ'[d] = IF d = c THEN Tail(outQ[c]) ELSE outQ[d]
  BY <1>1, <1>2 DEF TypeOK
<1>5. \A d \in Clients : got'[d] = IF d = c THEN got[c] \cup {k} ELSE got[d]
  BY <1>1, <1>2 DEF TypeOK, Conns
<1> HIDE DEF k
<1>6. \A d \in Clients : Elems(outQ'[d]) = IF d = c THEN Elems(outQ[c]) \ {k}
                                                    ELSE Elems(outQ[d])
  BY <1>3, <1>4
<1>7. Numbered'
  BY <1>1, <1>6 DEF MessageInv, Numbered
<1>8. MessagesApart'
  <2>1. \A d \in Clients : Distinct(outQ'[d])
    BY <1>3, <1>4 DEF MessageInv, MessagesApart
  <2> QED
    BY <1>1, <1>6, <2>1 DEF MessageInv, MessagesApart
<1>9. k \in 1..Len(log)
  BY <1>3 DEF MessageInv, Numbered
<1>10. Delivers(c, k)
  <2>1. /\ <<c, k>> \notin Elems(out)
        /\ \A q \in Workers : <<c, k>> \notin Elems(pend[q])
    BY <1>3 DEF MessageInv, MessagesApart
  <2>2. \A m \in 1..Len(log) : Flies(c, m)' <=> Flies(c, m) /\ m \notin {k}
    <3> SUFFICES ASSUME NEW m \in 1..Len(log)
                 PROVE  Flies(c, m)' <=> Flies(c, m) /\ m # k
      OBVIOUS
    <3>1. m \in Elems(outQ'[c]) <=> m \in Elems(outQ[c]) /\ m # k
      BY <1>6
    <3> QED
      BY <1>1, <2>1, <3>1 DEF Flies
  <2>3. InFlight(c)' = InFlight(c) \ {k} /\ Owed(c)' = Owed(c)
    BY <1>1, <1>2, <1>7, <2>2, FlightShrinks DEF MessageInv
  <2>4. FlightIs /\ Flies(c, k)
    BY <1>2, <1>3, FlightFacts DEF MessageInv, Flies
  <2>5. k \in InFlight(c)
    BY <1>9, <2>4 DEF FlightIs
  <2> QED
    BY <1>1, <1>5, <2>3, <2>5 DEF Delivers
<1>11. ASSUME NEW d \in Clients, d # c PROVE Still(d)
  <2>1. \A m \in 1..Len(log) : Flies(d, m)' <=> Flies(d, m)
    BY <1>1, <1>6, <1>11 DEF Flies
  <2>2. InFlight(d)' = InFlight(d) /\ Owed(d)' = Owed(d)
    BY <1>1, <1>2, <1>7, <2>1, FlightStays DEF MessageInv
  <2> QED
    BY <1>1, <1>5, <1>11, <2>2 DEF Still
<1>12. OwedInv' /\ EveryMessageAccounted'
  BY <1>1, <1>2, <1>10, <1>11, AccountKept
<1> QED
  BY <1>7, <1>8, <1>12 DEF MessageInv

\* No message moves; a peer may stop reading or go away.
LEMMA QuietMessages ==
  ASSUME TypeInv, TypeOK', MessageInv,
         UNCHANGED <<log, pend, out, outQ, outDropped, got>>,
         \A c \in Clients : peer[c] = "gone" => peer'[c] = "gone"
  PROVE  MessageInv'
<1>1. Numbered' /\ MessagesApart' /\ log' = log
  BY DEF MessageInv, Numbered, MessagesApart
<1>2. ASSUME NEW c \in Clients PROVE Still(c)
  <2>1. \A m \in 1..Len(log) : Flies(c, m)' <=> Flies(c, m)
    BY DEF Flies
  <2>2. InFlight(c)' = InFlight(c) /\ Owed(c)' = Owed(c)
    BY <1>1, <2>1, FlightStays DEF MessageInv, TypeInv
  <2> QED
    BY <2>2 DEF Still
<1>3. OwedInv' /\ EveryMessageAccounted'
  BY <1>2, AccountKept DEF TypeInv
<1> QED
  BY <1>1, <1>3 DEF MessageInv

\* A request is answered with one message to the connection it came from.
LEMMA OneAnswerMessages ==
  ASSUME Inv, TypeInv, TypeOK', MessageInv, NEW p \in Workers,
         pc[p] \in {"aside", "enter"},
         NEW at \in {"aside", "book"}, Stamp([at |-> at, req |-> task[p].req]),
         pend' = [pend EXCEPT ![p] = <<<<task[p].req.from, Len(log) + 1>>>>],
         UNCHANGED <<out, outQ, outDropped, peer, got>>
  PROVE  MessageInv'
<1> DEFINE r == task[p].req
           e == [at |-> at, req |-> r]
           t == <<<<r.from, Len(log) + 1>>>>
           To == {r.from}
<1>1. r \in Request /\ r.from \in Conns
  BY HeldTypes DEF Busy
<1>2. e \in Ack \cup Fill /\ log' = Append(log, e) /\ e.at # "fill" /\ e.req.from = r.from
  BY <1>1 DEF Ack, Stamp
<1>3. Len(log) + 1 \in Nat
  BY DEF TypeInv, TypeOK
<1>4. /\ t \in Seq(Conns \X Nat) /\ Distinct(t)
      /\ Elems(t) = {<<r.from, Len(log) + 1>>}
  BY <1>1, <1>3, OneMessage
<1>5. Elems(pend[p]) = {}
  <2>1. pend[p] = <<>>
    BY DEF TypeInv, PendInv
  <2>2. Len(pend[p]) = 0
    BY <2>1
  <2> QED
    BY <2>2 DEF Elems
<1>6. Elems(t) = Elems(pend[p]) \cup {<<c, Len(log) + 1>> : c \in To}
  BY <1>4, <1>5
<1>7. \A c \in Clients : c \in To <=> IF e.at = "fill"
                                        THEN c \in {e.taker.from, e.maker.from}
                                        ELSE e.req.from = c
  BY <1>2
<1>8. pend' = [pend EXCEPT ![p] = t] /\ TypeOK
  BY DEF TypeInv
<1>9. t \in Seq(Conns \X Nat) /\ Distinct(t)
  BY <1>4
<1>10. e \in Ack \cup Fill /\ log' = Append(log, e)
  BY <1>2
<1> HIDE DEF r, e, t, To
<1> QED
  BY <1>6, <1>7, <1>8, <1>9, <1>10, StampMessages

\* A fill is told to the clients of its two orders.
LEMMA TradeMessages ==
  ASSUME Inv, UniqueIds, TypeInv, TypeOK', MessageInv, NEW p \in Workers, Trade(p)
  PROVE  MessageInv'
<1> DEFINE a == task[p].ord
           r == Head(Ladder(p))
           q == Min2(left[a.id], left[r.id])
           n == Len(log) + 1
           m == sendFill(uniqueClients(a.from, r.from), n)
           t == pend[p] \o m
           e == [at |-> "fill", taker |-> a, maker |-> r, qty |-> q]
           To == {a.from, r.from} \cap Clients
<1>1. /\ pc[p] = "book" /\ log' = Append(log, e)
      /\ pend' = [pend EXCEPT ![p] = t]
      /\ UNCHANGED <<out, outQ, outDropped, peer, got>>
  BY DEF Trade, Stamp, sendVars
<1>2. a \in Request /\ r \in Request
  BY MakerTypes
<1>3. a.id \in Ids /\ r.id \in Ids /\ a.from \in Conns /\ r.from \in Conns
  BY <1>2, RequestFields
<1>4. q \in Nat
  BY <1>3 DEF Min2, TypeInv, TypeOK
<1> HIDE DEF q
<1>5. /\ e \in Ack \cup Fill /\ e.at = "fill" /\ e.taker = a /\ e.maker = r
  BY <1>2, <1>4 DEF Fill
<1> HIDE DEF e
<1>6. n \in Nat /\ n \notin 1..Len(log)
  BY DEF TypeInv, TypeOK
<1>7. m \in Seq(Conns \X Nat) /\ Distinct(m) /\ Elems(m) = {<<c, n>> : c \in To}
  BY <1>3, <1>6, FillMessages
<1> HIDE DEF m
<1>8. pend[p] \in Seq(Conns \X Nat) /\ Distinct(pend[p])
  BY DEF TypeInv, TypeOK, MessageInv, MessagesApart
<1>9. Elems(pend[p]) \cap Elems(m) = {}
  <2>1. \A x \in Elems(m) : x[2] = n
    BY <1>7
  <2>2. \A x \in Elems(pend[p]) : x[2] \in 1..Len(log)
    BY DEF MessageInv, Numbered
  <2> QED
    BY <1>6, <2>1, <2>2
<1>10. /\ t \in Seq(Conns \X Nat) /\ Distinct(t)
       /\ Elems(t) = Elems(pend[p]) \cup Elems(m)
  BY <1>7, <1>8, <1>9, PendGrows
<1>11. Elems(t) = Elems(pend[p]) \cup {<<c, Len(log) + 1>> : c \in To}
  BY <1>7, <1>10
<1>12. \A c \in Clients : c \in To <=> IF e.at = "fill"
                                         THEN c \in {e.taker.from, e.maker.from}
                                         ELSE e.req.from = c
  BY <1>5
<1>13. TypeOK
  BY DEF TypeInv
<1> HIDE DEF t, To, a, r
<1> QED
  BY <1>1, <1>5, <1>10, <1>11, <1>12, <1>13, StampMessages

\* Every step of a goroutine that handles a request.
LEMMA HandleMessages ==
  ASSUME Inv, UniqueIds, TypeInv, TypeOK', MessageInv, NEW p \in Workers, Handle(p)
  PROVE  MessageInv'
<1>1. CASE Aside(p)
  <2>1. /\ pc[p] = "aside" /\ Stamp([at |-> "aside", req |-> task[p].req])
        /\ pend' = [pend EXCEPT ![p] = <<<<task[p].req.from, Len(log) + 1>>>>]
        /\ UNCHANGED <<out, outQ, outDropped, peer, got>>
    BY <1>1 DEF Aside, sendVars
  <2> QED
    BY <2>1, OneAnswerMessages
<1>2. CASE pc[p] = "enter" /\ Accept(p)
  <2>1. /\ Stamp([at |-> "book", req |-> task[p].req])
        /\ pend' = [pend EXCEPT ![p] = <<<<task[p].req.from, Len(log) + 1>>>>]
        /\ UNCHANGED <<out, outQ, outDropped, peer, got>>
    BY <1>2 DEF Accept, sendVars
  <2> QED
    BY <1>2, <2>1, OneAnswerMessages
<1>3. CASE Trade(p)
  BY <1>3, TradeMessages
<1>4. ASSUME NEW mayRest, RestResidual(p, mayRest) PROVE MessageInv'
  <2> DEFINE t == ReplyOrder(p)
  <2>1. /\ pc[p] = "book" /\ pend' = [pend EXCEPT ![p] = t]
        /\ UNCHANGED <<log, out, outQ, outDropped, peer, got>>
    BY <1>4 DEF RestResidual, sendVars
  <2>2. pend[p] # <<>> /\ Distinct(pend[p]) /\ TypeOK
    BY <2>1 DEF TypeInv, PendInv, MessageInv, MessagesApart
  <2>3. Distinct(t) /\ Elems(t) = Elems(pend[p])
    BY <2>2, ReplyMessages
  <2> HIDE DEF t
  <2> QED
    BY <2>1, <2>2, <2>3, ReplyKeepsMessages
<1>5. ASSUME NEW known, pc[p] = "enter", RemoveOrder(p, task[p].ord, known)
      PROVE  MessageInv'
  <2>1. /\ Stamp([at |-> "book", req |-> task[p].req])
        /\ pend' = [pend EXCEPT ![p] = <<<<task[p].req.from, Len(log) + 1>>>>]
        /\ UNCHANGED <<out, outQ, outDropped, peer, got>>
    BY <1>5 DEF RemoveOrder, sendVars
  <2> QED
    BY <1>5, <2>1, OneAnswerMessages
<1>6. CASE SendJSON(p)
  BY <1>6, SendJSONMessages
<1>7. CASE SendOut(p)
  BY <1>7, SendOutMessages
<1> QED
  BY <1>1, <1>2, <1>3, <1>4, <1>5, <1>6, <1>7, HandleCases

\* Every step keeps the account.
LEMMA StepMessages ==
  ASSUME Inv, UniqueIds, TypeInv, TypeOK', MessageInv, [Next]_vars
  PROVE  MessageInv'
<1>1. ASSUME UNCHANGED <<log, pend, out, outQ, outDropped, got, peer>> PROVE MessageInv'
  BY <1>1, QuietMessages
<1>2. CASE UNCHANGED vars
  BY <1>1, <1>2 DEF vars, engineVars, sendVars
<1>3. ASSUME NEW p \in Conns, NEW r \in todo, ws(p, r) \/ orders(p, r) PROVE MessageInv'
  BY <1>1, <1>3, ReadCases DEF engineVars, sendVars
<1>4. ASSUME NEW p \in Conns, Publish(p) PROVE MessageInv'
  BY <1>1, <1>4 DEF Publish, engineVars
<1>5. ASSUME NEW s \in Shards, Consume(s) PROVE MessageInv'
  BY <1>1, <1>5 DEF Consume, engineVars
<1>6. ASSUME NEW p \in Workers, Handle(p) PROVE MessageInv'
  BY <1>6, HandleMessages
<1>7. ASSUME NEW i \in DOMAIN out, outputLoop(i) PROVE MessageInv'
  BY <1>7, OutputMessages
<1>8. ASSUME NEW c \in Clients, writeLoop(c) PROVE MessageInv'
  BY <1>8, WriteMessages
<1>9. ASSUME NEW c \in Clients, Stall(c) \/ Reap(c) PROVE MessageInv'
  <2>1. UNCHANGED <<log, pend, out, outQ, outDropped, got>>
    BY <1>9 DEF Stall, Reap, engineVars, sendVars
  <2>2. /\ peer[c] \in {"reads", "stalled"}
        /\ \/ peer' = [peer EXCEPT ![c] = "stalled"]
           \/ peer' = [peer EXCEPT ![c] = "gone"]
    BY <1>9 DEF Stall, Reap
  <2>3. \A d \in Clients : peer[d] = "gone" => peer'[d] = "gone"
    BY <2>2 DEF TypeInv, TypeOK
  <2> QED
    BY <2>1, <2>3, QuietMessages
<1> QED
  BY <1>2, <1>3, <1>4, <1>5, <1>6, <1>7, <1>8, <1>9 DEF Next

\* Nothing has been sequenced.
LEMMA InitMessages ==
  Init => MessageInv
<1> SUFFICES ASSUME Init PROVE MessageInv
  OBVIOUS
<1>1. /\ \A p \in Workers : pend[p] = <<>> /\ Elems(pend[p]) = {} /\ Distinct(pend[p])
      /\ Elems(out) = {} /\ Distinct(out) /\ Len(log) = 0
      /\ \A c \in Clients : Elems(outQ[c]) = {} /\ Distinct(outQ[c])
  BY DEF Init, Elems, Distinct
<1>2. Numbered /\ MessagesApart
  BY <1>1 DEF Numbered, MessagesApart
<1>3. \A c \in Clients : got[c] = {} /\ outDropped[c] = 0
  BY DEF Init, Conns
<1>4. ASSUME NEW c \in Clients PROVE Owed(c) = {} /\ InFlight(c) = {}
  <2>1. TypeOK
    BY InitTypes DEF TypeInv
  <2>2. Owed(c) \subseteq 1..Len(log) /\ InFlight(c) \subseteq 1..Len(log)
    BY <1>2, <2>1, FlightFacts DEF OwedIs
  <2>3. 1..Len(log) = {}
    BY <1>1
  <2> QED
    BY <2>2, <2>3
<1>5. OwedInv
  BY <1>3, <1>4 DEF OwedInv
<1>6. EveryMessageAccounted
  <2>1. Cardinality({}) = 0
    BY FS_EmptySet
  <2> QED
    BY <1>3, <1>4, <2>1 DEF EveryMessageAccounted
<1> QED
  BY <1>2, <1>5, <1>6 DEF MessageInv

\* The invariants together.
EngineInv == Inv /\ UniqueIds /\ TypeInv /\ BookInv /\ InsideInv /\ MessageInv

\* They hold of every behaviour of both engines.
THEOREM EngineInvHolds ==
  Spec => []EngineInv
<1>1. Init => EngineInv
  BY InitInv, InitIds, InitTypes, InitBooks, InitInside, InitMessages DEF EngineInv
<1>2. EngineInv /\ [Next]_vars => EngineInv'
  <2> SUFFICES ASSUME EngineInv, [Next]_vars PROVE EngineInv'
    OBVIOUS
  <2>1. Inv' /\ UniqueIds'
    BY StepInv, StepIds DEF EngineInv
  <2>2. TypeInv'
    BY <2>1, StepTypes DEF EngineInv
  <2>3. TypeOK'
    BY <2>2 DEF TypeInv
  <2>4. MessageInv'
    BY <2>3, StepMessages DEF EngineInv
  <2>5. BookInv' /\ InsideInv'
    BY <2>3, StepBooks, StepInside DEF EngineInv
  <2> QED
    BY <2>1, <2>2, <2>4, <2>5 DEF EngineInv
<1> QED
  BY <1>1, <1>2, PTL DEF Spec

\* A connected client's messages are on their way, received, or dropped and counted,
\* each exactly once (uniqueClients, sendFill, enqueue, outDropped), however many
\* workers, output writers and clients there are and whatever peers do.
THEOREM MessagesAreAccounted ==
  Spec => []EveryMessageAccounted
<1>1. EngineInv => EveryMessageAccounted
  BY DEF EngineInv, MessageInv
<1> QED
  BY EngineInvHolds, <1>1, PTL

\* A client only receives answers to its own requests and fills of its own orders,
\* and a message that was received is nowhere on its way again.
NoStrayMessages ==
  \A c \in Clients : got[c] \subseteq Owed(c) /\ InFlight(c) \cap got[c] = {}

\* No message goes astray or arrives twice (sendToClient, enqueue, writeLoop).
THEOREM MessagesGoToTheirOwners ==
  Spec => []NoStrayMessages
<1>1. EngineInv => NoStrayMessages
  BY DEF EngineInv, MessageInv, OwedInv, NoStrayMessages
<1> QED
  BY EngineInvHolds, <1>1, PTL

\* A connected client that was never dropped a message and has none on its way has
\* received everything.
NothingMissing ==
  \A c \in Clients :
    peer[c] # "gone" /\ outDropped[c] = 0 /\ InFlight(c) = {} => got[c] = Owed(c)

\* outDropped tells whether a connected client's stream is complete.
THEOREM OutDroppedTellsLoss ==
  Spec => []NothingMissing
<1>1. ASSUME EngineInv PROVE NothingMissing
  <2> SUFFICES ASSUME NEW c \in Clients, peer[c] # "gone", outDropped[c] = 0,
                      InFlight(c) = {}
               PROVE  got[c] = Owed(c)
    BY DEF NothingMissing
  <2>1. IsFiniteSet(Owed(c)) /\ got[c] \subseteq Owed(c)
    BY <1>1, FlightFacts DEF EngineInv, TypeInv, MessageInv, OwedInv, OwedIs
  <2>2. Cardinality(Owed(c)) = Cardinality({}) + Cardinality(got[c]) + 0
    BY <1>1 DEF EngineInv, MessageInv, EveryMessageAccounted
  <2>3. IsFiniteSet(got[c])
    BY <2>1, FS_Subset
  <2>4. Cardinality(got[c]) \in Nat /\ Cardinality({}) = 0
    BY <2>3, FS_CardinalityType, FS_EmptySet
  <2>5. Cardinality(Owed(c)) = Cardinality(got[c])
    BY <2>2, <2>4
  <2> QED
    BY <2>1, <2>5, FS_Subset
<1> QED
  BY EngineInvHolds, <1>1, PTL

-----------------------------------------------------------------------------
(* What the books promise                                                  *)

\* Ladders stay in price-time order and the InsertSeq of the orders on them is
\* unique, so that (Price, TsNs, InsertSeq) is the strict total order which
\* insertSorted and removeOrder search by (main.go).
THEOREM LaddersStaySorted ==
  Spec => [](LaddersSorted /\ ArrivalInv)
<1>1. EngineInv => LaddersSorted /\ ArrivalInv
  BY DEF EngineInv, BookInv
<1> QED
  BY EngineInvHolds, <1>1, PTL

\* An order on a ladder is where binary search looks for it.
CancelFinds ==
  \A o \in index :
    LET s == books[o.sym][o.side] IN RestsAt(s, Position(s, o), o)

\* A resting order never hides from the search of a cancel (removeOrder).
THEOREM RestingIsFound ==
  Spec => []CancelFinds
<1>1. EngineInv => CancelFinds
  BY RestingPosition DEF EngineInv, CancelFinds
<1> QED
  BY EngineInvHolds, <1>1, PTL

\* A cancel that reaches a book takes effect exactly if its order rests there then,
\* whatever happened since the index was read, and says so.
CancelIsTruthful(p) ==
  Handle(p) /\ pc[p] = "enter" /\ task[p].req.type = "cancel" =>
    /\ index' = index \ {task[p].ord}
    /\ status'[task[p].req.id] = IF task[p].ord \in index THEN "canceled" ELSE "not_found"

\* ProcessCancel and processCancel tell the truth.
THEOREM CancelsAreTruthful ==
  Spec => [][\A p \in Workers : CancelIsTruthful(p)]_vars
<1>1. EngineInv /\ [Next]_vars => [\A p \in Workers : CancelIsTruthful(p)]_vars
  <2> SUFFICES ASSUME EngineInv, NEW p \in Workers, Handle(p), pc[p] = "enter",
                      task[p].req.type = "cancel"
               PROVE  /\ index' = index \ {task[p].ord}
                      /\ status'[task[p].req.id] =
                           IF task[p].ord \in index THEN "canceled" ELSE "not_found"
    BY DEF CancelIsTruthful
  <2> QED
    BY CancelTruth DEF EngineInv
<1> QED
  BY EngineInvHolds, <1>1, PTL DEF Spec

\* A fill is of the best order of the other side: every other one comes after it in
\* price, then time, then arrival.
BestIsFilled(p) ==
  Trade(p) => \A o \in index :
    o.sym = task[p].ord.sym /\ o.side # task[p].ord.side =>
      o = log'[Len(log')].maker \/ orderBefore(log'[Len(log')].maker, o)

\* matchBuy and matchSell trade in price-time priority.
THEOREM BestIsFilledFirst ==
  Spec => [][\A p \in Workers : BestIsFilled(p)]_vars
<1>1. EngineInv /\ [Next]_vars => [\A p \in Workers : BestIsFilled(p)]_vars
  <2> SUFFICES ASSUME EngineInv, NEW p \in Workers, Trade(p), NEW o \in index,
                      o.sym = task[p].ord.sym, o.side # task[p].ord.side
               PROVE  \/ o = log'[Len(log')].maker
                      \/ orderBefore(log'[Len(log')].maker, o)
    BY DEF BestIsFilled
  <2> QED
    BY BestTrade DEF EngineInv
<1> QED
  BY EngineInvHolds, <1>1, PTL DEF Spec

\* Bids stay below asks: whatever can trade has traded when an order comes to rest,
\* though makers are cancelled and filled by other workers meanwhile.
THEOREM BooksAreNeverCrossed ==
  Spec => []NeverCrossed
<1>1. EngineInv => NeverCrossed
  BY DEF EngineInv, BookInv
<1> QED
  BY EngineInvHolds, <1>1, PTL

\* No fill of nothing is reported, and a maker that is used up is off its ladder: the
\* loops of matchBuy and matchSell end.
THEOREM FillsMoveQuantity ==
  Spec => []QuantityMoves
<1>1. EngineInv => QuantityMoves
  BY DEF EngineInv, BookInv
<1> QED
  BY EngineInvHolds, <1>1, PTL

\* A book is matched in by one worker at a time, by lock or by routing.
THEOREM BooksAreExclusive ==
  Spec => []OneInside
<1>1. EngineInv => OneInside
  BY DEF EngineInv, InsideInv
<1> QED
  BY EngineInvHolds, <1>1, PTL

-----------------------------------------------------------------------------
(* The order of the log                                                    *)

\* An entry of the log that tells of another order's matching in the book of o,
Disturbs(e, o) ==
  \/ e.at = "book" /\ e.req.type = "new" /\ e.req.sym = o.sym
  \/ e.at = "fill" /\ e.taker.sym = o.sym /\ e.taker # o

\* and one of a cancel of o that reached the book.
Cancels(e, o) == e.at = "book" /\ e.req.type = "cancel" /\ e.req.orig = o.id

\* Entry j of l is that of o, which is not cancelled up to entry n,
RestedFrom(l, j, n, o) ==
  /\ j \in 1..n /\ l[j].at = "book" /\ l[j].req = o /\ o.type = "new"
  /\ \A k \in j + 1..n : ~Cancels(l[k], o)

\* and, moreover, has its book for itself so far.
MatchedFrom(l, m, n, o) ==
  RestedFrom(l, m, n, o) /\ \A k \in m + 1..n : ~Disturbs(l[k], o)

\* A fill comes after the entries of maker and taker, in this order, no cancel of
\* either between, and nothing of their book but the taker's other fills after it.
FillFollows(l, n) ==
  \E m \in 1..n - 1 : \E j \in 1..m - 1 :
    RestedFrom(l, j, n - 1, l[n].maker) /\ MatchedFrom(l, m, n - 1, l[n].taker)

\* engine_seq order is processing order, fill by fill.
FillsInSequence ==
  \A n \in 1..Len(log) : log[n].at = "fill" => FillFollows(log, n)

\* What a fill will follow: the entries of the orders that are matched or rest.
SequenceInv ==
  /\ FillsInSequence
  /\ \A p \in Workers : pc[p] = "book" =>
       \E m \in 1..Len(log) : MatchedFrom(log, m, Len(log), task[p].req)
  /\ \A o \in index : \E j \in 1..Len(log) : RestedFrom(log, j, Len(log), o)

\* An order that a request on its way to a book is about.
Target(o) ==
  \/ \E p \in Workers : pc[p] = "enter" /\ task[p].ord = o
  \/ \E s \in Shards : \E i \in 1..Len(ring[s]) : ring[s][i].ord = o

\* It may be gone, but no other order in play has its id.
TargetInv ==
  \A o, r \in Request : Target(o) /\ InPlay(r) /\ r.id = o.id => r = o

\* What the log says stays said, and an entry of no concern changes nothing.
LEMMA LogExtends ==
  ASSUME NEW S, NEW l \in Seq(S), NEW e \in S
  PROVE  LET k == Append(l, e) IN
         /\ Len(l) \in Nat /\ Len(k) = Len(l) + 1 /\ k[Len(l) + 1] = e
         /\ \A i \in 1..Len(l) : k[i] = l[i]
         /\ \A o, j : RestedFrom(l, j, Len(l), o) => RestedFrom(k, j, Len(l), o)
         /\ \A o, j : MatchedFrom(l, j, Len(l), o) => MatchedFrom(k, j, Len(l), o)
         /\ \A o, j : RestedFrom(l, j, Len(l), o) /\ ~Cancels(e, o)
                        => RestedFrom(k, j, Len(k), o)
         /\ \A o, j : MatchedFrom(l, j, Len(l), o) /\ ~Cancels(e, o) /\ ~Disturbs(e, o)
                        => MatchedFrom(k, j, Len(k), o)
         /\ \A n \in 1..Len(l) : FillFollows(l, n) => FillFollows(k, n)
<1> DEFINE k == Append(l, e)
<1>1. /\ Len(l) \in Nat /\ Len(k) = Len(l) + 1 /\ k[Len(l) + 1] = e
      /\ \A i \in 1..Len(l) : k[i] = l[i]
  BY AppendProperties
<1> HIDE DEF k
<1>2. ASSUME NEW n \in 0..Len(l), NEW o, NEW j, RestedFrom(l, j, n, o)
      PROVE  RestedFrom(k, j, n, o)
  <2>1. j \in 1..n /\ j \in 1..Len(l) /\ l[j].at = "book" /\ l[j].req = o /\ o.type = "new"
    BY <1>1, <1>2 DEF RestedFrom
  <2>2. k[j] = l[j]
    BY <1>1, <2>1
  <2>3. \A i \in j + 1..n : i \in 1..Len(l) /\ k[i] = l[i]
    BY <1>1, <2>1
  <2> QED
    BY <1>2, <2>1, <2>2, <2>3 DEF RestedFrom
<1>3. ASSUME NEW n \in 0..Len(l), NEW o, NEW j, MatchedFrom(l, j, n, o)
      PROVE  MatchedFrom(k, j, n, o)
  <2>1. RestedFrom(k, j, n, o) /\ j \in 1..n
    BY <1>2, <1>3 DEF MatchedFrom, RestedFrom
  <2>2. \A i \in j + 1..n : k[i] = l[i]
    BY <1>1, <2>1
  <2> QED
    BY <1>3, <2>1, <2>2 DEF MatchedFrom
<1>4. Len(l) \in 0..Len(l)
  BY <1>1
<1>5. ASSUME NEW o, NEW j, RestedFrom(l, j, Len(l), o), ~Cancels(e, o)
      PROVE  RestedFrom(k, j, Len(k), o)
  <2>1. RestedFrom(k, j, Len(l), o)
    BY <1>2, <1>4, <1>5
  <2>2. j \in 1..Len(l) /\ j \in 1..Len(k)
    BY <1>1, <2>1 DEF RestedFrom
  <2>3. \A i \in j + 1..Len(k) : i \in j + 1..Len(l) \/ i = Len(l) + 1
    BY <1>1, <2>2
  <2> QED
    BY <1>1, <1>5, <2>1, <2>2, <2>3 DEF RestedFrom
<1>6. ASSUME NEW o, NEW j, MatchedFrom(l, j, Len(l), o), ~Cancels(e, o), ~Disturbs(e, o)
      PROVE  MatchedFrom(k, j, Len(k), o)
  <2>1. MatchedFrom(k, j, Len(l), o)
    BY <1>3, <1>4, <1>6
  <2>2. RestedFrom(k, j, Len(k), o)
    BY <1>5, <1>6 DEF MatchedFrom
  <2>3. j \in 1..Len(l)
    BY <1>6 DEF MatchedFrom, RestedFrom
  <2>4. \A i \in j + 1..Len(k) : i \in j + 1..Len(l) \/ i = Len(l) + 1
    BY <1>1, <2>3
  <2> QED
    BY <1>1, <1>6, <2>1, <2>2, <2>4 DEF MatchedFrom
<1>7. ASSUME NEW n \in 1..Len(l), FillFollows(l, n) PROVE FillFollows(k, n)
  <2>1. n - 1 \in 0..Len(l) /\ k[n] = l[n]
    BY <1>1
  <2>2. PICK m \in 1..n - 1 : \E j \in 1..m - 1 :
          RestedFrom(l, j, n - 1, l[n].maker) /\ MatchedFrom(l, m, n - 1, l[n].taker)
    BY <1>7 DEF FillFollows
  <2>3. PICK j \in 1..m - 1 :
          RestedFrom(l, j, n - 1, l[n].maker) /\ MatchedFrom(l, m, n - 1, l[n].taker)
    BY <2>2
  <2>4. RestedFrom(k, j, n - 1, k[n].maker) /\ MatchedFrom(k, m, n - 1, k[n].taker)
    BY <1>2, <1>3, <2>1, <2>3
  <2> QED
    BY <2>4 DEF FillFollows
<1> QED
  BY <1>1, <1>2, <1>3, <1>4, <1>5, <1>6, <1>7 DEF k

\* Whoever enters a book finds nobody matching in it.
LEMMA EntersAlone ==
  ASSUME TypeInv, InsideInv, NEW p \in Workers, NEW q \in Workers,
         pc[q] = "enter", HasLock(q) \/ q \in Shards, pc[p] = "book"
  PROVE  task[p].ord.sym # task[q].ord.sym
<1>1. kind \in {"mutex", "disruptor"} /\ Workers = Conns \cup Shards
  BY DEF TypeInv, TypeOK, Workers
<1>2. CASE HasLock(q)
  <2>1. p \in Conns
    BY <1>1, <1>2 DEF HasLock, InsideInv, RoutedInv
  <2> QED
    BY <1>2, <2>1 DEF HasLock
<1>3. CASE q \in Shards
  <2>1. kind = "disruptor"
    BY <1>1, <1>3 DEF InsideInv, RoutedInv
  <2>2. p \in Shards
    BY <1>1, <2>1 DEF InsideInv, RoutedInv
  <2> QED
    BY <1>3, <2>2 DEF InsideInv, RoutedInv
<1> QED
  BY <1>2, <1>3

\* Requests are about themselves, or about an order that rests when they are read.
LEMMA TargetsInPlay ==
  ASSUME Inv, [Next]_vars, NEW o, Target(o)'
  PROVE  Target(o) \/ InPlay(o)
<1>0. /\ pc \in [Workers -> {"read", "idle", "aside", "enter", "book", "send"}]
      /\ DOMAIN task = Workers /\ ring \in [Shards -> Seq(Task)]
  BY DEF Inv, HeldInv
<1>1. ASSUME UNCHANGED <<task, ring>>, \A p \in Workers : pc'[p] = "enter" => pc[p] = "enter"
      PROVE  Target(o)
  BY <1>1 DEF Target
<1>2. ASSUME NEW p \in Workers, NEW x \in {"read", "idle", "send", "book"},
             pc' = [pc EXCEPT ![p] = x], UNCHANGED <<task, ring>>
      PROVE  Target(o)
  <2>1. \A q \in Workers : pc'[q] = "enter" => pc[q] = "enter"
    BY <1>0, <1>2
  <2> QED
    BY <1>1, <1>2, <2>1
<1>3. CASE UNCHANGED vars
  BY <1>1, <1>3 DEF vars, sendVars
<1>4. ASSUME NEW p \in Conns, NEW r \in todo, ws(p, r) \/ orders(p, r)
      PROVE  Target(o) \/ InPlay(o)
  <2>1. /\ p \in Workers /\ UNCHANGED ring
        /\ \/ UNCHANGED <<pc, task>>
           \/ \E x \in {"aside", "enter"}, b \in Request \cup {None} :
                /\ pc' = [pc EXCEPT ![p] = x]
                /\ task' = [task EXCEPT ![p] = [req |-> r, ord |-> b]]
                /\ x = "enter" => b = r \/ b \in index
    BY <1>4, ReadCases DEF sendVars
  <2>2. CASE UNCHANGED <<pc, task>>
    BY <2>1, <2>2 DEF Target
  <2>3. ASSUME NEW x \in {"aside", "enter"}, NEW b \in Request \cup {None},
               pc' = [pc EXCEPT ![p] = x],
               task' = [task EXCEPT ![p] = [req |-> r, ord |-> b]],
               x = "enter" => b = r \/ b \in index
        PROVE  Target(o) \/ InPlay(o)
    <3>1. \A q \in Workers : /\ pc'[q] = IF q = p THEN x ELSE pc[q]
                             /\ q # p => task'[q] = task[q]
      BY <1>0, <2>3
    <3>2. task'[p].ord = b
      BY <1>0, <2>1, <2>3
    <3>3. CASE \E q \in Workers : pc'[q] = "enter" /\ task'[q].ord = o
      <4>1. PICK q \in Workers : pc'[q] = "enter" /\ task'[q].ord = o
        BY <3>3
      <4>2. CASE q = p
        BY <2>3, <3>1, <3>2, <4>1, <4>2 DEF InPlay
      <4>3. CASE q # p
        BY <3>1, <4>1, <4>3 DEF Target
      <4> QED
        BY <4>2, <4>3
    <3>4. CASE \E s \in Shards : \E i \in 1..Len(ring[s]) : ring[s][i].ord = o
      BY <3>4 DEF Target
    <3> QED
      BY <2>1, <3>3, <3>4 DEF Target
  <2> QED
    BY <2>1, <2>2, <2>3
<1>5. ASSUME NEW p \in Conns, Publish(p) PROVE Target(o)
  <2> DEFINE u == ShardOf[task[p].ord.sym]
  <2>1. /\ pc[p] = "enter" /\ pc' = [pc EXCEPT ![p] = "read"] /\ p \in Workers
        /\ ring' = [ring EXCEPT ![u] = Append(@, task[p])] /\ UNCHANGED task
    BY <1>5 DEF Publish, Workers
  <2>2. u \in Shards /\ task[p] \in Task
    BY <2>1, ShardsAssumption DEF Inv, HeldInv, Enters, Request, Busy
  <2> HIDE DEF u
  <2>3. \A q \in Workers : pc'[q] = "enter" => pc[q] = "enter"
    BY <1>0, <2>1
  <2>4. \A s \in Shards \ {u} : ring'[s] = ring[s]
    BY <1>0, <2>1
  <2>5. /\ Len(ring'[u]) = Len(ring[u]) + 1 /\ ring'[u][Len(ring[u]) + 1] = task[p]
        /\ Len(ring[u]) \in Nat
        /\ \A i \in 1..Len(ring[u]) : ring'[u][i] = ring[u][i]
    BY <1>0, <2>1, <2>2
  <2>6. ASSUME NEW s \in Shards, NEW i \in 1..Len(ring'[s])
        PROVE  ring'[s][i] = task[p] \/ (i \in 1..Len(ring[s]) /\ ring'[s][i] = ring[s][i])
    BY <2>4, <2>5
  <2> QED
    BY <2>1, <2>3, <2>6 DEF Target
<1>6. ASSUME NEW u \in Shards, Consume(u) PROVE Target(o)
  <2>1. /\ ring[u] # <<>> /\ u \in Workers
        /\ task' = [task EXCEPT ![u] = Head(ring[u])]
        /\ ring' = [ring EXCEPT ![u] = Tail(@)]
    BY <1>6 DEF Consume, Workers
  <2>2. PICK x \in {"aside", "enter"} : pc' = [pc EXCEPT ![u] = x]
    BY <1>6 DEF Consume
  <2>3. /\ ring[u] \in Seq(Task) /\ Len(ring[u]) \in Nat /\ 1 \in 1..Len(ring[u])
        /\ Head(ring[u]) = ring[u][1] /\ Len(ring'[u]) = Len(ring[u]) - 1
        /\ \A i \in 1..Len(ring[u]) - 1 : ring'[u][i] = ring[u][i + 1]
    BY <1>0, <2>1
  <2>4. \A w \in Workers : w # u => pc'[w] = pc[w] /\ task'[w] = task[w]
    BY <1>0, <2>1, <2>2
  <2>5. task'[u] = ring[u][1]
    BY <1>0, <2>1, <2>3
  <2>6. \A s \in Shards \ {u} : ring'[s] = ring[s]
    BY <1>0, <2>1
  <2>7. ASSUME NEW s \in Shards, NEW i \in 1..Len(ring'[s])
        PROVE  \E k \in 1..Len(ring[s]) : ring'[s][i] = ring[s][k]
    <3>1. CASE s # u
      BY <2>6, <3>1
    <3>2. CASE s = u
      <4>1. i + 1 \in 1..Len(ring[u]) /\ ring'[s][i] = ring[u][i + 1]
        BY <2>3, <3>2
      <4> QED
        BY <3>2, <4>1
    <3> QED
      BY <3>1, <3>2
  <2>8. CASE \E q \in Workers : pc'[q] = "enter" /\ task'[q].ord = o
    <3>1. PICK q \in Workers : pc'[q] = "enter" /\ task'[q].ord = o
      BY <2>8
    <3>2. CASE q = u
      BY <2>3, <2>5, <3>1, <3>2 DEF Target
    <3>3. CASE q # u
      BY <2>4, <3>1, <3>3 DEF Target
    <3> QED
      BY <3>2, <3>3
  <2>9. CASE \E s \in Shards : \E i \in 1..Len(ring'[s]) : ring'[s][i].ord = o
    BY <2>7, <2>9 DEF Target
  <2> QED
    BY <2>8, <2>9 DEF Target
<1>7. ASSUME NEW p \in Workers, Handle(p) PROVE Target(o)
  <2>1. CASE Aside(p)
    BY <1>2, <2>1 DEF Aside, sendVars
  <2>2. CASE Accept(p)
    BY <1>2, <2>2 DEF Accept, sendVars
  <2>3. CASE Trade(p)
    BY <1>1, <2>3 DEF Trade, sendVars
  <2>4. ASSUME NEW mayRest, RestResidual(p, mayRest) PROVE Target(o)
    BY <1>2, <2>4 DEF RestResidual, sendVars
  <2>5. ASSUME NEW known, RemoveOrder(p, task[p].ord, known) PROVE Target(o)
    BY <1>2, <2>5 DEF RemoveOrder, sendVars
  <2>6. CASE SendJSON(p)
    BY <1>2, <2>6 DEF SendJSON, HandedOver, sendVars
  <2>7. CASE SendOut(p)
    BY <1>2, <2>7 DEF SendOut, HandedOver
  <2> QED
    BY <1>7, <2>1, <2>2, <2>3, <2>4, <2>5, <2>6, <2>7, HandleCases
<1>8. ASSUME NEW i \in DOMAIN out, outputLoop(i) PROVE Target(o)
  BY <1>1, <1>8 DEF outputLoop
<1>9. ASSUME NEW c \in Clients, writeLoop(c) \/ Stall(c) \/ Reap(c) PROVE Target(o)
  BY <1>1, <1>9 DEF writeLoop, Stall, Reap, sendVars
<1> QED
  BY <1>3, <1>4, <1>5, <1>6, <1>7, <1>8, <1>9 DEF Next

\* Ids of targets stay their own.
LEMMA StepTargets ==
  ASSUME Inv, UniqueIds, TargetInv, [Next]_vars
  PROVE  TargetInv'
<1> SUFFICES ASSUME NEW o \in Request, NEW r \in Request, Target(o)', InPlay(r)',
                    r.id = o.id
             PROVE  r = o
  BY DEF TargetInv
<1>1. InPlay(r)
  BY PlayShrinks
<1>2. Target(o) \/ InPlay(o)
  BY TargetsInPlay
<1> QED
  BY <1>1, <1>2 DEF TargetInv, UniqueIds

\* Nothing has been logged.
LEMMA InitSequence ==
  Init => SequenceInv /\ TargetInv
<1> SUFFICES ASSUME Init PROVE SequenceInv /\ TargetInv
  OBVIOUS
<1>1. \A p \in Workers : pc[p] \notin {"enter", "book"}
  BY DEF Init
<1>2. /\ index = {} /\ Len(log) = 0
      /\ \A s \in Shards : Len(ring[s]) = 0
  BY DEF Init
<1> QED
  BY <1>1, <1>2 DEF SequenceInv, FillsInSequence, TargetInv, Target

\* A log that grows by an entry of no fill, which disturbs or cancels nobody.
LEMMA EntryInSequence ==
  ASSUME TypeInv, SequenceInv, NEW e \in Ack \cup Fill, log' = Append(log, e), e.at # "fill",
         \A p \in Workers : pc'[p] = "book" =>
           \/ /\ pc[p] = "book" /\ task'[p].req = task[p].req
              /\ ~Disturbs(e, task[p].req) /\ ~Cancels(e, task[p].req)
           \/ e.at = "book" /\ e.req = task'[p].req /\ e.req.type = "new",
         \A o \in index' : o \in index /\ ~Cancels(e, o)
  PROVE  SequenceInv'
<1>1. log \in Seq(Ack \cup Fill)
  BY DEF TypeInv, TypeOK
<1>2. /\ Len(log) \in Nat /\ Len(log') = Len(log) + 1 /\ log'[Len(log) + 1] = e
      /\ \A i \in 1..Len(log) : log'[i] = log[i]
      /\ \A n \in 1..Len(log) : FillFollows(log, n) => FillFollows(log', n)
  BY <1>1, LogExtends
<1>3. FillsInSequence'
  <2> SUFFICES ASSUME NEW n \in 1..Len(log'), log'[n].at = "fill"
               PROVE  FillFollows(log', n)
    BY DEF FillsInSequence
  <2>1. n \in 1..Len(log)
    BY <1>2
  <2> QED
    BY <1>2, <2>1 DEF SequenceInv, FillsInSequence
<1>4. ASSUME NEW p \in Workers, pc'[p] = "book"
      PROVE  \E m \in 1..Len(log') : MatchedFrom(log', m, Len(log'), task'[p].req)
  <2>1. CASE /\ pc[p] = "book" /\ task'[p].req = task[p].req
             /\ ~Disturbs(e, task[p].req) /\ ~Cancels(e, task[p].req)
    <3>1. PICK m \in 1..Len(log) : MatchedFrom(log, m, Len(log), task[p].req)
      BY <2>1 DEF SequenceInv
    <3>2. MatchedFrom(log', m, Len(log'), task'[p].req)
      BY <1>1, <2>1, <3>1, LogExtends
    <3> QED
      BY <1>2, <3>2
  <2>2. CASE e.at = "book" /\ e.req = task'[p].req /\ e.req.type = "new"
    <3>1. Len(log') \in 1..Len(log') /\ log'[Len(log')] = e
      BY <1>2
    <3>2. \A k \in Len(log') + 1..Len(log') : FALSE
      BY <1>2
    <3>3. MatchedFrom(log', Len(log'), Len(log'), task'[p].req)
      BY <2>2, <3>1, <3>2 DEF MatchedFrom, RestedFrom
    <3> QED
      BY <3>1, <3>3
  <2> QED
    BY <1>4, <2>1, <2>2
<1>5. ASSUME NEW o \in index'
      PROVE  \E j \in 1..Len(log') : RestedFrom(log', j, Len(log'), o)
  <2>1. PICK j \in 1..Len(log) : RestedFrom(log, j, Len(log), o)
    BY <1>5 DEF SequenceInv
  <2>2. RestedFrom(log', j, Len(log'), o)
    BY <1>1, <1>5, <2>1, LogExtends
  <2> QED
    BY <1>2, <2>2
<1> QED
  BY <1>3, <1>4, <1>5 DEF SequenceInv

\* A step outside the books.
LEMMA ElsewhereSequence ==
  ASSUME TypeInv, SequenceInv, Elsewhere
  PROVE  SequenceInv'
<1>1. CASE log' = log
  BY <1>1 DEF SequenceInv, FillsInSequence, Elsewhere
<1>2. ASSUME NEW r \in Request, log' = Append(log, [at |-> "aside", req |-> r])
      PROVE  SequenceInv'
  <2> DEFINE e == [at |-> "aside", req |-> r]
  <2>1. e \in Ack \cup Fill /\ e.at = "aside"
    BY DEF Ack
  <2> HIDE DEF e
  <2>2. \A o : ~Disturbs(e, o) /\ ~Cancels(e, o)
    BY <2>1 DEF Disturbs, Cancels
  <2>3. log' = Append(log, e)
    BY <1>2 DEF e
  <2> QED
    BY <2>1, <2>2, <2>3, EntryInSequence DEF Elsewhere
<1> QED
  BY <1>1, <1>2 DEF Elsewhere

\* A new order enters a book where nobody matches.
LEMMA AcceptSequence ==
  ASSUME Inv, TypeInv, InsideInv, SequenceInv, NEW p \in Workers, pc[p] = "enter",
         task[p].req.type = "new", Accept(p), HasLock(p) \/ p \in Shards
  PROVE  SequenceInv'
<1> DEFINE e == [at |-> "book", req |-> task[p].req]
<1>1. /\ log' = Append(log, e) /\ pc' = [pc EXCEPT ![p] = "book"]
      /\ UNCHANGED <<task, index>>
  BY DEF Accept, Stamp
<1>2. task[p].req \in Request /\ task[p].ord = task[p].req
  BY HeldTypes DEF Busy, Inv, HeldInv, Enters
<1>3. e \in Ack \cup Fill /\ e.at = "book" /\ e.req = task[p].req
  BY <1>2 DEF Ack
<1> HIDE DEF e
<1>4. \A q \in Workers : pc'[q] = IF q = p THEN "book" ELSE pc[q]
  BY <1>1, InvTypes
<1>5. ASSUME NEW q \in Workers, pc[q] = "book"
      PROVE  ~Disturbs(e, task[q].req)
  <2>1. task[q].ord.sym # task[p].ord.sym
    BY <1>5, EntersAlone
  <2>2. task[q].ord = task[q].req
    BY <1>5, HeldTypes DEF Busy
  <2> QED
    BY <1>2, <1>3, <2>1, <2>2 DEF Disturbs
<1>6. \A o : ~Cancels(e, o)
  BY <1>3 DEF Cancels
<1> QED
  BY <1>1, <1>3, <1>4, <1>5, <1>6, EntryInSequence

\* A cancel takes the order it names off its book, in which nobody matches.
LEMMA RemoveSequence ==
  ASSUME Inv, TypeInv, BookInv, InsideInv, SequenceInv, TargetInv, NEW p \in Workers,
         pc[p] = "enter", task[p].req.type = "cancel", Handle(p), HasLock(p) \/ p \in Shards,
         NEW known, RemoveOrder(p, task[p].ord, known)
  PROVE  SequenceInv'
<1> DEFINE e == [at |-> "book", req |-> task[p].req]
           b == task[p].ord
<1>1. /\ log' = Append(log, e) /\ pc' = [pc EXCEPT ![p] = "send"] /\ UNCHANGED task
  BY DEF RemoveOrder, Stamp
<1>2. task[p].req \in Request /\ b \in Request /\ b.id = task[p].req.orig
  BY HeldTypes DEF Busy, InsideInv, RoutedInv, Aimed
<1>3. e \in Ack \cup Fill /\ e.at = "book" /\ e.req = task[p].req
  BY <1>2 DEF Ack
<1> HIDE DEF e
<1>4. \A q \in Workers : pc'[q] = IF q = p THEN "send" ELSE pc[q]
  BY <1>1, InvTypes
<1>5. Target(b)
  BY DEF Target
<1>6. index' = index \ {b}
  BY CancelTruth
<1>7. ASSUME NEW q \in Workers, pc[q] = "book"
      PROVE  ~Disturbs(e, task[q].req) /\ ~Cancels(e, task[q].req)
  <2>1. task[q].ord.sym # b.sym
    BY <1>7, EntersAlone
  <2>2. task[q].ord = task[q].req /\ task[q].req \in Request /\ InPlay(task[q].req)
    BY <1>7, HeldTypes DEF Busy, InPlay
  <2>3. task[q].req.id # b.id
    BY <1>2, <1>5, <2>1, <2>2 DEF TargetInv
  <2> QED
    BY <1>2, <1>3, <2>3 DEF Disturbs, Cancels
<1>8. ASSUME NEW o \in index' PROVE o \in index /\ ~Cancels(e, o)
  <2>1. o \in index /\ o # b /\ o \in Request /\ InPlay(o)
    BY <1>6, <1>8, InvTypes DEF InPlay
  <2>2. o.id # b.id
    BY <1>2, <1>5, <2>1 DEF TargetInv
  <2> QED
    BY <1>2, <1>3, <2>1, <2>2 DEF Cancels
<1> HIDE DEF b
<1> QED
  BY <1>1, <1>3, <1>4, <1>7, <1>8, EntryInSequence

\* A fill follows the entries of its maker, which rests, and of its taker, which has
\* the book for itself.
LEMMA TradeSequence ==
  ASSUME Inv, UniqueIds, TypeInv, InsideInv, SequenceInv, NEW p \in Workers, Trade(p)
  PROVE  SequenceInv'
<1> DEFINE a == task[p].ord
           r == Head(Ladder(p))
           q == Min2(left[a.id], left[r.id])
           e == [at |-> "fill", taker |-> a, maker |-> r, qty |-> q]
<1>1. /\ log' = Append(log, e) /\ pc[p] = "book" /\ UNCHANGED <<pc, task>>
      /\ index' \subseteq index
  BY DEF Trade, Stamp
<1>2. /\ a \in Request /\ a = task[p].req /\ r \in Request /\ r \in index
      /\ r.sym = a.sym /\ r.id # a.id
  BY MakerTypes
<1>3. left \in [Ids -> Nat] /\ a.id \in Ids /\ r.id \in Ids /\ log \in Seq(Ack \cup Fill)
  BY <1>2, RequestFields DEF TypeInv, TypeOK
<1>4. q \in Nat
  BY <1>3 DEF Min2
<1> HIDE DEF q, r, a
<1>5. e \in Ack \cup Fill /\ e.at = "fill" /\ e.taker = a /\ e.maker = r
  BY <1>2, <1>4 DEF Fill
<1> HIDE DEF e
<1>6. /\ Len(log) \in Nat /\ Len(log') = Len(log) + 1 /\ log'[Len(log) + 1] = e
      /\ \A i \in 1..Len(log) : log'[i] = log[i]
      /\ \A n \in 1..Len(log) : FillFollows(log, n) => FillFollows(log', n)
      /\ \A o, j : RestedFrom(log, j, Len(log), o) => RestedFrom(log', j, Len(log), o)
      /\ \A o, j : MatchedFrom(log, j, Len(log), o) => MatchedFrom(log', j, Len(log), o)
  BY <1>1, <1>3, <1>5, LogExtends
<1>7. \A o : ~Cancels(e, o)
  BY <1>5 DEF Cancels
<1>8. FillFollows(log', Len(log) + 1)
  <2>1. PICK m \in 1..Len(log) : MatchedFrom(log, m, Len(log), a)
    BY <1>1, <1>2 DEF SequenceInv
  <2>2. PICK j \in 1..Len(log) : RestedFrom(log, j, Len(log), r)
    BY <1>2 DEF SequenceInv
  <2>3. log[j].at = "book" /\ log[j].req = r /\ r.type = "new"
    BY <2>2 DEF RestedFrom
  <2>4. Disturbs(log[j], a)
    BY <1>2, <2>3 DEF Disturbs
  <2>5. j \notin m + 1..Len(log)
    BY <2>1, <2>4 DEF MatchedFrom
  <2>6. j # m
    BY <1>2, <2>1, <2>3 DEF MatchedFrom, RestedFrom
  <2>7. j \in 1..m - 1
    BY <1>6, <2>1, <2>2, <2>5, <2>6
  <2>8. RestedFrom(log', j, Len(log), r) /\ MatchedFrom(log', m, Len(log), a)
    BY <1>6, <2>1, <2>2
  <2> DEFINE n == Len(log) + 1
  <2>9. n - 1 = Len(log) /\ log'[n].maker = r /\ log'[n].taker = a
    BY <1>5, <1>6
  <2> HIDE DEF n
  <2>10. FillFollows(log', n)
    BY <2>7, <2>8, <2>9 DEF FillFollows
  <2> QED
    BY <2>10 DEF n
<1>9. FillsInSequence'
  <2> SUFFICES ASSUME NEW n \in 1..Len(log'), log'[n].at = "fill"
               PROVE  FillFollows(log', n)
    BY DEF FillsInSequence
  <2>1. n \in 1..Len(log) \/ n = Len(log) + 1
    BY <1>6
  <2>2. CASE n \in 1..Len(log)
    BY <1>6, <2>2 DEF SequenceInv, FillsInSequence
  <2> QED
    BY <1>8, <2>1, <2>2
<1>10. ASSUME NEW w \in Workers, pc[w] = "book"
       PROVE  \E m \in 1..Len(log') : MatchedFrom(log', m, Len(log'), task[w].req)
  <2>1. PICK m \in 1..Len(log) : MatchedFrom(log, m, Len(log), task[w].req)
    BY <1>10 DEF SequenceInv
  <2>2. ~Disturbs(e, task[w].req)
    <3>1. CASE w = p
      BY <1>2, <1>5, <3>1 DEF Disturbs
    <3>2. CASE w # p
      <4>1. task[w].ord.sym # task[p].ord.sym
        BY <1>1, <1>10, <3>2 DEF InsideInv, OneInside
      <4>2. task[w].ord = task[w].req
        BY <1>10, HeldTypes DEF Busy
      <4> QED
        BY <1>5, <4>1, <4>2 DEF Disturbs, a
    <3> QED
      BY <3>1, <3>2
  <2>3. MatchedFrom(log', m, Len(log'), task[w].req)
    BY <1>1, <1>3, <1>5, <1>7, <2>1, <2>2, LogExtends
  <2> QED
    BY <1>6, <2>3
<1>11. ASSUME NEW o \in index'
       PROVE  \E j \in 1..Len(log') : RestedFrom(log', j, Len(log'), o)
  <2>1. PICK j \in 1..Len(log) : RestedFrom(log, j, Len(log), o)
    BY <1>1, <1>11 DEF SequenceInv
  <2>2. RestedFrom(log', j, Len(log'), o)
    BY <1>1, <1>3, <1>5, <1>7, <2>1, LogExtends
  <2> QED
    BY <1>6, <2>2
<1> QED
  BY <1>1, <1>9, <1>10, <1>11 DEF SequenceInv

\* An order that comes to rest was not cancelled since its entry.
LEMMA RestSequence ==
  ASSUME Inv, TypeInv, SequenceInv, NEW p \in Workers, NEW mayRest,
         RestResidual(p, mayRest)
  PROVE  SequenceInv'
<1>1. /\ pc[p] = "book" /\ pc' = [pc EXCEPT ![p] = "send"] /\ UNCHANGED <<task, log>>
      /\ index' \subseteq index \cup {task[p].ord}
  BY DEF RestResidual
<1>2. task[p].ord = task[p].req
  BY <1>1, HeldTypes DEF Busy
<1>3. \A q \in Workers : pc'[q] = "book" => pc[q] = "book"
  BY <1>1, InvTypes
<1>4. \E j \in 1..Len(log) : RestedFrom(log, j, Len(log), task[p].ord)
  BY <1>1, <1>2 DEF SequenceInv, MatchedFrom
<1>5. \A o \in index' : \E j \in 1..Len(log) : RestedFrom(log, j, Len(log), o)
  BY <1>1, <1>4 DEF SequenceInv
<1> QED
  BY <1>1, <1>3, <1>5 DEF SequenceInv, FillsInSequence

\* Every step logs what it does where the log says.
LEMMA StepSequence ==
  ASSUME EngineInv, SequenceInv, TargetInv, [Next]_vars
  PROVE  SequenceInv' /\ TargetInv'
<1>1. Inv /\ UniqueIds /\ TypeInv /\ BookInv /\ InsideInv
  BY DEF EngineInv
<1>2. ASSUME Elsewhere PROVE SequenceInv'
  BY <1>1, <1>2, ElsewhereSequence
<1>3. ASSUME NEW p \in Workers, pc[p] = "enter", task[p].req.type = "new", Accept(p),
             HasLock(p) \/ p \in Shards
      PROVE  SequenceInv'
  BY <1>1, <1>3, AcceptSequence
<1>4. ASSUME NEW p \in Workers, Trade(p) PROVE SequenceInv'
  BY <1>1, <1>4, TradeSequence
<1>5. ASSUME NEW p \in Workers, NEW mayRest \in BOOLEAN, RestResidual(p, mayRest)
      PROVE  SequenceInv'
  BY <1>1, <1>5, RestSequence
<1>6. ASSUME NEW p \in Workers, NEW known \in BOOLEAN, pc[p] = "enter",
             task[p].req.type = "cancel", RemoveOrder(p, task[p].ord, known), Handle(p),
             HasLock(p) \/ p \in Shards
      PROVE  SequenceInv'
  BY <1>1, <1>6, RemoveSequence
<1>7. SequenceInv'
  BY <1>1, <1>2, <1>3, <1>4, <1>5, <1>6, BookCases
<1>8. TargetInv'
  BY <1>1, StepTargets
<1> QED
  BY <1>7, <1>8

\* Every fill follows the entries of its orders, with the book to itself: the order of
\* engine_seq, a counter that all books share, is the order of processing in each.
THEOREM FillsFollowTheirOrders ==
  Spec => []FillsInSequence
<1>1. Init => SequenceInv /\ TargetInv
  BY InitSequence
<1>2. EngineInv /\ SequenceInv /\ TargetInv /\ [Next]_vars => SequenceInv' /\ TargetInv'
  BY StepSequence
<1>3. SequenceInv => FillsInSequence
  BY DEF SequenceInv
<1> QED
  BY <1>1, <1>2, <1>3, EngineInvHolds, PTL DEF Spec
=============================================================================
