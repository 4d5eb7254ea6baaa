--------------------------- MODULE JoinTouchProofs ---------------------------
(***************************************************************************)
(* The local book of JoinTouch is the exchange's, for every set of levels, *)
(* cap, tilt and number of deltas on the way: its cached best level is the *)
(* best of its quantities, and a book that has been told everything is the *)
(* exchange's.  apply_delta cuts a quantity off at zero, so that the sum   *)
(* of the deltas on the way says nothing of what they leave; the invariant *)
(* Replays instead has the books the stream goes through, one per delta,   *)
(* each with quantities in range.                                          *)
(***************************************************************************)
EXTENDS JoinTouch, TLAPS, WellFoundedInduction

Quantities == [Levels -> 0..2]
Shown(qty) == {p \in Levels : qty[p] > 0}
IsBook(b)  == b \in [qty : Quantities, best : Levels \union {0}]

\* The book has its quantities in range and its best level right.
Sound(b) == IsBook(b) /\ b.best = Best(Shown(b.qty))

-----------------------------------------------------------------------------
(* The best of a set of levels *)

LEMMA LevelFacts == /\ \A p \in Levels : p \in Nat /\ p > 0 /\ p < Dollar
                    /\ 0 \notin Levels
BY TouchAssumption

\* A nonempty set of levels has a greatest one, the one nearest to the dollar.
LEMMA BestOf ==
  ASSUME NEW ps \in SUBSET Levels, ps # {}
  PROVE  Best(ps) \in ps /\ \A r \in ps : r <= Best(ps)
<1> DEFINE gaps  == {Dollar - p : p \in ps}
           less == {ss \in Nat \X Nat : ss[1] < ss[2]}
<1>0. \A p \in ps : Dollar - p \in Nat
  BY LevelFacts, TouchAssumption
<1>1. gaps \subseteq Nat /\ gaps # {}
  BY <1>0
<1>2. IsWellFoundedOn(less, Nat)
  BY NatLessThanWellFounded, Zenon DEF OpToRel
<1>3. PICK g \in gaps : \A h \in gaps : ~(<<h, g>> \in less)
  <2> HIDE DEF gaps, less
  <2> QED BY <1>1, <1>2, WFMin
<1>4. \A h \in gaps : ~(h < g)
  <2>1. \A i, j \in Nat : i < j => <<i, j>> \in less
    OBVIOUS
  <2> QED BY <1>1, <1>3, <2>1
<1>5. PICK p \in ps : g = Dollar - p
  OBVIOUS
<1>6. \A r \in ps : ~(Dollar - r < Dollar - p)
  BY <1>4, <1>5
<1>7. \A r \in ps : r <= p
  BY <1>6, LevelFacts, TouchAssumption
<1> QED BY <1>7 DEF Best

LEMMA BestIs ==
  ASSUME NEW ps \in SUBSET Levels, NEW b \in ps, \A r \in ps : r <= b
  PROVE  Best(ps) = b
BY BestOf, LevelFacts

LEMMA BestType == ASSUME NEW ps \in SUBSET Levels PROVE Best(ps) \in Levels \union {0}
BY BestOf DEF Best

\* apply_delta keeps the quantities and the best level of a book exact, whichever
\* level the delta is for, as long as it takes off no more than is there.
LEMMA AppliedExact ==
  ASSUME NEW b, Sound(b), NEW p \in Levels, NEW by \in Int, b.qty[p] + by \in 0..2
  PROVE  /\ Sound(Applied(b, p, by))
         /\ Applied(b, p, by).qty = [b.qty EXCEPT ![p] = b.qty[p] + by]
<1> USE DEF Sound, IsBook
<1> DEFINE n   == b.qty[p] + by
           qty == [b.qty EXCEPT ![p] = IF n <= 0 THEN 0 ELSE n]
<1>1. b.qty \in Quantities /\ n \in 0..2
  OBVIOUS
<1>2. (IF n <= 0 THEN 0 ELSE n) = n
  BY <1>1
<1>3. qty = [b.qty EXCEPT ![p] = n] /\ qty \in Quantities
  BY <1>1, <1>2 DEF Quantities
<1>4. Applied(b, p, by).qty = qty
  BY DEF Applied
<1>5. Applied(b, p, by).best = Best(Shown(qty))
  <2> DEFINE best == Applied(b, p, by).best
  <2>0. best = IF n > 0 THEN (IF p > b.best THEN p ELSE b.best)
               ELSE IF p = b.best THEN Best(Shown(qty)) ELSE b.best
    BY DEF Applied, Shown
  <2>1. \A r \in Levels \ {p} : r \in Shown(qty) <=> r \in Shown(b.qty)
    BY <1>1, <1>3 DEF Shown, Quantities
  <2>2. p \in Shown(qty) <=> n > 0
    BY <1>1, <1>3 DEF Shown, Quantities
  <2>3. /\ Shown(qty) \in SUBSET Levels /\ Shown(b.qty) \in SUBSET Levels
        /\ Shown(b.qty) = {} => b.best = 0
        /\ Shown(b.qty) # {} => /\ b.best \in Shown(b.qty)
                                /\ \A r \in Shown(b.qty) : r <= b.best
    BY BestOf DEF Shown, Best
  <2> HIDE DEF qty, n
  <2> SUFFICES best = Best(Shown(qty))
    OBVIOUS
  <2> HIDE DEF best
  <2>4. CASE n > 0 /\ p > b.best
    BY <2>0, <2>1, <2>2, <2>3, <2>4, BestIs, LevelFacts
  <2>5. CASE n > 0 /\ ~(p > b.best)
    <3>1. Shown(b.qty) # {} /\ b.best \in Shown(qty)
      BY <2>1, <2>2, <2>3, <2>5, LevelFacts
    <3>2. \A r \in Shown(qty) : r <= b.best
      BY <2>1, <2>3, <2>5, <3>1, LevelFacts
    <3> QED BY <2>0, <2>3, <2>5, <3>1, <3>2, BestIs
  <2>6. CASE ~(n > 0) /\ p = b.best
    BY <2>0, <2>6
  <2>7. CASE ~(n > 0) /\ p # b.best
    <3>1. CASE Shown(b.qty) = {}
      BY <2>0, <2>1, <2>2, <2>3, <2>7, <3>1 DEF Best
    <3>2. CASE Shown(b.qty) # {}
      BY <2>0, <2>1, <2>2, <2>3, <2>7, <3>2, BestIs
    <3> QED BY <3>1, <3>2
  <2> QED BY <2>4, <2>5, <2>6, <2>7
<1>6. Applied(b, p, by) = [qty |-> qty, best |-> Best(Shown(qty))]
  BY <1>4, <1>5 DEF Applied
<1> QED BY <1>3, <1>6, BestType DEF Shown
-----------------------------------------------------------------------------
(* The invariant *)

Messages == [side : Sides, price : Levels, by : {1, -1}]
Books    == [Sides -> Quantities]

\* What apply_delta makes of the quantities of both sides, when nothing is cut off
Follows(b, c, m) ==
  \A s \in Sides, p \in Levels :
    c[s][p] = b[s][p] + (IF s = m.side /\ p = m.price THEN m.by ELSE 0)

\* h is the books the stream goes through from here, up to the exchange's.
Replay(h) ==
  /\ h \in [1..(Len(deltas) + 1) -> Books]
  /\ \A s \in Sides : h[1][s] = book[s].qty /\ h[Len(deltas) + 1][s] = Truth(s)
  /\ \A k \in 1..Len(deltas) : Follows(h[k], h[k + 1], deltas[k])

Replays == IF connected THEN \E h : Replay(h) ELSE deltas = <<>>

MarketTypes ==
  /\ others \in [Sides -> [Levels -> 0..1]] /\ mine \in Prices /\ ref \in Prices
  /\ late \in [Sides -> BOOLEAN] /\ position \in Int
  /\ cycle \in [pc : {"idle", "turn", "cancel", "create"}, side : Sides, want : Prices]

StreamTypes ==
  /\ connected \in BOOLEAN /\ deltas \in Seq(Messages) /\ Len(deltas) <= MaxLag + 1
  /\ book \in [Sides -> [qty : Quantities, best : Levels \union {0}]]

\* The worker knows of what rests, and places only where it has nothing.
Known ==
  /\ \A s \in Sides : /\ mine[s] # 0 => ref[s] = mine[s]
                      /\ late[s] => mine[s] = 0 /\ ref[s] # 0
  /\ cycle.pc = "create" => ref[cycle.side] = 0 /\ cycle.want[cycle.side] # 0

TouchInv == MarketTypes /\ StreamTypes /\ Known /\ Replays /\ BestExact

LEMMA TruthType ==
  ASSUME MarketTypes, NEW s \in Sides
  PROVE  Truth(s) \in Quantities
BY DEF MarketTypes, Truth, Only, Quantities

LEMMA QuotesType == ASSUME MarketTypes, StreamTypes PROVE Quotes \in Prices
<1>1. \A s \in Sides : BestExcluding(s) \in Levels \union {0}
  BY BestType DEF BestExcluding
<1> QED BY <1>1 DEF Quotes, Prices

-----------------------------------------------------------------------------
(* The steps of the stream *)

\* The exchange changes one level by one contract, and a connected stream is told.
LEMMA ToldKeeps ==
  ASSUME TouchInv, MarketTypes',
         NEW s \in Sides, NEW p \in Levels, NEW by \in {1, -1}, NEW most \in {MaxLag, MaxLag + 1},
         Told(s, p, by, most), UNCHANGED book,
         \A t \in Sides, q \in Levels :
           Truth(t)'[q] = Truth(t)[q] + (IF t = s /\ q = p THEN by ELSE 0)
  PROVE  StreamTypes' /\ Replays' /\ BestExact'
<1> DEFINE m == [side |-> s, price |-> p, by |-> by]
<1> USE TouchAssumption DEF TouchInv
<1>1. BestExact'
  BY DEF BestExact
<1>2. CASE ~connected
  <2>1. UNCHANGED stream
    BY <1>2 DEF Told
  <2> QED BY <1>1, <1>2, <2>1 DEF stream, StreamTypes, Replays
<1>3. CASE connected
  <2>0. m \in Messages /\ connected'
    BY <1>3 DEF Told, Messages
  <2>1. /\ deltas' = Append(deltas, m) /\ Len(deltas) < most
        /\ deltas \in Seq(Messages)
    BY <1>3 DEF Told, StreamTypes
  <2>2. /\ deltas' \in Seq(Messages) /\ Len(deltas') = Len(deltas) + 1
        /\ \A k \in 1..Len(deltas) : deltas'[k] = deltas[k]
        /\ deltas'[Len(deltas) + 1] = m /\ Len(deltas) \in Nat
    BY <2>0, <2>1
  <2>3. StreamTypes'
    BY <1>3, <2>1, <2>2, <2>0 DEF StreamTypes
  <2>4. PICK h : Replay(h)
    BY <1>3 DEF Replays
  <2> DEFINE n    == Len(deltas)
             last == [t \in Sides |-> Truth(t)']
             g    == [k \in 1..(n + 2) |-> IF k = n + 2 THEN last ELSE h[k]]
  <2>5. last \in Books
    <3>1. \A t \in Sides : Truth(t)' \in Quantities
      BY DEF MarketTypes, Prices, Truth, Only, Quantities
    <3> QED BY <3>1 DEF Books
  <2>6. n \in Nat /\ Len(deltas') = n + 1
    BY <2>2
  <2> HIDE DEF last, n
  <2>7. h \in [1..(n + 1) -> Books]
    BY <2>4 DEF Replay, n
  <2>8. g \in [1..(n + 2) -> Books] /\ g[n + 2] = last /\ \A k \in 1..(n + 1) : g[k] = h[k]
    BY <2>5, <2>6, <2>7
  <2> HIDE DEF g
  <2>9. \A t \in Sides : g[1][t] = book'[t].qty /\ g[n + 2][t] = Truth(t)'
    BY <2>4, <2>6, <2>8 DEF Replay, n, last
  <2>10. Follows(h[n + 1], last, m)
    BY <2>4 DEF Replay, n, last, Follows
  <2>11. \A k \in 1..(n + 1) : Follows(g[k], g[k + 1], deltas'[k])
    <3> SUFFICES ASSUME NEW k \in 1..(n + 1) PROVE Follows(g[k], g[k + 1], deltas'[k])
      OBVIOUS
    <3>1. CASE k = n + 1
      BY <2>2, <2>6, <2>8, <2>10, <3>1 DEF n
    <3>2. CASE k # n + 1
      <4>1. k \in 1..n /\ k + 1 \in 1..(n + 1)
        BY <2>6, <3>2
      <4>2. Follows(h[k], h[k + 1], deltas[k]) /\ deltas'[k] = deltas[k]
        BY <2>2, <2>4, <4>1 DEF Replay, n
      <4> QED BY <2>8, <4>1, <4>2
    <3> QED BY <3>1, <3>2
  <2>12. PICK w : w = g
    OBVIOUS
  <2>13. Replay(w)'
    <3>1. n + 2 = Len(deltas') + 1 /\ n + 1 = Len(deltas')
      BY <2>6
    <3> QED BY <2>8, <2>9, <2>11, <2>12, <3>1 DEF Replay
  <2> QED BY <1>1, <2>0, <2>3, <2>13 DEF Replays
<1> QED BY <1>2, <1>3 DEF StreamTypes

LEMMA DeliverKeeps ==
  ASSUME TouchInv, Deliver
  PROVE  StreamTypes' /\ Replays' /\ BestExact'
<1> USE DEF TouchInv
<1> DEFINE n == Len(deltas)
           m == Head(deltas)
<1>1. /\ deltas # <<>> /\ deltas' = Tail(deltas) /\ UNCHANGED <<exchange, connected>>
      /\ book' = [book EXCEPT ![m.side] = Applied(@, m.price, m.by)]
  BY DEF Deliver
<1>2. connected
  BY <1>1 DEF Replays
<1>3. /\ n \in Nat \ {0} /\ m \in Messages /\ m = deltas[1] /\ Len(deltas') = n - 1
      /\ deltas' \in Seq(Messages) /\ \A k \in 1..(n - 1) : deltas'[k] = deltas[k + 1]
  BY <1>1 DEF StreamTypes
<1>4. PICK h : Replay(h)
  BY <1>2 DEF Replays
<1>5. /\ h \in [1..(n + 1) -> Books] /\ \A k \in 1..n : Follows(h[k], h[k + 1], deltas[k])
      /\ \A s \in Sides : h[1][s] = book[s].qty /\ h[n + 1][s] = Truth(s)
  BY <1>4 DEF Replay
<1>6. m.side \in Sides /\ m.price \in Levels /\ m.by \in {1, -1}
  BY <1>3 DEF Messages
<1> DEFINE b == book[m.side]
           a == Applied(b, m.price, m.by)
<1>7. h[2] \in Books /\ Follows(h[1], h[2], m)
  BY <1>3, <1>5
<1> HIDE DEF m, n
<1>8. b.qty[m.price] + m.by \in 0..2
  <2>1. h[2][m.side][m.price] = h[1][m.side][m.price] + m.by
    BY <1>6, <1>7 DEF Follows
  <2>2. h[2][m.side][m.price] \in 0..2
    BY <1>6, <1>7 DEF Books, Quantities
  <2> QED BY <1>5, <1>6, <2>1, <2>2
<1>9. Sound(a) /\ a.qty = [b.qty EXCEPT ![m.price] = b.qty[m.price] + m.by]
  <2>1. Sound(b)
    BY <1>6 DEF StreamTypes, BestExact, Shown, Sound, IsBook
  <2>2. m.by \in Int
    BY <1>6
  <2> HIDE DEF b
  <2> QED BY <1>6, <1>8, <2>1, <2>2, AppliedExact
<1> HIDE DEF a
<1>10. book' = [book EXCEPT ![m.side] = a]
  BY <1>1 DEF a, m
<1>11. StreamTypes'
  <2>1. book' \in [Sides -> [qty : Quantities, best : Levels \union {0}]]
    BY <1>6, <1>9, <1>10 DEF StreamTypes, Sound, IsBook
  <2>2. connected' \in BOOLEAN
    BY <1>1 DEF StreamTypes
  <2> QED BY <1>3, <2>1, <2>2, TouchAssumption DEF StreamTypes, n
<1>12. BestExact'
  <2>1. book \in [Sides -> [qty : Quantities, best : Levels \union {0}]]
    BY DEF StreamTypes
  <2>2. book'[m.side] = a /\ \A s \in Sides \ {m.side} : book'[s] = book[s]
    BY <1>6, <1>10, <2>1
  <2>3. \A s \in Sides : book[s].best = Best(Shown(book[s].qty))
    BY DEF BestExact, Shown
  <2>4. \A s \in Sides : book'[s].best = Best(Shown(book'[s].qty))
    BY <1>9, <2>2, <2>3 DEF Sound
  <2> QED BY <2>4 DEF BestExact, Shown
<1>13. \A s \in Sides : h[2][s] = book'[s].qty
  <2> SUFFICES ASSUME NEW s \in Sides PROVE h[2][s] = book'[s].qty
    OBVIOUS
  <2>1. h[2][s] \in Quantities /\ book[s].qty \in Quantities /\ book'[s].qty \in Quantities
    BY <1>7, <1>11 DEF Books, StreamTypes
  <2>2. \A p \in Levels : h[2][s][p] = book[s].qty[p] + (IF s = m.side /\ p = m.price THEN m.by ELSE 0)
    BY <1>5, <1>7 DEF Follows
  <2>3. CASE s = m.side
    <3>1. book'[s].qty = [book[s].qty EXCEPT ![m.price] = book[s].qty[m.price] + m.by]
      BY <1>6, <1>9, <1>10, <2>3 DEF b, StreamTypes
    <3>2. \A p \in Levels : h[2][s][p] = book'[s].qty[p]
      BY <1>6, <2>1, <2>2, <2>3, <3>1 DEF Quantities
    <3> QED BY <2>1, <3>2 DEF Quantities
  <2>4. CASE s # m.side
    <3>1. book'[s] = book[s]
      BY <1>10, <2>4 DEF StreamTypes
    <3>2. \A p \in Levels : h[2][s][p] = book'[s].qty[p]
      BY <2>1, <2>2, <2>4, <3>1 DEF Quantities
    <3> QED BY <2>1, <3>2 DEF Quantities
  <2> QED BY <2>3, <2>4
<1>14. PICK w : w = [k \in 1..n |-> h[k + 1]]
  OBVIOUS
<1>15. Replay(w)'
  <2>1. n - 1 \in Nat /\ n \in Nat /\ Len(deltas') = n - 1 /\ Len(deltas') + 1 = n
    BY <1>3 DEF n
  <2>2. /\ w \in [1..n -> Books] /\ w[1] = h[2] /\ w[n] = h[n + 1]
        /\ \A k \in 1..(n - 1) : w[k] = h[k + 1] /\ w[k + 1] = h[k + 2]
    BY <1>5, <1>14, <2>1
  <2>3. \A s \in Sides : Truth(s)' = Truth(s)
    BY <1>1 DEF exchange, Truth
  <2>4. \A k \in 1..(n - 1) : Follows(w[k], w[k + 1], deltas'[k])
    <3> SUFFICES ASSUME NEW k \in 1..(n - 1) PROVE Follows(w[k], w[k + 1], deltas'[k])
      OBVIOUS
    <3>1. k + 1 \in 1..n /\ k + 1 + 1 = k + 2
      BY <2>1
    <3>2. Follows(h[k + 1], h[k + 1 + 1], deltas[k + 1])
      BY <1>5, <3>1
    <3>3. deltas'[k] = deltas[k + 1]
      BY <1>3 DEF n
    <3> QED BY <2>2, <3>1, <3>2, <3>3
  <2> QED BY <1>5, <1>13, <2>1, <2>2, <2>3, <2>4 DEF Replay
<1> QED BY <1>1, <1>2, <1>11, <1>12, <1>15 DEF Replays

LEMMA ConnectKeeps ==
  ASSUME TouchInv, Connect
  PROVE  StreamTypes' /\ Replays' /\ BestExact'
<1> USE DEF TouchInv
<1>1. /\ connected' /\ deltas' = <<>> /\ deltas = <<>> /\ UNCHANGED exchange
      /\ book' = [s \in Sides |-> Snapshot(Truth(s))]
  BY DEF Connect, Replays
<1>2. \A s \in Sides : Truth(s)' = Truth(s) /\ Truth(s) \in Quantities
  BY <1>1, TruthType DEF exchange, Truth
<1>3. /\ \A s \in Sides : book'[s].qty = Truth(s)
      /\ book' \in [Sides -> [qty : Quantities, best : Levels \union {0}]]
  BY <1>1, <1>2, BestType DEF Snapshot
<1>4. StreamTypes'
  BY <1>1, <1>3, TouchAssumption DEF StreamTypes
<1>5. BestExact'
  BY <1>1 DEF BestExact, Snapshot
<1>6. PICK w : w = [k \in 1..1 |-> [s \in Sides |-> Truth(s)]]
  OBVIOUS
<1>7. Replay(w)'
  <2>1. Len(deltas') = 0
    BY <1>1
  <2>2. w \in [1..1 -> Books] /\ \A s \in Sides : w[1][s] = Truth(s)
    BY <1>2, <1>6 DEF Books
  <2> QED BY <1>2, <1>3, <2>1, <2>2 DEF Replay
<1> QED BY <1>1, <1>4, <1>5, <1>7 DEF Replays

LEMMA StartOverKeeps ==
  ASSUME TouchInv, Disconnect
  PROVE  StreamTypes' /\ Replays' /\ BestExact'
<1>1. /\ ~connected' /\ connected' \in BOOLEAN /\ deltas' = <<>>
      /\ book' = [s \in Sides |-> NoBook]
  BY DEF Disconnect
<1>2. NoBook \in [qty : Quantities, best : Levels \union {0}] /\ NoBook.best = 0
  BY DEF NoBook, NoLevels, Quantities
<1>3. Shown(NoLevels) = {}
  BY DEF NoLevels, Shown
<1>4. BestExact'
  BY <1>1, <1>3 DEF BestExact, NoBook, Best, Shown
<1> QED BY <1>1, <1>2, <1>4, TouchAssumption DEF StreamTypes, Replays

\* A step that moves neither the stream nor what rests
LEMMA StillKeeps ==
  ASSUME TouchInv, UNCHANGED <<exchange, stream, book>>
  PROVE  StreamTypes' /\ Replays' /\ BestExact'
<1>1. \A s \in Sides : Truth(s)' = Truth(s)
  BY DEF exchange, Truth
<1> QED BY <1>1 DEF TouchInv, StreamTypes, Replays, Replay, BestExact, stream

-----------------------------------------------------------------------------
(* The steps of the market and the worker *)

\* The worker goes on to the other side, or to rest.
LEMMA PastType ==
  ASSUME MarketTypes, NEW s \in Sides
  PROVE  /\ Past(s) \in [pc : {"idle", "turn", "cancel", "create"}, side : Sides, want : Prices]
         /\ Past(s).pc # "create"
BY DEF MarketTypes, Past, Idle, NoPrices, Prices, Sides

LEMMA PlacingType ==
  ASSUME MarketTypes, NEW s \in Sides, cycle.side = s
  PROVE  /\ Placing(s) \in [pc : {"idle", "turn", "cancel", "create"}, side : Sides, want : Prices]
         /\ Placing(s).pc = "create" => Placing(s).side = s /\ Placing(s).want[s] # 0
BY PastType DEF MarketTypes, Placing

\* What a step that takes s's order off the book at level p does to the exchange's book
LEMMA Removed ==
  ASSUME MarketTypes, NEW s \in Sides, mine[s] # 0,
         mine' = [mine EXCEPT ![s] = 0], UNCHANGED others
  PROVE  /\ mine[s] \in Levels
         /\ \A t \in Sides, q \in Levels :
              Truth(t)'[q] = Truth(t)[q] + (IF t = s /\ q = mine[s] THEN -1 ELSE 0)
BY LevelFacts DEF MarketTypes, Prices, Truth, Only

LEMMA MarketNext ==
  ASSUME TouchInv, NEW s \in Sides, NEW p \in Levels,
         OthersJoin(s, p) \/ OthersLeave(s, p) \/ Take(s) \/ Expire(s)
  PROVE  TouchInv'
<1> USE TouchAssumption DEF TouchInv
<1>1. MarketTypes'
  <2>1. CASE OthersJoin(s, p)
    BY <2>1 DEF OthersJoin, MarketTypes
  <2>2. CASE OthersLeave(s, p)
    BY <2>2 DEF OthersLeave, MarketTypes
  <2>3. CASE Take(s)
    BY <2>3 DEF Take, MarketTypes, Prices
  <2>4. CASE Expire(s)
    BY <2>4 DEF Expire, MarketTypes, Prices
  <2> QED BY <2>1, <2>2, <2>3, <2>4
<1>2. CASE OthersJoin(s, p)
  <2>1. \A t \in Sides, q \in Levels :
          Truth(t)'[q] = Truth(t)[q] + (IF t = s /\ q = p THEN 1 ELSE 0)
    BY <1>2 DEF OthersJoin, MarketTypes, Truth, Only
  <2>2. StreamTypes' /\ Replays' /\ BestExact'
    BY <1>1, <1>2, <2>1, ToldKeeps DEF OthersJoin
  <2> QED BY <1>1, <1>2, <2>2 DEF OthersJoin, Known
<1>3. CASE OthersLeave(s, p)
  <2>1. \A t \in Sides, q \in Levels :
          Truth(t)'[q] = Truth(t)[q] + (IF t = s /\ q = p THEN -1 ELSE 0)
    BY <1>3 DEF OthersLeave, MarketTypes, Truth, Only
  <2>2. StreamTypes' /\ Replays' /\ BestExact'
    BY <1>1, <1>3, <2>1, ToldKeeps DEF OthersLeave
  <2> QED BY <1>1, <1>3, <2>2 DEF OthersLeave, Known
<1>4. CASE Take(s) \/ Expire(s)
  <2>1. /\ mine[s] # 0 /\ mine' = [mine EXCEPT ![s] = 0] /\ UNCHANGED <<others, book, ref, cycle>>
        /\ Told(s, mine[s], -1, MaxLag)
        /\ late' = late \/ (ref[s] # 0 /\ late' = [late EXCEPT ![s] = TRUE])
    <3>1. CASE Take(s)
      BY <3>1 DEF Take, Known
    <3>2. CASE Expire(s)
      BY <3>2 DEF Expire
    <3> QED BY <1>4, <3>1, <3>2
  <2>2. mine[s] \in Levels
    BY <2>1, Removed
  <2>3. StreamTypes' /\ Replays' /\ BestExact'
    BY <1>1, <2>1, <2>2, Removed, ToldKeeps
  <2>4. Known'
    BY <2>1 DEF Known, MarketTypes, Prices
  <2> QED BY <1>1, <2>3, <2>4
<1> QED BY <1>2, <1>3, <1>4

LEMMA WorkerNext ==
  ASSUME TouchInv, NEW s \in Sides, Decide \/ Heard(s) \/ Works(s)
  PROVE  TouchInv'
<1> USE TouchAssumption DEF TouchInv
<1>1. CASE Decide
  <2>1. MarketTypes' /\ Known'
    BY <1>1, QuotesType DEF Decide, MarketTypes, Known, exchange, Sides
  <2> QED BY <1>1, <2>1, StillKeeps DEF Decide
<1>2. CASE Heard(s)
  <2>1. MarketTypes'
    BY <1>2 DEF Heard, MarketTypes, Prices, exchange, Sign
  <2>2. Known'
    BY <1>2 DEF Heard, MarketTypes, Prices, Known, exchange
  <2> QED BY <1>2, <2>1, <2>2, StillKeeps DEF Heard
<1>3. CASE Turn(s)
  <2>1. MarketTypes'
    BY <1>3, PastType, PlacingType DEF Turn, MarketTypes, exchange
  <2>2. Known'
    BY <1>3, PastType, PlacingType DEF Turn, MarketTypes, Known, exchange
  <2> QED BY <1>3, <2>1, <2>2, StillKeeps DEF Turn
<1>4. CASE CancelAnswered(s)
  <2>1. MarketTypes'
    BY <1>4, PlacingType DEF CancelAnswered, MarketTypes, Prices
  <2>2. Known'
    BY <1>4, PlacingType DEF CancelAnswered, MarketTypes, Prices, Known
  <2>3. StreamTypes' /\ Replays' /\ BestExact'
    <3>1. CASE mine[s] # 0
      BY <1>4, <2>1, <3>1, Removed, ToldKeeps DEF CancelAnswered
    <3>2. CASE mine[s] = 0
      <4>1. mine' = mine
        BY <1>4, <3>2 DEF CancelAnswered, MarketTypes, Prices
      <4> QED BY <1>4, <3>2, <4>1, StillKeeps DEF CancelAnswered, exchange
    <3> QED BY <3>1, <3>2
  <2> QED BY <2>1, <2>2, <2>3
<1>5. CASE CreateAnswered(s)
  <2> DEFINE p == cycle.want[s]
  <2>1. p \in Levels /\ mine[s] = 0 /\ ~late[s] /\ ref[s] = 0
    BY <1>5 DEF CreateAnswered, MarketTypes, Prices, Known
  <2>2. CASE Crosses(s, p)
    <3>1. MarketTypes' /\ Known'
      BY <1>5, <2>2, PastType DEF CreateAnswered, MarketTypes, Known
    <3> QED BY <1>5, <2>2, <3>1, StillKeeps DEF CreateAnswered, exchange
  <2>3. CASE ~Crosses(s, p)
    <3>1. /\ mine' = [mine EXCEPT ![s] = p] /\ ref' = [ref EXCEPT ![s] = p]
          /\ Told(s, p, 1, MaxLag + 1) /\ cycle' = Past(s)
          /\ UNCHANGED <<others, late, book, position>>
      BY <1>5, <2>3 DEF CreateAnswered
    <3>2. MarketTypes'
      BY <2>1, <3>1, PastType DEF MarketTypes, Prices
    <3>3. Known'
      BY <2>1, <3>1, PastType DEF MarketTypes, Prices, Known
    <3>4. \A t \in Sides, q \in Levels :
            Truth(t)'[q] = Truth(t)[q] + (IF t = s /\ q = p THEN 1 ELSE 0)
      BY <2>1, <3>1, LevelFacts DEF MarketTypes, Prices, Truth, Only
    <3>5. StreamTypes' /\ Replays' /\ BestExact'
      BY <2>1, <3>1, <3>2, <3>4, ToldKeeps
    <3> QED BY <3>2, <3>3, <3>5
  <2> QED BY <2>2, <2>3
<1> QED BY <1>1, <1>2, <1>3, <1>4, <1>5 DEF Works

LEMMA TouchInit == Init => TouchInv
<1> SUFFICES ASSUME Init PROVE TouchInv
  OBVIOUS
<1>1. MarketTypes /\ Known
  BY DEF Init, MarketTypes, Known, Prices, NoPrices, NoLevels, Idle, Sides
<1>2. Len(deltas) = 0 /\ deltas \in Seq(Messages)
  BY DEF Init
<1>3. NoBook \in [qty : Quantities, best : Levels \union {0}]
  BY DEF NoBook, NoLevels, Quantities
<1>s. StreamTypes /\ Replays
  <2>1. Replays
    BY Zenon DEF Init, Replays
  <2>2. connected \in BOOLEAN /\ book \in [Sides -> [qty : Quantities, best : Levels \union {0}]]
    BY <1>3 DEF Init
  <2> QED BY <1>2, <2>1, <2>2, TouchAssumption DEF StreamTypes
<1>4. Shown(NoLevels) = {}
  BY DEF NoLevels, Shown
<1>5. BestExact
  BY <1>4 DEF Init, BestExact, NoBook, Best, Shown
<1> QED BY <1>1, <1>s, <1>5 DEF TouchInv

LEMMA TouchNext == TouchInv /\ [Next]_vars => TouchInv'
<1> SUFFICES ASSUME TouchInv, [Next]_vars PROVE TouchInv'
  OBVIOUS
<1>1. CASE \E s \in Sides, p \in Levels : OthersJoin(s, p) \/ OthersLeave(s, p)
  BY <1>1, MarketNext
<1>2. ASSUME NEW s \in Sides, Take(s) \/ Expire(s) PROVE TouchInv'
  <2>1. mine[s] \in Levels
    BY <1>2, LevelFacts DEF Take, Expire, TouchInv, MarketTypes, Prices
  <2> QED BY <1>2, <2>1, MarketNext
<1>3. CASE Decide \/ \E s \in Sides : Heard(s) \/ Works(s)
  BY <1>3, WorkerNext DEF Sides
<1>4. CASE Deliver \/ Disconnect \/ Connect
  <2>1. StreamTypes' /\ Replays' /\ BestExact'
    BY <1>4, DeliverKeeps, StartOverKeeps, ConnectKeeps
  <2>2. UNCHANGED <<exchange, late, position, ref, cycle>>
    BY <1>4 DEF Deliver, Disconnect, Connect
  <2>3. MarketTypes' /\ Known'
    BY <2>2 DEF TouchInv, MarketTypes, Known, exchange
  <2> QED BY <2>1, <2>3 DEF TouchInv
<1>5. CASE UNCHANGED vars
  <2>1. MarketTypes' /\ Known'
    BY <1>5 DEF TouchInv, MarketTypes, Known, exchange, vars
  <2> QED BY <1>5, <2>1, StillKeeps DEF TouchInv, vars
<1> QED BY <1>1, <1>2, <1>3, <1>4, <1>5 DEF Next

LEMMA TouchInductive == Spec => []TouchInv
BY TouchInit, TouchNext, PTL DEF Spec

-----------------------------------------------------------------------------
\* Every variable stays in its type, for every set of levels and any number of deltas
\* on the way: no quantity of the local book is ever out of range.  (OrderBook,
\* _reconcile)
THEOREM TouchTypesKept == Spec => []TypeOK
<1>1. TouchInv => TypeOK
  BY DEF TouchInv, MarketTypes, StreamTypes, Messages, Quantities, TypeOK
<1> QED BY <1>1, TouchInductive, PTL

\* The cached best level is the one a scan of the book would find.  (apply_snapshot,
\* apply_delta)
THEOREM BestAlwaysExact == Spec => []BestExact
<1>1. TouchInv => BestExact
  BY DEF TouchInv
<1> QED BY <1>1, TouchInductive, PTL

\* Nothing on the way, the books the stream goes through are one.
LEMMA TouchCaughtUp == TouchInv => CaughtUp
<1> SUFFICES ASSUME TouchInv, connected, deltas = <<>>, NEW s \in Sides
             PROVE  book[s].qty = Truth(s)
  BY DEF CaughtUp
<1>1. PICK h : Replay(h)
  BY DEF TouchInv, Replays
<1>2. Len(deltas) + 1 = 1
  OBVIOUS
<1> QED BY <1>1, <1>2 DEF Replay

\* A book that has been told everything is the exchange's, whatever was filled,
\* cancelled and placed on the way.  (apply_delta, the stream's reconnect)
THEOREM AlwaysCatchesUp == Spec => []CaughtUp
BY TouchCaughtUp, TouchInductive, PTL

\* What a book that has been told everything shows without the worker's own order: what
\* others quote, less one contract where the worker has not heard the end of its order.
LEMMA OthersShown ==
  ASSUME TouchInv, NEW s \in Sides, book[s].qty = Truth(s)
  PROVE  LET shown == {p \in Levels : book[s].qty[p] - Only(p, ref[s], 1) > 0}
             best  == {p \in Levels : others[s][p] > 0}
         IN  shown \subseteq best /\ (ref[s] = mine[s] => shown = best)
<1>1. /\ others[s] \in [Levels -> 0..1] /\ (mine[s] # 0 => ref[s] = mine[s])
      /\ mine[s] \in Levels \union {0} /\ ref[s] \in Levels \union {0}
  BY DEF TouchInv, MarketTypes, Known, Prices
<1>2. ASSUME NEW p \in Levels
      PROVE  /\ book[s].qty[p] = others[s][p] + Only(p, mine[s], 1)
             /\ Only(p, mine[s], 1) \in {0, 1} /\ Only(p, ref[s], 1) \in {0, 1}
             /\ Only(p, mine[s], 1) <= Only(p, ref[s], 1)
             /\ others[s][p] \in 0..1
  BY <1>1, LevelFacts DEF Truth, Only
<1> QED BY <1>2

\* A quote joins the best price others quote and does not improve on it.
\* (join_touch_quotes, _best_excluding)
THEOREM QuotesNeverLead == Spec => NeverLeads
<1>1. TouchInv /\ CaughtUp /\ [Next]_vars =>
        [connected /\ deltas = <<>> /\ cycle.pc = "idle" /\ cycle'.pc = "turn" =>
           \A s \in Sides : /\ cycle'.want[s] <= Touch(s)
                            /\ ref[s] = mine[s] => cycle'.want[s] \in {0, Touch(s)}]_vars
  <2> SUFFICES ASSUME TouchInv, CaughtUp, Next, connected, deltas = <<>>, cycle.pc = "idle",
                      cycle'.pc = "turn", NEW s \in Sides
               PROVE  /\ cycle'.want[s] <= Touch(s)
                      /\ ref[s] = mine[s] => cycle'.want[s] \in {0, Touch(s)}
    BY DEF vars
  <2>1. Decide
    BY DEF Next, OthersJoin, OthersLeave, Take, Expire, Heard, Deliver, Disconnect, Connect, Works,
      Turn, CancelAnswered, CreateAnswered
  <2>2. cycle'.want[s] \in {0, BestExcluding(s)}
    BY <2>1 DEF Decide, Quotes
  <2> DEFINE shown == {p \in Levels : book[s].qty[p] - Only(p, ref[s], 1) > 0}
             best  == {p \in Levels : others[s][p] > 0}
  <2>3. shown \subseteq best /\ (ref[s] = mine[s] => shown = best)
    BY OthersShown DEF CaughtUp
  <2>4. BestExcluding(s) = Best(shown) /\ Touch(s) = Best(best)
    BY DEF BestExcluding, Touch
  <2>5. shown \in SUBSET Levels /\ best \in SUBSET Levels
    OBVIOUS
  <2> HIDE DEF shown, best
  <2>6. Best(shown) <= Best(best) /\ 0 <= Best(best)
    <3>1. CASE best = {}
      BY <2>3, <3>1 DEF Best
    <3>2. CASE best # {} /\ shown = {}
      <4>1. Best(best) \in best /\ Best(shown) = 0
        <5>1. Best(best) \in best
          BY <2>5, <3>2, BestOf
        <5> QED BY <3>2, <5>1 DEF Best
      <4> QED BY <2>5, <4>1, LevelFacts
    <3>3. CASE shown # {}
      <4>1. Best(shown) \in best /\ best # {}
        BY <2>3, <2>5, <3>3, BestOf
      <4> QED BY <2>5, <4>1, BestOf, LevelFacts
    <3> QED BY <3>1, <3>2, <3>3
  <2> QED BY <2>2, <2>3, <2>4, <2>6
<1>2. TouchInv => CaughtUp
  BY TouchCaughtUp
<1> QED BY <1>1, <1>2, TouchInductive, PTL DEF Spec, NeverLeads
=============================================================================
