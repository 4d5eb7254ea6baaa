--------------------------- MODULE FillStreamProofs ---------------------------
(***************************************************************************)
(* Theorems of FillStream, for every unit, trade size and bound: a trade   *)
(* with an id is applied once over all sessions, and position and residual *)
(* together conserve what was applied.                                     *)
(***************************************************************************)
EXTENDS FillStream, SequenceTheorems, TLAPS

-----------------------------------------------------------------------------
(* int() and the residual *)

LEMMA DivBounds ==
  ASSUME NEW x \in Nat
  PROVE  x \div Unit \in Nat /\ Unit * (x \div Unit) <= x
         /\ x < Unit * (x \div Unit) + Unit
BY UnitAssumption

\* int() of a number and the residue it leaves.
LEMMA TruncBounds ==
  ASSUME NEW x \in Int
  PROVE  /\ Trunc(x) \in Int /\ Trunc(-x) = -Trunc(x)
         /\ Unit * Trunc(x) \in Int
         /\ Carry(x) = x - Unit * Trunc(x) /\ Carry(x) \in -(Unit - 1) .. Unit - 1
<1>1. CASE x >= 0
  <2>1. x \in Nat /\ Trunc(x) = x \div Unit
    BY <1>1 DEF Trunc
  <2>2. Trunc(-x) = -(x \div Unit)
    <3>1. CASE x = 0
      BY <3>1, UnitAssumption, DivBounds DEF Trunc
    <3>2. CASE x # 0
      <4>1. ~(-x >= 0) /\ -(-x) = x
        BY <1>1, <3>2
      <4> QED
        BY <4>1 DEF Trunc
    <3> QED
      BY <3>1, <3>2
  <2> QED
    BY <2>1, <2>2, DivBounds, UnitAssumption DEF Carry
<1>2. CASE ~(x >= 0)
  <2> DEFINE y == -x
  <2>1. y \in Nat /\ y >= 0
    BY <1>2
  <2>2. Trunc(x) = -(y \div Unit) /\ Trunc(y) = y \div Unit
    BY <1>2, <2>1 DEF Trunc
  <2>3. y \div Unit \in Nat /\ Unit * (y \div Unit) <= y /\ y < Unit * (y \div Unit) + Unit
    BY <2>1, DivBounds
  <2> DEFINE q == y \div Unit
  <2>4. Unit * (-q) = -(Unit * q) /\ Unit * q \in Int
    BY <2>3, UnitAssumption
  <2> HIDE DEF q
  <2> QED
    BY <2>1, <2>2, <2>3, <2>4, UnitAssumption DEF Carry, q
<1> QED
  BY <1>1, <1>2

LEMMA WholeNegated ==
  ASSUME NEW x \in Int, Whole(x)
  PROVE  Whole(-x)
<1> DEFINE t == Trunc(x)
<1>1. t \in Int /\ Trunc(-x) = -t /\ Unit * t = x
  BY TruncBounds DEF Whole
<1> HIDE DEF t
<1>2. Unit * (-t) = -(Unit * t)
  BY <1>1, UnitAssumption
<1> QED
  BY <1>1, <1>2 DEF Whole

-----------------------------------------------------------------------------
(* The invariant *)

LEMMA StreamStarts == Init => StreamInv
<1> SUFFICES ASSUME Init PROVE StreamInv
  OBVIOUS
<1>1. TypeOK
  <2>1. trades \in Seq(Int) /\ wire \in Seq(Messages) /\ fetched \in Seq(Int)
    BY EmptySeq DEF Init
  <2>2. residual \in -(Unit - 1) .. Unit - 1
    BY UnitAssumption DEF Init
  <2>3. applied \in [Trades -> Nat] /\ used \in [Bounds -> Nat]
    BY DEF Init
  <2>4. /\ seen \subseteq Trades /\ rows \subseteq Trades /\ unlogged \subseteq Trades
        /\ truth \in Int /\ position \in Int /\ owed \in Int
        /\ served \in Nat /\ last \in Nat /\ roster \in Nat /\ asked \in Nat
    BY DEF Init
  <2>5. /\ fractional \in BOOLEAN /\ replays \in BOOLEAN /\ resub \in BOOLEAN
        /\ scanning \in BOOLEAN /\ conn = "down" /\ proc = "down"
    BY DEF Init
  <2> QED
    BY <2>1, <2>2, <2>3, <2>4, <2>5 DEF TypeOK
<1>2. Numbered /\ Quiet /\ Fresh /\ Logged /\ AppliedOnce /\ FillsConserved
  BY UnitAssumption, StreamBounds
     DEF Init, Numbered, Quiet, Fresh, Logged, AppliedOnce, FillsConserved, Trades
<1> QED
  BY <1>1, <1>2 DEF StreamInv

\* What a message of the wire is, and what is left when the first is taken off it.
LEMMA WireParts ==
  ASSUME StreamInv, wire # <<>>
  PROVE  /\ Len(wire) \in Nat \ {0} /\ Head(wire) = wire[1]
         /\ Tail(wire) \in Seq(Messages)
         /\ Len(Tail(wire)) = Len(wire) - 1
         /\ \A i \in 1 .. Len(wire) - 1 : Tail(wire)[i] = wire[i + 1]
         /\ wire[1].id \in Trades /\ wire[1].seq \in Nat
<1>1. wire \in Seq(Messages)
  BY DEF StreamInv, TypeOK
<1>2. Len(wire) \in Nat \ {0} /\ Head(wire) = wire[1] /\ wire[1] \in Messages
  BY <1>1, EmptySeq, ElementOfSeq
<1>3. /\ Tail(wire) \in Seq(Messages) /\ Len(Tail(wire)) = Len(wire) - 1
      /\ \A i \in 1 .. Len(Tail(wire)) : Tail(wire)[i] = wire[i + 1]
  BY <1>1, HeadTailProperties
<1> QED
  BY <1>2, <1>3 DEF Messages

\* An action that leaves the books alone and takes messages off the wire, or none.
LEMMA OffTheWire ==
  ASSUME StreamInv,
         UNCHANGED <<kind, market, books, rows, history, proc>>,
         wire' = wire \/ wire' = <<>> \/ (wire # <<>> /\ wire' = Tail(wire)),
         conn' \in {"down", "dialing", "up"}, conn' # "up" => wire' = <<>>,
         served' \in Nat, last' \in Nat, roster' \in Nat, asked' \in Nat,
         resub' \in BOOLEAN, scanning' \in BOOLEAN, fetched' \in Seq(Int),
         proc = "down" => conn' = "down" /\ fetched' = <<>>,
         used' \in [Bounds -> Nat]
  PROVE  StreamInv'
<1>0. wire \in Seq(Messages) /\ Len(wire) \in Nat
  BY LenProperties DEF StreamInv, TypeOK
<1>1. wire' \in Seq(Messages) /\ Len(wire') \in Nat /\ Len(wire') <= Len(wire)
  <2>1. CASE wire' = wire
    BY <2>1, <1>0
  <2>2. CASE wire' = <<>>
    BY <2>2, <1>0, EmptySeq
  <2>3. CASE wire # <<>> /\ wire' = Tail(wire)
    <3>1. /\ Tail(wire) \in Seq(Messages) /\ Len(Tail(wire)) = Len(wire) - 1
          /\ Len(wire) \in Nat \ {0}
      BY <2>3, WireParts
    <3>2. wire' \in Seq(Messages) /\ Len(wire') = Len(wire) - 1
      BY <3>1, <2>3, Zenon
    <3> QED
      BY <3>1, <3>2
  <2> QED
    BY <2>1, <2>2, <2>3
<1>2. PICK k \in 0 .. 1 :
        \A i \in 1 .. Len(wire') : wire'[i] = wire[i + k] /\ i + k \in 1 .. Len(wire)
  <2>1. CASE wire' = wire
    <3>1. \A i \in 1 .. Len(wire') : wire'[i] = wire[i + 0] /\ i + 0 \in 1 .. Len(wire)
      BY <2>1, <1>0
    <3> QED
      BY <3>1
  <2>2. CASE wire' = <<>>
    BY <2>2, EmptySeq
  <2>3. CASE wire # <<>> /\ wire' = Tail(wire)
    <3>1. /\ Len(Tail(wire)) = Len(wire) - 1
          /\ \A i \in 1 .. Len(wire) - 1 : Tail(wire)[i] = wire[i + 1]
      BY <2>3, WireParts
    <3>2. \A i \in 1 .. Len(wire') : wire'[i] = wire[i + 1] /\ i + 1 \in 1 .. Len(wire)
      BY <3>1, <2>3, <1>0
    <3> QED
      BY <3>2
  <2> QED
    BY <2>1, <2>2, <2>3
<1>3. TypeOK'
  BY <1>1 DEF StreamInv, TypeOK, kind, market, books, history
<1>4. Numbered'
  BY <1>1, <1>2 DEF StreamInv, Numbered, kind, market, books, history
<1>5. Quiet'
  BY DEF StreamInv, Quiet
<1>6. Fresh'
  <2> SUFFICES ASSUME ~replays
               PROVE  /\ \A i \in 1 .. Len(wire') : wire'[i].id \notin seen
                      /\ \A i, j \in 1 .. Len(wire') : wire'[i].id = wire'[j].id => i = j
    BY DEF Fresh, kind, books
  <2>1. /\ \A i \in 1 .. Len(wire) : wire[i].id \notin seen
        /\ \A i, j \in 1 .. Len(wire) : wire[i].id = wire[j].id => i = j
    BY DEF StreamInv, Fresh
  <2>2. \A i \in 1 .. Len(wire') : wire'[i].id \notin seen
    BY <2>1, <1>2
  <2>3. ASSUME NEW i \in 1 .. Len(wire'), NEW j \in 1 .. Len(wire'),
               wire'[i].id = wire'[j].id
        PROVE  i = j
    <3>1. i + k = j + k
      BY <2>1, <2>3, <1>2
    <3> QED
      BY <3>1, <1>1
  <2> QED
    BY <2>2, <2>3
<1>7. Logged' /\ AppliedOnce' /\ FillsConserved'
  BY DEF StreamInv, Logged, AppliedOnce, FillsConserved, kind, market, books, history
<1> QED
  BY <1>3, <1>4, <1>5, <1>6, <1>7 DEF StreamInv

LEMMA SpendType ==
  ASSUME NEW what \in Bounds, NEW bound, used \in [Bounds -> Nat], Spend(what, bound)
  PROVE  used' \in [Bounds -> Nat]
BY DEF Spend

\* The actions that lose, skip or only ask.
LEMMA QuietStepsKeep ==
  ASSUME StreamInv,
         \/ LoseMessage \/ Dial \/ DialFails \/ Disconnect \/ Honour \/ SequenceGap
         \/ Promote \/ Spawn \/ PassEnds \/ FetchPosition
  PROVE  StreamInv'
<1> USE DEF StreamInv
<1>0. /\ conn \in {"down", "dialing", "up"} /\ served \in Nat /\ last \in Nat
      /\ roster \in Nat /\ asked \in Nat /\ resub \in BOOLEAN /\ scanning \in BOOLEAN
      /\ fetched \in Seq(Int) /\ used \in [Bounds -> Nat] /\ truth \in Int
      /\ conn # "up" => wire = <<>>
      /\ proc = "down" => conn = "down" /\ fetched = <<>>
  BY DEF TypeOK, Quiet
<1>1. CASE LoseMessage
  <2>1. used' \in [Bounds -> Nat]
    BY <1>1, <1>0, SpendType DEF LoseMessage, Bounds
  <2> QED
    BY <1>1, <1>0, <2>1, OffTheWire
       DEF LoseMessage, kind, market, names, books, history
<1>2. CASE Dial
  <2>1. used' \in [Bounds -> Nat]
    BY <1>2, <1>0, SpendType DEF Dial, Bounds
  <2> QED
    BY <1>2, <1>0, <2>1, OffTheWire DEF Dial, kind, market, names, books, history
<1>3. CASE DialFails
  <2>1. used' \in [Bounds -> Nat]
    BY <1>3, <1>0, SpendType DEF DialFails, Bounds
  <2> QED
    BY <1>3, <1>0, <2>1, OffTheWire
       DEF DialFails, HungUp, kind, market, names, books, history
<1>4. CASE Disconnect
  BY <1>4, <1>0, OffTheWire DEF Disconnect, HungUp, kind, market, names, books, history
<1>5. CASE Honour
  BY <1>5, <1>0, OffTheWire DEF Honour, HungUp, kind, market, names, books, history
<1>6. CASE SequenceGap
  BY <1>6, <1>0, OffTheWire DEF SequenceGap, HungUp, kind, market, names, books, history
<1>7. CASE Promote
  BY <1>7, <1>0, OffTheWire DEF Promote, kind, market, link, names, books, history
<1>8. CASE Spawn
  BY <1>8, <1>0, OffTheWire DEF Spawn, kind, market, link, names, books, history
<1>9. CASE PassEnds
  BY <1>9, <1>0, OffTheWire DEF PassEnds, kind, market, link, names, books, history
<1>10. CASE FetchPosition
  <2>1. fetched' \in Seq(Int) /\ proc = "up"
    BY <1>10, <1>0, TruncBounds DEF FetchPosition
  <2> QED
    BY <1>10, <1>0, <2>1, OffTheWire
       DEF FetchPosition, kind, market, link, names, books, history
<1> QED
  BY <1>1, <1>2, <1>3, <1>4, <1>5, <1>6, <1>7, <1>8, <1>9, <1>10

\* A trade gets the next number, which nobody has seen.
LEMMA TradeKeeps ==
  ASSUME StreamInv, NEW size \in Int, ~fractional => Whole(size), Trade(size)
  PROVE  StreamInv'
<1> DEFINE n == Len(trades) + 1
           msg == Message(served + 1, n)
<1>0. /\ trades \in Seq(Int) /\ wire \in Seq(Messages) /\ served \in Nat
      /\ Len(trades) \in Nat /\ Len(wire) \in Nat /\ n \in Nat
  BY LenProperties DEF StreamInv, TypeOK
<1>1. n \in Trades /\ msg \in Messages /\ msg.id = n
  BY <1>0, StreamBounds DEF Trade, Message, Messages, Trades
<1>2. /\ trades' \in Seq(Int) /\ Len(trades') = n /\ trades'[n] = size
      /\ \A i \in 1 .. Len(trades) : trades'[i] = trades[i]
  BY <1>0, AppendProperties DEF Trade
<1>3. /\ wire' \in Seq(Messages) /\ Len(wire') \in {Len(wire), Len(wire) + 1}
      /\ \A i \in 1 .. Len(wire) : wire'[i] = wire[i]
      /\ Len(wire') = Len(wire) + 1 => wire'[Len(wire) + 1] = msg
      /\ served' \in Nat
      /\ conn = "up" \/ wire' = wire
  <2>1. CASE conn = "up"
    <3>1. wire' = Append(wire, msg) /\ served' = served + 1
      BY <2>1 DEF Trade
    <3> HIDE DEF msg
    <3> QED
      BY <3>1, <2>1, <1>0, <1>1, AppendProperties
  <2>2. CASE conn # "up"
    BY <2>2, <1>0 DEF Trade
  <2> QED
    BY <2>1, <2>2
<1> HIDE DEF msg
<1>4. TypeOK'
  <2>1. truth' \in Int
    BY DEF Trade, StreamInv, TypeOK
  <2> QED
    BY <2>1, <1>2, <1>3
       DEF StreamInv, TypeOK, Trade, kind, names, books, history
<1>5. Numbered'
  <2>1. Len(trades') <= MaxTrades /\ 1 .. Len(trades) \subseteq 1 .. Len(trades')
    BY <1>0, <1>2, StreamBounds DEF Trade
  <2>2. \A i \in 1 .. Len(wire') : wire'[i].id \in 1 .. Len(trades')
    <3> SUFFICES ASSUME NEW i \in 1 .. Len(wire') PROVE wire'[i].id \in 1 .. n
      BY <1>2
    <3>1. CASE i \in 1 .. Len(wire)
      BY <3>1, <1>0, <1>3 DEF StreamInv, Numbered
    <3>2. CASE i \notin 1 .. Len(wire)
      <4>1. wire'[i] = msg
        BY <3>2, <1>0, <1>3
      <4> QED
        BY <4>1, <1>0, <1>1
    <3> QED
      BY <3>1, <3>2
  <2>3. ~fractional => residual = 0 /\ \A id \in 1 .. n : Whole(trades'[id])
    <3>1. \A id \in 1 .. n : id \in 1 .. Len(trades) \/ id = n
      BY <1>0
    <3> QED
      BY <3>1, <1>2 DEF StreamInv, Numbered
  <2> QED
    BY <2>1, <2>2, <2>3, <1>2
       DEF StreamInv, Numbered, Trade, kind, books
<1>6. Quiet'
  BY <1>3 DEF StreamInv, Quiet, Trade
<1>7. Fresh'
  <2> SUFFICES ASSUME ~replays
               PROVE  /\ \A i \in 1 .. Len(wire') : wire'[i].id \notin seen
                      /\ \A i, j \in 1 .. Len(wire') : wire'[i].id = wire'[j].id => i = j
    BY DEF Fresh, Trade, kind, books
  <2>1. /\ \A i \in 1 .. Len(wire) : wire[i].id \notin seen /\ wire[i].id \in 1 .. Len(trades)
        /\ \A i, j \in 1 .. Len(wire) : wire[i].id = wire[j].id => i = j
        /\ seen \subseteq 1 .. Len(trades)
    BY DEF StreamInv, Fresh, Numbered
  <2>2. n \notin 1 .. Len(trades)
    BY <1>0
  <2>3. \A i \in 1 .. Len(wire') :
          \/ i \in 1 .. Len(wire) /\ wire'[i] = wire[i]
          \/ i = Len(wire) + 1 /\ wire'[i] = msg
    BY <1>0, <1>3
  <2> HIDE DEF n
  <2> QED
    BY <2>1, <2>2, <2>3, <1>1
<1>8. Logged' /\ AppliedOnce' /\ FillsConserved'
  BY DEF StreamInv, Logged, AppliedOnce, FillsConserved, Trade, kind, books, history
<1> QED
  BY <1>4, <1>5, <1>6, <1>7, <1>8 DEF StreamInv

\* A subscription that replays nothing starts with an empty wire.
LEMMA ConnectedKeeps ==
  ASSUME StreamInv, NEW k \in 1 .. MaxTrades + 1, k <= Len(trades) + 1, Connected(k)
  PROVE  StreamInv'
<1> DEFINE n == Len(trades) + 1 - k
<1>0. Len(trades) \in Nat /\ k \in Nat \ {0} /\ n \in Nat /\ Len(trades) <= MaxTrades
  BY LenProperties, StreamBounds DEF StreamInv, TypeOK, Numbered
<1>1. \A i \in 1 .. n : k + i - 1 \in 1 .. Len(trades) /\ Message(i, k + i - 1) \in Messages
  BY <1>0, StreamBounds DEF Message, Messages, Trades
<1>2. /\ wire' \in Seq(Messages) /\ Len(wire') = n
      /\ \A i \in 1 .. n : wire'[i].id = k + i - 1
  <2>1. wire' = [i \in 1 .. n |-> Message(i, k + i - 1)]
    BY DEF Connected
  <2> HIDE DEF n
  <2> QED
    BY <2>1, <1>0, <1>1 DEF Message
<1>3. served' = n /\ resub' \in BOOLEAN
  BY DEF Connected, KeepsRequest, StreamInv, TypeOK
<1>4. TypeOK'
  BY <1>0, <1>2, <1>3 DEF StreamInv, TypeOK, Connected, kind, market, names, books, history
<1>5. Numbered'
  BY <1>0, <1>1, <1>2 DEF StreamInv, Numbered, Connected, kind, market, books
<1>6. Quiet'
  BY DEF StreamInv, Quiet, Connected
<1>7. Fresh'
  <2>1. ~replays => n = 0
    BY <1>0 DEF Connected
  <2> QED
    BY <2>1, <1>2 DEF Fresh, Connected, kind
<1>8. Logged' /\ AppliedOnce' /\ FillsConserved'
  BY DEF StreamInv, Logged, AppliedOnce, FillsConserved, Connected, kind, books, history
<1> QED
  BY <1>4, <1>5, <1>6, <1>7, <1>8 DEF StreamInv

\* A new session starts from whole contracts and from the table; nothing is under way.
LEMMA StartKeeps ==
  ASSUME StreamInv, Start
  PROVE  StreamInv'
<1>0. /\ truth \in Int /\ wire = <<>> /\ conn = "down" /\ fetched = <<>> /\ rows \subseteq Trades
      /\ used \in [Bounds -> Nat]
  BY DEF StreamInv, TypeOK, Quiet, Start
<1>1. Trunc(truth) \in Int /\ Unit * Trunc(truth) \in Int
  BY <1>0, TruncBounds
<1>2. used' \in [Bounds -> Nat]
  BY <1>0, SpendType DEF Start, Bounds
<1>3. 0 \in -(Unit - 1) .. Unit - 1
  BY UnitAssumption
<1>4. TypeOK'
  BY <1>0, <1>1, <1>2, <1>3
     DEF StreamInv, TypeOK, Start, KnownTradeIds, kind, market, link
<1>5. Numbered' /\ Quiet' /\ Logged' /\ AppliedOnce'
  BY <1>0 DEF StreamInv, Numbered, Quiet, Logged, AppliedOnce, Start, KnownTradeIds,
              kind, market, link
<1>6. Fresh'
  <2>1. Len(wire') = 0
    BY <1>0, EmptySeq DEF Start, link
  <2> QED
    BY <2>1 DEF Fresh
<1>7. FillsConserved'
  BY <1>1 DEF FillsConserved, Start
<1> QED
  BY <1>4, <1>5, <1>6, <1>7 DEF StreamInv

LEMMA DieKeeps ==
  ASSUME StreamInv, Die
  PROVE  StreamInv'
<1>1. wire' \in Seq(Messages) /\ fetched' \in Seq(Int) /\ Len(wire') = 0
  BY EmptySeq DEF Die, HungUp
<1>2. 0 \in -(Unit - 1) .. Unit - 1
  BY UnitAssumption
<1>3. TypeOK'
  <2>1. /\ position' = 0 /\ residual' = 0 /\ seen' = {} /\ owed' = 0
        /\ served' = 0 /\ last' = 0 /\ asked' = 0 /\ roster' = 0
        /\ conn' = "down" /\ proc' = "down" /\ resub' = FALSE /\ scanning' = FALSE
    BY DEF Die, HungUp
  <2>2. UNCHANGED <<fractional, replays, trades, truth, rows, applied, unlogged, used>>
    BY DEF Die, kind, market
  <2>3. seen' \subseteq Trades /\ residual' \in -(Unit - 1) .. Unit - 1 /\ position' \in Int
    BY <1>2, <2>1
  <2>4. /\ fractional' \in BOOLEAN /\ replays' \in BOOLEAN /\ trades' \in Seq(Int)
        /\ truth' \in Int /\ rows' \subseteq Trades /\ applied' \in [Trades -> Nat]
        /\ unlogged' \subseteq Trades /\ used' \in [Bounds -> Nat]
    BY <2>2 DEF StreamInv, TypeOK
  <2> QED
    BY <1>1, <2>1, <2>3, <2>4 DEF TypeOK
<1>4. Numbered'
  BY <1>1 DEF StreamInv, Numbered, Die, HungUp, kind, market
<1>5. Quiet' /\ Fresh'
  BY <1>1 DEF Quiet, Fresh, Die, HungUp
<1>6. Logged' /\ AppliedOnce' /\ FillsConserved'
  BY DEF StreamInv, Logged, AppliedOnce, FillsConserved, Die
<1> QED
  BY <1>3, <1>4, <1>5, <1>6 DEF StreamInv

\* An adoption moves the position and the ledger by the same contracts.
LEMMA AdoptKeeps ==
  ASSUME StreamInv, AdoptPosition
  PROVE  StreamInv'
<1>0. /\ fetched \in Seq(Int) /\ fetched # <<>> /\ position \in Int /\ owed \in Int
      /\ residual \in Int /\ Unit \in Nat
  BY UnitAssumption DEF StreamInv, TypeOK, AdoptPosition
<1>1. position' \in Int
  <2>1. fetched[1] \in Int
    BY <1>0, EmptySeq, ElementOfSeq
  <2> QED
    BY <1>0, <2>1 DEF AdoptPosition, Adopted
<1>2. /\ owed' \in Int
      /\ Unit * position + residual = owed => Unit * position' + residual = owed'
  <2> DEFINE a == Unit * position
             b == Unit * position'
  <2>1. a \in Int /\ b \in Int /\ Unit * (position' - position) = b - a
    BY <1>0, <1>1
  <2>2. owed' = owed + Unit * (position' - position)
    BY DEF AdoptPosition
  <2> HIDE DEF a, b
  <2>3. owed' = owed + (b - a)
    BY <2>1, <2>2
  <2>4. owed' \in Int /\ (a + residual = owed => b + residual = owed')
    BY <2>1, <2>3, <1>0
  <2> QED
    BY <2>4 DEF a, b
<1>3. fetched' \in Seq(Int)
  BY EmptySeq DEF AdoptPosition
<1>4. TypeOK'
  BY <1>1, <1>2, <1>3 DEF StreamInv, TypeOK, AdoptPosition, kind, market, link, names
<1>5. Numbered' /\ Fresh' /\ Logged' /\ AppliedOnce'
  BY DEF StreamInv, Numbered, Fresh, Logged, AppliedOnce, AdoptPosition, kind, market, link
<1>6. Quiet'
  BY DEF StreamInv, Quiet, AdoptPosition, kind, market, link
<1>7. FillsConserved'
  BY <1>2 DEF StreamInv, FillsConserved, AdoptPosition, kind, market, link
<1> QED
  BY <1>4, <1>5, <1>6, <1>7 DEF StreamInv

\* The message is off the wire, or the wire is hung up.
LEMMA Continues ==
  ASSUME StreamInv, wire # <<>>, Continue(wire[1].seq)
  PROVE  /\ wire' = <<>> \/ wire' = Tail(wire)
         /\ wire' \in Seq(Messages) /\ conn' \in {"down", "up", conn}
         /\ conn' # "up" => wire' = <<>> \/ conn' = conn
         /\ served' \in Nat /\ last' \in Nat /\ asked' \in Nat /\ resub' \in BOOLEAN
         /\ Len(wire') \in Nat /\ Len(wire') < Len(wire)
         /\ \A i \in 1 .. Len(wire') : wire'[i] = wire[i + 1]
<1>1. /\ Len(wire) \in Nat \ {0} /\ Tail(wire) \in Seq(Messages)
      /\ Len(Tail(wire)) = Len(wire) - 1 /\ wire[1].seq \in Nat
      /\ \A i \in 1 .. Len(wire) - 1 : Tail(wire)[i] = wire[i + 1]
  BY WireParts
<1>2. served \in Nat /\ asked \in Nat /\ resub \in BOOLEAN
  BY DEF StreamInv, TypeOK
<1>3. CASE resub
  <2>1. /\ wire' = <<>> /\ conn' = "down" /\ served' = 0 /\ last' = 0 /\ asked' = 0
        /\ resub' = FALSE
    BY <1>3 DEF Continue, HungUp
  <2>2. wire' \in Seq(Messages) /\ Len(wire') = 0
    BY <2>1, EmptySeq
  <2>3. \A i \in 1 .. Len(wire') : wire'[i] = wire[i + 1]
    BY <2>2
  <2>4. conn' \in {"down", "up", conn} /\ (conn' # "up" => wire' = <<>> \/ conn' = conn)
    BY <2>1
  <2>5. Len(wire') \in Nat /\ Len(wire') < Len(wire)
    BY <2>2, <1>1
  <2> QED
    BY <2>1, <2>2, <2>3, <2>4, <2>5
<1>4. CASE ~resub
  <2>1. /\ wire' = Tail(wire) /\ last' = wire[1].seq
        /\ UNCHANGED <<resub, conn, served, asked>>
    BY <1>4 DEF Continue
  <2>2. Len(wire') = Len(wire) - 1 /\ wire' \in Seq(Messages)
    BY <2>1, <1>1, Zenon
  <2>3. \A i \in 1 .. Len(wire) - 1 : wire'[i] = wire[i + 1]
    BY <2>1, <1>1, Zenon
  <2> QED
    BY <2>1, <2>2, <2>3, <1>1, <1>2
<1> QED
  BY <1>3, <1>4

\* A fill moves position and residual by its size, or changes nothing.
LEMMA ReceiveKeeps ==
  ASSUME StreamInv, NEW logs \in BOOLEAN, Receive(logs)
  PROVE  StreamInv'
<1> DEFINE id == wire[1].id
           x == trades[id]
           resid == residual + x
           count == Trunc(resid)
<1>0. /\ wire # <<>> /\ conn = "up" /\ Head(wire) = wire[1]
      /\ residual' = Carry(resid) /\ Dispatch(id, count, logs) /\ Continue(wire[1].seq)
      /\ UNCHANGED <<kind, market, names, proc, fetched>>
  BY WireParts DEF Receive
<1>1. /\ trades \in Seq(Int) /\ Len(trades) \in Nat /\ id \in 1 .. Len(trades) /\ id \in Trades
      /\ x \in Int /\ residual \in Int /\ resid \in Int /\ position \in Int /\ owed \in Int
      /\ 1 \in 1 .. Len(wire) /\ Len(wire) \in Nat
  <2>1. /\ trades \in Seq(Int) /\ residual \in Int /\ position \in Int /\ owed \in Int
        /\ wire \in Seq(Messages)
    BY UnitAssumption DEF StreamInv, TypeOK
  <2>2. 1 \in 1 .. Len(wire) /\ id \in Trades /\ Len(wire) \in Nat /\ Len(trades) \in Nat
    BY <1>0, <2>1, WireParts, LenProperties
  <2>3. id \in 1 .. Len(trades)
    BY <2>2 DEF StreamInv, Numbered
  <2>4. x \in Int
    BY <2>1, <2>3, ElementOfSeq
  <2> QED
    BY <2>1, <2>2, <2>3, <2>4
<1>2. /\ wire' = <<>> \/ wire' = Tail(wire)
      /\ wire' \in Seq(Messages) /\ conn' \in {"down", "up"}
      /\ conn' # "up" => wire' = <<>>
      /\ served' \in Nat /\ last' \in Nat /\ asked' \in Nat /\ resub' \in BOOLEAN
      /\ Len(wire') \in Nat /\ Len(wire') < Len(wire)
      /\ \A i \in 1 .. Len(wire') : wire'[i] = wire[i + 1]
  BY <1>0, Continues
<1>3. proc = "up" /\ proc' = "up"
  BY <1>0 DEF StreamInv, Quiet, TypeOK
<1>4. /\ count \in Int /\ residual' \in -(Unit - 1) .. Unit - 1
      /\ residual' = resid - Unit * count /\ resid = residual + x
  BY <1>0, <1>1, TruncBounds
<1> HIDE DEF id, x, resid, count
<1>5. \/ id \in seen /\ UNCHANGED <<position, seen, rows, applied, unlogged, owed, used>>
      \/ /\ id \notin seen
         /\ position' = position + count
         /\ seen' = IF id \in Anonymous THEN seen ELSE seen \cup {id}
         /\ rows' = IF logs /\ id \notin Anonymous THEN rows \cup {id} ELSE rows
         /\ unlogged' = IF logs THEN unlogged ELSE unlogged \cup {id}
         /\ applied' = [applied EXCEPT ![id] = @ + 1]
         /\ owed' = owed + x
         /\ IF logs THEN UNCHANGED used ELSE Spend("faults", MaxFaults)
  BY <1>0 DEF Dispatch, history, x
<1>6. TypeOK'
  <2>1. used \in [Bounds -> Nat] /\ applied \in [Trades -> Nat]
    BY DEF StreamInv, TypeOK
  <2>2. used' \in [Bounds -> Nat]
    BY <2>1, <1>5, SpendType DEF Bounds
  <2>3. applied' \in [Trades -> Nat]
    BY <2>1, <1>5, <1>1
  <2>4. position' \in Int /\ owed' \in Int
    BY <1>5, <1>4, <1>1
  <2>5. seen' \subseteq Trades /\ rows' \subseteq Trades /\ unlogged' \subseteq Trades
    BY <1>5, <1>1 DEF StreamInv, TypeOK
  <2> QED
    BY <2>2, <2>3, <2>4, <2>5, <1>0, <1>2, <1>4
       DEF StreamInv, TypeOK, kind, market, names
<1>7. Numbered'
  <2>1. seen' \subseteq 1 .. Len(trades) /\ rows' \subseteq 1 .. Len(trades)
    BY <1>5, <1>1 DEF StreamInv, Numbered
  <2>2. ASSUME NEW i \in 1 .. Len(wire')
        PROVE  wire'[i].id \in 1 .. Len(trades)
    <3>1. i + 1 \in 1 .. Len(wire) /\ wire'[i] = wire[i + 1]
      BY <1>1, <1>2
    <3> QED
      BY <3>1 DEF StreamInv, Numbered
  <2>3. ~fractional => residual' = 0
    <3>1. ~fractional => residual = 0 /\ Whole(x)
      BY <1>1 DEF StreamInv, Numbered, x
    <3>2. ~fractional => Carry(residual + x) = 0
      BY <3>1, <1>1, TruncBounds DEF Whole
    <3> QED
      BY <3>2, <1>0 DEF resid
  <2> QED
    BY <2>1, <2>2, <2>3, <1>0 DEF StreamInv, Numbered, kind, market
<1>8. Quiet'
  BY <1>2, <1>3 DEF Quiet
<1>9. Fresh'
  <2> SUFFICES ASSUME ~replays
               PROVE  /\ \A i \in 1 .. Len(wire') : wire'[i].id \notin seen'
                      /\ \A i, j \in 1 .. Len(wire') : wire'[i].id = wire'[j].id => i = j
    BY <1>0 DEF Fresh, kind
  <2>1. /\ \A i \in 1 .. Len(wire) : wire[i].id \notin seen
        /\ \A i, j \in 1 .. Len(wire) : wire[i].id = wire[j].id => i = j
    BY DEF StreamInv, Fresh
  <2>2. ASSUME NEW i \in 1 .. Len(wire')
        PROVE  wire'[i].id \notin seen'
    <3>1. i + 1 \in 1 .. Len(wire) /\ i + 1 # 1 /\ wire'[i] = wire[i + 1]
      BY <1>2, <1>1
    <3>2. wire[i + 1].id # id
      BY <3>1, <2>1, <1>1 DEF id
    <3> QED
      BY <3>1, <3>2, <2>1, <1>5
  <2>3. ASSUME NEW i \in 1 .. Len(wire'), NEW j \in 1 .. Len(wire'),
               wire'[i].id = wire'[j].id
        PROVE  i = j
    <3>1. i + 1 \in 1 .. Len(wire) /\ j + 1 \in 1 .. Len(wire)
      BY <1>2, <1>1
    <3>2. i + 1 = j + 1
      BY <3>1, <2>1, <2>3, <1>2
    <3> QED
      BY <3>2, <1>2
  <2> QED
    BY <2>2, <2>3
<1>10. Logged' /\ AppliedOnce'
  <2>1. rows \subseteq seen
    BY <1>3 DEF StreamInv, Logged
  <2>2. rows' \subseteq seen'
    BY <2>1, <1>5
  <2>3. ASSUME NEW t \in Trades \ (Anonymous \cup unlogged')
        PROVE  applied'[t] <= 1 /\ (applied'[t] > 0 => t \in rows')
    <3>1. /\ applied[t] <= 1 /\ (applied[t] > 0 => t \in rows) /\ applied[t] \in Nat
          /\ applied \in [Trades -> Nat] /\ t \in Trades
      BY <2>3, <1>5 DEF StreamInv, Logged, AppliedOnce, TypeOK
    <3>2. CASE id \notin seen /\ t = id
      <4>1. applied[t] = 0
        BY <3>1, <3>2, <2>1
      <4> QED
        BY <4>1, <3>1, <3>2, <2>3, <1>5
    <3>3. CASE id \in seen \/ t # id
      BY <3>1, <3>3, <1>5
    <3> QED
      BY <3>2, <3>3
  <2> QED
    BY <2>2, <2>3 DEF Logged, AppliedOnce
<1>11. FillsConserved'
  <2> SUFFICES ASSUME ~fractional \/ ~replays
               PROVE  Unit * position' + residual' = owed'
    BY <1>0 DEF FillsConserved, kind
  <2>1. Unit * position + residual = owed
    BY <1>3 DEF StreamInv, FillsConserved
  <2>2. CASE id \notin seen
    <3>1. position' = position + count /\ owed' = owed + x
      BY <2>2, <1>5
    <3> DEFINE before == Unit * position
               moved == Unit * count
               after == Unit * (position + count)
    <3>2. before \in Int /\ moved \in Int /\ after = before + moved
      BY <1>1, <1>4, UnitAssumption
    <3>3. residual' = resid - moved
      BY <1>4
    <3>4. before + residual = owed
      BY <2>1
    <3> HIDE DEF before, moved, after
    <3>5. after + residual' = owed + x
      BY <3>2, <3>3, <3>4, <1>1, <1>4
    <3> QED
      BY <3>1, <3>5 DEF after
  <2>3. CASE id \in seen
    <3>1. replays
      BY <2>3, <1>1 DEF StreamInv, Fresh, id
    <3>2. residual = 0
      BY <3>1 DEF StreamInv, Numbered
    <3>3. residual' = 0
      BY <3>1, <1>7, <1>0 DEF Numbered, kind
    <3> QED
      BY <3>2, <3>3, <2>1, <2>3, <1>5
  <2> QED
    BY <2>2, <2>3
<1> QED
  BY <1>6, <1>7, <1>8, <1>9, <1>10, <1>11 DEF StreamInv

LEMMA StreamStep == StreamInv /\ [Next]_vars => StreamInv'
<1> SUFFICES ASSUME StreamInv, [Next]_vars PROVE StreamInv'
  OBVIOUS
<1>1. ASSUME NEW size \in Occurring, Trade(size) \/ Trade(-size)
      PROVE  StreamInv'
  <2>1. size \in Int /\ -size \in Int /\ (~fractional => Whole(size))
    BY UnitAssumption DEF Occurring
  <2>2. ~fractional => Whole(-size)
    BY <2>1, WholeNegated
  <2> QED
    BY <1>1, <2>1, <2>2, TradeKeeps
<1>2. CASE UNCHANGED vars
  <2> USE <1>2 DEF vars, kind, market, link, names, books, history, StreamInv
  <2>1. TypeOK'
    BY DEF TypeOK
  <2>2. Numbered' /\ Quiet'
    BY DEF Numbered, Quiet
  <2>3. Fresh' /\ Logged' /\ AppliedOnce' /\ FillsConserved'
    BY DEF Fresh, Logged, AppliedOnce, FillsConserved
  <2> QED
    BY <2>1, <2>2, <2>3
<1>3. CASE Exchange
  BY <1>1, <1>3, QuietStepsKeep DEF Exchange
<1>4. CASE Stream
  BY <1>4, QuietStepsKeep, ConnectedKeeps, ReceiveKeeps DEF Stream
<1>5. CASE Process
  BY <1>5, QuietStepsKeep, StartKeeps, DieKeeps, AdoptKeeps DEF Process
<1> QED
  BY <1>2, <1>3, <1>4, <1>5 DEF Next

-----------------------------------------------------------------------------
(* The theorems *)

\* StreamInv holds in every reachable state.
LEMMA StreamInductive == Spec => []StreamInv
BY StreamStarts, StreamStep, PTL DEF Spec

\* Every variable stays in its type; the residual stays under a contract (stream).
THEOREM StreamTypesKept == Spec => []TypeOK
BY StreamInductive, PTL DEF StreamInv

\* No trade with an id and a row is applied twice, in one session or over many
\* (FillDispatcher, known_trade_ids).
THEOREM NeverAppliedTwice == Spec => []AppliedOnce
BY StreamInductive, PTL DEF StreamInv

\* Position and residual hold what was seeded, adopted and applied, when trades are
\* whole contracts or nothing is sent twice (stream).
THEOREM ContractsConserved == Spec => []FillsConserved
BY StreamInductive, PTL DEF StreamInv
=============================================================================
