------------------------------ MODULE FillStream ------------------------------
(***************************************************************************)
(* How the contracts of one market reach the position: the websocket loop  *)
(* of KalshiExchange.stream (dial, sequence gaps, resubscribes, the        *)
(* fractional residual), FillDispatcher with its set of trade ids, the     *)
(* fills table, the seeding at start and the adoption of the exchange's    *)
(* position by the reconcile task.  The connection, the process and single *)
(* messages may be lost at any time.                                       *)
(*                                                                         *)
(* Contracts are counted in sub-units, Unit of them to a contract.  Trades *)
(* are numbered in the order they happen; the number is the trade_id.      *)
(***************************************************************************)
EXTENDS Integers, Sequences

CONSTANTS
  Unit,       \* sub-units in a contract
  Sizes,      \* the trade sizes considered, in sub-units
  Anonymous,  \* trades whose message carries no trade_id
  CalmAdoption, \* TRUE: nothing trades, or is under way, while an adoption is made
  MaxTrades,  \* bound: trades
  MaxRoster,  \* bound: tickers the process ever wants to hear of
  MaxDials,   \* bound: connection attempts
  MaxStarts,  \* bound: starts of the process
  MaxFaults   \* bound: lost messages, failed dials and failed inserts

ASSUME UnitAssumption == Unit \in Nat \ {0} /\ Sizes \subseteq Nat \ {0}
ASSUME StreamBounds ==
  /\ CalmAdoption \in BOOLEAN /\ MaxTrades \in Nat /\ MaxRoster \in Nat /\ MaxDials \in Nat
  /\ MaxStarts \in Nat /\ MaxFaults \in Nat

VARIABLES
  \* what Kalshi does, fixed for a behaviour
  fractional, \* trades need not be whole contracts
  replays,    \* a new subscription begins with recent fills over again
  \* the exchange
  trades,     \* sizes of the trades so far
  truth,      \* the account's position, in sub-units
  \* the connection
  conn,       \* "down", "dialing" (get_tickers read, ws_connect awaited), "up"
  wire,       \* the fill messages on the socket, with their seq
  served,     \* seq of the last message sent on this connection
  last,       \* seqs[sid]: seq of the last message received, 0 if none
  roster,     \* how many tickers get_tickers() returns now
  asked,      \* how many it returned for this connection
  resub,      \* _resubscribe
  scanning,   \* discovery_loop has spawned windows in a pass that is not over
  \* the process
  proc,       \* "up" or "down"
  position,   \* MarketState.position
  residual,   \* _fill_residual of the ticker
  seen,       \* FillDispatcher.seen
  fetched,    \* the positions answer reconcile_pass holds: <<>> or <<position>>
  \* the disk
  rows,       \* trade ids in the fills table
  \* history and bounds
  applied,    \* how often each trade was applied to a position, over all sessions
  unlogged,   \* trades whose insert failed
  owed,       \* what position and residual ought to hold, in sub-units
  used

kind    == <<fractional, replays>>
market  == <<trades, truth>>
link    == <<conn, wire, served, last, asked>>
names   == <<roster, scanning>>
books   == <<position, residual, seen>>
history == <<applied, unlogged, owed>>
vars    == <<kind, market, link, names, resub, proc, books, fetched, rows, history, used>>

Trades  == 1 .. MaxTrades
Bounds  == {"dials", "starts", "faults"}
Spend(what, bound) == used[what] < bound /\ used' = [used EXCEPT ![what] = @ + 1]

\* int(): towards zero, in whole contracts
Trunc(x) == IF x >= 0 THEN x \div Unit ELSE -((-x) \div Unit)

Whole(x) == Unit * Trunc(x) = x
Occurring == {x \in Sizes : fractional \/ Whole(x)}

Message(seq, id) == [seq |-> seq, id |-> id]

Init ==
  /\ fractional \in BOOLEAN /\ replays \in BOOLEAN /\ (fractional \/ replays)
  /\ trades = <<>> /\ truth = 0
  /\ conn = "down" /\ wire = <<>> /\ served = 0 /\ last = 0
  /\ roster = 0 /\ asked = 0 /\ resub = FALSE /\ scanning = FALSE
  /\ proc = "down" /\ position = 0 /\ residual = 0 /\ seen = {} /\ fetched = <<>>
  /\ rows = {}
  /\ applied = [id \in Trades |-> 0] /\ unlogged = {} /\ owed = 0
  /\ used = [what \in Bounds |-> 0]

-----------------------------------------------------------------------------
(* The exchange *)

\* A trade is sent to the connection there is; without one nobody hears of it.
Trade(size) ==
  /\ Len(trades) < MaxTrades /\ (CalmAdoption => fetched = <<>>)
  /\ trades' = Append(trades, size) /\ truth' = truth + size
  /\ IF conn = "up"
     THEN served' = served + 1 /\ wire' = Append(wire, Message(served + 1, Len(trades) + 1))
     ELSE UNCHANGED <<served, wire>>
  /\ UNCHANGED <<kind, conn, last, asked, names, resub, proc, books, fetched, rows, history, used>>

\* The next message never arrives.
LoseMessage ==
  /\ wire # <<>>
  /\ Spend("faults", MaxFaults)
  /\ wire' = Tail(wire)
  /\ UNCHANGED <<kind, market, conn, served, last, asked, names, resub, proc, books, fetched,
                 rows, history>>

-----------------------------------------------------------------------------
(* KalshiExchange.stream *)

HungUp == conn' = "down" /\ wire' = <<>> /\ served' = 0 /\ last' = 0 /\ asked' = 0

\* get_tickers() is read, then the connection awaited.
Dial ==
  /\ proc = "up" /\ conn = "down"
  /\ Spend("dials", MaxDials)
  /\ conn' = "dialing" /\ asked' = roster
  /\ UNCHANGED <<kind, market, wire, served, last, names, resub, proc, books, fetched, rows,
                 history>>

\* Seeded bug: the request is forgotten once there is a connection.
ForgetsRequest == FALSE
KeepsRequest == resub

\* The subscription is confirmed; the fills from the k-th on are sent again.
Connected(k) ==
  /\ conn = "dialing"
  /\ replays \/ k = Len(trades) + 1
  /\ conn' = "up" /\ last' = 0
  /\ served' = Len(trades) + 1 - k
  /\ wire' = [i \in 1 .. Len(trades) + 1 - k |-> Message(i, k + i - 1)]
  /\ resub' = KeepsRequest
  /\ UNCHANGED <<kind, market, asked, names, proc, books, fetched, rows, history, used>>

DialFails ==
  /\ conn = "dialing"
  /\ Spend("faults", MaxFaults)
  /\ HungUp
  /\ UNCHANGED <<kind, market, names, resub, proc, books, fetched, rows, history>>

\* The socket is closed or times out: what it still carries is lost.
Disconnect ==
  /\ conn = "up"
  /\ HungUp
  /\ UNCHANGED <<kind, market, names, resub, proc, books, fetched, rows, history, used>>

\* A request is honoured after any message, and after a receive timeout.
Honour ==
  /\ conn = "up" /\ resub
  /\ resub' = FALSE /\ HungUp
  /\ UNCHANGED <<kind, market, names, proc, books, fetched, rows, history, used>>

\* The loop goes on to the next message, or honours a request.
Continue(seq) ==
  IF resub THEN resub' = FALSE /\ HungUp
  ELSE /\ last' = seq /\ wire' = Tail(wire)
       /\ UNCHANGED <<resub, conn, served, asked>>

InSequence(seq) == last = 0 \/ seq = last + 1

SequenceGap ==
  /\ conn = "up" /\ wire # <<>> /\ ~InSequence(Head(wire).seq)
  /\ HungUp
  /\ UNCHANGED <<kind, market, names, resub, proc, books, fetched, rows, history, used>>

\* FillDispatcher.__call__; the insert may fail.
Dispatch(id, count, logs) ==
  IF id \in seen
  THEN UNCHANGED <<position, seen, rows, history, used>>
  ELSE /\ position' = position + count
       /\ seen' = IF id \in Anonymous THEN seen ELSE seen \cup {id}
       /\ rows' = IF logs /\ id \notin Anonymous THEN rows \cup {id} ELSE rows
       /\ unlogged' = IF logs THEN unlogged ELSE unlogged \cup {id}
       /\ applied' = [applied EXCEPT ![id] = @ + 1]
       /\ owed' = owed + trades[id]
       /\ IF logs THEN UNCHANGED used ELSE Spend("faults", MaxFaults)

\* Seeded bug: what is left over is forgotten.
CarriesNothing(resid) == 0

\* The residue after the whole contracts of resid are emitted.
Carry(resid) == resid - Unit * Trunc(resid)

\* A fill message: the residual is settled before the dispatcher sees the trade_id.
Receive(logs) ==
  /\ conn = "up" /\ wire # <<>> /\ InSequence(Head(wire).seq)
  /\ LET id == Head(wire).id
         resid == residual + trades[id]
     IN  /\ residual' = Carry(resid)
         /\ Dispatch(id, Trunc(resid), logs)
  /\ Continue(Head(wire).seq)
  /\ UNCHANGED <<kind, market, names, proc, fetched>>

-----------------------------------------------------------------------------
(* The process around it *)

\* Seeded bug: the set starts empty.
SeesNothing == {}

KnownTradeIds == rows

\* cmd_trade: seed the position the exchange reports, build the dispatcher.  The
\* stream waits for a first ticker.
Start ==
  /\ proc = "down"
  /\ Spend("starts", MaxStarts)
  /\ proc' = "up"
  /\ position' = Trunc(truth) /\ residual' = 0 /\ seen' = KnownTradeIds
  /\ owed' = Unit * Trunc(truth)
  /\ roster' = 1
  /\ UNCHANGED <<kind, market, link, scanning, resub, fetched, rows, applied, unlogged>>

\* The process ends or dies; its orders may go on trading.
Die ==
  /\ proc = "up"
  /\ proc' = "down" /\ HungUp
  /\ roster' = 0 /\ scanning' = FALSE /\ resub' = FALSE
  /\ position' = 0 /\ residual' = 0 /\ seen' = {} /\ fetched' = <<>> /\ owed' = 0
  /\ UNCHANGED <<kind, market, rows, applied, unlogged, used>>

\* The bench promotes a market: it joins the workers and asks for it in one go.
Promote ==
  /\ proc = "up" /\ roster < MaxRoster
  /\ roster' = roster + 1 /\ resub' = TRUE
  /\ UNCHANGED <<kind, market, link, scanning, proc, books, fetched, rows, history, used>>

\* discovery_loop: a window is spawned, further series are awaited ...
Spawn ==
  /\ proc = "up" /\ roster < MaxRoster
  /\ roster' = roster + 1 /\ scanning' = TRUE
  /\ UNCHANGED <<kind, market, link, resub, proc, books, fetched, rows, history, used>>

\* ... and the resubscribe is asked for at the end of the pass.
PassEnds ==
  /\ scanning
  /\ scanning' = FALSE /\ resub' = TRUE
  /\ UNCHANGED <<kind, market, link, roster, proc, books, fetched, rows, history, used>>

\* reconcile_pass: the positions endpoint answers ...
FetchPosition ==
  /\ proc = "up" /\ fetched = <<>> /\ (CalmAdoption => wire = <<>>)
  /\ fetched' = <<Trunc(truth)>>
  /\ UNCHANGED <<kind, market, link, names, resub, proc, books, rows, history, used>>

\* Seeded bug: only a position that is absent locally is taken over.
AdoptedIfFlat(pos) == IF position = 0 THEN pos ELSE position

Adopted(pos) == IF pos = position THEN position ELSE pos

\* ... and a difference is adopted.
AdoptPosition ==
  /\ fetched # <<>>
  /\ position' = Adopted(fetched[1])
  /\ owed' = owed + Unit * (position' - position)
  /\ fetched' = <<>>
  /\ UNCHANGED <<kind, market, link, names, resub, proc, residual, seen, rows, applied,
                 unlogged, used>>

-----------------------------------------------------------------------------
Exchange == LoseMessage \/ \E size \in Occurring : Trade(size) \/ Trade(-size)

Stream ==
  \/ Dial \/ DialFails \/ Disconnect \/ Honour \/ SequenceGap
  \/ \E k \in 1 .. MaxTrades + 1 : k <= Len(trades) + 1 /\ Connected(k)
  \/ \E logs \in BOOLEAN : Receive(logs)

Process ==
  \/ Start \/ Die \/ Promote \/ Spawn \/ PassEnds \/ FetchPosition \/ AdoptPosition

Next == Exchange \/ Stream \/ Process

Spec == Init /\ [][Next]_vars

\* Fairness: while the process is up its loops run - the stream dials, receives and
\* honours (a receive times out), discovery ends its passes, the reconcile task is on
\* a timer - and a dial that is not refused is answered.
FairSpec ==
  /\ Spec
  /\ WF_vars(Dial) /\ WF_vars(\E k \in 1 .. MaxTrades + 1 : k <= Len(trades) + 1 /\ Connected(k))
  /\ WF_vars(Receive(TRUE) \/ SequenceGap)
  /\ WF_vars(Honour) /\ WF_vars(PassEnds)
  /\ WF_vars(FetchPosition) /\ WF_vars(AdoptPosition)

-----------------------------------------------------------------------------
(* Properties *)

Messages == [seq : Nat, id : Trades]
TypeOK ==
  /\ fractional \in BOOLEAN /\ replays \in BOOLEAN
  /\ trades \in Seq(Int) /\ truth \in Int
  /\ conn \in {"down", "dialing", "up"}
  /\ wire \in Seq(Messages) /\ served \in Nat /\ last \in Nat
  /\ roster \in Nat /\ asked \in Nat /\ resub \in BOOLEAN /\ scanning \in BOOLEAN
  /\ proc \in {"up", "down"} /\ position \in Int
  /\ residual \in -(Unit - 1) .. Unit - 1
  /\ seen \subseteq Trades /\ fetched \in Seq(Int) /\ rows \subseteq Trades
  /\ applied \in [Trades -> Nat] /\ unlogged \subseteq Trades /\ owed \in Int
  /\ used \in [Bounds -> Nat]

\* "a seen-set seeded from the fills table at startup drops redeliveries"
\* (FillDispatcher): whatever is sent again, on however many connections and in
\* however many sessions, a trade with an id whose row was written is applied once.
AppliedOnce ==
  \A id \in Trades \ (Anonymous \cup unlogged) : applied[id] <= 1

\* No fraction is lost or made: the position and the residual together hold the
\* trades applied, on top of what was seeded or adopted.  It needs whole contracts,
\* or a Kalshi that sends nothing twice.
FillsConserved ==
  proc = "up" /\ (~fractional \/ ~replays) =>
    Unit * position + residual = owed

\* A ticker that joins the roster is subscribed, on a silent book too, and when it
\* joins while a connection is being made (request_resubscribe).
RosterSubscribed ==
  \A n \in 1 .. MaxRoster :
    (proc = "up" /\ roster = n)
      ~> \/ asked >= n \/ proc = "down"
         \/ conn = "down" /\ used["dials"] = MaxDials

\* Lost, skipped, repeated and truncated fills do not leave the position wrong for
\* good: in the end it is the exchange's, in whole contracts.
PositionConverges == <>[](position = Trunc(truth) \/ proc = "down")

-----------------------------------------------------------------------------
(* The inductive invariant behind AppliedOnce and FillsConserved. *)

\* Trades are known by their number, and sized as this Kalshi sizes them.
Numbered ==
  /\ Len(trades) <= MaxTrades
  /\ seen \subseteq 1 .. Len(trades) /\ rows \subseteq 1 .. Len(trades)
  /\ \A i \in 1 .. Len(wire) : wire[i].id \in 1 .. Len(trades)
  /\ ~fractional => residual = 0 /\ \A id \in 1 .. Len(trades) : Whole(trades[id])

\* Nothing is on a socket that is not up, and none is without a process.
Quiet ==
  /\ conn # "up" => wire = <<>>
  /\ proc = "down" => conn = "down" /\ fetched = <<>>

\* A Kalshi that sends nothing twice sends what the dispatcher has not seen.
Fresh ==
  ~replays =>
    /\ \A i \in 1 .. Len(wire) : wire[i].id \notin seen
    /\ \A i, j \in 1 .. Len(wire) : wire[i].id = wire[j].id => i = j

\* What was applied under its id is in the table, and what is in the table is seen.
Logged ==
  /\ proc = "up" => rows \subseteq seen
  /\ \A id \in Trades \ (Anonymous \cup unlogged) : applied[id] > 0 => id \in rows

StreamInv ==
  TypeOK /\ Numbered /\ Quiet /\ Fresh /\ Logged /\ AppliedOnce /\ FillsConserved

-----------------------------------------------------------------------------
(* What the comments promise and the code does not keep. *)

\* "tracked drift is now bounded < 1 contract per market" (stream): when every
\* trade has been handled, and none was sent twice, the position is within a
\* contract of the account's.
DriftBounded ==
  proc = "up" /\ ~replays /\ seen = 1 .. Len(trades) =>
    truth - Unit * position \in -(Unit - 1) .. Unit - 1
=============================================================================
