------------------------------ MODULE JoinTouch ------------------------------
(***************************************************************************)
(* The local order book of one market and the join-the-touch policy that   *)
(* reads it: a book kept from a snapshot and deltas that arrive late, its  *)
(* best levels cached, and quotes that join the best price others quote.   *)
(*                                                                         *)
(* Both sides are books of bids, as at Kalshi: a YES ask at a rests as a   *)
(* NO bid at 1 - a.  Prices are ticks, one dollar is Dollar of them.  An   *)
(* order is one contract, and so is what others quote at a level.  Calls   *)
(* take effect when they are answered.                                     *)
(***************************************************************************)
EXTENDS Integers, Sequences

CONSTANTS
  Dollar,
  Levels,   \* the prices in use
  Cap,      \* max_contracts_per_market
  MaxLoss,  \* join_max_loss_per_market, in ticks
  Tilt,     \* join_tilt_threshold
  MaxLag    \* bound: deltas on the way; one more is for the worker's orders

ASSUME TouchAssumption ==
  /\ Dollar \in Nat /\ Levels \subseteq 1..(Dollar - 1)
  /\ Cap \in Nat \ {0} /\ MaxLoss \in Nat \ {0} /\ Tilt \in Nat /\ MaxLag \in Nat \ {0}

Sides == {"yes", "no"}

VARIABLES
  \* Kalshi
  others,     \* contracts of others at each level of each side
  mine,       \* price of the worker's order on each side, 0: none
  \* the stream
  connected,
  deltas,     \* orderbook_delta messages on the way
  late,       \* a fill on the way
  \* the process
  book,       \* OrderBook: quantities and the cached best level of each side
  position,
  ref,        \* price of bid_order and ask_order, 0: None
  cycle       \* where _requote is, and the prices it decided on

exchange == <<others, mine>>
stream   == <<connected, deltas>>
vars == <<exchange, stream, late, book, position, ref, cycle>>

Other(s)    == IF s = "yes" THEN "no" ELSE "yes"
Sign(s)     == IF s = "yes" THEN 1 ELSE -1
Lower(a, b) == IF a < b THEN a ELSE b
Best(ps)    == IF ps = {} THEN 0 ELSE CHOOSE p \in ps : \A r \in ps : r <= p
Only(s, p, q) == IF s = p THEN q ELSE 0
NoPrices    == [s \in Sides |-> 0]
Idle        == [pc |-> "idle", side |-> "yes", want |-> NoPrices]

-----------------------------------------------------------------------------
(* The book.                                                               *)

NoLevels == [p \in Levels |-> 0]
NoBook   == [qty |-> NoLevels, best |-> 0]

\* apply_snapshot
Snapshot(qty) == [qty |-> qty, best |-> Best({p \in Levels : qty[p] > 0})]

\* Seeded bug: the best level is not looked for again when it goes.
AppliedNoRescan(b, p, by) ==
  LET n == b.qty[p] + by
  IN  [qty  |-> [b.qty EXCEPT ![p] = IF n <= 0 THEN 0 ELSE n],
       best |-> IF n > 0 /\ p > b.best THEN p ELSE b.best]

\* Seeded bug: the message is taken for the level's new quantity.
AppliedAsQuantity(b, p, by) ==
  [qty  |-> [b.qty EXCEPT ![p] = IF by <= 0 THEN 0 ELSE by],
   best |-> Best({r \in Levels : (IF r = p THEN by ELSE b.qty[r]) > 0})]

\* apply_delta: a level that empties goes, and the best is sought again only if it
\* was the one.
Applied(b, p, by) ==
  LET n   == b.qty[p] + by
      qty == [b.qty EXCEPT ![p] = IF n <= 0 THEN 0 ELSE n]
  IN  [qty  |-> qty,
       best |-> IF n > 0 THEN (IF p > b.best THEN p ELSE b.best)
                ELSE IF p = b.best THEN Best({r \in Levels : qty[r] > 0})
                ELSE b.best]

Init ==
  /\ others = [s \in Sides |-> NoLevels] /\ mine = NoPrices
  /\ connected = FALSE /\ deltas = <<>>
  /\ late = [s \in Sides |-> FALSE]
  /\ book = [s \in Sides |-> NoBook]
  /\ position = 0 /\ ref = NoPrices /\ cycle = Idle

-----------------------------------------------------------------------------
(* The exchange and the stream.                                            *)

Truth(s)   == [p \in Levels |-> others[s][p] + Only(p, mine[s], 1)]
Touch(s)   == Best({p \in Levels : others[s][p] > 0})
Crosses(s, p) == p + Best({r \in Levels : Truth(Other(s))[r] > 0}) >= Dollar

\* A change of a level is told to a connected stream.
Told(s, p, by, most) ==
  IF connected
  THEN /\ Len(deltas) < most
       /\ deltas' = Append(deltas, [side |-> s, price |-> p, by |-> by])
       /\ UNCHANGED connected
  ELSE UNCHANGED stream

OthersJoin(s, p) ==
  /\ others[s][p] = 0 /\ ~Crosses(s, p)
  /\ others' = [others EXCEPT ![s][p] = 1] /\ Told(s, p, 1, MaxLag)
  /\ UNCHANGED <<mine, late, book, position, ref, cycle>>

OthersLeave(s, p) ==
  /\ others[s][p] = 1
  /\ others' = [others EXCEPT ![s][p] = 0] /\ Told(s, p, -1, MaxLag)
  /\ UNCHANGED <<mine, late, book, position, ref, cycle>>

\* The worker's order fills; the stream carries its fill and its delta separately.
Take(s) ==
  /\ mine[s] # 0 /\ mine[s] >= Touch(s) /\ ~late[s]
  /\ mine' = [mine EXCEPT ![s] = 0] /\ Told(s, mine[s], -1, MaxLag)
  /\ late' = [late EXCEPT ![s] = TRUE]
  /\ UNCHANGED <<others, book, position, ref, cycle>>

\* order_ttl_seconds
Expire(s) ==
  /\ mine[s] # 0
  /\ mine' = [mine EXCEPT ![s] = 0] /\ Told(s, mine[s], -1, MaxLag)
  /\ UNCHANGED <<others, late, book, position, ref, cycle>>

Deliver ==
  /\ deltas # <<>>
  /\ LET m == Head(deltas)
     IN  book' = [book EXCEPT ![m.side] = Applied(@, m.price, m.by)]
  /\ deltas' = Tail(deltas)
  /\ UNCHANGED <<exchange, connected, late, position, ref, cycle>>

\* The stream starts over with empty books; what was on the way is lost.
Disconnect ==
  /\ connected /\ connected' = FALSE /\ deltas' = <<>>
  /\ book' = [s \in Sides |-> NoBook]
  /\ UNCHANGED <<exchange, late, position, ref, cycle>>

Connect ==
  /\ ~connected /\ connected' = TRUE
  /\ book' = [s \in Sides |-> Snapshot(Truth(s))]
  /\ UNCHANGED <<exchange, deltas, late, position, ref, cycle>>

\* on_fill and order_filled.  (A fill the stream missed is heard of later too.)
Heard(s) ==
  /\ late[s] /\ late' = [late EXCEPT ![s] = FALSE]
  /\ position' = position + Sign(s)
  /\ ref' = [ref EXCEPT ![s] = 0]
  /\ UNCHANGED <<exchange, stream, book, cycle>>

-----------------------------------------------------------------------------
(* The worker.                                                             *)

\* Seeded bug: the worker's own order counts as a price to join.
BestRaw(s) == Best({p \in Levels : book[s].qty[p] > 0})

\* _best_excluding
BestExcluding(s) == Best({p \in Levels : book[s].qty[p] - Only(p, ref[s], 1) > 0})

\* The tilt: no order that would sell the favorite or buy the longshot.
Tilted(p) == p <= Dollar - Tilt

\* What the cap leaves on a side, the cap shaped by what a contract can lose there.
Room(s, p) == Lower(Cap, MaxLoss \div p) - Sign(s) * position

\* Seeded bug: one side that cannot be quoted keeps the other from being quoted.
QuotesBothOrNone ==
  LET touch == [s \in Sides |-> BestExcluding(s)]
      fails(s) == touch[s] = 0 \/ Tilted(touch[s]) \/ Room(s, touch[s]) <= 0
  IN  IF (\E s \in Sides : fails(s)) \/ touch["yes"] + touch["no"] >= Dollar
      THEN NoPrices ELSE touch

\* join_touch_quotes: the touch without the worker's own orders, nothing on a
\* crossed or locked book.
Quotes ==
  LET touch == [s \in Sides |-> BestExcluding(s)]
      crossed == /\ \A s \in Sides : touch[s] # 0
                 /\ touch["yes"] + touch["no"] >= Dollar
  IN  [s \in Sides |->
         IF crossed \/ touch[s] = 0 \/ Tilted(touch[s]) \/ Room(s, touch[s]) <= 0
         THEN 0 ELSE touch[s]]

\* Nothing is decided while the book has no mid.
TwoSided == \A s \in Sides : book[s].best # 0

Decide ==
  /\ cycle.pc = "idle" /\ TwoSided
  /\ cycle' = [pc |-> "turn", side |-> "yes", want |-> Quotes]
  /\ UNCHANGED <<exchange, stream, late, book, position, ref>>

Past(s) ==
  IF s = "yes" THEN [cycle EXCEPT !.pc = "turn", !.side = "no", !.want["yes"] = 0] ELSE Idle

Placing(s) == IF cycle.want[s] = 0 THEN Past(s) ELSE [cycle EXCEPT !.pc = "create"]

\* _reconcile: an order at the price wanted is kept while it is fresh.
Turn(s) ==
  /\ cycle.pc = "turn" /\ cycle.side = s
  /\ \/ ref[s] = 0 /\ cycle' = Placing(s)
     \/ ref[s] # 0 /\ ref[s] = cycle.want[s] /\ cycle' = Past(s)
     \/ ref[s] # 0 /\ cycle' = [cycle EXCEPT !.pc = "cancel"]
  /\ UNCHANGED <<exchange, stream, late, book, position, ref>>

\* The fill of the order is heard of first.  (OrderLifecycle and Requote have those
\* that come later.)
CancelAnswered(s) ==
  /\ cycle.pc = "cancel" /\ cycle.side = s /\ ~late[s]
  /\ IF mine[s] # 0 THEN Told(s, mine[s], -1, MaxLag + 1) ELSE UNCHANGED stream
  /\ mine' = [mine EXCEPT ![s] = 0]
  /\ ref' = [ref EXCEPT ![s] = 0]
  /\ cycle' = Placing(s)
  /\ UNCHANGED <<others, late, book, position>>

\* A post-only order that would trade is refused.
CreateAnswered(s) ==
  /\ cycle.pc = "create" /\ cycle.side = s
  /\ LET p == cycle.want[s]
     IN  IF Crosses(s, p)
         THEN UNCHANGED <<mine, ref, stream>>
         ELSE /\ mine' = [mine EXCEPT ![s] = p] /\ ref' = [ref EXCEPT ![s] = p]
              /\ Told(s, p, 1, MaxLag + 1)
  /\ cycle' = Past(s)
  /\ UNCHANGED <<others, late, book, position>>

Works(s) == Turn(s) \/ CancelAnswered(s) \/ CreateAnswered(s)

Next ==
  \/ \E s \in Sides, p \in Levels : OthersJoin(s, p) \/ OthersLeave(s, p)
  \/ \E s \in Sides : Take(s) \/ Expire(s) \/ Heard(s)
  \/ Deliver \/ Disconnect \/ Connect
  \/ Decide
  \/ \E s \in Sides : Works(s)

Spec == Init /\ [][Next]_vars

\* The stream delivers and reconnects, and the worker, woken by every book change and
\* every minute, goes round.  Nothing is assumed of the market or of expiry.
FairSpec ==
  /\ Spec
  /\ WF_vars(Deliver \/ Connect) /\ WF_vars(\E s \in Sides : Heard(s))
  /\ WF_vars(Decide \/ \E s \in Sides : Works(s))

-----------------------------------------------------------------------------
Prices == [Sides -> Levels \union {0}]

TypeOK ==
  /\ others \in [Sides -> [Levels -> 0..1]] /\ mine \in Prices /\ ref \in Prices
  /\ connected \in BOOLEAN /\ Len(deltas) <= MaxLag + 1
  /\ deltas \in Seq([side : Sides, price : Levels, by : {1, -1}])
  /\ late \in [Sides -> BOOLEAN]
  /\ book \in [Sides -> [qty : [Levels -> 0..2], best : Levels \union {0}]]
  /\ position \in Int
  /\ cycle \in [pc : {"idle", "turn", "cancel", "create"}, side : Sides, want : Prices]

\* The cached best level is the one a scan of the book would find, after whatever
\* snapshots and deltas.
BestExact ==
  \A s \in Sides : book[s].best = Best({p \in Levels : book[s].qty[p] > 0})

\* A book that has been told everything is the exchange's.
CaughtUp ==
  connected /\ deltas = <<>> => \A s \in Sides : book[s].qty = Truth(s)

\* JOIN, never lead (join_touch.py): decided on a book that has been told everything, a
\* quote is at the best price others quote, as long as the order the worker excludes is
\* the one that rests; with an order it has not heard the end of, it is at most there.
NeverLeads ==
  [][connected /\ deltas = <<>> /\ cycle.pc = "idle" /\ cycle'.pc = "turn" =>
       \A s \in Sides : /\ cycle'.want[s] <= Touch(s)
                        /\ ref[s] = mine[s] => cycle'.want[s] \in {0, Touch(s)}]_vars

\* The worker's order is the only one at its level, and there is a mid to decide on.
Alone(s) == mine[s] # 0 /\ others[s][mine[s]] = 0 /\ TwoSided

\* It joins the touch, never leads: an order left alone, or placed where only its own
\* predecessor was still shown, does not stay there.
AloneIsBrief == \A s \in Sides : Alone(s) ~> ~Alone(s)

\* Others quote p as their best on a side the worker may quote.
Joinable(s, p) == Touch(s) = p /\ ~Tilted(p) /\ Room(s, p) > 0 /\ TwoSided

\* A touch that stays is joined, whatever was resting or on the way, once the worker
\* is not filled all the time.  (A fill heard of before its delta leaves the filled
\* order in the book as if it were another's, and the worker joins that.)
JoinsTouch ==
  <>[][~\E s \in Sides : Take(s)]_vars =>
    \A s \in Sides, p \in Levels : Joinable(s, p) ~> (mine[s] = p \/ ~Joinable(s, p))
=============================================================================
