------------------------------- MODULE Requote -------------------------------
(***************************************************************************)
(* What a worker decides in _requote and what becomes of it: the sizes it  *)
(* wants on either side, shaped by pulls, cool-offs and wind-down, carried *)
(* out order by order while fills come in.                                 *)
(*                                                                         *)
(* Prices are abstract: a side may have none, and an order may have to be  *)
(* replaced at any time.  A book with one side has no mid, and a cycle     *)
(* then ends before anything else.  Calls are answered here: a create is   *)
(* served or refused (for a pause of the market, too), a cancel takes what *)
(* is left off the book.  What a failed call leaves behind is              *)
(* OrderLifecycle's, and a halt, after which no cycle runs, Session's.     *)
(***************************************************************************)
EXTENDS Integers

CONSTANTS
  QuoteSize,
  Cap,        \* max_contracts_per_market
  Alert,      \* winddown_alert_seconds
  MaxUnheard  \* bound: fills on the way

ASSUME RequoteAssumption ==
  /\ QuoteSize \in Nat \ {0} /\ Cap \in Nat \ {0}
  /\ Alert \in Nat \ {0} /\ MaxUnheard \in Nat

Sides == {"bid", "ask"}

VARIABLES
  \* Kalshi
  rests,     \* contracts of the worker's order on each side
  held,      \* the account's position
  late,      \* fills on the way, of the order the worker tracks or is creating
  old,       \* fills on the way, of an order it tracked before
  \* the process
  position,  \* MarketState.position
  ref,       \* contracts of bid_order and ask_order, 0: None
  registry,  \* RiskManager.resting
  role,      \* quotes, winds (reduce_only), reaped, evicted
  blocked,   \* guard.blocked()
  pulled,    \* flow gate, spot or calendar pull, sweep cool-off
  paused,    \* pause_suspected
  sided,     \* the book has a mid
  cycle,     \* where _requote is
  wind       \* _track_winddown: armed, age, last |q|, distressed

exchange == <<rests, held, late, old>>
books    == <<position, ref, registry>>
flags    == <<role, blocked, pulled, paused, sided>>
vars == <<exchange, books, flags, cycle, wind>>

Sign(s)     == IF s = "bid" THEN 1 ELSE -1
Size(x)     == IF x < 0 THEN -x ELSE x
Lower(a, b) == IF a < b THEN a ELSE b
Positive(x) == IF x < 0 THEN 0 ELSE x
Nothing     == [s \in Sides |-> 0]
Idle        == [pc |-> "idle", side |-> "bid", want |-> Nothing, landed |-> FALSE]
Disarmed    == [on |-> FALSE, age |-> 0, last |-> 0, distressed |-> FALSE]

Init ==
  /\ rests = Nothing /\ held = 0 /\ late = Nothing /\ old = Nothing
  /\ position = 0 /\ ref = Nothing /\ registry = Nothing
  /\ role = "quotes" /\ blocked = FALSE /\ pulled = FALSE
  /\ paused = FALSE /\ sided = TRUE
  /\ cycle = Idle /\ wind = Disarmed

-----------------------------------------------------------------------------
(* The exchange and the stream.                                            *)

Fill(s) ==
  /\ rests[s] > 0 /\ late["bid"] + late["ask"] + old["bid"] + old["ask"] < MaxUnheard
  /\ rests' = [rests EXCEPT ![s] = @ - 1]
  /\ held' = held + Sign(s)
  /\ late' = [late EXCEPT ![s] = @ + 1]
  /\ UNCHANGED <<old, books, flags, cycle, wind>>

\* The TTL of an order is over: the worker goes by its own clock, and still has it.
Expire(s) ==
  /\ rests[s] > 0 /\ rests' = [rests EXCEPT ![s] = 0]
  /\ UNCHANGED <<held, late, old, books, flags, cycle, wind>>

\* A coroutine runs from one await to the next: nothing else does meanwhile.
Suspended == cycle.pc \notin {"turn", "place"}

\* on_fill and order_filled, for the order tracked
Heard(s) ==
  /\ Suspended /\ late[s] > 0
  /\ late' = [late EXCEPT ![s] = @ - 1]
  /\ position' = position + Sign(s)
  /\ ref' = [ref EXCEPT ![s] = Positive(@ - 1)]
  /\ registry' = IF ref[s] > 0 THEN [registry EXCEPT ![s] = Positive(@ - 1)] ELSE registry
  /\ UNCHANGED <<rests, held, old, flags, cycle, wind>>

\* on_fill, for an order whose reference is gone.  (While its replacement is being
\* created the worker still holds the reference: what that releases is clamped at 0.)
HeardOld(s) ==
  /\ Suspended /\ old[s] > 0
  /\ old' = [old EXCEPT ![s] = @ - 1]
  /\ position' = position + Sign(s)
  /\ UNCHANGED <<rests, held, late, ref, registry, flags, cycle, wind>>

-----------------------------------------------------------------------------
(* What other tasks set, and the time.                                     *)

\* The guard trips on the book, and its cool-off ends.
GuardTurns ==
  /\ Suspended /\ blocked' = ~blocked
  /\ UNCHANGED <<exchange, books, role, pulled, paused, sided, cycle, wind>>

PullTurns ==
  /\ Suspended /\ pulled' = ~pulled
  /\ UNCHANGED <<exchange, books, role, blocked, paused, sided, cycle, wind>>

\* One side of the book empties, or is back.
BookTurns ==
  /\ Suspended /\ sided' = ~sided
  /\ UNCHANGED <<exchange, books, role, blocked, pulled, paused, cycle, wind>>

\* The reconcile pass grants a suspended market a probe.  (After five minutes the
\* worker grants it itself.)
Unpause ==
  /\ Suspended /\ paused /\ paused' = FALSE
  /\ UNCHANGED <<exchange, books, role, blocked, pulled, sided, cycle, wind>>

\* reap_closing_markets
Reap ==
  /\ Suspended /\ role = "quotes"
  /\ role' = IF position # 0 THEN "winds" ELSE "reaped"
  /\ UNCHANGED <<exchange, books, blocked, pulled, paused, sided, cycle, wind>>

Tick ==
  /\ wind.on /\ wind.age < Alert
  /\ wind' = [wind EXCEPT !.age = @ + 1]
  /\ UNCHANGED <<exchange, books, flags, cycle>>

-----------------------------------------------------------------------------
(* The decision.                                                           *)

\* The loaded side's share of quote_size, rounded half to even.
Shaded(q) ==
  LET n == QuoteSize * (Cap - Size(q))
      up == 2 * (n % Cap) > Cap \/ (2 * (n % Cap) = Cap /\ (n \div Cap) % 2 = 1)
  IN  Positive(n \div Cap + (IF up THEN 1 ELSE 0))

\* The sizes of compute_quotes: the room up to the cap, and the loaded side shaded
\* to nothing as the position nears it.
Room(q, s) ==
  LET room == Positive(Lower(QuoteSize, Cap - Sign(s) * q))
  IN  IF Sign(s) * q > 0 THEN Lower(room, Shaded(q)) ELSE room

ExitOnly(r) == r = "winds" \/ blocked

\* Seeded bug: the side that grows the position is kept.
CappedOnly(r, q, s, n) == IF ExitOnly(r) /\ Sign(s) * q < 0 THEN Lower(n, Size(q)) ELSE n

\* Exit-only quoting: the side that would grow the position is dropped, and the
\* other is no larger than the position.
Shaped(r, q, s, n) ==
  IF ~ExitOnly(r) \/ q = 0 THEN n
  ELSE IF Sign(s) * q > 0 THEN 0 ELSE Lower(n, Size(q))

\* Seeded bug: an exit that has not moved re-arms the clock.
RearmedAlways(q) ==
  IF role # "winds" \/ q = 0 THEN Disarmed
  ELSE IF ~wind.on \/ Size(q) <= wind.last
  THEN [on |-> TRUE, age |-> 0, last |-> Size(q), distressed |-> FALSE]
  ELSE [wind EXCEPT !.distressed = (wind.age >= Alert)]

\* _track_winddown: armed on entry, re-armed by a partial fill; distressed when the
\* exit has rested too long.  (An adverse move makes it so earlier.)
Tracked(q) ==
  IF role # "winds" \/ q = 0 THEN Disarmed
  ELSE IF ~wind.on \/ Size(q) < wind.last
  THEN [on |-> TRUE, age |-> 0, last |-> Size(q), distressed |-> FALSE]
  ELSE [wind EXCEPT !.distressed = (wind.age >= Alert)]

Flat == position = 0

\* Nothing is wanted: wind-down complete, reaped or pulled ...
PullsFirst ==
  \/ role = "winds" /\ Flat
  \/ role = "reaped"
  \/ role # "evicted" /\ pulled

\* ... or, which is asked only of a market that is not paused, cooling off while flat.
PullBoth == PullsFirst \/ (role # "evicted" /\ blocked /\ Flat)

\* A cycle begins, if there is a mid: the clock of the wind-down comes first.
Begins == cycle.pc = "idle" /\ sided /\ wind' = Tracked(position)

Starts(want) ==
  /\ Begins
  /\ cycle' = [pc |-> "turn", side |-> "bid", want |-> want, landed |-> FALSE]
  /\ UNCHANGED <<exchange, books, blocked, pulled, paused, sided>>

Pull ==
  /\ PullsFirst \/ (PullBoth /\ ~paused)
  /\ Starts(Nothing) /\ UNCHANGED role

\* The market is paused: the cycle ends, and what rests goes on resting.
SitOut ==
  /\ role # "evicted" /\ ~PullsFirst /\ paused
  /\ Begins
  /\ UNCHANGED <<exchange, books, flags, cycle>>

\* Seeded bug: the cycle that evicts falls through to placement.
EvictQuoting ==
  /\ role = "quotes" /\ ~pulled /\ ~paused /\ ~blocked /\ Flat
  /\ role' = "evicted" /\ Starts([s \in Sides |-> QuoteSize])

\* _resolve_guard_trip at the end of a cool-off: with nothing held, both sides go.
Evict ==
  /\ role = "quotes" /\ ~pulled /\ ~paused /\ ~blocked /\ Flat
  /\ role' = "evicted" /\ Starts(Nothing)

Wanted(r, priced) ==
  [s \in Sides |-> IF s \in priced THEN Shaped(r, position, s, Room(position, s)) ELSE 0]

\* A side is quoted unless it has no price.  A worker evicted with inventory works
\* its exit from this cycle on.
Decide(priced) ==
  /\ role # "evicted" /\ ~PullBoth /\ ~paused
  /\ role' \in {role} \union (IF role = "quotes" /\ ~blocked /\ ~Flat THEN {"winds"} ELSE {})
  /\ Starts(Wanted(role', priced))

Requotes ==
  \/ Pull
  \/ SitOut
  \/ Evict
  \/ \E priced \in SUBSET Sides : Decide(priced)

-----------------------------------------------------------------------------
(* One side's turn: _reconcile.                                            *)

\* Seeded bug: what was decided before the await is not asked again.
ApprovedAlways(s, n) == TRUE

\* approve_order: a reducing order always; any other if the position, what rests
\* on its side and it stay within the cap.  The notional caps may still refuse.
Approved(s, n) ==
  LET after == position + Sign(s) * n
      worst == position + Sign(s) * (registry[s] + n)
  IN  Size(after) < Size(position) \/ Size(worst) <= Cap

Past(s) == IF s = "bid" THEN [cycle EXCEPT !.pc = "turn", !.side = "ask"] ELSE Idle

\* The side is passed, or its create is sent.
PlaceOrLeave(s) ==
  \/ cycle' = Past(s)
  \/ /\ ~paused /\ cycle.want[s] > 0 /\ Approved(s, cycle.want[s])
     /\ cycle' = [cycle EXCEPT !.pc = "create", !.landed = FALSE]

\* Nothing is tracked, or what is tracked is kept.
Turn(s) ==
  /\ cycle.pc = "turn" /\ cycle.side = s
  /\ \/ ref[s] = 0 /\ PlaceOrLeave(s)
     \/ ref[s] > 0 /\ ref[s] = cycle.want[s] /\ cycle' = Past(s)
     \/ ref[s] > 0 /\ cycle' = [cycle EXCEPT !.pc = "cancel"]
  /\ UNCHANGED <<exchange, books, flags, wind>>

\* The cancel is answered; what is still tracked is released, and the size wanted
\* before the await is placed.
CancelAnswered(s) ==
  /\ cycle.pc = "cancel" /\ cycle.side = s
  /\ rests' = [rests EXCEPT ![s] = 0]
  /\ old' = [old EXCEPT ![s] = @ + late[s]] /\ late' = [late EXCEPT ![s] = 0]
  /\ ref' = [ref EXCEPT ![s] = 0]
  /\ registry' = [registry EXCEPT ![s] = Positive(@ - ref[s])]
  /\ cycle' = [cycle EXCEPT !.pc = "place"]
  /\ UNCHANGED <<held, position, flags, wind>>

Place(s) ==
  /\ cycle.pc = "place" /\ cycle.side = s
  /\ PlaceOrLeave(s)
  /\ UNCHANGED <<exchange, books, flags, wind>>

Land(s) ==
  /\ cycle.pc = "create" /\ cycle.side = s /\ ~cycle.landed
  /\ cycle' = [cycle EXCEPT !.landed = TRUE]
  /\ rests' = [rests EXCEPT ![s] = cycle.want[s]]
  /\ UNCHANGED <<held, late, old, books, flags, wind>>

\* The answer: tracked and registered as it was sent, whatever filled meanwhile; or
\* refused, which may be because the market is paused.
CreateAnswered(s) ==
  /\ cycle.pc = "create" /\ cycle.side = s
  /\ IF cycle.landed
     THEN /\ ref' = [ref EXCEPT ![s] = cycle.want[s]]
          /\ registry' = [registry EXCEPT ![s] = @ + cycle.want[s]]
          /\ UNCHANGED paused
     ELSE paused' \in {paused, TRUE} /\ UNCHANGED <<ref, registry>>
  /\ cycle' = Past(s)
  /\ UNCHANGED <<exchange, position, role, blocked, pulled, sided, wind>>

Works(s) == Turn(s) \/ CancelAnswered(s) \/ Place(s) \/ CreateAnswered(s)

Next ==
  \/ \E s \in Sides : Fill(s) \/ Expire(s) \/ Heard(s) \/ HeardOld(s) \/ Land(s)
  \/ GuardTurns \/ PullTurns \/ BookTurns \/ Unpause \/ Reap \/ Tick
  \/ Requotes
  \/ \E s \in Sides : Works(s)

Spec == Init /\ [][Next]_vars

\* The worker wakes at least every minute, and does something if the book then has a
\* mid; its calls are answered; time passes; the reconcile task comes by.  Nothing is
\* assumed of the book, of fills, of the TTL, of the stream, the guard or the pulls.
FairSpec ==
  /\ Spec
  /\ WF_vars(Requotes)
  /\ WF_vars(\E s \in Sides : Works(s))
  /\ WF_vars(Tick)
  /\ WF_vars(Unpause)

-----------------------------------------------------------------------------
Counts == [Sides -> 0..QuoteSize]

TypeOK ==
  /\ rests \in Counts /\ ref \in Counts /\ registry \in Counts
  /\ held \in Int /\ position \in Int
  /\ late \in [Sides -> 0..MaxUnheard] /\ old \in [Sides -> 0..MaxUnheard]
  /\ role \in {"quotes", "winds", "reaped", "evicted"}
  /\ blocked \in BOOLEAN /\ pulled \in BOOLEAN
  /\ paused \in BOOLEAN /\ sided \in BOOLEAN
  /\ cycle \in [pc : {"idle", "turn", "cancel", "place", "create"}, side : Sides,
                 want : Counts, landed : BOOLEAN]
  /\ wind \in [on : BOOLEAN, age : 0..Alert, last : 0..(Cap + MaxUnheard),
                distressed : BOOLEAN]

\* Sizes are decided from the position the worker knows, before it awaits, and fills
\* come in at any time; still the account never holds more than the cap and the fills
\* that were on their way: approve_order is asked again after the cancel.
CapHeld == Size(held) <= Cap + MaxUnheard

\* An order no one wants any more: its worker is reaped, wound down, evicted, pulled
\* or cooling off flat, or may only exit and the order would add to the position.
Unwanted(s) ==
  /\ rests[s] > 0
  /\ PullBoth \/ role = "evicted" \/ (ExitOnly(role) /\ Sign(s) * position > 0)

\* Such an order does not stay while the book has a mid: the worker takes it off,
\* however the decision was reached, whatever it was placing when it was made and though
\* the market was paused.  (Without a mid _requote returns before it looks at a pull, and
\* the order rests until its TTL.)
UnwantedGoes == \A s \in Sides : Unwanted(s) ~> ~Unwanted(s) \/ ~sided

\* A wind-down gets flat or is found out: re-arming on entry and on every partial fill
\* does not put it off for ever, and neither a paused market nor other pulls keep the
\* clock from being looked at.  It takes a mid to look at it, so an exit whose book has
\* dried up is not found out.  (This is _winddown_distressed; the event goes out with it,
\* or once winddown_distress_repeat_seconds are over since the last.)
DistressRaised == role = "winds" ~> wind.distressed \/ Flat \/ ~sided
=============================================================================
