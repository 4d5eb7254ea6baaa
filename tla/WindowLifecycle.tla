--------------------------- MODULE WindowLifecycle ---------------------------
(***************************************************************************)
(* One series of 15-minute windows in run_fifteen: discovery joins a       *)
(* window, the worker quotes it, pull_loop takes it off the market, evicts *)
(* and removes it, the settlement poll realises what is held, the          *)
(* reconcile task adopts the exchange's position, and a session may start  *)
(* in the middle of a window it held before.  The spot feed and the        *)
(* release calendar pull quotes in between.  A call may fail, may leave    *)
(* open what it did, or may take longer than a pull should.                *)
(*                                                                         *)
(* Time is counted in ticks.  Window n opens at n * Period.  A worker has  *)
(* one order of one contract at a time, on either side; what an order goes *)
(* through otherwise is OrderLifecycle's subject, and what money is worth  *)
(* is EquityChain's: here `booked` only counts the contracts whose basis   *)
(* is in MarketState.cash.                                                 *)
(***************************************************************************)
EXTENDS Integers, Sequences

CONSTANTS
  Last,           \* the windows are 0 .. Last
  Period,         \* ticks from open to close
  Forming,        \* min_seconds_after_open
  PullBefore,     \* pull_seconds_before_close
  AverageBefore,  \* the settlement average is taken over these last ticks
  Grace,          \* close to removal (300 s)
  Ttl,            \* order_ttl_seconds
  Cooloff,        \* spot_jump_cooloff_seconds
  ReconcileEvery, \* the reconcile task adopts positions at least this often
  Cap,            \* max_contracts_per_market
  PayoutWaits,    \* TRUE: a position is reported until the bot has realised it
  MaxFills, MaxLost, MaxUpsets \* bounds

ASSUME WindowAssumption ==
  /\ Last \in Nat /\ {Period, Grace, Ttl, Cooloff, ReconcileEvery, Cap} \subseteq Nat \ {0}
  /\ {Forming, PullBefore, AverageBefore} \subseteq Nat
  /\ AverageBefore < PullBefore /\ Forming + PullBefore < Period
  /\ ReconcileEvery < Grace
  /\ PayoutWaits \in BOOLEAN
  /\ {MaxFills, MaxLost, MaxUpsets} \subseteq Nat

VARIABLES
  now,        \* the clock
  since,      \* ticks since the reconcile task last adopted positions
  \* the exchange
  sided,      \* windows whose book has a bid and an ask
  order,      \* the order this session rests in a window, or none
  stale,      \* orders nobody tracks: of an earlier session, or left by a failed cancel
  truth,      \* the account's position
  final,      \* windows whose market is finalized
  paid,       \* windows the positions endpoint no longer reports
  wire,       \* fills sent and not yet dispatched
  \* the process
  boot,       \* "off", "seeded" (cancel_all awaited), "up"
  positions,  \* run_fifteen's positions, read at the start
  already,    \* already_settled
  workers,    \* the dict of workers, by window
  closes,     \* window_close
  awaiting,   \* awaiting_cleanup
  reaped, evicted, \* close_reaped and evicted of the workers
  pulled,     \* pulled_until
  woken,      \* workers woken since their last cycle
  call,       \* what a worker awaits: nothing, a create that rests ("create") or does not
              \* ("vain"), or what comes before it ("replace") or is done alone ("cancel")
  ref,        \* windows whose worker tracks an order
  parked,     \* windows whose worker has a create of unknown outcome (_pending_create)
  \* risk.markets
  known, pos, unvalued, booked, settled,
  \* what the other loops hold over an await
  listing,    \* discovery_loop: the open windows it was told of
  stopping,   \* pull_loop: the worker being stopped
  asking,     \* settlement_poll: the window whose status is awaited
  fetched,    \* reconcile_pass: the exchange's positions
  \* history and bounds
  realised,   \* how often on_settlement realised a position, over all sessions
  inherited,  \* windows an earlier session left something in
  blind,      \* windows whose book was one-sided at some time
  failed,     \* windows in which a cancel failed or a create's outcome was unknown
  slow,       \* windows in which a call took longer than a tick
  used

clock    == <<now, since>>
exchange == <<sided, order, stale, truth, final, paid>>
session  == <<boot, positions, already>>
roster   == <<workers, closes, awaiting, reaped, evicted>>
quoting  == <<pulled, woken, call, ref, parked>>
risk     == <<known, pos, unvalued, booked, settled>>
awaits   == <<listing, stopping, asking, fetched>>
history  == <<realised, inherited, blind, failed, slow>>
vars     == <<clock, exchange, wire, session, roster, quoting, risk, awaits, history, used>>

Windows == 0 .. Last
Dirs    == {1, -1}
Bounds  == {"fills", "lost", "upsets"}
Spend(what, bound) == used[what] < bound /\ used' = [used EXCEPT ![what] = @ + 1]

OpenAt(n)    == n * Period
CloseAt(n)   == (n + 1) * Period
PullAt(n)    == CloseAt(n) - PullBefore
AverageAt(n) == CloseAt(n) - AverageBefore
RemoveAt(n)  == CloseAt(n) + Grace
Horizon      == RemoveAt(Last) + 1

Open(n)   == OpenAt(n) <= now /\ now < CloseAt(n)
Reported  == [n \in Windows |-> IF n \in paid THEN 0 ELSE truth[n]]

NoOrder == <<>>
Order(dir, until) == <<[dir |-> dir, until |-> until]>>
Resting(n) == order[n] # NoOrder
Sending    == {"create", "vain", "replace"}

\* An order nobody tracks; `mark` says which upset left it, 0 an earlier session.
Stray(o, mark) == [dir |-> o.dir, until |-> o.until, mark |-> mark]

\* An earlier session may have left a position, an order or a settled marker in
\* the window the process is started in, or just after.
Init ==
  /\ now \in 0 .. Period /\ since = 0
  /\ sided = Windows /\ wire = [n \in Windows |-> <<>>]
  /\ order = [n \in Windows |-> NoOrder]
  /\ \E held \in {0, 1} : truth = [n \in Windows |-> IF n = 0 THEN held ELSE 0]
  /\ already \in SUBSET {n \in {0} : CloseAt(n) <= now /\ truth[n] # 0}
  /\ stale \in [Windows -> {{}} \cup {{Stray(Order(dir, now + Ttl)[1], 0)} : dir \in Dirs}]
  /\ \A n \in Windows : stale[n] # {} => n = 0 /\ now < PullAt(n)
  /\ final = already /\ paid = {}
  /\ boot = "off" /\ positions = [n \in Windows |-> 0]
  /\ workers = {} /\ closes = {} /\ awaiting = {} /\ reaped = {} /\ evicted = {}
  /\ pulled = [n \in Windows |-> 0] /\ woken = {} /\ ref = {} /\ parked = {}
  /\ call = [n \in Windows |-> "none"]
  /\ known = {} /\ settled = {}
  /\ pos = [n \in Windows |-> 0] /\ unvalued = pos /\ booked = pos
  /\ listing = {} /\ stopping = {} /\ asking = {} /\ fetched = <<>>
  /\ realised = [n \in Windows |-> IF n \in already THEN 1 ELSE 0]
  /\ blind = {} /\ failed = {} /\ slow = {}
  /\ inherited = {n \in Windows : truth[n] # 0 \/ stale[n] # {}}
  /\ used = [what \in Bounds |-> 0]

\* Seeded bug: a flag is set and the worker sleeps on.
NotWoken(ns) == woken
\* wake()
Woken(ns) == woken \cup (ns \cap workers)

-----------------------------------------------------------------------------
(* The exchange *)

\* pull_loop runs every second: what it has to do is done within a tick.
RetireDue ==
  \E n \in closes : \/ PullAt(n) <= now /\ n \notin reaped
                    \/ CloseAt(n) <= now /\ n \notin evicted

\* Messages are delivered and woken workers run within a tick; so do the loops' calls end
\* (but for a listing, which may be retried for longer).  The reconcile task is at most
\* ReconcileEvery ticks late.
Prompt ==
  /\ boot = "up" /\ since < ReconcileEvery
  /\ fetched = <<>> /\ stopping = {} /\ asking = {}
  /\ ~RetireDue /\ \A n \in Windows : wire[n] = <<>> /\ (n \in woken => call[n] # "none")

\* A worker's call ends within a tick too, one way or the other; or Kalshi or the network
\* keeps the worker waiting, but not until its window is removed.
Dragging == {n \in Windows : call[n] # "none"}

CallsEnd ==
  /\ \A n \in Dragging : now + 1 < RemoveAt(n)
  /\ slow' = slow \cup Dragging
  /\ IF Dragging \subseteq slow THEN UNCHANGED used ELSE Spend("upsets", MaxUpsets)

\* Orders expire; a market that closes cancels its own.
Survives(n, o) == now + 1 < o.until /\ now + 1 < CloseAt(n)
Surviving(n, o) == IF o # NoOrder /\ Survives(n, o[1]) THEN o ELSE NoOrder

Tick ==
  /\ now < Horizon /\ Prompt /\ CallsEnd
  /\ now' = now + 1 /\ since' = since + 1
  /\ order' = [n \in Windows |-> Surviving(n, order[n])]
  /\ stale' = [n \in Windows |-> {o \in stale[n] : Survives(n, o)}]
  /\ UNCHANGED <<sided, truth, final, paid, wire, session, roster, quoting, risk, awaits,
                 realised, inherited, blind, failed>>

\* The one contract of an order trades; the message is lost while there is no stream.
Traded(n, dir, own) ==
  /\ used["fills"] < MaxFills
  /\ truth' = [truth EXCEPT ![n] = @ + dir]
  /\ \/ /\ boot = "up"
        /\ used' = [used EXCEPT !["fills"] = @ + 1]
        /\ wire' = [wire EXCEPT ![n] = Append(@, [dir |-> dir, own |-> own])]
     \/ /\ boot = "up" => used["lost"] < MaxLost
        /\ used' = [used EXCEPT !["fills"] = @ + 1,
                                !["lost"] = IF boot = "up" THEN @ + 1 ELSE @]
        /\ UNCHANGED wire

Fill(n) ==
  /\ Resting(n) /\ Traded(n, order[n][1].dir, TRUE)
  /\ order' = [order EXCEPT ![n] = NoOrder]
  /\ UNCHANGED <<clock, sided, stale, final, paid, session, roster, quoting, risk, awaits,
                 history>>

FillStale(n) ==
  /\ \E o \in stale[n] :
       Traded(n, o.dir, FALSE) /\ stale' = [stale EXCEPT ![n] = @ \ {o}]
  /\ UNCHANGED <<clock, sided, order, final, paid, session, roster, quoting, risk, awaits,
                 history>>

\* One side of a book the process watches empties; it is back.
BookEmpties(n) ==
  /\ Open(n) /\ n \in workers \cap sided
  /\ Spend("upsets", MaxUpsets)
  /\ sided' = sided \ {n} /\ blind' = blind \cup {n}
  /\ woken' = Woken({n})
  /\ UNCHANGED <<clock, order, stale, truth, final, paid, wire, session, roster, pulled, call,
                 ref, parked, risk, awaits, realised, inherited, failed, slow>>

BookBack(n) ==
  /\ Open(n) /\ n \notin sided
  /\ sided' = sided \cup {n}
  /\ woken' = Woken({n})
  /\ UNCHANGED <<clock, order, stale, truth, final, paid, wire, session, roster, pulled, call,
                 ref, parked, risk, awaits, history, used>>

\* Not before pull_loop, which looks every second, has seen the close.
Finalize(n) ==
  /\ CloseAt(n) < now /\ n \notin final
  /\ final' = final \cup {n}
  /\ UNCHANGED <<clock, sided, order, stale, truth, paid, wire, session, roster, quoting, risk,
                 awaits, history, used>>

Payout(n) ==
  /\ n \in final \ paid
  /\ PayoutWaits => truth[n] = 0 \/ realised[n] > 0
  /\ paid' = paid \cup {n}
  /\ UNCHANGED <<clock, sided, order, stale, truth, final, wire, session, roster, quoting, risk,
                 awaits, history, used>>

-----------------------------------------------------------------------------
(* The start of run_fifteen *)

\* seed_position: a mid gives the contracts their basis, without one they wait for it.
Seeded(n, p, hasMid) ==
  IF hasMid THEN booked' = [booked EXCEPT ![n] = p] /\ UNCHANGED unvalued
            ELSE unvalued' = [unvalued EXCEPT ![n] = p] /\ UNCHANGED booked

\* Held positions that are not marked settled are seeded, with the last logged mid if
\* there is one.  (Only window 0 can be held.)
SeedHeld(hasMid) ==
  /\ boot = "off" /\ boot' = "seeded"
  /\ positions' = Reported
  /\ known' = {n \in {0} : Reported[n] # 0 /\ n \notin already}
  /\ pos' = [n \in Windows |-> IF n \in known' THEN Reported[n] ELSE 0]
  /\ IF 0 \in known' THEN Seeded(0, Reported[0], hasMid) ELSE UNCHANGED <<booked, unvalued>>
  /\ UNCHANGED <<clock, exchange, wire, already, roster, quoting, settled, awaits, history, used>>

\* cancel_all_orders on what is held; then the tasks are spawned.
CancelStale ==
  /\ boot = "seeded" /\ boot' = "up"
  /\ stale' = [n \in Windows |-> IF pos[n] # 0 THEN {} ELSE stale[n]]
  /\ UNCHANGED <<clock, sided, order, truth, final, paid, wire, positions, already, roster,
                 quoting, risk, awaits, history, used>>

-----------------------------------------------------------------------------
(* discovery_loop *)

\* get_series_open_markets is answered (a failure leaves the pass to the next one) ...
ListSeries ==
  /\ boot = "up" /\ listing = {}
  /\ listing' = {n \in Windows : Open(n)} /\ listing' # {}
  /\ UNCHANGED <<clock, exchange, wire, session, roster, quoting, risk, stopping, asking, fetched,
                 history, used>>

\* Seeded bug: a late window is joined as well.
NeverTooLate(n) == FALSE
TooLate(n) == PullAt(n) <= now

Joinable(n) ==
  n \notin workers /\ n \notin already /\ OpenAt(n) + Forming <= now /\ ~TooLate(n)

\* ... and its windows are judged by the clock as it is then.  A window that joins is
\* seeded from the positions read at the start.
Discover ==
  /\ listing # {} /\ listing' = {}
  /\ LET new == {n \in listing : Joinable(n)} IN
       /\ workers' = workers \cup new
       /\ closes' = closes \cup new
       /\ reaped' = reaped \ new /\ evicted' = evicted \ new
       /\ pulled' = [n \in Windows |-> IF n \in new THEN 0 ELSE pulled[n]]
       /\ known' = known \cup new
       /\ pos' = [n \in Windows |-> IF n \in new THEN positions[n] ELSE pos[n]]
       /\ unvalued' = [n \in Windows |-> IF n \in new THEN positions[n] ELSE unvalued[n]]
       /\ UNCHANGED <<awaiting, booked, settled, woken, call, ref, parked>>
  /\ UNCHANGED <<clock, exchange, wire, session, stopping, asking, fetched, history, used>>

-----------------------------------------------------------------------------
(* MarketWorker *)

\* on_book_top: the first mid values what is not valued yet.
BookTop(n) ==
  /\ boot = "up" /\ n \in known /\ Open(n) /\ n \in sided /\ unvalued[n] # 0
  /\ booked' = [booked EXCEPT ![n] = @ + unvalued[n]]
  /\ unvalued' = [unvalued EXCEPT ![n] = 0]
  /\ UNCHANGED <<clock, exchange, wire, session, roster, quoting, known, pos, settled, awaits,
                 history, used>>

\* What is tracked is cancelled, what is parked looked up.
Withdraws(n) ==
  call' = [call EXCEPT ![n] = IF n \in ref \cup parked THEN "cancel" ELSE "none"]

\* The create is sent and awaited.  It rests, or it does not: refused (nothing rests on a
\* market that closed), or lost on its way.
Sends(n, dir) ==
  \/ /\ now < CloseAt(n)
     /\ call' = [call EXCEPT ![n] = "create"]
     /\ order' = [order EXCEPT ![n] = Order(dir, now + Ttl)]
  \/ /\ call' = [call EXCEPT ![n] = "vain"]
     /\ order' = [order EXCEPT ![n] = NoOrder]

\* Nothing is looked at again before the create but the caps and the gate.
SendsOrNot(n, dir) ==
  \/ pos[n] + dir \in -Cap .. Cap /\ Sends(n, dir)
  \/ /\ call' = [call EXCEPT ![n] = "none"]
     /\ order' = [order EXCEPT ![n] = NoOrder]

\* Seeded bug: a reaped worker quotes on.
QuotesReaped(n) == now >= pulled[n]
MayQuote(n) == n \notin reaped /\ now >= pulled[n]

\* _requote of a book without a mid: nothing, whatever the worker was woken for.
CycleBlind(n) ==
  /\ n \in workers /\ call[n] = "none" /\ n \notin sided /\ n \in woken
  /\ woken' = woken \ {n}
  /\ UNCHANGED <<clock, exchange, wire, session, roster, pulled, call, ref, parked, risk, awaits,
                 history, used>>

\* _requote that quotes nothing: reaped, pulled, gated, tripped, or no quote worth it.
CycleWithdraw(n) ==
  /\ n \in workers /\ call[n] = "none" /\ n \in sided /\ n \in woken \cup ref \cup parked
  /\ woken' = woken \ {n} /\ Withdraws(n)
  /\ UNCHANGED <<clock, exchange, wire, session, roster, pulled, ref, parked, risk, awaits,
                 history, used>>

\* _requote that is content with what rests.
CycleKeep(n) ==
  /\ n \in workers /\ call[n] = "none" /\ n \in sided /\ MayQuote(n) /\ n \in woken /\ n \in ref
  /\ woken' = woken \ {n}
  /\ UNCHANGED <<clock, exchange, wire, session, roster, pulled, call, ref, parked, risk, awaits,
                 history, used>>

\* _requote that places, or replaces: the cancel, or the lookup of what is parked, is
\* awaited before the create is sent.
CyclePlace(n, dir) ==
  /\ n \in workers /\ call[n] = "none" /\ n \in sided /\ MayQuote(n)
  /\ pos[n] + dir \in -Cap .. Cap
  /\ woken' = woken \ {n}
  /\ IF n \in ref \cup parked THEN call' = [call EXCEPT ![n] = "replace"] /\ UNCHANGED order
                             ELSE Sends(n, dir)
  /\ UNCHANGED <<clock, sided, stale, truth, final, paid, wire, session, roster, pulled, ref,
                 parked, risk, awaits, history, used>>

\* Tracked; refused, and nothing is tracked; or of unknown outcome (a timeout, a 5xx),
\* whether it rests or not: the order is not tracked and its id is parked.
CreateAnswered(n) ==
  /\ call[n] \in {"create", "vain"}
  /\ \/ /\ ref' = IF call[n] = "create" THEN ref \cup {n} ELSE ref
        /\ UNCHANGED <<parked, failed, used>>
     \/ /\ Spend("upsets", MaxUpsets) /\ failed' = failed \cup {n}
        /\ parked' = parked \cup {n} /\ UNCHANGED ref
  /\ call' = [call EXCEPT ![n] = "none"]
  /\ UNCHANGED <<clock, exchange, wire, session, roster, pulled, woken, risk, awaits, realised,
                 inherited, blind, slow>>

\* The reference is dropped when the cancel is answered and when it fails, and in that
\* case the order may rest on.
CancelEnds(n) ==
  /\ ref' = ref \ {n}
  /\ \/ UNCHANGED <<stale, failed, used>>
     \/ /\ Spend("upsets", MaxUpsets) /\ failed' = failed \cup {n}
        /\ stale' = [stale EXCEPT ![n] =
                       @ \cup {Stray(order[n][i], used'["upsets"]) : i \in DOMAIN order[n]}]

CancelAnswered(n) ==
  /\ call[n] = "cancel" /\ n \notin parked
  /\ CancelEnds(n)
  /\ call' = [call EXCEPT ![n] = "none"]
  /\ order' = [order EXCEPT ![n] = NoOrder]
  /\ UNCHANGED <<clock, sided, truth, final, paid, wire, session, roster, pulled, woken, parked,
                 risk, awaits, realised, inherited, blind, slow>>

\* The create follows at once, however the cancel ended.
ReplaceAnswered(n, dir) ==
  /\ call[n] = "replace" /\ n \notin parked
  /\ CancelEnds(n) /\ SendsOrNot(n, dir)
  /\ UNCHANGED <<clock, sided, truth, final, paid, wire, session, roster, pulled, woken, parked,
                 risk, awaits, realised, inherited, blind, slow>>

\* _adopt_if_resting: the parked create stays parked (it is too early, the lookup failed,
\* or it was empty and not for the last time); it is found, adopted and left alone until
\* the next cycle; or it is given up, and the cycle goes on.
LookupAnswered(n, dir) ==
  /\ call[n] \in {"cancel", "replace"} /\ n \in parked
  /\ \/ call' = [call EXCEPT ![n] = "none"] /\ UNCHANGED <<order, ref, parked>>
     \/ /\ Resting(n)
        /\ ref' = ref \cup {n} /\ parked' = parked \ {n}
        /\ call' = [call EXCEPT ![n] = "none"] /\ UNCHANGED order
     \/ /\ ~Resting(n)
        /\ parked' = parked \ {n} /\ UNCHANGED ref
        /\ IF call[n] = "replace" THEN SendsOrNot(n, dir)
           ELSE call' = [call EXCEPT ![n] = "none"] /\ UNCHANGED order
  /\ UNCHANGED <<clock, sided, stale, truth, final, paid, wire, session, roster, pulled, woken,
                 risk, awaits, history, used>>

\* FillDispatcher: the position, then order_filled, which wakes the worker.
FillMessage(n) ==
  /\ wire[n] # <<>>
  /\ pos' = [pos EXCEPT ![n] = @ + Head(wire[n]).dir]
  /\ booked' = [booked EXCEPT ![n] = @ + Head(wire[n]).dir]
  /\ known' = known \cup {n}
  /\ wire' = [wire EXCEPT ![n] = Tail(@)]
  /\ ref' = IF Head(wire[n]).own /\ ~Resting(n) THEN ref \ {n} ELSE ref
  /\ woken' = Woken({n})
  /\ UNCHANGED <<clock, exchange, session, roster, pulled, call, parked, unvalued, settled, awaits,
                 history, used>>

-----------------------------------------------------------------------------
(* The pulls *)

Pullable == {n \in workers : n \notin evicted /\ n \notin reaped}

\* spot_feed: the deadline is set; apply_release_pulls: it is pushed out.
SpotJump ==
  /\ Pullable # {}
  /\ Spend("upsets", MaxUpsets)
  /\ pulled' = [n \in Windows |-> IF n \in Pullable THEN now + Cooloff ELSE pulled[n]]
  /\ woken' = Woken(Pullable)
  /\ UNCHANGED <<clock, exchange, wire, session, roster, call, ref, parked, risk, awaits, history>>

ReleasePull ==
  /\ Pullable # {}
  /\ Spend("upsets", MaxUpsets)
  /\ pulled' = [n \in Windows |-> IF n \in Pullable /\ pulled[n] <= now
                                  THEN now + 1 ELSE pulled[n]]
  /\ woken' = Woken(Pullable)
  /\ UNCHANGED <<clock, exchange, wire, session, roster, call, ref, parked, risk, awaits, history>>

-----------------------------------------------------------------------------
(* pull_loop *)

\* Seeded bug: an evicted worker is not queued for its removal.
NotQueued(ns) == awaiting
Queued(ns) == awaiting \cup ns

\* Quotes are pulled, then the worker is evicted and waits to be removed.
Retire ==
  /\ RetireDue /\ stopping = {}
  /\ LET pull  == {n \in closes : PullAt(n) <= now /\ n \notin reaped}
         close == {n \in closes : CloseAt(n) <= now /\ n \notin evicted}
     IN  /\ reaped' = reaped \cup pull
         /\ evicted' = evicted \cup close
         /\ closes' = closes \ close
         /\ awaiting' = Queued(close)
         /\ woken' = Woken(pull \cup close)
  /\ UNCHANGED <<clock, exchange, wire, session, workers, pulled, call, ref, parked, risk, awaits,
                 history, used>>

\* Seeded bug: a window is removed whatever it holds.
RemovedHeld(n) == n \in awaiting /\ RemoveAt(n) <= now
Removable(n) == n \in awaiting /\ RemoveAt(n) <= now /\ pos[n] = 0

\* A flat window is frozen and its worker stopped; the loop awaits the stop.
Remove(n) ==
  /\ Removable(n) /\ stopping = {}
  /\ awaiting' = awaiting \ {n}
  /\ settled' = settled \cup ({n} \cap known)
  /\ workers' = workers \ {n}
  /\ stopping' = {n} \cap workers
  /\ woken' = woken \ {n} /\ parked' = parked \ {n}
  /\ UNCHANGED <<clock, exchange, wire, session, closes, reaped, evicted, pulled, call, ref, known,
                 pos, unvalued, booked, listing, asking, fetched, history, used>>

\* MarketWorker.stop cancels what is tracked; that the cancel may fail makes no difference,
\* as a closed market has cancelled its orders.
Stopped(n) ==
  /\ n \in stopping /\ stopping' = {}
  /\ order' = IF n \in ref THEN [order EXCEPT ![n] = NoOrder] ELSE order
  /\ ref' = ref \ {n}
  /\ UNCHANGED <<clock, sided, stale, truth, final, paid, wire, session, roster, pulled, woken, call,
                 parked, risk, listing, asking, fetched, history, used>>

-----------------------------------------------------------------------------
(* settlement_poll *)

\* Seeded bug: what was settled before is asked about again.
PendingAgain(n) == n \in known /\ pos[n] # 0
Pending(n) == n \in known /\ pos[n] # 0 /\ n \notin settled

AskStatus(n) ==
  /\ boot = "up" /\ asking = {} /\ Pending(n)
  /\ asking' = {n}
  /\ UNCHANGED <<clock, exchange, wire, session, roster, quoting, risk, listing, stopping, fetched,
                 history, used>>

\* No answer, or a market that is not finalized.
StatusUseless(n) ==
  /\ n \in asking /\ asking' = {}
  /\ UNCHANGED <<clock, exchange, wire, session, roster, quoting, risk, listing, stopping, fetched,
                 history, used>>

\* on_settlement realises what is held when the answer is there; the worker is retired.
Settle(n) ==
  /\ n \in asking \cap final /\ asking' = {}
  /\ pos' = [pos EXCEPT ![n] = 0]
  /\ booked' = [booked EXCEPT ![n] = @ + unvalued[n] - pos[n]]
  /\ unvalued' = [unvalued EXCEPT ![n] = 0]
  /\ settled' = settled \cup {n}
  /\ realised' = [realised EXCEPT ![n] = IF pos[n] # 0 THEN @ + 1 ELSE @]
  /\ reaped' = reaped \cup ({n} \cap workers) /\ evicted' = evicted \cup ({n} \cap workers)
  /\ woken' = Woken({n})
  /\ UNCHANGED <<clock, exchange, wire, session, workers, closes, awaiting, pulled, call, ref,
                 parked, known, listing, stopping, fetched, inherited, blind, failed, slow, used>>

-----------------------------------------------------------------------------
(* reconcile_pass *)

\* The resting orders are compared - a reference to none is dropped, an order nobody
\* tracks is cancelled unless its create is parked, or that cancel fails - and the
\* positions read.  The task sleeps before each pass.  (At the horizon the clock stands
\* for all the time that follows.)
FetchPositions ==
  /\ boot = "up" /\ fetched = <<>> /\ (since > 0 \/ now = Horizon)
  /\ fetched' = <<Reported>>
  /\ ref' = {n \in ref : Resting(n) \/ call[n] # "none"}
  /\ \/ stale' = [n \in Windows |-> {}] /\ UNCHANGED used
     \/ /\ \E n \in Windows : stale[n] # {}
        /\ Spend("upsets", MaxUpsets) /\ UNCHANGED stale
  /\ woken' = Woken((ref \ ref') \cup {n \in Windows : stale'[n] # stale[n]})
  /\ UNCHANGED <<clock, sided, order, truth, final, paid, wire, session, roster, pulled, call,
                 parked, risk, listing, stopping, asking, history>>

\* Seeded bug: cash is not adjusted.
Unadjusted(n) == booked[n]

\* The cash is adjusted at the current mark for what is adopted.
Adjusted(n) == booked[n] + fetched[1][n] - pos[n]

\* ... and what differs is adopted; a ticker that is not known is seeded.
AdoptPositions ==
  /\ fetched # <<>> /\ fetched' = <<>> /\ since' = 0
  /\ LET drifted == {n \in Windows : fetched[1][n] # pos[n]} IN
       /\ pos' = fetched[1]
       /\ booked' = [n \in Windows |-> IF n \in drifted \cap known THEN Adjusted(n) ELSE booked[n]]
       /\ unvalued' = [n \in Windows |-> IF n \in drifted \ known THEN fetched[1][n]
                                         ELSE unvalued[n]]
       /\ known' = known \cup drifted
  /\ UNCHANGED <<now, exchange, wire, session, roster, quoting, settled, listing, stopping, asking,
                 history, used>>

-----------------------------------------------------------------------------
Exchange ==
  \/ Tick
  \/ \E n \in Windows : 
       \/ Fill(n) \/ FillStale(n) \/ BookEmpties(n) \/ BookBack(n)
       \/ Finalize(n) \/ Payout(n)

Start == CancelStale \/ \E hasMid \in BOOLEAN : SeedHeld(hasMid)

Worker(n) ==
  \/ BookTop(n) \/ CycleBlind(n) \/ CycleWithdraw(n) \/ CycleKeep(n)
  \/ \E dir \in Dirs : CyclePlace(n, dir) \/ ReplaceAnswered(n, dir) \/ LookupAnswered(n, dir)
  \/ CreateAnswered(n) \/ CancelAnswered(n) \/ FillMessage(n)

PullLoop       == Retire \/ \E n \in Windows : Remove(n) \/ Stopped(n)
SettlementPoll == \E n \in Windows : AskStatus(n) \/ StatusUseless(n) \/ Settle(n)
Reconcile      == FetchPositions \/ AdoptPositions

Loops ==
  ListSeries \/ Discover \/ SpotJump \/ ReleasePull \/ PullLoop \/ SettlementPoll \/ Reconcile

Next == Exchange \/ Start \/ Loops \/ \E n \in Windows : Worker(n)

Spec == Init /\ [][Next]_vars

\* Fairness: the clock does not stand still before the horizon (so the process starts,
\* its calls end and messages are delivered until then), its loops go on for ever
\* (each on a timer, each surviving a failed call), and Kalshi finalizes and pays.
TimePasses == <>(now = Horizon)

FairSpec ==
  /\ Spec /\ TimePasses
  /\ WF_vars(PullLoop) /\ WF_vars(Reconcile)
  /\ WF_vars(\E n \in Windows : Finalize(n) \/ Payout(n))
  /\ \A n \in Windows : WF_vars(AskStatus(n)) /\ SF_vars(Settle(n))

-----------------------------------------------------------------------------
(* Properties *)

Orders == {NoOrder} \cup {<<o>> : o \in [dir : Dirs, until : 0 .. Horizon + Ttl]}
Strays == [dir : Dirs, until : 0 .. Horizon + Ttl, mark : Nat]

TypeOK ==
  /\ now \in 0 .. Horizon /\ since \in 0 .. ReconcileEvery
  /\ {sided, final, paid, already, workers, closes, awaiting, reaped, evicted, woken, ref, known,
      settled, listing, stopping, asking, parked, inherited, blind, failed, slow}
       \subseteq SUBSET Windows
  /\ order \in [Windows -> Orders] /\ stale \in [Windows -> SUBSET Strays]
  /\ {truth, positions, pos, unvalued, booked} \subseteq [Windows -> Int]
  /\ wire \in [Windows -> Seq([dir : Dirs, own : BOOLEAN])]
  /\ boot \in {"off", "seeded", "up"}
  /\ pulled \in [Windows -> 0 .. Horizon + Cooloff]
  /\ call \in [Windows -> {"none", "cancel"} \cup Sending]
  /\ fetched \in Seq([Windows -> Int]) /\ realised \in [Windows -> Nat]
  /\ used \in [Bounds -> Nat]
  \* the three dictionaries of the loops are about workers there are
  /\ closes \cap awaiting = {} /\ closes \cup awaiting = workers

\* Windows whose book had a mid all along, and whose worker's calls were served, and in
\* time: a failed cancel is logged and treated as done, a create of unknown outcome is not
\* tracked, and behind a slow call the worker does not look at its flags.
Undisturbed == Windows \ (blind \cup failed \cup slow)

\* In an undisturbed window, a worker that is pulled or reaped has no order at the exchange
\* when a tick is over, whatever it was awaiting when the pull came.
PullsTakeEffect ==
  [][now' # now => \A n \in workers \cap Undisturbed' : MayQuote(n) \/ ~Resting(n)]_vars

\* "the last 60s IS the settlement averaging window": no order of this session rests
\* in it, in an undisturbed window.
QuietAverage == \A n \in Undisturbed : AverageAt(n) <= now => ~Resting(n)

\* Whatever cancel failed, whatever create was in doubt and however the book dried up:
\* nothing is sent after the pull, so what rests, tracked or not, is gone one TTL after it.
\* (But for a slow call, behind which a create is still sent.)
SentBeforePull ==
  \A n \in Windows \ slow :
    /\ Resting(n) => order[n][1].until <= PullAt(n) + Ttl
    /\ \A o \in stale[n] : o.until <= PullAt(n) + Ttl

\* "A flat, closed window has nothing to settle": what pull_loop freezes without a
\* settlement is flat at the exchange too, whatever was lost or late.
FrozenIsFlat == \A n \in settled : realised[n] = 0 => truth[n] = 0

\* Every contract of a position has one basis, or waits for one, in a window this
\* session found untouched.
BookedOnce == \A n \in Windows \ inherited : booked[n] + unvalued[n] = pos[n]

\* A position is realised once, though the exchange goes on reporting it, the reconcile
\* task adopts it again and the window may be frozen while its status is awaited; in a
\* window this session found untouched.
RealisedOnce == \A n \in Windows \ inherited : realised[n] <= 1

\* A window that was settled or removed is not joined again.
NeverRejoined == [][\A n \in workers' \ workers : n \notin settled]_vars

\* "Fills ride to settlement; the settlement poll realizes them", and `workers` does not
\* grow without bound: a closed window ends with what it held realised, if the exchange
\* reports it until then, and its worker removed.
WindowsEnd ==
  \A n \in Windows :
    CloseAt(n) <= now /\ (truth[n] # 0 \/ n \in workers)
      ~> n \notin workers /\ (truth[n] # 0 => realised[n] > 0)
-----------------------------------------------------------------------------
(* The inductive invariant behind BookedOnce, RealisedOnce and NeverRejoined ... *)

\* Nothing runs before the tasks are spawned.
Dormant == boot # "up" => workers \cup settled \cup asking \cup listing = {}

\* What the loops work on is known, and what is over is closed.
Roster ==
  /\ workers \cup settled \cup asking \subseteq known
  /\ awaiting \subseteq reaped
  /\ \A n \in settled \cup final \cup awaiting : CloseAt(n) <= now

\* A window this session found untouched stays so until it is joined.
Untouched ==
  \A n \in Windows \ inherited :
    /\ n \notin already /\ positions[n] = 0
    /\ n \notin workers \cup settled =>
         /\ stale[n] = {} /\ truth[n] = 0 /\ wire[n] = <<>> /\ (fetched # <<>> => fetched[1][n] = 0)
         /\ pos[n] = 0 /\ booked[n] = 0 /\ unvalued[n] = 0

\* What was realised is settled, what is asked about was not realised.
Settlement ==
  \A n \in Windows \ inherited :
    /\ realised[n] > 0 => n \in settled
    /\ n \in asking => realised[n] = 0

\* Nobody quotes but a worker there is, and none past its pull.
OnlyWorkers ==
  \A n \in Windows :
    /\ Resting(n) => now < CloseAt(n)
    /\ Resting(n) \/ call[n] \in Sending => n \in workers
    /\ Resting(n) /\ call[n] = "none" => n \in ref \cup parked
    /\ call[n] = "vain" => ~Resting(n)
    /\ n \in workers /\ PullAt(n) < now => n \in reaped
    /\ call[n] \in Sending => now < RemoveAt(n) /\ (now <= PullAt(n) \/ n \in slow)

\* ... and behind QuietAverage and PullsTakeEffect: in an undisturbed window a worker that
\* may not quote is awake or about to cancel.
Withdrawing ==
  /\ Windows \ sided \subseteq blind /\ parked \subseteq failed
  /\ \A n \in workers \cap Undisturbed :
       ~MayQuote(n) =>
         /\ Resting(n) => n \in woken \/ call[n] = "cancel"
         /\ call[n] \in Sending => n \in woken

\* ... and behind FrozenIsFlat: what is closed trades no more, what is reported of it is
\* right until it is paid, and an adoption since its close has made the position right.
Ended ==
  \A n \in Windows :
    /\ n \in already => realised[n] > 0
    /\ n = 0 \/ boot = "up" \/ (stale[n] = {} /\ truth[n] = 0)
    /\ n \in paid => n \in final /\ (truth[n] = 0 \/ realised[n] > 0)
    /\ CloseAt(n) <= now => ~Resting(n) /\ stale[n] = {} /\ wire[n] = <<>>
    /\ realised[n] = 0 /\ CloseAt(n) <= now =>
         /\ fetched # <<>> => fetched[1][n] = truth[n]
         /\ n \in asking => pos[n] # 0 \/ truth[n] = 0
         /\ CloseAt(n) <= now - since /\ boot # "off" => pos[n] = truth[n]

-----------------------------------------------------------------------------
(* What the comments promise and the code does not keep. *)

\* "Value pre-existing inventory at first sight so session PnL starts at 0"
\* (seed_position): every contract has one basis, or waits for one.
ValuedOnce == \A n \in Windows : booked[n] + unvalued[n] = pos[n]

\* "Quotes are pulled at close - pull_seconds_before_close": on any book, when every call
\* is served, and in time.
AlwaysQuiet == \A n \in Windows \ (failed \cup slow) : AverageAt(n) <= now => ~Resting(n)
=============================================================================
