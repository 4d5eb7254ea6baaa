--------------------------- MODULE OrderLifecycle ---------------------------
(***************************************************************************)
(* The life of a market worker's resting orders on one ticker: the worker  *)
(* (MarketWorker._reconcile), the exchange, the websocket fill channel,    *)
(* the C3 resting-exposure registry (RiskManager.resting) and the global   *)
(* reconcile task (reconcile_pass) interleave at every await.              *)
(*                                                                         *)
(* Prices are abstracted away: a requote decides, per side, to keep, to    *)
(* pull or to place some size.  An exchange order id and the               *)
(* client_order_id of the create that made it are the same number here,    *)
(* 1, 2, ... in the order the creates are sent.                            *)
(***************************************************************************)
EXTENDS Integers, FiniteSets

CONSTANTS
  Sides,        \* the sides this worker quotes
  MaxOrders,    \* bound: creates sent in a behaviour
  MaxSize,      \* bound: contracts per order
  MaxFaults,    \* bound: failed cancels, lost fills and failed passes
  Cap,          \* RiskParams.max_contracts_per_market
  ConfirmLost,  \* WorkerConfig.create_confirm_lost_lookups
  ListDelay,    \* lookups by which a create has landed and is listed, or never will be
  ListLag,      \* TRUE: a landed order may be missing from the resting list for a while
  WsFirst,      \* TRUE: a fill message is delivered, or lost, before a REST answer
                \* that already reflects the fill
  MayEvict      \* TRUE: the fast-move guard may evict the market

ASSUME SidesAssumption == Sides \subseteq {"bid", "ask"}
ASSUME BoundsAssumption ==
  /\ MaxOrders \in Nat /\ MaxSize \in Nat /\ MaxFaults \in Nat
  /\ Cap \in Nat /\ ConfirmLost \in Nat /\ ListDelay \in Nat
  /\ ListLag \in BOOLEAN /\ WsFirst \in BOOLEAN /\ MayEvict \in BOOLEAN

Ids  == 1 .. MaxOrders
None == 0
Slot == Ids \cup {None}          \* an order reference, or no reference

VARIABLES
  \* the exchange's side of each order
  sent,      \* number of creates sent so far: orders 1 .. sent exist
  sideOf,    \* the side each order was sent for
  st,        \* "new", "sent" (request on the wire), "hidden" (resting, not yet
             \* listed), "live" (resting), "gone", "void" (never accepted)
  rem,       \* contracts still to fill
  truePos,   \* the exchange's position for the ticker
  fills,     \* per order, the one-contract fill messages still on the websocket
  faults,    \* faults injected so far
  leaked,    \* history: orders whose cancel request failed
  \* the process's side
  position,  \* MarketState.position
  registry,  \* RiskManager.resting
  ref,       \* worker.bid_order / worker.ask_order
  cnt,       \* Order.count of the local Order object
  pend,      \* worker._pending_create: the parked client_order_id
  empties,   \* its tally of consecutive empty lookups
  age,       \* adopt lookups answered since the create was parked
  paused,    \* worker.pause_suspected
  evicted,   \* worker.evicted (on a flat market: the worker goes inert)
  cycle,     \* the running _requote: sides still to reconcile, and whether it may quote
  w,         \* where the worker's coroutine is suspended, and for which order
  r          \* where reconcile_pass is suspended, and what it holds across its awaits

exchangeVars == <<sent, sideOf, st, rem, truePos>>
worldVars    == <<fills, faults, leaked>>
bookVars     == <<position, registry, ref, cnt>>
parkVars     == <<pend, empties, age>>
workerVars   == <<parkVars, paused, evicted, cycle, w>>
vars == <<exchangeVars, worldVars, bookVars, workerVars, r>>

States  == {"new", "sent", "hidden", "live", "gone", "void"}
Resting(id) == st[id] \in {"hidden", "live"}
Listed      == {id \in Ids : st[id] = "live"}
Working(id) == Resting(id) \/ st[id] = "sent"
Settled(id) == st[id] \notin {"sent", "hidden"}
Landed(id)  == st[id] \in {"hidden", "live", "gone"}

Refs   == {ref[s] : s \in Sides} \ {None}
Parked == {pend[s] : s \in Sides} \ {None}

Sign(s)        == IF s = "bid" THEN 1 ELSE -1
Magnitude(x)   == IF x < 0 THEN -x ELSE x
Clamped(x)     == IF x < 0 THEN 0 ELSE x
FirstOf(sides) == IF "bid" \in sides THEN "bid" ELSE "ask"

\* Seeded bug (each is a change to the definition after it that some property
\* below must catch): a release is forgotten.
ReleaseSkipped(registered, n) == registered

\* release_order: a double release clamps at 0.
Released(registered, n) == Clamped(registered - n)

Idle == [pc |-> "idle", side |-> "bid", id |-> None, found |-> 0]

\* An order that rests is taken off the book; for any other nothing happens.
Removed(id) ==
  /\ st' = IF Resting(id) THEN [st EXCEPT ![id] = "gone"] ELSE st
  /\ rem' = IF Resting(id) THEN [rem EXCEPT ![id] = 0] ELSE rem

PassIdle == [pc |-> "idle", snap |-> {}, missing |-> {}, extra |-> {}, pos |-> 0]

-----------------------------------------------------------------------------
Init ==
  /\ sent = 0
  /\ sideOf = [id \in Ids |-> "bid"]
  /\ st = [id \in Ids |-> "new"]
  /\ rem = [id \in Ids |-> 0]
  /\ truePos = 0
  /\ fills = [id \in Ids |-> 0]
  /\ faults = 0
  /\ leaked = {}
  /\ position = 0
  /\ registry = [s \in Sides |-> 0]
  /\ ref = [s \in Sides |-> None]
  /\ cnt = [id \in Ids |-> 0]
  /\ pend = [s \in Sides |-> None]
  /\ empties = [s \in Sides |-> 0]
  /\ age = [s \in Sides |-> 0]
  /\ paused = FALSE
  /\ evicted = FALSE
  /\ cycle = [left |-> {}, quotes |-> FALSE]
  /\ w = Idle
  /\ r = PassIdle

-----------------------------------------------------------------------------
(***************************************************************************)
(* The worker: MarketWorker.run, _requote and _reconcile.                  *)
(***************************************************************************)

\* The next _reconcile call is for side s, of a requote that may quote or only
\* pulls.  A requote reconciles the bid, then the ask; an evicted worker starts no
\* other, and while the market is suspected paused only _requote's pulls run.
Turn(s, quotes) ==
  /\ w.pc = "idle"
  /\ IF cycle.left = {}
     THEN s = FirstOf(Sides) /\ ~evicted /\ (quotes => ~paused)
     ELSE s = FirstOf(cycle.left) /\ quotes = cycle.quotes

Left == IF cycle.left = {} THEN Sides ELSE cycle.left

\* _reconcile suspends at an await, holding an order.
Suspends(pc, s, quotes, id) ==
  /\ w' = [pc |-> pc, side |-> s, id |-> id, found |-> 0]
  /\ cycle' = [left |-> Left, quotes |-> quotes]

\* _reconcile returns and its caller assigns the result, an order with n contracts,
\* to the side's reference; the count of an order nobody references is forgotten.
Returns(s, quotes, order, n) ==
  /\ ref' = [ref EXCEPT ![s] = order]
  /\ cnt' = [id \in Ids |-> IF id = order THEN n
                            ELSE IF \E t \in Sides \ {s} : ref[t] = id THEN cnt[id] ELSE 0]
  /\ cycle' = [left |-> Left \ {s}, quotes |-> quotes /\ Left # {s}]
  /\ w' = Idle

\* approve_order: an order that shrinks the position always passes, any other
\* must keep the position plus the side's registered orders within the cap.
Approved(s, size, registered) ==
  \/ Magnitude(position + Sign(s) * size) < Magnitude(position)
  \/ Magnitude(position + Sign(s) * (registered + size)) <= Cap

\* What is left of _reconcile once no old order is in the way: place an approved
\* order and wait for the exchange, or leave the side empty (no price, no size,
\* a cooloff, a suspected pause or a refused approval).
PlaceOrLeave(s, quotes, registered) ==
  /\ registry' = [registry EXCEPT ![s] = registered]
  /\ \/ /\ Returns(s, quotes, None, 0)
        /\ UNCHANGED <<sent, sideOf, st, rem>>
     \/ \E size \in 1 .. MaxSize :
          /\ quotes /\ ~paused /\ sent < MaxOrders
          /\ Approved(s, size, registered)
          /\ sent' = sent + 1
          /\ sideOf' = [sideOf EXCEPT ![sent + 1] = s]
          /\ st' = [st EXCEPT ![sent + 1] = "sent"]
          /\ rem' = [rem EXCEPT ![sent + 1] = size]
          /\ cnt' = [cnt EXCEPT ![sent + 1] = size]
          /\ Suspends("create", s, quotes, sent + 1)
          /\ UNCHANGED ref

\* A confirmed guard trip evicts a market that is flat: this requote pulls both
\* sides and is the last.
Evict ==
  /\ MayEvict /\ position = 0
  /\ w.pc = "idle" /\ cycle.left = {} /\ ~evicted /\ ~paused
  /\ cycle' = [left |-> Sides, quotes |-> FALSE]
  /\ evicted' = TRUE
  /\ UNCHANGED <<exchangeVars, worldVars, bookVars, parkVars, paused, w, r>>

\* pause_suspected clears itself after five minutes without a reconcile pass.
PauseTimeout ==
  /\ w.pc = "idle" /\ cycle.left = {} /\ ~evicted /\ paused
  /\ paused' = FALSE
  /\ UNCHANGED <<exchangeVars, worldVars, bookVars, parkVars, evicted, cycle, w, r>>

\* An ambiguous create still inside its adopt delay, or an order worth keeping.
Keep(s, quotes) ==
  /\ Turn(s, quotes)
  /\ pend[s] # None \/ (ref[s] # None /\ quotes)
  /\ Returns(s, quotes, ref[s], IF ref[s] = None THEN 0 ELSE cnt[ref[s]])
  /\ UNCHANGED <<exchangeVars, worldVars, position, registry, parkVars, paused, evicted, r>>

\* Nothing parked and nothing resting on this side.
Place(s, quotes) ==
  /\ Turn(s, quotes) /\ pend[s] = None /\ ref[s] = None
  /\ PlaceOrLeave(s, quotes, registry[s])
  /\ UNCHANGED <<truePos, worldVars, position, parkVars, paused, evicted, r>>

\* The old order is to be replaced or pulled: cancel it first.
StartCancel(s, quotes) ==
  /\ Turn(s, quotes) /\ pend[s] = None /\ ref[s] # None
  /\ Suspends("cancel", s, quotes, ref[s])
  /\ UNCHANGED <<exchangeVars, worldVars, bookVars, parkVars, paused, evicted, r>>

\* The exchange removes the order, or answers 404 because it is gone already.
CancelServed ==
  /\ w.pc = "cancel"
  /\ Removed(w.id)
  /\ w' = [w EXCEPT !.pc = "cancelled"]
  /\ UNCHANGED <<sent, sideOf, truePos, worldVars, bookVars, parkVars, paused, evicted,
                 cycle, r>>

\* The request fails every retry; _reconcile logs the error and goes on.
CancelFails ==
  /\ w.pc = "cancel" /\ faults < MaxFaults
  /\ faults' = faults + 1
  /\ leaked' = leaked \cup {w.id}
  /\ w' = [w EXCEPT !.pc = "cancelled"]
  /\ UNCHANGED <<exchangeVars, fills, bookVars, parkVars, paused, evicted, cycle, r>>

\* Either way the exposure is released before anything new is placed.
AfterCancel ==
  /\ w.pc = "cancelled"
  /\ PlaceOrLeave(w.side, cycle.quotes, Released(registry[w.side], cnt[w.id]))
  /\ UNCHANGED <<truePos, worldVars, position, parkVars, paused, evicted, r>>

\* The create is answered: the exposure is registered and the order tracked,
\* although it may have been filled or cancelled meanwhile.
CreateOk ==
  /\ w.pc = "create" /\ Landed(w.id)
  /\ registry' = [registry EXCEPT ![w.side] = @ + cnt[w.id]]
  /\ Returns(w.side, cycle.quotes, w.id, cnt[w.id])
  /\ UNCHANGED <<exchangeVars, worldVars, position, parkVars, paused, evicted, r>>

\* A definite rejection: trading_is_paused, which suspends the market, or any 4xx.
CreateRejected(pause) ==
  /\ w.pc = "create" /\ st[w.id] = "sent"
  /\ st' = [st EXCEPT ![w.id] = "void"]
  /\ rem' = [rem EXCEPT ![w.id] = 0]
  /\ paused' = (paused \/ pause)
  /\ Returns(w.side, cycle.quotes, None, 0)
  /\ UNCHANGED <<sent, sideOf, truePos, worldVars, position, registry, parkVars, evicted, r>>

\* The cid is parked, with a tally of empty lookups.
Parks(s, id, tally) ==
  /\ pend' = [pend EXCEPT ![s] = id]
  /\ empties' = [empties EXCEPT ![s] = tally]

\* A timeout or a 5xx: the order may rest, may yet land, or may be lost.
CreateAmbiguous ==
  /\ w.pc = "create"
  /\ Parks(w.side, w.id, 0)
  /\ age' = [age EXCEPT ![w.side] = 0]
  /\ Returns(w.side, cycle.quotes, None, 0)
  /\ UNCHANGED <<exchangeVars, worldVars, position, registry, paused, evicted, r>>

\* The adopt delay is over: the cid is unparked, and looked up.
StartLookup(s, quotes) ==
  /\ Turn(s, quotes) /\ pend[s] # None
  /\ pend' = [pend EXCEPT ![s] = None]
  /\ Suspends("lookup", s, quotes, pend[s])
  /\ UNCHANGED <<exchangeVars, worldVars, bookVars, empties, age, paused, evicted, r>>

\* The exchange answers with the orders it lists.  ListDelay is the assumption
\* that a create is settled by its ListDelay-th lookup.
LookupServed ==
  /\ w.pc = "lookup"
  /\ age[w.side] >= ListDelay => Settled(w.id)
  /\ WsFirst => fills[w.id] = 0
  /\ w' = [w EXCEPT !.pc = "lookedUp", !.found = IF w.id \in Listed THEN rem[w.id] ELSE 0]
  /\ age' = [age EXCEPT ![w.side] = IF @ < ListDelay THEN @ + 1 ELSE @]
  /\ UNCHANGED <<exchangeVars, worldVars, bookVars, pend, empties, paused, evicted, cycle, r>>

\* A lookup that raises parks the cid again and restarts the tally.
LookupFails ==
  /\ w.pc \in {"lookup", "lookedUp"}
  /\ Parks(w.side, w.id, 0)
  /\ Returns(w.side, cycle.quotes, None, 0)
  /\ UNCHANGED <<exchangeVars, worldVars, position, registry, age, paused, evicted, r>>

\* Found resting: adopted with the remaining count the exchange reported.
Adopt ==
  /\ w.pc = "lookedUp" /\ w.found > 0
  /\ registry' = [registry EXCEPT ![w.side] = @ + w.found]
  /\ Returns(w.side, cycle.quotes, w.id, w.found)
  /\ age' = [age EXCEPT ![w.side] = 0]
  /\ empties' = [empties EXCEPT ![w.side] = 0]
  /\ UNCHANGED <<exchangeVars, worldVars, position, pend, paused, evicted, r>>

\* Seeded bug: one empty lookup proves the loss.
LostAtOnce(tally) == tally >= 1

\* Enough consecutive empty lookups to call the create lost.
LostAfter(tally) == tally >= ConfirmLost

\* Not found, and not often enough to call it lost.
StillUnknown ==
  /\ w.pc = "lookedUp" /\ w.found = 0 /\ ~LostAfter(empties[w.side] + 1)
  /\ Parks(w.side, w.id, empties[w.side] + 1)
  /\ Returns(w.side, cycle.quotes, None, 0)
  /\ UNCHANGED <<exchangeVars, worldVars, position, registry, age, paused, evicted, r>>

\* Confirmed lost: the side is free, and may be quoted again at once.
ConfirmedLost ==
  /\ w.pc = "lookedUp" /\ w.found = 0 /\ LostAfter(empties[w.side] + 1)
  /\ PlaceOrLeave(w.side, cycle.quotes, registry[w.side])
  /\ age' = [age EXCEPT ![w.side] = 0]
  /\ empties' = [empties EXCEPT ![w.side] = 0]
  /\ UNCHANGED <<truePos, worldVars, position, pend, paused, evicted, r>>

-----------------------------------------------------------------------------
(***************************************************************************)
(* The exchange and the websocket.                                         *)
(***************************************************************************)

\* A create request reaches the exchange and the order rests ...
Land(id) ==
  /\ st[id] = "sent"
  /\ st' = [st EXCEPT ![id] = IF ListLag THEN "hidden" ELSE "live"]
  /\ UNCHANGED <<sent, sideOf, rem, truePos, worldVars, bookVars, workerVars, r>>

\* ... or is lost on the way.
Lose(id) ==
  /\ st[id] = "sent"
  /\ st' = [st EXCEPT ![id] = "void"]
  /\ rem' = [rem EXCEPT ![id] = 0]
  /\ UNCHANGED <<sent, sideOf, truePos, worldVars, bookVars, workerVars, r>>

\* The eventually consistent resting list catches up with the book.
Show(id) ==
  /\ st[id] = "hidden"
  /\ st' = [st EXCEPT ![id] = "live"]
  /\ UNCHANGED <<sent, sideOf, rem, truePos, worldVars, bookVars, workerVars, r>>

\* One contract trades, and a fill message leaves for the bot.
Trade(id) ==
  /\ Resting(id)
  /\ rem' = [rem EXCEPT ![id] = @ - 1]
  /\ st' = IF rem[id] = 1 THEN [st EXCEPT ![id] = "gone"] ELSE st
  /\ truePos' = truePos + Sign(sideOf[id])
  /\ fills' = [fills EXCEPT ![id] = @ + 1]
  /\ UNCHANGED <<sent, sideOf, faults, leaked, bookVars, workerVars, r>>

\* The TTL expires, or the exchange cancels on a pause or a group trip.
Expire(id) ==
  /\ Resting(id) /\ Removed(id)
  /\ UNCHANGED <<sent, sideOf, truePos, worldVars, bookVars, workerVars, r>>

\* FillDispatcher: the position moves first, then order_filled takes the contract
\* off the tracked order it belongs to, if that order is still tracked.
DeliverFill(id) ==
  LET s == sideOf[id] IN
  /\ fills[id] > 0
  /\ fills' = [fills EXCEPT ![id] = @ - 1]
  /\ position' = position + Sign(s)
  /\ IF ref[s] = id
     THEN /\ cnt' = [cnt EXCEPT ![id] = Clamped(@ - 1)]
          /\ registry' = [registry EXCEPT ![s] = Released(@, 1)]
          /\ ref' = IF cnt[id] <= 1 THEN [ref EXCEPT ![s] = None] ELSE ref
     ELSE UNCHANGED <<cnt, registry, ref>>
  /\ UNCHANGED <<exchangeVars, faults, leaked, workerVars, r>>

\* The websocket is down when the message is sent: the fill is never delivered.
DropFill(id) ==
  /\ fills[id] > 0 /\ faults < MaxFaults
  /\ faults' = faults + 1
  /\ fills' = [fills EXCEPT ![id] = @ - 1]
  /\ UNCHANGED <<exchangeVars, leaked, bookVars, workerVars, r>>

-----------------------------------------------------------------------------
(***************************************************************************)
(* reconcile_pass.  Each REST call is a pair of steps: the exchange takes  *)
(* the snapshot, and the task acts on it some time later.                  *)
(***************************************************************************)

PassUnchanged == UNCHANGED <<exchangeVars, worldVars, bookVars, workerVars>>

\* The first listing of every resting order.
ListAll ==
  /\ r.pc = "idle"
  /\ r' = [r EXCEPT !.pc = "listed", !.snap = Listed]
  /\ PassUnchanged

\* Diffed against the references held when the answer arrives.
Diff ==
  /\ r.pc = "listed"
  /\ LET missing == Refs \ r.snap
         extra   == r.snap \ Refs
     IN  r' = [PassIdle EXCEPT
                 !.pc = IF missing \cup extra = {} THEN "repaired" ELSE "diffed",
                 !.missing = missing, !.extra = extra]
  /\ PassUnchanged

\* The per-ticker confirmation fetch.
Confirm ==
  /\ r.pc = "diffed"
  /\ r' = [r EXCEPT !.pc = "confirmed", !.snap = Listed]
  /\ PassUnchanged

\* Seeded bugs: the first listing is trusted; a vanished order is only reported;
\* a market with a tracked order is taken to have no orphan.
VanishedUnconfirmed == {id \in r.missing : id \in Refs}
VanishedReported    == {}
OrphansIfUntracked(refs) ==
  {id \in r.extra \cap r.snap : refs = {} /\ id \notin Parked}

\* The orders whose references are dropped, and the orders still to be cancelled.
Vanished == {id \in r.missing : id \notin r.snap /\ id \in Refs}
Orphans(refs) == {id \in r.extra \cap r.snap : id \notin refs /\ id \notin Parked}

\* Vanished references are cleared and their exposure released; which orphans to
\* cancel is decided here, once, before the first cancel is awaited.
Repair ==
  /\ r.pc = "confirmed"
  /\ ref' = [s \in Sides |-> IF ref[s] \in Vanished THEN None ELSE ref[s]]
  /\ registry' = [s \in Sides |-> IF ref[s] \in Vanished
                                  THEN Released(registry[s], cnt[ref[s]])
                                  ELSE registry[s]]
  /\ r' = [PassIdle EXCEPT !.pc = "cancelling", !.extra = Orphans(Refs \ Vanished)]
  /\ UNCHANGED <<exchangeVars, worldVars, position, cnt, workerVars>>

OrphanCancel(id) ==
  /\ r.pc = "cancelling" /\ id \in r.extra
  /\ Removed(id)
  /\ r' = [r EXCEPT !.extra = @ \ {id}]
  /\ UNCHANGED <<sent, sideOf, truePos, worldVars, bookVars, workerVars>>

\* A failed orphan cancel is logged, and left to the next pass.
OrphanCancelFails(id) ==
  /\ r.pc = "cancelling" /\ id \in r.extra /\ faults < MaxFaults
  /\ faults' = faults + 1
  /\ r' = [r EXCEPT !.extra = @ \ {id}]
  /\ UNCHANGED <<exchangeVars, fills, leaked, bookVars, workerVars>>

\* Position drift: the exchange's positions are read ...
FetchPositions ==
  /\ \/ r.pc = "repaired"
     \/ r.pc = "cancelling" /\ r.extra = {}
  /\ WsFirst => \A id \in Ids : fills[id] = 0
  /\ r' = [PassIdle EXCEPT !.pc = "positions", !.pos = truePos]
  /\ PassUnchanged

\* Seeded bug: the exchange's position is only taken where none is held.
AdoptedIfFlat(pos) == IF position = 0 THEN pos ELSE position

\* The exchange's position replaces the local one when they differ.
Adopted(pos) == IF pos = position THEN position ELSE pos

\* ... and adopted; suspended markets get their probe.
AdoptDrift ==
  /\ r.pc = "positions"
  /\ position' = Adopted(r.pos)
  /\ paused' = FALSE
  /\ r' = PassIdle
  /\ UNCHANGED <<exchangeVars, worldVars, registry, ref, cnt, parkVars, evicted, cycle, w>>

\* get_positions raises: nothing is adopted, the probe is still granted.
SkipDrift ==
  /\ r.pc = "positions" /\ faults < MaxFaults
  /\ faults' = faults + 1
  /\ paused' = FALSE
  /\ r' = PassIdle
  /\ UNCHANGED <<exchangeVars, fills, leaked, bookVars, parkVars, evicted, cycle, w>>

\* A listing raises, or wait_for times the pass out at any await.
PassFails ==
  /\ r.pc # "idle" /\ faults < MaxFaults
  /\ faults' = faults + 1
  /\ r' = PassIdle
  /\ UNCHANGED <<exchangeVars, fills, leaked, bookVars, workerVars>>

-----------------------------------------------------------------------------
Worker ==
  \/ \E s \in Sides, quotes \in BOOLEAN :
       \/ Keep(s, quotes) \/ Place(s, quotes)
       \/ StartCancel(s, quotes) \/ StartLookup(s, quotes)
  \/ Evict
  \/ PauseTimeout
  \/ CancelServed
  \/ CancelFails
  \/ AfterCancel
  \/ CreateOk
  \/ \E pause \in BOOLEAN : CreateRejected(pause)
  \/ CreateAmbiguous
  \/ LookupServed
  \/ LookupFails
  \/ Adopt
  \/ StillUnknown
  \/ ConfirmedLost

Exchange ==
  \E id \in Ids : \/ Land(id) \/ Lose(id) \/ Show(id) \/ Trade(id) \/ Expire(id)
                  \/ DeliverFill(id) \/ DropFill(id)

Reconcile ==
  \/ ListAll
  \/ Diff
  \/ Confirm
  \/ Repair
  \/ \E id \in Ids : OrphanCancel(id) \/ OrphanCancelFails(id)
  \/ FetchPositions
  \/ AdoptDrift
  \/ SkipDrift
  \/ PassFails

Next == Worker \/ Exchange \/ Reconcile

Spec == Init /\ [][Next]_vars

\* Fairness: the reconcile task runs forever and its REST calls are answered
\* (reconcile_loop), the websocket delivers what it carries, and the resting list
\* is eventually consistent.  Nothing is assumed of the worker, trades or the TTL.
ReconcileProgress ==
  \/ ListAll \/ Diff \/ Confirm \/ Repair \/ FetchPositions \/ AdoptDrift
  \/ \E id \in Ids : OrphanCancel(id)

FairSpec ==
  /\ Spec
  /\ WF_vars(ReconcileProgress)
  /\ WF_vars(\E id \in Ids : DeliverFill(id))
  /\ WF_vars(\E id \in Ids : Show(id))

-----------------------------------------------------------------------------
(***************************************************************************)
(* Properties.                                                             *)
(***************************************************************************)

\* The states the variables range over.
PCs       == {"idle", "lookup", "lookedUp", "cancel", "cancelled", "create"}
PassPCs   == {"idle", "listed", "diffed", "confirmed", "cancelling", "repaired", "positions"}
WorkerPos == [pc : PCs, side : {"bid", "ask"}, id : Slot, found : Nat]
PassPos   == [pc : PassPCs, snap : SUBSET Ids, missing : SUBSET Ids,
              extra : SUBSET Ids, pos : Int]

ExchangeTypes ==
  /\ sent \in 0 .. MaxOrders
  /\ sideOf \in [Ids -> {"bid", "ask"}]
  /\ st \in [Ids -> States]
  /\ rem \in [Ids -> Nat]
  /\ truePos \in Int
WorldTypes ==
  /\ fills \in [Ids -> Nat]
  /\ faults \in Nat
  /\ leaked \subseteq Ids
BookTypes ==
  /\ position \in Int
  /\ registry \in [Sides -> Nat]
  /\ ref \in [Sides -> Slot]
  /\ cnt \in [Ids -> Nat]
ParkTypes ==
  /\ pend \in [Sides -> Slot]
  /\ empties \in [Sides -> Nat]
  /\ age \in [Sides -> Nat]
WorkerTypes ==
  /\ paused \in BOOLEAN
  /\ evicted \in BOOLEAN
  /\ cycle \in [left : SUBSET Sides, quotes : BOOLEAN]
  /\ w \in WorkerPos
TypeOK == ExchangeTypes /\ WorldTypes /\ BookTypes /\ ParkTypes /\ WorkerTypes /\ r \in PassPos

\* The exposure registry, released and registered from four places across awaits,
\* is at every step exactly the tracked order's unfilled count, except while its
\* replacement is being created: then the old order has been released already.
RegistryMatchesRefs ==
  \A s \in Sides :
    registry[s] = IF ref[s] = None \/ (w.pc = "create" /\ w.side = s)
                  THEN 0 ELSE cnt[ref[s]]

\* The order the worker's coroutine is creating or looking up right now.
InHand == IF w.pc \in {"create", "lookup", "lookedUp"} THEN {w.id} ELSE {}

\* Every order that rests, or may yet rest, is tracked, parked or in hand, unless
\* its cancel failed: no interleaving of the worker, the fills and the reconcile
\* pass lets go of an order (the module comment of reconcile.py says why one that
\* is not tracked is worse than none).
NoStrayOrder ==
  \A id \in Ids : Working(id) => id \in Refs \cup Parked \cup InHand \cup leaked

\* reconcile_pass releases an order's exposure only when that order is dead: "we
\* must never release exposure a live replacement still needs" (reconcile.py).
VanishIsSound ==
  [][r.pc = "confirmed" /\ r.pc' # "confirmed" =>
       \A s \in Sides : ref[s] # None /\ ref'[s] = None => ~Working(ref[s])]_vars

\* The abstract promise: per side, one order at a time is at work.
AtWork == [s \in Sides |-> {id \in Ids \ leaked : Working(id) /\ sideOf[id] = s}]
OneAtATime == INSTANCE SingleQuote WITH Orders <- Ids, slot <- AtWork
NeverDoublePlaces == OneAtATime!Spec

\* An order nothing tracks is off the book in the end, without waiting for its
\* TTL: the reconcile pass finds it and cancels it.
StrayOrderCancelled ==
  \A id \in Ids :
    (Resting(id) /\ id \notin Refs \cup Parked \cup InHand) ~> ~Resting(id)

\* A reference to a dead order does not survive: the worker would count its
\* exposure and never quote that side again.
GhostRefCleared ==
  \A s \in Sides, id \in Ids : (ref[s] = id /\ st[id] = "gone") ~> (ref[s] # id)

\* Lost fills, and fills that race the adoption of the exchange's position, do not
\* leave the position wrong for good.
PositionConverges == <>[](position = truePos)

-----------------------------------------------------------------------------
(***************************************************************************)
(* The inductive invariants behind RegistryMatchesRefs and NoStrayOrder.   *)
(***************************************************************************)

\* What the exchange knows of an order follows the order's life.
OrderShape ==
  \A id \in Ids :
    /\ id > sent <=> st[id] = "new"
    /\ Working(id) => rem[id] > 0
    /\ st[id] \in {"new", "sent", "void"} => fills[id] = 0
    /\ id \in leaked => st[id] # "new"
    /\ st[id] # "new" => sideOf[id] \in Sides

\* A reference is to a landed order of its side with contracts left, and a side
\* with a reference has nothing parked.
RefShape ==
  \A s \in Sides :
    /\ ref[s] # None => /\ sideOf[ref[s]] = s
                        /\ Landed(ref[s])
                        /\ cnt[ref[s]] > 0
                        /\ pend[s] = None
    /\ pend[s] # None => sideOf[pend[s]] = s /\ st[pend[s]] # "new"

\* What the suspended coroutine holds, at each of its awaits.
HandShape ==
  w.pc # "idle" =>
    /\ w.side \in Sides /\ w.id \in Ids
    /\ sideOf[w.id] = w.side /\ st[w.id] # "new" /\ pend[w.side] = None
    /\ w.pc \in {"cancel", "cancelled"} => ref[w.side] \in {w.id, None} /\ Landed(w.id)
    /\ w.pc = "create" => ref[w.side] # w.id /\ cnt[w.id] > 0
    /\ w.pc \in {"lookup", "lookedUp"} => ref[w.side] = None
    /\ w.pc = "lookedUp" /\ w.found > 0 => Landed(w.id)

RegistryInv == TypeOK /\ OrderShape /\ RefShape /\ HandShape /\ RegistryMatchesRefs

\* A tracked count covers what still rests and the fill messages on their way, so
\* a fill clears a reference only when the order is done.
Covers(id, n) == Working(id) => n >= rem[id] + fills[id]
CountsCover ==
  /\ \A s \in Sides : ref[s] # None => Covers(ref[s], cnt[ref[s]])
  /\ w.pc = "create" => Covers(w.id, cnt[w.id])
  /\ w.pc = "lookedUp" /\ w.found > 0 => Covers(w.id, w.found)

\* An order about to lose its reference is dead, or its cancel failed.
Superseded ==
  /\ w.pc = "cancelled" => ~Working(w.id) \/ w.id \in leaked
  /\ w.pc = "create" /\ ref[w.side] # None
       => ~Working(ref[w.side]) \/ ref[w.side] \in leaked

\* Empty lookups are counted no faster than the listing settles.
LookupsSettle ==
  /\ \A s \in Sides : pend[s] # None => empties[s] <= age[s] \/ age[s] >= ListDelay
  /\ w.pc = "lookup" => empties[w.side] <= age[w.side] \/ age[w.side] >= ListDelay
  /\ w.pc = "lookedUp" => empties[w.side] + 1 <= age[w.side] \/ age[w.side] >= ListDelay
  /\ w.pc = "lookedUp" /\ w.found = 0 /\ empties[w.side] >= ListDelay => ~Working(w.id)

\* An order missing from both listings of a pass had landed before the second.
PassSound ==
  /\ r.pc \in {"diffed", "confirmed"} =>
       \A id \in r.missing : st[id] \in {"live", "gone"}
  /\ r.pc = "confirmed" => \A id \in r.missing \ r.snap : st[id] = "gone"

StrayInv ==
  /\ RegistryInv /\ NoStrayOrder /\ CountsCover /\ Superseded /\ LookupsSettle /\ PassSound
  /\ \A id \in Ids : st[id] # "hidden"
=============================================================================
