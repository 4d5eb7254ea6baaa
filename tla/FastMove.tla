------------------------------- MODULE FastMove -------------------------------
(***************************************************************************)
(* The fast-move guard of one market (FastMoveGuard) and what its worker   *)
(* makes of the trips (_requote's guard branch, _resolve_guard_trip).      *)
(*                                                                         *)
(* Updates come at any pace, several in one instant included; Tick lets    *)
(* time pass.  Times are kept as ages, prices in one unit; the effective   *)
(* threshold is kept in quarters of it, spread_multiple being 3/4.         *)
(***************************************************************************)
EXTENDS Integers, SequencesExt

CONSTANTS
  Mids, Spreads,
  Threshold,   \* WorkerConfig.fast_move_threshold
  Window, Cooloff,
  Confirm,     \* confirm_updates
  EvictTrips,  \* guard_evict_trips
  MaxUpdates,  \* bound: updates in a window
  None

ASSUME GuardAssumption ==
  /\ Mids \subseteq Nat /\ Spreads \subseteq Nat \ {0}
  /\ Threshold \in Nat \ {0} /\ Window \in Nat /\ Cooloff \in Nat /\ Cooloff > Window
  /\ Confirm \in Nat \ {0} /\ EvictTrips \in Nat \ {0} /\ MaxUpdates \in Nat

VARIABLES
  \* FastMoveGuard
  hist,      \* _hist, oldest first; an entry's spread is kept with its mid
  spreadMin, \* _spread_min, the monotonic deque
  left,      \* time to _blocked_until
  pend,      \* the pending move: direction, reference, steps, age
  trip,      \* the context of a trip the worker has not seen (trip_seq, trip_ref, trip_eff)
  \* MarketWorker
  latched,   \* _guard_trip_ref, _guard_trip_eff
  trips,     \* _guard_trips, counted no further than an eviction needs
  evicted,
  winding    \* reduce_only, of a worker evicted with a position

guard  == <<hist, spreadMin, left, pend>>
worker == <<latched, trips, evicted, winding>>
vars   == <<guard, trip, worker>>

Distance(a, b) == IF a < b THEN b - a ELSE a - b
Lower(a, b)    == IF a < b THEN a ELSE b
Higher(a, b)   == IF a < b THEN b ELSE a
Older(age)     == Lower(age + 1, Window + 1)
NoMove         == [dir |-> 0, ref |-> 0, steps |-> 0, age |-> 0]

\* Popped from the front while out of the window.
Live(seq) ==
  SubSeq(seq,
         CHOOSE n \in 1 .. Len(seq) + 1 :
           /\ \A i \in 1 .. n - 1 : seq[i].age > Window
           /\ n <= Len(seq) => seq[n].age <= Window,
         Len(seq))

\* Scaled by the prevailing spread, within the threshold and twice the threshold.
ScaledBy(spread) ==
  Lower(Higher(4 * Threshold, 3 * spread), 8 * Threshold)

Init ==
  /\ hist = <<>> /\ spreadMin = <<>> /\ left = 0 /\ pend = NoMove
  /\ trip = None /\ latched = None /\ trips = 0 /\ evicted = FALSE
  /\ winding = FALSE

-----------------------------------------------------------------------------
\* The front of the deque, what is out of the window dropped.
EffectiveThreshold ==
  IF Live(spreadMin) = <<>> THEN 4 * Threshold ELSE ScaledBy(Head(Live(spreadMin)).spread)

\* Popped from the back while no narrower than the spread.
Narrower(seq, spread) ==
  SubSeq(seq, 1,
         CHOOSE n \in 0 .. Len(seq) :
           /\ \A i \in n + 1 .. Len(seq) : seq[i].spread >= spread
           /\ n > 0 => seq[n].spread < spread)

\* Seeded bug: the wider entries in front of it are kept.
PushedWrong(spread) ==
  Append(Live(spreadMin), [age |-> 0, spread |-> spread])

\* _push_spread: entries older and no narrower are dropped.
Pushed(spread) ==
  Append(Narrower(Live(spreadMin), spread), [age |-> 0, spread |-> spread])

\* Seeded bug: a trip in a cool-off does not extend it.
TripOnce(ref, eff) ==
  IF left > 0 THEN UNCHANGED <<left, trip>>
  ELSE left' = Cooloff /\ trip' = [ref |-> ref, eff |-> eff]

\* _trip: in a cool-off it is extended, and the context stays the first one's.
Trip(ref, eff) ==
  /\ left' = Cooloff
  /\ IF left > 0 THEN UNCHANGED trip ELSE trip' = [ref |-> ref, eff |-> eff]

\* What the pending candidate becomes: opened, extended, forgotten, or as it was.
Pending(mid, step, last, windowRef, eff) ==
  LET kept  == IF pend.dir # 0 /\ pend.age > Window THEN NoMove ELSE pend
      big   == 4 * Distance(mid, last) >= eff
      moved == IF big THEN step ELSE mid - windowRef
      dir   == IF moved > 0 THEN 1 ELSE -1
      on    == [kept EXCEPT !.steps = Lower(@ + 1, Confirm)]
  IN  IF 4 * Higher(Distance(mid, last), Distance(mid, windowRef)) >= eff
      THEN IF dir = kept.dir THEN on
           ELSE [dir |-> dir, ref |-> IF big THEN last ELSE windowRef, steps |-> 1, age |-> 0]
      ELSE IF kept.dir # 0 /\ step * kept.dir > 0 THEN on
      ELSE IF kept.dir # 0 /\ step * kept.dir < 0 /\ 4 * Distance(mid, kept.ref) < eff THEN NoMove
      ELSE kept

\* A step, or the move over the window, too large to wait for a confirmation.
Shock(mid, last, windowRef, eff) ==
  \/ Distance(mid, last) >= 2 * Threshold
  \/ 4 * Distance(mid, windowRef) >= 2 * eff

\* on_book_top with both sides present: guard.update.
Update(mid, spread) ==
  LET eff  == EffectiveThreshold
      last == IF hist = <<>> THEN mid ELSE Last(hist).mid
      now  == Append(Live(hist), [age |-> 0, mid |-> mid, spread |-> spread])
      old  == Head(now).mid
      cand == Pending(mid, mid - last, last, old, eff)
  IN  /\ Len(now) <= MaxUpdates
      /\ hist' = now /\ spreadMin' = Pushed(spread)
      /\ IF Shock(mid, last, old, eff)
         THEN /\ Trip(IF Distance(mid, last) >= 2 * Threshold THEN last ELSE old, eff)
              /\ pend' = NoMove
         ELSE IF cand.steps >= Confirm /\ 4 * Distance(mid, cand.ref) >= eff
         THEN Trip(cand.ref, eff) /\ pend' = NoMove
         ELSE pend' = cand /\ UNCHANGED <<left, trip>>
      /\ UNCHANGED worker

Tick ==
  /\ hist' = [i \in DOMAIN hist |-> [hist[i] EXCEPT !.age = Older(@)]]
  /\ spreadMin' = [i \in DOMAIN spreadMin |-> [spreadMin[i] EXCEPT !.age = Older(@)]]
  /\ pend' = IF pend.dir = 0 THEN pend ELSE [pend EXCEPT !.age = Older(@)]
  /\ left' = Higher(left - 1, 0)
  /\ UNCHANGED <<trip, worker>>

-----------------------------------------------------------------------------
\* The context to be scored: of a trip the worker has not seen, or of the one it latched.
Seen == IF trip # None THEN trip ELSE latched

\* The move stuck: the mid is half the threshold away from where it came from.
Stuck(seen) == 8 * Distance(Last(hist).mid, seen.ref) >= seen.eff

\* Seeded bug: one trip too many is allowed.
ResolvedLate(seen) ==
  /\ latched' = None
  /\ trips' = IF Stuck(seen) /\ trips < EvictTrips THEN trips + 1 ELSE trips
  /\ evicted' = (evicted \/ (Stuck(seen) /\ trips = EvictTrips))
  /\ IF evicted' = evicted THEN UNCHANGED winding ELSE winding' \in BOOLEAN

\* _resolve_guard_trip: a move that stuck at the end of the cool-off counts.  A worker
\* evicted with a position goes on, to wind it down.
Resolved(seen) ==
  /\ latched' = None
  /\ trips' = IF Stuck(seen) /\ trips < EvictTrips THEN trips + 1 ELSE trips
  /\ evicted' = (trips' = EvictTrips)
  /\ IF evicted' = evicted THEN UNCHANGED winding ELSE winding' \in BOOLEAN

\* A pass of _requote that gets as far as the guard: a trip it has not seen is
\* latched, and scored when nothing is blocked.
Requote ==
  /\ hist # <<>> /\ (~evicted \/ winding)
  /\ trip' = None
  /\ IF left = 0 /\ Seen # None
     THEN Resolved(Seen)
     ELSE latched' = Seen /\ UNCHANGED <<trips, evicted, winding>>
  /\ UNCHANGED guard

-----------------------------------------------------------------------------
Next ==
  \/ \E mid \in Mids, spread \in Spreads : Update(mid, spread)
  \/ Tick
  \/ Requote

Spec == Init /\ [][Next]_vars

-----------------------------------------------------------------------------
(* Properties.                                                             *)

Context == [ref : Mids, eff : 4 * Threshold .. 8 * Threshold]

TypeOK ==
  /\ hist \in Seq([age : 0 .. Window + 1, mid : Mids, spread : Spreads])
  /\ spreadMin \in Seq([age : 0 .. Window + 1, spread : Spreads])
  /\ Len(hist) <= MaxUpdates /\ Len(spreadMin) <= MaxUpdates
  /\ left \in 0 .. Cooloff
  /\ pend \in [dir : {-1, 0, 1}, ref : Mids \cup {0}, steps : 0 .. Confirm,
               age : 0 .. Window + 1]
  /\ trip \in Context \cup {None} /\ latched \in Context \cup {None}
  /\ trips \in 0 .. EvictTrips /\ evicted \in BOOLEAN /\ winding \in BOOLEAN

\* The O(1) threshold is the one a scan of the window gives: no spread that still
\* counts was dropped from the deque and none that expired is left in front.
\* (_effective_threshold and _push_spread: "the front is therefore always the true
\* min over the live window")
SpreadMinExact ==
  LET live == {Live(hist)[i].spread : i \in DOMAIN Live(hist)} IN
  EffectiveThreshold =
    IF live = {} THEN 4 * Threshold
    ELSE ScaledBy(CHOOSE s \in live : \A other \in live : s <= other)

\* Whatever the spread did to the threshold and however the trips overlap, a gap of
\* twice the base threshold finds the guard blocking for as long as it is in the window.
\* (update: "spread scaling must never mute a true gap"; _trip extends the cool-off)
GapBlocks ==
  \A i \in DOMAIN Live(hist) \ {1} :
    Distance(Live(hist)[i].mid, Live(hist)[i - 1].mid) >= 2 * Threshold => left > 0

\* Guard and worker together are a breaker: whenever the worker looks, however many trips
\* fall between two of its passes, one cool-off, extended or not, is one episode with the
\* reference from before its first move; it is scored after the cool-off, at most once, and
\* the market is out at the EvictTrips-th that stuck.  (_trip, _requote, _resolve_guard_trip)
AsBreaker ==
  INSTANCE Breaker WITH Contexts <- Context, open <- left > 0, episode <- Seen,
                        count <- trips, out <- evicted
ActsAsBreaker == AsBreaker!Spec
=============================================================================
