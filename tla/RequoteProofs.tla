---------------------------- MODULE RequoteProofs ----------------------------
(***************************************************************************)
(* The cap holds (Requote!CapHeld) for every size, cap and bound, as long  *)
(* as a quote is no larger than the cap.                                   *)
(*                                                                         *)
(* What carries it is a potential of each side (Headroom): the position as *)
(* the worker knows it, and all that may still be added to it on that side *)
(* - what rests, what was sent and has not landed, the fills on their way. *)
(* No fill and no message moves it up; only a create does, and             *)
(* approve_order is asked of it when nothing of the side rests.            *)
(***************************************************************************)
EXTENDS Requote, TLAPS

Fits == QuoteSize <= Cap

Unheard == late["bid"] + late["ask"] + old["bid"] + old["ask"]

InHand(s) == cycle.pc = "create" /\ cycle.side = s

\* A create on its way to the book
Coming(s) == IF InHand(s) /\ ~cycle.landed THEN cycle.want[s] ELSE 0

BookTypes ==
  /\ rests \in Counts /\ ref \in Counts /\ registry = ref
  /\ held \in Int /\ position \in Int
  /\ late \in [Sides -> Nat] /\ old \in [Sides -> Nat]
  /\ Unheard <= MaxUnheard

Cycles ==
  [pc : {"idle", "turn", "cancel", "place", "create"}, side : Sides, want : Counts,
   landed : BOOLEAN]

WorkTypes ==
  /\ role \in {"quotes", "winds", "reaped", "evicted"}
  /\ blocked \in BOOLEAN /\ pulled \in BOOLEAN /\ paused \in BOOLEAN /\ sided \in BOOLEAN
  /\ cycle \in Cycles

\* Position and fills on their way are what the account holds.
Balance == held = position + late["bid"] + old["bid"] - late["ask"] - old["ask"]

\* The reference covers its order and the fills of it still to be heard of; while the
\* create is awaited there is none, and the order is what was sent.
Covers ==
  \A s \in Sides :
    /\ ~InHand(s) => rests[s] + late[s] <= ref[s]
    /\ InHand(s) => ref[s] = 0 /\ rests[s] + late[s] <= cycle.want[s]
    /\ InHand(s) /\ ~cycle.landed => rests[s] = 0 /\ late[s] = 0
    /\ cycle.pc = "place" /\ cycle.side = s => ref[s] = 0

Headroom ==
  \A s \in Sides :
    Sign(s) * position + rests[s] + late[s] + old[s] + Coming(s) <= Cap + MaxUnheard

CapInv == BookTypes /\ WorkTypes /\ Balance /\ Covers /\ Headroom

-----------------------------------------------------------------------------
(* The sizes.                                                              *)

\* The shading is a count, whatever the position.  (compute_quotes)
LEMMA ShadedType == ASSUME NEW q \in Int PROVE Shaded(q) \in Nat
<1> DEFINE n == QuoteSize * (Cap - Size(q))
<1>1. n \in Int
  BY RequoteAssumption DEF Size
<1>2. n \div Cap \in Int
  BY <1>1, RequoteAssumption
<1> HIDE DEF n
<1>3. \A up \in {0, 1} : Positive(n \div Cap + up) \in Nat
  BY <1>2 DEF Positive
<1> QED BY <1>3 DEF Shaded, n

\* A size is between nothing and quote_size.  (compute_quotes)
LEMMA RoomType == ASSUME NEW q \in Int, NEW s \in Sides PROVE Room(q, s) \in 0..QuoteSize
<1> DEFINE room == Positive(Lower(QuoteSize, Cap - Sign(s) * q))
<1>1. Sign(s) * q \in Int
  BY DEF Sign
<1>2. room \in 0..QuoteSize
  BY <1>1, RequoteAssumption DEF Positive, Lower
<1>3. \A k \in Nat : Lower(room, k) \in 0..QuoteSize
  BY <1>2, RequoteAssumption DEF Lower
<1> HIDE DEF room
<1> QED BY <1>2, <1>3, ShadedType DEF Room, room

\* What a cycle wants is a size for each side.  (the exit-only shaping of _requote)
LEMMA WantedType ==
  ASSUME NEW r, NEW priced \in SUBSET Sides, position \in Int
  PROVE  Wanted(r, priced) \in Counts
<1>1. ASSUME NEW s \in Sides PROVE Shaped(r, position, s, Room(position, s)) \in 0..QuoteSize
  <2>1. \A k \in 0..QuoteSize : Lower(k, Size(position)) \in 0..QuoteSize
    BY RequoteAssumption DEF Lower, Size
  <2>2. 0 \in 0..QuoteSize
    BY RequoteAssumption
  <2> QED BY <2>1, <2>2, RoomType DEF Shaped
<1>2. 0 \in 0..QuoteSize
  BY RequoteAssumption
<1> QED BY <1>1, <1>2 DEF Wanted, Counts

-----------------------------------------------------------------------------
(* The invariant.                                                          *)

LEMMA IdleType == Nothing \in Counts /\ Idle \in Cycles
<1>1. Nothing \in Counts
  BY RequoteAssumption DEF Nothing, Counts
<1> QED BY <1>1 DEF Idle, Cycles, Sides

\* The side is done with: the cycle goes on with the other, or ends.
LEMMA PastType ==
  ASSUME cycle \in Cycles, NEW s \in Sides
  PROVE  Past(s) \in Cycles /\ Past(s).pc \in {"turn", "idle"}
<1>1. [cycle EXCEPT !.pc = "turn", !.side = "ask"] \in Cycles
  BY DEF Cycles, Sides
<1>2. [cycle EXCEPT !.pc = "turn", !.side = "ask"].pc = "turn" /\ Idle.pc = "idle"
  BY DEF Cycles, Idle
<1> QED BY <1>1, <1>2, IdleType DEF Past

LEMMA CapInit == Init => CapInv
<1> SUFFICES ASSUME Init PROVE CapInv
  OBVIOUS
<1> USE RequoteAssumption DEF Init, Sides, Nothing, Idle
<1>1. BookTypes
  BY DEF BookTypes, Counts, Unheard
<1>2. WorkTypes
  BY IdleType DEF WorkTypes
<1>3. Balance /\ Covers /\ Headroom
  BY DEF Balance, Covers, Headroom, InHand, Coming, Sign
<1> QED BY <1>1, <1>2, <1>3 DEF CapInv

\* What the guard, the pulls, the reaper and the clock change leaves the books alone.
LEMMA FlagsKeep ==
  ASSUME CapInv, UNCHANGED <<exchange, books, cycle>>, WorkTypes'
  PROVE  CapInv'
BY DEF CapInv, BookTypes, Unheard, Balance, Covers, Headroom, InHand, Coming, exchange, books

\* A fill moves a contract from the book to the wire.
LEMMA FillKeeps ==
  ASSUME CapInv, NEW s \in Sides, Fill(s)
  PROVE  CapInv'
<1> USE RequoteAssumption DEF CapInv, Fill, exchange, books, flags, Sides, Sign
<1>1. /\ rests[s] \in 0..QuoteSize /\ rests' = [rests EXCEPT ![s] = rests[s] - 1]
      /\ late[s] \in Nat /\ late' = [late EXCEPT ![s] = late[s] + 1]
  BY DEF BookTypes, Counts
<1>2. BookTypes'
  BY <1>1 DEF BookTypes, Counts, Unheard
<1>3. WorkTypes'
  BY DEF WorkTypes, Cycles
<1>4. Balance'
  BY <1>1 DEF Balance, BookTypes
<1>5. Covers'
  BY <1>1 DEF Covers, BookTypes, Counts, InHand
<1>6. Headroom'
  BY <1>1 DEF Headroom, BookTypes, WorkTypes, Cycles, Counts, InHand, Coming
<1> QED BY <1>2, <1>3, <1>4, <1>5, <1>6

\* An order that expires leaves its reference, which covers it all the more.
LEMMA ExpireKeeps ==
  ASSUME CapInv, NEW s \in Sides, Expire(s)
  PROVE  CapInv'
<1> USE RequoteAssumption DEF CapInv, Expire, books, flags, Sides, Sign
<1>1. rests[s] \in 0..QuoteSize /\ rests' = [rests EXCEPT ![s] = 0] /\ late[s] \in Nat
  BY DEF BookTypes, Counts
<1>2. BookTypes'
  BY <1>1 DEF BookTypes, Counts, Unheard
<1>3. WorkTypes' /\ Balance'
  BY DEF WorkTypes, Cycles, Balance
<1>4. Covers'
  <2>1. \A t \in Sides :
          cycle.want[t] \in Nat /\ ref[t] \in Nat /\ rests[t] \in Nat /\ late[t] \in Nat
    BY DEF WorkTypes, Cycles, BookTypes, Counts
  <2>2. \A t \in Sides : rests'[t] \in {rests[t], 0}
    BY <1>1 DEF BookTypes, Counts
  <2> QED BY <2>1, <2>2 DEF Covers, InHand
<1>5. Headroom'
  BY <1>1 DEF Headroom, BookTypes, WorkTypes, Cycles, Counts, InHand, Coming
<1> QED BY <1>2, <1>3, <1>4, <1>5

\* A message of the tracked order: the reference gives up no more than the fill.
LEMMA HeardKeeps ==
  ASSUME CapInv, NEW s \in Sides, Heard(s)
  PROVE  CapInv'
<1> USE RequoteAssumption DEF CapInv, Heard, exchange, books, flags, Sides, Sign, Positive
<1>1. /\ late[s] \in Nat /\ late' = [late EXCEPT ![s] = late[s] - 1] /\ late[s] > 0
      /\ ref[s] \in 0..QuoteSize /\ ref' = [ref EXCEPT ![s] = Positive(ref[s] - 1)]
      /\ registry' = ref'
  <2>1. ref \in Counts /\ registry = ref /\ ref[s] \in 0..QuoteSize
    BY DEF BookTypes, Counts
  <2>2. CASE ref[s] = 0
    <3>1. [ref EXCEPT ![s] = 0] = ref
      BY <2>1, <2>2 DEF Counts
    <3> QED BY <2>1, <2>2, <3>1 DEF BookTypes
  <2>3. CASE ref[s] > 0
    BY <2>1, <2>3 DEF BookTypes
  <2> QED BY <2>1, <2>2, <2>3
<1>2. Positive(ref[s] - 1) \in 0..QuoteSize
  BY <1>1
<1>3. ref' \in Counts /\ late' \in [Sides -> Nat]
  BY <1>1, <1>2 DEF BookTypes, Counts
<1>4. BookTypes'
  <2>1. Unheard' <= MaxUnheard
    BY <1>1 DEF BookTypes, Unheard
  <2>2. position' \in Int
    BY DEF BookTypes
  <2> QED BY <1>1, <1>3, <2>1, <2>2 DEF BookTypes
<1>5. WorkTypes'
  BY DEF WorkTypes, Cycles
<1>6. Balance'
  BY <1>1 DEF Balance, BookTypes
<1>7. \A t \in Sides : rests[t] \in Nat /\ late[t] \in Nat /\ ref[t] \in Nat /\ late'[t] \in Nat
  BY <1>3 DEF BookTypes, Counts
<1>8. ASSUME NEW t \in Sides
      PROVE  /\ late'[t] <= late[t]
             /\ rests[t] + late[t] <= ref[t] => rests[t] + late'[t] <= ref'[t]
             /\ ref[t] = 0 => ref'[t] = 0
  <2>1. CASE t = s
    BY <1>1, <1>7, <2>1 DEF BookTypes, Counts
  <2>2. CASE t # s
    BY <1>1, <1>7, <2>2 DEF BookTypes, Counts
  <2> QED BY <2>1, <2>2
<1>9. Covers'
  <2>1. \A t \in Sides : cycle.want[t] \in Nat
    BY DEF WorkTypes, Cycles, Counts
  <2> QED BY <1>7, <1>8, <2>1 DEF Covers, InHand
<1>10. Headroom'
  BY <1>1 DEF Headroom, BookTypes, WorkTypes, Cycles, Counts, InHand, Coming
<1> QED BY <1>4, <1>5, <1>6, <1>9, <1>10

LEMMA HeardOldKeeps ==
  ASSUME CapInv, NEW s \in Sides, HeardOld(s)
  PROVE  CapInv'
<1> USE RequoteAssumption DEF CapInv, HeardOld, exchange, books, flags, Sides, Sign
<1>1. old[s] \in Nat /\ old' = [old EXCEPT ![s] = old[s] - 1] /\ old[s] > 0
  BY DEF BookTypes
<1>2. BookTypes'
  BY <1>1 DEF BookTypes, Counts, Unheard
<1>3. WorkTypes' /\ Covers'
  BY DEF WorkTypes, Covers, InHand
<1>4. Balance'
  BY <1>1 DEF Balance, BookTypes
<1>5. Headroom'
  BY <1>1 DEF Headroom, BookTypes, WorkTypes, Cycles, Counts, InHand, Coming
<1> QED BY <1>2, <1>3, <1>4, <1>5

\* A cycle that begins decides on sizes and nothing else.
LEMMA StartsKeeps ==
  ASSUME CapInv, NEW want \in Counts, Starts(want),
         role' \in {"quotes", "winds", "reaped", "evicted"}
  PROVE  CapInv'
<1> USE DEF CapInv, Starts, Begins, exchange, books
<1>1. WorkTypes'
  BY DEF WorkTypes, Cycles, Sides
<1>2. BookTypes' /\ Balance'
  BY DEF BookTypes, Unheard, Balance
<1>3. Covers' /\ Headroom'
  BY DEF Covers, Headroom, InHand, Coming
<1> QED BY <1>1, <1>2, <1>3

\* approve_order, asked when nothing of the side rests, leaves room for what it lets
\* through and for all the fills it does not know of.
LEMMA ApprovedFits ==
  ASSUME Fits, BookTypes, NEW s \in Sides, NEW n \in 0..QuoteSize, n > 0, Approved(s, n)
  PROVE  Sign(s) * position + n <= Cap
<1> USE RequoteAssumption DEF Fits, Approved, Size, Sign, Sides, BookTypes, Counts
<1>1. CASE s = "bid"
  BY <1>1
<1>2. CASE s = "ask"
  BY <1>2
<1> QED BY <1>1, <1>2

LEMMA PlaceKeeps ==
  ASSUME Fits, CapInv, NEW s \in Sides, cycle.side = s, cycle.pc \in {"turn", "place"},
         ref[s] = 0, PlaceOrLeave(s), UNCHANGED <<exchange, books, flags>>
  PROVE  CapInv'
<1> USE RequoteAssumption DEF CapInv, exchange, books, flags
<1>0. rests[s] = 0 /\ late[s] = 0
  BY DEF Covers, InHand, BookTypes, Counts
<1>1. BookTypes' /\ Balance'
  BY DEF BookTypes, Unheard, Balance
<1>2. CASE cycle' = Past(s)
  <2>1. WorkTypes'
    BY <1>2, PastType DEF WorkTypes
  <2>2. ~InHand(s)' /\ cycle'.pc \in {"turn", "idle"}
    BY <1>2, PastType DEF InHand, WorkTypes
  <2>3. Covers' /\ Headroom'
    BY <2>2 DEF Covers, Headroom, InHand, Coming
  <2> QED BY <1>1, <2>1, <2>3
<1>3. CASE /\ cycle.want[s] > 0 /\ Approved(s, cycle.want[s])
           /\ cycle' = [cycle EXCEPT !.pc = "create", !.landed = FALSE]
  <2>1. WorkTypes'
    BY <1>3 DEF WorkTypes, Cycles
  <2>2. /\ cycle'.pc = "create" /\ cycle'.side = s /\ cycle'.want = cycle.want
        /\ ~cycle'.landed /\ cycle.want[s] \in 0..QuoteSize
    BY <1>3 DEF WorkTypes, Cycles, Counts
  <2>3. Sign(s) * position + cycle.want[s] <= Cap
    BY <1>3, <2>2, ApprovedFits
  <2>4. Covers'
    BY <1>0, <2>2 DEF Covers, InHand
  <2>5. ASSUME NEW t \in Sides
        PROVE  (Sign(t) * position + rests[t] + late[t] + old[t] + Coming(t) <= Cap + MaxUnheard)'
    <3>1. CASE t = s
      <4>1. old[s] <= MaxUnheard /\ old[s] \in Nat
        BY DEF BookTypes, Unheard, Sides
      <4>2. Sign(s) * position \in Int
        BY DEF BookTypes, Sign
      <4> QED BY <1>0, <2>2, <2>3, <3>1, <4>1, <4>2 DEF Coming, InHand
    <3>2. CASE t # s
      BY <2>2, <3>2 DEF Headroom, Coming, InHand
    <3> QED BY <3>1, <3>2
  <2> QED BY <1>1, <2>1, <2>4, <2>5 DEF Headroom
<1> QED BY <1>2, <1>3 DEF PlaceOrLeave

LEMMA TurnKeeps == ASSUME Fits, CapInv, NEW s \in Sides, Turn(s) PROVE CapInv'
<1>1. CASE ref[s] = 0 /\ PlaceOrLeave(s)
  BY <1>1, PlaceKeeps DEF Turn
<1>2. CASE cycle' = Past(s) \/ cycle' = [cycle EXCEPT !.pc = "cancel"]
  <2> USE DEF CapInv, Turn, exchange, books, flags
  <2>1. WorkTypes'
    BY <1>2, PastType DEF WorkTypes, Cycles
  <2>2. cycle'.pc \in {"turn", "idle", "cancel"}
    BY <1>2, PastType DEF WorkTypes, Cycles
  <2>3. BookTypes' /\ Balance' /\ Covers' /\ Headroom'
    BY <2>2 DEF BookTypes, Unheard, Balance, Covers, Headroom, InHand, Coming
  <2> QED BY <2>1, <2>3
<1> QED BY <1>1, <1>2 DEF Turn

\* The fills of the order cancelled are still on their way, and counted.
LEMMA CancelKeeps == ASSUME CapInv, NEW s \in Sides, CancelAnswered(s) PROVE CapInv'
<1> USE RequoteAssumption DEF CapInv, CancelAnswered, flags, Sides, Sign, Positive
<1>1. /\ rests[s] \in Nat /\ late[s] \in Nat /\ old[s] \in Nat /\ ref[s] \in 0..QuoteSize
      /\ rests' = [rests EXCEPT ![s] = 0] /\ ref' = [ref EXCEPT ![s] = 0]
      /\ registry' = ref'
  <2>1. registry = ref /\ ref[s] \in 0..QuoteSize /\ rests[s] \in 0..QuoteSize
    BY DEF BookTypes, Counts
  <2>2. Positive(registry[s] - ref[s]) = 0
    BY <2>1
  <2>3. registry' = [registry EXCEPT ![s] = 0]
    BY <2>2
  <2>4. late[s] \in Nat /\ old[s] \in Nat
    BY DEF BookTypes
  <2>5. rests[s] \in Nat
    BY <2>1
  <2>6. rests' = [rests EXCEPT ![s] = 0] /\ ref' = [ref EXCEPT ![s] = 0]
    OBVIOUS
  <2> QED BY <2>1, <2>3, <2>4, <2>5, <2>6
<1>2. cycle'.pc = "place" /\ cycle'.side = s /\ ~InHand(s)
  BY DEF WorkTypes, Cycles, InHand
<1>3. BookTypes'
  <2>1. rests' \in Counts /\ ref' \in Counts
    BY <1>1 DEF BookTypes, Counts
  <2>2. late' \in [Sides -> Nat] /\ old' \in [Sides -> Nat]
    BY <1>1 DEF BookTypes
  <2>3. Unheard' <= MaxUnheard
    BY <1>1 DEF BookTypes, Unheard
  <2> QED BY <1>1, <2>1, <2>2, <2>3 DEF BookTypes
<1>4. WorkTypes'
  BY DEF WorkTypes, Cycles
<1>5. Balance'
  BY <1>1 DEF Balance, BookTypes
<1>6. Covers'
  BY <1>1, <1>2 DEF Covers, BookTypes, Counts, InHand
<1>7. Headroom'
  BY <1>1, <1>2 DEF Headroom, BookTypes, Counts, InHand, Coming
<1> QED BY <1>3, <1>4, <1>5, <1>6, <1>7

LEMMA LandKeeps == ASSUME CapInv, NEW s \in Sides, Land(s) PROVE CapInv'
<1> USE RequoteAssumption DEF CapInv, Land, books, flags, Sides, Sign
<1>1. /\ InHand(s) /\ cycle.want[s] \in 0..QuoteSize
      /\ rests[s] = 0 /\ late[s] = 0 /\ ref[s] = 0
      /\ rests' = [rests EXCEPT ![s] = cycle.want[s]]
  BY DEF InHand, Covers, WorkTypes, Cycles, Counts
<1>2. cycle'.pc = "create" /\ cycle'.side = s /\ cycle'.want = cycle.want /\ cycle'.landed
  BY DEF WorkTypes, Cycles
<1>3. rests' \in Counts
  BY <1>1 DEF BookTypes, Counts
<1>6. BookTypes' /\ Balance'
  BY <1>3 DEF BookTypes, Unheard, Balance
<1>7. WorkTypes'
  BY DEF WorkTypes, Cycles
<1>4. Covers'
  BY <1>1, <1>2 DEF Covers, BookTypes, Counts, InHand
<1>5. Headroom'
  BY <1>1, <1>2 DEF Headroom, BookTypes, Counts, InHand, Coming
<1> QED BY <1>4, <1>5, <1>6, <1>7

LEMMA CreateKeeps == ASSUME CapInv, NEW s \in Sides, CreateAnswered(s) PROVE CapInv'
<1> USE RequoteAssumption DEF CapInv, CreateAnswered, exchange, flags, Sides, Sign
<1>1. /\ InHand(s) /\ cycle.want[s] \in 0..QuoteSize /\ ref[s] = 0
      /\ rests[s] + late[s] <= cycle.want[s]
      /\ ~cycle.landed => rests[s] = 0 /\ late[s] = 0
  BY DEF InHand, Covers, WorkTypes, Cycles, Counts
<1>2. cycle'.pc \in {"turn", "idle"}
  BY PastType DEF WorkTypes
<1>3. ref' \in Counts /\ registry' = ref' /\ ref'[s] = (IF cycle.landed THEN cycle.want[s] ELSE 0)
  <2>1. CASE cycle.landed
    <3>1. registry = ref /\ registry[s] + cycle.want[s] = cycle.want[s] /\ ref \in Counts
      BY <1>1 DEF BookTypes
    <3>2. ref' = [ref EXCEPT ![s] = cycle.want[s]] /\ registry' = [registry EXCEPT ![s] = cycle.want[s]]
      BY <2>1, <3>1
    <3> QED BY <1>1, <2>1, <3>1, <3>2 DEF Counts
  <2>2. CASE ~cycle.landed
    BY <1>1, <2>2 DEF BookTypes, Counts
  <2> QED BY <2>1, <2>2
<1>4. \A t \in Sides : t # s => ref'[t] = ref[t]
  BY DEF BookTypes, Counts
<1>5. BookTypes' /\ Balance'
  BY <1>3 DEF BookTypes, Unheard, Balance
<1>6. WorkTypes'
  BY PastType DEF WorkTypes
<1>7. Covers'
  BY <1>1, <1>2, <1>3, <1>4 DEF Covers, BookTypes, Counts, InHand
<1>8. Headroom'
  BY <1>1, <1>2 DEF Headroom, BookTypes, Counts, InHand, Coming
<1> QED BY <1>5, <1>6, <1>7, <1>8

LEMMA CapNext == ASSUME Fits, CapInv, [Next]_vars PROVE CapInv'
<1> USE DEF CapInv
<1>1. ASSUME NEW s \in Sides, Fill(s) \/ Expire(s) \/ Heard(s) \/ HeardOld(s) \/ Land(s)
      PROVE  CapInv'
  BY <1>1, FillKeeps, ExpireKeeps, HeardKeeps, HeardOldKeeps, LandKeeps
<1>2. CASE GuardTurns \/ PullTurns \/ BookTurns \/ Unpause \/ Reap \/ Tick
  BY <1>2, FlagsKeep
  DEF GuardTurns, PullTurns, BookTurns, Unpause, Reap, Tick, WorkTypes, flags
<1>3. CASE Requotes
  <2>0. Nothing \in Counts
    BY RequoteAssumption DEF Nothing, Counts
  <2>1. CASE Pull
    BY <2>0, <2>1, StartsKeeps DEF Pull, WorkTypes
  <2>4. CASE SitOut
    BY <2>4, FlagsKeep DEF SitOut, WorkTypes, flags
  <2>2. CASE Evict
    BY <2>0, <2>2, StartsKeeps DEF Evict
  <2>3. ASSUME NEW priced \in SUBSET Sides, Decide(priced) PROVE CapInv'
    <3>1. Wanted(role', priced) \in Counts
      BY WantedType DEF BookTypes
    <3> QED BY <2>3, <3>1, StartsKeeps DEF Decide, WorkTypes
  <2> QED BY <1>3, <2>1, <2>2, <2>3, <2>4 DEF Requotes
<1>4. ASSUME NEW s \in Sides, Works(s) PROVE CapInv'
  <2>1. CASE Place(s)
    BY <2>1, PlaceKeeps DEF Place, Covers
  <2> QED BY <1>4, <2>1, TurnKeeps, CancelKeeps, CreateKeeps DEF Works
<1>5. CASE UNCHANGED vars
  BY <1>5, FlagsKeep DEF vars, flags, WorkTypes
<1> QED BY <1>1, <1>2, <1>3, <1>4, <1>5 DEF Next

LEMMA CapFollows == CapInv => CapHeld
<1> SUFFICES ASSUME CapInv PROVE CapHeld
  OBVIOUS
<1>1. \A s \in Sides : Coming(s) \in Nat
  BY RequoteAssumption DEF CapInv, WorkTypes, Cycles, Counts, Coming
<1>2. /\ position + late["bid"] + old["bid"] <= Cap + MaxUnheard
      /\ -position + late["ask"] + old["ask"] <= Cap + MaxUnheard
  BY <1>1, RequoteAssumption DEF CapInv, Headroom, BookTypes, Counts, Sides, Sign
<1> QED BY <1>2, RequoteAssumption DEF CapInv, CapHeld, Balance, BookTypes, Sides, Size

\* The account stays within the cap and the fills on their way, for every quote size
\* up to the cap.  (approve_order, asked again after the cancel)
THEOREM CapHeldAlways == ASSUME Fits PROVE Spec => []CapHeld
<1>1. Spec => []CapInv
  BY CapInit, CapNext, PTL DEF Spec
<1> QED BY <1>1, CapFollows, PTL

-----------------------------------------------------------------------------
(* The types, the alert's among them.                                      *)

WindTypes ==
  wind \in [on : BOOLEAN, age : 0..Alert, last : 0..(Cap + MaxUnheard), distressed : BOOLEAN]

\* The headroom of both sides bounds the position the worker knows.
LEMMA PositionBounded == CapInv => Size(position) \in 0..(Cap + MaxUnheard)
<1> SUFFICES ASSUME CapInv PROVE Size(position) \in 0..(Cap + MaxUnheard)
  OBVIOUS
<1>1. \A s \in Sides : Coming(s) \in Nat
  BY RequoteAssumption DEF CapInv, WorkTypes, Cycles, Counts, Coming
<1>2. position <= Cap + MaxUnheard /\ -position <= Cap + MaxUnheard
  BY <1>1, RequoteAssumption DEF CapInv, Headroom, BookTypes, Counts, Sides, Sign
<1> QED BY <1>2, RequoteAssumption DEF CapInv, BookTypes, Size

LEMMA TrackedType ==
  ASSUME CapInv, WindTypes
  PROVE  Tracked(position) \in
           [on : BOOLEAN, age : 0..Alert, last : 0..(Cap + MaxUnheard), distressed : BOOLEAN]
<1> USE RequoteAssumption
<1>1. Disarmed \in
        [on : BOOLEAN, age : 0..Alert, last : 0..(Cap + MaxUnheard), distressed : BOOLEAN]
  BY DEF Disarmed
<1>2. [on |-> TRUE, age |-> 0, last |-> Size(position), distressed |-> FALSE] \in
        [on : BOOLEAN, age : 0..Alert, last : 0..(Cap + MaxUnheard), distressed : BOOLEAN]
  BY PositionBounded
<1>3. [wind EXCEPT !.distressed = (wind.age >= Alert)] \in
        [on : BOOLEAN, age : 0..Alert, last : 0..(Cap + MaxUnheard), distressed : BOOLEAN]
  <2> DEFINE overdue == (wind.age >= Alert)
  <2>1. overdue \in BOOLEAN
    OBVIOUS
  <2> HIDE DEF overdue
  <2>2. [wind EXCEPT !.distressed = overdue] \in
          [on : BOOLEAN, age : 0..Alert, last : 0..(Cap + MaxUnheard), distressed : BOOLEAN]
    BY <2>1, Zenon DEF WindTypes
  <2> QED BY <2>2 DEF overdue
<1> QED BY <1>1, <1>2, <1>3 DEF Tracked

LEMMA WindNext == ASSUME CapInv, WindTypes, [Next]_vars PROVE WindTypes'
<1>1. CASE UNCHANGED wind
  BY <1>1 DEF WindTypes
<1>2. CASE Tick
  BY <1>2, RequoteAssumption DEF Tick, WindTypes
<1>3. CASE wind' = Tracked(position)
  BY <1>3, TrackedType DEF WindTypes
<1> QED
  BY <1>1, <1>2, <1>3
  DEF Next, Fill, Expire, Heard, HeardOld, Land, GuardTurns, PullTurns, BookTurns, Unpause,
      Reap, Requotes, Pull, SitOut, Evict, Decide, Starts, Begins,
      Works, Turn, CancelAnswered, Place, CreateAnswered, vars

LEMMA TypesFollow == CapInv /\ WindTypes => TypeOK
<1> SUFFICES ASSUME CapInv, WindTypes PROVE TypeOK
  OBVIOUS
<1>1. late \in [Sides -> 0..MaxUnheard] /\ old \in [Sides -> 0..MaxUnheard]
  BY RequoteAssumption DEF CapInv, BookTypes, Unheard, Sides
<1> QED BY <1>1 DEF CapInv, BookTypes, WorkTypes, Cycles, WindTypes, TypeOK

\* Every variable stays in its type, for every quote size up to the cap.  (_requote,
\* _reconcile, _track_winddown)
THEOREM RequoteTypesKept == ASSUME Fits PROVE Spec => []TypeOK
<1>1. Init => WindTypes
  BY RequoteAssumption DEF Init, Disarmed, WindTypes
<1>2. Spec => [](CapInv /\ WindTypes)
  BY <1>1, CapInit, CapNext, WindNext, PTL DEF Spec
<1> QED BY <1>2, TypesFollow, PTL
=============================================================================
