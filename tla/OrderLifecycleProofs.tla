------------------------ MODULE OrderLifecycleProofs ------------------------
(***************************************************************************)
(* For every set of sides and every bound: OrderLifecycle keeps its types, *)
(* and the exposure registry equals what the worker's references count.    *)
(* RegistryInv is the inductive invariant: HandShape says what the         *)
(* coroutine holds across each await, which TypeOK alone does not.         *)
(*                                                                         *)
(* No order is let go of while it may rest, when the resting list is       *)
(* strongly consistent, the websocket is not overtaken by a REST answer,   *)
(* and creates are confirmed lost later than they settle.  The invariant   *)
(* StrayInv adds to RegistryInv what each await relies on: a tracked count *)
(* covers the fills on their way, an order about to lose its reference is  *)
(* dead, lookups are not counted faster than the listing settles, and an   *)
(* order missing from both listings of a pass is gone.                     *)
(*                                                                         *)
(* OrderLifecycle then implements SingleQuote: StrayInv leaves an order    *)
(* three places to be (tracked, parked, in hand) and RefShape, HandShape   *)
(* and Superseded allow a side only one of them; so every step takes one   *)
(* order off the book, or sends the only one, or changes nothing the       *)
(* abstraction sees.                                                       *)
(***************************************************************************)
EXTENDS OrderLifecycle, TLAPS

LEMMA ReturnsTypes ==
  ASSUME TypeOK, NEW s \in Sides, NEW q \in BOOLEAN, NEW o \in Slot, NEW n \in Nat,
         Returns(s, q, o, n)
  PROVE  /\ ref' \in [Sides -> Slot] /\ cnt' \in [Ids -> Nat]
         /\ cycle' \in [left : SUBSET Sides, quotes : BOOLEAN] /\ w' \in WorkerPos
  <1>1. ref' \in [Sides -> Slot]
    BY DEF TypeOK, BookTypes, Returns
  <1>2. cnt' \in [Ids -> Nat]
    BY DEF TypeOK, BookTypes, Returns
  <1>3. cycle' \in [left : SUBSET Sides, quotes : BOOLEAN]
    <2>1. Left \subseteq Sides
      BY DEF TypeOK, WorkerTypes, Left
    <2> QED BY <2>1 DEF Returns
  <1>4. w' \in WorkerPos
    BY DEF Returns, Idle, WorkerPos, PCs, None, Slot
  <1> QED BY <1>1, <1>2, <1>3, <1>4

LEMMA PlaceOrLeaveTypes ==
  ASSUME TypeOK, NEW s \in Sides, NEW q \in BOOLEAN, NEW n \in Nat,
         PlaceOrLeave(s, q, n), UNCHANGED truePos, UNCHANGED position, UNCHANGED <<paused, evicted>>
  PROVE  ExchangeTypes' /\ BookTypes' /\ WorkerTypes'
  <1>1. registry' \in [Sides -> Nat]
    BY DEF TypeOK, BookTypes, PlaceOrLeave
  <1>2. CASE Returns(s, q, None, 0) /\ UNCHANGED <<sent, sideOf, st, rem>>
    <2>1. None \in Slot BY DEF Slot
    <2> QED BY <1>1, <1>2, <2>1, ReturnsTypes DEF TypeOK, ExchangeTypes, BookTypes, WorkerTypes
  <1>3. CASE \E size \in 1 .. MaxSize :
          /\ sent < MaxOrders
          /\ sent' = sent + 1
          /\ sideOf' = [sideOf EXCEPT ![sent + 1] = s]
          /\ st' = [st EXCEPT ![sent + 1] = "sent"]
          /\ rem' = [rem EXCEPT ![sent + 1] = size]
          /\ cnt' = [cnt EXCEPT ![sent + 1] = size]
          /\ Suspends("create", s, q, sent + 1)
          /\ UNCHANGED ref
    <2>1. sent + 1 \in Ids
      BY <1>3, BoundsAssumption DEF TypeOK, ExchangeTypes, Ids
    <2>2. ExchangeTypes'
      BY <1>3, <2>1, SidesAssumption, BoundsAssumption DEF TypeOK, ExchangeTypes, States
    <2>3. BookTypes'
      BY <1>3, <1>1, <2>1, BoundsAssumption DEF TypeOK, BookTypes
    <2>4. WorkerTypes'
      <3>1. Left \subseteq Sides
        BY DEF TypeOK, WorkerTypes, Left
      <3>2. cycle' \in [left : SUBSET Sides, quotes : BOOLEAN]
        BY <1>3, <3>1 DEF Suspends
      <3>3. w' \in WorkerPos
        BY <1>3, <2>1, SidesAssumption DEF Suspends, WorkerPos, PCs, Slot
      <3> QED BY <3>2, <3>3 DEF TypeOK, WorkerTypes
    <2> QED BY <2>2, <2>3, <2>4
  <1> QED BY <1>2, <1>3 DEF PlaceOrLeave

LEMMA TypeNext ==
  ASSUME TypeOK, OrderShape, HandShape, [Next]_vars PROVE TypeOK'
  <1>0. w.pc # "idle" => w.side \in Sides /\ w.id \in Ids
    BY DEF HandShape
  <1> USE DEF TypeOK, ExchangeTypes, WorldTypes, BookTypes, ParkTypes, WorkerTypes, exchangeVars, worldVars, bookVars, parkVars, workerVars
  <1>1. ASSUME NEW s \in Sides, NEW q \in BOOLEAN, Keep(s, q) PROVE TypeOK'
    <2>1. /\ ref[s] \in Slot /\ (IF ref[s] = None THEN 0 ELSE cnt[ref[s]]) \in Nat
      BY DEF Slot
    <2>2. Returns(s, q, ref[s], IF ref[s] = None THEN 0 ELSE cnt[ref[s]])
      BY <1>1 DEF Keep
    <2> QED BY <1>1, <2>1, <2>2, ReturnsTypes DEF Keep
  <1>2. ASSUME NEW s \in Sides, NEW q \in BOOLEAN, Place(s, q) PROVE TypeOK'
    <2>1. PlaceOrLeave(s, q, registry[s]) /\ registry[s] \in Nat
      BY <1>2 DEF Place
    <2> QED BY <1>2, <2>1, PlaceOrLeaveTypes DEF Place
  <1>3. ASSUME NEW s \in Sides, NEW q \in BOOLEAN, StartCancel(s, q) PROVE TypeOK'
    <2>1. Left \subseteq Sides
      BY DEF Left
    <2> QED BY <1>3, <2>1, SidesAssumption DEF StartCancel, Suspends, WorkerPos, PCs, Slot
  <1>4. ASSUME NEW s \in Sides, NEW q \in BOOLEAN, StartLookup(s, q) PROVE TypeOK'
    <2>1. Left \subseteq Sides
      BY DEF Left
    <2> QED BY <1>4, <2>1, SidesAssumption DEF StartLookup, Suspends, WorkerPos, PCs, Slot
  <1>5. ASSUME Evict PROVE TypeOK'
    <2>1. cycle' \in [left : SUBSET Sides, quotes : BOOLEAN] /\ evicted' \in BOOLEAN
      BY <1>5 DEF Evict
    <2> QED BY <1>5, <2>1 DEF Evict
  <1>6. ASSUME PauseTimeout PROVE TypeOK'
    BY <1>6 DEF PauseTimeout
  <1>7. ASSUME CancelServed PROVE TypeOK'
    BY <1>7 DEF CancelServed, Removed, WorkerPos, PCs, States
  <1>8. ASSUME CancelFails PROVE TypeOK'
    BY <1>0, <1>8 DEF CancelFails, WorkerPos, PCs
  <1>9. ASSUME AfterCancel PROVE TypeOK'
    <2>0. w.side \in Sides /\ w.id \in Ids
      BY <1>0, <1>9 DEF AfterCancel
    <2>1. Released(registry[w.side], cnt[w.id]) \in Nat /\ cycle.quotes \in BOOLEAN
      BY <1>9, <2>0 DEF Released, Clamped
    <2> QED BY <1>9, <2>0, <2>1, PlaceOrLeaveTypes DEF AfterCancel
  <1>10. ASSUME CreateOk PROVE TypeOK'
    <2>0. w.side \in Sides /\ w.id \in Ids
      BY <1>0, <1>10 DEF CreateOk
    <2>1. cnt[w.id] \in Nat /\ w.id \in Slot /\ cycle.quotes \in BOOLEAN
      BY <1>10, <2>0 DEF Slot
    <2>2. registry' \in [Sides -> Nat]
      BY <1>10, <2>0, <2>1 DEF CreateOk
    <2>3. Returns(w.side, cycle.quotes, w.id, cnt[w.id])
      BY <1>10, <2>0 DEF CreateOk
    <2> QED BY <1>10, <2>0, <2>1, <2>2, <2>3, ReturnsTypes DEF CreateOk
  <1>11. ASSUME NEW pause \in BOOLEAN, CreateRejected(pause) PROVE TypeOK'
    <2>0. w.side \in Sides /\ w.id \in Ids
      BY <1>0, <1>11 DEF CreateRejected
    <2>1. None \in Slot /\ cycle.quotes \in BOOLEAN
      BY DEF Slot
    <2>2. Returns(w.side, cycle.quotes, None, 0)
      BY <1>11, <2>0 DEF CreateRejected
    <2>3. paused' \in BOOLEAN
      BY <1>11, <2>0 DEF CreateRejected
    <2>4. st' \in [Ids -> States] /\ rem' \in [Ids -> Nat]
      BY <1>11, <2>0 DEF CreateRejected, States
    <2> QED BY <1>11, <2>0, <2>1, <2>2, <2>3, <2>4, ReturnsTypes DEF CreateRejected
  <1>12. ASSUME CreateAmbiguous PROVE TypeOK'
    <2>0. w.side \in Sides /\ w.id \in Ids
      BY <1>0, <1>12 DEF CreateAmbiguous
    <2>1. None \in Slot /\ w.id \in Slot /\ cycle.quotes \in BOOLEAN
      BY DEF Slot, WorkerPos
    <2>2. Returns(w.side, cycle.quotes, None, 0)
      BY <1>12, <2>0 DEF CreateAmbiguous
    <2>3. ParkTypes'
      BY <1>12, <2>0, <2>1 DEF CreateAmbiguous, Parks
    <2> QED BY <1>12, <2>0, <2>1, <2>2, <2>3, ReturnsTypes DEF CreateAmbiguous
  <1>13. ASSUME LookupFails PROVE TypeOK'
    <2>0. w.side \in Sides /\ w.id \in Ids
      BY <1>0, <1>13 DEF LookupFails
    <2>1. None \in Slot /\ w.id \in Slot /\ cycle.quotes \in BOOLEAN
      BY DEF Slot, WorkerPos
    <2>2. Returns(w.side, cycle.quotes, None, 0)
      BY <1>13, <2>0 DEF LookupFails
    <2>3. ParkTypes'
      BY <1>13, <2>0, <2>1 DEF LookupFails, Parks
    <2> QED BY <1>13, <2>0, <2>1, <2>2, <2>3, ReturnsTypes DEF LookupFails
  <1>14. ASSUME StillUnknown PROVE TypeOK'
    <2>0. w.side \in Sides /\ w.id \in Ids
      BY <1>0, <1>14 DEF StillUnknown
    <2>1. None \in Slot /\ w.id \in Slot /\ cycle.quotes \in BOOLEAN
      BY DEF Slot, WorkerPos
    <2>2. Returns(w.side, cycle.quotes, None, 0)
      BY <1>14, <2>0 DEF StillUnknown
    <2>3. ParkTypes'
      BY <1>14, <2>0, <2>1 DEF StillUnknown, Parks
    <2> QED BY <1>14, <2>0, <2>1, <2>2, <2>3, ReturnsTypes DEF StillUnknown
  <1>15. ASSUME LookupServed PROVE TypeOK'
    <2>0. w.side \in Sides /\ w.id \in Ids
      BY <1>0, <1>15 DEF LookupServed
    <2>1. w' \in WorkerPos
      BY <1>15, <2>0 DEF LookupServed, WorkerPos, PCs
    <2>2. ParkTypes'
      BY <1>15, <2>0 DEF LookupServed
    <2> QED BY <1>15, <2>0, <2>1, <2>2 DEF LookupServed
  <1>16. ASSUME Adopt PROVE TypeOK'
    <2>0. w.side \in Sides /\ w.id \in Ids
      BY <1>0, <1>16 DEF Adopt
    <2>1. w.id \in Slot /\ w.found \in Nat /\ cycle.quotes \in BOOLEAN
      BY DEF WorkerPos
    <2>2. Returns(w.side, cycle.quotes, w.id, w.found)
      BY <1>16, <2>0 DEF Adopt
    <2>3. ParkTypes' /\ registry' \in [Sides -> Nat]
      BY <1>16, <2>0, <2>1 DEF Adopt
    <2> QED BY <1>16, <2>0, <2>1, <2>2, <2>3, ReturnsTypes DEF Adopt
  <1>17. ASSUME ConfirmedLost PROVE TypeOK'
    <2>0. w.side \in Sides /\ w.id \in Ids
      BY <1>0, <1>17 DEF ConfirmedLost
    <2>1. registry[w.side] \in Nat /\ cycle.quotes \in BOOLEAN
      BY <1>17, <2>0
    <2>2. PlaceOrLeave(w.side, cycle.quotes, registry[w.side])
      BY <1>17, <2>0 DEF ConfirmedLost
    <2>3. ParkTypes'
      BY <1>17, <2>0 DEF ConfirmedLost
    <2> QED BY <1>17, <2>0, <2>1, <2>2, <2>3, PlaceOrLeaveTypes DEF ConfirmedLost
  <1>18. ASSUME NEW id \in Ids, Land(id) PROVE TypeOK'
    BY <1>18 DEF Land, States
  <1>19. ASSUME NEW id \in Ids, Lose(id) PROVE TypeOK'
    BY <1>19 DEF Lose, States
  <1>20. ASSUME NEW id \in Ids, Show(id) PROVE TypeOK'
    BY <1>20 DEF Show, States
  <1>21. ASSUME NEW id \in Ids, Trade(id) PROVE TypeOK'
    <2>0. rem[id] > 0
      BY <1>21 DEF Trade, OrderShape, Working
    <2>1. ExchangeTypes'
      BY <1>21, <2>0 DEF Trade, Sign, States
    <2>2. WorldTypes'
      BY <1>21, <2>0 DEF Trade
    <2> QED BY <1>21, <2>0, <2>1, <2>2 DEF Trade
  <1>22. ASSUME NEW id \in Ids, Expire(id) PROVE TypeOK'
    BY <1>22 DEF Expire, Removed, States
  <1>23. ASSUME NEW id \in Ids, DeliverFill(id) PROVE TypeOK'
    <2>1. WorldTypes'
      BY <1>23 DEF DeliverFill
    <2>2. BookTypes'
      BY <1>23 DEF DeliverFill, Sign, Released, Clamped, Slot
    <2> QED BY <1>23, <2>1, <2>2 DEF DeliverFill
  <1>24. ASSUME NEW id \in Ids, DropFill(id) PROVE TypeOK'
    BY <1>24 DEF DropFill
  <1>25. ASSUME ListAll \/ Diff \/ Confirm \/ FetchPositions PROVE TypeOK'
    <2>1. r' \in PassPos
      <3>1. Refs \subseteq Ids
        BY DEF Refs, Slot
      <3>2. CASE ListAll
        BY <3>2 DEF ListAll, PassPos, PassPCs, Listed
      <3>3. CASE Diff
        <4> DEFINE missing == Refs \ r.snap
                   extra   == r.snap \ Refs
                   pc      == IF missing \cup extra = {} THEN "repaired" ELSE "diffed"
        <4>1. missing \in SUBSET Ids /\ extra \in SUBSET Ids /\ pc \in PassPCs
          BY <3>1 DEF PassPos, PassPCs
        <4>2. r' = [pc |-> pc, snap |-> {}, missing |-> missing, extra |-> extra, pos |-> 0]
          BY <3>3 DEF Diff, PassIdle
        <4> HIDE DEF missing, extra, pc
        <4> QED BY <4>1, <4>2 DEF PassPos
      <3>4. CASE Confirm
        BY <3>4 DEF Confirm, PassPos, PassPCs, Listed
      <3>5. CASE FetchPositions
        BY <3>5 DEF FetchPositions, PassPos, PassPCs, PassIdle
      <3> QED BY <1>25, <3>2, <3>3, <3>4, <3>5
    <2> QED BY <1>25, <2>1 DEF ListAll, Diff, Confirm, FetchPositions, PassUnchanged
  <1>26. ASSUME Repair PROVE TypeOK'
    <2> DEFINE orphans == Orphans(Refs \ Vanished)
    <2>1. orphans \in SUBSET Ids
      BY DEF Orphans, PassPos
    <2>2. r' \in PassPos
      <3>1. r' = [pc |-> "cancelling", snap |-> {}, missing |-> {}, extra |-> orphans, pos |-> 0]
        BY <1>26 DEF Repair, PassIdle
      <3> HIDE DEF orphans
      <3> QED BY <2>1, <3>1 DEF PassPos, PassPCs
    <2>3. ref' \in [Sides -> Slot]
      BY <1>26 DEF Repair, Slot
    <2>4. registry' \in [Sides -> Nat]
      <3>1. \A s \in Sides : ref[s] \in Vanished => ref[s] \in Ids
        BY DEF Vanished, PassPos
      <3> QED BY <1>26, <3>1 DEF Repair, Released, Clamped
    <2> QED BY <1>26, <2>2, <2>3, <2>4 DEF Repair
  <1>27. ASSUME NEW id \in Ids, OrphanCancel(id) PROVE TypeOK'
    <2>1. r' \in PassPos
      BY <1>27 DEF OrphanCancel, PassPos, PassPCs
    <2>2. ExchangeTypes'
      BY <1>27 DEF OrphanCancel, Removed, States
    <2> QED BY <1>27, <2>1, <2>2 DEF OrphanCancel
  <1>28. ASSUME NEW id \in Ids, OrphanCancelFails(id) PROVE TypeOK'
    <2>1. r' \in PassPos
      BY <1>28 DEF OrphanCancelFails, PassPos, PassPCs
    <2> QED BY <1>28, <2>1 DEF OrphanCancelFails
  <1>29. ASSUME AdoptDrift \/ SkipDrift \/ PassFails PROVE TypeOK'
    <2>1. r' \in PassPos
      BY <1>29 DEF AdoptDrift, SkipDrift, PassFails, PassPos, PassPCs, PassIdle
    <2>2. position' \in Int
      BY <1>29 DEF AdoptDrift, Adopted, SkipDrift, PassFails, PassPos
    <2>3. faults' \in Nat
      BY <1>29 DEF AdoptDrift, SkipDrift, PassFails
    <2>4. paused' \in BOOLEAN
      BY <1>29 DEF AdoptDrift, SkipDrift, PassFails
    <2> QED BY <1>29, <2>1, <2>2, <2>3, <2>4 DEF AdoptDrift, SkipDrift, PassFails
  <1>30. CASE UNCHANGED vars
    <2>1. ExchangeTypes' /\ WorldTypes' /\ BookTypes'
      BY <1>30 DEF vars
    <2>2. ParkTypes' /\ WorkerTypes' /\ r' \in PassPos
      BY <1>30 DEF vars
    <2> QED BY <2>1, <2>2
  <1> QED
    BY <1>1, <1>2, <1>3, <1>4, <1>5, <1>6, <1>7, <1>8, <1>9, <1>10, <1>11, <1>12, <1>13,
       <1>14, <1>15, <1>16, <1>17, <1>18, <1>19, <1>20, <1>21, <1>22, <1>23, <1>24, <1>25,
       <1>26, <1>27, <1>28, <1>29, <1>30 DEF Next, Worker, Exchange, Reconcile

LEMMA TypeInit == Init => TypeOK
  <1> SUFFICES ASSUME Init PROVE TypeOK
    OBVIOUS
  <1> USE SidesAssumption, BoundsAssumption DEF Init, Slot
  <1>1. ExchangeTypes
    BY DEF ExchangeTypes, States
  <1>2. WorldTypes
    BY DEF WorldTypes
  <1>3. BookTypes
    BY DEF BookTypes
  <1>4. ParkTypes
    BY DEF ParkTypes
  <1>5. WorkerTypes
    BY DEF WorkerTypes, WorkerPos, PCs, Idle
  <1>6. r \in PassPos
    BY DEF PassPos, PassPCs, PassIdle
  <1> QED BY <1>1, <1>2, <1>3, <1>4, <1>5, <1>6 DEF TypeOK

LEMMA OrderShapeNext ==
  ASSUME TypeOK, OrderShape, HandShape, [Next]_vars PROVE OrderShape'
  <1> USE DEF OrderShape, Working, Resting
  <1>0. w.pc # "idle" => w.side \in Sides /\ w.id \in Ids /\ st[w.id] # "new"
    BY DEF HandShape
  <1>1. ASSUME UNCHANGED <<sent, sideOf, st, rem, fills, leaked>> PROVE OrderShape'
    BY <1>1
  <1>2. ASSUME NEW s \in Sides, NEW q \in BOOLEAN, NEW n \in Nat, PlaceOrLeave(s, q, n),
               UNCHANGED <<fills, leaked>>
        PROVE  OrderShape'
    <2>1. CASE UNCHANGED <<sent, sideOf, st, rem>>
      BY <1>1, <1>2, <2>1
    <2>2. CASE \E size \in 1 .. MaxSize :
            /\ sent < MaxOrders
            /\ sent' = sent + 1
            /\ sideOf' = [sideOf EXCEPT ![sent + 1] = s]
            /\ st' = [st EXCEPT ![sent + 1] = "sent"]
            /\ rem' = [rem EXCEPT ![sent + 1] = size]
      <3>1. sent + 1 \in Ids /\ st[sent + 1] = "new"
        BY <2>2, BoundsAssumption DEF TypeOK, ExchangeTypes, Ids
      <3> QED
        BY <1>2, <2>2, <3>1 DEF TypeOK, ExchangeTypes, WorldTypes, Ids
    <2> QED BY <1>2, <2>1, <2>2 DEF PlaceOrLeave
  <1>3. ASSUME NEW id \in Ids, Removed(id), UNCHANGED <<sent, sideOf, fills, leaked>> PROVE OrderShape'
    BY <1>3 DEF Removed, TypeOK, ExchangeTypes
  <1>4. ASSUME NEW s \in Sides, NEW q \in BOOLEAN,
               Keep(s, q) \/ Place(s, q) \/ StartCancel(s, q) \/ StartLookup(s, q)
        PROVE  OrderShape'
    <2>1. CASE Place(s, q)
      <3>1. registry[s] \in Nat
        BY DEF TypeOK, BookTypes
      <3> QED BY <1>2, <2>1, <3>1 DEF Place, worldVars
    <2>2. CASE Keep(s, q) \/ StartCancel(s, q) \/ StartLookup(s, q)
      BY <1>1, <2>2 DEF Keep, StartCancel, StartLookup, exchangeVars, worldVars
    <2> QED BY <1>4, <2>1, <2>2
  <1>5. CASE Evict \/ PauseTimeout \/ CreateOk \/ CreateAmbiguous
    BY <1>1, <1>5 DEF Evict, PauseTimeout, CreateOk, CreateAmbiguous, exchangeVars, worldVars
  <1>6. CASE LookupServed \/ LookupFails \/ Adopt \/ StillUnknown
    BY <1>1, <1>6 DEF LookupServed, LookupFails, Adopt, StillUnknown, exchangeVars, worldVars
  <1>7. CASE CancelServed
    BY <1>0, <1>3, <1>7 DEF CancelServed, worldVars
  <1>8. CASE CancelFails
    BY <1>0, <1>8 DEF CancelFails, exchangeVars
  <1>9. CASE AfterCancel \/ ConfirmedLost
    <2>1. Released(registry[w.side], cnt[w.id]) \in Nat /\ registry[w.side] \in Nat
      BY <1>0, <1>9 DEF TypeOK, BookTypes, Released, Clamped, AfterCancel, ConfirmedLost
    <2>2. w.side \in Sides /\ cycle.quotes \in BOOLEAN
      BY <1>0, <1>9 DEF TypeOK, WorkerTypes, AfterCancel, ConfirmedLost
    <2> QED BY <1>2, <1>9, <2>1, <2>2 DEF AfterCancel, ConfirmedLost, worldVars
  <1>10. ASSUME NEW pause \in BOOLEAN, CreateRejected(pause) PROVE OrderShape'
    BY <1>0, <1>10 DEF CreateRejected, worldVars, TypeOK, ExchangeTypes
  <1>11. ASSUME NEW id \in Ids, Land(id) \/ Lose(id) \/ Show(id) PROVE OrderShape'
    BY <1>11 DEF Land, Lose, Show, worldVars, TypeOK, ExchangeTypes
  <1>12. ASSUME NEW id \in Ids, Trade(id) PROVE OrderShape'
    BY <1>12 DEF Trade, TypeOK, ExchangeTypes, WorldTypes
  <1>13. ASSUME NEW id \in Ids, DeliverFill(id) \/ DropFill(id) PROVE OrderShape'
    BY <1>13 DEF DeliverFill, DropFill, exchangeVars, TypeOK, WorldTypes
  <1>14. ASSUME NEW id \in Ids, Expire(id) \/ OrphanCancel(id) PROVE OrderShape'
    BY <1>3, <1>14 DEF Expire, OrphanCancel, worldVars
  <1>15. ASSUME NEW id \in Ids, OrphanCancelFails(id) PROVE OrderShape'
    BY <1>1, <1>15 DEF OrphanCancelFails, exchangeVars
  <1>16. CASE ListAll \/ Diff \/ Confirm \/ Repair \/ FetchPositions
    BY <1>1, <1>16 DEF ListAll, Diff, Confirm, Repair, FetchPositions, PassUnchanged,
                       exchangeVars, worldVars
  <1>17. CASE AdoptDrift \/ SkipDrift \/ PassFails \/ UNCHANGED vars
    BY <1>1, <1>17 DEF AdoptDrift, SkipDrift, PassFails, vars, exchangeVars, worldVars
  <1> QED
    BY <1>4, <1>5, <1>6, <1>7, <1>8, <1>9, <1>10, <1>11, <1>12, <1>13, <1>14, <1>15, <1>16,
       <1>17 DEF Next, Worker, Exchange, Reconcile

LEMMA PassiveKeeps ==
  ASSUME TypeOK, RefShape, HandShape, RegistryMatchesRefs,
         UNCHANGED <<sideOf, registry, ref, cnt, pend, w>>,
         \A id \in Ids : /\ st[id] # "new" => st'[id] # "new"
                         /\ Landed(id) => Landed(id)'
  PROVE  RefShape' /\ HandShape' /\ RegistryMatchesRefs'
  <1>1. RefShape'
    BY DEF RefShape, TypeOK, BookTypes, ParkTypes, Slot, None
  <1>2. HandShape'
    BY DEF HandShape
  <1>3. RegistryMatchesRefs'
    BY DEF RegistryMatchesRefs
  <1> QED BY <1>1, <1>2, <1>3

LEMMA ReturnsKeeps ==
  ASSUME TypeOK, RefShape, RegistryMatchesRefs, TypeOK',
         NEW s \in Sides, NEW q, NEW o \in Slot, NEW n \in Nat, Returns(s, q, o, n),
         w.pc = "create" => w.side = s,
         UNCHANGED sideOf,
         \A id \in Ids : /\ st[id] # "new" => st'[id] # "new"
                         /\ Landed(id) => Landed(id)',
         \A t \in Sides \ {s} : pend'[t] = pend[t] /\ registry'[t] = registry[t],
         registry'[s] = n,
         o = None => n = 0,
         o # None => sideOf[o] = s /\ Landed(o)' /\ n > 0 /\ pend'[s] = None,
         pend'[s] # None => sideOf[pend'[s]] = s /\ st'[pend'[s]] # "new"
  PROVE  RefShape' /\ HandShape' /\ RegistryMatchesRefs'
  <1>1. ref' = [ref EXCEPT ![s] = o] /\ w'.pc = "idle"
    BY DEF Returns, Idle
  <1>2. /\ o # None => cnt'[o] = n
        /\ \A t \in Sides \ {s} : ref[t] # None /\ ref[t] # o => cnt'[ref[t]] = cnt[ref[t]]
    BY DEF Returns, TypeOK, BookTypes, Slot
  <1>3. \A t \in Sides \ {s} : ref[t] # None => ref[t] # o
    BY DEF RefShape
  <1>4. RefShape'
    BY <1>1, <1>2, <1>3 DEF RefShape, TypeOK, BookTypes, ParkTypes, Slot
  <1>5. HandShape'
    BY <1>1 DEF HandShape
  <1>6. RegistryMatchesRefs'
    BY <1>1, <1>2, <1>3 DEF RegistryMatchesRefs, TypeOK, BookTypes
  <1> QED BY <1>4, <1>5, <1>6

LEMMA PlaceOrLeaveKeeps ==
  ASSUME TypeOK, OrderShape, RefShape, RegistryMatchesRefs, TypeOK',
         NEW s \in Sides, NEW q, PlaceOrLeave(s, q, 0),
         w.pc # "create", UNCHANGED pend, pend[s] = None
  PROVE  RefShape' /\ HandShape' /\ RegistryMatchesRefs'
  <1>1. CASE Returns(s, q, None, 0) /\ UNCHANGED <<sent, sideOf, st, rem>>
    BY <1>1, ReturnsKeeps DEF PlaceOrLeave, Slot, Landed, TypeOK, BookTypes
  <1>2. CASE \E size \in 1 .. MaxSize :
          /\ sent < MaxOrders
          /\ sent' = sent + 1
          /\ sideOf' = [sideOf EXCEPT ![sent + 1] = s]
          /\ st' = [st EXCEPT ![sent + 1] = "sent"]
          /\ cnt' = [cnt EXCEPT ![sent + 1] = size]
          /\ Suspends("create", s, q, sent + 1)
          /\ UNCHANGED ref
    <2>1. sent + 1 \in Ids /\ st[sent + 1] = "new"
      BY <1>2, BoundsAssumption DEF TypeOK, ExchangeTypes, Ids, OrderShape
    <2>2. \A t \in Sides : ref[t] # sent + 1 /\ pend[t] # sent + 1
      BY <2>1 DEF RefShape, Landed, None, Ids
    <2>3. registry' = [registry EXCEPT ![s] = 0]
      BY DEF PlaceOrLeave
    <2>4. w'.pc = "create" /\ w'.side = s /\ w'.id = sent + 1
      BY <1>2 DEF Suspends
    <2>5. RefShape'
      BY <1>2, <2>1, <2>2 DEF RefShape, Landed, TypeOK, ExchangeTypes, BookTypes, ParkTypes, Slot
    <2>6. HandShape'
      BY <1>2, <2>1, <2>2, <2>4 DEF HandShape, TypeOK, ExchangeTypes, BookTypes
    <2>7. RegistryMatchesRefs'
      BY <1>2, <2>1, <2>2, <2>3, <2>4 DEF RegistryMatchesRefs, TypeOK, BookTypes, Slot
    <2> QED BY <2>5, <2>6, <2>7
  <1> QED BY <1>1, <1>2 DEF PlaceOrLeave

LEMMA ShapesNext ==
  ASSUME TypeOK, OrderShape, RefShape, HandShape, RegistryMatchesRefs, [Next]_vars, TypeOK'
  PROVE  RefShape' /\ HandShape' /\ RegistryMatchesRefs'
  <1> DEFINE Kept == RefShape' /\ HandShape' /\ RegistryMatchesRefs'
  <1> USE DEF exchangeVars, worldVars, bookVars, parkVars, workerVars
  <1>0. w.pc # "idle" => /\ w.side \in Sides /\ w.id \in Ids /\ w.id \in Slot /\ w.id # None
                         /\ sideOf[w.id] = w.side /\ st[w.id] # "new" /\ pend[w.side] = None
    BY DEF HandShape, Slot, Ids, None
  <1>t. /\ registry \in [Sides -> Nat] /\ cnt \in [Ids -> Nat] /\ ref \in [Sides -> Slot]
        /\ pend \in [Sides -> Slot] /\ st \in [Ids -> States] /\ None \in Slot
    BY DEF TypeOK, BookTypes, ParkTypes, ExchangeTypes, Slot
  <1>1. ASSUME NEW s \in Sides, NEW q \in BOOLEAN, Keep(s, q) PROVE Kept
    <2>1. PICK o \in Slot : o = ref[s]
      BY <1>t
    <2>2. PICK n \in Nat : n = IF o = None THEN 0 ELSE cnt[o]
      BY <1>t DEF Slot
    <2>3. Returns(s, q, o, n) /\ w.pc = "idle" /\ registry[s] = n
      BY <1>1, <1>t, <2>1, <2>2 DEF Keep, Turn, RegistryMatchesRefs
    <2>4. UNCHANGED <<sideOf, st, registry, pend>>
      BY <1>1 DEF Keep
    <2>5. o # None => sideOf[o] = s /\ Landed(o) /\ n > 0 /\ pend[s] = None
      BY <2>1, <2>2 DEF RefShape
    <2>6. pend[s] # None => sideOf[pend[s]] = s /\ st[pend[s]] # "new"
      BY DEF RefShape
    <2> QED BY <2>2, <2>3, <2>4, <2>5, <2>6, ReturnsKeeps DEF Landed
  <1>2. ASSUME NEW s \in Sides, NEW q \in BOOLEAN, Place(s, q) PROVE Kept
    <2>1. registry[s] = 0
      BY <1>2 DEF Place, Turn, RegistryMatchesRefs
    <2> QED BY <1>2, <2>1, PlaceOrLeaveKeeps DEF Place, Turn
  <1>3. ASSUME NEW s \in Sides, NEW q \in BOOLEAN, StartCancel(s, q) PROVE Kept
    <2>1. /\ w.pc = "idle" /\ w'.pc = "cancel" /\ w'.side = s /\ w'.id = ref[s]
          /\ ref[s] # None /\ pend[s] = None
      BY <1>3 DEF StartCancel, Suspends, Turn
    <2>2. UNCHANGED <<sideOf, st, registry, ref, cnt, pend>>
      BY <1>3 DEF StartCancel
    <2>3. RefShape'
      BY <2>2 DEF RefShape, Landed
    <2>4. HandShape'
      BY <1>t, <2>1, <2>2 DEF HandShape, RefShape, Landed, Slot
    <2>5. RegistryMatchesRefs'
      BY <2>1, <2>2 DEF RegistryMatchesRefs
    <2> QED BY <2>3, <2>4, <2>5
  <1>4. ASSUME NEW s \in Sides, NEW q \in BOOLEAN, StartLookup(s, q) PROVE Kept
    <2>1. /\ w.pc = "idle" /\ w'.pc = "lookup" /\ w'.side = s /\ w'.id = pend[s]
          /\ pend[s] # None /\ pend' = [pend EXCEPT ![s] = None] /\ ref[s] = None
      BY <1>4 DEF StartLookup, Suspends, Turn, RefShape
    <2>2. UNCHANGED <<sideOf, st, registry, ref, cnt>>
      BY <1>4 DEF StartLookup
    <2>3. RefShape'
      BY <1>t, <2>1, <2>2 DEF RefShape, Landed
    <2>4. HandShape'
      BY <1>t, <2>1, <2>2 DEF HandShape, RefShape, Slot
    <2>5. RegistryMatchesRefs'
      BY <2>1, <2>2 DEF RegistryMatchesRefs
    <2> QED BY <2>3, <2>4, <2>5
  <1>5. CASE Evict \/ PauseTimeout
    BY <1>5, PassiveKeeps DEF Evict, PauseTimeout, Landed
  <1>6. CASE CancelServed \/ CancelFails
    <2>1. /\ w.pc = "cancel" /\ w'.pc = "cancelled" /\ w'.side = w.side /\ w'.id = w.id
      BY <1>6 DEF CancelServed, CancelFails, TypeOK, WorkerTypes, WorkerPos
    <2>2. UNCHANGED <<sideOf, registry, ref, cnt, pend>>
      BY <1>6 DEF CancelServed, CancelFails
    <2>3. \A id \in Ids : /\ st[id] # "new" => st'[id] # "new"
                          /\ Landed(id) => Landed(id)'
      BY <1>0, <1>t, <1>6 DEF CancelServed, CancelFails, Removed, Resting, Landed
    <2>4. RefShape'
      BY <1>t, <2>2, <2>3 DEF RefShape, Slot
    <2>5. HandShape'
      BY <1>0, <2>1, <2>2, <2>3 DEF HandShape
    <2>6. RegistryMatchesRefs'
      BY <2>1, <2>2 DEF RegistryMatchesRefs
    <2> QED BY <2>4, <2>5, <2>6
  <1>7. CASE AfterCancel
    <2>1. w.pc = "cancelled" /\ ref[w.side] \in {w.id, None}
      BY <1>7 DEF AfterCancel, HandShape
    <2>2. Released(registry[w.side], cnt[w.id]) = 0
      BY <1>0, <1>t, <2>1 DEF RegistryMatchesRefs, Released, Clamped
    <2> QED BY <1>0, <1>7, <2>1, <2>2, PlaceOrLeaveKeeps DEF AfterCancel
  <1>8. CASE ConfirmedLost
    <2>1. w.pc = "lookedUp" /\ ref[w.side] = None
      BY <1>8 DEF ConfirmedLost, HandShape
    <2>2. registry[w.side] = 0
      BY <1>0, <2>1 DEF RegistryMatchesRefs
    <2> QED BY <1>0, <1>8, <2>1, <2>2, PlaceOrLeaveKeeps DEF ConfirmedLost
  <1>9. CASE CreateOk
    <2>1. w.pc = "create" /\ ref[w.side] # w.id /\ cnt[w.id] > 0 /\ registry[w.side] = 0
      BY <1>0, <1>9 DEF CreateOk, HandShape, RegistryMatchesRefs
    <2>2. registry' = [registry EXCEPT ![w.side] = registry[w.side] + cnt[w.id]]
      BY <1>9 DEF CreateOk
    <2>4. cnt[w.id] \in Nat /\ registry[w.side] + cnt[w.id] = cnt[w.id]
      BY <1>0, <1>t, <2>1
    <2>3. /\ Returns(w.side, cycle.quotes, w.id, cnt[w.id])
          /\ Landed(w.id) /\ UNCHANGED <<sideOf, st, pend>>
      BY <1>9 DEF CreateOk
    <2> QED BY <1>0, <1>t, <2>1, <2>2, <2>3, <2>4, ReturnsKeeps DEF Landed
  <1>10. ASSUME NEW pause \in BOOLEAN, CreateRejected(pause) PROVE Kept
    <2>1. w.pc = "create" /\ registry[w.side] = 0
      BY <1>0, <1>10 DEF CreateRejected, RegistryMatchesRefs
    <2>2. /\ st[w.id] = "sent" /\ st' = [st EXCEPT ![w.id] = "void"]
          /\ Returns(w.side, cycle.quotes, None, 0) /\ UNCHANGED <<sideOf, registry, pend>>
      BY <1>10 DEF CreateRejected
    <2>3. \A id \in Ids : /\ st[id] # "new" => st'[id] # "new"
                          /\ Landed(id) => Landed(id)'
      BY <1>0, <1>t, <2>1, <2>2 DEF Landed
    <2> QED BY <1>0, <1>t, <2>1, <2>2, <2>3, ReturnsKeeps
  <1>11. CASE CreateAmbiguous \/ LookupFails \/ StillUnknown
    <2>1. /\ w.pc # "idle" /\ registry[w.side] = 0
          /\ pend' = [pend EXCEPT ![w.side] = w.id]
          /\ Returns(w.side, cycle.quotes, None, 0) /\ UNCHANGED <<sideOf, st, registry>>
      BY <1>0, <1>11
         DEF CreateAmbiguous, LookupFails, StillUnknown, Parks, RegistryMatchesRefs, HandShape
    <2> QED BY <1>0, <1>t, <2>1, ReturnsKeeps DEF Landed
  <1>12. CASE LookupServed
    <2>1. /\ w.pc = "lookup" /\ w'.pc = "lookedUp" /\ w'.side = w.side /\ w'.id = w.id
          /\ w'.found > 0 => Landed(w.id)
      BY <1>12 DEF LookupServed, TypeOK, WorkerTypes, WorkerPos, Listed, Landed
    <2>2. UNCHANGED <<sideOf, st, registry, ref, cnt, pend>>
      BY <1>12 DEF LookupServed
    <2>3. RefShape'
      BY <2>2 DEF RefShape, Landed
    <2>4. HandShape'
      BY <1>0, <2>1, <2>2 DEF HandShape, Landed
    <2>5. RegistryMatchesRefs'
      BY <2>1, <2>2 DEF RegistryMatchesRefs
    <2> QED BY <2>3, <2>4, <2>5
  <1>13. CASE Adopt
    <2>1. w.pc = "lookedUp" /\ w.found > 0 /\ w.found \in Nat /\ Landed(w.id)
      BY <1>13 DEF Adopt, HandShape, TypeOK, WorkerTypes, WorkerPos
    <2>2. registry[w.side] = 0
      BY <1>0, <2>1 DEF HandShape, RegistryMatchesRefs
    <2>3. registry' = [registry EXCEPT ![w.side] = registry[w.side] + w.found]
      BY <1>13 DEF Adopt
    <2>5. registry[w.side] + w.found = w.found
      BY <2>1, <2>2
    <2>4. Returns(w.side, cycle.quotes, w.id, w.found) /\ UNCHANGED <<sideOf, st, pend>>
      BY <1>13 DEF Adopt
    <2> QED BY <1>0, <1>t, <2>1, <2>3, <2>4, <2>5, ReturnsKeeps DEF Landed
  <1>14. ASSUME NEW id \in Ids, Land(id) \/ Lose(id) \/ Show(id) PROVE Kept
    <2>1. \A i \in Ids : /\ st[i] # "new" => st'[i] # "new"
                         /\ Landed(i) => Landed(i)'
      BY <1>t, <1>14 DEF Land, Lose, Show, Landed
    <2> QED BY <1>14, <2>1, PassiveKeeps DEF Land, Lose, Show
  <1>15. ASSUME NEW id \in Ids, Trade(id) \/ Expire(id) \/ OrphanCancel(id) PROVE Kept
    <2>1. \A i \in Ids : /\ st[i] # "new" => st'[i] # "new"
                         /\ Landed(i) => Landed(i)'
      BY <1>t, <1>15 DEF Trade, Expire, OrphanCancel, Removed, Resting, Landed
    <2> QED BY <1>15, <2>1, PassiveKeeps DEF Trade, Expire, OrphanCancel
  <1>16. ASSUME NEW id \in Ids, DeliverFill(id) PROVE Kept
    <2> DEFINE s == sideOf[id]
    <2>0. s \in Sides
      BY <1>16 DEF DeliverFill, OrderShape
    <2>1. CASE ref[s] # id
      <3>1. UNCHANGED <<registry, ref, cnt>>
        BY <1>t, <1>16, <2>1 DEF DeliverFill
      <3> QED BY <1>16, <3>1, PassiveKeeps DEF DeliverFill, Landed
    <2>2. CASE ref[s] = id
      <3>0. s \in Sides /\ sideOf[id] = s /\ UNCHANGED <<sideOf, st, pend, w>>
        BY <1>16, <2>0 DEF DeliverFill
      <3> HIDE DEF s
      <3>1. /\ cnt' = [cnt EXCEPT ![id] = Clamped(cnt[id] - 1)]
            /\ registry' = [registry EXCEPT ![s] = Released(registry[s], 1)]
            /\ ref' = IF cnt[id] <= 1 THEN [ref EXCEPT ![s] = None] ELSE ref
        BY <1>16, <2>2 DEF DeliverFill, s
      <3>2. \A t \in Sides : ref[t] = id => t = s
        BY <3>0 DEF RefShape, Ids, None
      <3>3. id # None /\ cnt[id] > 0
        BY <2>2, <3>0 DEF RefShape, Ids, None
      <3>4. RefShape'
        BY <1>t, <2>2, <3>0, <3>1, <3>2, <3>3 DEF RefShape, Landed, Clamped
      <3>5. HandShape'
        BY <1>0, <1>t, <2>2, <3>0, <3>1, <3>2 DEF HandShape, Landed, Clamped
      <3>6. RegistryMatchesRefs'
        BY <1>t, <2>2, <3>0, <3>1, <3>2, <3>3 DEF RegistryMatchesRefs, Clamped, Released
      <3> QED BY <3>4, <3>5, <3>6
    <2> QED BY <2>1, <2>2
  <1>17. ASSUME NEW id \in Ids, DropFill(id) \/ OrphanCancelFails(id) PROVE Kept
    BY <1>17, PassiveKeeps DEF DropFill, OrphanCancelFails, Landed
  <1>18. CASE Repair
    <2>1. /\ ref' = [s \in Sides |-> IF ref[s] \in Vanished THEN None ELSE ref[s]]
          /\ registry' = [s \in Sides |-> IF ref[s] \in Vanished
                                          THEN Released(registry[s], cnt[ref[s]])
                                          ELSE registry[s]]
          /\ UNCHANGED <<sideOf, st, cnt, pend, w>>
      BY <1>18 DEF Repair
    <2>2. \A s \in Sides : ref[s] \in Vanished => ref[s] \in Ids /\ ref[s] # None
      BY DEF Vanished, TypeOK, PassPos, Ids, None
    <2>3. RefShape'
      BY <1>t, <2>1 DEF RefShape, Landed
    <2>4. HandShape'
      BY <1>0, <2>1, <2>2 DEF HandShape, Landed
    <2>5. RegistryMatchesRefs'
      BY <1>t, <2>1, <2>2 DEF RegistryMatchesRefs, Released, Clamped
    <2> QED BY <2>3, <2>4, <2>5
  <1>19. CASE ListAll \/ Diff \/ Confirm \/ FetchPositions \/ AdoptDrift \/ SkipDrift \/ PassFails
    BY <1>19, PassiveKeeps DEF ListAll, Diff, Confirm, FetchPositions, AdoptDrift, SkipDrift,
                               PassFails, PassUnchanged, Landed
  <1>20. CASE UNCHANGED vars
    BY <1>20, PassiveKeeps DEF vars, Landed
  <1> QED
    BY <1>1, <1>2, <1>3, <1>4, <1>5, <1>6, <1>7, <1>8, <1>9, <1>10, <1>11, <1>12, <1>13,
       <1>14, <1>15, <1>16, <1>17, <1>18, <1>19, <1>20 DEF Next, Worker, Exchange, Reconcile

LEMMA RegistryInit == Init => RegistryInv
  <1> SUFFICES ASSUME Init PROVE RegistryInv
    OBVIOUS
  <1>1. TypeOK
    BY TypeInit
  <1>2. OrderShape
    BY BoundsAssumption DEF Init, OrderShape, Working, Resting, Ids
  <1>3. RefShape /\ HandShape /\ RegistryMatchesRefs
    BY DEF Init, RefShape, HandShape, RegistryMatchesRefs, Idle
  <1> QED BY <1>1, <1>2, <1>3 DEF RegistryInv

LEMMA RegistryNext == RegistryInv /\ [Next]_vars => RegistryInv'
  BY TypeNext, OrderShapeNext, ShapesNext DEF RegistryInv

THEOREM RegistryInductive == Spec => []RegistryInv
  BY RegistryInit, RegistryNext, PTL DEF Spec

\* Every variable stays within its type, for every set of sides and every bound.
THEOREM TypesKept == Spec => []TypeOK
  <1>1. RegistryInv => TypeOK
    BY DEF RegistryInv
  <1> QED BY <1>1, RegistryInductive, PTL

\* RiskManager.resting is the tracked orders' unfilled count at every step.
THEOREM RegistryExact == Spec => []RegistryMatchesRefs
  <1>1. RegistryInv => RegistryMatchesRefs
    BY DEF RegistryInv
  <1> QED BY <1>1, RegistryInductive, PTL

-----------------------------------------------------------------------------
(* No order is let go of while it may rest *)

Consistent == ~ListLag /\ WsFirst /\ ListDelay < ConfirmLost

\* An order's life only moves forward.
LEMMA LifeForward ==
  ASSUME TypeOK, OrderShape, HandShape, [Next]_vars, NEW id \in Ids
  PROVE  /\ ~Working(id) /\ st[id] # "new" => ~Working(id)' /\ st'[id] # "new"
         /\ Landed(id) => Landed(id)'
         /\ st[id] \in {"live", "gone"} => st'[id] \in {"live", "gone"}
         /\ st[id] = "gone" => st'[id] = "gone"
         /\ leaked \subseteq leaked'
         /\ st[id] # "new" => st'[id] # "new"
  <1> USE DEF Working, Resting, Landed
  <1> DEFINE Forward ==
        /\ ~Working(id) /\ st[id] # "new" => ~Working(id)' /\ st'[id] # "new"
        /\ Landed(id) => Landed(id)'
        /\ st[id] \in {"live", "gone"} => st'[id] \in {"live", "gone"}
        /\ st[id] = "gone" => st'[id] = "gone"
        /\ leaked \subseteq leaked'
        /\ st[id] # "new" => st'[id] # "new"
  <1>0. st \in [Ids -> States] /\ (w.pc # "idle" => w.id \in Ids)
    BY DEF TypeOK, ExchangeTypes, HandShape
  <1>1. CASE UNCHANGED <<st, leaked>>
    BY <1>1
  <1>2. ASSUME NEW s \in Sides, NEW q, NEW n, PlaceOrLeave(s, q, n), UNCHANGED leaked
        PROVE  Forward
    <2>1. CASE UNCHANGED st
      BY <1>2, <2>1
    <2>2. CASE sent < MaxOrders /\ st' = [st EXCEPT ![sent + 1] = "sent"]
      <3>1. sent + 1 \in Ids /\ st[sent + 1] = "new"
        BY <2>2, BoundsAssumption DEF TypeOK, ExchangeTypes, Ids, OrderShape
      <3> QED BY <1>0, <1>2, <2>2, <3>1
    <2> QED BY <1>2, <2>1, <2>2 DEF PlaceOrLeave
  <1>3. ASSUME NEW i \in Ids, Removed(i), UNCHANGED leaked PROVE Forward
    BY <1>0, <1>3 DEF Removed
  <1>4. CASE \E s \in Sides, q \in BOOLEAN :
               Keep(s, q) \/ Place(s, q) \/ StartCancel(s, q) \/ StartLookup(s, q)
    BY <1>1, <1>2, <1>4
       DEF Keep, Place, StartCancel, StartLookup, exchangeVars, worldVars
  <1>5. CASE \/ Evict \/ PauseTimeout \/ CreateOk \/ CreateAmbiguous \/ LookupServed
             \/ LookupFails \/ Adopt \/ StillUnknown
    BY <1>1, <1>5 DEF Evict, PauseTimeout, CreateOk, CreateAmbiguous, LookupServed,
                      LookupFails, Adopt, StillUnknown, exchangeVars, worldVars
  <1>6. CASE CancelServed
    BY <1>0, <1>3, <1>6 DEF CancelServed, worldVars
  <1>7. CASE CancelFails \/ \E pause \in BOOLEAN : CreateRejected(pause)
    BY <1>0, <1>7 DEF CancelFails, CreateRejected, exchangeVars, worldVars
  <1>8. CASE AfterCancel \/ ConfirmedLost
    <2>1. w.side \in Sides
      BY <1>8 DEF AfterCancel, ConfirmedLost, HandShape
    <2> QED BY <1>2, <1>8, <2>1 DEF AfterCancel, ConfirmedLost, worldVars
  <1>9. ASSUME NEW i \in Ids, Land(i) \/ Lose(i) \/ Show(i) \/ Trade(i) PROVE Forward
    BY <1>0, <1>9 DEF Land, Lose, Show, Trade, worldVars
  <1>10. ASSUME NEW i \in Ids, Expire(i) \/ OrphanCancel(i) PROVE Forward
    BY <1>3, <1>10 DEF Expire, OrphanCancel, worldVars
  <1>11. ASSUME NEW i \in Ids, DeliverFill(i) \/ DropFill(i) \/ OrphanCancelFails(i) PROVE Forward
    BY <1>1, <1>11 DEF DeliverFill, DropFill, OrphanCancelFails, exchangeVars
  <1>12. CASE ListAll \/ Diff \/ Confirm \/ Repair \/ FetchPositions
    BY <1>1, <1>12 DEF ListAll, Diff, Confirm, Repair, FetchPositions, PassUnchanged,
                       exchangeVars, worldVars
  <1>13. CASE AdoptDrift \/ SkipDrift \/ PassFails \/ UNCHANGED vars
    BY <1>1, <1>13 DEF AdoptDrift, SkipDrift, PassFails, vars, exchangeVars, worldVars
  <1> QED
    BY <1>4, <1>5, <1>6, <1>7, <1>8, <1>9, <1>10, <1>11, <1>12, <1>13
       DEF Next, Worker, Exchange, Reconcile

\* Outside Land no order becomes hidden, and Land hides one only when listings lag.
LEMMA NoneHidden ==
  ASSUME TypeOK, OrderShape, HandShape, [Next]_vars, ~ListLag, \A id \in Ids : st[id] # "hidden"
  PROVE  \A id \in Ids : st'[id] # "hidden"
  <1> USE DEF TypeOK, ExchangeTypes
  <1>0. w.pc # "idle" => w.id \in Ids
    BY DEF HandShape
  <1>1. CASE UNCHANGED st
    BY <1>1
  <1>2. ASSUME NEW s \in Sides, NEW q, NEW n, PlaceOrLeave(s, q, n)
        PROVE  \A id \in Ids : st'[id] # "hidden"
    BY <1>1, <1>2 DEF PlaceOrLeave
  <1>3. CASE \E id \in Ids : Removed(id)
    BY <1>3 DEF Removed
  <1>4. CASE \E s \in Sides, q \in BOOLEAN :
               Keep(s, q) \/ Place(s, q) \/ StartCancel(s, q) \/ StartLookup(s, q)
    BY <1>1, <1>2, <1>4 DEF Keep, Place, StartCancel, StartLookup, exchangeVars
  <1>5. CASE \/ Evict \/ PauseTimeout \/ CancelFails \/ CreateOk \/ CreateAmbiguous
             \/ LookupServed \/ LookupFails \/ Adopt \/ StillUnknown
    BY <1>1, <1>5 DEF Evict, PauseTimeout, CancelFails, CreateOk, CreateAmbiguous, LookupServed,
                      LookupFails, Adopt, StillUnknown, exchangeVars
  <1>6. CASE CancelServed
    BY <1>0, <1>3, <1>6 DEF CancelServed
  <1>7. CASE \E pause \in BOOLEAN : CreateRejected(pause)
    BY <1>7 DEF CreateRejected
  <1>8. CASE AfterCancel \/ ConfirmedLost
    BY <1>2, <1>8 DEF AfterCancel, ConfirmedLost, HandShape
  <1>9. CASE \E id \in Ids : Land(id) \/ Lose(id) \/ Show(id) \/ Trade(id)
    BY <1>9 DEF Land, Lose, Show, Trade
  <1>10. CASE \E id \in Ids : Expire(id) \/ OrphanCancel(id)
    BY <1>3, <1>10 DEF Expire, OrphanCancel
  <1>11. CASE \E id \in Ids : DeliverFill(id) \/ DropFill(id) \/ OrphanCancelFails(id)
    BY <1>1, <1>11 DEF DeliverFill, DropFill, OrphanCancelFails, exchangeVars
  <1>12. CASE ListAll \/ Diff \/ Confirm \/ Repair \/ FetchPositions
    BY <1>1, <1>12 DEF ListAll, Diff, Confirm, Repair, FetchPositions, PassUnchanged, exchangeVars
  <1>13. CASE AdoptDrift \/ SkipDrift \/ PassFails \/ UNCHANGED vars
    BY <1>1, <1>13 DEF AdoptDrift, SkipDrift, PassFails, vars, exchangeVars
  <1> QED
    BY <1>4, <1>5, <1>6, <1>7, <1>8, <1>9, <1>10, <1>11, <1>12, <1>13
       DEF Next, Worker, Exchange, Reconcile

LEMMA PassSoundNext ==
  ASSUME StrayInv, [Next]_vars PROVE PassSound'
  <1> USE DEF StrayInv, RegistryInv
  <1>1. \A id \in Ids : /\ st[id] \in {"live", "gone"} => st'[id] \in {"live", "gone"}
                        /\ st[id] = "gone" => st'[id] = "gone"
    BY LifeForward
  <1>2. r.missing \in SUBSET Ids /\ r.snap \in SUBSET Ids
    BY DEF TypeOK, PassPos
  <1>3. CASE UNCHANGED r
    BY <1>1, <1>2, <1>3 DEF PassSound
  <1>4. CASE r'.pc \notin {"diffed", "confirmed"}
    BY <1>4 DEF PassSound
  <1>5. CASE Diff
    <2>1. r'.pc = "repaired" \/ r'.pc = "diffed"
      BY <1>5 DEF Diff, PassIdle
    <2>2. r'.missing = Refs \ r.snap
      BY <1>5 DEF Diff, PassIdle
    <2>3. \A id \in Refs : id \in Ids /\ st[id] \in {"live", "gone"}
      BY DEF Refs, RefShape, Landed, TypeOK, BookTypes, Slot
    <2> QED BY <1>1, <2>1, <2>2, <2>3 DEF PassSound
  <1>6. CASE Confirm
    <2>1. /\ r.pc = "diffed" /\ r'.missing = r.missing /\ r'.snap = Listed
          /\ UNCHANGED st
      BY <1>6 DEF Confirm, PassUnchanged, exchangeVars, TypeOK, PassPos
    <2> QED BY <1>2, <2>1 DEF PassSound, Listed
  <1>7. CASE Worker
    BY <1>3, <1>7 DEF Worker, Keep, Place, StartCancel, StartLookup, Evict, PauseTimeout,
         CancelServed, CancelFails, AfterCancel, CreateOk, CreateRejected, CreateAmbiguous,
         LookupServed, LookupFails, Adopt, StillUnknown, ConfirmedLost
  <1>8. CASE Exchange
    BY <1>3, <1>8 DEF Exchange, Land, Lose, Show, Trade, Expire, DeliverFill, DropFill
  <1>9. CASE Reconcile
    <2>1. CASE ListAll
      BY <1>4, <2>1 DEF ListAll, TypeOK, PassPos
    <2>3. CASE FetchPositions \/ Repair
      BY <1>4, <2>3 DEF FetchPositions, Repair, PassIdle
    <2>4. CASE AdoptDrift \/ SkipDrift \/ PassFails
      BY <1>4, <2>4 DEF AdoptDrift, SkipDrift, PassFails, PassIdle
    <2>2. CASE \E id \in Ids : OrphanCancel(id) \/ OrphanCancelFails(id)
      BY <1>4, <2>2 DEF OrphanCancel, OrphanCancelFails, TypeOK, PassPos
    <2> QED BY <1>5, <1>6, <1>9, <2>1, <2>2, <2>3, <2>4 DEF Reconcile
  <1> QED BY <1>3, <1>7, <1>8, <1>9 DEF Next, vars

LEMMA LookupsSettleNext ==
  ASSUME StrayInv, [Next]_vars PROVE LookupsSettle'
  <1> USE DEF StrayInv, RegistryInv
  <1> USE BoundsAssumption
  <1>0. w.pc # "idle" => w.side \in Sides /\ w.id \in Ids /\ st[w.id] # "new"
    BY DEF HandShape
  <1>1. \A id \in Ids : ~Working(id) /\ st[id] # "new" => ~Working(id)'
    BY LifeForward
  <1>t. /\ pend \in [Sides -> Slot] /\ empties \in [Sides -> Nat] /\ age \in [Sides -> Nat]
        /\ w.pc # "idle" => empties[w.side] \in Nat /\ age[w.side] \in Nat
    BY <1>0 DEF TypeOK, ParkTypes
  <1>2. CASE UNCHANGED <<parkVars, w>>
    BY <1>0, <1>1, <1>2 DEF LookupsSettle, parkVars
  <1>3. ASSUME UNCHANGED parkVars, w'.pc \notin {"lookup", "lookedUp"} PROVE LookupsSettle'
    BY <1>3 DEF LookupsSettle, parkVars
  <1>4. ASSUME NEW s \in Sides, NEW q \in BOOLEAN, StartLookup(s, q) PROVE LookupsSettle'
    <2>1. /\ w'.pc = "lookup" /\ w'.side = s /\ pend[s] # None
          /\ pend' = [pend EXCEPT ![s] = None] /\ UNCHANGED <<empties, age>>
      BY <1>4 DEF StartLookup, Suspends
    <2> QED BY <1>t, <2>1 DEF LookupsSettle
  <1>5. CASE CreateAmbiguous \/ LookupFails
    <2>1. /\ w'.pc = "idle" /\ pend' = [pend EXCEPT ![w.side] = w.id]
          /\ empties' = [empties EXCEPT ![w.side] = 0]
          /\ age' = age \/ age' = [age EXCEPT ![w.side] = 0]
      BY <1>5 DEF CreateAmbiguous, LookupFails, Parks, Returns, Idle
    <2> QED BY <1>t, <2>1 DEF LookupsSettle
  <1>6. CASE LookupServed
    <2>1. /\ w.pc = "lookup" /\ w'.pc = "lookedUp" /\ w'.side = w.side /\ w'.id = w.id
          /\ w'.found = IF w.id \in Listed THEN rem[w.id] ELSE 0
          /\ age[w.side] >= ListDelay => Settled(w.id)
          /\ age' = [age EXCEPT ![w.side] = IF age[w.side] < ListDelay THEN age[w.side] + 1
                                            ELSE age[w.side]]
          /\ UNCHANGED <<pend, empties, st>>
      BY <1>6 DEF LookupServed, TypeOK, WorkerTypes, WorkerPos, exchangeVars
    <2>2. w.side \in Sides /\ w.id \in Ids
      BY <1>0, <2>1
    <2>3. empties[w.side] <= age[w.side] \/ age[w.side] >= ListDelay
      BY <2>1 DEF LookupsSettle
    <2>4. empties'[w.side] + 1 <= age'[w.side] \/ age'[w.side] >= ListDelay
      BY <1>t, <2>1, <2>2, <2>3
    <2>5. ASSUME w'.found = 0, empties[w.side] >= ListDelay PROVE ~Working(w.id)'
      <3>1. Settled(w.id)
        BY <1>t, <2>1, <2>2, <2>3, <2>5
      <3>2. st[w.id] # "live"
        BY <2>1, <2>2, <2>5 DEF Listed, OrderShape, Working, Resting
      <3> QED BY <2>1, <3>1, <3>2 DEF Settled, Working, Resting
    <2>6. \A s \in Sides : pend'[s] # None => empties'[s] <= age'[s] \/ age'[s] >= ListDelay
      BY <1>t, <2>1, <2>2 DEF LookupsSettle
    <2> QED BY <1>t, <2>1, <2>2, <2>4, <2>5, <2>6 DEF LookupsSettle
  <1>7. CASE StillUnknown
    <2>1. /\ w.pc = "lookedUp" /\ w'.pc = "idle" /\ pend' = [pend EXCEPT ![w.side] = w.id]
          /\ empties' = [empties EXCEPT ![w.side] = empties[w.side] + 1] /\ UNCHANGED age
      BY <1>7 DEF StillUnknown, Parks, Returns, Idle
    <2> QED BY <1>0, <1>t, <2>1 DEF LookupsSettle
  <1>8. CASE Adopt
    <2>1. /\ w.pc # "idle" /\ w'.pc = "idle" /\ UNCHANGED pend
          /\ empties' = [empties EXCEPT ![w.side] = 0] /\ age' = [age EXCEPT ![w.side] = 0]
      BY <1>8 DEF Adopt, Returns, Idle
    <2> QED BY <1>0, <1>t, <2>1 DEF LookupsSettle
  <1>9. ASSUME NEW s \in Sides, NEW q, NEW n, PlaceOrLeave(s, q, n)
        PROVE  w'.pc \notin {"lookup", "lookedUp"}
    BY <1>9 DEF PlaceOrLeave, Returns, Idle, Suspends
  <1>10. CASE ConfirmedLost
    <2>1. /\ w.pc # "idle" /\ w'.pc \notin {"lookup", "lookedUp"} /\ UNCHANGED pend
          /\ empties' = [empties EXCEPT ![w.side] = 0] /\ age' = [age EXCEPT ![w.side] = 0]
      BY <1>0, <1>9, <1>10 DEF ConfirmedLost
    <2> QED BY <1>0, <1>t, <2>1 DEF LookupsSettle
  <1>11. CASE AfterCancel \/ CancelServed \/ CancelFails \/ CreateOk
              \/ \E pause \in BOOLEAN : CreateRejected(pause)
    BY <1>0, <1>3, <1>9, <1>11 DEF AfterCancel, CancelServed, CancelFails, CreateOk,
       CreateRejected, Returns, Idle, TypeOK, WorkerTypes, WorkerPos
  <1>12. ASSUME NEW s \in Sides, NEW q \in BOOLEAN,
                Keep(s, q) \/ Place(s, q) \/ StartCancel(s, q)
         PROVE  LookupsSettle'
    BY <1>3, <1>9, <1>12 DEF Keep, Place, StartCancel, Suspends, Returns, Idle
  <1>13. CASE Evict \/ PauseTimeout
    BY <1>2, <1>13 DEF Evict, PauseTimeout
  <1>14. CASE Exchange
    BY <1>2, <1>14 DEF Exchange, Land, Lose, Show, Trade, Expire, DeliverFill, DropFill, workerVars
  <1>15. CASE Reconcile
    BY <1>2, <1>15 DEF Reconcile, ListAll, Diff, Confirm, Repair, OrphanCancel,
       OrphanCancelFails, FetchPositions, AdoptDrift, SkipDrift, PassFails, PassUnchanged, workerVars
  <1>16. CASE UNCHANGED vars
    BY <1>2, <1>16 DEF vars, workerVars
  <1> QED
    BY <1>4, <1>5, <1>6, <1>7, <1>8, <1>10, <1>11, <1>12, <1>13, <1>14, <1>15, <1>16
       DEF Next, Worker

LEMMA SupersededNext ==
  ASSUME StrayInv, [Next]_vars PROVE Superseded'
  <1> USE DEF StrayInv, RegistryInv
  <1>0. w.pc # "idle" => w.side \in Sides /\ w.id \in Ids /\ st[w.id] # "new"
    BY DEF HandShape
  <1>t. ref \in [Sides -> Slot]
    BY DEF TypeOK, BookTypes
  <1>r. \A s \in Sides : ref[s] # None => ref[s] \in Ids /\ st[ref[s]] # "new"
    BY <1>t DEF RefShape, Landed, Slot
  <1>1. \A id \in Ids : /\ ~Working(id) /\ st[id] # "new" => ~Working(id)'
                        /\ id \in leaked => id \in leaked'
    BY LifeForward
  <1>2. ASSUME UNCHANGED w, \A s \in Sides : ref'[s] \in {ref[s], None} PROVE Superseded'
    BY <1>0, <1>1, <1>2, <1>r DEF Superseded
  <1>3. ASSUME w'.pc \notin {"cancelled", "create"} PROVE Superseded'
    BY <1>3 DEF Superseded
  <1>4. ASSUME NEW s \in Sides, NEW q, NEW n, PlaceOrLeave(s, q, n),
               ref[s] # None => ~Working(ref[s]) \/ ref[s] \in leaked
        PROVE  Superseded'
    <2>1. CASE Returns(s, q, None, 0)
      BY <1>3, <2>1 DEF Returns, Idle
    <2>2. CASE Suspends("create", s, q, sent + 1) /\ UNCHANGED ref
      <3>1. w'.pc = "create" /\ w'.side = s
        BY <2>2 DEF Suspends
      <3> QED BY <1>1, <1>4, <1>r, <2>2, <3>1 DEF Superseded
    <2> QED BY <1>4, <2>1, <2>2 DEF PlaceOrLeave
  <1>5. ASSUME NEW s \in Sides, NEW q \in BOOLEAN,
               \/ Keep(s, q) \/ Place(s, q) \/ StartCancel(s, q) \/ StartLookup(s, q)
        PROVE  Superseded'
    BY <1>3, <1>4, <1>5 DEF Keep, Place, StartCancel, StartLookup, Returns, Suspends, Idle
  <1>6. CASE Evict \/ PauseTimeout
    BY <1>2, <1>6 DEF Evict, PauseTimeout, bookVars
  <1>7. CASE CancelServed
    <2>1. /\ w.pc = "cancel" /\ w'.pc = "cancelled" /\ w'.id = w.id /\ Removed(w.id)
      BY <1>7 DEF CancelServed, TypeOK, WorkerTypes, WorkerPos
    <2>2. Landed(w.id) /\ w.id \in Ids
      BY <2>1 DEF HandShape
    <2>3. ~Working(w.id)'
      BY <2>1, <2>2 DEF Removed, Working, Resting, Landed, TypeOK, ExchangeTypes
    <2> QED BY <2>1, <2>3 DEF Superseded
  <1>8. CASE CancelFails
    <2>1. w'.pc = "cancelled" /\ w'.id = w.id /\ w.id \in leaked'
      BY <1>8 DEF CancelFails, TypeOK, WorkerTypes, WorkerPos
    <2> QED BY <2>1 DEF Superseded
  <1>9. CASE AfterCancel
    <2>1. /\ w.pc = "cancelled" /\ ref[w.side] \in {w.id, None}
          /\ ~Working(w.id) \/ w.id \in leaked
      BY <1>9 DEF AfterCancel, HandShape, Superseded
    <2> QED BY <1>0, <1>4, <1>9, <2>1 DEF AfterCancel
  <1>10. CASE ConfirmedLost
    <2>1. ref[w.side] = None /\ w.side \in Sides
      BY <1>10 DEF ConfirmedLost, HandShape
    <2> QED BY <1>4, <1>10, <2>1 DEF ConfirmedLost
  <1>11. CASE \/ CreateOk \/ CreateAmbiguous \/ LookupFails \/ Adopt \/ StillUnknown
              \/ \E pause \in BOOLEAN : CreateRejected(pause)
    BY <1>3, <1>11 DEF CreateOk, CreateAmbiguous, LookupFails, Adopt, StillUnknown,
                       CreateRejected, Returns, Idle
  <1>12. CASE LookupServed
    BY <1>3, <1>12 DEF LookupServed, TypeOK, WorkerTypes, WorkerPos
  <1>13. ASSUME NEW id \in Ids, DeliverFill(id) PROVE Superseded'
    <2>1. UNCHANGED w
      BY <1>13 DEF DeliverFill, workerVars
    <2>2. \A s \in Sides : ref'[s] \in {ref[s], None}
      BY <1>13, <1>t DEF DeliverFill
    <2> QED BY <1>2, <2>1, <2>2
  <1>14. ASSUME NEW id \in Ids,
                Land(id) \/ Lose(id) \/ Show(id) \/ Trade(id) \/ Expire(id) \/ DropFill(id)
         PROVE  Superseded'
    BY <1>2, <1>14 DEF Land, Lose, Show, Trade, Expire, DropFill, workerVars, bookVars
  <1>15. CASE Reconcile
    <2>1. UNCHANGED w
      BY <1>15 DEF Reconcile, ListAll, Diff, Confirm, Repair, OrphanCancel, OrphanCancelFails,
         FetchPositions, AdoptDrift, SkipDrift, PassFails, PassUnchanged, workerVars
    <2>2. \A s \in Sides : ref'[s] \in {ref[s], None}
      BY <1>15 DEF Reconcile, ListAll, Diff, Confirm, Repair, OrphanCancel, OrphanCancelFails,
         FetchPositions, AdoptDrift, SkipDrift, PassFails, PassUnchanged, bookVars
    <2> QED BY <1>2, <2>1, <2>2
  <1>16. CASE UNCHANGED vars
    BY <1>2, <1>16 DEF vars, workerVars, bookVars
  <1> QED
    BY <1>5, <1>6, <1>7, <1>8, <1>9, <1>10, <1>11, <1>12, <1>13, <1>14, <1>15, <1>16
       DEF Next, Worker, Exchange

\* What an order has left to fill or to report never grows.
LEMMA LeftShrinks ==
  ASSUME TypeOK, OrderShape, HandShape, [Next]_vars, NEW id \in Ids, st[id] # "new", Working(id)'
  PROVE  Working(id) /\ rem'[id] + fills'[id] <= rem[id] + fills[id]
  <1> USE DEF Working, Resting
  <1> DEFINE Shrinks == Working(id) /\ rem'[id] + fills'[id] <= rem[id] + fills[id]
  <1>0. /\ st \in [Ids -> States] /\ (w.pc # "idle" => w.id \in Ids)
        /\ rem \in [Ids -> Nat] /\ fills \in [Ids -> Nat]
    BY DEF TypeOK, ExchangeTypes, WorldTypes, HandShape
  <1>1. Working(id)
    BY LifeForward
  <1>2. CASE UNCHANGED <<rem, fills>>
    BY <1>0, <1>1, <1>2
  <1>3. ASSUME NEW s \in Sides, NEW q, NEW n, PlaceOrLeave(s, q, n), UNCHANGED fills
        PROVE  Shrinks
    <2>1. CASE UNCHANGED rem
      BY <1>2, <1>3, <2>1
    <2>2. CASE sent < MaxOrders /\ \E size \in 1 .. MaxSize : rem' = [rem EXCEPT ![sent + 1] = size]
      <3>1. sent + 1 \in Ids /\ st[sent + 1] = "new"
        BY <2>2, BoundsAssumption DEF TypeOK, ExchangeTypes, Ids, OrderShape
      <3> QED BY <1>0, <1>1, <1>3, <2>2, <3>1
    <2> QED BY <1>3, <2>1, <2>2 DEF PlaceOrLeave
  <1>4. ASSUME NEW i \in Ids, Removed(i), UNCHANGED fills PROVE Shrinks
    BY <1>0, <1>1, <1>4 DEF Removed
  <1>5. ASSUME NEW i \in Ids, Trade(i) PROVE Shrinks
    <2>1. rem[i] > 0
      BY <1>5 DEF Trade, OrderShape
    <2> QED BY <1>0, <1>1, <1>5, <2>1 DEF Trade
  <1>6. ASSUME NEW i \in Ids, DeliverFill(i) \/ DropFill(i) PROVE Shrinks
    BY <1>0, <1>1, <1>6 DEF DeliverFill, DropFill, exchangeVars
  <1>7. CASE \E s \in Sides, q \in BOOLEAN :
               Keep(s, q) \/ Place(s, q) \/ StartCancel(s, q) \/ StartLookup(s, q)
    BY <1>2, <1>3, <1>7 DEF Keep, Place, StartCancel, StartLookup, exchangeVars, worldVars
  <1>8. CASE \/ Evict \/ PauseTimeout \/ CancelFails \/ CreateOk \/ CreateAmbiguous
             \/ LookupServed \/ LookupFails \/ Adopt \/ StillUnknown
    BY <1>2, <1>8 DEF Evict, PauseTimeout, CancelFails, CreateOk, CreateAmbiguous,
       LookupServed, LookupFails, Adopt, StillUnknown, exchangeVars, worldVars
  <1>9. CASE CancelServed
    BY <1>0, <1>4, <1>9 DEF CancelServed, worldVars
  <1>10. CASE AfterCancel \/ ConfirmedLost
    BY <1>3, <1>10 DEF AfterCancel, ConfirmedLost, HandShape, worldVars
  <1>11. ASSUME NEW pause \in BOOLEAN, CreateRejected(pause) PROVE Shrinks
    BY <1>0, <1>1, <1>11 DEF CreateRejected, worldVars
  <1>12. ASSUME NEW i \in Ids, Land(i) \/ Lose(i) \/ Show(i) PROVE Shrinks
    BY <1>0, <1>1, <1>12 DEF Land, Lose, Show, worldVars
  <1>13. ASSUME NEW i \in Ids, Expire(i) \/ OrphanCancel(i) \/ OrphanCancelFails(i) PROVE Shrinks
    BY <1>2, <1>4, <1>13 DEF Expire, OrphanCancel, OrphanCancelFails, worldVars, exchangeVars
  <1>14. CASE ListAll \/ Diff \/ Confirm \/ Repair \/ FetchPositions
    BY <1>2, <1>14 DEF ListAll, Diff, Confirm, Repair, FetchPositions, PassUnchanged,
                       exchangeVars, worldVars
  <1>15. CASE AdoptDrift \/ SkipDrift \/ PassFails \/ UNCHANGED vars
    BY <1>2, <1>15 DEF AdoptDrift, SkipDrift, PassFails, vars, exchangeVars, worldVars
  <1> QED
    BY <1>5, <1>6, <1>7, <1>8, <1>9, <1>10, <1>11, <1>12, <1>13, <1>14, <1>15
       DEF Next, Worker, Exchange, Reconcile

LEMMA CountsCoverNext ==
  ASSUME StrayInv, [Next]_vars, WsFirst PROVE CountsCover'
  <1> USE DEF StrayInv, RegistryInv
  <1>0. w.pc # "idle" => w.side \in Sides /\ w.id \in Ids /\ w.id # None /\ st[w.id] # "new"
    BY DEF HandShape, Ids, None
  <1>t. /\ ref \in [Sides -> Slot] /\ st \in [Ids -> States] /\ cnt \in [Ids -> Nat]
        /\ rem \in [Ids -> Nat] /\ fills \in [Ids -> Nat] /\ w.found \in Nat
    BY DEF TypeOK, BookTypes, ExchangeTypes, WorldTypes, WorkerTypes, WorkerPos
  <1>t2. /\ rem' \in [Ids -> Nat] /\ fills' \in [Ids -> Nat]
    BY RegistryNext DEF TypeOK, ExchangeTypes, WorldTypes
  <1>r. \A s \in Sides : ref[s] # None => ref[s] \in Ids /\ st[ref[s]] # "new" /\ sideOf[ref[s]] = s
    BY <1>t DEF RefShape, Slot, Landed
  \* a bound on an order that existed goes on covering it
  <1>c. ASSUME NEW id \in Ids, st[id] # "new", NEW n \in Nat, Covers(id, n)
        PROVE  Working(id)' => n >= rem'[id] + fills'[id]
    BY <1>c, <1>t, <1>t2, LeftShrinks DEF Covers
  <1>1. ASSUME UNCHANGED <<cnt, w>>, \A s \in Sides : ref'[s] \in {ref[s], None}
        PROVE  CountsCover'
    BY <1>0, <1>1, <1>c, <1>r, <1>t DEF CountsCover, Covers
  <1>2. ASSUME NEW s \in Sides, NEW q, NEW o \in Slot, NEW n \in Nat, Returns(s, q, o, n),
               o # None => st[o] # "new" /\ Covers(o, n)
        PROVE  CountsCover'
    <2>1. w'.pc = "idle" /\ ref' = [ref EXCEPT ![s] = o]
      BY <1>2 DEF Returns, Idle
    <2>2. /\ o # None => cnt'[o] = n
          /\ \A u \in Sides \ {s} : ref[u] # None /\ ref[u] # o => cnt'[ref[u]] = cnt[ref[u]]
      BY <1>2, <1>r, <1>t DEF Returns, Slot
    <2>3. ASSUME NEW u \in Sides, ref'[u] # None
          PROVE  Working(ref[u])' => cnt'[ref'[u]] >= rem'[ref'[u]] + fills'[ref'[u]]
      <3>1. CASE u = s \/ ref[u] = o
        <4>1. ref'[u] = o /\ o \in Ids
          BY <1>t, <2>1, <2>3, <3>1 DEF Slot
        <4> QED BY <1>2, <1>c, <2>2, <2>3, <4>1 DEF Working, Resting
      <3>2. CASE u # s /\ ref[u] # o
        <4>1. ref'[u] = ref[u] /\ cnt'[ref[u]] = cnt[ref[u]] /\ Covers(ref[u], cnt[ref[u]])
          BY <1>t, <2>1, <2>2, <2>3, <3>2 DEF CountsCover
        <4> QED BY <1>c, <1>r, <1>t, <2>3, <4>1 DEF Working, Resting
      <3> QED BY <3>1, <3>2
    <2> QED BY <2>1, <2>3 DEF CountsCover, Covers
  <1>3. ASSUME NEW s \in Sides, NEW q, NEW n, PlaceOrLeave(s, q, n), UNCHANGED fills
        PROVE  CountsCover'
    <2>1. CASE Returns(s, q, None, 0)
      BY <1>2, <2>1 DEF Slot
    <2>2. CASE \E size \in 1 .. MaxSize :
            /\ sent < MaxOrders
            /\ rem' = [rem EXCEPT ![sent + 1] = size]
            /\ cnt' = [cnt EXCEPT ![sent + 1] = size]
            /\ Suspends("create", s, q, sent + 1)
            /\ UNCHANGED ref
      <3>1. sent + 1 \in Ids /\ st[sent + 1] = "new" /\ fills[sent + 1] = 0
        BY <2>2, BoundsAssumption DEF TypeOK, ExchangeTypes, Ids, OrderShape
      <3>2. w'.pc = "create" /\ w'.id = sent + 1
        BY <2>2 DEF Suspends
      <3>3. \A u \in Sides : ref[u] # None => ref[u] # sent + 1
        BY <1>r, <3>1
      <3>4. cnt'[sent + 1] >= rem'[sent + 1] + fills'[sent + 1]
        BY <1>3, <1>t, <2>2, <3>1
      <3>5. \A u \in Sides : ref'[u] # None => Covers(ref[u], cnt[ref[u]])'
        BY <1>c, <1>r, <1>t, <2>2, <3>3 DEF CountsCover, Covers
      <3> QED BY <3>2, <3>4, <3>5 DEF CountsCover, Covers
    <2> QED BY <1>3, <2>1, <2>2 DEF PlaceOrLeave
  <1>4. ASSUME NEW s \in Sides, NEW q \in BOOLEAN, Keep(s, q) PROVE CountsCover'
    <2>1. PICK o \in Slot : o = ref[s]
      BY <1>t
    <2>2. PICK n \in Nat : n = IF o = None THEN 0 ELSE cnt[o]
      BY <1>t DEF Slot
    <2>3. Returns(s, q, o, n)
      BY <1>4, <2>1, <2>2 DEF Keep
    <2> QED BY <1>2, <1>r, <2>1, <2>2, <2>3 DEF CountsCover
  <1>5. ASSUME NEW s \in Sides, NEW q \in BOOLEAN, Place(s, q) PROVE CountsCover'
    BY <1>3, <1>5 DEF Place, worldVars
  <1>6. ASSUME w'.pc \in {"idle", "cancel", "cancelled", "lookup"}, UNCHANGED <<cnt, ref>>
        PROVE  CountsCover'
    BY <1>6, <1>c, <1>r, <1>t DEF CountsCover, Covers
  <1>7. ASSUME NEW s \in Sides, NEW q \in BOOLEAN, StartCancel(s, q) \/ StartLookup(s, q)
        PROVE  CountsCover'
    BY <1>6, <1>7 DEF StartCancel, StartLookup, Suspends, bookVars
  <1>8. CASE Evict \/ PauseTimeout
    BY <1>1, <1>8 DEF Evict, PauseTimeout, bookVars
  <1>9. CASE CancelServed \/ CancelFails
    BY <1>6, <1>9 DEF CancelServed, CancelFails, bookVars, TypeOK, WorkerTypes, WorkerPos
  <1>10. CASE AfterCancel \/ ConfirmedLost
    BY <1>0, <1>3, <1>10 DEF AfterCancel, ConfirmedLost, worldVars
  <1>11. CASE CreateOk
    <2>1. /\ w.pc = "create" /\ Returns(w.side, cycle.quotes, w.id, cnt[w.id])
          /\ Covers(w.id, cnt[w.id])
      BY <1>11 DEF CreateOk, CountsCover
    <2> QED BY <1>0, <1>2, <1>t, <2>1 DEF Slot
  <1>12. CASE Adopt
    <2>1. /\ w.pc = "lookedUp" /\ Returns(w.side, cycle.quotes, w.id, w.found)
          /\ Covers(w.id, w.found)
      BY <1>12 DEF Adopt, CountsCover
    <2> QED BY <1>0, <1>2, <1>t, <2>1 DEF Slot
  <1>13. CASE \/ CreateAmbiguous \/ LookupFails \/ StillUnknown
              \/ \E pause \in BOOLEAN : CreateRejected(pause)
    <2>1. w.pc # "idle" /\ Returns(w.side, cycle.quotes, None, 0)
      BY <1>13 DEF CreateAmbiguous, LookupFails, StillUnknown, CreateRejected
    <2> QED BY <1>0, <1>2, <2>1 DEF Slot
  <1>14. CASE LookupServed
    <2>1. /\ w.pc = "lookup" /\ w'.pc = "lookedUp" /\ w'.id = w.id /\ fills[w.id] = 0
          /\ w'.found > 0 => w'.found = rem[w.id]
          /\ UNCHANGED <<cnt, ref, rem, fills, st>>
      BY <1>14 DEF LookupServed, bookVars, exchangeVars, worldVars, TypeOK, WorkerTypes, WorkerPos
    <2>2. w'.found > 0 => w'.found >= rem'[w.id] + fills'[w.id]
      BY <1>0, <1>t, <2>1
    <2> QED BY <2>1, <2>2 DEF CountsCover, Covers, Working, Resting
  <1>15. ASSUME NEW id \in Ids, DeliverFill(id) PROVE CountsCover'
    <2> DEFINE s == sideOf[id]
    <2>0. s \in Sides /\ UNCHANGED <<st, rem, w>> /\ fills' = [fills EXCEPT ![id] = fills[id] - 1]
      BY <1>15 DEF DeliverFill, OrderShape, exchangeVars, workerVars
    <2>1. CASE ref[s] # id
      <3>1. UNCHANGED <<cnt, ref>>
        BY <1>15, <2>1 DEF DeliverFill
      <3> QED BY <1>1, <2>0, <3>1
    <2>2. CASE ref[s] = id
      <3>1. /\ cnt' = [cnt EXCEPT ![id] = Clamped(cnt[id] - 1)]
            /\ ref' = IF cnt[id] <= 1 THEN [ref EXCEPT ![s] = None] ELSE ref
            /\ sideOf[id] = s /\ fills[id] > 0
        BY <1>15, <2>2 DEF DeliverFill
      <3> HIDE DEF s
      <3>2. id # None /\ cnt[id] > 0 /\ Covers(id, cnt[id])
        BY <2>0, <2>2 DEF RefShape, CountsCover, Ids, None
      <3>3. Working(id)' => cnt'[id] >= rem'[id] + fills'[id]
        BY <1>t, <2>0, <3>1, <3>2 DEF Covers, Clamped, Working, Resting
      <3>4. \A u \in Sides : ref'[u] # None => Covers(ref[u], cnt[ref[u]])'
        <4> SUFFICES ASSUME NEW u \in Sides, ref'[u] # None
                     PROVE  Covers(ref[u], cnt[ref[u]])'
          OBVIOUS
        <4>1. ref'[u] = ref[u]
          BY <1>t, <2>0, <3>1
        <4>2. CASE ref[u] = id
          BY <3>3, <4>1, <4>2 DEF Covers, Working, Resting
        <4>3. CASE ref[u] # id
          BY <1>c, <1>r, <1>t, <2>0, <3>1, <4>1, <4>3 DEF CountsCover, Covers, Working, Resting
        <4> QED BY <4>2, <4>3
      <3>5. w.pc # "idle" /\ w.id = id => w.pc # "create"
        BY <2>0, <2>2, <3>1 DEF HandShape
      <3>6. w.pc = "create" => Covers(w.id, cnt[w.id])'
        BY <1>0, <1>c, <1>t, <2>0, <3>1, <3>5 DEF CountsCover, Covers, Working, Resting
      <3>7. w.pc = "lookedUp" /\ w.found > 0 => Covers(w.id, w.found)'
        BY <1>0, <1>c, <1>t, <2>0 DEF CountsCover, Covers, Working, Resting
      <3> QED BY <2>0, <3>4, <3>6, <3>7 DEF CountsCover
    <2> QED BY <2>1, <2>2
  <1>16. ASSUME NEW id \in Ids,
                Land(id) \/ Lose(id) \/ Show(id) \/ Trade(id) \/ Expire(id) \/ DropFill(id)
         PROVE  CountsCover'
    BY <1>1, <1>16 DEF Land, Lose, Show, Trade, Expire, DropFill, workerVars, bookVars
  <1>17. CASE Reconcile
    <2>1. UNCHANGED <<cnt, w>>
      BY <1>17 DEF Reconcile, ListAll, Diff, Confirm, Repair, OrphanCancel, OrphanCancelFails,
         FetchPositions, AdoptDrift, SkipDrift, PassFails, PassUnchanged, workerVars, bookVars
    <2>2. \A s \in Sides : ref'[s] \in {ref[s], None}
      BY <1>17 DEF Reconcile, ListAll, Diff, Confirm, Repair, OrphanCancel, OrphanCancelFails,
         FetchPositions, AdoptDrift, SkipDrift, PassFails, PassUnchanged, bookVars
    <2> QED BY <1>1, <2>1, <2>2
  <1>18. CASE UNCHANGED vars
    BY <1>1, <1>18 DEF vars, workerVars, bookVars
  <1> QED
    BY <1>4, <1>5, <1>7, <1>8, <1>9, <1>10, <1>11, <1>12, <1>13, <1>14, <1>15, <1>16, <1>17,
       <1>18 DEF Next, Worker, Exchange

LEMMA NoStrayNext ==
  ASSUME StrayInv, [Next]_vars, Consistent PROVE NoStrayOrder'
  <1> USE DEF StrayInv, RegistryInv
  <1> DEFINE Held(id) == id \in Refs \cup Parked \cup InHand \cup leaked
  <1>0. w.pc # "idle" => w.side \in Sides /\ w.id \in Ids /\ w.id # None /\ st[w.id] # "new"
    BY DEF HandShape, Ids, None
  <1>t. /\ ref \in [Sides -> Slot] /\ pend \in [Sides -> Slot]
        /\ st \in [Ids -> States] /\ cnt \in [Ids -> Nat]
    BY DEF TypeOK, BookTypes, ParkTypes, ExchangeTypes
  <1>w. \A id \in Ids : st[id] # "new" /\ Working(id)' => Working(id)
    BY LifeForward
  <1>l. \A id \in Ids : id \in leaked => id \in leaked'
    BY LifeForward
  <1>n. \A id \in Ids : id # None
    BY DEF Ids, None
  <1>h. ASSUME NEW id \in Ids, Working(id)
        PROVE  \/ \E s \in Sides : ref[s] = id
               \/ \E s \in Sides : pend[s] = id
               \/ w.pc \in {"create", "lookup", "lookedUp"} /\ w.id = id
               \/ id \in leaked
    BY <1>h DEF NoStrayOrder, Refs, Parked, InHand
  <1>g. SUFFICES ASSUME NEW id \in Ids, Working(id)'
                 PROVE  \/ \E s \in Sides : ref'[s] = id
                        \/ \E s \in Sides : pend'[s] = id
                        \/ w'.pc \in {"create", "lookup", "lookedUp"} /\ w'.id = id
                        \/ id \in leaked'
    BY <1>n DEF NoStrayOrder, Refs, Parked, InHand
  <1> DEFINE Goal == \/ \E s \in Sides : ref'[s] = id
                     \/ \E s \in Sides : pend'[s] = id
                     \/ w'.pc \in {"create", "lookup", "lookedUp"} /\ w'.id = id
                     \/ id \in leaked'
  <1>1. ASSUME st[id] # "new", UNCHANGED <<ref, pend, w>> PROVE Goal
    BY <1>1, <1>g, <1>h, <1>l, <1>w
  \* _reconcile returned: the side's old order is dead, and so is the one in hand
  \* unless it was tracked or parked
  <1>2. ASSUME NEW s \in Sides, NEW o \in Slot, NEW p \in Slot, st[id] # "new",
               ref' = [ref EXCEPT ![s] = o], pend' = [pend EXCEPT ![s] = p],
               ref[s] = id => o = id \/ id \in leaked,
               pend[s] = id => p = id,
               w.pc \in {"create", "lookup", "lookedUp"} /\ w.id = id => o = id \/ p = id
        PROVE  Goal
    <2>1. Working(id)
      BY <1>2, <1>g, <1>w
    <2>2. CASE \E u \in Sides : ref[u] = id
      BY <1>2, <1>l, <1>t, <2>2
    <2>3. CASE \E u \in Sides : pend[u] = id
      BY <1>2, <1>t, <2>3
    <2>4. CASE w.pc \in {"create", "lookup", "lookedUp"} /\ w.id = id
      BY <1>2, <1>t, <2>4
    <2> QED BY <1>h, <1>l, <2>1, <2>2, <2>3, <2>4
  <1>3. ASSUME NEW s \in Sides, NEW q, NEW n, PlaceOrLeave(s, q, n), UNCHANGED pend,
               ref[s] = id => ~Working(id) \/ id \in leaked,
               w.pc \in {"create", "lookup", "lookedUp"} /\ w.id = id => ~Working(id)
        PROVE  Goal
    <2>1. CASE Returns(s, q, None, 0) /\ UNCHANGED st
      <3>1. ref' = [ref EXCEPT ![s] = None] /\ Working(id)
        BY <1>g, <2>1 DEF Returns, Working, Resting
      <3> QED BY <1>3, <1>h, <1>l, <1>t, <3>1
    <2>2. CASE /\ sent < MaxOrders /\ st' = [st EXCEPT ![sent + 1] = "sent"]
               /\ Suspends("create", s, q, sent + 1) /\ UNCHANGED ref
      <3>1. sent + 1 \in Ids
        BY <2>2, BoundsAssumption DEF TypeOK, ExchangeTypes, Ids
      <3>2. CASE id = sent + 1
        BY <2>2, <3>2 DEF Suspends
      <3>3. CASE id # sent + 1
        <4>1. Working(id)
          BY <1>g, <1>t, <2>2, <3>1, <3>3 DEF Working, Resting
        <4> QED BY <1>3, <1>h, <1>l, <2>2, <4>1
      <3> QED BY <3>2, <3>3
    <2> QED BY <1>3, <2>1, <2>2 DEF PlaceOrLeave
  <1>4. ASSUME UNCHANGED st PROVE st[id] # "new" /\ Working(id)
    BY <1>4, <1>g DEF Working, Resting
  <1>5. ASSUME NEW s \in Sides, NEW q \in BOOLEAN, Keep(s, q) PROVE Goal
    <2>1. ref' = [ref EXCEPT ![s] = ref[s]] /\ UNCHANGED <<pend, st>> /\ w.pc = "idle"
      BY <1>5 DEF Keep, Turn, Returns, parkVars, exchangeVars
    <2>2. UNCHANGED ref
      BY <1>t, <2>1
    <2> QED BY <1>4, <1>h, <1>l, <2>1, <2>2
  <1>6. ASSUME NEW s \in Sides, NEW q \in BOOLEAN, Place(s, q) PROVE Goal
    <2>1. ref[s] # id /\ w.pc = "idle" /\ UNCHANGED pend /\ PlaceOrLeave(s, q, registry[s])
      BY <1>6, <1>n DEF Place, Turn, parkVars
    <2> QED BY <1>3, <2>1
  <1>7. ASSUME NEW s \in Sides, NEW q \in BOOLEAN, StartCancel(s, q) PROVE Goal
    <2>1. w.pc = "idle" /\ UNCHANGED <<ref, pend, st>>
      BY <1>7 DEF StartCancel, Turn, bookVars, parkVars, exchangeVars
    <2> QED BY <1>4, <1>h, <1>l, <2>1
  <1>8. ASSUME NEW s \in Sides, NEW q \in BOOLEAN, StartLookup(s, q) PROVE Goal
    <2>1. /\ w.pc = "idle" /\ UNCHANGED <<ref, st>> /\ pend' = [pend EXCEPT ![s] = None]
          /\ w'.pc = "lookup" /\ w'.id = pend[s]
      BY <1>8 DEF StartLookup, Turn, Suspends, bookVars, exchangeVars
    <2> QED BY <1>4, <1>h, <1>l, <1>t, <2>1
  <1>9. CASE Evict \/ PauseTimeout
    BY <1>1, <1>4, <1>9 DEF Evict, PauseTimeout, bookVars, parkVars, exchangeVars
  <1>10. CASE CancelServed \/ CancelFails
    <2>1. w.pc = "cancel" /\ UNCHANGED <<ref, pend>>
      BY <1>10 DEF CancelServed, CancelFails, bookVars, parkVars
    <2>2. st[id] # "new"
      BY <1>0, <1>g, <1>10, <1>t, <2>1
         DEF CancelServed, CancelFails, Removed, exchangeVars, Working, Resting
    <2> QED BY <1>g, <1>h, <1>l, <1>w, <2>1, <2>2
  <1>11. CASE AfterCancel
    <2>1. /\ w.pc = "cancelled" /\ ref[w.side] \in {w.id, None}
          /\ ~Working(w.id) \/ w.id \in leaked
      BY <1>11 DEF AfterCancel, HandShape, Superseded, parkVars
    <2>2. UNCHANGED pend
      BY <1>11 DEF AfterCancel, parkVars
    <2> QED BY <1>0, <1>3, <1>11, <1>n, <2>1, <2>2 DEF AfterCancel
  <1>12. CASE ConfirmedLost
    <2>1. /\ w.pc = "lookedUp" /\ w.found = 0 /\ ref[w.side] = None /\ UNCHANGED pend
          /\ empties[w.side] + 1 >= ConfirmLost
      BY <1>12 DEF ConfirmedLost, HandShape, LostAfter
    <2>2. empties[w.side] >= ListDelay
      BY <1>0, <2>1, BoundsAssumption DEF Consistent, TypeOK, ParkTypes
    <2>3. ~Working(w.id)
      BY <2>1, <2>2 DEF LookupsSettle
    <2> QED BY <1>0, <1>3, <1>12, <1>n, <2>1, <2>3 DEF ConfirmedLost
  <1>13. CASE CreateOk
    <2>1. /\ w.pc = "create" /\ ref' = [ref EXCEPT ![w.side] = w.id] /\ UNCHANGED <<pend, st>>
      BY <1>13 DEF CreateOk, Returns, parkVars, exchangeVars
    <2>2. ref[w.side] = id => id \in leaked
      BY <1>4, <1>n, <2>1 DEF Superseded
    <2> QED BY <1>0, <1>4, <1>h, <1>l, <1>t, <2>1, <2>2
  <1>14. CASE Adopt
    <2>1. /\ w.pc = "lookedUp" /\ ref' = [ref EXCEPT ![w.side] = w.id] /\ UNCHANGED <<pend, st>>
          /\ ref[w.side] = None
      BY <1>14 DEF Adopt, Returns, exchangeVars, HandShape
    <2> QED BY <1>0, <1>4, <1>h, <1>l, <1>n, <1>t, <2>1
  <1>15. CASE CreateAmbiguous \/ LookupFails \/ StillUnknown
    <2>1. /\ w.pc \in {"create", "lookup", "lookedUp"} /\ UNCHANGED st
          /\ ref' = [ref EXCEPT ![w.side] = None] /\ pend' = [pend EXCEPT ![w.side] = w.id]
          /\ pend[w.side] = None
      BY <1>0, <1>15 DEF CreateAmbiguous, LookupFails, StillUnknown, Returns, Parks,
                         exchangeVars, HandShape
    <2>2. ref[w.side] = id => id \in leaked
      BY <1>4, <1>n, <2>1 DEF Superseded, HandShape
    <2> QED BY <1>0, <1>4, <1>h, <1>l, <1>n, <1>t, <2>1, <2>2
  <1>16. ASSUME NEW pause \in BOOLEAN, CreateRejected(pause) PROVE Goal
    <2>1. /\ w.pc = "create" /\ st' = [st EXCEPT ![w.id] = "void"]
          /\ ref' = [ref EXCEPT ![w.side] = None] /\ UNCHANGED pend
      BY <1>16 DEF CreateRejected, Returns, parkVars
    <2>2. id # w.id /\ Working(id)
      BY <1>0, <1>g, <1>t, <2>1 DEF Working, Resting
    <2>3. ref[w.side] = id => id \in leaked
      BY <1>n, <2>1, <2>2 DEF Superseded
    <2> QED BY <1>0, <1>h, <1>l, <1>t, <2>1, <2>2, <2>3
  <1>17. CASE LookupServed
    <2>1. /\ w.pc = "lookup" /\ w'.pc = "lookedUp" /\ w'.id = w.id /\ UNCHANGED <<ref, pend, st>>
      BY <1>17 DEF LookupServed, bookVars, exchangeVars, TypeOK, WorkerTypes, WorkerPos
    <2> QED BY <1>4, <1>h, <1>l, <2>1
  <1>18. ASSUME NEW i \in Ids, Land(i) \/ Lose(i) \/ Show(i) \/ Trade(i) \/ Expire(i)
                              \/ DropFill(i) \/ OrphanCancel(i) \/ OrphanCancelFails(i)
         PROVE  Goal
    <2>1. UNCHANGED <<ref, pend, w>>
      BY <1>18 DEF Land, Lose, Show, Trade, Expire, DropFill, OrphanCancel, OrphanCancelFails,
         bookVars, workerVars, parkVars
    <2>2. st[id] # "new"
      BY <1>18, <1>g, <1>t DEF Land, Lose, Show, Trade, Expire, DropFill, OrphanCancel,
         OrphanCancelFails, Removed, exchangeVars, Working, Resting
    <2> QED BY <1>1, <2>1, <2>2
  <1>19. ASSUME NEW i \in Ids, DeliverFill(i) PROVE Goal
    <2> DEFINE s == sideOf[i]
    <2>1. UNCHANGED <<st, pend, w>> /\ fills[i] > 0 /\ s \in Sides
      BY <1>19 DEF DeliverFill, exchangeVars, workerVars, parkVars, OrderShape
    <2>2. CASE UNCHANGED ref
      BY <1>1, <1>4, <2>1, <2>2
    <2>3. CASE ref' = [ref EXCEPT ![s] = None] /\ ref[s] = i /\ cnt[i] <= 1
      <3>1. i # None /\ Covers(i, cnt[i])
        BY <1>n, <2>1, <2>3 DEF CountsCover
      <3>2. ~Working(i)
        BY <1>t, <2>1, <2>3, <3>1 DEF Covers, OrderShape, TypeOK, ExchangeTypes, WorldTypes
      <3> QED BY <1>4, <1>h, <1>l, <1>t, <2>1, <2>3, <3>2
    <2> QED BY <1>19, <2>2, <2>3 DEF DeliverFill
  <1>20. CASE Repair
    <2>1. /\ ref' = [s \in Sides |-> IF ref[s] \in Vanished THEN None ELSE ref[s]]
          /\ UNCHANGED <<st, pend, w>> /\ r.pc = "confirmed"
      BY <1>20 DEF Repair, exchangeVars, workerVars, parkVars
    <2>2. id \notin Vanished
      BY <1>4, <2>1 DEF PassSound, Vanished, Working, Resting
    <2> QED BY <1>4, <1>h, <1>l, <2>1, <2>2
  <1>21. CASE \/ ListAll \/ Diff \/ Confirm \/ FetchPositions \/ AdoptDrift \/ SkipDrift
              \/ PassFails \/ UNCHANGED vars
    BY <1>1, <1>4, <1>21 DEF ListAll, Diff, Confirm, FetchPositions, AdoptDrift, SkipDrift,
       PassFails, PassUnchanged, vars, exchangeVars, bookVars, parkVars, workerVars
  <1> QED
    BY <1>5, <1>6, <1>7, <1>8, <1>9, <1>10, <1>11, <1>12, <1>13, <1>14, <1>15, <1>16, <1>17,
       <1>18, <1>19, <1>20, <1>21 DEF Next, Worker, Exchange, Reconcile

LEMMA StrayInit == Init => StrayInv
  <1> SUFFICES ASSUME Init PROVE StrayInv
    OBVIOUS
  <1>1. RegistryInv
    BY RegistryInit
  <1>2. /\ w.pc = "idle" /\ r.pc = "idle"
        /\ \A id \in Ids : st[id] = "new"
        /\ \A s \in Sides : ref[s] = None /\ pend[s] = None
    BY DEF Init, Idle, PassIdle
  <1> QED
    BY <1>1, <1>2 DEF StrayInv, NoStrayOrder, CountsCover, Superseded, LookupsSettle, PassSound,
                      Working, Resting

LEMMA StrayNext == ASSUME Consistent PROVE StrayInv /\ [Next]_vars => StrayInv'
  <1> SUFFICES ASSUME StrayInv, [Next]_vars PROVE StrayInv'
    OBVIOUS
  <1>1. RegistryInv' /\ \A id \in Ids : st'[id] # "hidden"
    BY RegistryNext, NoneHidden DEF StrayInv, RegistryInv, Consistent
  <1> QED BY <1>1, NoStrayNext, CountsCoverNext, SupersededNext, LookupsSettleNext, PassSoundNext
          DEF StrayInv, Consistent

THEOREM StrayInductive == ASSUME Consistent PROVE Spec => []StrayInv
  BY StrayInit, StrayNext, PTL DEF Spec

\* No interleaving of the worker, the fills and the reconcile pass lets go of an
\* order that rests or may yet rest.
THEOREM NothingStrays == ASSUME Consistent PROVE Spec => []NoStrayOrder
  <1>1. StrayInv => NoStrayOrder
    BY DEF StrayInv
  <1> QED BY <1>1, StrayInductive, PTL

-----------------------------------------------------------------------------
(* One order at a time at work per side: SingleQuote is implemented *)

Counts(id) == Working(id) /\ id \notin leaked

\* An order at work for side s is the side's reference, its parked create or the
\* one the coroutine holds, and these exclude one another.
LEMMA OneHolder ==
  ASSUME StrayInv, NEW s \in Sides, NEW id \in Ids, Counts(id), sideOf[id] = s
  PROVE  \/ ref[s] = id /\ pend[s] = None /\ ~(w.pc = "create" /\ w.side = s)
         \/ pend[s] = id /\ ref[s] = None /\ ~(w.pc \in {"create", "lookup", "lookedUp"} /\ w.side = s)
         \/ /\ w.pc \in {"create", "lookup", "lookedUp"} /\ w.side = s /\ w.id = id
            /\ pend[s] = None /\ (ref[s] # None => ~Counts(ref[s]))
  <1> USE DEF StrayInv, RegistryInv, Counts
  <1>n. id # None
    BY DEF Ids, None
  <1>1. \/ \E t \in Sides : ref[t] = id
        \/ \E t \in Sides : pend[t] = id
        \/ w.pc \in {"create", "lookup", "lookedUp"} /\ w.id = id
    BY DEF NoStrayOrder, Refs, Parked, InHand
  <1>2. CASE \E t \in Sides : ref[t] = id
    BY <1>2, <1>n DEF RefShape, Superseded
  <1>3. CASE \E t \in Sides : pend[t] = id
    BY <1>3, <1>n DEF RefShape, HandShape
  <1>4. CASE w.pc \in {"create", "lookup", "lookedUp"} /\ w.id = id
    BY <1>4, <1>n DEF HandShape, Superseded
  <1> QED BY <1>1, <1>2, <1>3, <1>4

LEMMA AtMostOne ==
  ASSUME StrayInv, NEW s \in Sides, NEW i \in AtWork[s], NEW j \in AtWork[s]
  PROVE  i = j
  <1>1. /\ i \in Ids /\ Counts(i) /\ sideOf[i] = s
        /\ j \in Ids /\ Counts(j) /\ sideOf[j] = s
    BY DEF AtWork, Counts
  <1>n. i # None /\ j # None
    BY <1>1 DEF Ids, None
  <1> QED BY <1>1, <1>n, OneHolder

\* A step that sends no order only ever takes one order out of work.
LEMMA OneLeaves ==
  ASSUME TypeOK, OrderShape, HandShape, [Next]_vars, UNCHANGED sent
  PROVE  /\ UNCHANGED sideOf
         /\ \E i \in Ids \cup {None} : \A id \in Ids :
              /\ Counts(id)' => Counts(id)
              /\ id # i => (Counts(id)' <=> Counts(id))
  <1> USE DEF Counts, Working, Resting
  <1> DEFINE Leaves == /\ UNCHANGED sideOf
                       /\ \E i \in Ids \cup {None} : \A id \in Ids :
                            /\ Counts(id)' => Counts(id)
                            /\ id # i => (Counts(id)' <=> Counts(id))
  <1>0. st \in [Ids -> States] /\ (w.pc # "idle" => w.id \in Ids) /\ sent \in Nat
    BY BoundsAssumption DEF TypeOK, ExchangeTypes, HandShape
  <1>1. ASSUME UNCHANGED <<st, leaked, sideOf>> PROVE Leaves
    BY <1>1
  <1>2. ASSUME NEW s, NEW q, NEW n, PlaceOrLeave(s, q, n), UNCHANGED leaked PROVE Leaves
    BY <1>0, <1>1, <1>2 DEF PlaceOrLeave
  <1>3. ASSUME NEW i \in Ids, st' = [st EXCEPT ![i] = "gone"] \/ UNCHANGED st,
               UNCHANGED <<leaked, sideOf>>
        PROVE  Leaves
    BY <1>0, <1>3
  <1>4. CASE \E s \in Sides, q \in BOOLEAN :
               Keep(s, q) \/ Place(s, q) \/ StartCancel(s, q) \/ StartLookup(s, q)
    BY <1>1, <1>2, <1>4 DEF Keep, Place, StartCancel, StartLookup, exchangeVars, worldVars
  <1>5. CASE \/ Evict \/ PauseTimeout \/ CreateOk \/ CreateAmbiguous \/ LookupServed
             \/ LookupFails \/ Adopt \/ StillUnknown
    BY <1>1, <1>5 DEF Evict, PauseTimeout, CreateOk, CreateAmbiguous, LookupServed,
                      LookupFails, Adopt, StillUnknown, exchangeVars, worldVars
  <1>6. CASE AfterCancel \/ ConfirmedLost
    BY <1>2, <1>6 DEF AfterCancel, ConfirmedLost, worldVars
  <1>7. CASE CancelServed
    BY <1>0, <1>3, <1>7 DEF CancelServed, Removed, worldVars
  <1>8. CASE CancelFails
    BY <1>0, <1>8 DEF CancelFails, exchangeVars
  <1>9. ASSUME NEW pause \in BOOLEAN, CreateRejected(pause) PROVE Leaves
    BY <1>0, <1>9 DEF CreateRejected, worldVars
  <1>10. ASSUME NEW i \in Ids, Land(i) \/ Lose(i) \/ Show(i) PROVE Leaves
    BY <1>0, <1>10 DEF Land, Lose, Show, worldVars
  <1>11. ASSUME NEW i \in Ids, Trade(i) \/ Expire(i) \/ OrphanCancel(i) PROVE Leaves
    BY <1>3, <1>11 DEF Trade, Expire, OrphanCancel, Removed, worldVars
  <1>12. ASSUME NEW i \in Ids, DeliverFill(i) \/ DropFill(i) \/ OrphanCancelFails(i) PROVE Leaves
    BY <1>1, <1>12 DEF DeliverFill, DropFill, OrphanCancelFails, exchangeVars
  <1>13. CASE ListAll \/ Diff \/ Confirm \/ Repair \/ FetchPositions
    BY <1>1, <1>13 DEF ListAll, Diff, Confirm, Repair, FetchPositions, PassUnchanged,
                       exchangeVars, worldVars
  <1>14. CASE AdoptDrift \/ SkipDrift \/ PassFails \/ UNCHANGED vars
    BY <1>1, <1>14 DEF AdoptDrift, SkipDrift, PassFails, vars, exchangeVars, worldVars
  <1> QED
    BY <1>4, <1>5, <1>6, <1>7, <1>8, <1>9, <1>10, <1>11, <1>12, <1>13, <1>14
       DEF Next, Worker, Exchange, Reconcile

\* A step that sends an order sends it for a side that has none at work.
LEMMA OneSent ==
  ASSUME StrayInv, [Next]_vars, sent' # sent, Consistent
  PROVE  \E s \in Sides :
           /\ AtWork[s] = {}
           /\ sent + 1 \in Ids /\ st[sent + 1] = "new" /\ UNCHANGED leaked
           /\ sideOf' = [sideOf EXCEPT ![sent + 1] = s]
           /\ st' = [st EXCEPT ![sent + 1] = "sent"]
  <1> USE DEF StrayInv, RegistryInv
  <1>1. ASSUME NEW s \in Sides, NEW q, NEW n, PlaceOrLeave(s, q, n), UNCHANGED leaked
        PROVE  /\ sent + 1 \in Ids /\ st[sent + 1] = "new"
               /\ sideOf' = [sideOf EXCEPT ![sent + 1] = s]
               /\ st' = [st EXCEPT ![sent + 1] = "sent"]
    BY <1>1, BoundsAssumption DEF PlaceOrLeave, TypeOK, ExchangeTypes, OrderShape, Ids
  <1>2. ASSUME NEW s \in Sides,
               \A id \in Ids : Counts(id) /\ sideOf[id] = s => FALSE
        PROVE  AtWork[s] = {}
    BY <1>2 DEF AtWork, Counts
  <1>3. ASSUME NEW s \in Sides, NEW q \in BOOLEAN, Place(s, q)
        PROVE  AtWork[s] = {} /\ PlaceOrLeave(s, q, registry[s]) /\ UNCHANGED leaked
    <2>1. ref[s] = None /\ pend[s] = None /\ w.pc = "idle"
      BY <1>3 DEF Place, Turn
    <2>2. \A id \in Ids : id # None
      BY DEF Ids, None
    <2> QED BY <1>2, <1>3, <2>1, <2>2, OneHolder DEF Place, worldVars
  <1>4. CASE AfterCancel
    <2>1. /\ w.pc = "cancelled" /\ w.side \in Sides /\ ref[w.side] \in {w.id, None}
          /\ pend[w.side] = None /\ (~Working(w.id) \/ w.id \in leaked) /\ UNCHANGED leaked
      BY <1>4 DEF AfterCancel, HandShape, Superseded, worldVars
    <2>2. \A id \in Ids : id # None
      BY DEF Ids, None
    <2>3. AtWork[w.side] = {}
      BY <1>2, <2>1, <2>2, OneHolder DEF Counts
    <2> QED BY <1>1, <1>4, <2>1, <2>3 DEF AfterCancel
  <1>5. CASE ConfirmedLost
    <2>1. /\ w.pc = "lookedUp" /\ w.found = 0 /\ w.side \in Sides /\ ref[w.side] = None
          /\ pend[w.side] = None /\ UNCHANGED leaked
          /\ empties[w.side] + 1 >= ConfirmLost
      BY <1>5 DEF ConfirmedLost, HandShape, LostAfter, worldVars
    <2>2. empties[w.side] >= ListDelay
      BY <2>1, BoundsAssumption DEF Consistent, TypeOK, ParkTypes
    <2>3. ~Working(w.id)
      BY <2>1, <2>2 DEF LookupsSettle
    <2>4. \A id \in Ids : id # None
      BY DEF Ids, None
    <2>5. AtWork[w.side] = {}
      BY <1>2, <2>1, <2>3, <2>4, OneHolder DEF Counts
    <2> QED BY <1>1, <1>5, <2>1, <2>5 DEF ConfirmedLost
  <1>6. CASE \E s \in Sides, q \in BOOLEAN : Keep(s, q) \/ StartCancel(s, q) \/ StartLookup(s, q)
    BY <1>6 DEF Keep, StartCancel, StartLookup, exchangeVars
  <1>7. CASE \/ Evict \/ PauseTimeout \/ CreateOk \/ CreateAmbiguous \/ LookupServed
             \/ LookupFails \/ Adopt \/ StillUnknown \/ CancelServed \/ CancelFails
             \/ \E pause \in BOOLEAN : CreateRejected(pause)
    BY <1>7 DEF Evict, PauseTimeout, CreateOk, CreateAmbiguous, LookupServed, LookupFails,
                Adopt, StillUnknown, CancelServed, CancelFails, CreateRejected, exchangeVars
  <1>8. CASE Exchange
    BY <1>8 DEF Exchange, Land, Lose, Show, Trade, Expire, DeliverFill, DropFill, exchangeVars
  <1>9. CASE Reconcile
    BY <1>9 DEF Reconcile, ListAll, Diff, Confirm, Repair, OrphanCancel, OrphanCancelFails,
       FetchPositions, AdoptDrift, SkipDrift, PassFails, PassUnchanged, exchangeVars
  <1> QED
    BY <1>1, <1>3, <1>4, <1>5, <1>6, <1>7, <1>8, <1>9 DEF Next, Worker, vars, exchangeVars

LEMMA ImplementsInit == Init => OneAtATime!Init
  BY DEF Init, OneAtATime!Init, AtWork, Working, Resting

LEMMA ImplementsNext ==
  ASSUME Consistent PROVE StrayInv /\ [Next]_vars => [OneAtATime!Next]_AtWork
  <1> SUFFICES ASSUME StrayInv, [Next]_vars PROVE [OneAtATime!Next]_AtWork
    OBVIOUS
  <1> USE DEF StrayInv, RegistryInv
  <1>0. /\ AtWork = [s \in Sides |-> {id \in Ids : Counts(id) /\ sideOf[id] = s}]
        /\ AtWork' = [s \in Sides |-> {id \in Ids : Counts(id)' /\ sideOf'[id] = s}]
    BY DEF AtWork, Counts
  <1>1. CASE UNCHANGED sent
    <2>1. UNCHANGED sideOf
      BY <1>1, OneLeaves
    <2>2. PICK i \in Ids \cup {None} : \A id \in Ids :
            /\ Counts(id)' => Counts(id)
            /\ id # i => (Counts(id)' <=> Counts(id))
      BY <1>1, OneLeaves
    <2>3. CASE \A id \in Ids : Counts(id)' <=> Counts(id)
      BY <1>0, <2>1, <2>3
    <2>4. CASE i \in Ids /\ Counts(i) /\ ~Counts(i)'
      <3> DEFINE s == sideOf[i]
      <3>1. s \in Sides /\ i \in AtWork[s]
        BY <1>0, <2>4 DEF OrderShape, Counts, Working, Resting
      <3>2. \A j \in AtWork[s] : j = i
        BY <3>1, AtMostOne
      <3>3. AtWork'[s] = {}
        BY <1>0, <2>1, <2>2, <2>4, <3>1, <3>2
      <3>4. \A u \in Sides \ {s} : AtWork'[u] = AtWork[u]
        BY <1>0, <2>1, <2>2, <2>4
      <3>5. AtWork' = [AtWork EXCEPT ![s] = {}]
        BY <1>0, <3>1, <3>3, <3>4
      <3> QED BY <3>1, <3>5 DEF OneAtATime!Next, OneAtATime!Finish
    <2> QED BY <2>2, <2>3, <2>4
  <1>2. CASE sent' # sent
    <2>1. PICK s \in Sides :
            /\ AtWork[s] = {}
            /\ sent + 1 \in Ids /\ st[sent + 1] = "new" /\ UNCHANGED leaked
            /\ sideOf' = [sideOf EXCEPT ![sent + 1] = s]
            /\ st' = [st EXCEPT ![sent + 1] = "sent"]
      BY <1>2, OneSent
    <2>o. PICK o \in Ids : /\ o = sent + 1 /\ st[o] = "new"
                           /\ sideOf' = [sideOf EXCEPT ![o] = s]
                           /\ st' = [st EXCEPT ![o] = "sent"]
      BY <2>1
    <2>t. st \in [Ids -> States] /\ sideOf \in [Ids -> {"bid", "ask"}]
      BY DEF TypeOK, ExchangeTypes
    <2>2. ~Counts(o) /\ Counts(o)' /\ sideOf'[o] = s
      <3>1. o \notin leaked'
        BY <2>1, <2>o DEF OrderShape
      <3> QED BY <2>o, <2>t, <3>1 DEF Counts, Working, Resting
    <2>3. \A id \in Ids \ {o} : (Counts(id)' <=> Counts(id)) /\ sideOf'[id] = sideOf[id]
      BY <2>1, <2>o, <2>t DEF Counts, Working, Resting
    <2>4. AtWork'[s] = {o}
      <3>1. \A id \in Ids \ {o} : ~(Counts(id) /\ sideOf[id] = s)
        BY <1>0, <2>1
      <3> QED BY <1>0, <2>2, <2>3, <3>1
    <2>5. \A u \in Sides \ {s} : AtWork'[u] = AtWork[u]
      BY <1>0, <2>1, <2>2, <2>3
    <2>6. AtWork' = [AtWork EXCEPT ![s] = {o}]
      BY <1>0, <2>4, <2>5
    <2> QED BY <2>1, <2>6 DEF OneAtATime!Next, OneAtATime!Send
  <1> QED BY <1>1, <1>2

\* Per side, a new order is sent only when none of the side's orders rests or may
\* yet rest: SingleQuote, the abstract promise, is implemented.
THEOREM SingleQuoteImplemented == ASSUME Consistent PROVE Spec => NeverDoublePlaces
  BY ImplementsInit, ImplementsNext, StrayInductive, PTL
     DEF Spec, NeverDoublePlaces, OneAtATime!Spec

\* reconcile_pass releases an order's exposure only when that order is dead.
THEOREM VanishSound == ASSUME Consistent PROVE Spec => VanishIsSound
  <1> DEFINE Drops == \A s \in Sides : ref[s] # None /\ ref'[s] = None => ~Working(ref[s])
             Act   == r.pc = "confirmed" /\ r.pc' # "confirmed" => Drops
  <1>1. StrayInv /\ [Next]_vars => [Act]_vars
    <2> SUFFICES ASSUME StrayInv, [Next]_vars, r.pc = "confirmed", r.pc' # "confirmed"
                 PROVE  Drops
      OBVIOUS
    <2> USE DEF StrayInv, RegistryInv
    <2>1. CASE Repair
      <3>1. \A s \in Sides : ref[s] # None /\ ref'[s] = None => ref[s] \in Vanished
        BY <2>1 DEF Repair
      <3> QED BY <3>1 DEF Vanished, PassSound, Working, Resting, TypeOK, PassPos
    <2>2. CASE UNCHANGED ref
      BY <2>2
    <2>3. CASE Worker
      BY <2>3 DEF Worker, Keep, Place, StartCancel, StartLookup, Evict, PauseTimeout,
         CancelServed, CancelFails, AfterCancel, CreateOk, CreateRejected, CreateAmbiguous,
         LookupServed, LookupFails, Adopt, StillUnknown, ConfirmedLost
    <2>4. CASE Exchange
      BY <2>4 DEF Exchange, Land, Lose, Show, Trade, Expire, DeliverFill, DropFill
    <2>5. CASE Reconcile
      BY <2>1, <2>2, <2>5 DEF Reconcile, ListAll, Diff, Confirm, OrphanCancel, OrphanCancelFails,
         FetchPositions, AdoptDrift, SkipDrift, PassFails, PassUnchanged, bookVars
    <2> QED BY <2>2, <2>3, <2>4, <2>5 DEF Next, vars, bookVars
  <1> QED BY <1>1, StrayInductive, PTL DEF Spec, VanishIsSound
=============================================================================
