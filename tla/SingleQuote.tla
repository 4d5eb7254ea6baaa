----------------------------- MODULE SingleQuote -----------------------------
(***************************************************************************)
(* What MarketWorker._reconcile promises the exchange: on each side of a   *)
(* market at most one of its orders is at work - resting, or sent and not  *)
(* yet answered for.  A new one is sent only when the slot is free.        *)
(***************************************************************************)
CONSTANTS Sides, Orders
VARIABLE slot          \* per side, the orders at work

Init == slot = [s \in Sides |-> {}]

Send(s) == /\ slot[s] = {}
           /\ \E o \in Orders : slot' = [slot EXCEPT ![s] = {o}]

Finish(s) == /\ slot[s] # {}
             /\ slot' = [slot EXCEPT ![s] = {}]

Next == \E s \in Sides : Send(s) \/ Finish(s)

Spec == Init /\ [][Next]_slot
=============================================================================
