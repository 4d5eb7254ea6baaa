-------------------------------- MODULE Breaker --------------------------------
(***************************************************************************)
(* What the fast-move guard and its worker promise together: a breaker     *)
(* that opens on a move and closes by itself.  An opening is one episode,  *)
(* however often it is extended; a closed episode is scored at most once,  *)
(* and the market is out at the EvictTrips-th move that stuck.  An episode *)
(* nobody scored before the next one began is forgotten.                   *)
(***************************************************************************)
EXTENDS Naturals

CONSTANTS Contexts, EvictTrips, None
VARIABLES
  open,
  episode,   \* the context to be scored: that of the newest opening
  count,     \* moves that stuck
  out

Init == open = FALSE /\ episode = None /\ count = 0 /\ out = FALSE

Opens  == ~open /\ open' = TRUE /\ episode' \in Contexts /\ UNCHANGED <<count, out>>
Closes == open /\ open' = FALSE /\ UNCHANGED <<episode, count, out>>
Score  == /\ ~open /\ episode # None
          /\ episode' = None
          /\ count' \in {count, count + 1} /\ count' <= EvictTrips
          /\ out' = (count' = EvictTrips)
          /\ UNCHANGED open

Next == Opens \/ Closes \/ Score

Spec == Init /\ [][Next]_<<open, episode, count, out>>
=============================================================================
