------------------------ MODULE WindowLifecycleProofs ------------------------
(***************************************************************************)
(* Theorems of WindowLifecycle, for any number of windows, any times and   *)
(* any bounds of the exchange's upsets.  WindowInv is the inductive        *)
(* invariant; Ended is added to it for FrozenIsFlat, which needs Kalshi to *)
(* report a position until the bot has realised it (PayoutWaits).          *)
(***************************************************************************)
EXTENDS WindowLifecycle, SequenceTheorems, TLAPS

-----------------------------------------------------------------------------
(* The times of a window *)

LEMMA Times ==
  ASSUME NEW n \in Windows
  PROVE  /\ OpenAt(n) \in Int /\ CloseAt(n) \in Int /\ PullAt(n) \in Int
         /\ AverageAt(n) \in Int /\ RemoveAt(n) \in Int
         /\ PullAt(n) < AverageAt(n) /\ AverageAt(n) <= CloseAt(n)
         /\ CloseAt(n) <= RemoveAt(n)
<1>1. n \in Int /\ Period \in Int /\ PullBefore \in Int /\ AverageBefore \in Int /\ Grace \in Int
      /\ AverageBefore < PullBefore /\ AverageBefore >= 0 /\ Grace >= 1
  BY WindowAssumption DEF Windows
<1>2. CloseAt(n) \in Int /\ OpenAt(n) \in Int
  BY <1>1 DEF CloseAt, OpenAt
<1> QED
  BY <1>1, <1>2 DEF PullAt, AverageAt, RemoveAt

LEMMA Horizons ==
  /\ Horizon \in Nat /\ Period \in Nat /\ Period <= Horizon /\ Ttl \in Nat
  /\ Cooloff \in Nat /\ Cooloff >= 1 /\ ReconcileEvery \in Nat
<1>1. /\ Last \in Nat /\ Period \in Nat /\ Grace \in Nat /\ Ttl \in Nat
      /\ Cooloff \in Nat /\ Cooloff >= 1 /\ ReconcileEvery \in Nat
  BY WindowAssumption
<1> DEFINE c == Last * Period
<1>2. c \in Nat
  BY <1>1
<1>3. CloseAt(Last) = c + Period
  BY <1>1 DEF CloseAt
<1> HIDE DEF c
<1> QED
  BY <1>1, <1>2, <1>3 DEF Horizon, RemoveAt

LEMMA FirstWindow == 0 \in Windows
BY WindowAssumption DEF Windows

-----------------------------------------------------------------------------
(* Types *)

Sets ==
  /\ sided \subseteq Windows /\ final \subseteq Windows /\ paid \subseteq Windows
  /\ already \subseteq Windows /\ evicted \subseteq Windows /\ reaped \subseteq Windows
  /\ woken \subseteq Windows /\ ref \subseteq Windows /\ known \subseteq Windows
  /\ settled \subseteq Windows /\ listing \subseteq Windows /\ stopping \subseteq Windows
  /\ asking \subseteq Windows /\ inherited \subseteq Windows /\ blind \subseteq Windows
  /\ parked \subseteq Windows /\ failed \subseteq Windows /\ slow \subseteq Windows
  /\ workers \subseteq Windows /\ closes \subseteq Windows /\ awaiting \subseteq Windows
  /\ closes \cap awaiting = {} /\ closes \cup awaiting = workers

Clocks ==
  /\ now \in 0 .. Horizon /\ since \in 0 .. ReconcileEvery
  /\ pulled \in [Windows -> 0 .. Horizon + Cooloff]
  /\ boot \in {"off", "seeded", "up"}
  /\ call \in [Windows -> {"none", "cancel"} \cup Sending]
  /\ used \in [Bounds -> Nat] /\ realised \in [Windows -> Nat]

Contracts ==
  /\ truth \in [Windows -> Int] /\ positions \in [Windows -> Int] /\ pos \in [Windows -> Int]
  /\ unvalued \in [Windows -> Int] /\ booked \in [Windows -> Int]
  /\ fetched \in Seq([Windows -> Int])

Papers ==
  /\ order \in [Windows -> Orders] /\ stale \in [Windows -> SUBSET Strays]
  /\ wire \in [Windows -> Seq([dir : Dirs, own : BOOLEAN])]

LEMMA TypeParts ==
  /\ TypeOK <=> Sets /\ Clocks /\ Contracts /\ Papers
  /\ TypeOK' <=> (Sets /\ Clocks /\ Contracts /\ Papers)'
<1>1. TypeOK <=> Sets /\ Clocks /\ Contracts /\ Papers
  <2>1. TypeOK => Sets
    BY DEF TypeOK, Sets
  <2>2. TypeOK => Clocks /\ Contracts /\ Papers
    BY DEF TypeOK, Clocks, Contracts, Papers
  <2>3. Sets /\ Clocks /\ Contracts /\ Papers => TypeOK
    BY DEF TypeOK, Sets, Clocks, Contracts, Papers
  <2> QED BY <2>1, <2>2, <2>3
<1>2. TypeOK' <=> (Sets /\ Clocks /\ Contracts /\ Papers)'
  <2>1. TypeOK' => Sets'
    BY DEF TypeOK, Sets
  <2>2. TypeOK' => (Clocks /\ Contracts /\ Papers)'
    BY DEF TypeOK, Clocks, Contracts, Papers
  <2>3. (Sets /\ Clocks /\ Contracts /\ Papers)' => TypeOK'
    BY DEF TypeOK, Sets, Clocks, Contracts, Papers
  <2> QED BY <2>1, <2>2, <2>3
<1> QED BY <1>1, <1>2

USE DEF vars, clock, exchange, session, roster, quoting, risk, awaits, history

LEMMA OrderShape ==
  ASSUME NEW o \in Orders, o # NoOrder
  PROVE  o[1].dir \in Dirs /\ o[1].until \in 0 .. Horizon + Ttl
<1>1. PICK x \in [dir : Dirs, until : 0 .. Horizon + Ttl] : o = <<x>>
  BY DEF Orders
<1>2. o[1] = x
  BY <1>1
<1> QED
  BY <1>2

LEMMA OrderType ==
  ASSUME NEW dir \in Dirs, NEW until \in 0 .. Horizon + Ttl
  PROVE  Order(dir, until) \in Orders /\ Order(dir, until) # NoOrder
<1>1. [dir |-> dir, until |-> until] \in [dir : Dirs, until : 0 .. Horizon + Ttl]
  OBVIOUS
<1>2. Order(dir, until) \in Orders
  BY <1>1 DEF Order, Orders
<1> QED
  BY <1>2 DEF Order, NoOrder

LEMMA StrayType ==
  ASSUME NEW o \in Orders, NEW mark \in Nat
  PROVE  {Stray(o[i], mark) : i \in DOMAIN o} \in SUBSET Strays
<1>1. CASE o = NoOrder
  BY <1>1 DEF NoOrder
<1>2. CASE o # NoOrder
  <2>1. PICK x \in [dir : Dirs, until : 0 .. Horizon + Ttl] : o = <<x>>
    BY <1>2 DEF Orders
  <2>2. \A i \in DOMAIN o : o[i] = x
    BY <2>1
  <2>3. Stray(x, mark) \in Strays
    BY DEF Stray, Strays
  <2> QED
    BY <2>2, <2>3
<1> QED
  BY <1>1, <1>2

LEMMA SendingCalls == Sending = {"create", "vain", "replace"}
BY DEF Sending

LEMMA SpendType ==
  ASSUME used \in [Bounds -> Nat], used' = used \/ Spend("upsets", MaxUpsets)
  PROVE  used' \in [Bounds -> Nat]
BY DEF Spend, Bounds

LEMMA FillTrades ==
  ASSUME TypeOK, NEW n \in Windows, Fill(n) \/ FillStale(n)
  PROVE  \E dir \in Dirs, own \in BOOLEAN : Traded(n, dir, own)
<1>1. order[n] \in Orders /\ \A o \in stale[n] : o.dir \in Dirs
  BY TypeParts DEF Papers, Strays
<1>2. CASE Fill(n)
  BY <1>1, <1>2, OrderShape DEF Fill, Resting
<1>3. CASE FillStale(n)
  BY <1>1, <1>3 DEF FillStale
<1> QED
  BY <1>2, <1>3

LEMMA WireHead ==
  ASSUME TypeOK, NEW n \in Windows, wire[n] # <<>>
  PROVE  /\ Head(wire[n]).dir \in Dirs
         /\ Tail(wire[n]) \in Seq([dir : Dirs, own : BOOLEAN])
<1>1. wire[n] \in Seq([dir : Dirs, own : BOOLEAN])
  BY TypeParts DEF Papers
<1>2. Head(wire[n]) \in [dir : Dirs, own : BOOLEAN]
  BY <1>1, HeadTailProperties
<1> QED
  BY <1>1, <1>2, HeadTailProperties

\* What a worker does at its call, or to await one.
CallStep(n) ==
  \/ CreateAnswered(n) \/ CancelAnswered(n)
  \/ \E dir \in Dirs : CyclePlace(n, dir) \/ ReplaceAnswered(n, dir) \/ LookupAnswered(n, dir)

LEMMA CallFrame ==
  ASSUME NEW n \in Windows, CallStep(n)
  PROVE  UNCHANGED <<clock, sided, truth, final, paid, wire, session, roster, pulled, risk, awaits,
                     realised, inherited, blind, slow>>
BY DEF CallStep, CreateAnswered, CancelAnswered, CyclePlace, ReplaceAnswered, LookupAnswered

\* The create is sent, or not.
LEMMA SendEffect ==
  ASSUME TypeOK, NEW n \in Windows, NEW dir \in Dirs, Sends(n, dir) \/ SendsOrNot(n, dir)
  PROVE  /\ call' \in [Windows -> {"none", "cancel"} \cup Sending]
         /\ order' \in [Windows -> Orders]
         /\ \A m \in Windows \ {n} : order'[m] = order[m] /\ call'[m] = call[m]
         /\ \/ order'[n] = NoOrder /\ call'[n] \in {"none", "vain"}
            \/ order'[n] = Order(dir, now + Ttl) /\ call'[n] = "create" /\ now < CloseAt(n)
<1>1. now + Ttl \in 0 .. Horizon + Ttl
  BY TypeParts, Horizons DEF Clocks
<1> DEFINE o == Order(dir, now + Ttl)
<1>2. o \in Orders /\ NoOrder \in Orders
  BY <1>1, OrderType DEF Orders
<1>3. \/ /\ order' = [order EXCEPT ![n] = NoOrder]
         /\ \E c \in {"none", "vain"} : call' = [call EXCEPT ![n] = c]
      \/ /\ order' = [order EXCEPT ![n] = o] /\ now < CloseAt(n)
         /\ call' = [call EXCEPT ![n] = "create"]
  BY DEF Sends, SendsOrNot
<1>4. order \in [Windows -> Orders] /\ call \in [Windows -> {"none", "cancel"} \cup Sending]
  BY TypeParts DEF Papers, Clocks
<1> HIDE DEF o
<1>5. order' \in [Windows -> Orders] /\ call' \in [Windows -> {"none", "cancel"} \cup Sending]
  BY <1>2, <1>3, <1>4, SendingCalls
<1>6. \/ order'[n] = NoOrder /\ call'[n] \in {"none", "vain"}
      \/ order'[n] = o /\ call'[n] = "create" /\ now < CloseAt(n)
  BY <1>3, <1>4
<1>7. \A m \in Windows \ {n} : order'[m] = order[m] /\ call'[m] = call[m]
  BY <1>3, <1>4
<1> QED
  BY <1>5, <1>6, <1>7 DEF o

\* The cancel was answered, or failed and left a stray.
LEMMA CancelEffect ==
  ASSUME TypeOK, NEW n \in Windows, CancelEnds(n)
  PROVE  /\ ref' = ref \ {n} /\ failed \subseteq failed' /\ failed' \subseteq Windows
         /\ stale' \in [Windows -> SUBSET Strays] /\ used' \in [Bounds -> Nat]
         /\ \A m \in Windows \ {n} : stale'[m] = stale[m]
         /\ \A o \in stale'[n] :
              o \in stale[n] \/ (order[n] # NoOrder /\ o.until = order[n][1].until)
<1> USE TypeParts DEF Sets, Clocks, Papers
<1>1. CASE UNCHANGED <<stale, failed, used>>
  BY <1>1 DEF CancelEnds
<1>2. CASE ~UNCHANGED <<stale, failed, used>>
  <2> DEFINE left == {Stray(order[n][i], used'["upsets"]) : i \in DOMAIN order[n]}
  <2>1. /\ Spend("upsets", MaxUpsets) /\ failed' = failed \cup {n} /\ ref' = ref \ {n}
        /\ stale' = [stale EXCEPT ![n] = @ \cup left]
    BY <1>2 DEF CancelEnds
  <2>2. used' \in [Bounds -> Nat] /\ used'["upsets"] \in Nat
    BY <2>1 DEF Spend, Bounds
  <2>3. left \in SUBSET Strays
    BY <2>2, StrayType
  <2>4. \A o \in left : order[n] # NoOrder /\ o.until = order[n][1].until
    <3>1. CASE order[n] = NoOrder
      BY <3>1 DEF NoOrder
    <3>2. CASE order[n] # NoOrder
      <4>1. PICK x \in [dir : Dirs, until : 0 .. Horizon + Ttl] : order[n] = <<x>>
        BY <3>2 DEF Orders
      <4>2. order[n][1] = x /\ \A i \in DOMAIN order[n] : order[n][i] = x
        BY <4>1
      <4> QED
        BY <3>2, <4>2 DEF Stray
    <3> QED
      BY <3>1, <3>2
  <2> HIDE DEF left
  <2>5. stale' \in [Windows -> SUBSET Strays]
    BY <2>1, <2>3
  <2>6. /\ stale'[n] = stale[n] \cup left
        /\ \A m \in Windows \ {n} : stale'[m] = stale[m]
    BY <2>1
  <2> QED
    BY <2>1, <2>2, <2>4, <2>5, <2>6
<1> QED
  BY <1>1, <1>2

LEMMA CallTypes ==
  ASSUME TypeOK, NEW n \in Windows, CallStep(n)
  PROVE  /\ call' \in [Windows -> {"none", "cancel"} \cup Sending]
         /\ used' \in [Bounds -> Nat]
         /\ order' \in [Windows -> Orders] /\ stale' \in [Windows -> SUBSET Strays]
         /\ ref' \subseteq Windows /\ parked' \subseteq Windows /\ woken' \subseteq Windows
         /\ failed' \subseteq Windows
<1> USE TypeParts, SendingCalls DEF Sets, Clocks, Papers
<1>1. CASE CreateAnswered(n)
  <2>1. used' = used \/ Spend("upsets", MaxUpsets)
    BY <1>1 DEF CreateAnswered
  <2>2. used' \in [Bounds -> Nat]
    BY <2>1, SpendType
  <2>3. /\ ref' \subseteq Windows /\ parked' \subseteq Windows /\ failed' \subseteq Windows
        /\ call' = [call EXCEPT ![n] = "none"] /\ UNCHANGED <<order, stale, woken>>
    BY <1>1 DEF CreateAnswered
  <2> QED
    BY <2>2, <2>3
<1>2. CASE CancelAnswered(n)
  <2>1. order' \in [Windows -> Orders]
    BY <1>2 DEF CancelAnswered, Orders
  <2> QED
    BY <1>2, <2>1, CancelEffect DEF CancelAnswered
<1>3. CASE \E dir \in Dirs : CyclePlace(n, dir)
  <2>1. PICK dir \in Dirs : CyclePlace(n, dir)
    BY <1>3
  <2>2. CASE n \in ref \cup parked
    BY <2>1, <2>2 DEF CyclePlace
  <2>3. CASE n \notin ref \cup parked
    <3>1. Sends(n, dir)
      BY <2>1, <2>3 DEF CyclePlace
    <3> QED
      BY <2>1, <3>1, SendEffect DEF CyclePlace
  <2> QED
    BY <2>2, <2>3
<1>4. CASE \E dir \in Dirs : ReplaceAnswered(n, dir)
  <2>1. PICK dir \in Dirs : ReplaceAnswered(n, dir)
    BY <1>4
  <2>2. CancelEnds(n) /\ SendsOrNot(n, dir) /\ UNCHANGED <<parked, woken>>
    BY <2>1 DEF ReplaceAnswered
  <2> QED
    BY <2>2, CancelEffect, SendEffect
<1>5. CASE \E dir \in Dirs : LookupAnswered(n, dir)
  <2>1. PICK dir \in Dirs : LookupAnswered(n, dir)
    BY <1>5
  <2>2. /\ UNCHANGED <<stale, woken, failed, used>>
        /\ ref' \subseteq Windows /\ parked' \subseteq Windows
        /\ \/ SendsOrNot(n, dir)
           \/ UNCHANGED order /\ call' = [call EXCEPT ![n] = "none"]
    BY <2>1 DEF LookupAnswered
  <2>3. CASE SendsOrNot(n, dir)
    BY <2>2, <2>3, SendEffect
  <2>4. CASE UNCHANGED order /\ call' = [call EXCEPT ![n] = "none"]
    BY <2>2, <2>4
  <2> QED
    BY <2>2, <2>3, <2>4
<1> QED
  BY <1>1, <1>2, <1>3, <1>4, <1>5 DEF CallStep

\* The windows of the other workers stay as they are.
Elsewhere(n) ==
  \A m \in Windows \ {n} :
    /\ order'[m] = order[m] /\ stale'[m] = stale[m] /\ call'[m] = call[m]
    /\ (m \in ref' <=> m \in ref) /\ (m \in parked' <=> m \in parked)
    /\ (m \in woken' <=> m \in woken)

\* Nothing is sent but by a worker that may quote or did when it began to replace; what
\* rests is tracked or parked; strays come of what rested.
CallOutcome(n) ==
  /\ failed \subseteq failed' /\ parked' \subseteq parked \cup failed'
  /\ call'[n] \in Sending => call[n] \in Sending \/ (n \in workers /\ MayQuote(n))
  /\ call'[n] = "vain" => order'[n] = NoOrder
  /\ order'[n] # NoOrder =>
       \/ order'[n] = order[n]
       \/ call'[n] = "create" /\ now < CloseAt(n) /\ order'[n][1].until = now + Ttl
  /\ order'[n] # NoOrder /\ call'[n] = "none" => n \in ref' \cup parked' \/ call[n] = "vain"
  /\ \A o \in stale'[n] :
       o \in stale[n] \/ (order[n] # NoOrder /\ o.until = order[n][1].until)
  /\ ~MayQuote(n) =>
       /\ woken' = woken
       /\ call[n] \in Sending \/ n \in parked \/ (order'[n] = NoOrder /\ call'[n] = "none")

LEMMA OrderUntil ==
  ASSUME NEW dir, NEW until
  PROVE  Order(dir, until)[1].until = until
BY DEF Order

LEMMA CallEffect ==
  ASSUME TypeOK, NEW n \in Windows, CallStep(n)
  PROVE  Elsewhere(n) /\ CallOutcome(n)
<1> USE SendingCalls DEF Resting
<1>t. /\ order \in [Windows -> Orders] /\ stale \in [Windows -> SUBSET Strays]
      /\ call \in [Windows -> {"none", "cancel"} \cup Sending]
  BY TypeParts DEF Papers, Clocks
<1>1. CASE CreateAnswered(n)
  BY <1>1, <1>t DEF CreateAnswered, Elsewhere, CallOutcome
<1>2. CASE CancelAnswered(n)
  <2>1. /\ CancelEnds(n) /\ call' = [call EXCEPT ![n] = "none"] /\ UNCHANGED <<woken, parked>>
        /\ order' = [order EXCEPT ![n] = NoOrder]
    BY <1>2 DEF CancelAnswered
  <2>2. Elsewhere(n)
    BY <1>t, <2>1, CancelEffect DEF Elsewhere
  <2> QED
    BY <1>t, <2>1, <2>2, CancelEffect DEF CallOutcome
<1>3. CASE \E dir \in Dirs : CyclePlace(n, dir)
  <2>1. PICK dir \in Dirs : CyclePlace(n, dir)
    BY <1>3
  <2>2. /\ n \in workers /\ MayQuote(n) /\ woken' = woken \ {n}
        /\ UNCHANGED <<ref, parked, stale, failed>>
    BY <2>1 DEF CyclePlace
  <2>3. CASE n \in ref \cup parked
    <3>1. call' = [call EXCEPT ![n] = "replace"] /\ UNCHANGED order
      BY <2>1, <2>3 DEF CyclePlace
    <3> QED
      BY <1>t, <2>2, <3>1 DEF Elsewhere, CallOutcome
  <2>4. CASE n \notin ref \cup parked
    <3>1. Sends(n, dir)
      BY <2>1, <2>4 DEF CyclePlace
    <3> QED
      BY <2>2, <3>1, SendEffect, OrderUntil DEF Elsewhere, CallOutcome
  <2> QED
    BY <2>3, <2>4
<1>4. CASE \E dir \in Dirs : ReplaceAnswered(n, dir)
  <2>1. PICK dir \in Dirs : ReplaceAnswered(n, dir)
    BY <1>4
  <2>2. /\ call[n] = "replace" /\ CancelEnds(n) /\ SendsOrNot(n, dir)
        /\ UNCHANGED <<parked, woken>>
    BY <2>1 DEF ReplaceAnswered
  <2>3. Elsewhere(n)
    BY <2>2, CancelEffect, SendEffect DEF Elsewhere
  <2> QED
    BY <2>2, <2>3, CancelEffect, SendEffect, OrderUntil DEF CallOutcome
<1>5. CASE \E dir \in Dirs : LookupAnswered(n, dir)
  <2>1. PICK dir \in Dirs : LookupAnswered(n, dir)
    BY <1>5
  <2>2. n \in parked /\ call[n] \in {"cancel", "replace"} /\ UNCHANGED <<stale, woken, failed>>
    BY <2>1 DEF LookupAnswered
  <2>3. CASE UNCHANGED <<ref, order, parked>> /\ call' = [call EXCEPT ![n] = "none"]
    BY <1>t, <2>2, <2>3 DEF Elsewhere, CallOutcome
  <2>4. CASE /\ ref' = ref \cup {n} /\ parked' = parked \ {n} /\ UNCHANGED order
             /\ call' = [call EXCEPT ![n] = "none"]
    BY <1>t, <2>2, <2>4 DEF Elsewhere, CallOutcome
  <2>5. CASE /\ order[n] = NoOrder /\ parked' = parked \ {n} /\ UNCHANGED <<ref, order>>
             /\ call' = [call EXCEPT ![n] = "none"]
    BY <1>t, <2>2, <2>5 DEF Elsewhere, CallOutcome
  <2>6. CASE /\ call[n] = "replace" /\ parked' = parked \ {n} /\ UNCHANGED ref
             /\ SendsOrNot(n, dir)
    BY <2>2, <2>6, SendEffect, OrderUntil DEF Elsewhere, CallOutcome
  <2> QED
    BY <2>1, <2>3, <2>4, <2>5, <2>6 DEF LookupAnswered
<1> QED
  BY <1>1, <1>2, <1>3, <1>4, <1>5 DEF CallStep

LEMMA SetsKept ==
  ASSUME TypeOK, [Next]_vars
  PROVE  Sets'
<1> USE TypeParts DEF Sets
<1>1. CASE CancelStale \/ ReleasePull \/ SpotJump \/ (\E n \in Windows : Fill(n) \/ FillStale(n))
  BY <1>1 DEF CancelStale, ReleasePull, SpotJump, Fill, FillStale, Woken
<1>2. CASE \E n \in Windows : BookEmpties(n) \/ BookBack(n) \/ Finalize(n) \/ Payout(n)
  BY <1>2 DEF BookEmpties, BookBack, Finalize, Payout, Woken
<1>3. CASE \E hasMid \in BOOLEAN : SeedHeld(hasMid)
  BY <1>3, FirstWindow DEF SeedHeld
<1>4. CASE ListSeries \/ Discover
  BY <1>4 DEF ListSeries, Discover, Joinable
<1>5. CASE \E n \in Windows : BookTop(n) \/ CycleBlind(n) \/ CycleWithdraw(n) \/ CycleKeep(n)
  BY <1>5 DEF BookTop, CycleBlind, CycleWithdraw, CycleKeep
<1>6. CASE \E n \in Windows : CallStep(n)
  <2>1. PICK n \in Windows : CallStep(n)
    BY <1>6
  <2>2. /\ ref' \subseteq Windows /\ parked' \subseteq Windows /\ woken' \subseteq Windows
        /\ failed' \subseteq Windows
    BY <2>1, CallTypes
  <2>3. UNCHANGED <<sided, final, paid, already, roster, known, settled, listing, stopping, asking,
                    inherited, blind, slow>>
    BY <2>1, CallFrame
  <2> QED
    BY <2>2, <2>3
<1>7. CASE \E n \in Windows : FillMessage(n)
  BY <1>7 DEF FillMessage, Woken
<1>8. CASE Retire
  BY <1>8 DEF Retire, Queued, Woken
<1>9. CASE \E n \in Windows : Remove(n) \/ Stopped(n)
  BY <1>9 DEF Remove, Removable, Stopped
<1>10. CASE \E n \in Windows : AskStatus(n) \/ StatusUseless(n) \/ Settle(n)
  BY <1>10 DEF AskStatus, StatusUseless, Settle, Woken
<1>11. CASE FetchPositions \/ AdoptPositions
  BY <1>11 DEF FetchPositions, AdoptPositions, Woken
<1>12. CASE UNCHANGED vars
  BY <1>12
<1>13. CASE Tick
  BY <1>13 DEF Tick, CallsEnd, Dragging
<1> QED
  BY <1>1, <1>2, <1>3, <1>4, <1>5, <1>6, <1>7, <1>8, <1>9, <1>10, <1>11, <1>12, <1>13
  DEF Next, Exchange, Start, Worker, CallStep, Loops, PullLoop, SettlementPoll, Reconcile

LEMMA ClocksKept ==
  ASSUME TypeOK, [Next]_vars
  PROVE  Clocks'
<1> USE TypeParts, Horizons DEF Clocks
<1>1. CASE Tick
  <2>1. used' \in [Bounds -> Nat]
    BY <1>1, SpendType DEF Tick, CallsEnd
  <2> QED
    BY <1>1, <2>1 DEF Tick, Prompt
<1>2. CASE \E n \in Windows : Fill(n) \/ FillStale(n)
  <2>1. PICK n \in Windows, dir \in Dirs, own \in BOOLEAN : Traded(n, dir, own)
    BY <1>2, FillTrades
  <2>2. used["fills"] \in Nat /\ used["lost"] \in Nat /\ "fills" # "lost"
    BY DEF Bounds
  <2> DEFINE once == [used EXCEPT !["fills"] = @ + 1]
             lost == IF boot = "up" THEN used["lost"] + 1 ELSE used["lost"]
  <2>3. once \in [Bounds -> Nat] /\ once["lost"] = used["lost"]
    BY <2>2 DEF Bounds
  <2>4. lost \in Nat
    BY <2>2
  <2>5. used' = once \/ used' = [once EXCEPT !["lost"] = lost]
    BY <2>1, <2>2 DEF Traded
  <2> HIDE DEF once, lost
  <2>6. used' \in [Bounds -> Nat]
    BY <2>3, <2>4, <2>5
  <2> QED
    BY <1>2, <2>6 DEF Fill, FillStale
<1>3. CASE \E n \in Windows : BookEmpties(n) \/ BookBack(n) \/ Finalize(n) \/ Payout(n)
  BY <1>3 DEF BookEmpties, BookBack, Finalize, Payout, Spend, Bounds
<1>4. CASE CancelStale \/ (\E hasMid \in BOOLEAN : SeedHeld(hasMid))
  BY <1>4 DEF SeedHeld, CancelStale
<1>5. CASE ListSeries \/ Discover
  BY <1>5 DEF ListSeries, Discover
<1>6. CASE \E n \in Windows : BookTop(n) \/ CycleBlind(n) \/ CycleWithdraw(n) \/ CycleKeep(n)
  BY <1>6 DEF BookTop, CycleBlind, CycleWithdraw, CycleKeep, Withdraws
<1>7. CASE \E n \in Windows : CallStep(n)
  <2>1. PICK n \in Windows : CallStep(n)
    BY <1>7
  <2>2. call' \in [Windows -> {"none", "cancel"} \cup Sending] /\ used' \in [Bounds -> Nat]
    BY <2>1, CallTypes
  <2>3. UNCHANGED <<now, since, pulled, boot, realised>>
    BY <2>1, CallFrame
  <2> QED
    BY <2>2, <2>3
<1>8. CASE \E n \in Windows : FillMessage(n)
  BY <1>8 DEF FillMessage
<1>9. CASE SpotJump \/ ReleasePull
  <2>1. used' \in [Bounds -> Nat]
    BY <1>9 DEF SpotJump, ReleasePull, Spend, Bounds
  <2>2. pulled' \in [Windows -> 0 .. Horizon + Cooloff]
    BY <1>9 DEF SpotJump, ReleasePull
  <2> QED
    BY <1>9, <2>1, <2>2 DEF SpotJump, ReleasePull
<1>10. CASE PullLoop
  BY <1>10 DEF PullLoop, Retire, Remove, Stopped
<1>11. CASE \E n \in Windows : AskStatus(n) \/ StatusUseless(n) \/ Settle(n)
  BY <1>11 DEF AskStatus, StatusUseless, Settle
<1>12. CASE FetchPositions \/ AdoptPositions
  <2>0. used' = used \/ Spend("upsets", MaxUpsets)
    BY <1>12 DEF FetchPositions, AdoptPositions
  <2>1. used' \in [Bounds -> Nat]
    BY <2>0, SpendType
  <2> QED
    BY <1>12, <2>1 DEF FetchPositions, AdoptPositions
<1>13. CASE UNCHANGED vars
  BY <1>13
<1> QED
  BY <1>1, <1>2, <1>3, <1>4, <1>5, <1>6, <1>7, <1>8, <1>9, <1>10, <1>11, <1>12, <1>13
  DEF Next, Exchange, Start, Worker, CallStep, Loops, SettlementPoll, Reconcile

LEMMA ContractsKept ==
  ASSUME TypeOK, [Next]_vars
  PROVE  Contracts'
<1> USE TypeParts DEF Contracts
<1>1. CASE Tick \/ CancelStale \/ SpotJump \/ ReleasePull \/ ListSeries \/ PullLoop
  BY <1>1 DEF Tick, CancelStale, SpotJump, ReleasePull, ListSeries, PullLoop, Retire, Remove, Stopped
<1>2. CASE \E n \in Windows : Fill(n) \/ FillStale(n)
  <2>1. PICK n \in Windows, dir \in Dirs, own \in BOOLEAN : Traded(n, dir, own)
    BY <1>2, FillTrades
  <2>2. truth' \in [Windows -> Int]
    BY <2>1 DEF Traded, Dirs
  <2> QED
    BY <1>2, <2>2 DEF Fill, FillStale
<1>3. CASE \E n \in Windows : BookEmpties(n) \/ BookBack(n) \/ Finalize(n) \/ Payout(n)
  BY <1>3 DEF BookEmpties, BookBack, Finalize, Payout
<1>4. CASE \E hasMid \in BOOLEAN : SeedHeld(hasMid)
  <2>1. Reported \in [Windows -> Int]
    BY DEF Reported
  <2> QED
    BY <1>4, <2>1 DEF SeedHeld, Seeded
<1>5. CASE Discover
  BY <1>5 DEF Discover
<1>6. CASE \E n \in Windows : BookTop(n) \/ CycleBlind(n) \/ CycleWithdraw(n) \/ CycleKeep(n)
  BY <1>6 DEF BookTop, CycleBlind, CycleWithdraw, CycleKeep
<1>8. CASE \E n \in Windows : CallStep(n)
  BY <1>8, CallFrame
<1>9. CASE \E n \in Windows : FillMessage(n)
  <2>1. PICK n \in Windows : FillMessage(n)
    BY <1>9
  <2>2. Head(wire[n]).dir \in Int
    BY <2>1, WireHead DEF FillMessage, Dirs
  <2> QED
    BY <2>1, <2>2 DEF FillMessage
<1>10. CASE \E n \in Windows : AskStatus(n) \/ StatusUseless(n) \/ Settle(n)
  BY <1>10 DEF AskStatus, StatusUseless, Settle
<1>11. CASE FetchPositions
  <2>1. Reported \in [Windows -> Int]
    BY DEF Reported
  <2> QED
    BY <1>11, <2>1 DEF FetchPositions
<1>12. CASE AdoptPositions
  <2>1. fetched[1] \in [Windows -> Int]
    BY <1>12, ElementOfSeq, EmptySeq DEF AdoptPositions
  <2>2. fetched' \in Seq([Windows -> Int])
    BY <1>12, EmptySeq DEF AdoptPositions
  <2> QED
    BY <1>12, <2>1, <2>2 DEF AdoptPositions, Adjusted
<1>13. CASE UNCHANGED vars
  BY <1>13
<1> QED
  BY <1>1, <1>2, <1>3, <1>4, <1>5, <1>6, <1>8, <1>9, <1>10, <1>11, <1>12, <1>13
  DEF Next, Exchange, Start, Worker, CallStep, Loops, SettlementPoll, Reconcile

LEMMA PapersKept ==
  ASSUME TypeOK, [Next]_vars
  PROVE  Papers'
<1> USE TypeParts DEF Papers
<1>1. CASE Tick
  BY <1>1 DEF Tick, Surviving, Orders
<1>2. CASE \E n \in Windows : Fill(n) \/ FillStale(n)
  <2>1. PICK n \in Windows, dir \in Dirs, own \in BOOLEAN : Traded(n, dir, own)
    BY <1>2, FillTrades
  <2>2. wire' \in [Windows -> Seq([dir : Dirs, own : BOOLEAN])]
    <3>1. [dir |-> dir, own |-> own] \in [dir : Dirs, own : BOOLEAN]
      OBVIOUS
    <3>2. Append(wire[n], [dir |-> dir, own |-> own]) \in Seq([dir : Dirs, own : BOOLEAN])
      BY <3>1, AppendProperties
    <3> QED
      BY <2>1, <3>2 DEF Traded
  <2> QED
    BY <1>2, <2>2 DEF Fill, FillStale, Orders
<1>3. CASE \E n \in Windows : BookEmpties(n) \/ BookBack(n) \/ Finalize(n) \/ Payout(n)
  BY <1>3 DEF BookEmpties, BookBack, Finalize, Payout
<1>4. CASE CancelStale \/ (\E hasMid \in BOOLEAN : SeedHeld(hasMid))
  BY <1>4 DEF SeedHeld, CancelStale, Orders
<1>5. CASE ListSeries \/ Discover \/ SpotJump \/ ReleasePull
  BY <1>5 DEF ListSeries, Discover, SpotJump, ReleasePull
<1>6. CASE \E n \in Windows : BookTop(n) \/ CycleBlind(n) \/ CycleWithdraw(n) \/ CycleKeep(n)
  BY <1>6 DEF BookTop, CycleBlind, CycleWithdraw, CycleKeep
<1>8. CASE \E n \in Windows : CallStep(n)
  <2>1. PICK n \in Windows : CallStep(n)
    BY <1>8
  <2>2. order' \in [Windows -> Orders] /\ stale' \in [Windows -> SUBSET Strays]
    BY <2>1, CallTypes
  <2>3. UNCHANGED wire
    BY <2>1, CallFrame
  <2> QED
    BY <2>2, <2>3
<1>9. CASE \E n \in Windows : FillMessage(n)
  <2>1. PICK n \in Windows : FillMessage(n)
    BY <1>9
  <2>2. Tail(wire[n]) \in Seq([dir : Dirs, own : BOOLEAN])
    BY <2>1, WireHead DEF FillMessage
  <2>3. wire' = [wire EXCEPT ![n] = Tail(wire[n])] /\ UNCHANGED <<order, stale>>
    BY <2>1 DEF FillMessage
  <2> QED
    BY <2>2, <2>3
<1>10. CASE PullLoop
  BY <1>10 DEF PullLoop, Retire, Remove, Stopped, Orders
<1>11. CASE \E n \in Windows : AskStatus(n) \/ StatusUseless(n) \/ Settle(n)
  BY <1>11 DEF AskStatus, StatusUseless, Settle
<1>12. CASE FetchPositions \/ AdoptPositions
  BY <1>12 DEF FetchPositions, AdoptPositions, Orders
<1>13. CASE UNCHANGED vars
  BY <1>13
<1> QED
  BY <1>1, <1>2, <1>3, <1>4, <1>5, <1>6, <1>8, <1>9, <1>10, <1>11, <1>12, <1>13
  DEF Next, Exchange, Start, Worker, CallStep, Loops, SettlementPoll, Reconcile

LEMMA InitTyped == Init => TypeOK
<1> SUFFICES ASSUME Init PROVE Sets /\ Clocks /\ Contracts /\ Papers
  BY TypeParts
<1>1. Sets
  <2>1. \A n \in {0} : n \in Windows
    BY FirstWindow
  <2> QED
    BY <2>1 DEF Init, Sets
<1>2. Clocks
  BY Horizons DEF Init, Clocks, Bounds
<1>3. Contracts
  BY EmptySeq DEF Init, Contracts
<1>4. Papers
  <2>1. \A dir \in Dirs : Stray(Order(dir, now + Ttl)[1], 0) \in Strays
    BY Horizons DEF Init, Order, Stray, Strays
  <2>2. stale \in [Windows -> SUBSET Strays]
    BY <2>1 DEF Init
  <2> QED
    BY <2>2, EmptySeq DEF Init, Papers, Orders
<1> QED
  BY <1>1, <1>2, <1>3, <1>4

LEMMA TypesStep == TypeOK /\ [Next]_vars => TypeOK'
BY SetsKept, ClocksKept, ContractsKept, PapersKept, TypeParts

\* Every variable stays in its type, and the dictionaries of the loops partition the
\* workers, for any number of windows and every time constant.
THEOREM WindowTypesKept == Spec => []TypeOK
BY InitTyped, TypesStep, PTL DEF Spec

-----------------------------------------------------------------------------
(* The life of a window *)

LEMMA DormantKept ==
  ASSUME TypeOK, Dormant, [Next]_vars
  PROVE  Dormant'
<1> USE TypeParts DEF Dormant
<1>1. CASE boot = "up" /\ boot' = "up"
  BY <1>1
<1>2. CASE boot # "up"
  <2>1. workers = {} /\ settled = {} /\ asking = {} /\ listing = {} /\ closes = {} /\ awaiting = {}
    BY <1>2 DEF Sets
  <2>2. CASE Exchange
    BY <2>1, <2>2 DEF Exchange, Tick, Fill, FillStale, BookEmpties, BookBack, Finalize, Payout
  <2>3. CASE Start
    BY <2>1, <2>3 DEF Start, SeedHeld, CancelStale
  <2>4. CASE \E n \in Windows : Worker(n)
    BY <2>1, <2>4, CallFrame DEF Worker, CallStep, BookTop, CycleBlind, CycleWithdraw, CycleKeep,
       FillMessage
  <2>5. CASE PullLoop \/ SpotJump \/ ReleasePull \/ Reconcile
    BY <1>2, <2>1, <2>5 DEF PullLoop, Retire, Remove, Removable, Stopped, SpotJump, ReleasePull,
       Reconcile, FetchPositions, AdoptPositions
  <2>6. CASE ListSeries \/ Discover \/ SettlementPoll
    BY <1>2, <2>1, <2>6 DEF ListSeries, Discover, SettlementPoll, AskStatus, StatusUseless, Settle
  <2>7. CASE UNCHANGED vars
    BY <2>1, <2>7
  <2> QED
    BY <2>2, <2>3, <2>4, <2>5, <2>6, <2>7 DEF Next, Loops
<1>3. CASE boot = "up" /\ boot' # "up"
  BY CallFrame, <1>3 DEF Next, Exchange, Start, Worker, CallStep, Loops, PullLoop, SettlementPoll, Reconcile,
     Tick, Fill, FillStale, BookEmpties, BookBack, Finalize, Payout, SeedHeld, CancelStale,
     ListSeries, Discover, BookTop, CycleBlind, CycleWithdraw, CycleKeep, FillMessage, SpotJump, ReleasePull,
     Retire, Remove, Stopped, AskStatus, StatusUseless, Settle, FetchPositions, AdoptPositions
<1> QED
  BY <1>1, <1>2, <1>3

LEMMA RosterKept ==
  ASSUME TypeOK, Dormant, Roster, [Next]_vars
  PROVE  Roster'
<1> USE TypeParts DEF Roster
<1>0. \A n \in Windows : CloseAt(n) \in Int /\ PullAt(n) \in Int /\ PullAt(n) <= CloseAt(n)
                          /\ CloseAt(n) <= RemoveAt(n) /\ RemoveAt(n) \in Int
  BY Times
<1>c. now \in Int
  BY Horizons DEF Clocks
<1>1. CASE Tick
  BY <1>1, <1>0, <1>c DEF Tick, Sets
<1>2. CASE \E n \in Windows : Fill(n) \/ FillStale(n) \/ BookEmpties(n) \/ BookBack(n) \/ Payout(n)
  BY <1>2 DEF Fill, FillStale, BookEmpties, BookBack, Payout, CloseAt
<1>3. CASE \E n \in Windows : Finalize(n)
  BY <1>3, <1>0, <1>c DEF Finalize
<1>4. CASE Start
  BY <1>4 DEF Start, SeedHeld, CancelStale, Dormant, CloseAt
<1>5. CASE ListSeries \/ SpotJump \/ ReleasePull
  BY <1>5 DEF ListSeries, SpotJump, ReleasePull, CloseAt
<1>6. CASE Discover
  BY <1>6 DEF Discover, Joinable, Sets, CloseAt
<1>7. CASE \E n \in Windows : Worker(n)
  BY <1>7, CallFrame DEF Worker, CallStep, BookTop, CycleBlind, CycleWithdraw, CycleKeep,
     FillMessage, CloseAt
<1>8. CASE Retire
  BY <1>8, <1>0, <1>c DEF Retire, Queued, Sets
<1>9. CASE \E n \in Windows : Remove(n) \/ Stopped(n)
  BY <1>9, <1>0, <1>c DEF Remove, Removable, Stopped
<1>10. CASE SettlementPoll
  BY <1>10, <1>0 DEF SettlementPoll, AskStatus, StatusUseless, Settle, Pending
<1>11. CASE Reconcile
  BY <1>11 DEF Reconcile, FetchPositions, AdoptPositions, CloseAt
<1>12. CASE UNCHANGED vars
  BY <1>12 DEF CloseAt
<1> QED
  BY <1>1, <1>2, <1>3, <1>4, <1>5, <1>6, <1>7, <1>8, <1>9, <1>10, <1>11, <1>12
  DEF Next, Exchange, Loops, PullLoop

\* The tick passes over a window whose worker is reaped when its time has come.
LEMMA TickReaps ==
  ASSUME TypeOK, Roster, Tick, NEW n \in workers, PullAt(n) <= now
  PROVE  n \in reaped
BY TypeParts DEF Sets, Roster, Tick, Prompt, RetireDue

LEMMA OnlyWorkersKept ==
  ASSUME TypeOK, Roster, OnlyWorkers, [Next]_vars
  PROVE  OnlyWorkers'
<1> USE TypeParts DEF OnlyWorkers, Resting
<1>0. \A n \in Windows :
        /\ CloseAt(n) \in Int /\ PullAt(n) \in Int /\ AverageAt(n) \in Int /\ RemoveAt(n) \in Int
        /\ PullAt(n) < AverageAt(n) /\ AverageAt(n) <= CloseAt(n) /\ CloseAt(n) <= RemoveAt(n)
  BY Times
<1>c. now \in Int
  BY Horizons DEF Clocks
<1>1. CASE Tick
  <2> SUFFICES ASSUME NEW n \in Windows
               PROVE  /\ order'[n] # NoOrder => order[n] # NoOrder /\ now' < CloseAt(n)
                      /\ n \in workers /\ PullAt(n) < now' => n \in reaped
                      /\ call[n] \in Sending => now' < RemoveAt(n) /\ n \in slow'
    BY <1>1, <1>0 DEF Tick, Sets
  <2>1. now' = now + 1
    BY <1>1 DEF Tick
  <2>2. order'[n] # NoOrder => order[n] # NoOrder /\ now + 1 < CloseAt(n)
    BY <1>1 DEF Tick, Surviving, Survives
  <2>3. n \in workers /\ PullAt(n) < now' => n \in reaped
    BY <1>0, <1>c, <1>1, <2>1, TickReaps
  <2>4. call[n] \in Sending => now + 1 < RemoveAt(n) /\ n \in slow'
    BY <1>1, SendingCalls DEF Tick, CallsEnd, Dragging
  <2> QED
    BY <2>1, <2>2, <2>3, <2>4
<1>2. CASE \E n \in Windows : Fill(n) \/ FillStale(n)
  BY <1>2 DEF Fill, FillStale, Papers
<1>3. CASE \E n \in Windows : BookEmpties(n) \/ BookBack(n) \/ Finalize(n) \/ Payout(n)
  BY <1>3 DEF BookEmpties, BookBack, Finalize, Payout
<1>4. CASE Start \/ ListSeries \/ SpotJump \/ ReleasePull \/ SettlementPoll
  BY <1>4 DEF Start, SeedHeld, CancelStale, ListSeries, SpotJump, ReleasePull, SettlementPoll,
     AskStatus, StatusUseless, Settle
<1>5. CASE Discover
  BY <1>5, <1>0, <1>c DEF Discover, Joinable, TooLate
<1>6. CASE \E n \in Windows : BookTop(n) \/ CycleBlind(n) \/ CycleKeep(n)
  BY <1>6 DEF BookTop, CycleBlind, CycleKeep
<1>7. CASE \E n \in Windows : CycleWithdraw(n)
  BY <1>7, SendingCalls DEF CycleWithdraw, Withdraws, Clocks
<1>8. CASE \E n \in Windows : CallStep(n)
  <2>1. PICK n \in Windows : CallStep(n)
    BY <1>8
  <2>2. Elsewhere(n) /\ CallOutcome(n) /\ UNCHANGED <<now, workers, reaped, slow>>
    BY <2>1, CallEffect, CallFrame
  <2>3. ASSUME NEW m \in Windows, m # n
        PROVE  /\ order'[m] = order[m] /\ call'[m] = call[m]
               /\ (m \in ref' <=> m \in ref) /\ (m \in parked' <=> m \in parked)
    BY <2>2, <2>3 DEF Elsewhere
  <2>4. /\ order'[n] # NoOrder => now < CloseAt(n)
        /\ call'[n] \in Sending =>
             n \in workers /\ now < RemoveAt(n) /\ (now <= PullAt(n) \/ n \in slow)
    BY <1>0, <1>c, <2>2 DEF CallOutcome, MayQuote
  <2>5. /\ order'[n] # NoOrder => n \in workers
        /\ order'[n] # NoOrder /\ call'[n] = "none" => n \in ref' \cup parked'
        /\ call'[n] = "vain" => order'[n] = NoOrder
    BY <2>2, <2>4, SendingCalls DEF CallOutcome
  <2> QED
    BY <2>2, <2>3, <2>4, <2>5
<1>10. CASE \E n \in Windows : FillMessage(n)
  BY <1>10 DEF FillMessage
<1>11. CASE Retire
  BY <1>11 DEF Retire
<1>12. CASE \E n \in Windows : Remove(n)
  BY <1>12, <1>0, <1>c DEF Remove, Removable
<1>13. CASE \E n \in Windows : Stopped(n)
  BY <1>13 DEF Stopped, Papers
<1>14. CASE Reconcile
  BY <1>14 DEF Reconcile, FetchPositions, AdoptPositions
<1>15. CASE UNCHANGED vars
  BY <1>15
<1> QED
  BY <1>1, <1>2, <1>3, <1>4, <1>5, <1>6, <1>7, <1>8, <1>10, <1>11, <1>12, <1>13, <1>14, <1>15
  DEF Next, Exchange, Worker, CallStep, Loops, PullLoop

LEMMA WithdrawingKept ==
  ASSUME TypeOK, Roster, OnlyWorkers, Withdrawing, [Next]_vars
  PROVE  Withdrawing'
<1> USE TypeParts DEF Withdrawing, MayQuote, Resting, Undisturbed
<1>c. now \in Int /\ \A n \in Windows : pulled[n] \in Int
  BY Horizons DEF Clocks
<1>1. CASE Tick
  <2>1. UNCHANGED <<sided, blind, failed, parked, workers, reaped, pulled, woken, call>>
    BY <1>1 DEF Tick
  <2>2. now' = now + 1 /\ slow \subseteq slow' /\ \A n \in Windows \ slow' : call[n] = "none"
    BY <1>1 DEF Tick, CallsEnd, Dragging
  <2>3. \A n \in Windows : order'[n] # NoOrder => order[n] # NoOrder
    BY <1>1 DEF Tick, Surviving
  <2> QED
    BY <1>c, <2>1, <2>2, <2>3, SendingCalls DEF Sets
<1>2. CASE \E n \in Windows : Fill(n) \/ FillStale(n)
  <2>1. \A n \in Windows : order'[n] # NoOrder => order[n] # NoOrder
    BY <1>2 DEF Fill, FillStale, Papers
  <2> QED
    BY <1>2, <2>1 DEF Fill, FillStale, Sets
<1>3. CASE \E n \in Windows : BookEmpties(n) \/ BookBack(n) \/ Finalize(n) \/ Payout(n)
  BY <1>3 DEF BookEmpties, BookBack, Finalize, Payout, Woken
<1>4. CASE Start \/ ListSeries
  BY <1>4 DEF Start, SeedHeld, CancelStale, ListSeries
<1>5. CASE Discover
  <2> DEFINE new == {n \in listing : Joinable(n)}
  <2>1. /\ workers' = workers \cup new /\ reaped' = reaped \ new
        /\ \A n \in Windows : n \notin new => pulled'[n] = pulled[n]
        /\ new \subseteq Windows /\ new \cap workers = {}
        /\ UNCHANGED <<now, sided, blind, failed, slow, parked, woken, call, order>>
    BY <1>5 DEF Discover, Joinable, Sets
  <2>2. \A n \in new : order[n] = NoOrder /\ call[n] \notin Sending
    BY <2>1 DEF OnlyWorkers
  <2> HIDE DEF new
  <2> QED
    BY <2>1, <2>2 DEF Sets
<1>6. CASE \E n \in Windows : BookTop(n) \/ CycleBlind(n) \/ CycleKeep(n)
  BY <1>6 DEF BookTop, CycleBlind, CycleKeep
<1>7. CASE \E n \in Windows : CycleWithdraw(n)
  <2>1. PICK n \in Windows : CycleWithdraw(n)
    BY <1>7
  <2>2. /\ call[n] = "none" /\ woken' = woken \ {n}
        /\ call' = [call EXCEPT ![n] = IF n \in ref \cup parked THEN "cancel" ELSE "none"]
        /\ UNCHANGED <<now, sided, blind, failed, slow, parked, workers, reaped, pulled, order>>
    BY <2>1 DEF CycleWithdraw, Withdraws
  <2>3. order[n] # NoOrder => n \in ref \cup parked
    BY <2>2 DEF OnlyWorkers
  <2>4. call'[n] = IF n \in ref \cup parked THEN "cancel" ELSE "none"
    BY <2>2 DEF Clocks
  <2>5. \A m \in Windows \ {n} : call'[m] = call[m] /\ (m \in woken' <=> m \in woken)
    BY <2>2 DEF Clocks
  <2> QED
    BY <2>2, <2>3, <2>4, <2>5, SendingCalls DEF Sets
<1>8. CASE \E n \in Windows : CallStep(n)
  <2>1. PICK n \in Windows : CallStep(n)
    BY <1>8
  <2>2. /\ Elsewhere(n) /\ CallOutcome(n)
        /\ UNCHANGED <<now, sided, blind, slow, workers, reaped, pulled>>
    BY <2>1, CallEffect, CallFrame
  <2>3. parked' \subseteq failed' /\ failed \subseteq failed'
    BY <2>2 DEF CallOutcome
  <2>4. ASSUME NEW m \in workers \cap Undisturbed', m # n, ~MayQuote(m)
        PROVE  /\ order'[m] # NoOrder => m \in woken' \/ call'[m] = "cancel"
               /\ call'[m] \in Sending => m \in woken'
    <3>1. m \in Windows \ {n} /\ m \in workers \cap Undisturbed
      BY <2>2, <2>3, <2>4 DEF Sets
    <3> QED
      BY <2>2, <2>4, <3>1 DEF Elsewhere
  <2>5. ASSUME n \in workers \cap Undisturbed', ~MayQuote(n)
        PROVE  /\ order'[n] # NoOrder => n \in woken' \/ call'[n] = "cancel"
               /\ call'[n] \in Sending => n \in woken'
    <3>1. n \in Undisturbed /\ n \notin parked
      BY <2>2, <2>3, <2>5
    <3>2. /\ woken' = woken
          /\ call[n] \in Sending \/ (order'[n] = NoOrder /\ call'[n] = "none")
      BY <2>2, <2>5, <3>1 DEF CallOutcome
    <3> QED
      BY <2>5, <3>1, <3>2, SendingCalls
  <2>6. Windows \ sided' \subseteq blind'
    BY <2>2
  <2> QED
    BY <2>2, <2>3, <2>4, <2>5, <2>6
<1>10. CASE \E n \in Windows : FillMessage(n)
  BY <1>10 DEF FillMessage, Woken
<1>11. CASE Retire
  BY <1>11 DEF Retire, Woken, Sets
<1>12. CASE \E n \in Windows : Remove(n)
  BY <1>12 DEF Remove
<1>13. CASE \E n \in Windows : Stopped(n)
  BY <1>13 DEF Stopped, Papers
<1>14. CASE Reconcile
  BY <1>14 DEF Reconcile, FetchPositions, AdoptPositions, Woken
<1>15. CASE SpotJump \/ ReleasePull
  BY <1>15 DEF SpotJump, ReleasePull, Woken, Pullable, Sets
<1>16. CASE SettlementPoll
  BY <1>16 DEF SettlementPoll, AskStatus, StatusUseless, Settle, Woken
<1>17. CASE UNCHANGED vars
  BY <1>17
<1> QED
  BY <1>1, <1>2, <1>3, <1>4, <1>5, <1>6, <1>7, <1>8, <1>10, <1>11, <1>12, <1>13, <1>14, <1>15,
     <1>16, <1>17
  DEF Next, Exchange, Worker, CallStep, Loops, PullLoop

LEMMA QuietKept ==
  ASSUME TypeOK, Roster, OnlyWorkers, Withdrawing, QuietAverage, [Next]_vars
  PROVE  QuietAverage'
<1> USE TypeParts DEF QuietAverage, Resting, Undisturbed
<1>0. \A n \in Windows :
        /\ PullAt(n) \in Int /\ AverageAt(n) \in Int /\ PullAt(n) < AverageAt(n)
  BY Times
<1>c. now \in Int
  BY Horizons DEF Clocks
<1>1. CASE Tick
  <2> SUFFICES ASSUME NEW n \in Windows, n \in Undisturbed', AverageAt(n) <= now',
                      order'[n] # NoOrder
               PROVE  FALSE
    BY <1>1 DEF Tick
  <2>1. now' = now + 1 /\ order[n] # NoOrder
    BY <1>1 DEF Tick, Surviving
  <2>2. n \in workers /\ PullAt(n) <= now
    BY <1>0, <1>c, <2>1 DEF OnlyWorkers
  <2>3. n \in reaped
    BY <1>1, <2>2, TickReaps
  <2>4. n \in Undisturbed /\ call[n] = "none" /\ n \notin woken
    BY <1>1 DEF Tick, Prompt, CallsEnd, Dragging
  <2> QED
    BY <2>1, <2>2, <2>3, <2>4 DEF Withdrawing, MayQuote
<1>2. CASE \E n \in Windows : CallStep(n)
  <2>1. PICK n \in Windows : CallStep(n)
    BY <1>2
  <2>2. /\ Elsewhere(n) /\ CallOutcome(n) /\ UNCHANGED <<now, blind, slow>>
        /\ failed \subseteq failed'
    BY <2>1, CallEffect, CallFrame DEF CallOutcome
  <2>3. \A m \in Windows \ {n} : order'[m] = order[m]
    BY <2>2 DEF Elsewhere
  <2>4. order'[n] # NoOrder /\ n \notin slow => order[n] # NoOrder \/ now <= PullAt(n)
    <3>1. SUFFICES ASSUME call'[n] = "create", n \notin slow PROVE now <= PullAt(n)
      BY <2>2 DEF CallOutcome
    <3>2. call[n] \in Sending \/ (n \in workers /\ n \notin reaped)
      BY <2>2, <3>1, SendingCalls DEF CallOutcome, MayQuote
    <3> QED
      BY <1>0, <1>c, <3>1, <3>2 DEF OnlyWorkers
  <2> QED
    BY <1>0, <1>c, <2>2, <2>3, <2>4
<1>3. CASE \E n \in Windows : Fill(n) \/ FillStale(n)
  <2>1. \A n \in Windows : order'[n] # NoOrder => order[n] # NoOrder
    BY <1>3 DEF Fill, FillStale, Papers
  <2> QED
    BY <1>3, <2>1 DEF Fill, FillStale
<1>4. CASE \E n \in Windows : BookEmpties(n) \/ BookBack(n) \/ Finalize(n) \/ Payout(n)
  BY <1>4 DEF BookEmpties, BookBack, Finalize, Payout
<1>5. CASE Start \/ ListSeries \/ Discover \/ SpotJump \/ ReleasePull \/ Reconcile
  BY <1>5 DEF Start, SeedHeld, CancelStale, ListSeries, Discover, SpotJump, ReleasePull, Reconcile,
     FetchPositions, AdoptPositions
<1>6. CASE PullLoop \/ SettlementPoll
  <2>1. \A n \in Windows : order'[n] # NoOrder => order[n] # NoOrder
    BY <1>6 DEF PullLoop, Retire, Remove, Stopped, Papers, SettlementPoll, AskStatus, StatusUseless,
       Settle
  <2> QED
    BY <1>6, <2>1 DEF PullLoop, Retire, Remove, Stopped, SettlementPoll, AskStatus, StatusUseless,
       Settle
<1>7. CASE \E n \in Windows : BookTop(n) \/ CycleBlind(n) \/ CycleWithdraw(n) \/ CycleKeep(n)
  BY <1>7 DEF BookTop, CycleBlind, CycleWithdraw, CycleKeep
<1>8. CASE \E n \in Windows : FillMessage(n)
  BY <1>8 DEF FillMessage
<1>9. CASE UNCHANGED vars
  BY <1>9
<1> QED
  BY <1>1, <1>2, <1>3, <1>4, <1>5, <1>6, <1>7, <1>8, <1>9 DEF Next, Exchange, Worker, CallStep, Loops

LEMMA SentKept ==
  ASSUME TypeOK, Roster, OnlyWorkers, SentBeforePull, [Next]_vars
  PROVE  SentBeforePull'
<1> USE TypeParts DEF SentBeforePull, Resting
<1>0. /\ now \in Int /\ Ttl \in Int /\ \A n \in Windows : PullAt(n) \in Int
      /\ slow \subseteq slow'
  <2>1. slow \subseteq slow'
    BY CallFrame DEF Next, Exchange, Start, Worker, CallStep, Loops, PullLoop, SettlementPoll,
       Reconcile, Tick, CallsEnd, Fill, FillStale, BookEmpties, BookBack, Finalize, Payout, SeedHeld,
       CancelStale, ListSeries, Discover, BookTop, CycleBlind, CycleWithdraw, CycleKeep, FillMessage,
       SpotJump, ReleasePull, Retire, Remove, Stopped, AskStatus, StatusUseless, Settle,
       FetchPositions, AdoptPositions
  <2> QED
    BY <2>1, Times, Horizons DEF Clocks
<1>1. CASE \E n \in Windows : CallStep(n)
  <2>1. PICK n \in Windows : CallStep(n)
    BY <1>1
  <2>2. Elsewhere(n) /\ CallOutcome(n) /\ UNCHANGED <<now, slow>>
    BY <2>1, CallEffect, CallFrame
  <2>3. \A m \in Windows \ {n} : order'[m] = order[m] /\ stale'[m] = stale[m]
    BY <2>2 DEF Elsewhere
  <2>4. call'[n] = "create" /\ n \notin slow => now <= PullAt(n)
    <3>1. call'[n] = "create" => call[n] \in Sending \/ (n \in workers /\ n \notin reaped)
      BY <2>2, SendingCalls DEF CallOutcome, MayQuote
    <3> QED
      BY <1>0, <3>1 DEF OnlyWorkers
  <2>5. n \notin slow /\ order'[n] # NoOrder => order'[n][1].until <= PullAt(n) + Ttl
    BY <1>0, <2>2, <2>4 DEF CallOutcome
  <2>6. n \notin slow => \A o \in stale'[n] : o.until <= PullAt(n) + Ttl
    BY <2>2 DEF CallOutcome
  <2> HIDE DEF PullAt
  <2> QED
    BY <2>2, <2>3, <2>5, <2>6
<1>2. CASE \A n \in Windows : /\ order'[n] = order[n] \/ order'[n] = NoOrder
                              /\ stale'[n] \subseteq stale[n]
  BY <1>0, <1>2
<1>3. CASE ~\E n \in Windows : CallStep(n)
  <2>1. \A n \in Windows : order'[n] = order[n] \/ order'[n] = NoOrder
    <3>1. CASE Tick
      BY <3>1 DEF Tick, Surviving
    <3>2. CASE \E n \in Windows : Fill(n) \/ Stopped(n)
      BY <3>2 DEF Fill, Stopped, Papers
    <3>3. CASE UNCHANGED order
      BY <3>3
    <3> QED
      BY <1>3, <3>1, <3>2, <3>3 DEF Next, Exchange, Start, Worker, CallStep, Loops, PullLoop,
         SettlementPoll, Reconcile, FillStale, BookEmpties, BookBack, Finalize, Payout, SeedHeld,
         CancelStale, ListSeries, Discover, BookTop, CycleBlind, CycleWithdraw, CycleKeep,
         FillMessage, SpotJump, ReleasePull, Retire, Remove, AskStatus, StatusUseless, Settle,
         FetchPositions, AdoptPositions
  <2>2. \A n \in Windows : stale'[n] \subseteq stale[n]
    <3>1. CASE Tick \/ CancelStale \/ FetchPositions
      BY <3>1 DEF Tick, CancelStale, FetchPositions
    <3>2. CASE \E n \in Windows : FillStale(n)
      BY <3>2 DEF FillStale, Papers
    <3>3. CASE UNCHANGED stale
      BY <3>3
    <3> QED
      BY <1>3, <3>1, <3>2, <3>3 DEF Next, Exchange, Start, Worker, CallStep, Loops, PullLoop,
         SettlementPoll, Reconcile, Fill, BookEmpties, BookBack, Finalize, Payout, SeedHeld,
         ListSeries, Discover, BookTop, CycleBlind, CycleWithdraw, CycleKeep, FillMessage, SpotJump,
         ReleasePull, Retire, Remove, Stopped, AskStatus, StatusUseless, Settle, AdoptPositions
  <2> QED
    BY <1>2, <2>1, <2>2
<1> QED
  BY <1>1, <1>3

LEMMA PullsObeyed ==
  ASSUME TypeOK, Withdrawing, [Next]_vars, now' # now
  PROVE  \A n \in workers \cap Undisturbed' : MayQuote(n) \/ ~Resting(n)
<1>1. Tick
  BY CallFrame DEF Next, Exchange, Start, Worker, CallStep, Loops, PullLoop, SettlementPoll, Reconcile,
     Fill, FillStale, BookEmpties, BookBack, Finalize, Payout, SeedHeld, CancelStale,
     ListSeries, Discover, BookTop, CycleBlind, CycleWithdraw, CycleKeep, FillMessage, SpotJump, ReleasePull,
     Retire, Remove, Stopped, AskStatus, StatusUseless, Settle, FetchPositions, AdoptPositions
<1> QED
  BY <1>1, TypeParts DEF Tick, Prompt, CallsEnd, Dragging, Withdrawing, Undisturbed, Sets

-----------------------------------------------------------------------------
(* What becomes of its contracts *)

\* Only a window that was neither settled nor removed is joined.
LEMMA JoinsFresh ==
  ASSUME TypeOK, Roster, [Next]_vars, NEW n \in workers' \ workers
  PROVE  n \notin settled /\ n \in listing /\ Joinable(n)
<1>1. Discover
  BY CallFrame DEF Next, Exchange, Start, Worker, CallStep, Loops, PullLoop, SettlementPoll, Reconcile, Tick,
     Fill, FillStale, BookEmpties, BookBack, Finalize, Payout, SeedHeld, CancelStale,
     ListSeries, BookTop, CycleBlind, CycleWithdraw, CycleKeep, FillMessage, SpotJump, ReleasePull,
     Retire, Remove, Stopped, AskStatus, StatusUseless, Settle, FetchPositions, AdoptPositions
<1>2. n \in listing /\ Joinable(n) /\ n \in Windows
  BY <1>1, TypeParts DEF Discover, Sets
<1>3. ~(PullAt(n) <= now)
  BY <1>2 DEF Joinable, TooLate
<1>4. /\ PullAt(n) \in Int /\ CloseAt(n) \in Int /\ now \in Int /\ PullAt(n) <= CloseAt(n)
  BY <1>2, Times, TypeParts, Horizons DEF Clocks
<1>5. ~(CloseAt(n) <= now)
  BY <1>3, <1>4
<1> QED
  BY <1>2, <1>5 DEF Roster

\* The window is not joined yet, and nothing of it is in the exchange's answers.
Unjoined(n) ==
  /\ stale[n] = {} /\ truth[n] = 0 /\ wire[n] = <<>> /\ (fetched # <<>> => fetched[1][n] = 0)
  /\ pos[n] = 0 /\ booked[n] = 0 /\ unvalued[n] = 0

LEMMA UntouchedKept ==
  ASSUME TypeOK, Dormant, Roster, OnlyWorkers, Untouched, [Next]_vars
  PROVE  Untouched'
<1> USE TypeParts
<1> SUFFICES ASSUME NEW n \in Windows, n \notin inherited'
             PROVE  /\ n \notin already' /\ positions'[n] = 0
                    /\ n \notin workers' \cup settled' => Unjoined(n)'
  BY DEF Untouched, Unjoined
<1>i. inherited' = inherited
  BY CallFrame DEF Next, Exchange, Start, Worker, CallStep, Loops, PullLoop, SettlementPoll, Reconcile, Tick,
     Fill, FillStale, BookEmpties, BookBack, Finalize, Payout, SeedHeld, CancelStale, Discover,
     ListSeries, BookTop, CycleBlind, CycleWithdraw, CycleKeep, FillMessage, SpotJump, ReleasePull,
     Retire, Remove, Stopped, AskStatus, StatusUseless, Settle, FetchPositions, AdoptPositions
<1>u. /\ n \notin already /\ positions[n] = 0
      /\ n \notin workers \cup settled => Unjoined(n)
  BY <1>i DEF Untouched, Unjoined
<1> HIDE DEF Unjoined
<1>1. CASE Tick
  BY <1>1, <1>u DEF Tick, Unjoined
<1>2. CASE \E k \in Windows : Fill(k)
  <2>1. PICK k \in Windows : Fill(k)
    BY <1>2
  <2>2. k \in workers
    BY <2>1 DEF Fill, OnlyWorkers
  <2>3. n # k => truth'[n] = truth[n] /\ wire'[n] = wire[n]
    BY <2>1 DEF Fill, Traded, Contracts, Papers
  <2>4. UNCHANGED <<already, positions, stale, workers, settled, fetched, pos, booked, unvalued>>
    BY <2>1 DEF Fill
  <2> QED
    BY <1>u, <2>2, <2>3, <2>4 DEF Unjoined
<1>3. CASE \E k \in Windows : FillStale(k)
  <2>1. PICK k \in Windows : FillStale(k)
    BY <1>3
  <2>2. k = n => n \in workers \cup settled
    BY <1>u, <2>1 DEF FillStale, Unjoined
  <2>3. k # n => truth'[n] = truth[n] /\ wire'[n] = wire[n] /\ stale'[n] = stale[n]
    BY <2>1 DEF FillStale, Traded, Contracts, Papers
  <2>4. UNCHANGED <<already, positions, workers, settled, fetched, pos, booked, unvalued>>
    BY <2>1 DEF FillStale
  <2> QED
    BY <1>u, <2>2, <2>3, <2>4 DEF Unjoined
<1>4. CASE \E k \in Windows : BookEmpties(k) \/ BookBack(k) \/ Finalize(k) \/ Payout(k)
  BY <1>4, <1>u DEF BookEmpties, BookBack, Finalize, Payout, Unjoined
<1>5. CASE \E hasMid \in BOOLEAN : SeedHeld(hasMid)
  <2>1. PICK hasMid \in BOOLEAN : SeedHeld(hasMid)
    BY <1>5
  <2>2. n \notin workers \cup settled /\ Unjoined(n)
    BY <1>u, <2>1 DEF Dormant, SeedHeld
  <2>3. Reported[n] = 0
    BY <2>2 DEF Reported, Unjoined
  <2>4. n \notin known' /\ positions'[n] = 0 /\ pos'[n] = 0
    BY <2>1, <2>3 DEF SeedHeld
  <2>5. booked'[n] = booked[n] /\ unvalued'[n] = unvalued[n]
    <3>1. CASE 0 \in known'
      BY <2>1, <2>4, <3>1 DEF SeedHeld, Seeded, Contracts
    <3>2. CASE 0 \notin known'
      BY <2>1, <3>2 DEF SeedHeld
    <3> QED
      BY <3>1, <3>2
  <2> QED
    BY <1>u, <2>1, <2>2, <2>4, <2>5 DEF SeedHeld, Unjoined
<1>6. CASE CancelStale
  BY <1>6, <1>u DEF CancelStale, Unjoined
<1>7. CASE Discover
  BY <1>7, <1>u DEF Discover, Unjoined
<1>8. CASE ListSeries \/ SpotJump \/ ReleasePull \/ Retire
  BY <1>8, <1>u DEF ListSeries, SpotJump, ReleasePull, Retire, Unjoined
<1>9. CASE \E k \in Windows : BookTop(k)
  <2>1. PICK k \in Windows : BookTop(k)
    BY <1>9
  <2>2. k # n => booked'[n] = booked[n] /\ unvalued'[n] = unvalued[n]
    BY <2>1 DEF BookTop, Contracts
  <2>3. k = n => n \in workers \cup settled
    BY <1>u, <2>1 DEF BookTop, Unjoined
  <2> QED
    BY <1>u, <2>1, <2>2, <2>3 DEF BookTop, Unjoined
<1>10. CASE \E k \in Windows : CycleBlind(k) \/ CycleWithdraw(k) \/ CycleKeep(k)
  BY <1>10, <1>u DEF CycleBlind, CycleWithdraw, CycleKeep, Unjoined
<1>11. CASE \E k \in Windows : CallStep(k)
  <2>1. PICK k \in Windows : CallStep(k)
    BY <1>11
  <2>2. UNCHANGED <<already, positions, truth, wire, fetched, workers, settled, pos, booked, unvalued>>
    BY <2>1, CallFrame
  <2>3. k # n => stale'[n] = stale[n]
    BY <2>1, CallEffect DEF Elsewhere
  <2>4. k = n /\ n \notin workers => stale'[n] \subseteq stale[n]
    BY <2>1, CallEffect DEF CallOutcome, OnlyWorkers, Resting
  <2> QED
    BY <1>u, <2>2, <2>3, <2>4 DEF Unjoined
<1>13. CASE \E k \in Windows : FillMessage(k)
  <2>1. PICK k \in Windows : FillMessage(k)
    BY <1>13
  <2>2. k # n => pos'[n] = pos[n] /\ booked'[n] = booked[n] /\ wire'[n] = wire[n]
    BY <2>1 DEF FillMessage, Contracts, Papers
  <2>3. k = n => n \in workers \cup settled
    BY <1>u, <2>1 DEF FillMessage, Unjoined
  <2> QED
    BY <1>u, <2>1, <2>2, <2>3 DEF FillMessage, Unjoined
<1>14. CASE \E k \in Windows : Remove(k) \/ Stopped(k)
  BY <1>14, <1>u DEF Remove, Removable, Stopped, Roster, Sets, Unjoined
<1>15. CASE \E k \in Windows : AskStatus(k) \/ StatusUseless(k)
  BY <1>15, <1>u DEF AskStatus, StatusUseless, Unjoined
<1>16. CASE \E k \in Windows : Settle(k)
  <2>1. PICK k \in Windows : Settle(k)
    BY <1>16
  <2>2. k # n => pos'[n] = pos[n] /\ booked'[n] = booked[n] /\ unvalued'[n] = unvalued[n]
    BY <2>1 DEF Settle, Contracts
  <2>3. settled' = settled \cup {k}
    BY <2>1 DEF Settle
  <2> QED
    BY <1>u, <2>1, <2>2, <2>3 DEF Settle, Unjoined
<1>17. CASE FetchPositions
  <2>1. Unjoined(n) => Reported[n] = 0
    BY DEF Reported, Unjoined
  <2>2. fetched'[1] = Reported
    BY <1>17 DEF FetchPositions
  <2> QED
    BY <1>17, <1>u, <2>1, <2>2 DEF FetchPositions, Unjoined
<1>18. CASE AdoptPositions
  BY <1>18, <1>u DEF AdoptPositions, Unjoined
<1>19. CASE UNCHANGED vars
  BY <1>19, <1>u DEF Unjoined
<1> QED
  BY <1>1, <1>2, <1>3, <1>4, <1>5, <1>6, <1>7, <1>8, <1>9, <1>10, <1>11, <1>13, <1>14, <1>15,
     <1>16, <1>17, <1>18, <1>19
  DEF Next, Exchange, Start, Worker, CallStep, Loops, PullLoop, SettlementPoll, Reconcile

LEMMA BookedKept ==
  ASSUME TypeOK, Dormant, Roster, Untouched, BookedOnce, [Next]_vars
  PROVE  BookedOnce'
<1> USE TypeParts
<1> SUFFICES ASSUME NEW n \in Windows, n \notin inherited'
             PROVE  booked'[n] + unvalued'[n] = pos'[n]
  BY DEF BookedOnce
<1>i. inherited' = inherited
  BY CallFrame DEF Next, Exchange, Start, Worker, CallStep, Loops, PullLoop, SettlementPoll, Reconcile, Tick,
     Fill, FillStale, BookEmpties, BookBack, Finalize, Payout, SeedHeld, CancelStale, Discover,
     ListSeries, BookTop, CycleBlind, CycleWithdraw, CycleKeep, FillMessage, SpotJump, ReleasePull,
     Retire, Remove, Stopped, AskStatus, StatusUseless, Settle, FetchPositions, AdoptPositions
<1>b. booked[n] + unvalued[n] = pos[n]
  BY <1>i DEF BookedOnce
<1>t. booked[n] \in Int /\ unvalued[n] \in Int /\ pos[n] \in Int
  BY DEF Contracts
<1>u. /\ positions[n] = 0
      /\ n \notin workers \cup settled =>
           /\ truth[n] = 0 /\ (fetched # <<>> => fetched[1][n] = 0)
           /\ pos[n] = 0 /\ booked[n] = 0 /\ unvalued[n] = 0
  BY <1>i DEF Untouched
<1>1. CASE \E hasMid \in BOOLEAN : SeedHeld(hasMid)
  <2>1. PICK hasMid \in BOOLEAN : SeedHeld(hasMid)
    BY <1>1
  <2>2. n \notin workers \cup settled
    BY <2>1 DEF Dormant, SeedHeld
  <2>3. Reported[n] = 0
    BY <1>u, <2>2 DEF Reported
  <2>4. n \notin known' /\ pos'[n] = 0
    BY <2>1, <2>3 DEF SeedHeld
  <2>5. booked'[n] = booked[n] /\ unvalued'[n] = unvalued[n]
    <3>1. CASE 0 \in known'
      BY <2>1, <2>4, <3>1 DEF SeedHeld, Seeded, Contracts
    <3>2. CASE 0 \notin known'
      BY <2>1, <3>2 DEF SeedHeld
    <3> QED
      BY <3>1, <3>2
  <2> QED
    BY <1>u, <2>2, <2>4, <2>5
<1>2. CASE Discover
  <2>1. CASE n \in workers' \ workers
    <3>1. n \notin settled
      BY <2>1, JoinsFresh
    <3>2. pos'[n] = 0 /\ unvalued'[n] = 0 /\ booked'[n] = booked[n]
      BY <1>2, <1>u, <2>1 DEF Discover
    <3> QED
      BY <1>u, <2>1, <3>1, <3>2
  <2>2. CASE n \notin workers' \ workers
    BY <1>2, <1>b, <2>2 DEF Discover, Joinable
  <2> QED
    BY <2>1, <2>2
<1>3. CASE \E k \in Windows : BookTop(k)
  <2>1. PICK k \in Windows : BookTop(k)
    BY <1>3
  <2> QED
    BY <1>b, <1>t, <2>1 DEF BookTop, Contracts
<1>4. CASE \E k \in Windows : FillMessage(k)
  <2>1. PICK k \in Windows : FillMessage(k)
    BY <1>4
  <2>2. Head(wire[k]).dir \in Int
    BY <2>1, WireHead DEF FillMessage, Dirs
  <2> QED
    BY <1>b, <1>t, <2>1, <2>2 DEF FillMessage, Contracts
<1>5. CASE \E k \in Windows : Settle(k)
  <2>1. PICK k \in Windows : Settle(k)
    BY <1>5
  <2> QED
    BY <1>b, <1>t, <2>1 DEF Settle, Contracts
<1>6. CASE AdoptPositions
  <2>1. fetched[1][n] \in Int
    BY <1>6, ElementOfSeq, EmptySeq DEF AdoptPositions, Contracts
  <2>2. fetched # <<>> /\ pos'[n] = fetched[1][n]
    BY <1>6 DEF AdoptPositions
  <2>3. CASE fetched[1][n] = pos[n]
    BY <1>6, <1>b, <2>2, <2>3 DEF AdoptPositions
  <2>4. CASE fetched[1][n] # pos[n]
    <3>1. n \in workers \cup settled
      BY <1>u, <2>2, <2>4
    <3>2. n \in known
      BY <3>1 DEF Roster
    <3>3. booked'[n] = booked[n] + fetched[1][n] - pos[n] /\ unvalued'[n] = unvalued[n]
      BY <1>6, <2>4, <3>2 DEF AdoptPositions, Adjusted
    <3> QED
      BY <1>b, <1>t, <2>1, <2>2, <3>3
  <2> QED
    BY <2>3, <2>4
<1>7. CASE UNCHANGED <<booked, unvalued, pos>>
  BY <1>7, <1>b
<1> QED
  BY CallFrame, <1>1, <1>2, <1>3, <1>4, <1>5, <1>6, <1>7
  DEF Next, Exchange, Start, Worker, CallStep, Loops, PullLoop, SettlementPoll, Reconcile, Tick,
     Fill, FillStale, BookEmpties, BookBack, Finalize, Payout, CancelStale,
     ListSeries, CycleBlind, CycleWithdraw, CycleKeep,  SpotJump, ReleasePull,
     Retire, Remove, Stopped, AskStatus, StatusUseless, FetchPositions

LEMMA SettlementKept ==
  ASSUME TypeOK, Settlement, RealisedOnce, [Next]_vars
  PROVE  Settlement' /\ RealisedOnce'
<1> USE TypeParts DEF Settlement, RealisedOnce
<1>t. \A n \in Windows : realised[n] \in Nat
  BY DEF Clocks
<1>1. CASE \E k \in Windows : AskStatus(k)
  BY <1>1, <1>t DEF AskStatus, Pending
<1>2. CASE \E k \in Windows : StatusUseless(k)
  BY <1>2 DEF StatusUseless
<1>3. CASE \E k \in Windows : Settle(k)
  <2>1. PICK k \in Windows : Settle(k)
    BY <1>3
  <2>2. /\ asking' = {} /\ settled' = settled \cup {k} /\ inherited' = inherited
        /\ \A n \in Windows \ {k} : realised'[n] = realised[n]
        /\ realised'[k] = realised[k] \/ realised'[k] = realised[k] + 1
        /\ k \in asking
    BY <2>1 DEF Settle, Clocks
  <2> QED
    BY <1>t, <2>2
<1>4. CASE \E k \in Windows : Remove(k)
  BY <1>4 DEF Remove
<1>5. CASE UNCHANGED <<asking, settled, realised, inherited>>
  BY <1>5
<1> QED
  BY CallFrame, <1>1, <1>2, <1>3, <1>4, <1>5
  DEF Next, Exchange, Start, Worker, CallStep, Loops, PullLoop, SettlementPoll, Reconcile, Tick,
     Fill, FillStale, BookEmpties, BookBack, Finalize, Payout, SeedHeld, CancelStale, Discover,
     ListSeries, BookTop, CycleBlind, CycleWithdraw, CycleKeep, FillMessage, SpotJump, ReleasePull,
     Retire, Stopped, FetchPositions, AdoptPositions

-----------------------------------------------------------------------------
(* What is frozen *)

LEMMA EndedKept ==
  ASSUME PayoutWaits, TypeOK, Dormant, Roster, OnlyWorkers, Ended, [Next]_vars
  PROVE  Ended'
<1> USE TypeParts
<1> DEFINE Settled(n) ==
      /\ n \in already => realised[n] > 0
      /\ n = 0 \/ boot = "up" \/ (stale[n] = {} /\ truth[n] = 0)
      /\ n \in paid => n \in final /\ (truth[n] = 0 \/ realised[n] > 0)
    Closed(n) == ~Resting(n) /\ stale[n] = {} /\ wire[n] = <<>>
    Right(n) ==
      /\ fetched # <<>> => fetched[1][n] = truth[n]
      /\ n \in asking => pos[n] # 0 \/ truth[n] = 0
      /\ CloseAt(n) <= now - since /\ boot # "off" => pos[n] = truth[n]
<1>t. /\ now \in Nat /\ since \in Nat
      /\ \A n \in Windows : CloseAt(n) \in Int /\ PullAt(n) \in Int /\ PullAt(n) <= CloseAt(n)
                             /\ realised[n] \in Nat
  BY Horizons, Times DEF Clocks
<1> SUFFICES ASSUME NEW n \in Windows
             PROVE  /\ Settled(n)'
                    /\ CloseAt(n) <= now' => Closed(n)'
                    /\ realised'[n] = 0 /\ CloseAt(n) <= now' => Right(n)'
  BY DEF Ended
<1>e. /\ Settled(n) /\ (CloseAt(n) <= now => Closed(n))
      /\ realised[n] = 0 /\ CloseAt(n) <= now => Right(n)
  BY DEF Ended
<1>1. CASE Tick
  <2>1. /\ now' = now + 1 /\ since' = since + 1 /\ boot = "up" /\ fetched = <<>> /\ asking = {}
        /\ wire[n] = <<>>
        /\ UNCHANGED <<already, realised, boot, truth, paid, final, wire, fetched, asking, pos>>
    BY <1>1 DEF Tick, Prompt
  <2>2. /\ order[n] = NoOrder \/ CloseAt(n) <= now + 1 => order'[n] = NoOrder
        /\ stale[n] = {} \/ CloseAt(n) <= now + 1 => stale'[n] = {}
    BY <1>1, <1>t DEF Tick, Surviving, Survives
  <2>3. CloseAt(n) <= now - since <=> CloseAt(n) <= now' - since'
    BY <1>t, <2>1
  <2>4. CloseAt(n) <= now - since => CloseAt(n) <= now
    BY <1>t
  <2> QED
    BY <1>e, <2>1, <2>2, <2>3, <2>4 DEF Resting
<1>2. CASE \E k \in Windows : Fill(k) \/ FillStale(k)
  <2>1. PICK k \in Windows : Fill(k) \/ FillStale(k)
    BY <1>2
  <2>2. now < CloseAt(k)
    <3>1. CloseAt(k) \in Int /\ now \in Int
      BY <1>t
    <3>2. CASE Fill(k)
      <4>1. Resting(k)
        BY <3>2 DEF Fill
      <4> QED
        BY <4>1 DEF OnlyWorkers
    <3>3. CASE FillStale(k)
      <4>1. stale[k] # {}
        BY <3>3 DEF FillStale
      <4>2. ~(CloseAt(k) <= now)
        BY <4>1 DEF Ended
      <4> QED
        BY <3>1, <4>2
    <3> QED
      BY <2>1, <3>2, <3>3
  <2>3. k # 0 => boot = "up"
    BY <2>1 DEF Fill, FillStale, OnlyWorkers, Dormant, Ended
  <2>4. k # n => truth'[n] = truth[n] /\ wire'[n] = wire[n]
    BY <2>1 DEF Fill, FillStale, Traded, Contracts, Papers
  <2>5. /\ order[n] = NoOrder => order'[n] = NoOrder
        /\ stale'[n] \subseteq stale[n]
    BY <2>1 DEF Fill, FillStale, Papers
  <2>6. UNCHANGED <<now, since, already, realised, boot, paid, final, fetched, asking, pos>>
    BY <2>1 DEF Fill, FillStale
  <2>7. CASE k = n
    <3>1. n \notin paid
      <4>1. ~(CloseAt(n) <= now)
        BY <1>t, <2>2, <2>7
      <4> QED
        BY <1>e, <4>1 DEF Roster
    <3>2. Settled(n)'
      BY <1>e, <2>3, <2>5, <2>6, <2>7, <3>1
    <3>3. ~(CloseAt(n) <= now')
      BY <1>t, <2>2, <2>6, <2>7
    <3> QED
      BY <3>2, <3>3
  <2>8. CASE k # n
    BY <1>e, <2>4, <2>5, <2>6, <2>8 DEF Resting
  <2> QED
    BY <2>7, <2>8
<1>3. CASE \E k \in Windows : BookEmpties(k) \/ BookBack(k) \/ Finalize(k)
  BY <1>3, <1>e DEF BookEmpties, BookBack, Finalize, Resting
<1>4. CASE \E k \in Windows : Payout(k)
  BY <1>4, <1>e, <1>t DEF Payout, Resting
<1>5. CASE \E hasMid \in BOOLEAN : SeedHeld(hasMid)
  <2>1. PICK hasMid \in BOOLEAN : SeedHeld(hasMid)
    BY <1>5
  <2>2. asking = {} /\ boot = "off" /\ boot' = "seeded"
    BY <2>1 DEF SeedHeld, Dormant
  <2>3. /\ known' = {m \in {0} : Reported[m] # 0 /\ m \notin already}
        /\ pos' = [m \in Windows |-> IF m \in known' THEN Reported[m] ELSE 0]
        /\ UNCHANGED <<now, since, already, realised, stale, truth, paid, final, order, wire,
                       fetched, asking>>
    BY <2>1 DEF SeedHeld
  <2>4. Reported[n] = IF n \in paid THEN 0 ELSE truth[n]
    BY DEF Reported
  <2>5. realised[n] = 0 => pos'[n] = truth[n]
    BY <1>e, <1>t, <2>2, <2>3, <2>4
  <2> QED
    BY <1>e, <2>2, <2>3, <2>5 DEF Resting
<1>6. CASE CancelStale
  BY <1>6, <1>e DEF CancelStale, Resting
<1>7. CASE Discover
  <2>1. pos'[n] = pos[n] \/ ~(CloseAt(n) <= now)
    BY <1>7, <1>t DEF Discover, Joinable, TooLate
  <2> QED
    BY <1>7, <1>e, <2>1 DEF Discover, Resting
<1>8. CASE ListSeries \/ SpotJump \/ ReleasePull
  BY <1>8, <1>e DEF ListSeries, SpotJump, ReleasePull, Resting
<1>9. CASE \E k \in Windows : BookTop(k) \/ CycleBlind(k) \/ CycleWithdraw(k) \/ CycleKeep(k)
  BY <1>9, <1>e DEF BookTop, CycleBlind, CycleWithdraw, CycleKeep, Resting
<1>10. CASE \E k \in Windows : CallStep(k)
  <2>1. PICK k \in Windows : CallStep(k)
    BY <1>10
  <2>2. Elsewhere(k) /\ CallOutcome(k)
    BY <2>1, CallEffect
  <2>3. UNCHANGED <<now, since, truth, final, paid, wire, boot, already, pos, fetched, asking, realised>>
    BY <2>1, CallFrame
  <2>4. CloseAt(n) <= now /\ order[n] = NoOrder => order'[n] = NoOrder
    BY <1>t, <2>2 DEF Elsewhere, CallOutcome
  <2>5. order[n] = NoOrder => stale'[n] \subseteq stale[n]
    BY <2>2 DEF Elsewhere, CallOutcome
  <2>6. boot = "up" \/ order[n] = NoOrder
    BY DEF Dormant, OnlyWorkers, Resting
  <2> QED
    BY <1>e, <2>3, <2>4, <2>5, <2>6 DEF Resting
<1>12. CASE \E k \in Windows : FillMessage(k)
  <2>1. PICK k \in Windows : FillMessage(k)
    BY <1>12
  <2>2. ~(CloseAt(k) <= now)
    BY <2>1 DEF FillMessage, Ended
  <2>3. k # n => pos'[n] = pos[n] /\ wire'[n] = wire[n]
    BY <2>1 DEF FillMessage, Contracts, Papers
  <2> QED
    BY <1>e, <2>1, <2>2, <2>3 DEF FillMessage, Resting
<1>13. CASE PullLoop
  <2>1. order[n] = NoOrder => order'[n] = NoOrder
    BY <1>13 DEF PullLoop, Retire, Remove, Stopped, Papers
  <2> QED
    BY <1>13, <1>e, <2>1 DEF PullLoop, Retire, Remove, Stopped, Resting
<1>14. CASE \E k \in Windows : AskStatus(k) \/ StatusUseless(k)
  BY <1>14, <1>e DEF AskStatus, StatusUseless, Pending, Resting
<1>15. CASE \E k \in Windows : Settle(k)
  <2>1. PICK k \in Windows : Settle(k)
    BY <1>15
  <2>2. k # n => pos'[n] = pos[n] /\ realised'[n] = realised[n]
    BY <2>1 DEF Settle, Contracts, Clocks
  <2>3. k = n => IF pos[n] # 0 THEN realised'[n] > 0
                 ELSE pos'[n] = pos[n] /\ realised'[n] = realised[n]
    BY <1>t, <2>1 DEF Settle, Contracts, Clocks
  <2>4. asking' = {} /\ (realised[n] > 0 => realised'[n] > 0)
    BY <1>t, <2>1, <2>2, <2>3 DEF Settle, Clocks
  <2> QED
    BY <1>e, <1>t, <2>1, <2>2, <2>3, <2>4 DEF Settle, Resting
<1>16. CASE FetchPositions
  <2>1. Reported[n] = IF n \in paid THEN 0 ELSE truth[n]
    BY DEF Reported
  <2>2. fetched'[1] = Reported
    BY <1>16 DEF FetchPositions
  <2>3. stale'[n] \subseteq stale[n]
    BY <1>16 DEF FetchPositions
  <2> QED
    BY <1>16, <1>e, <1>t, <2>1, <2>2, <2>3 DEF FetchPositions, Resting
<1>17. CASE AdoptPositions
  <2>1. fetched # <<>> /\ fetched' = <<>> /\ pos'[n] = fetched[1][n]
    BY <1>17 DEF AdoptPositions
  <2> QED
    BY <1>17, <1>e, <1>t, <2>1 DEF AdoptPositions, Resting
<1>18. CASE UNCHANGED vars
  BY <1>18, <1>e DEF Resting
<1> QED
  BY <1>1, <1>2, <1>3, <1>4, <1>5, <1>6, <1>7, <1>8, <1>9, <1>10, <1>12, <1>13, <1>14, <1>15,
     <1>16, <1>17, <1>18
  DEF Next, Exchange, Start, Worker, CallStep, Loops, SettlementPoll, Reconcile

LEMMA FrozenKept ==
  ASSUME TypeOK, Dormant, Roster, OnlyWorkers, Ended, FrozenIsFlat, [Next]_vars
  PROVE  FrozenIsFlat'
<1> USE TypeParts
<1> SUFFICES ASSUME NEW n \in settled', realised'[n] = 0
             PROVE  truth'[n] = 0
  BY DEF FrozenIsFlat
<1>t. /\ now \in Nat /\ since \in 0 .. ReconcileEvery /\ ReconcileEvery \in Nat
      /\ \A k \in Windows : CloseAt(k) \in Int /\ realised[k] \in Nat
  BY Horizons, Times DEF Clocks
<1>1. CASE \E k \in Windows : Fill(k) \/ FillStale(k)
  <2>1. PICK k \in Windows : Fill(k) \/ FillStale(k)
    BY <1>1
  <2>2. k \notin settled
    BY <1>t, <2>1 DEF Fill, FillStale, OnlyWorkers, Ended, Roster
  <2>3. \A m \in Windows \ {k} : truth'[m] = truth[m]
    BY <2>1 DEF Fill, FillStale, Traded, Contracts
  <2>4. settled' = settled /\ realised' = realised
    BY <2>1 DEF Fill, FillStale
  <2> QED
    BY <2>2, <2>3, <2>4 DEF FrozenIsFlat, Sets
<1>2. CASE \E k \in Windows : Remove(k)
  <2>1. PICK k \in Windows : Remove(k)
    BY <1>2
  <2>2. /\ k \in workers /\ pos[k] = 0 /\ RemoveAt(k) <= now
        /\ settled' = settled \cup ({k} \cap known)
        /\ truth' = truth /\ realised' = realised
    BY <2>1 DEF Remove, Removable, Sets
  <2>3. boot = "up"
    BY <2>2 DEF Dormant
  <2>4. CloseAt(k) <= now - since /\ CloseAt(k) <= now
    <3>1. RemoveAt(k) = CloseAt(k) + Grace /\ Grace \in Nat /\ ReconcileEvery < Grace
      BY WindowAssumption DEF RemoveAt
    <3> HIDE DEF CloseAt
    <3> QED
      BY <1>t, <2>2, <3>1
  <2>5. realised[k] = 0 => truth[k] = 0
    BY <2>2, <2>3, <2>4 DEF Ended
  <2> QED
    BY <2>2, <2>5 DEF FrozenIsFlat
<1>3. CASE \E k \in Windows : Settle(k)
  <2>1. PICK k \in Windows : Settle(k)
    BY <1>3
  <2>2. CloseAt(k) <= now /\ k \in asking
    BY <2>1 DEF Settle, Roster
  <2>3. /\ settled' = settled \cup {k} /\ truth' = truth
        /\ \A m \in Windows \ {k} : realised'[m] = realised[m]
        /\ realised'[k] = IF pos[k] # 0 THEN realised[k] + 1 ELSE realised[k]
    BY <2>1 DEF Settle, Clocks
  <2>4. realised'[k] = 0 => truth[k] = 0
    BY <1>t, <2>2, <2>3 DEF Ended
  <2> QED
    BY <2>3, <2>4 DEF FrozenIsFlat, Sets
<1>4. CASE UNCHANGED <<settled, realised, truth>>
  BY <1>4 DEF FrozenIsFlat
<1> QED
  BY CallFrame, <1>1, <1>2, <1>3, <1>4
  DEF Next, Exchange, Start, Worker, CallStep, Loops, PullLoop, SettlementPoll, Reconcile, Tick,
     BookEmpties, BookBack, Finalize, Payout, SeedHeld, CancelStale, Discover,
     ListSeries, BookTop, CycleBlind, CycleWithdraw, CycleKeep, FillMessage, SpotJump, ReleasePull,
     Retire, Stopped, AskStatus, StatusUseless, FetchPositions, AdoptPositions

-----------------------------------------------------------------------------
(* The theorems *)

WindowInv ==
  /\ TypeOK /\ Dormant /\ Roster /\ Untouched /\ BookedOnce /\ Settlement /\ RealisedOnce
  /\ OnlyWorkers /\ Withdrawing /\ QuietAverage /\ SentBeforePull

LEMMA InitEstablished == Init => WindowInv /\ Ended /\ FrozenIsFlat
<1> SUFFICES ASSUME Init PROVE WindowInv /\ Ended /\ FrozenIsFlat
  OBVIOUS
<1>1. TypeOK
  BY InitTyped
<1>2. Dormant /\ Withdrawing /\ FrozenIsFlat
  BY DEF Init, Dormant, Withdrawing, FrozenIsFlat
<1>3. Roster
  BY FirstWindow DEF Init, Roster
<1>4. Untouched
  BY DEF Init, Untouched
<1>5. BookedOnce
  BY DEF Init, BookedOnce
<1>6. Settlement /\ RealisedOnce
  <2>1. /\ already \subseteq {n \in {0} : CloseAt(n) <= now /\ truth[n] # 0}
        /\ inherited = {n \in Windows : truth[n] # 0 \/ stale[n] # {}}
        /\ realised = [n \in Windows |-> IF n \in already THEN 1 ELSE 0]
        /\ asking = {}
    BY DEF Init
  <2>2. \A n \in Windows \ inherited : n \notin already
    BY <2>1
  <2>3. \A n \in Windows \ inherited : realised[n] = 0
    BY <2>1, <2>2
  <2> QED
    BY <2>1, <2>3 DEF Settlement, RealisedOnce
<1>7. OnlyWorkers /\ QuietAverage
  <2>1. /\ order = [n \in Windows |-> NoOrder] /\ call = [n \in Windows |-> "none"]
        /\ workers = {}
    BY DEF Init
  <2> QED
    BY <2>1, SendingCalls DEF OnlyWorkers, QuietAverage, Undisturbed, Resting
<1>8. Ended
  <2>1. \A n \in Windows : PullAt(n) \in Int /\ CloseAt(n) \in Int /\ PullAt(n) <= CloseAt(n)
    BY Times
  <2>2. now \in Nat /\ since = 0
    BY Horizons DEF Init
  <2> QED
    BY <2>1, <2>2 DEF Init, Ended, Resting
<1>9. SentBeforePull
  <2>1. \A n \in Windows : PullAt(n) \in Int
    BY Times
  <2>2. now \in Int /\ Ttl \in Int /\ \A dir \in Dirs : Stray(Order(dir, now + Ttl)[1], 0).until = now + Ttl
    BY Horizons DEF Init, Order, Stray
  <2>3. order = [n \in Windows |-> NoOrder]
    BY DEF Init
  <2>4. ASSUME NEW n \in Windows, NEW o \in stale[n]
        PROVE  o.until = now + Ttl /\ now < PullAt(n)
    <3>1. /\ stale[n] \in {{}} \cup {{Stray(Order(dir, now + Ttl)[1], 0)} : dir \in Dirs}
          /\ now < PullAt(n)
      BY <2>4 DEF Init
    <3> QED
      BY <2>2, <2>4, <3>1
  <2> HIDE DEF PullAt
  <2> QED
    BY <2>1, <2>2, <2>3, <2>4 DEF SentBeforePull, Resting
<1> QED
  BY <1>1, <1>2, <1>3, <1>4, <1>5, <1>6, <1>7, <1>8, <1>9 DEF WindowInv

LEMMA InvStep == WindowInv /\ [Next]_vars => WindowInv'
BY TypesStep, DormantKept, RosterKept, UntouchedKept, BookedKept, SettlementKept, OnlyWorkersKept,
   WithdrawingKept, QuietKept, SentKept DEF WindowInv

LEMMA WindowInvariant == Spec => []WindowInv
BY InitEstablished, InvStep, PTL DEF Spec

\* A window this session found untouched has one basis per contract.
THEOREM ContractsBookedOnce == Spec => []BookedOnce
<1>1. WindowInv => BookedOnce
  BY DEF WindowInv
<1> QED
  BY <1>1, WindowInvariant, PTL

\* A window this session found untouched is realised once at most.
THEOREM PositionsRealisedOnce == Spec => []RealisedOnce
<1>1. WindowInv => RealisedOnce
  BY DEF WindowInv
<1> QED
  BY <1>1, WindowInvariant, PTL

\* No order of this session rests in the settlement average of an undisturbed window: one
\* whose book kept a mid, in which no cancel failed, no create's outcome was unknown and no
\* call took longer than a tick.
THEOREM AverageIsQuiet == Spec => []QuietAverage
<1>1. WindowInv => QuietAverage
  BY DEF WindowInv
<1> QED
  BY <1>1, WindowInvariant, PTL

\* In an undisturbed window, a worker that may not quote has no order when a tick is over,
\* whatever it was awaiting.
THEOREM PullsAreObeyed == Spec => PullsTakeEffect
<1>1. WindowInv /\ [Next]_vars =>
        [now' # now => \A n \in workers \cap Undisturbed' : MayQuote(n) \/ ~Resting(n)]_vars
  BY PullsObeyed DEF WindowInv
<1> QED
  BY <1>1, WindowInvariant, PTL DEF Spec, PullsTakeEffect

\* Failed cancels, creates in doubt and one-sided books included: nothing is sent after the
\* pull, tracked or not, but behind a slow call.
THEOREM NothingSentLate == Spec => []SentBeforePull
<1>1. WindowInv => SentBeforePull
  BY DEF WindowInv
<1> QED
  BY <1>1, WindowInvariant, PTL

\* What was settled or removed is not joined again.
THEOREM SettledStaysOut == Spec => NeverRejoined
<1>1. WindowInv /\ [Next]_vars => [\A n \in workers' \ workers : n \notin settled]_vars
  BY JoinsFresh DEF WindowInv
<1> QED
  BY <1>1, WindowInvariant, PTL DEF Spec, NeverRejoined

\* What pull_loop or settlement_poll freezes unrealised is flat at the exchange too, when
\* Kalshi reports a position until the bot has realised it.
THEOREM FrozenWindowsFlat ==
  ASSUME PayoutWaits
  PROVE  Spec => []FrozenIsFlat
<1> DEFINE I == WindowInv /\ Ended /\ FrozenIsFlat
<1>1. Init => I
  BY InitEstablished
<1>2. I /\ [Next]_vars => I'
  BY InvStep, EndedKept, FrozenKept DEF WindowInv
<1>3. I => FrozenIsFlat
  OBVIOUS
<1> HIDE DEF I
<1> QED
  BY <1>1, <1>2, <1>3, PTL DEF Spec
=============================================================================
