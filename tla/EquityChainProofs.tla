-------------------------- MODULE EquityChainProofs --------------------------
(***************************************************************************)
(* Theorems of EquityChain, for every price, threshold and bound:          *)
(* EquityTypesKept; when halt-clear runs alone, a reference only           *)
(* halt-clear lowers and a halt that is the account's own loss; and        *)
(* EquityExact, the equity exact over any number of sessions, restarts,    *)
(* fills, price moves, a settlement and its payout, however halt-clear     *)
(* interferes, provided every mid the bot acts on is in the mids table,    *)
(* a payout waits for the bot and nothing crashes.                         *)
(***************************************************************************)
EXTENDS EquityChain, TLAPS

MarketStates ==
  [position : Int, cash : Int, lastMid : MaybeMid, unvalued : Int,
   settled : BOOLEAN]

-----------------------------------------------------------------------------
(* Types *)

LEMMA MidInt ==
  /\ Mid \subseteq Int /\ Prices \subseteq Mid /\ 0 \in Mid /\ Dollar \in Mid
  /\ None \in MaybeMid /\ None \notin Mid /\ MaybeMid \ {None} = Mid
<1>1. Prices \subseteq Int /\ Dollar \in Int
  BY MoneyAssumption
<1>2. Mid \subseteq Int
  BY <1>1 DEF Mid
<1>3. None \notin Mid
  BY <1>2, MoneyAssumption
<1> QED
  BY <1>2, <1>3 DEF Mid, MaybeMid

LEMMA FreshType == FreshMarket \in MarketStates
BY MidInt DEF FreshMarket, MarketStates

LEMMA SeededType ==
  ASSUME NEW q \in Int, NEW mid \in MaybeMid
  PROVE  Seeded(q, mid) \in MarketStates
<1>1. CASE mid = None
  BY <1>1, MidInt DEF Seeded, FreshMarket, MarketStates
<1>2. CASE mid # None
  <2> DEFINE cost == -q * mid
  <2>1. mid \in Int
    BY <1>2, MidInt
  <2>2. cost \in Int
    BY <2>1
  <2>3. Seeded(q, mid) = [position |-> q, cash |-> cost, lastMid |-> mid,
                          unvalued |-> 0, settled |-> FALSE]
    BY <1>2 DEF Seeded, FreshMarket
  <2> HIDE DEF cost
  <2> QED
    BY <2>2, <2>3 DEF MarketStates
<1> QED
  BY <1>1, <1>2

LEMMA FilledType ==
  ASSUME NEW s \in MarketStates, NEW n \in Int, NEW price \in Int
  PROVE  Filled(s, n, price) \in MarketStates
<1> DEFINE position == s.position + n
           cash == s.cash - n * price
<1>1. position \in Int /\ cash \in Int
  BY DEF MarketStates
<1>2. Filled(s, n, price) = [s EXCEPT !.position = position, !.cash = cash]
  BY DEF Filled
<1> HIDE DEF position, cash
<1> QED
  BY <1>1, <1>2 DEF MarketStates

LEMMA MarkedType ==
  ASSUME NEW s \in MarketStates, NEW mid \in Mid
  PROVE  Marked(s, mid) \in MarketStates
<1> DEFINE cash == s.cash - s.unvalued * mid
<1>1. cash \in Int /\ s.position \in Int /\ s.settled \in BOOLEAN
  BY MidInt DEF MarketStates
<1>2. Marked(s, mid) = [position |-> s.position, cash |-> cash, lastMid |-> mid,
                        unvalued |-> 0, settled |-> s.settled]
  BY DEF Marked
<1>3. mid \in MaybeMid
  BY MidInt
<1> HIDE DEF cash
<1> QED
  BY <1>1, <1>2, <1>3 DEF MarketStates

LEMMA SettledType ==
  ASSUME NEW s \in MarketStates, NEW price \in Mid
  PROVE  Settled(s, price) \in MarketStates
<1> DEFINE cost == (s.position - s.unvalued) * price
<1>1. cost \in Int /\ s.cash \in Int
  BY MidInt DEF MarketStates
<1>2. Settled(s, price) = [position |-> 0, cash |-> s.cash + cost, lastMid |-> price,
                           unvalued |-> 0, settled |-> TRUE]
  BY DEF Settled
<1>3. price \in MaybeMid
  BY MidInt
<1> HIDE DEF cost
<1> QED
  BY <1>1, <1>2, <1>3 DEF MarketStates

\* The typed variables but for the history, which Observe computes from the rest.
StateOK ==
  /\ status \in {"open", "final"} /\ mark \in Mid /\ held \in Int /\ paid \in Int
  /\ proc \in {"down", "loaded", "starting"} \cup Running
  /\ loop \in {"idle", "pnl", "high", "halting", "done", "close"} /\ polling \in BOOLEAN
  /\ ms \in MarketStates
  /\ offset \in Int /\ highWater \in Int /\ newHigh \in BOOLEAN /\ top \in BOOLEAN
  /\ halted \in BOOLEAN
  /\ queued \in MaybeMid /\ logged \in MaybeMid
  /\ kvPnl \in Int /\ kvHigh \in Int \cup {None} /\ kvSettled \in BOOLEAN
  /\ haltFile \in BOOLEAN /\ clear \in {"none", "read", "write"} /\ clearCum \in Int

\* The value of a market's state: Pnl is ValueOf(ms).
PriceOf(s) == IF s.lastMid = None THEN Dollar \div 2 ELSE s.lastMid
ValueOf(s) == s.cash + (s.position - s.unvalued) * PriceOf(s)

LEMMA ValueInt == ASSUME NEW s \in MarketStates PROVE ValueOf(s) \in Int
<1>1. PriceOf(s) \in Int
  <2>1. s.lastMid \in MaybeMid
    BY DEF MarketStates
  <2>2. Dollar \div 2 \in Int
    BY MoneyAssumption
  <2> QED
    BY <2>1, <2>2, MidInt DEF PriceOf
<1>2. s.cash \in Int /\ s.position \in Int /\ s.unvalued \in Int
  BY DEF MarketStates
<1>3. (s.position - s.unvalued) * PriceOf(s) \in Int
  BY <1>1, <1>2
<1> QED
  BY <1>2, <1>3 DEF ValueOf

LEMMA CumulativeValue ==
  /\ Cumulative = offset + ValueOf(ms) /\ Cumulative' = offset' + ValueOf(ms')
BY DEF Cumulative, Pnl, ValueOf, PriceOf

LEMMA CumulativeInt == StateOK => Cumulative \in Int
BY CumulativeValue, ValueInt DEF StateOK

LEMMA CumulativeIntNext == StateOK' => Cumulative' \in Int
<1> SUFFICES ASSUME StateOK' PROVE Cumulative' \in Int
  OBVIOUS
<1>1. ms' \in MarketStates /\ offset' \in Int
  BY DEF StateOK
<1>2. \A s \in MarketStates : ValueOf(s) \in Int
  BY ValueInt
<1> QED
  BY <1>1, <1>2, CumulativeValue

LEMMA TypeParts == TypeOK <=> StateOK /\ peak \in Int /\ used \in [Bounds -> Nat]
BY DEF TypeOK, StateOK, MarketStates

LEMMA TypeInit == Init => TypeOK
<1> SUFFICES ASSUME Init PROVE TypeOK
  OBVIOUS
<1>1. StateOK
  BY MidInt, FreshType DEF Init, StateOK, MarketStates
<1>2. used \in [Bounds -> Nat]
  BY DEF Init
<1> QED
  BY <1>1, <1>2, TypeParts DEF Init

LEMMA StateNext == TypeOK /\ [Next]_vars => StateOK'
<1> SUFFICES ASSUME StateOK, [Next]_vars PROVE StateOK'
  BY TypeParts
<1> USE DEF truth, memory, chain, kv, disk, clr
<1>0. Cumulative \in Int
  BY CumulativeInt
<1>1. ASSUME NEW price \in Prices, Move(price) PROVE StateOK'
  BY <1>1, MidInt DEF Move, StateOK
<1>2. ASSUME NEW value \in {0, Dollar}, Finalize(value) PROVE StateOK'
  BY <1>2, MidInt DEF Finalize, StateOK
<1>3. CASE PayOut
  <2>1. held * mark \in Int /\ paid \in Int
    BY MidInt DEF StateOK
  <2>2. paid' \in Int /\ held' \in Int
    BY <1>3, <2>1 DEF PayOut
  <2> QED
    BY <1>3, <2>2 DEF PayOut, StateOK
<1>4. CASE Load
  BY <1>4 DEF Load, LoadedHigh, StateOK
<1>5. ASSUME GoDown, UNCHANGED <<status, mark, held, paid, kvPnl, kvHigh, kvSettled,
                                haltFile, clear, clearCum>>,
             logged' \in MaybeMid
      PROVE  StateOK'
  BY <1>5, FreshType, MidInt DEF GoDown, StateOK
<1>6. CASE CheckMarker
  <2>1. CASE haltFile
    BY <1>5, <1>6, <2>1 DEF CheckMarker, StateOK
  <2>2. CASE ~haltFile
    BY <1>6, <2>2 DEF CheckMarker, StateOK
  <2> QED
    BY <2>1, <2>2
<1>7. ASSUME NEW selected \in BOOLEAN, Seed(selected) PROVE StateOK'
  <2>1. SeedMid(selected) \in MaybeMid /\ held \in Int /\ mark \in MaybeMid
    BY MidInt DEF SeedMid, StateOK
  <2>2. ms' \in MarketStates
    BY <1>7, <2>1, FreshType, SeededType DEF Seed
  <2> QED
    BY <1>7, <2>2 DEF Seed, StateOK, Running
<1>8. CASE StartFails
  BY <1>8 DEF StartFails, StateOK, Running
<1>9. ASSUME NEW log \in BOOLEAN, OnMid(log) PROVE StateOK'
  <2>1. ms' \in MarketStates
    BY <1>9, MarkedType DEF OnMid, StateOK
  <2>2. queued' \in MaybeMid
    BY <1>9, MidInt DEF OnMid, StateOK
  <2> QED
    BY <1>9, <2>1, <2>2 DEF OnMid, StateOK
<1>10. ASSUME NEW n \in {-1, 1}, NEW price \in Prices, Fill(n, price) PROVE StateOK'
  <2>1. n \in Int /\ price \in Int /\ held \in Int /\ paid \in Int
    BY MidInt DEF StateOK
  <2>2. n * price \in Int
    BY <2>1
  <2>3. held' \in Int /\ paid' \in Int
    BY <1>10, <2>1, <2>2 DEF Fill
  <2>4. ms' \in MarketStates
    BY <1>10, <2>1, FilledType DEF Fill, StateOK
  <2> QED
    BY <1>10, <2>3, <2>4 DEF Fill, StateOK
<1>11. CASE Flush
  BY <1>11, MidInt DEF Flush, StateOK
<1>12. ASSUME RaiseHighWater PROVE highWater' \in Int /\ newHigh' \in BOOLEAN
  BY <1>0, <1>12 DEF RaiseHighWater, StateOK
<1>13. ASSUME NEW skipped \in BOOLEAN, MarksTick(skipped) PROVE StateOK'
  <2>1. queued' \in MaybeMid
    BY <1>13 DEF MarksTick, StateOK, MarketStates
  <2> QED
    BY <1>12, <1>13, <2>1 DEF MarksTick, StateOK
<1>14. CASE PollAsk
  BY <1>14 DEF PollAsk, StateOK
<1>15. CASE PollAnswer
  <2>1. ms' \in MarketStates /\ kvSettled' \in BOOLEAN
    BY <1>15, SettledType DEF PollAnswer, StateOK
  <2>2. polling' \in BOOLEAN
    BY <1>15 DEF PollAnswer
  <2>3. UNCHANGED <<truth, proc, loop, chain, top, halted, queued, kvPnl, kvHigh, logged,
                    haltFile, clear, clearCum>>
    BY <1>15 DEF PollAnswer
  <2> QED
    BY <2>1, <2>2, <2>3 DEF StateOK
<1>16. ASSUME NEW high, CheckDrawdown(high)
       PROVE  halted' \in BOOLEAN /\ haltFile' \in BOOLEAN
              /\ loop' \in {"idle", "done", "halting"}
  BY <1>16 DEF CheckDrawdown, Rest, StateOK
<1>17. ASSUME NEW due \in BOOLEAN, RiskTick(due) PROVE StateOK'
  <2>1. /\ halted' \in BOOLEAN /\ haltFile' \in BOOLEAN
        /\ loop' \in {"idle", "done", "halting", "pnl"}
    BY <1>16, <1>17 DEF RiskTick, StateOK
  <2> QED
    BY <1>12, <1>17, <2>1 DEF RiskTick, StateOK
<1>18. CASE WritePnl
  BY <1>0, <1>18 DEF WritePnl, StateOK
<1>19. CASE WriteHigh
  <2>1. /\ halted' \in BOOLEAN /\ haltFile' \in BOOLEAN
        /\ loop' \in {"idle", "done", "halting", "close"}
    BY <1>16, <1>19 DEF WriteHigh, StateOK
  <2> QED
    BY <1>19, <2>1 DEF WriteHigh, StateOK
<1>20. CASE HaltDone \/ Stop \/ CancelTasks
  BY <1>20 DEF HaltDone, Stop, CancelTasks, StateOK, Running
<1>21. CASE Close
  BY <1>5, <1>21 DEF Close, StateOK
<1>22. CASE Crash
  BY <1>5, <1>22 DEF Crash, StateOK
<1>23. CASE HaltClear
  BY <1>23 DEF HaltClear, ClearUnlink, ClearRead, ClearRebase, Acknowledged, StateOK
<1>24. CASE UNCHANGED vars
  BY <1>24 DEF vars, StateOK
<1> QED
  BY <1>1, <1>2, <1>3, <1>4, <1>6, <1>7, <1>8, <1>9, <1>10, <1>11, <1>13, <1>14, <1>15,
     <1>17, <1>18, <1>19, <1>20, <1>21, <1>22, <1>23, <1>24
  DEF Next, Market, Process

\* Who moves the history, and how
LEMMA PeakNext ==
  ASSUME Next
  PROVE  Observe \/ peak' = peak \/ (ClearRebase /\ peak' \in {clearCum, Cumulative})
<1> USE DEF clr
<1> QED
  BY DEF Next, Market, Process, HaltClear, Move, Finalize, PayOut, Load, CheckMarker, Seed,
         StartFails, OnMid, Fill, Flush, MarksTick, PollAsk, PollAnswer, RiskTick, WritePnl,
         WriteHigh, HaltDone, Stop, CancelTasks, Close, Crash, ClearUnlink, ClearRead,
         ClearRebase

LEMMA TypeNext == TypeOK /\ [Next]_vars => TypeOK'
<1> SUFFICES ASSUME TypeOK, [Next]_vars PROVE TypeOK'
  OBVIOUS
<1>1. StateOK' /\ Cumulative' \in Int
  BY StateNext, CumulativeIntNext
<1>2. peak \in Int /\ clearCum \in Int /\ Cumulative \in Int
  BY TypeParts, CumulativeInt DEF TypeOK
<1>3. peak' \in Int
  <2>1. CASE Next
    BY <1>1, <1>2, <2>1, PeakNext DEF Observe
  <2>2. CASE UNCHANGED vars
    BY <1>2, <2>2 DEF vars, clr
  <2> QED
    BY <2>1, <2>2
<1>4. used' \in [Bounds -> Nat]
  <2>1. used \in [Bounds -> Nat]
    BY DEF TypeOK
  <2>2. \A bound : \A what \in Bounds : Spend(what, bound) => used' \in [Bounds -> Nat]
    BY <2>1 DEF Spend
  <2>3. used' = used \/ \E bound : \E what \in Bounds : Spend(what, bound)
    BY DEF Next, Market, Process, HaltClear, Move, Finalize, PayOut, Load, CheckMarker, Seed,
       StartFails, OnMid, Fill, Flush, MarksTick, PollAsk, PollAnswer, RiskTick, WritePnl,
       WriteHigh, HaltDone, Stop, CancelTasks, Close, Crash, ClearUnlink, ClearRead,
       ClearRebase, Bounds, vars
  <2> QED
    BY <2>1, <2>2, <2>3
<1> QED
  BY <1>1, <1>3, <1>4 DEF TypeOK, StateOK, MarketStates

\* Every variable keeps its type.
THEOREM EquityTypesKept == Spec => []TypeOK
BY TypeInit, TypeNext, PTL DEF Spec

-----------------------------------------------------------------------------
(* The kill switch's reference *)

\* halt-clear runs alone.
ClearAlone ==
  /\ clear # "none" => proc = "down"
  /\ clear = "write" => clearCum = kvPnl

\* Nothing the process or the disk holds is above the history's peak, and a
\* session's high-water mark is never below the one on disk.
PeakCovers ==
  /\ kvPnl <= peak
  /\ kvHigh # None => kvHigh <= peak
  /\ proc # "down" => /\ Cumulative <= peak /\ highWater <= peak
                      /\ kvHigh # None => kvHigh <= highWater

\* The risk loop and the final persist belong to a session.
LoopAsleep == proc \in {"down", "loaded", "starting"} => loop = "idle"

ReferenceInv == TypeOK /\ LoopAsleep /\ ClearAlone /\ PeakCovers

LEMMA ReferenceInit == Init => ReferenceInv
BY TypeInit DEF Init, ReferenceInv, LoopAsleep, ClearAlone, PeakCovers

LEMMA LoopAsleepNext == TypeOK /\ LoopAsleep /\ [Next]_vars => LoopAsleep'
<1> SUFFICES ASSUME TypeOK, LoopAsleep, [Next]_vars PROVE LoopAsleep'
  OBVIOUS
<1> USE DEF LoopAsleep, Scheduled, Running, TypeOK
<1>1. CASE Market \/ HaltClear
  BY <1>1 DEF Market, HaltClear, Move, Finalize, PayOut, ClearUnlink, ClearRead, ClearRebase
<1>2. CASE Load \/ CheckMarker \/ StartFails \/ Close \/ Crash
  BY <1>2 DEF Load, CheckMarker, StartFails, Close, Crash, GoDown
<1>3. ASSUME NEW b \in BOOLEAN, Seed(b) \/ OnMid(b) \/ MarksTick(b) \/ RiskTick(b)
      PROVE  LoopAsleep'
  BY <1>3 DEF Seed, OnMid, MarksTick, RiskTick
<1>4. CASE \E n \in {-1, 1}, price \in Prices : Fill(n, price)
  BY <1>4 DEF Fill
<1>5. CASE Flush \/ PollAsk \/ PollAnswer
  BY <1>5 DEF Flush, PollAsk, PollAnswer
<1>6. CASE WritePnl \/ WriteHigh \/ HaltDone \/ Stop \/ CancelTasks
  BY <1>6 DEF WritePnl, WriteHigh, HaltDone, Stop, CancelTasks
<1>7. CASE UNCHANGED vars
  BY <1>7 DEF vars
<1> QED
  BY <1>1, <1>2, <1>3, <1>4, <1>5, <1>6, <1>7 DEF Next, Process

LEMMA ClearAloneNext ==
  ASSUME ~ClearWhileRunning, ReferenceInv, [Next]_vars
  PROVE  ClearAlone'
<1> USE DEF ReferenceInv, LoopAsleep, ClearAlone, truth, memory, chain, kv, disk, clr
<1>1. CASE Market
  BY <1>1 DEF Market, Move, Finalize, PayOut
<1>2. CASE Process
  <2>1. CASE Load
    BY <2>1 DEF Load
  <2>2. CASE CheckMarker \/ Close \/ Crash
    BY <2>2 DEF CheckMarker, Close, Crash, GoDown
  <2>3. CASE ~(Load \/ CheckMarker \/ Close \/ Crash)
    <3>1. proc # "down" /\ clear' = clear
      BY <1>2, <2>3 DEF Process, StartFails, Seed, OnMid, Fill, Flush, MarksTick, PollAsk,
         PollAnswer, RiskTick, WritePnl, WriteHigh, HaltDone, Stop, CancelTasks, Scheduled,
         TypeOK
    <3> QED
      BY <3>1
  <2> QED
    BY <2>1, <2>2, <2>3
<1>3. CASE HaltClear
  BY <1>3 DEF HaltClear, ClearUnlink, ClearRead, ClearRebase
<1>4. CASE UNCHANGED vars
  BY <1>4 DEF vars
<1> QED
  BY <1>1, <1>2, <1>3, <1>4 DEF Next

\* A step that leaves the books, the chain and the disk's reference alone
LEMMA QuietKeeps ==
  ASSUME PeakCovers, UNCHANGED <<offset, ms, highWater, kvPnl, kvHigh, peak>>,
         proc # "down" \/ proc' = "down"
  PROVE  PeakCovers'
<1>1. Cumulative' = Cumulative
  BY CumulativeValue
<1> QED
  BY <1>1 DEF PeakCovers

\* A step of a session that changes the books and observes the equity
LEMMA BooksKeep ==
  ASSUME TypeOK, TypeOK', PeakCovers, UNCHANGED <<highWater, kvPnl, kvHigh>>,
         proc # "down", Observe
  PROVE  PeakCovers'
<1>1. Cumulative' \in Int /\ peak \in Int /\ kvPnl \in Int /\ highWater \in Int
      /\ (kvHigh # None => kvHigh \in Int)
  <2>1. StateOK'
    BY DEF TypeOK, StateOK, MarketStates
  <2>2. Cumulative' \in Int
    BY <2>1, CumulativeIntNext
  <2> QED
    BY <2>2 DEF TypeOK
<1>2. Cumulative' <= peak' /\ peak <= peak' /\ peak' \in Int
  BY <1>1 DEF Observe
<1>3. kvPnl <= peak' /\ highWater <= peak' /\ (kvHigh # None => kvHigh <= peak')
  BY <1>1, <1>2 DEF PeakCovers
<1> QED
  BY <1>2, <1>3 DEF PeakCovers

LEMMA PeakCoversNext ==
  ASSUME ~ClearWhileRunning, ReferenceInv, TypeOK', [Next]_vars
  PROVE  PeakCovers'
<1> USE DEF ReferenceInv, truth, memory, chain, kv, disk, clr
<1>1. /\ Cumulative \in Int /\ peak \in Int /\ kvPnl \in Int /\ highWater \in Int
      /\ kvHigh # None => kvHigh \in Int
  BY CumulativeInt, TypeParts DEF TypeOK
<1>2. CASE Market
  BY <1>2, QuietKeeps DEF Market, Move, Finalize, PayOut
<1>3. CASE StartFails \/ Flush \/ PollAsk \/ HaltDone \/ Stop \/ CancelTasks
  BY <1>3, QuietKeeps
  DEF StartFails, Flush, PollAsk, HaltDone, Stop, CancelTasks, Scheduled
<1>4. ASSUME proc' = "down", UNCHANGED <<kvPnl, kvHigh, peak>> PROVE PeakCovers'
  BY <1>4 DEF PeakCovers
<1>5. CASE CheckMarker \/ Close \/ Crash
  BY <1>4, <1>5, QuietKeeps DEF CheckMarker, Close, Crash, GoDown
<1>6. CASE Load
  <2>1. highWater' \in {kvPnl, kvHigh} /\ (kvHigh # None => highWater' = kvHigh)
    BY <1>6 DEF Load, LoadedHigh
  <2>2. Cumulative' <= peak' /\ peak <= peak' /\ peak' \in Int
    BY <1>1, <1>6, CumulativeIntNext, TypeParts DEF Load, Observe
  <2>3. highWater' \in Int /\ highWater' <= peak
    BY <1>1, <1>6, <2>1 DEF PeakCovers, Load, LoadedHigh
  <2> QED
    BY <1>1, <1>6, <2>1, <2>2, <2>3 DEF PeakCovers, Load
<1>7. CASE \E b \in BOOLEAN : Seed(b) \/ OnMid(b)
  BY <1>7, BooksKeep DEF Seed, OnMid, Scheduled
<1>8. CASE (\E n \in {-1, 1}, price \in Prices : Fill(n, price)) \/ PollAnswer
  BY <1>8, BooksKeep DEF Fill, PollAnswer, Scheduled
<1>9. ASSUME RaiseHighWater, UNCHANGED <<offset, ms, kvPnl, kvHigh, peak>>, proc # "down"
      PROVE  PeakCovers'
  <2>1. Cumulative' = Cumulative
    BY <1>9, CumulativeValue
  <2>2. highWater' \in {highWater, Cumulative} /\ highWater <= highWater'
    BY <1>1, <1>9 DEF RaiseHighWater
  <2> QED
    BY <1>1, <1>9, <2>1, <2>2 DEF PeakCovers
<1>10. CASE \E b \in BOOLEAN : MarksTick(b) \/ RiskTick(b)
  BY <1>9, <1>10 DEF MarksTick, RiskTick, Scheduled
<1>11. CASE WritePnl
  <2>1. Cumulative' = Cumulative
    BY <1>11, CumulativeValue DEF WritePnl
  <2>2. proc # "down"
    BY <1>11 DEF WritePnl, LoopAsleep
  <2> QED
    BY <1>1, <1>11, <2>1, <2>2 DEF PeakCovers, WritePnl
<1>12. CASE WriteHigh
  <2>1. Cumulative' = Cumulative
    BY <1>12, CumulativeValue DEF WriteHigh
  <2>2. proc # "down"
    BY <1>12 DEF WriteHigh, LoopAsleep
  <2> QED
    BY <1>1, <1>12, <2>1, <2>2 DEF PeakCovers, WriteHigh
<1>13. CASE ClearUnlink \/ ClearRead
  <2>1. Cumulative' = Cumulative
    BY <1>13, CumulativeValue DEF ClearUnlink, ClearRead
  <2> QED
    BY <1>13, <2>1 DEF PeakCovers, ClearUnlink, ClearRead
<1>14. CASE ClearRebase
  BY <1>1, <1>14 DEF PeakCovers, ClearRebase, ClearAlone, Acknowledged
<1>15. CASE UNCHANGED vars
  <2>1. Cumulative' = Cumulative
    BY <1>15, CumulativeValue DEF vars
  <2> QED
    BY <1>15, <2>1 DEF PeakCovers, vars
<1> QED
  BY <1>2, <1>3, <1>5, <1>6, <1>7, <1>8, <1>10, <1>11, <1>12, <1>13, <1>14, <1>15
  DEF Next, Process, HaltClear

LEMMA ReferenceNext ==
  ASSUME ~ClearWhileRunning
  PROVE  ReferenceInv /\ [Next]_vars => ReferenceInv'
BY TypeNext, LoopAsleepNext, ClearAloneNext, PeakCoversNext DEF ReferenceInv

THEOREM ReferenceInductive ==
  ASSUME ~ClearWhileRunning
  PROVE  Spec => []ReferenceInv
BY ReferenceInit, ReferenceNext, PTL DEF Spec

LEMMA HaltStep ==
  ASSUME ReferenceInv, [Next]_vars, ~halted, halted'
  PROVE  peak - Cumulative >= Threshold
<1> USE DEF ReferenceInv, truth, memory, chain, kv, disk, clr
<1>1. Cumulative \in Int /\ peak \in Int /\ highWater \in Int /\ Threshold \in Int
  BY CumulativeInt, TypeParts, MoneyAssumption DEF TypeOK
<1>2. ASSUME NEW high \in {highWater, Cumulative}, CheckDrawdown(high), proc # "down"
      PROVE  peak - Cumulative >= Threshold
  <2>1. high - Cumulative >= Threshold
    BY <1>2 DEF CheckDrawdown
  <2>2. high <= peak
    BY <1>1, <1>2 DEF PeakCovers
  <2> QED
    BY <1>1, <2>1, <2>2
<1>3. CASE \E due \in BOOLEAN : RiskTick(due)
  <2>1. highWater' \in {highWater, Cumulative} /\ proc # "down"
    BY <1>3 DEF RiskTick, RaiseHighWater, Scheduled
  <2>2. CheckDrawdown(highWater')
    BY <1>3 DEF RiskTick
  <2> QED
    BY <1>2, <2>1, <2>2
<1>4. CASE WriteHigh
  BY <1>2, <1>4 DEF WriteHigh, LoopAsleep
<1>5. CASE ~WriteHigh /\ ~\E due \in BOOLEAN : RiskTick(due)
  <2>1. halted' = halted \/ halted' = FALSE
    BY <1>5 DEF Next, Market, Process, HaltClear, Move, Finalize, PayOut, Load, CheckMarker,
       Seed, StartFails, OnMid, Fill, Flush, MarksTick, PollAsk, PollAnswer, WritePnl,
       HaltDone, Stop, CancelTasks, Close, Crash, GoDown, ClearUnlink, ClearRead,
       ClearRebase, vars
  <2> QED
    BY <2>1
<1> QED
  BY <1>3, <1>4, <1>5

LEMMA PersistStep ==
  ASSUME ReferenceInv, [Next]_vars, clear' = clear, kvHigh # None
  PROVE  kvHigh' # None /\ kvHigh' >= kvHigh
<1> USE DEF ReferenceInv, truth, memory, chain, kv, disk, clr
<1>1. highWater \in Int /\ kvHigh \in Int /\ None \notin Int
  BY MoneyAssumption DEF TypeOK
<1>2. CASE WriteHigh
  BY <1>1, <1>2 DEF WriteHigh, LoopAsleep, PeakCovers
<1>3. CASE ~WriteHigh
  <2>1. kvHigh' = kvHigh
    BY <1>3 DEF Next, Market, Process, HaltClear, Move, Finalize, PayOut, Load, CheckMarker,
       Seed, StartFails, OnMid, Fill, Flush, MarksTick, PollAsk, PollAnswer, RiskTick,
       WritePnl, HaltDone, Stop, CancelTasks, Close, Crash, ClearUnlink, ClearRead,
       ClearRebase, vars
  <2> QED
    BY <1>1, <2>1
<1> QED
  BY <1>2, <1>3

\* When halt-clear runs alone, the kill switch trips only on a loss of Threshold
\* from a level that was acknowledged or reached since: no crash, torn persist or
\* restart gives it an older reference.
THEOREM HaltJustified ==
  ASSUME ~ClearWhileRunning
  PROVE  Spec => HaltIsJustified
<1>1. ReferenceInv /\ [Next]_vars =>
        [~halted /\ halted' => peak - Cumulative >= Threshold]_vars
  BY HaltStep
<1> QED
  BY <1>1, ReferenceInductive, PTL DEF Spec, HaltIsJustified

\* When halt-clear runs alone, only halt-clear lowers the persisted high-water mark.
THEOREM ReferencePersists ==
  ASSUME ~ClearWhileRunning
  PROVE  Spec => PeakPersists
<1>1. ReferenceInv /\ [Next]_vars =>
        [clear' # clear \/ kvHigh = None \/ (kvHigh' # None /\ kvHigh' >= kvHigh)]_vars
  BY PersistStep
<1> QED
  BY <1>1, ReferenceInductive, PTL DEF Spec, PeakPersists
\* Outside a persist, a peak above the one on disk is flagged, from the load on.
PeakHeld ==
  proc \in {"loaded", "starting", "up", "stopping"} /\ loop \notin {"pnl", "high"} =>
    newHigh \/ highWater <= LoadedHigh

\* Whoever raises the high-water mark flags it, and only a persist drops the flag.
LEMMA PeakHeldNext ==
  ASSUME ReferenceInv, PeakHeld, [Next]_vars
  PROVE  PeakHeld'
<1> USE DEF ReferenceInv, PeakHeld, LoadedHigh, truth, memory, chain, kv, disk, clr
<1>1. /\ highWater \in Int /\ kvPnl \in Int /\ None \notin Int /\ Cumulative \in Int
      /\ kvHigh \in Int \cup {None}
  BY CumulativeInt, TypeParts, MoneyAssumption DEF TypeOK
<1>2. ASSUME Market PROVE PeakHeld'
  BY <1>2 DEF Market, Move, Finalize, PayOut
<1>3. ASSUME Load PROVE PeakHeld'
  BY <1>1, <1>3 DEF Load
<1>4. ASSUME CheckMarker \/ StartFails \/ (\E selected \in BOOLEAN : Seed(selected))
      PROVE  PeakHeld'
  BY <1>4 DEF CheckMarker, GoDown, StartFails, Seed
<1>5. ASSUME \/ \E log \in BOOLEAN : OnMid(log)
             \/ \E n \in {-1, 1}, price \in Prices : Fill(n, price)
             \/ Flush \/ PollAsk \/ PollAnswer
      PROVE  PeakHeld'
  BY <1>5 DEF OnMid, Fill, Flush, PollAsk, PollAnswer
<1>6. ASSUME NEW skipped \in BOOLEAN, MarksTick(skipped) PROVE PeakHeld'
  <2>1. Scheduled /\ UNCHANGED <<proc, loop, kv>> /\ RaiseHighWater
    BY <1>6 DEF MarksTick
  <2>2. CASE Cumulative > highWater
    BY <2>1, <2>2 DEF RaiseHighWater
  <2>3. CASE ~(Cumulative > highWater)
    BY <2>1, <2>3 DEF RaiseHighWater, Scheduled
  <2> QED
    BY <2>2, <2>3
<1>7. ASSUME NEW due \in BOOLEAN, RiskTick(due) PROVE PeakHeld'
  <2>1. Scheduled /\ UNCHANGED <<proc, kv>> /\ RaiseHighWater /\ loop = "idle"
    BY <1>7 DEF RiskTick
  <2>2. CASE Cumulative > highWater
    BY <2>1, <2>2 DEF RaiseHighWater
  <2>3. CASE ~(Cumulative > highWater)
    BY <2>1, <2>3 DEF RaiseHighWater, Scheduled
  <2> QED
    BY <2>2, <2>3
<1>8. ASSUME WritePnl PROVE PeakHeld'
  BY <1>8 DEF WritePnl
<1>9. ASSUME WriteHigh PROVE PeakHeld'
  BY <1>1, <1>9 DEF WriteHigh
<1>10. ASSUME HaltDone \/ Stop \/ CancelTasks PROVE PeakHeld'
  BY <1>10 DEF HaltDone, Stop, CancelTasks, Scheduled
<1>11. ASSUME Close \/ Crash PROVE PeakHeld'
  BY <1>11 DEF Close, Crash, GoDown
<1>12. ASSUME HaltClear PROVE PeakHeld'
  BY <1>12 DEF HaltClear, ClearUnlink, ClearRead, ClearRebase, ClearAlone
<1>13. ASSUME UNCHANGED vars PROVE PeakHeld'
  BY <1>13 DEF vars
<1> QED
  BY <1>2, <1>3, <1>4, <1>5, <1>6, <1>7, <1>8, <1>9, <1>10, <1>11, <1>12, <1>13
  DEF Next, Process

\* When halt-clear runs alone, no loop sits on a peak: one above the level on disk
\* is flagged for the next round of risk_loop, whoever raised it.  (risk_loop,
\* marks_loop: "a crash must never lose the kill-switch reference peak")
THEOREM PeakAlwaysFlagged ==
  ASSUME ~ClearWhileRunning
  PROVE  Spec => []PeakFlagged
<1>1. Init => PeakHeld
  BY DEF Init, PeakHeld
<1>2. ReferenceInv /\ PeakHeld /\ [Next]_vars => PeakHeld'
  BY PeakHeldNext
<1>3. PeakHeld => PeakFlagged
  BY DEF PeakHeld, PeakFlagged, Scheduled
<1> QED
  BY <1>1, <1>2, <1>3, ReferenceInductive, PTL DEF Spec

-----------------------------------------------------------------------------
(* The equity chain is exact *)

Exact == MidsLogged /\ EarlyPayouts = {} /\ MaxCrashes = 0

\* The mid that is, or at the next flush will be, the newest in the mids table
Newest == IF queued = None THEN logged ELSE queued

\* The account's equity as the next session will see it
Level ==
  IF kvSettled THEN TrueEquity(mark)
  ELSE IF held = 0 THEN paid ELSE TrueEquity(Newest)

\* Outside a session nothing but the persisted chain counts.
Asleep ==
  /\ proc = "down" => queued = None
  /\ proc \in {"down", "loaded", "starting"} =>
       /\ ms = FreshMarket /\ queued = None /\ ~top /\ ~polling
       /\ kvPnl = Level
  /\ proc \in {"loaded", "starting"} => offset = kvPnl

\* In a session the books carry the account's cash flow and position.
Books ==
  proc \in {"up", "stopping"} =>
    /\ ms.unvalued = 0
    /\ kvSettled => /\ ms.position = 0 /\ offset + ms.cash = TrueEquity(mark)
                    /\ ms.lastMid \in {None, mark}
    /\ ~kvSettled => /\ ms.position = held /\ offset + ms.cash = paid
                     /\ top \/ held # 0 => ms.lastMid # None /\ ms.lastMid = Newest

\* On the way out the equity, and once written the row, are what is carried over.
Leaving ==
  proc = "closing" =>
    /\ loop \in {"pnl", "high", "close"} /\ Cumulative = Level
    /\ loop # "pnl" => kvPnl = Level

Marks ==
  /\ kvSettled => status = "final"
  /\ kvSettled \/ held = 0 \/ Newest # None

NoCrash == used["crashes"] = 0

Carried == Asleep /\ Books /\ Leaving /\ Marks

ExactInv == TypeOK /\ LoopAsleep /\ Carried /\ NoCrash

-----------------------------------------------------------------------------
(* Facts about one state *)

\* The types the arithmetic below needs
LEMMA Numbers ==
  ASSUME TypeOK
  PROVE  /\ ms \in MarketStates /\ ms.position \in Int /\ ms.cash \in Int
         /\ ms.unvalued \in Int /\ ms.lastMid \in MaybeMid
         /\ offset \in Int /\ held \in Int /\ paid \in Int /\ kvPnl \in Int
         /\ mark \in Int /\ mark # None /\ logged \in MaybeMid /\ queued \in MaybeMid
         /\ Newest \in MaybeMid /\ MaybeMid \ {None} \subseteq Int
BY MidInt DEF TypeOK, MarketStates, Newest

\* A step that moves none of what the account's level is made of
LEMMA LevelKept ==
  ASSUME UNCHANGED <<kvSettled, mark, held, paid, queued, logged>>
  PROVE  Level' = Level /\ Newest' = Newest
BY DEF Level, Newest, TrueEquity

\* During a session the equity is the level the next session will start from.
LEMMA BooksAreLevel ==
  ASSUME TypeOK, Books, proc \in {"up", "stopping"}
  PROVE  Cumulative = Level
<1>1. Cumulative = offset + (ms.cash + (ms.position - ms.unvalued) * PriceOf(ms))
  BY CumulativeValue DEF ValueOf
<1>2. PriceOf(ms) \in Int
  BY Numbers, MoneyAssumption DEF PriceOf
<1>3. CASE kvSettled \/ held = 0
  <2>1. ms.position - ms.unvalued = 0
    BY <1>3 DEF Books
  <2>2. Cumulative = offset + ms.cash
    BY <1>1, <1>2, <2>1, Numbers
  <2> QED
    BY <1>3, <2>2 DEF Books, Level, TypeOK
<1>4. CASE ~kvSettled /\ held # 0
  <2>1. /\ ms.position = held /\ ms.unvalued = 0 /\ offset + ms.cash = paid
        /\ PriceOf(ms) = Newest
    BY <1>4 DEF Books, PriceOf
  <2>2. Cumulative = offset + (ms.cash + held * Newest)
    BY <1>1, <2>1, Numbers
  <2> DEFINE value == held * Newest
  <2>3. value \in Int
    BY <1>2, <2>1, Numbers
  <2> HIDE DEF value
  <2>4. offset + (ms.cash + value) = paid + value
    BY <2>1, <2>3, Numbers
  <2> QED
    BY <1>4, <2>2, <2>4 DEF Level, TrueEquity, value
<1> QED
  BY <1>3, <1>4

LEMMA BooksAreExact ==
  ASSUME TypeOK, Books
  PROVE  ChainExact
<1> SUFFICES ASSUME proc \in {"up", "stopping"}
             PROVE  Cumulative = TrueEquity(IF ms.lastMid = None THEN mark ELSE ms.lastMid)
  BY DEF ChainExact, Running
<1>1. Cumulative = Level
  BY BooksAreLevel
<1>2. CASE kvSettled
  BY <1>1, <1>2 DEF Books, Level
<1>3. CASE ~kvSettled /\ held = 0
  <2>1. 0 * mark = 0 /\ (ms.lastMid # None => 0 * ms.lastMid = 0)
    BY Numbers
  <2> QED
    BY <1>1, <1>3, <2>1, Numbers DEF Level, TrueEquity
<1>4. CASE ~kvSettled /\ held # 0
  BY <1>1, <1>4 DEF Books, Level
<1> QED
  BY <1>2, <1>3, <1>4

-----------------------------------------------------------------------------
(* One step *)

LEMMA NoCrashNext ==
  ASSUME Exact, TypeOK, NoCrash, [Next]_vars
  PROVE  ~Crash /\ NoCrash'
<1>1. ~Crash
  BY DEF Exact, NoCrash, Crash, Spend
<1>2. \A bound : \A what \in Bounds \ {"crashes"} :
        Spend(what, bound) => used'["crashes"] = used["crashes"]
  BY DEF Spend, TypeOK, Bounds
<1>3. used' = used \/ \E bound : \E what \in Bounds \ {"crashes"} : Spend(what, bound)
  BY <1>1 DEF Next, Market, Process, HaltClear, Move, Finalize, PayOut, Load, CheckMarker,
     Seed, StartFails, OnMid, Fill, Flush, MarksTick, PollAsk, PollAnswer, RiskTick,
     WritePnl, WriteHigh, HaltDone, Stop, CancelTasks, Close, ClearUnlink, ClearRead,
     ClearRebase, Bounds, vars
<1> QED
  BY <1>1, <1>2, <1>3 DEF NoCrash

\* A step that leaves the account, the books and the carried chain alone
LEMMA Quiet ==
  ASSUME Carried, UNCHANGED <<truth, ms, offset, top, queued, logged, kvPnl, kvSettled>>,
         proc' = proc, proc = "closing" => loop' = loop,
         polling' = polling \/ proc \in {"up", "stopping"}
  PROVE  Carried'
<1>1. Level' = Level /\ Newest' = Newest
  BY LevelKept DEF truth
<1>2. Cumulative' = Cumulative
  BY CumulativeValue
<1>3. TrueEquity(mark)' = TrueEquity(mark)
  BY DEF TrueEquity, truth
<1>4. Asleep'
  BY <1>1 DEF Carried, Asleep
<1>5. Books'
  BY <1>1, <1>3 DEF Carried, Books, truth
<1>6. Leaving'
  BY <1>1, <1>2 DEF Carried, Leaving
<1>7. Marks'
  BY <1>1 DEF Carried, Marks, truth
<1> QED
  BY <1>4, <1>5, <1>6, <1>7 DEF Carried

LEMMA MarketNext ==
  ASSUME Exact, TypeOK, Carried, Market
  PROVE  Carried'
<1> USE DEF memory, chain, disk, kv
<1>1. UNCHANGED <<proc, loop, polling, offset, ms, top, queued, kvPnl, kvSettled, logged>>
  BY DEF Market, Move, Finalize, PayOut
<1>2. Newest' = Newest /\ Cumulative' = Cumulative
  BY <1>1, CumulativeValue DEF Newest
<1>3. \/ ~kvSettled /\ held' = held /\ paid' = paid
      \/ kvSettled /\ status' = status /\ mark' = mark /\ TrueEquity(mark)' = TrueEquity(mark)
  <2>1. CASE status = "open"
    <3>1. ~kvSettled
      BY <2>1 DEF Carried, Marks
    <3> QED
      BY <2>1, <3>1 DEF Market, Move, Finalize, PayOut
  <2>2. CASE status # "open"
    <3>1. /\ kvSettled /\ status' = status /\ mark' = mark
          /\ held' = 0 /\ paid' = paid + held * mark
      BY <2>2 DEF Market, Move, Finalize, PayOut, Exact
    <3>2. paid + held * mark \in Int
      BY Numbers
    <3>3. paid' + 0 * mark = paid'
      BY <3>1, <3>2, Numbers
    <3> QED
      BY <3>1, <3>3 DEF TrueEquity
  <2> QED
    BY <2>1, <2>2
<1>4. Level' = Level
  BY <1>1, <1>2, <1>3 DEF Level, TrueEquity
<1>5. Asleep'
  BY <1>1, <1>4 DEF Carried, Asleep
<1>6. Books'
  BY <1>1, <1>2, <1>3 DEF Carried, Books
<1>7. Leaving'
  BY <1>1, <1>2, <1>4 DEF Carried, Leaving
<1>8. Marks'
  BY <1>1, <1>2, <1>3 DEF Carried, Marks
<1> QED
  BY <1>5, <1>6, <1>7, <1>8 DEF Carried

LEMMA StartNext ==
  ASSUME TypeOK, LoopAsleep, Carried, Load \/ CheckMarker \/ StartFails
  PROVE  Carried'
<1> USE DEF truth, memory, chain, disk, kv, clr
<1>1. UNCHANGED <<kvSettled, status, mark, held, paid, logged, kvPnl, ms, top, polling,
                  queued>>
  <2>1. top \in BOOLEAN /\ polling \in BOOLEAN
    BY DEF TypeOK
  <2>2. /\ proc \in {"down", "loaded", "starting"}
        /\ ms = FreshMarket /\ queued = None /\ ~top /\ ~polling
    BY DEF Load, CheckMarker, StartFails, Carried, Asleep
  <2>3. CASE CheckMarker
    BY <2>1, <2>2, <2>3 DEF CheckMarker, GoDown
  <2>4. CASE Load \/ StartFails
    BY <2>4 DEF Load, StartFails
  <2> QED
    BY <2>3, <2>4
<1>2. Level' = Level /\ Newest' = Newest
  BY <1>1, LevelKept
<1>3. Marks'
  BY <1>1, <1>2 DEF Carried, Marks
<1>4. CASE Load \/ CheckMarker
  <2>1. /\ proc \in {"down", "loaded"} /\ proc' \in {"down", "loaded", "starting"}
        /\ proc' \in {"loaded", "starting"} => offset' = kvPnl
    BY <1>4 DEF Load, CheckMarker, GoDown, Carried, Asleep
  <2>2. Asleep'
    BY <1>1, <1>2, <2>1 DEF Carried, Asleep
  <2> QED
    BY <1>3, <2>1, <2>2 DEF Carried, Books, Leaving
<1>5. CASE StartFails
  <2>1. ms' = FreshMarket /\ offset' = kvPnl /\ kvPnl = Level
    BY <1>5 DEF StartFails, Carried, Asleep
  <2>2. ValueOf(FreshMarket) = 0
    <3>1. PriceOf(FreshMarket) \in Int
      BY MoneyAssumption DEF PriceOf, FreshMarket
    <3>2. ValueOf(FreshMarket) = 0 + (0 - 0) * PriceOf(FreshMarket)
      BY DEF ValueOf, FreshMarket
    <3> QED
      BY <3>1, <3>2
  <2>3. Cumulative' = kvPnl
    BY <2>1, <2>2, CumulativeValue, Numbers
  <2>4. Leaving'
    BY <1>2, <1>5, <2>1, <2>3 DEF StartFails, Leaving
  <2> QED
    BY <1>3, <1>5, <2>4 DEF StartFails, Carried, Asleep, Books
<1> QED
  BY <1>4, <1>5

LEMMA SeedNext ==
  ASSUME TypeOK, Carried, NEW selected \in BOOLEAN, Seed(selected)
  PROVE  Carried'
<1> USE DEF truth, memory, chain, disk, kv, clr
<1>1. UNCHANGED <<kvSettled, status, mark, held, paid, logged, queued, kvPnl, offset, top>>
  BY DEF Seed
<1>2. Level' = Level /\ Newest' = Newest /\ TrueEquity(mark)' = TrueEquity(mark)
  BY <1>1, LevelKept DEF TrueEquity
<1>3. /\ proc' = "up" /\ offset = Level /\ queued = None /\ ~top
  BY DEF Seed, Carried, Asleep
<1>4. Asleep' /\ Leaving' /\ Marks'
  BY <1>1, <1>2, <1>3 DEF Carried, Asleep, Leaving, Marks
<1>5. Books'
  <2>1. CASE kvSettled
    <3>1. ms'.position = 0 /\ ms'.cash = 0 /\ ms'.unvalued = 0 /\ ms'.lastMid = None
      BY <2>1 DEF Seed, FreshMarket
    <3>2. offset' + 0 = TrueEquity(mark)
      BY <1>1, <1>3, <2>1, Numbers DEF Level
    <3> QED
      BY <1>1, <1>2, <2>1, <3>1, <3>2 DEF Books
  <2>2. CASE ~kvSettled /\ held = 0
    <3>1. ms'.position = 0 /\ ms'.cash = 0 /\ ms'.unvalued = 0
      <4>1. -0 * mark = 0
        BY Numbers
      <4> QED
        BY <2>2, <4>1, Numbers DEF Seed, FreshMarket, Seeded
    <3>2. offset' + 0 = paid
      BY <1>1, <1>3, <2>2, Numbers DEF Level
    <3> QED
      BY <1>1, <1>3, <2>2, <3>1, <3>2 DEF Books
  <2>3. CASE ~kvSettled /\ held # 0
    <3>1. logged # None /\ SeedMid(selected) = logged /\ Newest = logged
      BY <1>3, <2>3 DEF Carried, Marks, Newest, SeedMid
    <3>2. /\ ms'.position = held /\ ms'.cash = -held * logged /\ ms'.unvalued = 0
          /\ ms'.lastMid = logged
      BY <2>3, <3>1 DEF Seed, Seeded, FreshMarket
    <3>3. offset = paid + held * logged
      BY <1>3, <2>3, <3>1 DEF Level, TrueEquity
    <3>4. (paid + held * logged) + (-held * logged) = paid
      <4>1. logged \in Int
        BY <3>1, Numbers
      <4> QED
        BY <4>1, Numbers
    <3> QED
      BY <1>1, <1>2, <2>3, <3>1, <3>2, <3>3, <3>4 DEF Books
  <2> QED
    BY <2>1, <2>2, <2>3
<1> QED
  BY <1>4, <1>5 DEF Carried

\* What is left to show of a step within a session
LEMMA SessionSuffices ==
  ASSUME proc' \in {"up", "stopping"}, Books', Marks'
  PROVE  Carried'
BY DEF Carried, Asleep, Leaving

LEMMA OnMidNext ==
  ASSUME Exact, TypeOK, Carried, NEW log \in BOOLEAN, OnMid(log)
  PROVE  Carried'
<1> USE DEF truth, memory, chain, disk, kv, clr
<1>1. /\ proc \in {"up", "stopping"} /\ ~kvSettled /\ queued' = mark
      /\ UNCHANGED <<proc, held, paid, offset, kvSettled, status>> /\ ms' = Marked(ms, mark)
  BY DEF OnMid, Scheduled, Exact, Carried, Marks
<1>2. Newest' = mark /\ mark # None
  BY <1>1, Numbers DEF Newest
<1>3. /\ ms'.position = ms.position /\ ms'.lastMid = mark /\ ms'.unvalued = 0
      /\ ms'.cash = ms.cash
  <2>1. ms.cash - 0 * mark = ms.cash
    BY Numbers
  <2> QED
    BY <1>1, <2>1 DEF Marked, Carried, Books
<1>4. Books'
  BY <1>1, <1>2, <1>3 DEF Carried, Books
<1>5. Marks'
  BY <1>1, <1>2 DEF Carried, Marks
<1> QED
  BY <1>1, <1>4, <1>5, SessionSuffices

LEMMA FillNext ==
  ASSUME TypeOK, Carried, NEW n \in {-1, 1}, NEW price \in Prices, Fill(n, price)
  PROVE  Carried'
<1> USE DEF truth, memory, chain, disk, kv, clr
<1>1. /\ proc \in {"up", "stopping"} /\ ~kvSettled /\ top
      /\ UNCHANGED <<proc, queued, logged, offset, kvSettled, status, top>>
      /\ held' = held + n /\ paid' = paid - n * price /\ ms' = Filled(ms, n, price)
  BY DEF Fill, Scheduled, Carried, Marks
<1>2. Newest' = Newest
  BY <1>1 DEF Newest
<1>3. /\ ms'.position = ms.position + n /\ ms'.cash = ms.cash - n * price
      /\ ms'.lastMid = ms.lastMid /\ ms'.unvalued = ms.unvalued
  BY <1>1, Numbers DEF Filled, MarketStates
<1>4. offset' + ms'.cash = paid'
  <2> DEFINE cost == n * price
  <2>1. cost \in Int
    BY MidInt
  <2>2. ms'.cash = ms.cash - cost /\ paid' = paid - cost /\ offset + ms.cash = paid
    BY <1>1, <1>3 DEF Carried, Books
  <2> HIDE DEF cost
  <2> QED
    BY <1>1, <2>1, <2>2, Numbers
<1>5. Books'
  BY <1>1, <1>2, <1>3, <1>4 DEF Carried, Books
<1>6. Marks'
  BY <1>1, <1>2 DEF Carried, Books, Marks
<1> QED
  BY <1>1, <1>5, <1>6, SessionSuffices

LEMMA LogNext ==
  ASSUME TypeOK, Carried, Flush \/ \E skipped \in BOOLEAN : MarksTick(skipped)
  PROVE  Carried'
<1> USE DEF truth, memory, chain, disk, kv, clr
<1>1. /\ proc \in {"up", "stopping"}
      /\ UNCHANGED <<proc, status, mark, held, paid, offset, kvSettled, ms, top>>
  BY DEF Flush, MarksTick, Scheduled
<1>2. Newest' = Newest \/ (Newest' = ms.lastMid /\ ms.lastMid # None)
  BY DEF Flush, MarksTick, Newest
<1>3. TrueEquity(mark)' = TrueEquity(mark)
  BY <1>1 DEF TrueEquity
<1>4. Books'
  BY <1>1, <1>2, <1>3 DEF Carried, Books
<1>5. Marks'
  BY <1>1, <1>2 DEF Carried, Marks
<1> QED
  BY <1>1, <1>4, <1>5, SessionSuffices

LEMMA PollAnswerNext ==
  ASSUME TypeOK, Carried, PollAnswer
  PROVE  Carried'
<1> USE DEF truth, memory, chain, disk, kv, clr
<1>1. CASE status # "final"
  BY <1>1, Quiet DEF PollAnswer, Scheduled
<1>2. CASE status = "final"
  <2>1. /\ proc \in {"up", "stopping"} /\ kvSettled' /\ ms' = Settled(ms, mark)
        /\ UNCHANGED <<proc, status, mark, held, paid, offset>>
    BY <1>2 DEF PollAnswer, Scheduled
  <2>2. /\ ms'.position = 0 /\ ms'.unvalued = 0 /\ ms'.lastMid = mark
        /\ ms'.cash = ms.cash + (ms.position - ms.unvalued) * mark
    BY <2>1 DEF Settled
  <2>3. TrueEquity(mark)' = paid + held * mark
    BY <2>1 DEF TrueEquity
  <2>4. offset + ms'.cash = paid + held * mark
    <3>1. CASE kvSettled
      <4>1. ms.position = 0 /\ ms.unvalued = 0
        BY <2>1, <3>1 DEF Carried, Books
      <4>2. ms'.cash = ms.cash
        BY <2>2, <4>1, Numbers
      <4> QED
        BY <2>1, <3>1, <4>2 DEF Carried, Books, TrueEquity
    <3>2. CASE ~kvSettled
      <4> DEFINE value == held * mark
      <4>1. value \in Int
        BY Numbers
      <4>2. ms.position = held /\ ms.unvalued = 0 /\ offset + ms.cash = paid
        BY <2>1, <3>2 DEF Carried, Books
      <4>3. ms'.cash = ms.cash + value
        BY <2>2, <4>2, Numbers
      <4> HIDE DEF value
      <4>4. offset + ms'.cash = paid + value
        BY <4>1, <4>2, <4>3, Numbers
      <4> QED
        BY <4>4 DEF value
    <3> QED
      BY <3>1, <3>2
  <2>5. Books'
    BY <2>1, <2>2, <2>3, <2>4 DEF Books
  <2>6. Marks'
    BY <1>2, <2>1 DEF Marks
  <2> QED
    BY <2>1, <2>5, <2>6, SessionSuffices
<1> QED
  BY <1>1, <1>2

LEMMA PersistNext ==
  ASSUME TypeOK, LoopAsleep, Carried, WritePnl \/ WriteHigh
  PROVE  Carried'
<1> USE DEF truth, memory, chain, disk, kv, clr
<1>1. /\ UNCHANGED <<proc, status, mark, held, paid, offset, kvSettled, ms, top, queued,
                     logged, polling>>
      /\ proc \notin {"down", "loaded", "starting"}
  BY DEF WritePnl, WriteHigh, LoopAsleep
<1>2. Level' = Level /\ Newest' = Newest /\ Cumulative' = Cumulative
      /\ TrueEquity(mark)' = TrueEquity(mark)
  BY <1>1, LevelKept, CumulativeValue DEF TrueEquity
<1>3. Leaving'
  BY <1>1, <1>2 DEF Carried, Leaving, WritePnl, WriteHigh
<1>4. Asleep' /\ Books' /\ Marks'
  BY <1>1, <1>2 DEF Carried, Asleep, Books, Marks
<1> QED
  BY <1>3, <1>4 DEF Carried

LEMMA EndNext ==
  ASSUME TypeOK, LoopAsleep, Carried, HaltDone \/ Stop \/ CancelTasks \/ Close
  PROVE  Carried'
<1> USE DEF truth, memory, chain, disk, kv, clr
<1>1. UNCHANGED <<status, mark, held, paid, kvPnl, kvSettled>>
  BY DEF HaltDone, Stop, CancelTasks, Close
<1>2. TrueEquity(mark)' = TrueEquity(mark)
  BY <1>1 DEF TrueEquity
<1>3. CASE HaltDone \/ Stop \/ CancelTasks
  <2>1. /\ UNCHANGED <<queued, logged, ms, offset, top>>
        /\ proc \in {"up", "stopping"} /\ proc' \in {"stopping", "closing"}
        /\ proc' = "closing" => loop' = "pnl"
    BY <1>3 DEF HaltDone, Stop, CancelTasks
  <2>2. Level' = Level /\ Newest' = Newest /\ Cumulative' = Cumulative
    BY <1>1, <2>1, LevelKept, CumulativeValue
  <2>3. Cumulative = Level
    BY <2>1, BooksAreLevel DEF Carried
  <2>4. Books' /\ Marks'
    BY <1>1, <1>2, <2>1, <2>2 DEF Carried, Books, Marks
  <2> QED
    BY <2>1, <2>2, <2>3, <2>4 DEF Carried, Asleep, Leaving
<1>4. CASE Close
  <2>1. /\ proc = "closing" /\ loop = "close" /\ proc' = "down" /\ queued' = None
        /\ ms' = FreshMarket /\ ~top' /\ ~polling' /\ logged' = Newest
    BY <1>4 DEF Close, GoDown, Newest
  <2>2. Newest' = Newest
    BY <2>1 DEF Newest
  <2>3. Level' = Level
    BY <1>1, <1>2, <2>2 DEF Level, TrueEquity
  <2>4. kvPnl = Level
    BY <2>1 DEF Carried, Leaving
  <2> QED
    BY <1>1, <2>1, <2>2, <2>3, <2>4 DEF Carried, Asleep, Books, Leaving, Marks
<1> QED
  BY <1>3, <1>4

LEMMA CarriedNext ==
  ASSUME Exact, ExactInv, [Next]_vars
  PROVE  Carried'
<1> USE DEF ExactInv, truth, memory, chain, disk, kv, clr
<1>1. CASE Market
  BY <1>1, MarketNext
<1>2. CASE Load \/ CheckMarker \/ StartFails
  BY <1>2, StartNext
<1>3. CASE \E b \in BOOLEAN : Seed(b) \/ OnMid(b)
  BY <1>3, SeedNext, OnMidNext
<1>4. CASE \E n \in {-1, 1}, price \in Prices : Fill(n, price)
  BY <1>4, FillNext
<1>5. CASE Flush \/ \E b \in BOOLEAN : MarksTick(b)
  BY <1>5, LogNext
<1>6. CASE PollAsk \/ \E b \in BOOLEAN : RiskTick(b)
  BY <1>6, Quiet DEF PollAsk, RiskTick, Scheduled
<1>7. CASE PollAnswer
  BY <1>7, PollAnswerNext
<1>8. CASE WritePnl \/ WriteHigh
  BY <1>8, PersistNext
<1>9. CASE HaltDone \/ Stop \/ CancelTasks \/ Close
  BY <1>9, EndNext
<1>10. CASE HaltClear
  BY <1>10, Quiet DEF HaltClear, ClearUnlink, ClearRead, ClearRebase
<1>11. CASE UNCHANGED vars
  BY <1>11, Quiet DEF vars
<1>12. ~Crash
  BY NoCrashNext
<1> QED
  BY <1>1, <1>2, <1>3, <1>4, <1>5, <1>6, <1>7, <1>8, <1>9, <1>10, <1>11, <1>12
  DEF Next, Process

-----------------------------------------------------------------------------
LEMMA ExactInit == Init => ExactInv
<1> SUFFICES ASSUME Init PROVE ExactInv
  OBVIOUS
<1>1. TypeOK
  BY TypeInit
<1>2. Level = 0
  BY DEF Init, Level
<1>3. Carried
  BY <1>2 DEF Init, Carried, Asleep, Books, Leaving, Marks
<1> QED
  BY <1>1, <1>3 DEF Init, ExactInv, LoopAsleep, NoCrash, Bounds

LEMMA ExactNext == ASSUME Exact PROVE ExactInv /\ [Next]_vars => ExactInv'
BY TypeNext, LoopAsleepNext, CarriedNext, NoCrashNext DEF ExactInv

\* The equity the kill switch sees is the account's, in every session: when every
\* mid the bot acts on is in the mids table, a payout waits until the bot has
\* realised the settlement and nothing crashes.
THEOREM EquityExact ==
  ASSUME Exact
  PROVE  Spec => []ChainExact
<1>1. ExactInv => ChainExact
  BY BooksAreExact DEF ExactInv, Carried
<1> QED
  BY <1>1, ExactInit, ExactNext, PTL DEF Spec
=============================================================================
