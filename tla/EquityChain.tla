----------------------------- MODULE EquityChain -----------------------------
(***************************************************************************)
(* The account-equity chain behind the kill switch: RiskManager values one *)
(* market's position during a session; main.py loads the chain from the    *)
(* event log's kv table at start, marks and persists it from two loops,    *)
(* realises a settlement, halts on drawdown and persists once more on the  *)
(* way out; `halt-clear`, a process of its own, rebases the persisted      *)
(* high-water mark.  The process may die between any two commits.          *)
(*                                                                         *)
(* Money is an integer number of ticks, Dollar ticks to the dollar.  Fees  *)
(* are part of a fill's price.  A fill reaches the process as it happens:  *)
(* fills under way, lost or repaired are OrderLifecycle's subject.         *)
(***************************************************************************)
EXTENDS Integers

CONSTANTS
  Dollar,           \* ticks in a dollar
  Prices,           \* the mids and fill prices considered, in ticks
  Threshold,        \* RiskParams.kill_switch_drawdown
  None,             \* an absent mid or kv row
  MidsLogged,       \* TRUE: every mid the worker sees is also written to the mids table
  EarlyPayouts,     \* when a market may be paid out unrealised: of "down", "running"
  ClearWhileRunning,\* TRUE: `halt-clear` may run beside a trading process
  MaxHeld,          \* bound: contracts held
  MaxFills,         \* bound: fills
  MaxMoves,         \* bound: changes of the market's mid
  MaxStarts,        \* bound: starts of the process
  MaxCrashes,       \* bound: crashes of the process
  MaxClears         \* bound: runs of halt-clear

ASSUME MoneyAssumption ==
  /\ Dollar \in Nat /\ Prices \subseteq 1 .. Dollar - 1 /\ Threshold \in Nat \ {0}
  /\ None \notin Int
ASSUME ScopeAssumption ==
  /\ MidsLogged \in BOOLEAN /\ ClearWhileRunning \in BOOLEAN
  /\ EarlyPayouts \subseteq {"down", "running"}
  /\ MaxHeld \in Nat /\ MaxFills \in Nat /\ MaxMoves \in Nat
  /\ MaxStarts \in Nat /\ MaxCrashes \in Nat /\ MaxClears \in Nat

VARIABLES
  \* the exchange
  status,    \* MarketLifecycle: "open", or "final" with a result
  mark,      \* the market's mid; its settlement value once final
  held,      \* the account's position
  paid,      \* the account's cash flow in this market
  \* the process: control
  proc,      \* "down", "loaded", "starting", "up", "stopping" (worker.stop() awaits),
             \* "closing" (every task cancelled)
  loop,      \* risk_loop / the final persist: "idle", "pnl" and "high" (the two kv
             \* commits to come), "halting" (awaits cancel_all), "done", "close"
  polling,   \* settlement_poll awaits get_market_status
  \* the process: RiskManager and the event log's queue
  ms,        \* MarketState
  top,       \* the worker has seen a mid in its book: worker.top
  offset, highWater, newHigh, halted,
  queued,    \* newest mid in the event log's queue
  \* the disk
  kvPnl, kvHigh, kvSettled,   \* kv rows; kvPnl is 0 while the row is missing
  logged,    \* newest committed row of the mids table
  haltFile,  \* the HALTED marker
  \* halt-clear
  clear,     \* "none", "read" (marker removed), "write" (equity read)
  clearCum,  \* the equity it read
  \* history and bounds
  peak,      \* highest equity since the last acknowledged level
  used       \* how much of each bound is used up

truth  == <<status, mark, held, paid>>
chain  == <<offset, highWater, newHigh>>
memory == <<chain, ms, top, halted, queued>>
kv     == <<kvPnl, kvHigh, kvSettled>>
disk   == <<kv, logged, haltFile>>
clr    == <<clear, clearCum, peak>>
vars   == <<truth, proc, loop, polling, memory, disk, clr, used>>

Mid == Prices \cup {0, Dollar}
MaybeMid == Mid \cup {None}
FreshMarket ==
  [position |-> 0, cash |-> 0, lastMid |-> None, unvalued |-> 0, settled |-> FALSE]
TrueEquity(m) == paid + held * m

-----------------------------------------------------------------------------
(* RiskManager *)

\* MarketState after seed_position
Seeded(q, mid) ==
  IF mid = None THEN [FreshMarket EXCEPT !.position = q, !.unvalued = q]
  ELSE [FreshMarket EXCEPT !.position = q, !.cash = -q * mid, !.lastMid = mid]

\* on_fill, without the count of fills
Filled(s, n, price) ==
  [s EXCEPT !.position = s.position + n, !.cash = s.cash - n * price]

\* on_mid
Marked(s, mid) ==
  [position |-> s.position, cash |-> s.cash - s.unvalued * mid, lastMid |-> mid,
   unvalued |-> 0, settled |-> s.settled]

\* on_settlement
Settled(s, price) ==
  [position |-> 0, cash |-> s.cash + (s.position - s.unvalued) * price,
   lastMid |-> price, unvalued |-> 0, settled |-> TRUE]

Pnl ==
  LET price == IF ms.lastMid = None THEN Dollar \div 2 ELSE ms.lastMid
  IN  ms.cash + (ms.position - ms.unvalued) * price

Cumulative == offset + Pnl

\* Seeded bug: only the round that raised the mark says so.
RaisedSilently ==
  /\ highWater' = IF Cumulative > highWater THEN Cumulative ELSE highWater
  /\ newHigh' = (Cumulative > highWater)

\* drawdown() is never read without raising the high-water mark first.
RaiseHighWater ==
  /\ highWater' = IF Cumulative > highWater THEN Cumulative ELSE highWater
  /\ newHigh' = (newHigh \/ Cumulative > highWater)

\* The level from which a loss is due to be measured: what halt-clear
\* acknowledged, or what the equity has reached since.
Observe == peak' = IF Cumulative' <= peak THEN peak ELSE Cumulative'

-----------------------------------------------------------------------------
(* Control *)

Running == {"up", "stopping", "closing"}

\* A coroutine of the process may run: no other is between two commits.
Scheduled == proc \in {"up", "stopping"} /\ loop \notin {"pnl", "high"}

\* Where risk_loop is after a round: it looks at the stop event only then.
Rest == IF proc = "up" THEN "idle" ELSE "done"

Bounds == {"fills", "moves", "starts", "crashes", "clears"}
Spend(what, bound) == used[what] < bound /\ used' = [used EXCEPT ![what] = @ + 1]

GoDown ==
  /\ proc' = "down" /\ loop' = "idle" /\ polling' = FALSE
  /\ ms' = FreshMarket /\ offset' = 0 /\ highWater' = 0
  /\ top' = FALSE /\ newHigh' = FALSE /\ halted' = FALSE /\ queued' = None

\* should_halt and halt at the end of a round of risk_loop
CheckDrawdown(high) ==
  IF high - Cumulative >= Threshold /\ ~halted
  THEN halted' = TRUE /\ haltFile' = TRUE /\ loop' = "halting"
  ELSE loop' = Rest /\ UNCHANGED <<halted, haltFile>>

Init ==
  /\ status = "open" /\ mark \in Prices /\ held = 0 /\ paid = 0
  /\ proc = "down" /\ loop = "idle" /\ polling = FALSE
  /\ ms = FreshMarket /\ offset = 0 /\ highWater = 0 /\ newHigh = FALSE
  /\ top = FALSE /\ halted = FALSE /\ queued = None
  /\ kvPnl = 0 /\ kvHigh = None /\ kvSettled = FALSE
  /\ logged = None /\ haltFile = FALSE
  /\ clear = "none" /\ clearCum = 0
  /\ peak = 0
  /\ used = [what \in Bounds |-> 0]

-----------------------------------------------------------------------------
(* The market *)

Move(price) ==
  /\ status = "open" /\ price # mark
  /\ Spend("moves", MaxMoves)
  /\ mark' = price
  /\ UNCHANGED <<status, held, paid, proc, loop, polling, memory, disk, clr>>

\* The market is finalized; the position is reported until the payout clears.
Finalize(value) ==
  /\ status = "open"
  /\ status' = "final" /\ mark' = value
  /\ UNCHANGED <<held, paid, proc, loop, polling, memory, disk, clr, used>>

PayOut ==
  /\ status = "final" /\ held # 0
  /\ kvSettled \/ (IF proc = "down" THEN "down" ELSE "running") \in EarlyPayouts
  /\ held' = 0 /\ paid' = paid + held * mark
  /\ UNCHANGED <<status, mark, proc, loop, polling, memory, disk, clr, used>>

-----------------------------------------------------------------------------
(* Start: load_chained_risk, the marker check after the clock-skew await, and *)
(* the seeding after the market and position calls                            *)

LoadedHighRebased == kvPnl
LoadedHigh == IF kvHigh = None THEN kvPnl ELSE kvHigh

Load ==
  /\ proc = "down" /\ (ClearWhileRunning \/ clear = "none")
  /\ Spend("starts", MaxStarts)
  /\ proc' = "loaded"
  /\ offset' = kvPnl /\ highWater' = LoadedHigh
  /\ UNCHANGED <<truth, loop, polling, newHigh, ms, top, halted, queued, disk, clear, clearCum>>
  /\ Observe

CheckMarker ==
  /\ proc = "loaded"
  /\ IF haltFile
     THEN GoDown /\ UNCHANGED <<truth, disk, clr, used>>
     ELSE /\ proc' = "starting"
          /\ UNCHANGED <<truth, loop, polling, memory, disk, clr, used>>

SeedMidNow(selected) == IF selected THEN mark ELSE None
SeedMid(selected) ==
  IF logged # None THEN logged ELSE IF selected THEN mark ELSE None

\* A selected market gets a worker; any other is seeded if it is held.
Seed(selected) ==
  /\ proc = "starting" /\ (selected => status = "open")
  /\ proc' = "up"
  /\ ms' = IF kvSettled \/ (held = 0 /\ ~selected) THEN FreshMarket
           ELSE IF held = 0 THEN Seeded(0, mark)
           ELSE Seeded(held, SeedMid(selected))
  /\ UNCHANGED <<truth, loop, polling, chain, top, halted, queued, disk, clear, clearCum, used>>
  /\ Observe

\* An exception, or nothing selected and nothing held: straight to `finally`.
StartFails ==
  /\ proc = "starting"
  /\ proc' = "closing" /\ loop' = "pnl"
  /\ UNCHANGED <<truth, polling, memory, disk, clr, used>>

-----------------------------------------------------------------------------
(* A session *)

\* on_book_top: the worker throttles its rows of the mids table, after the first.
OnMid(log) ==
  /\ Scheduled /\ status = "open" /\ (MidsLogged \/ ~top => log)
  /\ top' = TRUE
  /\ ms' = Marked(ms, mark)
  /\ queued' = IF log THEN mark ELSE queued
  /\ UNCHANGED <<truth, proc, loop, polling, chain, halted, disk, clear, clearCum, used>>
  /\ Observe

\* FillDispatcher; the worker quotes only on a book.
Fill(n, price) ==
  /\ Scheduled /\ status = "open" /\ top
  /\ held + n \in -MaxHeld .. MaxHeld
  /\ Spend("fills", MaxFills)
  /\ held' = held + n /\ paid' = paid - n * price
  /\ ms' = Filled(ms, n, price)
  /\ UNCHANGED <<status, mark, proc, loop, polling, chain, top, halted, queued, disk, clear, clearCum>>
  /\ Observe

\* eventlog_flush_loop, or the batch being full
Flush ==
  /\ Scheduled /\ queued # None
  /\ logged' = queued /\ queued' = None
  /\ UNCHANGED <<truth, proc, loop, polling, chain, ms, top, halted, kv, haltFile, clr, used>>

\* marks_tick; a market whose worker has marked it of late is skipped.
MarksTick(skipped) ==
  /\ Scheduled
  /\ queued' = IF ms.lastMid = None \/ ms.settled \/ skipped THEN queued ELSE ms.lastMid
  /\ RaiseHighWater
  /\ UNCHANGED <<truth, proc, loop, polling, offset, ms, top, halted, disk, clr, used>>

PollAsk ==
  /\ Scheduled /\ ~polling /\ ms.position # 0 /\ ~ms.settled
  /\ polling' = TRUE
  /\ UNCHANGED <<truth, proc, loop, memory, disk, clr, used>>

PollAnswer ==
  /\ Scheduled /\ polling
  /\ polling' = FALSE
  /\ IF status = "final"
     THEN ms' = Settled(ms, mark) /\ kvSettled' = TRUE
     ELSE UNCHANGED <<ms, kvSettled>>
  /\ UNCHANGED <<truth, proc, loop, chain, top, halted, queued, kvPnl, kvHigh, logged,
                 haltFile, clear, clearCum, used>>
  /\ Observe

\* A round of risk_loop up to its first kv commit; `due`: a minute since the last.
RiskTick(due) ==
  /\ Scheduled /\ loop = "idle"
  /\ RaiseHighWater
  /\ IF newHigh' \/ due
     THEN loop' = "pnl" /\ UNCHANGED <<halted, haltFile>>
     ELSE CheckDrawdown(highWater')
  /\ UNCHANGED <<truth, proc, polling, offset, ms, top, queued, kv, logged, clr, used>>

\* persist_pnl_marks: two commits
WritePnl ==
  /\ loop = "pnl"
  /\ kvPnl' = Cumulative /\ loop' = "high"
  /\ UNCHANGED <<truth, proc, polling, memory, kvHigh, kvSettled, logged, haltFile,
                 clr, used>>

WriteHigh ==
  /\ loop = "high"
  /\ kvHigh' = highWater /\ newHigh' = FALSE
  /\ IF proc = "closing"
     THEN loop' = "close" /\ UNCHANGED <<halted, haltFile>>
     ELSE CheckDrawdown(highWater)
  /\ UNCHANGED <<truth, proc, polling, offset, highWater, ms, top, queued, kvPnl, kvSettled,
                 logged, clr, used>>

\* The kill switch's cancel_all is answered: the stop event is set.
HaltDone ==
  /\ proc \in {"up", "stopping"} /\ loop = "halting"
  /\ loop' = "done" /\ proc' = "stopping"
  /\ UNCHANGED <<truth, polling, memory, disk, clr, used>>

\* SIGTERM, or a supervised task died
Stop ==
  /\ proc = "up"
  /\ proc' = "stopping"
  /\ UNCHANGED <<truth, loop, polling, memory, disk, clr, used>>

\* `finally`: the workers are stopped and the tasks cancelled
CancelTasks ==
  /\ proc = "stopping" /\ Scheduled
  /\ proc' = "closing" /\ loop' = "pnl" /\ polling' = FALSE
  /\ UNCHANGED <<truth, memory, disk, clr, used>>

\* events.close() drains the queue; the process ends.
Close ==
  /\ proc = "closing" /\ loop = "close"
  /\ logged' = IF queued = None THEN logged ELSE queued
  /\ GoDown
  /\ UNCHANGED <<truth, kv, haltFile, clr, used>>

Crash ==
  /\ proc # "down"
  /\ Spend("crashes", MaxCrashes)
  /\ GoDown
  /\ UNCHANGED <<truth, disk, clr>>

-----------------------------------------------------------------------------
(* halt-clear *)

ClearUnlink ==
  /\ clear = "none" /\ haltFile /\ (ClearWhileRunning \/ proc = "down")
  /\ Spend("clears", MaxClears)
  /\ haltFile' = FALSE /\ clear' = "read"
  /\ UNCHANGED <<truth, proc, loop, polling, memory, kv, logged, clearCum, peak>>

ClearRead ==
  /\ clear = "read"
  /\ clearCum' = kvPnl /\ clear' = "write"
  /\ UNCHANGED <<truth, proc, loop, polling, memory, disk, peak, used>>

AcknowledgedNothing == IF kvHigh = None THEN clearCum ELSE kvHigh
Acknowledged == clearCum

ClearRebase ==
  /\ clear = "write"
  /\ kvHigh' = Acknowledged /\ clear' = "none"
  /\ peak' = IF proc = "down" \/ Cumulative <= clearCum THEN clearCum ELSE Cumulative
  /\ UNCHANGED <<truth, proc, loop, polling, memory, kvPnl, kvSettled, logged, haltFile,
                 clearCum, used>>

-----------------------------------------------------------------------------
Market ==
  \/ \E price \in Prices : Move(price)
  \/ \E value \in {0, Dollar} : Finalize(value)
  \/ PayOut

Process ==
  \/ Load \/ CheckMarker \/ StartFails \/ \E selected \in BOOLEAN : Seed(selected)
  \/ \E log \in BOOLEAN : OnMid(log)
  \/ \E n \in {-1, 1}, price \in Prices : Fill(n, price)
  \/ Flush \/ \E skipped \in BOOLEAN : MarksTick(skipped)
  \/ PollAsk \/ PollAnswer
  \/ \E due \in BOOLEAN : RiskTick(due)
  \/ WritePnl \/ WriteHigh \/ HaltDone \/ Stop \/ CancelTasks \/ Close
  \/ Crash

HaltClear == ClearUnlink \/ ClearRead \/ ClearRebase

Next == Market \/ Process \/ HaltClear

Spec == Init /\ [][Next]_vars

-----------------------------------------------------------------------------
(* Properties *)

TypeOK ==
  /\ status \in {"open", "final"} /\ mark \in Mid /\ held \in Int /\ paid \in Int
  /\ proc \in {"down", "loaded", "starting"} \cup Running
  /\ loop \in {"idle", "pnl", "high", "halting", "done", "close"} /\ polling \in BOOLEAN
  /\ ms \in [position : Int, cash : Int, lastMid : MaybeMid, unvalued : Int,
             settled : BOOLEAN]
  /\ offset \in Int /\ highWater \in Int /\ newHigh \in BOOLEAN /\ top \in BOOLEAN /\ halted \in BOOLEAN
  /\ queued \in MaybeMid /\ logged \in MaybeMid
  /\ kvPnl \in Int /\ kvHigh \in Int \cup {None} /\ kvSettled \in BOOLEAN
  /\ haltFile \in BOOLEAN /\ clear \in {"none", "read", "write"} /\ clearCum \in Int
  /\ peak \in Int /\ used \in [Bounds -> Nat]

\* The equity the kill switch sees is the account's: whatever is bought, marked,
\* settled, paid out and carried over a restart (load_chained_risk, the seeding
\* at the prior session's final mark, the settled markers), cumulative_pnl is the
\* account's cash flow plus its position at the bot's own mark.  It needs every
\* mid logged, a payout that waits for the bot and no crash.
ChainExact ==
  proc \in Running \ {"closing"} =>
    Cumulative = TrueEquity(IF ms.lastMid = None THEN mark ELSE ms.lastMid)

\* A halt is the account's own loss: when the kill switch trips, the equity is
\* Threshold below the level halt-clear acknowledged or one reached since
\* (cmd_halt_clear: "drawdown now measures from the acknowledged level").
HaltIsJustified ==
  [][~halted /\ halted' => peak - Cumulative >= Threshold]_vars

\* The reference of the kill switch chains across sessions: only halt-clear
\* lowers the persisted high-water mark, through crashes and restarts too.
PeakPersists ==
  [][clear' # clear \/ kvHigh = None \/ (kvHigh' # None /\ kvHigh' >= kvHigh)]_vars

\* "a crash must never lose the kill-switch reference peak" (risk_loop): outside the
\* persist itself, a peak above the one on disk is flagged, whichever loop raised
\* it, so that the next round of risk_loop persists without waiting for its minute.
PeakFlagged ==
  Scheduled => newHigh \/ highWater <= LoadedHigh
=============================================================================
