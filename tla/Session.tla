------------------------------- MODULE Session -------------------------------
(***************************************************************************)
(* The process around the workers, from its start to its end, in both      *)
(* modes: cmd_trade ("run", markets from the selector and a standby bench) *)
(* and run_fifteen ("fifteen", windows joined by discovery).  It starts,   *)
(* sweeps what an earlier session left, evicts, reaps, promotes and drops  *)
(* workers, trips the kill switch, loses a task, shuts down, and may die   *)
(* anywhere and be started again.                                          *)
(*                                                                         *)
(* A worker has one order at a time, named by its ticker and its session;  *)
(* what an order and its reference go through otherwise is OrderLifecycle, *)
(* the money is EquityChain and a window's timetable WindowLifecycle.  A   *)
(* position is held or not.  The adapter's calls are awaited: their        *)
(* effect at the exchange is taken when they are answered.                 *)
(***************************************************************************)
EXTENDS Naturals, FiniteSets

CONSTANTS
  Tickers,
  Modes,      \* the modes explored, a subset of {"run", "fifteen"}
  MaxStarts, MaxEvents \* bounds

ASSUME SessionAssumption ==
  /\ Modes \subseteq {"run", "fifteen"}
  /\ MaxStarts \in Nat /\ MaxEvents \in Nat
  /\ IsFiniteSet(Tickers)

VARIABLES
  \* Kalshi
  resting,   \* the orders on the book
  sent,      \* creates approved and not yet served
  held,      \* tickers the account has a position in
  over,      \* closed windows
  \* the data directory
  marker,    \* the HALTED file
  ev,        \* the market_evicted event of a ticker: queued, in the open transaction, kept
  \* the process
  mode, proc, session,
  halted, stop, died, \* risk.halted, stop_event, a task died
  picks,     \* the selector's picks, until their workers are made
  standby,   \* the bench
  atStart,   \* run's `positions`
  known,     \* risk.markets with a position
  roster,    \* the workers dict: none, quotes, winds (reduce_only), out (evicted or reaped)
  owed,      \* evicted and not replaced
  armed,     \* the loops that change the dict and are past their test of stop_event
  cycle,     \* what the worker awaits in _requote
  ref,       \* workers that track an order
  \* cancel_all_orders, awaited by the start, the kill switch or the shutdown
  stage,
  \* the finally block
  size,      \* the dict's size when the loop over it began
  told,      \* workers whose stop() was called
  awaited,   \* the one whose stop() is awaited
  persisted, \* persist_pnl_marks was done
  exit,      \* how the process ended
  report,    \* what the shutdown logged
  \* history and bounds
  caught,    \* tickers whose position came to light after their worker went out
  used

kalshi   == <<resting, sent, held, over>>
disk     == <<marker, ev>>
process  == <<mode, proc, session>>
flags    == <<halted, stop, died>>
chosen   == <<picks, standby, atStart>>
crew     == <<roster, owed, armed>>
work     == <<cycle, ref>>
ending   == <<size, told, awaited>>
outcome  == <<persisted, exit, report>>
vars == <<kalshi, disk, process, flags, chosen, known, crew, work, stage,
          ending, outcome, caught, used>>

Orders  == Tickers \X (1 .. MaxStarts)
Mine(t) == <<t, session>>
Of(o)   == o[1]
Workers == {t \in Tickers : roster[t] # "none"}
Tracked == {Mine(t) : t \in ref}
Loops   == IF mode = "run" THEN {"bench"} ELSE {"discovery", "pull"}

\* The tasks run: spawned and not yet cancelled.  When stop_event is set the main
\* task is woken at once; a turn another task has before it is one it had before.
Live == proc = "stopping" \/ (proc = "running" /\ ~stop)

\* A fill or a fault; together they are bounded.
Event == used < MaxEvents /\ used' = used + 1

\* Seeded bug: evicted and reaped workers are not managed any more.
ActiveManaged == {t \in Workers : roster[t] # "out"} \cup known \cup picks

\* managed_tickers: every worker, evicted or not, every position, and at the start
\* the selection.
Managed == Workers \cup known \cup picks

\* Events in the queue or in an open transaction die with the process.
Lost == [t \in Tickers |-> IF ev[t] = "kept" THEN "kept" ELSE "none"]
Kept == [t \in Tickers |-> IF ev[t] = "none" THEN "none" ELSE "kept"]

\* The process ends, and its memory with it.
Ends ==
  /\ proc' = "down"
  /\ halted' = FALSE /\ stop' = FALSE /\ died' = FALSE
  /\ picks' = {} /\ standby' = {} /\ atStart' = {} /\ known' = {}
  /\ roster' = [t \in Tickers |-> "none"] /\ owed' = {} /\ armed' = {}
  /\ cycle' = [t \in Tickers |-> "idle"] /\ ref' = {}
  /\ stage' = "none"
  /\ size' = 0 /\ told' = {} /\ awaited' = {} /\ caught' = {}

Init ==
  /\ resting = {} /\ sent = {} /\ held = {} /\ over = {}
  /\ marker = FALSE /\ ev = [t \in Tickers |-> "none"]
  /\ mode \in Modes /\ proc = "down" /\ session = 0
  /\ halted = FALSE /\ stop = FALSE /\ died = FALSE
  /\ picks = {} /\ standby = {} /\ atStart = {} /\ known = {}
  /\ roster = [t \in Tickers |-> "none"] /\ owed = {} /\ armed = {}
  /\ cycle = [t \in Tickers |-> "idle"] /\ ref = {}
  /\ stage = "none"
  /\ size = 0 /\ told = {} /\ awaited = {}
  /\ persisted = FALSE /\ exit = "none" /\ report = "none"
  /\ caught = {} /\ used = 0

-----------------------------------------------------------------------------
(* The exchange.                                                           *)

\* A create is served: the order rests, unless it is refused or lost or its
\* window has closed.  Nobody need be waiting for the answer any more.
Land(o) ==
  /\ o \in sent
  /\ sent' = sent \ {o}
  /\ \/ Of(o) \notin over /\ resting' = resting \cup {o}
     \/ UNCHANGED resting
  /\ UNCHANGED <<held, over, disk, process, flags, chosen, known, crew, work, stage,
                 ending, outcome, caught, used>>

\* Its TTL, or a pause, takes an order off the book.
Expire(o) ==
  /\ o \in resting
  /\ resting' = resting \ {o}
  /\ UNCHANGED <<sent, held, over, disk, process, flags, chosen, known, crew, work, stage,
                 ending, outcome, caught, used>>

\* An order trades; the fill is dispatched while the tasks live, unless the
\* stream is not connected.  It opens a position or takes one to flat.
Fill(o, flat, heard) ==
  LET t == Of(o) IN
  /\ o \in resting /\ Event
  /\ flat => t \in held
  /\ heard => Live
  /\ resting' = resting \ {o}
  /\ held' = IF flat THEN held \ {t} ELSE held \cup {t}
  /\ known' = IF ~heard THEN known ELSE IF flat THEN known \ {t} ELSE known \cup {t}
  /\ ref' = IF heard /\ o = Mine(t) THEN ref \ {t} ELSE ref
  /\ caught' = IF heard /\ roster[t] = "out" THEN caught \cup {t} ELSE caught
  /\ UNCHANGED <<sent, over, disk, process, flags, chosen, crew, cycle, stage,
                 ending, outcome>>

\* A window closes: its orders are gone.
Close(t) ==
  /\ mode = "fifteen" /\ t \notin over
  /\ over' = over \cup {t}
  /\ resting' = {o \in resting : Of(o) # t}
  /\ UNCHANGED <<sent, held, disk, process, flags, chosen, known, crew, work, stage,
                 ending, outcome, caught, used>>

-----------------------------------------------------------------------------
(* The start.                                                              *)

\* Seeded bug: no penalty box.
StartUnboxed ==
  /\ proc = "down" /\ session < MaxStarts /\ mode = "run" /\ ~marker
  /\ \E P, S \in SUBSET Tickers : P \cap S = {} /\ picks' = P /\ standby' = S
  /\ proc' = "reading" /\ session' = session + 1
  /\ persisted' = FALSE /\ exit' = "none" /\ report' = "none"
  /\ UNCHANGED <<kalshi, disk, mode, flags, atStart, known, crew, work, stage, ending,
                 caught, used>>

\* The lock is taken, the marker tested, and the selector chooses from what is
\* not in the penalty box: evicted in a session whose events reached the table.
StartRun ==
  /\ proc = "down" /\ session < MaxStarts /\ mode = "run" /\ ~marker
  /\ \E P, S \in SUBSET {t \in Tickers : ev[t] # "kept"} :
        P \cap S = {} /\ picks' = P /\ standby' = S
  /\ proc' = "reading" /\ session' = session + 1
  /\ persisted' = FALSE /\ exit' = "none" /\ report' = "none"
  /\ UNCHANGED <<kalshi, disk, mode, flags, atStart, known, crew, work, stage, ending,
                 caught, used>>

\* run_fifteen idles on the marker instead of exiting.
StartFifteen ==
  /\ proc = "down" /\ session < MaxStarts /\ mode = "fifteen"
  /\ proc' = IF marker THEN "idle" ELSE "reading"
  /\ session' = session + 1
  /\ persisted' = FALSE /\ exit' = "none" /\ report' = "none"
  /\ UNCHANGED <<kalshi, disk, mode, flags, chosen, known, crew, work, stage, ending,
                 caught, used>>

\* _idle_until_halt_cleared: the marker is gone, or a signal.
IdleEnds ==
  /\ proc = "idle" /\ (~marker \/ stop)
  /\ Ends
  /\ UNCHANGED <<kalshi, disk, mode, session, outcome, used>>

\* The positions are read and seeded, and the startup sweep is asked for; with
\* nothing picked and nothing held there is nothing to do.
ReadPositions ==
  /\ proc = "reading"
  /\ atStart' = held /\ known' = held
  /\ IF mode = "run" /\ picks = {} /\ held = {}
     THEN proc' = "sweeping"
     ELSE proc' = "cleaning"
  /\ stage' = "asked"
  /\ UNCHANGED <<kalshi, disk, mode, session, flags, picks, standby, crew, work,
                 ending, outcome, caught, used>>

\* A REST call fails, or the order group is required and refused: the finally
\* block runs with no workers.
StartFails ==
  /\ proc \in {"reading", "cleaning"} /\ Event
  /\ proc' = "sweeping" /\ stage' = "asked" /\ picks' = {}
  /\ UNCHANGED <<kalshi, disk, mode, session, flags, standby, atStart, known, crew, work,
                 ending, outcome, caught>>

\* The workers are made and every loop is spawned.
StartDone ==
  /\ proc = "cleaning" /\ stage = "done"
  /\ roster' = [t \in Tickers |->
                  IF t \in picks THEN "quotes"
                  ELSE IF mode = "run" /\ t \in atStart THEN "winds" ELSE "none"]
  /\ picks' = {} /\ armed' = IF stop THEN {} ELSE Loops
  /\ proc' = "running" /\ stage' = "none"
  /\ UNCHANGED <<kalshi, disk, mode, session, flags, standby, atStart, known, owed, work,
                 ending, outcome, caught, used>>

-----------------------------------------------------------------------------
(* cancel_all_orders(tickers = managed), by whoever awaits it: what rests  *)
(* when it lists is cancelled, what lands later is not.                    *)

CancelAll ==
  /\ stage = "asked"
  /\ resting' = {o \in resting : Of(o) \notin Managed} /\ stage' = "done"
  /\ UNCHANGED <<sent, held, over, disk, process, flags, chosen, known, crew, work,
                 ending, outcome, caught, used>>

-----------------------------------------------------------------------------
(* A worker.                                                               *)

Quoting(t) == roster[t] = "quotes" \/ (roster[t] = "winds" /\ t \in known)

\* run() tests _stopped and halted before _requote.
Turns(t) == Live /\ cycle[t] = "idle" /\ roster[t] # "none" /\ t \notin told /\ ~halted

\* Seeded bug: run() tests halted, approve_order does not.
ApprovedHalted == TRUE

\* approve_order refuses once the kill switch has tripped.
Approved == ~halted

\* Nothing tracked: the create is approved and sent in one go.
Quote(t) ==
  /\ Turns(t) /\ Quoting(t) /\ t \notin ref /\ Mine(t) \notin sent \cup resting /\ Approved
  /\ sent' = sent \cup {Mine(t)} /\ cycle' = [cycle EXCEPT ![t] = "create"]
  /\ UNCHANGED <<resting, held, over, disk, process, flags, chosen, known, crew, ref, stage,
                 ending, outcome, caught, used>>

\* Something tracked: it is cancelled first, to be replaced or not.
Cancel(t) ==
  /\ Turns(t) /\ t \in ref
  /\ cycle' = [cycle EXCEPT ![t] = IF Quoting(t) THEN "replace" ELSE "withdraw"]
  /\ UNCHANGED <<kalshi, disk, process, flags, chosen, known, crew, ref, stage,
                 ending, outcome, caught, used>>

\* The cancel is answered.  What was decided before it is carried out, whatever
\* has happened to the worker since: only the risk gate is asked again.
CancelAnswered(t) ==
  /\ Live /\ cycle[t] \in {"replace", "withdraw"}
  /\ resting' = resting \ {Mine(t)} /\ ref' = ref \ {t}
  /\ \/ /\ cycle[t] = "replace" /\ Approved /\ Mine(t) \notin sent
        /\ sent' = sent \cup {Mine(t)} /\ cycle' = [cycle EXCEPT ![t] = "create"]
     \/ UNCHANGED sent /\ cycle' = [cycle EXCEPT ![t] = "idle"]
  /\ UNCHANGED <<held, over, disk, process, flags, chosen, known, crew, stage,
                 ending, outcome, caught, used>>

CreateAnswered(t) ==
  /\ Live /\ cycle[t] = "create" /\ Mine(t) \notin sent
  /\ ref' = IF Mine(t) \in resting THEN ref \cup {t} ELSE ref
  /\ cycle' = [cycle EXCEPT ![t] = "idle"]
  /\ UNCHANGED <<kalshi, disk, process, flags, chosen, known, crew, stage, ending,
                 outcome, caught, used>>

\* Seeded bug: inventory is not looked at.
OutAlways(t) == "out"

\* Where a worker that stops quoting goes: wind-down if there is inventory.
OutOrWinds(t) == IF t \in known THEN "winds" ELSE "out"

\* A guard trip is confirmed once too often.  The event is only queued.
Evict(t) ==
  /\ mode = "run" /\ Turns(t) /\ roster[t] = "quotes"
  /\ roster' = [roster EXCEPT ![t] = OutOrWinds(t)]
  /\ ev' = [ev EXCEPT ![t] = "queued"] /\ owed' = owed \cup {t}
  /\ cycle' = [cycle EXCEPT ![t] =
                 IF t \notin ref THEN "idle" ELSE IF t \in known THEN "replace" ELSE "withdraw"]
  /\ UNCHANGED <<kalshi, marker, process, flags, chosen, known, armed, ref, stage,
                 ending, outcome, caught, used>>

\* reap_closing_markets: the market is about to close.
Reap(t) ==
  /\ mode = "run" /\ Live /\ roster[t] = "quotes"
  /\ roster' = [roster EXCEPT ![t] = OutOrWinds(t)]
  /\ UNCHANGED <<kalshi, disk, process, flags, chosen, known, owed, armed, work, stage,
                 ending, outcome, caught, used>>

-----------------------------------------------------------------------------
(* The loops that change the workers dict.                                 *)

\* After its body and its sleep a loop tests stop_event, and only there.
Rearm(loop) == armed' = IF stop THEN armed \ {loop} ELSE armed

\* bench_loop, after its sleep: every evicted worker not replaced yet gets the
\* next of the bench, seeded with the position read at the start.
Promote ==
  /\ mode = "run" /\ Live /\ "bench" \in armed
  /\ \E new \in SUBSET (standby \ Workers) :
       /\ Cardinality(new) = IF Cardinality(owed) < Cardinality(standby \ Workers)
                             THEN Cardinality(owed) ELSE Cardinality(standby \ Workers)
       /\ roster' = [t \in Tickers |-> IF t \in new THEN "quotes" ELSE roster[t]]
       /\ known' = (known \ new) \cup (new \cap atStart)
       /\ standby' = standby \ (IF owed = {} THEN new ELSE Workers \cup new)
  /\ owed' = {} /\ Rearm("bench")
  /\ UNCHANGED <<kalshi, disk, process, flags, picks, atStart, work, stage, ending,
                 outcome, caught, used>>

\* discovery_loop, once the listing is answered: a worker for every open window
\* without one.
Discover ==
  /\ mode = "fifteen" /\ Live /\ "discovery" \in armed
  /\ \E new \in SUBSET (Tickers \ (over \cup Workers)) :
       /\ roster' = [t \in Tickers |-> IF t \in new THEN "quotes" ELSE roster[t]]
       /\ known' = (known \ new) \cup (new \cap atStart)
  /\ Rearm("discovery")
  /\ UNCHANGED <<kalshi, disk, process, flags, chosen, owed, work, stage, ending,
                 outcome, caught, used>>

\* pull_loop evicts the worker of a closed window.  What it holds rides to the
\* settlement, which the poll realises; flat, and after a grace period longer than
\* any call, it leaves the dict.
Retire(t) ==
  /\ mode = "fifteen" /\ Live /\ "pull" \in armed /\ t \in over
  /\ roster[t] = "quotes"
  /\ roster' = [roster EXCEPT ![t] = "out"]
  /\ Rearm("pull")
  /\ UNCHANGED <<kalshi, disk, process, flags, chosen, known, owed, work, stage,
                 ending, outcome, caught, used>>

Settle(t) ==
  /\ Live /\ t \in over /\ t \in held
  /\ held' = held \ {t} /\ known' = known \ {t}
  /\ UNCHANGED <<resting, sent, over, disk, process, flags, chosen, crew, work, stage,
                 ending, outcome, caught, used>>

Remove(t) ==
  /\ mode = "fifteen" /\ Live /\ "pull" \in armed
  /\ roster[t] = "out" /\ t \notin known /\ cycle[t] = "idle"
  /\ roster' = [roster EXCEPT ![t] = "none"] /\ ref' = ref \ {t}
  /\ Rearm("pull")
  /\ UNCHANGED <<kalshi, disk, process, flags, chosen, known, owed, cycle, stage,
                 ending, outcome, caught, used>>

-----------------------------------------------------------------------------
(* The kill switch, the supervision of tasks, the operator.                *)

\* risk_loop: halt() writes the marker, and the cancel-all is asked for with
\* the tickers managed now.
KillSwitch ==
  /\ Live /\ ~halted
  /\ halted' = TRUE /\ marker' = TRUE
  /\ stage' = "asked"
  /\ UNCHANGED <<kalshi, ev, process, stop, died, chosen, known, crew, work, ending,
                 outcome, caught, used>>

\* It sets stop_event when its cancel-all is through, or has failed.
HaltDone ==
  /\ Live /\ stage # "none"
  /\ \/ stage = "done" /\ UNCHANGED used
     \/ Event
  /\ stop' = TRUE /\ stage' = "none"
  /\ UNCHANGED <<kalshi, disk, process, halted, died, chosen, known, crew, work,
                 ending, outcome, caught>>

\* Seeded bug: a dead task is only logged.
TaskDiesSilently ==
  /\ Live /\ ~stop /\ Event
  /\ died' = TRUE
  /\ UNCHANGED <<kalshi, disk, process, halted, stop, chosen, known, crew, work, stage, ending,
                 outcome, caught>>

\* supervise: a task that ends with an exception sets stop_event.
TaskDies ==
  /\ Live /\ ~stop /\ Event
  /\ died' = TRUE /\ stop' = TRUE
  /\ UNCHANGED <<kalshi, disk, process, halted, chosen, known, crew, work, stage, ending,
                 outcome, caught>>

\* risk_loop dies in the kill switch itself: writing the marker or the event fails.
KillSwitchDies ==
  /\ Live /\ ~halted /\ ~stop /\ Event
  /\ halted' = TRUE /\ marker' \in {marker, TRUE} /\ died' = TRUE /\ stop' = TRUE
  /\ UNCHANGED <<kalshi, ev, process, chosen, known, crew, work, stage, ending,
                 outcome, caught>>

Signal ==
  /\ proc \notin {"down", "sweeping"} /\ ~stop
  /\ stop' = TRUE
  /\ UNCHANGED <<kalshi, disk, process, halted, died, chosen, known, crew, work, stage,
                 ending, outcome, caught, used>>

\* halt-clear, a process of its own.
ClearHalt ==
  /\ marker /\ marker' = FALSE
  /\ UNCHANGED <<kalshi, ev, process, flags, chosen, known, crew, work, stage, ending,
                 outcome, caught, used>>

-----------------------------------------------------------------------------
(* The event log.                                                          *)

\* flush: one transaction.  When the mids fail after the events, the queue of
\* events is already cleared and their rows wait for the next commit.
Flush(ok) ==
  /\ Live
  /\ IF ok THEN ev' = Kept /\ UNCHANGED used
     ELSE ev' = [t \in Tickers |-> IF ev[t] = "queued" THEN "open" ELSE ev[t]] /\ Event
  /\ UNCHANGED <<kalshi, marker, process, flags, chosen, known, crew, work, stage,
                 ending, outcome, caught>>

-----------------------------------------------------------------------------
(* The reconcile task: orders nobody tracks, references to orders that are *)
(* gone, positions nobody knows.                                           *)

\* Seeded bug: only orders on managed tickers.
ReconcileManagedOrphan(o) ==
  /\ Live /\ o \in resting \ Tracked /\ Of(o) \in Managed
  /\ resting' = resting \ {o}
  /\ UNCHANGED <<sent, held, over, disk, process, flags, chosen, known, crew, work, stage,
                 ending, outcome, caught, used>>

ReconcileOrphan(o) ==
  /\ Live /\ o \in resting \ Tracked
  /\ resting' = resting \ {o}
  /\ UNCHANGED <<sent, held, over, disk, process, flags, chosen, known, crew, work, stage,
                 ending, outcome, caught, used>>

ReconcileVanished(t) ==
  /\ Live /\ t \in ref /\ Mine(t) \notin resting
  /\ ref' = ref \ {t}
  /\ UNCHANGED <<kalshi, disk, process, flags, chosen, known, crew, cycle, stage, ending,
                 outcome, caught, used>>

ReconcilePositions ==
  /\ Live /\ known # held
  /\ known' = held
  /\ caught' = caught \cup {t \in held \ known : roster[t] = "out"}
  /\ UNCHANGED <<kalshi, disk, process, flags, chosen, crew, work, stage, ending, outcome,
                 used>>

-----------------------------------------------------------------------------
(* The finally block.                                                      *)

\* The tasks are cancelled, whatever they await; then the final cancel-all.
CancelTasks ==
  /\ proc' = "sweeping"
  /\ armed' = {} /\ cycle' = [t \in Tickers |-> "idle"]
  /\ stage' = "asked"
  /\ awaited' = {}

\* The loop over the dict goes on: workers that track nothing are stopped
\* without an await, up to the next that does.
NextStop(called, refs) ==
  \/ \E t \in (Workers \cap refs) \ called, F \in SUBSET ((Workers \ refs) \ called) :
       /\ told' = called \cup F \cup {t} /\ awaited' = {t} /\ proc' = "stopping"
       /\ UNCHANGED <<armed, cycle, stage>>
  \/ /\ (Workers \cap refs) \ called = {}
     /\ told' = called \cup Workers /\ CancelTasks

StopSeen ==
  /\ proc = "running" /\ stop
  /\ size' = Cardinality(Workers)
  /\ NextStop({}, ref)
  /\ UNCHANGED <<kalshi, disk, mode, session, flags, chosen, known, roster, owed, ref,
                 outcome, caught, used>>

\* stop() has cancelled the tracked order, or failed to, and drops the
\* reference; the loop goes on if the dict still has its size.
StopAnswered(ok) ==
  /\ proc = "stopping" /\ Cardinality(Workers) = size
  /\ ref' = ref \ awaited
  /\ IF ok THEN resting' = {o \in resting : \A t \in awaited : o # Mine(t)} /\ UNCHANGED used
     ELSE UNCHANGED resting /\ Event
  /\ NextStop(told, ref \ awaited)
  /\ UNCHANGED <<sent, held, over, disk, mode, session, flags, chosen, known, roster, owed,
                 size, outcome, caught>>

\* "dictionary changed size during iteration" leaves the finally block: no
\* cancel-all, no persist_pnl_marks, no close of the event log.
Breaks ==
  /\ proc = "stopping" /\ Cardinality(Workers) # size
  /\ resting' = {o \in resting : \A t \in awaited : o # Mine(t)}
  /\ Ends /\ exit' = "stop" /\ ev' = Lost
  /\ UNCHANGED <<sent, held, over, marker, mode, session, persisted, report, used>>

\* What still rests on the managed tickers is listed again and reported; from
\* there to the end nothing is awaited.
Finish(ok, drained) ==
  /\ proc = "sweeping"
  /\ \/ stage = "done" /\ ok
     \/ ~ok
  /\ report' = IF ~ok THEN "failed"
               ELSE IF \E o \in resting : Of(o) \in Managed THEN "straggling" ELSE "clean"
  /\ ev' = IF drained THEN Kept ELSE Lost
  /\ IF ok /\ drained THEN UNCHANGED used ELSE Event
  /\ persisted' = TRUE
  /\ Ends /\ exit' = "stop"
  /\ UNCHANGED <<kalshi, marker, mode, session>>

Crash ==
  /\ proc # "down" /\ Event
  /\ Ends /\ exit' = "crash" /\ ev' = Lost
  /\ UNCHANGED <<kalshi, marker, mode, session, persisted, report>>

-----------------------------------------------------------------------------
Exchange ==
  \/ \E o \in Orders : Land(o) \/ Expire(o)
  \/ \E o \in Orders, flat, heard \in BOOLEAN : Fill(o, flat, heard)
  \/ \E t \in Tickers : Close(t)
Start == StartRun \/ StartFifteen \/ IdleEnds \/ ReadPositions \/ StartFails \/ StartDone
Worker(t) ==
  Quote(t) \/ Cancel(t) \/ CancelAnswered(t) \/ CreateAnswered(t) \/ Evict(t) \/ Reap(t)
Dict == Promote \/ Discover \/ \E t \in Tickers : Retire(t) \/ Settle(t) \/ Remove(t)
Alarms == KillSwitch \/ HaltDone \/ TaskDies \/ KillSwitchDies \/ Signal \/ ClearHalt
Reconcile ==
  \/ \E o \in Orders : ReconcileOrphan(o)
  \/ \E t \in Tickers : ReconcileVanished(t)
  \/ ReconcilePositions
Shutdown ==
  \/ StopSeen \/ Breaks
  \/ \E ok \in BOOLEAN : StopAnswered(ok)
  \/ \E ok, drained \in BOOLEAN : Finish(ok, drained)

Next ==
  \/ Exchange \/ Start \/ CancelAll \/ (\E t \in Tickers : Worker(t)) \/ Dict
  \/ Alarms \/ (\E ok \in BOOLEAN : Flush(ok)) \/ Reconcile \/ Shutdown \/ Crash

Spec == Init /\ [][Next]_vars

\* The main task and the kill switch's cancel-all go on, and the reconcile task
\* passes over every order again and again; nothing is assumed of the workers, of
\* the exchange's own steps or of the operator.
Fairness ==
  /\ WF_vars(Shutdown) /\ WF_vars(CancelAll) /\ WF_vars(HaltDone)
  /\ \A o \in Orders : WF_vars(ReconcileOrphan(o))

FairSpec == Spec /\ Fairness

-----------------------------------------------------------------------------
(* Properties.                                                             *)

TypeOK ==
  /\ resting \subseteq Orders /\ sent \subseteq Orders
  /\ held \subseteq Tickers /\ over \subseteq Tickers
  /\ marker \in BOOLEAN /\ ev \in [Tickers -> {"none", "queued", "open", "kept"}]
  /\ mode \in {"run", "fifteen"} /\ session \in 0 .. MaxStarts
  /\ proc \in {"down", "idle", "reading", "cleaning", "running", "stopping", "sweeping"}
  /\ halted \in BOOLEAN /\ stop \in BOOLEAN /\ died \in BOOLEAN
  /\ picks \subseteq Tickers /\ standby \subseteq Tickers /\ atStart \subseteq Tickers
  /\ known \subseteq Tickers
  /\ roster \in [Tickers -> {"none", "quotes", "winds", "out"}]
  /\ owed \subseteq Tickers /\ armed \subseteq {"bench", "discovery", "pull"}
  /\ cycle \in [Tickers -> {"idle", "replace", "withdraw", "create"}] /\ ref \subseteq Tickers
  /\ stage \in {"none", "asked", "done"}
  /\ size \in Nat /\ told \subseteq Tickers /\ awaited \subseteq Tickers
  /\ persisted \in BOOLEAN /\ exit \in {"none", "stop", "crash"}
  /\ report \in {"none", "clean", "straggling", "failed"}
  /\ caught \subseteq Tickers
  /\ proc = "down" \/ session # 0
  /\ proc \in {"running", "stopping"} \/ (\A t \in Tickers : cycle[t] = "idle")
  /\ used \in 0 .. MaxEvents

\* Once the HALTED marker is written or the kill switch has tripped no order is
\* approved any more: not by a worker in the middle of a cycle, not while the
\* process is on its way down or halt-clear runs beside it, and not by the next
\* session.  (RiskManager.halt, approve_order, check_halt_file)
HaltHolds == [][marker \/ halted => sent' \subseteq sent]_vars

\* When a shutdown reports that no order rests, none of this session's orders
\* does: the tickers it looked at cover every order it may have on the book, those
\* of evicted workers, of promoted ones and of dropped windows included.
\* (the finally block, managed_tickers)
ShutdownClean ==
  [][report' = "clean" /\ report # "clean" => \A o \in resting : o[2] # session]_vars

\* A market evicted by the guard is not quoted again, in its session or, once the
\* event has reached the database, in a later one.
\* (bench_loop, the penalty box, EventLog.flush and close)
EvictedStaysOut == \A t \in Tickers : roster[t] = "quotes" => ev[t] = "none"

\* Inventory whose worker has gone dark came to light after the worker did: by an
\* order that was still at work, or by the reconcile task.  (_resolve_guard_trip,
\* reap_closing_markets: "never abandon inventory")
NeverAbandoned ==
  \A t \in Tickers : roster[t] = "out" /\ t \in known => t \in caught \cup over

\* A dead task or a tripped kill switch ends in the end of the process, whatever
\* else is going on.  (supervise, risk_loop, the finally block)
AlarmsStop == died \/ halted ~> proc = "down"

\* An order an earlier session left behind goes while a session runs, on whatever
\* ticker it is: the startup sweep covers the managed ones, the reconcile task the
\* rest.  (run_fifteen's startup hygiene, reconcile_pass)
LeftoversGo ==
  \A o \in Orders :
    o \in resting /\ o[2] < session /\ proc = "running" ~> o \notin resting \/ proc # "running"

\* Every way down but a crash leaves the equity chain durable.
\* (main.py: "leave the equity chain durable on every exit")
ShutdownCompletes == proc = "down" /\ exit = "stop" => persisted
=============================================================================
