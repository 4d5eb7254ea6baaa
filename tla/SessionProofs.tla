---------------------------- MODULE SessionProofs ----------------------------
(***************************************************************************)
(* Proofs about Session, for any tickers, modes and bounds.                *)
(*                                                                         *)
(* The invariants below are what the properties of Session rest on, in     *)
(* three chains:                                                           *)
(*   - a marker left on disk keeps a later session from starting, one      *)
(*     written beside a session finds its kill switch tripped (MarkerSeen),*)
(*     so that nothing is approved (HaltHolds);                            *)
(*   - an order of this session is on a ticker whose worker is still in    *)
(*     the dict, or whose window has closed (Covered), so that what the    *)
(*     last listing leaves out cannot rest (ShutdownClean);                *)
(*   - what may still be given a worker has no eviction event (Screened),  *)
(*     and apart from it no worker quotes (EvictedStaysOut).               *)
(* Each is carried by one lemma, with a step for every action.             *)
(***************************************************************************)
EXTENDS Session, FiniteSetTheorems, TLAPS

\* A session that got past its start with the marker present has halted.
MarkerSeen == marker /\ proc \notin {"down", "idle"} => halted

\* Workers are made when the start is done.
NoCrewYet == proc \in {"down", "idle", "reading", "cleaning"} => Workers = {}

\* A worker leaves the dict only between two calls.
InTheDict == \A t \in Tickers : cycle[t] # "idle" => t \in Workers

\* In fifteen-minute mode only a closed window's worker is out.
OutIsOver == \A t \in Tickers : mode = "fifteen" /\ roster[t] = "out" => t \in over

\* No order is named after a session to come.
NamedBefore == \A o \in resting \cup sent : o[2] <= session

\* Nothing rests on a closed window, and only fifteen-minute windows close.
OpenOnly == (\A o \in resting : Of(o) \notin over) /\ (mode = "run" => over = {})

\* This session's orders are on tickers that are in the dict or over.
Covered == \A t \in Tickers :
  proc # "down" /\ Mine(t) \in resting \cup sent => t \in Workers \cup over

\* Between two sessions an event is in the table or lost.
Landed == proc \in {"down", "idle", "reading", "cleaning"} =>
            \A t \in Tickers : ev[t] \in {"none", "kept"}

\* Neither a pick nor a market on the bench was evicted.
Screened == \A t \in picks \cup standby : ev[t] = "none"

\* A market is picked, on the bench or quoted: one of the three.
Apart ==
  /\ picks \cap standby = {}
  /\ picks # {} => proc \in {"reading", "cleaning"}
  /\ \A t \in standby : roster[t] # "quotes"

\* Fifteen-minute mode has no bench and evicts by the clock only.
NoBench == mode = "fifteen" => picks = {} /\ standby = {} /\ \A t \in Tickers : ev[t] = "none"

\* Every step keeps the types (all the handlers of the session).
LEMMA TypeStep ==
  ASSUME TypeOK, [Next]_vars
  PROVE  TypeOK'
<1> USE DEF kalshi, disk, process, flags, chosen, crew, work, ending, outcome,
        TypeOK, Orders, Tracked
<1>1. ASSUME NEW o \in Orders, Land(o) PROVE TypeOK'
  BY <1>1, SessionAssumption DEF Land, Of
<1>2. ASSUME NEW o \in Orders, Expire(o) PROVE TypeOK'
  BY <1>2, SessionAssumption DEF Expire
<1>3. ASSUME NEW o \in Orders, NEW flat \in BOOLEAN, NEW heard \in BOOLEAN, Fill(o, flat, heard)
      PROVE TypeOK'
  BY <1>3, SessionAssumption DEF Fill, Of, Event, Live
<1>4. ASSUME NEW t \in Tickers, Close(t) PROVE TypeOK'
  BY <1>4, SessionAssumption DEF Close, Of
<1>5. ASSUME StartRun PROVE TypeOK'
  <2>1. session' \in 0 .. MaxStarts /\ session' # 0
    BY <1>5, SessionAssumption DEF StartRun
  <2>2. picks' \subseteq Tickers /\ standby' \subseteq Tickers
    BY <1>5 DEF StartRun
  <2>3. proc' \in {"idle", "reading"}
    BY <1>5 DEF StartRun
  <2>4. persisted' \in BOOLEAN /\ exit' \in {"none", "stop", "crash"} /\ report' \in {"none", "clean", "straggling", "failed"}
    BY <1>5 DEF StartRun
  <2> QED
    BY <1>5, <2>1, <2>2, <2>3, <2>4 DEF StartRun
<1>6. ASSUME StartFifteen PROVE TypeOK'
  <2>1. session' \in 0 .. MaxStarts /\ session' # 0
    BY <1>6, SessionAssumption DEF StartFifteen
  <2>2. picks' \subseteq Tickers /\ standby' \subseteq Tickers
    BY <1>6 DEF StartFifteen
  <2>3. proc' \in {"idle", "reading"}
    BY <1>6 DEF StartFifteen
  <2>4. persisted' \in BOOLEAN /\ exit' \in {"none", "stop", "crash"} /\ report' \in {"none", "clean", "straggling", "failed"}
    BY <1>6 DEF StartFifteen
  <2> QED
    BY <1>6, <2>1, <2>2, <2>3, <2>4 DEF StartFifteen
<1>7. ASSUME IdleEnds PROVE TypeOK'
  BY <1>7, SessionAssumption DEF IdleEnds, Ends
<1>8. ASSUME ReadPositions PROVE TypeOK'
  <2>1. proc' \in {"sweeping", "cleaning"}
    BY <1>8 DEF ReadPositions
  <2>2. \A t \in Tickers : cycle'[t] = "idle"
    BY <1>8 DEF ReadPositions
  <2>3. atStart' \subseteq Tickers /\ known' \subseteq Tickers
    BY <1>8 DEF ReadPositions
  <2> QED
    BY <1>8, <2>1, <2>2, <2>3 DEF ReadPositions
<1>9. ASSUME StartFails PROVE TypeOK'
  <2>1. proc' = "sweeping" /\ picks' = {}
    BY <1>9 DEF StartFails
  <2>2. used' \in 0 .. MaxEvents
    BY <1>9, SessionAssumption DEF Event, StartFails
  <2>3. \A t \in Tickers : cycle'[t] = "idle"
    BY <1>9 DEF StartFails
  <2> QED
    BY <1>9, <2>1, <2>2, <2>3 DEF StartFails
<1>10. ASSUME StartDone PROVE TypeOK'
  BY <1>10, SessionAssumption DEF StartDone, Loops
<1>11. ASSUME CancelAll PROVE TypeOK'
  BY <1>11, SessionAssumption DEF CancelAll, Of, Managed
<1>12. ASSUME NEW t \in Tickers, Quote(t) PROVE TypeOK'
  BY <1>12, SessionAssumption DEF Quote, Turns, Quoting, Approved, Mine, Live
<1>13. ASSUME NEW t \in Tickers, Cancel(t) PROVE TypeOK'
  BY <1>13, SessionAssumption DEF Cancel, Turns, Quoting, Live
<1>14. ASSUME NEW t \in Tickers, CancelAnswered(t) PROVE TypeOK'
  BY <1>14, SessionAssumption DEF CancelAnswered, Approved, Mine, Live
<1>15. ASSUME NEW t \in Tickers, CreateAnswered(t) PROVE TypeOK'
  BY <1>15, SessionAssumption DEF CreateAnswered, Mine, Live
<1>16. ASSUME NEW t \in Tickers, Evict(t) PROVE TypeOK'
  BY <1>16, SessionAssumption DEF Evict, Turns, OutOrWinds, Live
<1>17. ASSUME NEW t \in Tickers, Reap(t) PROVE TypeOK'
  BY <1>17, SessionAssumption DEF Reap, OutOrWinds, Live
<1>18. ASSUME Promote PROVE TypeOK'
  BY <1>18, SessionAssumption DEF Promote, Workers, Rearm, Live
<1>19. ASSUME Discover PROVE TypeOK'
  BY <1>19, SessionAssumption DEF Discover, Workers, Rearm, Live
<1>20. ASSUME NEW t \in Tickers, Retire(t) PROVE TypeOK'
  BY <1>20, SessionAssumption DEF Retire, Rearm, Live
<1>21. ASSUME NEW t \in Tickers, Settle(t) PROVE TypeOK'
  BY <1>21, SessionAssumption DEF Settle, Live
<1>22. ASSUME NEW t \in Tickers, Remove(t) PROVE TypeOK'
  BY <1>22, SessionAssumption DEF Remove, Rearm, Live
<1>23. ASSUME KillSwitch PROVE TypeOK'
  BY <1>23, SessionAssumption DEF KillSwitch, Live
<1>24. ASSUME HaltDone PROVE TypeOK'
  BY <1>24, SessionAssumption DEF HaltDone, Event, Live
<1>25. ASSUME TaskDies PROVE TypeOK'
  BY <1>25, SessionAssumption DEF TaskDies, Event, Live
<1>26. ASSUME KillSwitchDies PROVE TypeOK'
  <2>1. marker' \in BOOLEAN /\ ev' = ev
    BY <1>26, Zenon DEF KillSwitchDies
  <2>2. used' \in 0 .. MaxEvents
    BY <1>26, SessionAssumption DEF Event, KillSwitchDies
  <2>3. halted' \in BOOLEAN /\ stop' \in BOOLEAN /\ died' \in BOOLEAN
    BY <1>26, Zenon DEF KillSwitchDies
  <2> QED
    BY <1>26, <2>1, <2>2, <2>3 DEF KillSwitchDies
<1>27. ASSUME Signal PROVE TypeOK'
  BY <1>27, SessionAssumption DEF Signal
<1>28. ASSUME ClearHalt PROVE TypeOK'
  <2>1. marker' \in BOOLEAN /\ ev' = ev
    BY <1>28, Zenon DEF ClearHalt
  <2> QED
    BY <1>28, <2>1 DEF ClearHalt
<1>29. ASSUME NEW ok \in BOOLEAN, Flush(ok) PROVE TypeOK'
  BY <1>29, SessionAssumption DEF Flush, Event, Kept, Live
<1>30. ASSUME NEW o \in Orders, ReconcileOrphan(o) PROVE TypeOK'
  BY <1>30, SessionAssumption DEF ReconcileOrphan, Live
<1>31. ASSUME NEW t \in Tickers, ReconcileVanished(t) PROVE TypeOK'
  BY <1>31, SessionAssumption DEF ReconcileVanished, Live
<1>32. ASSUME ReconcilePositions PROVE TypeOK'
  BY <1>32, SessionAssumption DEF ReconcilePositions, Live
<1>33. ASSUME StopSeen PROVE TypeOK'
  <2>1. NextStop({}, ref) /\ Workers \subseteq Tickers /\ ({}) \subseteq Tickers
    BY <1>33 DEF StopSeen, Workers
  <2>2. told' \subseteq Tickers /\ awaited' \subseteq Tickers /\ proc' \in {"stopping", "sweeping"}
          /\ armed' \subseteq {"bench", "discovery", "pull"}
          /\ cycle' \in [Tickers -> {"idle", "replace", "withdraw", "create"}]
          /\ stage' \in {"none", "asked", "done"}
          /\ (proc' = "stopping" \/ \A t \in Tickers : cycle'[t] = "idle")
    <3>1. CASE \E t \in (Workers \cap (ref)) \ ({}), F \in SUBSET ((Workers \ (ref)) \ ({})) :
                 /\ told' = ({}) \cup F \cup {t} /\ awaited' = {t} /\ proc' = "stopping"
                 /\ UNCHANGED <<armed, cycle, stage>>
      <4>1. PICK t \in (Workers \cap (ref)) \ ({}), F \in SUBSET ((Workers \ (ref)) \ ({})) :
                 /\ told' = ({}) \cup F \cup {t} /\ awaited' = {t} /\ proc' = "stopping"
                 /\ UNCHANGED <<armed, cycle, stage>>
        BY <3>1
      <4>2. t \in Tickers /\ F \subseteq Tickers
        BY <2>1
      <4>3. told' \subseteq Tickers /\ awaited' \subseteq Tickers
        BY <2>1, <4>1, <4>2
      <4> QED
        BY <4>1, <4>3
    <3>2. CASE (told' = ({}) \cup Workers) /\ CancelTasks
      BY <2>1, <3>2 DEF CancelTasks
    <3> QED
      BY <2>1, <3>1, <3>2 DEF NextStop
  <2>3. Cardinality(Workers) \in Nat
    BY <2>1, SessionAssumption, FS_Subset, FS_CardinalityType
  <2>4. used' \in 0 .. MaxEvents
    BY <1>33, SessionAssumption DEF StopSeen, Event
  <2> QED
    BY <1>33, <2>2, <2>3, <2>4 DEF StopSeen
<1>34. ASSUME Breaks PROVE TypeOK'
  BY <1>34, SessionAssumption DEF Breaks, Ends, Lost
<1>35. ASSUME NEW ok \in BOOLEAN, StopAnswered(ok) PROVE TypeOK'
  <2>1. NextStop(told, ref \ awaited) /\ Workers \subseteq Tickers /\ (told) \subseteq Tickers
    BY <1>35 DEF StopAnswered, Workers
  <2>2. told' \subseteq Tickers /\ awaited' \subseteq Tickers /\ proc' \in {"stopping", "sweeping"}
          /\ armed' \subseteq {"bench", "discovery", "pull"}
          /\ cycle' \in [Tickers -> {"idle", "replace", "withdraw", "create"}]
          /\ stage' \in {"none", "asked", "done"}
          /\ (proc' = "stopping" \/ \A t \in Tickers : cycle'[t] = "idle")
    <3>1. CASE \E t \in (Workers \cap (ref \ awaited)) \ (told), F \in SUBSET ((Workers \ (ref \ awaited)) \ (told)) :
                 /\ told' = (told) \cup F \cup {t} /\ awaited' = {t} /\ proc' = "stopping"
                 /\ UNCHANGED <<armed, cycle, stage>>
      <4>1. PICK t \in (Workers \cap (ref \ awaited)) \ (told), F \in SUBSET ((Workers \ (ref \ awaited)) \ (told)) :
                 /\ told' = (told) \cup F \cup {t} /\ awaited' = {t} /\ proc' = "stopping"
                 /\ UNCHANGED <<armed, cycle, stage>>
        BY <3>1
      <4>2. t \in Tickers /\ F \subseteq Tickers
        BY <2>1
      <4>3. told' \subseteq Tickers /\ awaited' \subseteq Tickers
        BY <2>1, <4>1, <4>2
      <4> QED
        BY <4>1, <4>3
    <3>2. CASE (told' = (told) \cup Workers) /\ CancelTasks
      BY <2>1, <3>2 DEF CancelTasks
    <3> QED
      BY <2>1, <3>1, <3>2 DEF NextStop
  <2>3. Cardinality(Workers) \in Nat
    BY <2>1, SessionAssumption, FS_Subset, FS_CardinalityType
  <2>4. used' \in 0 .. MaxEvents
    BY <1>35, SessionAssumption DEF StopAnswered, Event
  <2> QED
    BY <1>35, <2>2, <2>3, <2>4 DEF StopAnswered
<1>36. ASSUME NEW ok \in BOOLEAN, NEW drained \in BOOLEAN, Finish(ok, drained) PROVE TypeOK'
  <2>1. used' \in 0 .. MaxEvents
    BY <1>36, SessionAssumption DEF Event, Finish
  <2>2. ev' \in [Tickers -> {"none", "queued", "open", "kept"}]
    BY <1>36 DEF Finish, Lost, Kept
  <2>3. persisted' \in BOOLEAN /\ exit' \in {"none", "stop", "crash"} /\ report' \in {"none", "clean", "straggling", "failed"}
    BY <1>36 DEF Finish
  <2> QED
    BY <1>36, <2>1, <2>2, <2>3 DEF Finish, Ends
<1>37. ASSUME Crash PROVE TypeOK'
  <2>1. used' \in 0 .. MaxEvents
    BY <1>37, SessionAssumption DEF Event, Crash
  <2>2. ev' \in [Tickers -> {"none", "queued", "open", "kept"}]
    BY <1>37 DEF Crash, Lost
  <2> QED
    BY <1>37, <2>1, <2>2 DEF Crash, Ends
<1>38. ASSUME UNCHANGED vars PROVE TypeOK'
  BY <1>38 DEF vars
<1> QED
  BY <1>1, <1>2, <1>3, <1>4, <1>5, <1>6, <1>7, <1>8, <1>9, <1>10, <1>11, <1>12, <1>13, <1>14,
       <1>15, <1>16, <1>17, <1>18, <1>19, <1>20, <1>21, <1>22, <1>23, <1>24, <1>25, <1>26,
       <1>27, <1>28, <1>29, <1>30, <1>31, <1>32, <1>33, <1>34, <1>35, <1>36, <1>37, <1>38
     DEF Next, Exchange, Start, Worker, Dict, Alarms, Reconcile, Shutdown

\* The marker is written with halt() and read before a session starts.
LEMMA MarkerSeenStep ==
  ASSUME TypeOK, MarkerSeen, [Next]_vars
  PROVE  MarkerSeen'
<1> USE DEF kalshi, disk, process, flags, chosen, crew, work, ending, outcome,
        MarkerSeen, TypeOK, Orders
<1>1. ASSUME NEW o \in Orders, Land(o) PROVE MarkerSeen'
  BY <1>1 DEF Land, Of
<1>2. ASSUME NEW o \in Orders, Expire(o) PROVE MarkerSeen'
  BY <1>2 DEF Expire
<1>3. ASSUME NEW o \in Orders, NEW flat \in BOOLEAN, NEW heard \in BOOLEAN, Fill(o, flat, heard)
      PROVE MarkerSeen'
  BY <1>3 DEF Fill, Of, Event, Live
<1>4. ASSUME NEW t \in Tickers, Close(t) PROVE MarkerSeen'
  BY <1>4 DEF Close, Of
<1>5. ASSUME StartRun PROVE MarkerSeen'
  BY <1>5 DEF StartRun
<1>6. ASSUME StartFifteen PROVE MarkerSeen'
  BY <1>6 DEF StartFifteen
<1>7. ASSUME IdleEnds PROVE MarkerSeen'
  BY <1>7 DEF IdleEnds, Ends
<1>8. ASSUME ReadPositions PROVE MarkerSeen'
  BY <1>8 DEF ReadPositions
<1>9. ASSUME StartFails PROVE MarkerSeen'
  BY <1>9 DEF StartFails, Event
<1>10. ASSUME StartDone PROVE MarkerSeen'
  BY <1>10 DEF StartDone, Loops
<1>11. ASSUME CancelAll PROVE MarkerSeen'
  BY <1>11 DEF CancelAll, Of, Managed
<1>12. ASSUME NEW t \in Tickers, Quote(t) PROVE MarkerSeen'
  BY <1>12 DEF Quote, Turns, Quoting, Approved, Mine, Live
<1>13. ASSUME NEW t \in Tickers, Cancel(t) PROVE MarkerSeen'
  BY <1>13 DEF Cancel, Turns, Quoting, Live
<1>14. ASSUME NEW t \in Tickers, CancelAnswered(t) PROVE MarkerSeen'
  BY <1>14 DEF CancelAnswered, Approved, Mine, Live
<1>15. ASSUME NEW t \in Tickers, CreateAnswered(t) PROVE MarkerSeen'
  BY <1>15 DEF CreateAnswered, Mine, Live
<1>16. ASSUME NEW t \in Tickers, Evict(t) PROVE MarkerSeen'
  BY <1>16 DEF Evict, Turns, OutOrWinds, Live
<1>17. ASSUME NEW t \in Tickers, Reap(t) PROVE MarkerSeen'
  BY <1>17 DEF Reap, OutOrWinds, Live
<1>18. ASSUME Promote PROVE MarkerSeen'
  BY <1>18 DEF Promote, Workers, Rearm, Live
<1>19. ASSUME Discover PROVE MarkerSeen'
  BY <1>19 DEF Discover, Workers, Rearm, Live
<1>20. ASSUME NEW t \in Tickers, Retire(t) PROVE MarkerSeen'
  BY <1>20 DEF Retire, Rearm, Live
<1>21. ASSUME NEW t \in Tickers, Settle(t) PROVE MarkerSeen'
  BY <1>21 DEF Settle, Live
<1>22. ASSUME NEW t \in Tickers, Remove(t) PROVE MarkerSeen'
  BY <1>22 DEF Remove, Rearm, Live
<1>23. ASSUME KillSwitch PROVE MarkerSeen'
  BY <1>23 DEF KillSwitch, Live
<1>24. ASSUME HaltDone PROVE MarkerSeen'
  BY <1>24 DEF HaltDone, Event, Live
<1>25. ASSUME TaskDies PROVE MarkerSeen'
  BY <1>25 DEF TaskDies, Event, Live
<1>26. ASSUME KillSwitchDies PROVE MarkerSeen'
  BY <1>26 DEF KillSwitchDies, Event, Live
<1>27. ASSUME Signal PROVE MarkerSeen'
  BY <1>27 DEF Signal
<1>28. ASSUME ClearHalt PROVE MarkerSeen'
  BY <1>28 DEF ClearHalt
<1>29. ASSUME NEW ok \in BOOLEAN, Flush(ok) PROVE MarkerSeen'
  BY <1>29 DEF Flush, Event, Kept, Live
<1>30. ASSUME NEW o \in Orders, ReconcileOrphan(o) PROVE MarkerSeen'
  BY <1>30 DEF ReconcileOrphan, Live
<1>31. ASSUME NEW t \in Tickers, ReconcileVanished(t) PROVE MarkerSeen'
  BY <1>31 DEF ReconcileVanished, Live
<1>32. ASSUME ReconcilePositions PROVE MarkerSeen'
  BY <1>32 DEF ReconcilePositions, Live
<1>33. ASSUME StopSeen PROVE MarkerSeen'
  BY <1>33 DEF StopSeen, NextStop, CancelTasks
<1>34. ASSUME Breaks PROVE MarkerSeen'
  BY <1>34 DEF Breaks, Ends, Lost
<1>35. ASSUME NEW ok \in BOOLEAN, StopAnswered(ok) PROVE MarkerSeen'
  BY <1>35 DEF StopAnswered, Event, NextStop, CancelTasks
<1>36. ASSUME NEW ok \in BOOLEAN, NEW drained \in BOOLEAN, Finish(ok, drained) PROVE MarkerSeen'
  BY <1>36 DEF Finish, Event, Ends, Kept, Lost
<1>37. ASSUME Crash PROVE MarkerSeen'
  BY <1>37 DEF Crash, Event, Ends, Lost
<1>38. ASSUME UNCHANGED vars PROVE MarkerSeen'
  BY <1>38 DEF vars
<1> QED
  BY <1>1, <1>2, <1>3, <1>4, <1>5, <1>6, <1>7, <1>8, <1>9, <1>10, <1>11, <1>12, <1>13, <1>14,
       <1>15, <1>16, <1>17, <1>18, <1>19, <1>20, <1>21, <1>22, <1>23, <1>24, <1>25, <1>26,
       <1>27, <1>28, <1>29, <1>30, <1>31, <1>32, <1>33, <1>34, <1>35, <1>36, <1>37, <1>38
     DEF Next, Exchange, Start, Worker, Dict, Alarms, Reconcile, Shutdown

\* Workers are made at the end of the start and dropped with the process.
LEMMA NoCrewYetStep ==
  ASSUME TypeOK, NoCrewYet, [Next]_vars
  PROVE  NoCrewYet'
<1> USE DEF kalshi, disk, process, flags, chosen, crew, work, ending, outcome,
        NoCrewYet, Workers, TypeOK, Orders
<1>1. ASSUME NEW o \in Orders, Land(o) PROVE NoCrewYet'
  BY <1>1 DEF Land, Of
<1>2. ASSUME NEW o \in Orders, Expire(o) PROVE NoCrewYet'
  BY <1>2 DEF Expire
<1>3. ASSUME NEW o \in Orders, NEW flat \in BOOLEAN, NEW heard \in BOOLEAN, Fill(o, flat, heard)
      PROVE NoCrewYet'
  BY <1>3 DEF Fill, Of, Event, Live
<1>4. ASSUME NEW t \in Tickers, Close(t) PROVE NoCrewYet'
  BY <1>4 DEF Close, Of
<1>5. ASSUME StartRun PROVE NoCrewYet'
  BY <1>5 DEF StartRun
<1>6. ASSUME StartFifteen PROVE NoCrewYet'
  BY <1>6 DEF StartFifteen
<1>7. ASSUME IdleEnds PROVE NoCrewYet'
  BY <1>7 DEF IdleEnds, Ends
<1>8. ASSUME ReadPositions PROVE NoCrewYet'
  BY <1>8 DEF ReadPositions
<1>9. ASSUME StartFails PROVE NoCrewYet'
  BY <1>9 DEF StartFails, Event
<1>10. ASSUME StartDone PROVE NoCrewYet'
  BY <1>10 DEF StartDone, Loops
<1>11. ASSUME CancelAll PROVE NoCrewYet'
  BY <1>11 DEF CancelAll, Of, Managed
<1>12. ASSUME NEW t \in Tickers, Quote(t) PROVE NoCrewYet'
  BY <1>12 DEF Quote, Turns, Quoting, Approved, Mine, Live
<1>13. ASSUME NEW t \in Tickers, Cancel(t) PROVE NoCrewYet'
  BY <1>13 DEF Cancel, Turns, Quoting, Live
<1>14. ASSUME NEW t \in Tickers, CancelAnswered(t) PROVE NoCrewYet'
  BY <1>14 DEF CancelAnswered, Approved, Mine, Live
<1>15. ASSUME NEW t \in Tickers, CreateAnswered(t) PROVE NoCrewYet'
  BY <1>15 DEF CreateAnswered, Mine, Live
<1>16. ASSUME NEW t \in Tickers, Evict(t) PROVE NoCrewYet'
  BY <1>16 DEF Evict, Turns, OutOrWinds, Live
<1>17. ASSUME NEW t \in Tickers, Reap(t) PROVE NoCrewYet'
  BY <1>17 DEF Reap, OutOrWinds, Live
<1>18. ASSUME Promote PROVE NoCrewYet'
  BY <1>18 DEF Promote, Rearm, Live
<1>19. ASSUME Discover PROVE NoCrewYet'
  BY <1>19 DEF Discover, Rearm, Live
<1>20. ASSUME NEW t \in Tickers, Retire(t) PROVE NoCrewYet'
  BY <1>20 DEF Retire, Rearm, Live
<1>21. ASSUME NEW t \in Tickers, Settle(t) PROVE NoCrewYet'
  BY <1>21 DEF Settle, Live
<1>22. ASSUME NEW t \in Tickers, Remove(t) PROVE NoCrewYet'
  BY <1>22 DEF Remove, Rearm, Live
<1>23. ASSUME KillSwitch PROVE NoCrewYet'
  BY <1>23 DEF KillSwitch, Live
<1>24. ASSUME HaltDone PROVE NoCrewYet'
  BY <1>24 DEF HaltDone, Event, Live
<1>25. ASSUME TaskDies PROVE NoCrewYet'
  BY <1>25 DEF TaskDies, Event, Live
<1>26. ASSUME KillSwitchDies PROVE NoCrewYet'
  BY <1>26 DEF KillSwitchDies, Event, Live
<1>27. ASSUME Signal PROVE NoCrewYet'
  BY <1>27 DEF Signal
<1>28. ASSUME ClearHalt PROVE NoCrewYet'
  BY <1>28 DEF ClearHalt
<1>29. ASSUME NEW ok \in BOOLEAN, Flush(ok) PROVE NoCrewYet'
  BY <1>29 DEF Flush, Event, Kept, Live
<1>30. ASSUME NEW o \in Orders, ReconcileOrphan(o) PROVE NoCrewYet'
  BY <1>30 DEF ReconcileOrphan, Live
<1>31. ASSUME NEW t \in Tickers, ReconcileVanished(t) PROVE NoCrewYet'
  BY <1>31 DEF ReconcileVanished, Live
<1>32. ASSUME ReconcilePositions PROVE NoCrewYet'
  BY <1>32 DEF ReconcilePositions, Live
<1>33. ASSUME StopSeen PROVE NoCrewYet'
  BY <1>33 DEF StopSeen, NextStop, CancelTasks
<1>34. ASSUME Breaks PROVE NoCrewYet'
  BY <1>34 DEF Breaks, Ends, Lost
<1>35. ASSUME NEW ok \in BOOLEAN, StopAnswered(ok) PROVE NoCrewYet'
  BY <1>35 DEF StopAnswered, Event, NextStop, CancelTasks
<1>36. ASSUME NEW ok \in BOOLEAN, NEW drained \in BOOLEAN, Finish(ok, drained) PROVE NoCrewYet'
  BY <1>36 DEF Finish, Event, Ends, Kept, Lost
<1>37. ASSUME Crash PROVE NoCrewYet'
  BY <1>37 DEF Crash, Event, Ends, Lost
<1>38. ASSUME UNCHANGED vars PROVE NoCrewYet'
  BY <1>38 DEF vars
<1> QED
  BY <1>1, <1>2, <1>3, <1>4, <1>5, <1>6, <1>7, <1>8, <1>9, <1>10, <1>11, <1>12, <1>13, <1>14,
       <1>15, <1>16, <1>17, <1>18, <1>19, <1>20, <1>21, <1>22, <1>23, <1>24, <1>25, <1>26,
       <1>27, <1>28, <1>29, <1>30, <1>31, <1>32, <1>33, <1>34, <1>35, <1>36, <1>37, <1>38
     DEF Next, Exchange, Start, Worker, Dict, Alarms, Reconcile, Shutdown

\* pull_loop drops a worker when its grace period is over, which no call outlasts.
LEMMA InTheDictStep ==
  ASSUME TypeOK, InTheDict, [Next]_vars
  PROVE  InTheDict'
<1> USE DEF kalshi, disk, process, flags, chosen, crew, work, ending, outcome,
        InTheDict, Workers, TypeOK, Orders
<1>1. ASSUME NEW o \in Orders, Land(o) PROVE InTheDict'
  BY <1>1 DEF Land, Of
<1>2. ASSUME NEW o \in Orders, Expire(o) PROVE InTheDict'
  BY <1>2 DEF Expire
<1>3. ASSUME NEW o \in Orders, NEW flat \in BOOLEAN, NEW heard \in BOOLEAN, Fill(o, flat, heard)
      PROVE InTheDict'
  BY <1>3 DEF Fill, Of, Event, Live
<1>4. ASSUME NEW t \in Tickers, Close(t) PROVE InTheDict'
  BY <1>4 DEF Close, Of
<1>5. ASSUME StartRun PROVE InTheDict'
  BY <1>5 DEF StartRun
<1>6. ASSUME StartFifteen PROVE InTheDict'
  BY <1>6 DEF StartFifteen
<1>7. ASSUME IdleEnds PROVE InTheDict'
  BY <1>7 DEF IdleEnds, Ends
<1>8. ASSUME ReadPositions PROVE InTheDict'
  BY <1>8 DEF ReadPositions
<1>9. ASSUME StartFails PROVE InTheDict'
  BY <1>9 DEF StartFails, Event
<1>10. ASSUME StartDone PROVE InTheDict'
  BY <1>10 DEF StartDone, Loops
<1>11. ASSUME CancelAll PROVE InTheDict'
  BY <1>11 DEF CancelAll, Of, Managed
<1>12. ASSUME NEW t \in Tickers, Quote(t) PROVE InTheDict'
  BY <1>12 DEF Quote, Turns, Quoting, Approved, Mine, Live
<1>13. ASSUME NEW t \in Tickers, Cancel(t) PROVE InTheDict'
  BY <1>13 DEF Cancel, Turns, Quoting, Live
<1>14. ASSUME NEW t \in Tickers, CancelAnswered(t) PROVE InTheDict'
  BY <1>14 DEF CancelAnswered, Approved, Mine, Live
<1>15. ASSUME NEW t \in Tickers, CreateAnswered(t) PROVE InTheDict'
  BY <1>15 DEF CreateAnswered, Mine, Live
<1>16. ASSUME NEW t \in Tickers, Evict(t) PROVE InTheDict'
  BY <1>16 DEF Evict, Turns, OutOrWinds, Live
<1>17. ASSUME NEW t \in Tickers, Reap(t) PROVE InTheDict'
  BY <1>17 DEF Reap, OutOrWinds, Live
<1>18. ASSUME Promote PROVE InTheDict'
  BY <1>18 DEF Promote, Rearm, Live
<1>19. ASSUME Discover PROVE InTheDict'
  BY <1>19 DEF Discover, Rearm, Live
<1>20. ASSUME NEW t \in Tickers, Retire(t) PROVE InTheDict'
  BY <1>20 DEF Retire, Rearm, Live
<1>21. ASSUME NEW t \in Tickers, Settle(t) PROVE InTheDict'
  BY <1>21 DEF Settle, Live
<1>22. ASSUME NEW t \in Tickers, Remove(t) PROVE InTheDict'
  BY <1>22 DEF Remove, Rearm, Live
<1>23. ASSUME KillSwitch PROVE InTheDict'
  BY <1>23 DEF KillSwitch, Live
<1>24. ASSUME HaltDone PROVE InTheDict'
  BY <1>24 DEF HaltDone, Event, Live
<1>25. ASSUME TaskDies PROVE InTheDict'
  BY <1>25 DEF TaskDies, Event, Live
<1>26. ASSUME KillSwitchDies PROVE InTheDict'
  BY <1>26 DEF KillSwitchDies, Event, Live
<1>27. ASSUME Signal PROVE InTheDict'
  BY <1>27 DEF Signal
<1>28. ASSUME ClearHalt PROVE InTheDict'
  BY <1>28 DEF ClearHalt
<1>29. ASSUME NEW ok \in BOOLEAN, Flush(ok) PROVE InTheDict'
  BY <1>29 DEF Flush, Event, Kept, Live
<1>30. ASSUME NEW o \in Orders, ReconcileOrphan(o) PROVE InTheDict'
  BY <1>30 DEF ReconcileOrphan, Live
<1>31. ASSUME NEW t \in Tickers, ReconcileVanished(t) PROVE InTheDict'
  BY <1>31 DEF ReconcileVanished, Live
<1>32. ASSUME ReconcilePositions PROVE InTheDict'
  BY <1>32 DEF ReconcilePositions, Live
<1>33. ASSUME StopSeen PROVE InTheDict'
  BY <1>33 DEF StopSeen, NextStop, CancelTasks
<1>34. ASSUME Breaks PROVE InTheDict'
  BY <1>34 DEF Breaks, Ends, Lost
<1>35. ASSUME NEW ok \in BOOLEAN, StopAnswered(ok) PROVE InTheDict'
  BY <1>35 DEF StopAnswered, Event, NextStop, CancelTasks
<1>36. ASSUME NEW ok \in BOOLEAN, NEW drained \in BOOLEAN, Finish(ok, drained) PROVE InTheDict'
  BY <1>36 DEF Finish, Event, Ends, Kept, Lost
<1>37. ASSUME Crash PROVE InTheDict'
  BY <1>37 DEF Crash, Event, Ends, Lost
<1>38. ASSUME UNCHANGED vars PROVE InTheDict'
  BY <1>38 DEF vars
<1> QED
  BY <1>1, <1>2, <1>3, <1>4, <1>5, <1>6, <1>7, <1>8, <1>9, <1>10, <1>11, <1>12, <1>13, <1>14,
       <1>15, <1>16, <1>17, <1>18, <1>19, <1>20, <1>21, <1>22, <1>23, <1>24, <1>25, <1>26,
       <1>27, <1>28, <1>29, <1>30, <1>31, <1>32, <1>33, <1>34, <1>35, <1>36, <1>37, <1>38
     DEF Next, Exchange, Start, Worker, Dict, Alarms, Reconcile, Shutdown

\* pull_loop evicts the workers of closed windows.
LEMMA OutIsOverStep ==
  ASSUME TypeOK, OutIsOver, [Next]_vars
  PROVE  OutIsOver'
<1> USE DEF kalshi, disk, process, flags, chosen, crew, work, ending, outcome,
        OutIsOver, TypeOK, Orders
<1>1. ASSUME NEW o \in Orders, Land(o) PROVE OutIsOver'
  BY <1>1 DEF Land, Of
<1>2. ASSUME NEW o \in Orders, Expire(o) PROVE OutIsOver'
  BY <1>2 DEF Expire
<1>3. ASSUME NEW o \in Orders, NEW flat \in BOOLEAN, NEW heard \in BOOLEAN, Fill(o, flat, heard)
      PROVE OutIsOver'
  BY <1>3 DEF Fill, Of, Event, Live
<1>4. ASSUME NEW t \in Tickers, Close(t) PROVE OutIsOver'
  BY <1>4 DEF Close, Of
<1>5. ASSUME StartRun PROVE OutIsOver'
  BY <1>5 DEF StartRun
<1>6. ASSUME StartFifteen PROVE OutIsOver'
  BY <1>6 DEF StartFifteen
<1>7. ASSUME IdleEnds PROVE OutIsOver'
  BY <1>7 DEF IdleEnds, Ends
<1>8. ASSUME ReadPositions PROVE OutIsOver'
  BY <1>8 DEF ReadPositions
<1>9. ASSUME StartFails PROVE OutIsOver'
  BY <1>9 DEF StartFails, Event
<1>10. ASSUME StartDone PROVE OutIsOver'
  BY <1>10 DEF StartDone, Loops
<1>11. ASSUME CancelAll PROVE OutIsOver'
  BY <1>11 DEF CancelAll, Of, Managed
<1>12. ASSUME NEW t \in Tickers, Quote(t) PROVE OutIsOver'
  BY <1>12 DEF Quote, Turns, Quoting, Approved, Mine, Live
<1>13. ASSUME NEW t \in Tickers, Cancel(t) PROVE OutIsOver'
  BY <1>13 DEF Cancel, Turns, Quoting, Live
<1>14. ASSUME NEW t \in Tickers, CancelAnswered(t) PROVE OutIsOver'
  BY <1>14 DEF CancelAnswered, Approved, Mine, Live
<1>15. ASSUME NEW t \in Tickers, CreateAnswered(t) PROVE OutIsOver'
  BY <1>15 DEF CreateAnswered, Mine, Live
<1>16. ASSUME NEW t \in Tickers, Evict(t) PROVE OutIsOver'
  BY <1>16 DEF Evict, Turns, OutOrWinds, Live
<1>17. ASSUME NEW t \in Tickers, Reap(t) PROVE OutIsOver'
  BY <1>17 DEF Reap, OutOrWinds, Live
<1>18. ASSUME Promote PROVE OutIsOver'
  BY <1>18 DEF Promote, Workers, Rearm, Live
<1>19. ASSUME Discover PROVE OutIsOver'
  BY <1>19 DEF Discover, Workers, Rearm, Live
<1>20. ASSUME NEW t \in Tickers, Retire(t) PROVE OutIsOver'
  BY <1>20 DEF Retire, Rearm, Live
<1>21. ASSUME NEW t \in Tickers, Settle(t) PROVE OutIsOver'
  BY <1>21 DEF Settle, Live
<1>22. ASSUME NEW t \in Tickers, Remove(t) PROVE OutIsOver'
  BY <1>22 DEF Remove, Rearm, Live
<1>23. ASSUME KillSwitch PROVE OutIsOver'
  BY <1>23 DEF KillSwitch, Live
<1>24. ASSUME HaltDone PROVE OutIsOver'
  BY <1>24 DEF HaltDone, Event, Live
<1>25. ASSUME TaskDies PROVE OutIsOver'
  BY <1>25 DEF TaskDies, Event, Live
<1>26. ASSUME KillSwitchDies PROVE OutIsOver'
  BY <1>26 DEF KillSwitchDies, Event, Live
<1>27. ASSUME Signal PROVE OutIsOver'
  BY <1>27 DEF Signal
<1>28. ASSUME ClearHalt PROVE OutIsOver'
  BY <1>28 DEF ClearHalt
<1>29. ASSUME NEW ok \in BOOLEAN, Flush(ok) PROVE OutIsOver'
  BY <1>29 DEF Flush, Event, Kept, Live
<1>30. ASSUME NEW o \in Orders, ReconcileOrphan(o) PROVE OutIsOver'
  BY <1>30 DEF ReconcileOrphan, Live
<1>31. ASSUME NEW t \in Tickers, ReconcileVanished(t) PROVE OutIsOver'
  BY <1>31 DEF ReconcileVanished, Live
<1>32. ASSUME ReconcilePositions PROVE OutIsOver'
  BY <1>32 DEF ReconcilePositions, Live
<1>33. ASSUME StopSeen PROVE OutIsOver'
  BY <1>33 DEF StopSeen, NextStop, CancelTasks
<1>34. ASSUME Breaks PROVE OutIsOver'
  BY <1>34 DEF Breaks, Ends, Lost
<1>35. ASSUME NEW ok \in BOOLEAN, StopAnswered(ok) PROVE OutIsOver'
  BY <1>35 DEF StopAnswered, Event, NextStop, CancelTasks
<1>36. ASSUME NEW ok \in BOOLEAN, NEW drained \in BOOLEAN, Finish(ok, drained) PROVE OutIsOver'
  BY <1>36 DEF Finish, Event, Ends, Kept, Lost
<1>37. ASSUME Crash PROVE OutIsOver'
  BY <1>37 DEF Crash, Event, Ends, Lost
<1>38. ASSUME UNCHANGED vars PROVE OutIsOver'
  BY <1>38 DEF vars
<1> QED
  BY <1>1, <1>2, <1>3, <1>4, <1>5, <1>6, <1>7, <1>8, <1>9, <1>10, <1>11, <1>12, <1>13, <1>14,
       <1>15, <1>16, <1>17, <1>18, <1>19, <1>20, <1>21, <1>22, <1>23, <1>24, <1>25, <1>26,
       <1>27, <1>28, <1>29, <1>30, <1>31, <1>32, <1>33, <1>34, <1>35, <1>36, <1>37, <1>38
     DEF Next, Exchange, Start, Worker, Dict, Alarms, Reconcile, Shutdown

\* Orders are sent under the session that runs.
LEMMA NamedBeforeStep ==
  ASSUME TypeOK, NamedBefore, [Next]_vars
  PROVE  NamedBefore'
<1> USE DEF kalshi, disk, process, flags, chosen, crew, work, ending, outcome,
        NamedBefore, Mine, TypeOK, Orders
<1>1. ASSUME NEW o \in Orders, Land(o) PROVE NamedBefore'
  BY <1>1 DEF Land, Of
<1>2. ASSUME NEW o \in Orders, Expire(o) PROVE NamedBefore'
  BY <1>2 DEF Expire
<1>3. ASSUME NEW o \in Orders, NEW flat \in BOOLEAN, NEW heard \in BOOLEAN, Fill(o, flat, heard)
      PROVE NamedBefore'
  BY <1>3 DEF Fill, Of, Event, Live
<1>4. ASSUME NEW t \in Tickers, Close(t) PROVE NamedBefore'
  BY <1>4 DEF Close, Of
<1>5. ASSUME StartRun PROVE NamedBefore'
  BY <1>5 DEF StartRun
<1>6. ASSUME StartFifteen PROVE NamedBefore'
  BY <1>6 DEF StartFifteen
<1>7. ASSUME IdleEnds PROVE NamedBefore'
  BY <1>7 DEF IdleEnds, Ends
<1>8. ASSUME ReadPositions PROVE NamedBefore'
  BY <1>8 DEF ReadPositions
<1>9. ASSUME StartFails PROVE NamedBefore'
  BY <1>9 DEF StartFails, Event
<1>10. ASSUME StartDone PROVE NamedBefore'
  BY <1>10 DEF StartDone, Loops
<1>11. ASSUME CancelAll PROVE NamedBefore'
  BY <1>11 DEF CancelAll, Of, Managed
<1>12. ASSUME NEW t \in Tickers, Quote(t) PROVE NamedBefore'
  BY <1>12 DEF Quote, Turns, Quoting, Approved, Live
<1>13. ASSUME NEW t \in Tickers, Cancel(t) PROVE NamedBefore'
  BY <1>13 DEF Cancel, Turns, Quoting, Live
<1>14. ASSUME NEW t \in Tickers, CancelAnswered(t) PROVE NamedBefore'
  BY <1>14 DEF CancelAnswered, Approved, Live
<1>15. ASSUME NEW t \in Tickers, CreateAnswered(t) PROVE NamedBefore'
  BY <1>15 DEF CreateAnswered, Live
<1>16. ASSUME NEW t \in Tickers, Evict(t) PROVE NamedBefore'
  BY <1>16 DEF Evict, Turns, OutOrWinds, Live
<1>17. ASSUME NEW t \in Tickers, Reap(t) PROVE NamedBefore'
  BY <1>17 DEF Reap, OutOrWinds, Live
<1>18. ASSUME Promote PROVE NamedBefore'
  BY <1>18 DEF Promote, Workers, Rearm, Live
<1>19. ASSUME Discover PROVE NamedBefore'
  BY <1>19 DEF Discover, Workers, Rearm, Live
<1>20. ASSUME NEW t \in Tickers, Retire(t) PROVE NamedBefore'
  BY <1>20 DEF Retire, Rearm, Live
<1>21. ASSUME NEW t \in Tickers, Settle(t) PROVE NamedBefore'
  BY <1>21 DEF Settle, Live
<1>22. ASSUME NEW t \in Tickers, Remove(t) PROVE NamedBefore'
  BY <1>22 DEF Remove, Rearm, Live
<1>23. ASSUME KillSwitch PROVE NamedBefore'
  BY <1>23 DEF KillSwitch, Live
<1>24. ASSUME HaltDone PROVE NamedBefore'
  BY <1>24 DEF HaltDone, Event, Live
<1>25. ASSUME TaskDies PROVE NamedBefore'
  BY <1>25 DEF TaskDies, Event, Live
<1>26. ASSUME KillSwitchDies PROVE NamedBefore'
  BY <1>26 DEF KillSwitchDies, Event, Live
<1>27. ASSUME Signal PROVE NamedBefore'
  BY <1>27 DEF Signal
<1>28. ASSUME ClearHalt PROVE NamedBefore'
  BY <1>28 DEF ClearHalt
<1>29. ASSUME NEW ok \in BOOLEAN, Flush(ok) PROVE NamedBefore'
  BY <1>29 DEF Flush, Event, Kept, Live
<1>30. ASSUME NEW o \in Orders, ReconcileOrphan(o) PROVE NamedBefore'
  BY <1>30 DEF ReconcileOrphan, Live
<1>31. ASSUME NEW t \in Tickers, ReconcileVanished(t) PROVE NamedBefore'
  BY <1>31 DEF ReconcileVanished, Live
<1>32. ASSUME ReconcilePositions PROVE NamedBefore'
  BY <1>32 DEF ReconcilePositions, Live
<1>33. ASSUME StopSeen PROVE NamedBefore'
  BY <1>33 DEF StopSeen, NextStop, CancelTasks
<1>34. ASSUME Breaks PROVE NamedBefore'
  BY <1>34 DEF Breaks, Ends, Lost
<1>35. ASSUME NEW ok \in BOOLEAN, StopAnswered(ok) PROVE NamedBefore'
  BY <1>35 DEF StopAnswered, Event, NextStop, CancelTasks
<1>36. ASSUME NEW ok \in BOOLEAN, NEW drained \in BOOLEAN, Finish(ok, drained)
      PROVE NamedBefore'
  BY <1>36 DEF Finish, Event, Ends, Kept, Lost
<1>37. ASSUME Crash PROVE NamedBefore'
  BY <1>37 DEF Crash, Event, Ends, Lost
<1>38. ASSUME UNCHANGED vars PROVE NamedBefore'
  BY <1>38 DEF vars
<1> QED
  BY <1>1, <1>2, <1>3, <1>4, <1>5, <1>6, <1>7, <1>8, <1>9, <1>10, <1>11, <1>12, <1>13, <1>14,
       <1>15, <1>16, <1>17, <1>18, <1>19, <1>20, <1>21, <1>22, <1>23, <1>24, <1>25, <1>26,
       <1>27, <1>28, <1>29, <1>30, <1>31, <1>32, <1>33, <1>34, <1>35, <1>36, <1>37, <1>38
     DEF Next, Exchange, Start, Worker, Dict, Alarms, Reconcile, Shutdown

\* The exchange takes the orders of a window that closes off the book.
LEMMA OpenOnlyStep ==
  ASSUME TypeOK, OpenOnly, [Next]_vars
  PROVE  OpenOnly'
<1> USE DEF kalshi, disk, process, flags, chosen, crew, work, ending, outcome,
        OpenOnly, Of, TypeOK, Orders
<1>1. ASSUME NEW o \in Orders, Land(o) PROVE OpenOnly'
  BY <1>1 DEF Land
<1>2. ASSUME NEW o \in Orders, Expire(o) PROVE OpenOnly'
  BY <1>2 DEF Expire
<1>3. ASSUME NEW o \in Orders, NEW flat \in BOOLEAN, NEW heard \in BOOLEAN, Fill(o, flat, heard)
      PROVE OpenOnly'
  BY <1>3 DEF Fill, Event, Live
<1>4. ASSUME NEW t \in Tickers, Close(t) PROVE OpenOnly'
  BY <1>4 DEF Close
<1>5. ASSUME StartRun PROVE OpenOnly'
  BY <1>5 DEF StartRun
<1>6. ASSUME StartFifteen PROVE OpenOnly'
  BY <1>6 DEF StartFifteen
<1>7. ASSUME IdleEnds PROVE OpenOnly'
  BY <1>7 DEF IdleEnds, Ends
<1>8. ASSUME ReadPositions PROVE OpenOnly'
  BY <1>8 DEF ReadPositions
<1>9. ASSUME StartFails PROVE OpenOnly'
  BY <1>9 DEF StartFails, Event
<1>10. ASSUME StartDone PROVE OpenOnly'
  BY <1>10 DEF StartDone, Loops
<1>11. ASSUME CancelAll PROVE OpenOnly'
  BY <1>11 DEF CancelAll, Managed
<1>12. ASSUME NEW t \in Tickers, Quote(t) PROVE OpenOnly'
  BY <1>12 DEF Quote, Turns, Quoting, Approved, Mine, Live
<1>13. ASSUME NEW t \in Tickers, Cancel(t) PROVE OpenOnly'
  BY <1>13 DEF Cancel, Turns, Quoting, Live
<1>14. ASSUME NEW t \in Tickers, CancelAnswered(t) PROVE OpenOnly'
  BY <1>14 DEF CancelAnswered, Approved, Mine, Live
<1>15. ASSUME NEW t \in Tickers, CreateAnswered(t) PROVE OpenOnly'
  BY <1>15 DEF CreateAnswered, Mine, Live
<1>16. ASSUME NEW t \in Tickers, Evict(t) PROVE OpenOnly'
  BY <1>16 DEF Evict, Turns, OutOrWinds, Live
<1>17. ASSUME NEW t \in Tickers, Reap(t) PROVE OpenOnly'
  BY <1>17 DEF Reap, OutOrWinds, Live
<1>18. ASSUME Promote PROVE OpenOnly'
  BY <1>18 DEF Promote, Workers, Rearm, Live
<1>19. ASSUME Discover PROVE OpenOnly'
  BY <1>19 DEF Discover, Workers, Rearm, Live
<1>20. ASSUME NEW t \in Tickers, Retire(t) PROVE OpenOnly'
  BY <1>20 DEF Retire, Rearm, Live
<1>21. ASSUME NEW t \in Tickers, Settle(t) PROVE OpenOnly'
  BY <1>21 DEF Settle, Live
<1>22. ASSUME NEW t \in Tickers, Remove(t) PROVE OpenOnly'
  BY <1>22 DEF Remove, Rearm, Live
<1>23. ASSUME KillSwitch PROVE OpenOnly'
  BY <1>23 DEF KillSwitch, Live
<1>24. ASSUME HaltDone PROVE OpenOnly'
  BY <1>24 DEF HaltDone, Event, Live
<1>25. ASSUME TaskDies PROVE OpenOnly'
  BY <1>25 DEF TaskDies, Event, Live
<1>26. ASSUME KillSwitchDies PROVE OpenOnly'
  BY <1>26 DEF KillSwitchDies, Event, Live
<1>27. ASSUME Signal PROVE OpenOnly'
  BY <1>27 DEF Signal
<1>28. ASSUME ClearHalt PROVE OpenOnly'
  BY <1>28 DEF ClearHalt
<1>29. ASSUME NEW ok \in BOOLEAN, Flush(ok) PROVE OpenOnly'
  BY <1>29 DEF Flush, Event, Kept, Live
<1>30. ASSUME NEW o \in Orders, ReconcileOrphan(o) PROVE OpenOnly'
  BY <1>30 DEF ReconcileOrphan, Live
<1>31. ASSUME NEW t \in Tickers, ReconcileVanished(t) PROVE OpenOnly'
  BY <1>31 DEF ReconcileVanished, Live
<1>32. ASSUME ReconcilePositions PROVE OpenOnly'
  BY <1>32 DEF ReconcilePositions, Live
<1>33. ASSUME StopSeen PROVE OpenOnly'
  BY <1>33 DEF StopSeen, NextStop, CancelTasks
<1>34. ASSUME Breaks PROVE OpenOnly'
  BY <1>34 DEF Breaks, Ends, Lost
<1>35. ASSUME NEW ok \in BOOLEAN, StopAnswered(ok) PROVE OpenOnly'
  BY <1>35 DEF StopAnswered, Event, NextStop, CancelTasks
<1>36. ASSUME NEW ok \in BOOLEAN, NEW drained \in BOOLEAN, Finish(ok, drained) PROVE OpenOnly'
  BY <1>36 DEF Finish, Event, Ends, Kept, Lost
<1>37. ASSUME Crash PROVE OpenOnly'
  BY <1>37 DEF Crash, Event, Ends, Lost
<1>38. ASSUME UNCHANGED vars PROVE OpenOnly'
  BY <1>38 DEF vars
<1> QED
  BY <1>1, <1>2, <1>3, <1>4, <1>5, <1>6, <1>7, <1>8, <1>9, <1>10, <1>11, <1>12, <1>13, <1>14,
       <1>15, <1>16, <1>17, <1>18, <1>19, <1>20, <1>21, <1>22, <1>23, <1>24, <1>25, <1>26,
       <1>27, <1>28, <1>29, <1>30, <1>31, <1>32, <1>33, <1>34, <1>35, <1>36, <1>37, <1>38
     DEF Next, Exchange, Start, Worker, Dict, Alarms, Reconcile, Shutdown

\* A worker that has an order of this session at work stays in the dict, unless
\* its window is over (managed_tickers and what it is given).
LEMMA CoveredStep ==
  ASSUME TypeOK, NoCrewYet, InTheDict, OutIsOver, NamedBefore, Covered, [Next]_vars
  PROVE  Covered'
<1> USE DEF kalshi, disk, process, flags, chosen, crew, work, ending, outcome,
        Covered, Workers, Mine, NoCrewYet, InTheDict, OutIsOver, NamedBefore, TypeOK, Orders
<1>1. ASSUME NEW o \in Orders, Land(o) PROVE Covered'
  BY <1>1 DEF Land, Of
<1>2. ASSUME NEW o \in Orders, Expire(o) PROVE Covered'
  BY <1>2 DEF Expire
<1>3. ASSUME NEW o \in Orders, NEW flat \in BOOLEAN, NEW heard \in BOOLEAN, Fill(o, flat, heard)
      PROVE Covered'
  BY <1>3 DEF Fill, Of, Event, Live
<1>4. ASSUME NEW t \in Tickers, Close(t) PROVE Covered'
  BY <1>4 DEF Close, Of
<1>5. ASSUME StartRun PROVE Covered'
  BY <1>5 DEF StartRun
<1>6. ASSUME StartFifteen PROVE Covered'
  BY <1>6 DEF StartFifteen
<1>7. ASSUME IdleEnds PROVE Covered'
  BY <1>7 DEF IdleEnds, Ends
<1>8. ASSUME ReadPositions PROVE Covered'
  BY <1>8 DEF ReadPositions
<1>9. ASSUME StartFails PROVE Covered'
  BY <1>9 DEF StartFails, Event
<1>10. ASSUME StartDone PROVE Covered'
  BY <1>10 DEF StartDone, Loops
<1>11. ASSUME CancelAll PROVE Covered'
  BY <1>11 DEF CancelAll, Of, Managed
<1>12. ASSUME NEW t \in Tickers, Quote(t) PROVE Covered'
  BY <1>12 DEF Quote, Turns, Quoting, Approved, Live
<1>13. ASSUME NEW t \in Tickers, Cancel(t) PROVE Covered'
  BY <1>13 DEF Cancel, Turns, Quoting, Live
<1>14. ASSUME NEW t \in Tickers, CancelAnswered(t) PROVE Covered'
  BY <1>14 DEF CancelAnswered, Approved, Live
<1>15. ASSUME NEW t \in Tickers, CreateAnswered(t) PROVE Covered'
  BY <1>15 DEF CreateAnswered, Live
<1>16. ASSUME NEW t \in Tickers, Evict(t) PROVE Covered'
  BY <1>16 DEF Evict, Turns, OutOrWinds, Live
<1>17. ASSUME NEW t \in Tickers, Reap(t) PROVE Covered'
  BY <1>17 DEF Reap, OutOrWinds, Live
<1>18. ASSUME Promote PROVE Covered'
  BY <1>18 DEF Promote, Rearm, Live
<1>19. ASSUME Discover PROVE Covered'
  BY <1>19 DEF Discover, Rearm, Live
<1>20. ASSUME NEW t \in Tickers, Retire(t) PROVE Covered'
  BY <1>20 DEF Retire, Rearm, Live
<1>21. ASSUME NEW t \in Tickers, Settle(t) PROVE Covered'
  BY <1>21 DEF Settle, Live
<1>22. ASSUME NEW t \in Tickers, Remove(t) PROVE Covered'
  BY <1>22 DEF Remove, Rearm, Live
<1>23. ASSUME KillSwitch PROVE Covered'
  BY <1>23 DEF KillSwitch, Live
<1>24. ASSUME HaltDone PROVE Covered'
  BY <1>24 DEF HaltDone, Event, Live
<1>25. ASSUME TaskDies PROVE Covered'
  BY <1>25 DEF TaskDies, Event, Live
<1>26. ASSUME KillSwitchDies PROVE Covered'
  BY <1>26 DEF KillSwitchDies, Event, Live
<1>27. ASSUME Signal PROVE Covered'
  BY <1>27 DEF Signal
<1>28. ASSUME ClearHalt PROVE Covered'
  BY <1>28 DEF ClearHalt
<1>29. ASSUME NEW ok \in BOOLEAN, Flush(ok) PROVE Covered'
  BY <1>29 DEF Flush, Event, Kept, Live
<1>30. ASSUME NEW o \in Orders, ReconcileOrphan(o) PROVE Covered'
  BY <1>30 DEF ReconcileOrphan, Live
<1>31. ASSUME NEW t \in Tickers, ReconcileVanished(t) PROVE Covered'
  BY <1>31 DEF ReconcileVanished, Live
<1>32. ASSUME ReconcilePositions PROVE Covered'
  BY <1>32 DEF ReconcilePositions, Live
<1>33. ASSUME StopSeen PROVE Covered'
  BY <1>33 DEF StopSeen, NextStop, CancelTasks
<1>34. ASSUME Breaks PROVE Covered'
  BY <1>34 DEF Breaks, Ends, Lost
<1>35. ASSUME NEW ok \in BOOLEAN, StopAnswered(ok) PROVE Covered'
  BY <1>35 DEF StopAnswered, Event, NextStop, CancelTasks
<1>36. ASSUME NEW ok \in BOOLEAN, NEW drained \in BOOLEAN, Finish(ok, drained) PROVE Covered'
  BY <1>36 DEF Finish, Event, Ends, Kept, Lost
<1>37. ASSUME Crash PROVE Covered'
  BY <1>37 DEF Crash, Event, Ends, Lost
<1>38. ASSUME UNCHANGED vars PROVE Covered'
  BY <1>38 DEF vars
<1> QED
  BY <1>1, <1>2, <1>3, <1>4, <1>5, <1>6, <1>7, <1>8, <1>9, <1>10, <1>11, <1>12, <1>13, <1>14,
       <1>15, <1>16, <1>17, <1>18, <1>19, <1>20, <1>21, <1>22, <1>23, <1>24, <1>25, <1>26,
       <1>27, <1>28, <1>29, <1>30, <1>31, <1>32, <1>33, <1>34, <1>35, <1>36, <1>37, <1>38
     DEF Next, Exchange, Start, Worker, Dict, Alarms, Reconcile, Shutdown

\* The queue of events and the open transaction end with the process.
LEMMA LandedStep ==
  ASSUME TypeOK, Landed, [Next]_vars
  PROVE  Landed'
<1> USE DEF kalshi, disk, process, flags, chosen, crew, work, ending, outcome,
        Landed, TypeOK, Orders
<1>1. ASSUME NEW o \in Orders, Land(o) PROVE Landed'
  BY <1>1 DEF Land, Of
<1>2. ASSUME NEW o \in Orders, Expire(o) PROVE Landed'
  BY <1>2 DEF Expire
<1>3. ASSUME NEW o \in Orders, NEW flat \in BOOLEAN, NEW heard \in BOOLEAN, Fill(o, flat, heard)
      PROVE Landed'
  BY <1>3 DEF Fill, Of, Event, Live
<1>4. ASSUME NEW t \in Tickers, Close(t) PROVE Landed'
  BY <1>4 DEF Close, Of
<1>5. ASSUME StartRun PROVE Landed'
  BY <1>5 DEF StartRun
<1>6. ASSUME StartFifteen PROVE Landed'
  BY <1>6 DEF StartFifteen
<1>7. ASSUME IdleEnds PROVE Landed'
  BY <1>7 DEF IdleEnds, Ends
<1>8. ASSUME ReadPositions PROVE Landed'
  BY <1>8 DEF ReadPositions
<1>9. ASSUME StartFails PROVE Landed'
  BY <1>9 DEF StartFails, Event
<1>10. ASSUME StartDone PROVE Landed'
  BY <1>10 DEF StartDone, Loops
<1>11. ASSUME CancelAll PROVE Landed'
  BY <1>11 DEF CancelAll, Of, Managed
<1>12. ASSUME NEW t \in Tickers, Quote(t) PROVE Landed'
  BY <1>12 DEF Quote, Turns, Quoting, Approved, Mine, Live
<1>13. ASSUME NEW t \in Tickers, Cancel(t) PROVE Landed'
  BY <1>13 DEF Cancel, Turns, Quoting, Live
<1>14. ASSUME NEW t \in Tickers, CancelAnswered(t) PROVE Landed'
  BY <1>14 DEF CancelAnswered, Approved, Mine, Live
<1>15. ASSUME NEW t \in Tickers, CreateAnswered(t) PROVE Landed'
  BY <1>15 DEF CreateAnswered, Mine, Live
<1>16. ASSUME NEW t \in Tickers, Evict(t) PROVE Landed'
  BY <1>16 DEF Evict, Turns, OutOrWinds, Live
<1>17. ASSUME NEW t \in Tickers, Reap(t) PROVE Landed'
  BY <1>17 DEF Reap, OutOrWinds, Live
<1>18. ASSUME Promote PROVE Landed'
  BY <1>18 DEF Promote, Workers, Rearm, Live
<1>19. ASSUME Discover PROVE Landed'
  BY <1>19 DEF Discover, Workers, Rearm, Live
<1>20. ASSUME NEW t \in Tickers, Retire(t) PROVE Landed'
  BY <1>20 DEF Retire, Rearm, Live
<1>21. ASSUME NEW t \in Tickers, Settle(t) PROVE Landed'
  BY <1>21 DEF Settle, Live
<1>22. ASSUME NEW t \in Tickers, Remove(t) PROVE Landed'
  BY <1>22 DEF Remove, Rearm, Live
<1>23. ASSUME KillSwitch PROVE Landed'
  BY <1>23 DEF KillSwitch, Live
<1>24. ASSUME HaltDone PROVE Landed'
  BY <1>24 DEF HaltDone, Event, Live
<1>25. ASSUME TaskDies PROVE Landed'
  BY <1>25 DEF TaskDies, Event, Live
<1>26. ASSUME KillSwitchDies PROVE Landed'
  BY <1>26 DEF KillSwitchDies, Event, Live
<1>27. ASSUME Signal PROVE Landed'
  BY <1>27 DEF Signal
<1>28. ASSUME ClearHalt PROVE Landed'
  BY <1>28 DEF ClearHalt
<1>29. ASSUME NEW ok \in BOOLEAN, Flush(ok) PROVE Landed'
  BY <1>29 DEF Flush, Event, Kept, Live
<1>30. ASSUME NEW o \in Orders, ReconcileOrphan(o) PROVE Landed'
  BY <1>30 DEF ReconcileOrphan, Live
<1>31. ASSUME NEW t \in Tickers, ReconcileVanished(t) PROVE Landed'
  BY <1>31 DEF ReconcileVanished, Live
<1>32. ASSUME ReconcilePositions PROVE Landed'
  BY <1>32 DEF ReconcilePositions, Live
<1>33. ASSUME StopSeen PROVE Landed'
  BY <1>33 DEF StopSeen, NextStop, CancelTasks
<1>34. ASSUME Breaks PROVE Landed'
  BY <1>34 DEF Breaks, Ends, Lost
<1>35. ASSUME NEW ok \in BOOLEAN, StopAnswered(ok) PROVE Landed'
  BY <1>35 DEF StopAnswered, Event, NextStop, CancelTasks
<1>36. ASSUME NEW ok \in BOOLEAN, NEW drained \in BOOLEAN, Finish(ok, drained) PROVE Landed'
  BY <1>36 DEF Finish, Event, Ends, Kept, Lost
<1>37. ASSUME Crash PROVE Landed'
  BY <1>37 DEF Crash, Event, Ends, Lost
<1>38. ASSUME UNCHANGED vars PROVE Landed'
  BY <1>38 DEF vars
<1> QED
  BY <1>1, <1>2, <1>3, <1>4, <1>5, <1>6, <1>7, <1>8, <1>9, <1>10, <1>11, <1>12, <1>13, <1>14,
       <1>15, <1>16, <1>17, <1>18, <1>19, <1>20, <1>21, <1>22, <1>23, <1>24, <1>25, <1>26,
       <1>27, <1>28, <1>29, <1>30, <1>31, <1>32, <1>33, <1>34, <1>35, <1>36, <1>37, <1>38
     DEF Next, Exchange, Start, Worker, Dict, Alarms, Reconcile, Shutdown

\* run_fifteen has neither a selection nor a penalty box.
LEMMA NoBenchStep ==
  ASSUME TypeOK, NoBench, [Next]_vars
  PROVE  NoBench'
<1> USE DEF kalshi, disk, process, flags, chosen, crew, work, ending, outcome,
        NoBench, TypeOK, Orders
<1>1. ASSUME NEW o \in Orders, Land(o) PROVE NoBench'
  BY <1>1 DEF Land, Of
<1>2. ASSUME NEW o \in Orders, Expire(o) PROVE NoBench'
  BY <1>2 DEF Expire
<1>3. ASSUME NEW o \in Orders, NEW flat \in BOOLEAN, NEW heard \in BOOLEAN, Fill(o, flat, heard)
      PROVE NoBench'
  BY <1>3 DEF Fill, Of, Event, Live
<1>4. ASSUME NEW t \in Tickers, Close(t) PROVE NoBench'
  BY <1>4 DEF Close, Of
<1>5. ASSUME StartRun PROVE NoBench'
  BY <1>5 DEF StartRun
<1>6. ASSUME StartFifteen PROVE NoBench'
  BY <1>6 DEF StartFifteen
<1>7. ASSUME IdleEnds PROVE NoBench'
  BY <1>7 DEF IdleEnds, Ends
<1>8. ASSUME ReadPositions PROVE NoBench'
  BY <1>8 DEF ReadPositions
<1>9. ASSUME StartFails PROVE NoBench'
  BY <1>9 DEF StartFails, Event
<1>10. ASSUME StartDone PROVE NoBench'
  BY <1>10 DEF StartDone, Loops
<1>11. ASSUME CancelAll PROVE NoBench'
  BY <1>11 DEF CancelAll, Of, Managed
<1>12. ASSUME NEW t \in Tickers, Quote(t) PROVE NoBench'
  BY <1>12 DEF Quote, Turns, Quoting, Approved, Mine, Live
<1>13. ASSUME NEW t \in Tickers, Cancel(t) PROVE NoBench'
  BY <1>13 DEF Cancel, Turns, Quoting, Live
<1>14. ASSUME NEW t \in Tickers, CancelAnswered(t) PROVE NoBench'
  BY <1>14 DEF CancelAnswered, Approved, Mine, Live
<1>15. ASSUME NEW t \in Tickers, CreateAnswered(t) PROVE NoBench'
  BY <1>15 DEF CreateAnswered, Mine, Live
<1>16. ASSUME NEW t \in Tickers, Evict(t) PROVE NoBench'
  BY <1>16 DEF Evict, Turns, OutOrWinds, Live
<1>17. ASSUME NEW t \in Tickers, Reap(t) PROVE NoBench'
  BY <1>17 DEF Reap, OutOrWinds, Live
<1>18. ASSUME Promote PROVE NoBench'
  BY <1>18 DEF Promote, Workers, Rearm, Live
<1>19. ASSUME Discover PROVE NoBench'
  BY <1>19 DEF Discover, Workers, Rearm, Live
<1>20. ASSUME NEW t \in Tickers, Retire(t) PROVE NoBench'
  BY <1>20 DEF Retire, Rearm, Live
<1>21. ASSUME NEW t \in Tickers, Settle(t) PROVE NoBench'
  BY <1>21 DEF Settle, Live
<1>22. ASSUME NEW t \in Tickers, Remove(t) PROVE NoBench'
  BY <1>22 DEF Remove, Rearm, Live
<1>23. ASSUME KillSwitch PROVE NoBench'
  BY <1>23 DEF KillSwitch, Live
<1>24. ASSUME HaltDone PROVE NoBench'
  BY <1>24 DEF HaltDone, Event, Live
<1>25. ASSUME TaskDies PROVE NoBench'
  BY <1>25 DEF TaskDies, Event, Live
<1>26. ASSUME KillSwitchDies PROVE NoBench'
  BY <1>26 DEF KillSwitchDies, Event, Live
<1>27. ASSUME Signal PROVE NoBench'
  BY <1>27 DEF Signal
<1>28. ASSUME ClearHalt PROVE NoBench'
  BY <1>28 DEF ClearHalt
<1>29. ASSUME NEW ok \in BOOLEAN, Flush(ok) PROVE NoBench'
  BY <1>29 DEF Flush, Event, Kept, Live
<1>30. ASSUME NEW o \in Orders, ReconcileOrphan(o) PROVE NoBench'
  BY <1>30 DEF ReconcileOrphan, Live
<1>31. ASSUME NEW t \in Tickers, ReconcileVanished(t) PROVE NoBench'
  BY <1>31 DEF ReconcileVanished, Live
<1>32. ASSUME ReconcilePositions PROVE NoBench'
  BY <1>32 DEF ReconcilePositions, Live
<1>33. ASSUME StopSeen PROVE NoBench'
  BY <1>33 DEF StopSeen, NextStop, CancelTasks
<1>34. ASSUME Breaks PROVE NoBench'
  BY <1>34 DEF Breaks, Ends, Lost
<1>35. ASSUME NEW ok \in BOOLEAN, StopAnswered(ok) PROVE NoBench'
  BY <1>35 DEF StopAnswered, Event, NextStop, CancelTasks
<1>36. ASSUME NEW ok \in BOOLEAN, NEW drained \in BOOLEAN, Finish(ok, drained) PROVE NoBench'
  BY <1>36 DEF Finish, Event, Ends, Kept, Lost
<1>37. ASSUME Crash PROVE NoBench'
  BY <1>37 DEF Crash, Event, Ends, Lost
<1>38. ASSUME UNCHANGED vars PROVE NoBench'
  BY <1>38 DEF vars
<1> QED
  BY <1>1, <1>2, <1>3, <1>4, <1>5, <1>6, <1>7, <1>8, <1>9, <1>10, <1>11, <1>12, <1>13, <1>14,
       <1>15, <1>16, <1>17, <1>18, <1>19, <1>20, <1>21, <1>22, <1>23, <1>24, <1>25, <1>26,
       <1>27, <1>28, <1>29, <1>30, <1>31, <1>32, <1>33, <1>34, <1>35, <1>36, <1>37, <1>38
     DEF Next, Exchange, Start, Worker, Dict, Alarms, Reconcile, Shutdown

\* The selector's picks and the bench are disjoint, and a promotion takes its
\* markets off the bench.
LEMMA ApartStep ==
  ASSUME TypeOK, NoCrewYet, NoBench, Apart, [Next]_vars
  PROVE  Apart'
<1> USE DEF kalshi, disk, process, flags, chosen, crew, work, ending, outcome,
        Apart, NoBench, NoCrewYet, Workers, TypeOK, Orders
<1>1. ASSUME NEW o \in Orders, Land(o) PROVE Apart'
  BY <1>1 DEF Land, Of
<1>2. ASSUME NEW o \in Orders, Expire(o) PROVE Apart'
  BY <1>2 DEF Expire
<1>3. ASSUME NEW o \in Orders, NEW flat \in BOOLEAN, NEW heard \in BOOLEAN, Fill(o, flat, heard)
      PROVE Apart'
  BY <1>3 DEF Fill, Of, Event, Live
<1>4. ASSUME NEW t \in Tickers, Close(t) PROVE Apart'
  BY <1>4 DEF Close, Of
<1>5. ASSUME StartRun PROVE Apart'
  <2>1. picks' \cap standby' = {} /\ proc' = "reading" /\ mode = "run"
    BY <1>5 DEF StartRun
  <2>2. roster' = roster /\ proc = "down" /\ picks' \subseteq Tickers /\ standby' \subseteq Tickers
    BY <1>5 DEF StartRun
  <2> QED
    BY <2>1, <2>2
<1>6. ASSUME StartFifteen PROVE Apart'
  BY <1>6 DEF StartFifteen
<1>7. ASSUME IdleEnds PROVE Apart'
  BY <1>7 DEF IdleEnds, Ends
<1>8. ASSUME ReadPositions PROVE Apart'
  BY <1>8 DEF ReadPositions
<1>9. ASSUME StartFails PROVE Apart'
  BY <1>9 DEF StartFails, Event
<1>10. ASSUME StartDone PROVE Apart'
  BY <1>10 DEF StartDone, Loops
<1>11. ASSUME CancelAll PROVE Apart'
  BY <1>11 DEF CancelAll, Of, Managed
<1>12. ASSUME NEW t \in Tickers, Quote(t) PROVE Apart'
  BY <1>12 DEF Quote, Turns, Quoting, Approved, Mine, Live
<1>13. ASSUME NEW t \in Tickers, Cancel(t) PROVE Apart'
  BY <1>13 DEF Cancel, Turns, Quoting, Live
<1>14. ASSUME NEW t \in Tickers, CancelAnswered(t) PROVE Apart'
  BY <1>14 DEF CancelAnswered, Approved, Mine, Live
<1>15. ASSUME NEW t \in Tickers, CreateAnswered(t) PROVE Apart'
  BY <1>15 DEF CreateAnswered, Mine, Live
<1>16. ASSUME NEW t \in Tickers, Evict(t) PROVE Apart'
  BY <1>16 DEF Evict, Turns, OutOrWinds, Live
<1>17. ASSUME NEW t \in Tickers, Reap(t) PROVE Apart'
  BY <1>17 DEF Reap, OutOrWinds, Live
<1>18. ASSUME Promote PROVE Apart'
  BY <1>18 DEF Promote, Rearm, Live
<1>19. ASSUME Discover PROVE Apart'
  BY <1>19 DEF Discover, Rearm, Live
<1>20. ASSUME NEW t \in Tickers, Retire(t) PROVE Apart'
  BY <1>20 DEF Retire, Rearm, Live
<1>21. ASSUME NEW t \in Tickers, Settle(t) PROVE Apart'
  BY <1>21 DEF Settle, Live
<1>22. ASSUME NEW t \in Tickers, Remove(t) PROVE Apart'
  BY <1>22 DEF Remove, Rearm, Live
<1>23. ASSUME KillSwitch PROVE Apart'
  BY <1>23 DEF KillSwitch, Live
<1>24. ASSUME HaltDone PROVE Apart'
  BY <1>24 DEF HaltDone, Event, Live
<1>25. ASSUME TaskDies PROVE Apart'
  BY <1>25 DEF TaskDies, Event, Live
<1>26. ASSUME KillSwitchDies PROVE Apart'
  BY <1>26 DEF KillSwitchDies, Event, Live
<1>27. ASSUME Signal PROVE Apart'
  BY <1>27 DEF Signal
<1>28. ASSUME ClearHalt PROVE Apart'
  BY <1>28 DEF ClearHalt
<1>29. ASSUME NEW ok \in BOOLEAN, Flush(ok) PROVE Apart'
  BY <1>29 DEF Flush, Event, Kept, Live
<1>30. ASSUME NEW o \in Orders, ReconcileOrphan(o) PROVE Apart'
  BY <1>30 DEF ReconcileOrphan, Live
<1>31. ASSUME NEW t \in Tickers, ReconcileVanished(t) PROVE Apart'
  BY <1>31 DEF ReconcileVanished, Live
<1>32. ASSUME ReconcilePositions PROVE Apart'
  BY <1>32 DEF ReconcilePositions, Live
<1>33. ASSUME StopSeen PROVE Apart'
  BY <1>33 DEF StopSeen, NextStop, CancelTasks
<1>34. ASSUME Breaks PROVE Apart'
  BY <1>34 DEF Breaks, Ends, Lost
<1>35. ASSUME NEW ok \in BOOLEAN, StopAnswered(ok) PROVE Apart'
  BY <1>35 DEF StopAnswered, Event, NextStop, CancelTasks
<1>36. ASSUME NEW ok \in BOOLEAN, NEW drained \in BOOLEAN, Finish(ok, drained) PROVE Apart'
  BY <1>36 DEF Finish, Event, Ends, Kept, Lost
<1>37. ASSUME Crash PROVE Apart'
  BY <1>37 DEF Crash, Event, Ends, Lost
<1>38. ASSUME UNCHANGED vars PROVE Apart'
  BY <1>38 DEF vars
<1> QED
  BY <1>1, <1>2, <1>3, <1>4, <1>5, <1>6, <1>7, <1>8, <1>9, <1>10, <1>11, <1>12, <1>13, <1>14,
       <1>15, <1>16, <1>17, <1>18, <1>19, <1>20, <1>21, <1>22, <1>23, <1>24, <1>25, <1>26,
       <1>27, <1>28, <1>29, <1>30, <1>31, <1>32, <1>33, <1>34, <1>35, <1>36, <1>37, <1>38
     DEF Next, Exchange, Start, Worker, Dict, Alarms, Reconcile, Shutdown

\* An eviction meets a worker that quotes, never a pick or the bench.
LEMMA ScreenedStep ==
  ASSUME TypeOK, Landed, Apart, Screened, [Next]_vars
  PROVE  Screened'
<1> USE DEF kalshi, disk, process, flags, chosen, crew, work, ending, outcome,
        Screened, Landed, Apart, TypeOK, Orders
<1>1. ASSUME NEW o \in Orders, Land(o) PROVE Screened'
  BY <1>1 DEF Land, Of
<1>2. ASSUME NEW o \in Orders, Expire(o) PROVE Screened'
  BY <1>2 DEF Expire
<1>3. ASSUME NEW o \in Orders, NEW flat \in BOOLEAN, NEW heard \in BOOLEAN, Fill(o, flat, heard)
      PROVE Screened'
  BY <1>3 DEF Fill, Of, Event, Live
<1>4. ASSUME NEW t \in Tickers, Close(t) PROVE Screened'
  BY <1>4 DEF Close, Of
<1>5. ASSUME StartRun PROVE Screened'
  BY <1>5 DEF StartRun
<1>6. ASSUME StartFifteen PROVE Screened'
  BY <1>6 DEF StartFifteen
<1>7. ASSUME IdleEnds PROVE Screened'
  BY <1>7 DEF IdleEnds, Ends
<1>8. ASSUME ReadPositions PROVE Screened'
  BY <1>8 DEF ReadPositions
<1>9. ASSUME StartFails PROVE Screened'
  BY <1>9 DEF StartFails, Event
<1>10. ASSUME StartDone PROVE Screened'
  BY <1>10 DEF StartDone, Loops
<1>11. ASSUME CancelAll PROVE Screened'
  BY <1>11 DEF CancelAll, Of, Managed
<1>12. ASSUME NEW t \in Tickers, Quote(t) PROVE Screened'
  BY <1>12 DEF Quote, Turns, Quoting, Approved, Mine, Live
<1>13. ASSUME NEW t \in Tickers, Cancel(t) PROVE Screened'
  BY <1>13 DEF Cancel, Turns, Quoting, Live
<1>14. ASSUME NEW t \in Tickers, CancelAnswered(t) PROVE Screened'
  BY <1>14 DEF CancelAnswered, Approved, Mine, Live
<1>15. ASSUME NEW t \in Tickers, CreateAnswered(t) PROVE Screened'
  BY <1>15 DEF CreateAnswered, Mine, Live
<1>16. ASSUME NEW t \in Tickers, Evict(t) PROVE Screened'
  BY <1>16 DEF Evict, Turns, OutOrWinds, Live
<1>17. ASSUME NEW t \in Tickers, Reap(t) PROVE Screened'
  BY <1>17 DEF Reap, OutOrWinds, Live
<1>18. ASSUME Promote PROVE Screened'
  BY <1>18 DEF Promote, Workers, Rearm, Live
<1>19. ASSUME Discover PROVE Screened'
  BY <1>19 DEF Discover, Workers, Rearm, Live
<1>20. ASSUME NEW t \in Tickers, Retire(t) PROVE Screened'
  BY <1>20 DEF Retire, Rearm, Live
<1>21. ASSUME NEW t \in Tickers, Settle(t) PROVE Screened'
  BY <1>21 DEF Settle, Live
<1>22. ASSUME NEW t \in Tickers, Remove(t) PROVE Screened'
  BY <1>22 DEF Remove, Rearm, Live
<1>23. ASSUME KillSwitch PROVE Screened'
  BY <1>23 DEF KillSwitch, Live
<1>24. ASSUME HaltDone PROVE Screened'
  BY <1>24 DEF HaltDone, Event, Live
<1>25. ASSUME TaskDies PROVE Screened'
  BY <1>25 DEF TaskDies, Event, Live
<1>26. ASSUME KillSwitchDies PROVE Screened'
  BY <1>26 DEF KillSwitchDies, Event, Live
<1>27. ASSUME Signal PROVE Screened'
  BY <1>27 DEF Signal
<1>28. ASSUME ClearHalt PROVE Screened'
  BY <1>28 DEF ClearHalt
<1>29. ASSUME NEW ok \in BOOLEAN, Flush(ok) PROVE Screened'
  BY <1>29 DEF Flush, Event, Kept, Live
<1>30. ASSUME NEW o \in Orders, ReconcileOrphan(o) PROVE Screened'
  BY <1>30 DEF ReconcileOrphan, Live
<1>31. ASSUME NEW t \in Tickers, ReconcileVanished(t) PROVE Screened'
  BY <1>31 DEF ReconcileVanished, Live
<1>32. ASSUME ReconcilePositions PROVE Screened'
  BY <1>32 DEF ReconcilePositions, Live
<1>33. ASSUME StopSeen PROVE Screened'
  BY <1>33 DEF StopSeen, NextStop, CancelTasks
<1>34. ASSUME Breaks PROVE Screened'
  BY <1>34 DEF Breaks, Ends, Lost
<1>35. ASSUME NEW ok \in BOOLEAN, StopAnswered(ok) PROVE Screened'
  BY <1>35 DEF StopAnswered, Event, NextStop, CancelTasks
<1>36. ASSUME NEW ok \in BOOLEAN, NEW drained \in BOOLEAN, Finish(ok, drained) PROVE Screened'
  BY <1>36 DEF Finish, Event, Ends, Kept, Lost
<1>37. ASSUME Crash PROVE Screened'
  BY <1>37 DEF Crash, Event, Ends, Lost
<1>38. ASSUME UNCHANGED vars PROVE Screened'
  BY <1>38 DEF vars
<1> QED
  BY <1>1, <1>2, <1>3, <1>4, <1>5, <1>6, <1>7, <1>8, <1>9, <1>10, <1>11, <1>12, <1>13, <1>14,
       <1>15, <1>16, <1>17, <1>18, <1>19, <1>20, <1>21, <1>22, <1>23, <1>24, <1>25, <1>26,
       <1>27, <1>28, <1>29, <1>30, <1>31, <1>32, <1>33, <1>34, <1>35, <1>36, <1>37, <1>38
     DEF Next, Exchange, Start, Worker, Dict, Alarms, Reconcile, Shutdown

\* A worker that quotes was made from a pick, from the bench or by discovery.
LEMMA EvictedStep ==
  ASSUME TypeOK, Screened, NoBench, EvictedStaysOut, [Next]_vars
  PROVE  EvictedStaysOut'
<1> USE DEF kalshi, disk, process, flags, chosen, crew, work, ending, outcome,
        EvictedStaysOut, NoBench, Screened, TypeOK, Orders
<1>1. ASSUME NEW o \in Orders, Land(o) PROVE EvictedStaysOut'
  BY <1>1 DEF Land, Of
<1>2. ASSUME NEW o \in Orders, Expire(o) PROVE EvictedStaysOut'
  BY <1>2 DEF Expire
<1>3. ASSUME NEW o \in Orders, NEW flat \in BOOLEAN, NEW heard \in BOOLEAN, Fill(o, flat, heard)
      PROVE EvictedStaysOut'
  BY <1>3 DEF Fill, Of, Event, Live
<1>4. ASSUME NEW t \in Tickers, Close(t) PROVE EvictedStaysOut'
  BY <1>4 DEF Close, Of
<1>5. ASSUME StartRun PROVE EvictedStaysOut'
  BY <1>5 DEF StartRun
<1>6. ASSUME StartFifteen PROVE EvictedStaysOut'
  BY <1>6 DEF StartFifteen
<1>7. ASSUME IdleEnds PROVE EvictedStaysOut'
  BY <1>7 DEF IdleEnds, Ends
<1>8. ASSUME ReadPositions PROVE EvictedStaysOut'
  BY <1>8 DEF ReadPositions
<1>9. ASSUME StartFails PROVE EvictedStaysOut'
  BY <1>9 DEF StartFails, Event
<1>10. ASSUME StartDone PROVE EvictedStaysOut'
  BY <1>10 DEF StartDone, Loops
<1>11. ASSUME CancelAll PROVE EvictedStaysOut'
  BY <1>11 DEF CancelAll, Of, Managed
<1>12. ASSUME NEW t \in Tickers, Quote(t) PROVE EvictedStaysOut'
  BY <1>12 DEF Quote, Turns, Quoting, Approved, Mine, Live
<1>13. ASSUME NEW t \in Tickers, Cancel(t) PROVE EvictedStaysOut'
  BY <1>13 DEF Cancel, Turns, Quoting, Live
<1>14. ASSUME NEW t \in Tickers, CancelAnswered(t) PROVE EvictedStaysOut'
  BY <1>14 DEF CancelAnswered, Approved, Mine, Live
<1>15. ASSUME NEW t \in Tickers, CreateAnswered(t) PROVE EvictedStaysOut'
  BY <1>15 DEF CreateAnswered, Mine, Live
<1>16. ASSUME NEW t \in Tickers, Evict(t) PROVE EvictedStaysOut'
  BY <1>16 DEF Evict, Turns, OutOrWinds, Live
<1>17. ASSUME NEW t \in Tickers, Reap(t) PROVE EvictedStaysOut'
  BY <1>17 DEF Reap, OutOrWinds, Live
<1>18. ASSUME Promote PROVE EvictedStaysOut'
  BY <1>18 DEF Promote, Workers, Rearm, Live
<1>19. ASSUME Discover PROVE EvictedStaysOut'
  BY <1>19 DEF Discover, Workers, Rearm, Live
<1>20. ASSUME NEW t \in Tickers, Retire(t) PROVE EvictedStaysOut'
  BY <1>20 DEF Retire, Rearm, Live
<1>21. ASSUME NEW t \in Tickers, Settle(t) PROVE EvictedStaysOut'
  BY <1>21 DEF Settle, Live
<1>22. ASSUME NEW t \in Tickers, Remove(t) PROVE EvictedStaysOut'
  BY <1>22 DEF Remove, Rearm, Live
<1>23. ASSUME KillSwitch PROVE EvictedStaysOut'
  BY <1>23 DEF KillSwitch, Live
<1>24. ASSUME HaltDone PROVE EvictedStaysOut'
  BY <1>24 DEF HaltDone, Event, Live
<1>25. ASSUME TaskDies PROVE EvictedStaysOut'
  BY <1>25 DEF TaskDies, Event, Live
<1>26. ASSUME KillSwitchDies PROVE EvictedStaysOut'
  BY <1>26 DEF KillSwitchDies, Event, Live
<1>27. ASSUME Signal PROVE EvictedStaysOut'
  BY <1>27 DEF Signal
<1>28. ASSUME ClearHalt PROVE EvictedStaysOut'
  BY <1>28 DEF ClearHalt
<1>29. ASSUME NEW ok \in BOOLEAN, Flush(ok) PROVE EvictedStaysOut'
  BY <1>29 DEF Flush, Event, Kept, Live
<1>30. ASSUME NEW o \in Orders, ReconcileOrphan(o) PROVE EvictedStaysOut'
  BY <1>30 DEF ReconcileOrphan, Live
<1>31. ASSUME NEW t \in Tickers, ReconcileVanished(t) PROVE EvictedStaysOut'
  BY <1>31 DEF ReconcileVanished, Live
<1>32. ASSUME ReconcilePositions PROVE EvictedStaysOut'
  BY <1>32 DEF ReconcilePositions, Live
<1>33. ASSUME StopSeen PROVE EvictedStaysOut'
  BY <1>33 DEF StopSeen, NextStop, CancelTasks
<1>34. ASSUME Breaks PROVE EvictedStaysOut'
  BY <1>34 DEF Breaks, Ends, Lost
<1>35. ASSUME NEW ok \in BOOLEAN, StopAnswered(ok) PROVE EvictedStaysOut'
  BY <1>35 DEF StopAnswered, Event, NextStop, CancelTasks
<1>36. ASSUME NEW ok \in BOOLEAN, NEW drained \in BOOLEAN, Finish(ok, drained)
      PROVE EvictedStaysOut'
  BY <1>36 DEF Finish, Event, Ends, Kept, Lost
<1>37. ASSUME Crash PROVE EvictedStaysOut'
  BY <1>37 DEF Crash, Event, Ends, Lost
<1>38. ASSUME UNCHANGED vars PROVE EvictedStaysOut'
  BY <1>38 DEF vars
<1> QED
  BY <1>1, <1>2, <1>3, <1>4, <1>5, <1>6, <1>7, <1>8, <1>9, <1>10, <1>11, <1>12, <1>13, <1>14,
       <1>15, <1>16, <1>17, <1>18, <1>19, <1>20, <1>21, <1>22, <1>23, <1>24, <1>25, <1>26,
       <1>27, <1>28, <1>29, <1>30, <1>31, <1>32, <1>33, <1>34, <1>35, <1>36, <1>37, <1>38
     DEF Next, Exchange, Start, Worker, Dict, Alarms, Reconcile, Shutdown

\* A worker goes out only while flat, and what comes to light later is recorded.
LEMMA AbandonedStep ==
  ASSUME TypeOK, NoCrewYet, NeverAbandoned, [Next]_vars
  PROVE  NeverAbandoned'
<1> USE DEF kalshi, disk, process, flags, chosen, crew, work, ending, outcome,
        NeverAbandoned, NoCrewYet, Workers, TypeOK, Orders
<1>1. ASSUME NEW o \in Orders, Land(o) PROVE NeverAbandoned'
  BY <1>1 DEF Land, Of
<1>2. ASSUME NEW o \in Orders, Expire(o) PROVE NeverAbandoned'
  BY <1>2 DEF Expire
<1>3. ASSUME NEW o \in Orders, NEW flat \in BOOLEAN, NEW heard \in BOOLEAN, Fill(o, flat, heard)
      PROVE NeverAbandoned'
  BY <1>3 DEF Fill, Of, Event, Live
<1>4. ASSUME NEW t \in Tickers, Close(t) PROVE NeverAbandoned'
  BY <1>4 DEF Close, Of
<1>5. ASSUME StartRun PROVE NeverAbandoned'
  BY <1>5 DEF StartRun
<1>6. ASSUME StartFifteen PROVE NeverAbandoned'
  BY <1>6 DEF StartFifteen
<1>7. ASSUME IdleEnds PROVE NeverAbandoned'
  BY <1>7 DEF IdleEnds, Ends
<1>8. ASSUME ReadPositions PROVE NeverAbandoned'
  BY <1>8 DEF ReadPositions
<1>9. ASSUME StartFails PROVE NeverAbandoned'
  BY <1>9 DEF StartFails, Event
<1>10. ASSUME StartDone PROVE NeverAbandoned'
  BY <1>10 DEF StartDone, Loops
<1>11. ASSUME CancelAll PROVE NeverAbandoned'
  BY <1>11 DEF CancelAll, Of, Managed
<1>12. ASSUME NEW t \in Tickers, Quote(t) PROVE NeverAbandoned'
  BY <1>12 DEF Quote, Turns, Quoting, Approved, Mine, Live
<1>13. ASSUME NEW t \in Tickers, Cancel(t) PROVE NeverAbandoned'
  BY <1>13 DEF Cancel, Turns, Quoting, Live
<1>14. ASSUME NEW t \in Tickers, CancelAnswered(t) PROVE NeverAbandoned'
  BY <1>14 DEF CancelAnswered, Approved, Mine, Live
<1>15. ASSUME NEW t \in Tickers, CreateAnswered(t) PROVE NeverAbandoned'
  BY <1>15 DEF CreateAnswered, Mine, Live
<1>16. ASSUME NEW t \in Tickers, Evict(t) PROVE NeverAbandoned'
  BY <1>16 DEF Evict, Turns, OutOrWinds, Live
<1>17. ASSUME NEW t \in Tickers, Reap(t) PROVE NeverAbandoned'
  BY <1>17 DEF Reap, OutOrWinds, Live
<1>18. ASSUME Promote PROVE NeverAbandoned'
  BY <1>18 DEF Promote, Rearm, Live
<1>19. ASSUME Discover PROVE NeverAbandoned'
  BY <1>19 DEF Discover, Rearm, Live
<1>20. ASSUME NEW t \in Tickers, Retire(t) PROVE NeverAbandoned'
  BY <1>20 DEF Retire, Rearm, Live
<1>21. ASSUME NEW t \in Tickers, Settle(t) PROVE NeverAbandoned'
  BY <1>21 DEF Settle, Live
<1>22. ASSUME NEW t \in Tickers, Remove(t) PROVE NeverAbandoned'
  BY <1>22 DEF Remove, Rearm, Live
<1>23. ASSUME KillSwitch PROVE NeverAbandoned'
  BY <1>23 DEF KillSwitch, Live
<1>24. ASSUME HaltDone PROVE NeverAbandoned'
  BY <1>24 DEF HaltDone, Event, Live
<1>25. ASSUME TaskDies PROVE NeverAbandoned'
  BY <1>25 DEF TaskDies, Event, Live
<1>26. ASSUME KillSwitchDies PROVE NeverAbandoned'
  BY <1>26 DEF KillSwitchDies, Event, Live
<1>27. ASSUME Signal PROVE NeverAbandoned'
  BY <1>27 DEF Signal
<1>28. ASSUME ClearHalt PROVE NeverAbandoned'
  BY <1>28 DEF ClearHalt
<1>29. ASSUME NEW ok \in BOOLEAN, Flush(ok) PROVE NeverAbandoned'
  BY <1>29 DEF Flush, Event, Kept, Live
<1>30. ASSUME NEW o \in Orders, ReconcileOrphan(o) PROVE NeverAbandoned'
  BY <1>30 DEF ReconcileOrphan, Live
<1>31. ASSUME NEW t \in Tickers, ReconcileVanished(t) PROVE NeverAbandoned'
  BY <1>31 DEF ReconcileVanished, Live
<1>32. ASSUME ReconcilePositions PROVE NeverAbandoned'
  BY <1>32 DEF ReconcilePositions, Live
<1>33. ASSUME StopSeen PROVE NeverAbandoned'
  BY <1>33 DEF StopSeen, NextStop, CancelTasks
<1>34. ASSUME Breaks PROVE NeverAbandoned'
  BY <1>34 DEF Breaks, Ends, Lost
<1>35. ASSUME NEW ok \in BOOLEAN, StopAnswered(ok) PROVE NeverAbandoned'
  BY <1>35 DEF StopAnswered, Event, NextStop, CancelTasks
<1>36. ASSUME NEW ok \in BOOLEAN, NEW drained \in BOOLEAN, Finish(ok, drained)
      PROVE NeverAbandoned'
  BY <1>36 DEF Finish, Event, Ends, Kept, Lost
<1>37. ASSUME Crash PROVE NeverAbandoned'
  BY <1>37 DEF Crash, Event, Ends, Lost
<1>38. ASSUME UNCHANGED vars PROVE NeverAbandoned'
  BY <1>38 DEF vars
<1> QED
  BY <1>1, <1>2, <1>3, <1>4, <1>5, <1>6, <1>7, <1>8, <1>9, <1>10, <1>11, <1>12, <1>13, <1>14,
       <1>15, <1>16, <1>17, <1>18, <1>19, <1>20, <1>21, <1>22, <1>23, <1>24, <1>25, <1>26,
       <1>27, <1>28, <1>29, <1>30, <1>31, <1>32, <1>33, <1>34, <1>35, <1>36, <1>37, <1>38
     DEF Next, Exchange, Start, Worker, Dict, Alarms, Reconcile, Shutdown

\* No step approves an order under the marker or after the kill switch.
LEMMA HaltHoldsStep ==
  ASSUME TypeOK, MarkerSeen, [Next]_vars
  PROVE  (marker \/ halted => sent' \subseteq sent)
<1> USE DEF kalshi, disk, process, flags, chosen, crew, work, ending, outcome,
        MarkerSeen, TypeOK, Orders
<1>1. ASSUME NEW o \in Orders, Land(o) PROVE (marker \/ halted => sent' \subseteq sent)
  BY <1>1 DEF Land, Of
<1>2. ASSUME NEW o \in Orders, Expire(o) PROVE (marker \/ halted => sent' \subseteq sent)
  BY <1>2 DEF Expire
<1>3. ASSUME NEW o \in Orders, NEW flat \in BOOLEAN, NEW heard \in BOOLEAN, Fill(o, flat, heard)
      PROVE (marker \/ halted => sent' \subseteq sent)
  BY <1>3 DEF Fill, Of, Event, Live
<1>4. ASSUME NEW t \in Tickers, Close(t) PROVE (marker \/ halted => sent' \subseteq sent)
  BY <1>4 DEF Close, Of
<1>5. ASSUME StartRun PROVE (marker \/ halted => sent' \subseteq sent)
  BY <1>5 DEF StartRun
<1>6. ASSUME StartFifteen PROVE (marker \/ halted => sent' \subseteq sent)
  BY <1>6 DEF StartFifteen
<1>7. ASSUME IdleEnds PROVE (marker \/ halted => sent' \subseteq sent)
  BY <1>7 DEF IdleEnds, Ends
<1>8. ASSUME ReadPositions PROVE (marker \/ halted => sent' \subseteq sent)
  BY <1>8 DEF ReadPositions
<1>9. ASSUME StartFails PROVE (marker \/ halted => sent' \subseteq sent)
  BY <1>9 DEF StartFails, Event
<1>10. ASSUME StartDone PROVE (marker \/ halted => sent' \subseteq sent)
  BY <1>10 DEF StartDone, Loops
<1>11. ASSUME CancelAll PROVE (marker \/ halted => sent' \subseteq sent)
  BY <1>11 DEF CancelAll, Of, Managed
<1>12. ASSUME NEW t \in Tickers, Quote(t) PROVE (marker \/ halted => sent' \subseteq sent)
  BY <1>12 DEF Quote, Turns, Quoting, Approved, Mine, Live
<1>13. ASSUME NEW t \in Tickers, Cancel(t) PROVE (marker \/ halted => sent' \subseteq sent)
  BY <1>13 DEF Cancel, Turns, Quoting, Live
<1>14. ASSUME NEW t \in Tickers, CancelAnswered(t)
      PROVE (marker \/ halted => sent' \subseteq sent)
  BY <1>14 DEF CancelAnswered, Approved, Mine, Live
<1>15. ASSUME NEW t \in Tickers, CreateAnswered(t)
      PROVE (marker \/ halted => sent' \subseteq sent)
  BY <1>15 DEF CreateAnswered, Mine, Live
<1>16. ASSUME NEW t \in Tickers, Evict(t) PROVE (marker \/ halted => sent' \subseteq sent)
  BY <1>16 DEF Evict, Turns, OutOrWinds, Live
<1>17. ASSUME NEW t \in Tickers, Reap(t) PROVE (marker \/ halted => sent' \subseteq sent)
  BY <1>17 DEF Reap, OutOrWinds, Live
<1>18. ASSUME Promote PROVE (marker \/ halted => sent' \subseteq sent)
  BY <1>18 DEF Promote, Workers, Rearm, Live
<1>19. ASSUME Discover PROVE (marker \/ halted => sent' \subseteq sent)
  BY <1>19 DEF Discover, Workers, Rearm, Live
<1>20. ASSUME NEW t \in Tickers, Retire(t) PROVE (marker \/ halted => sent' \subseteq sent)
  BY <1>20 DEF Retire, Rearm, Live
<1>21. ASSUME NEW t \in Tickers, Settle(t) PROVE (marker \/ halted => sent' \subseteq sent)
  BY <1>21 DEF Settle, Live
<1>22. ASSUME NEW t \in Tickers, Remove(t) PROVE (marker \/ halted => sent' \subseteq sent)
  BY <1>22 DEF Remove, Rearm, Live
<1>23. ASSUME KillSwitch PROVE (marker \/ halted => sent' \subseteq sent)
  BY <1>23 DEF KillSwitch, Live
<1>24. ASSUME HaltDone PROVE (marker \/ halted => sent' \subseteq sent)
  BY <1>24 DEF HaltDone, Event, Live
<1>25. ASSUME TaskDies PROVE (marker \/ halted => sent' \subseteq sent)
  BY <1>25 DEF TaskDies, Event, Live
<1>26. ASSUME KillSwitchDies PROVE (marker \/ halted => sent' \subseteq sent)
  BY <1>26 DEF KillSwitchDies, Event, Live
<1>27. ASSUME Signal PROVE (marker \/ halted => sent' \subseteq sent)
  BY <1>27 DEF Signal
<1>28. ASSUME ClearHalt PROVE (marker \/ halted => sent' \subseteq sent)
  BY <1>28 DEF ClearHalt
<1>29. ASSUME NEW ok \in BOOLEAN, Flush(ok) PROVE (marker \/ halted => sent' \subseteq sent)
  BY <1>29 DEF Flush, Event, Kept, Live
<1>30. ASSUME NEW o \in Orders, ReconcileOrphan(o)
      PROVE (marker \/ halted => sent' \subseteq sent)
  BY <1>30 DEF ReconcileOrphan, Live
<1>31. ASSUME NEW t \in Tickers, ReconcileVanished(t)
      PROVE (marker \/ halted => sent' \subseteq sent)
  BY <1>31 DEF ReconcileVanished, Live
<1>32. ASSUME ReconcilePositions PROVE (marker \/ halted => sent' \subseteq sent)
  BY <1>32 DEF ReconcilePositions, Live
<1>33. ASSUME StopSeen PROVE (marker \/ halted => sent' \subseteq sent)
  BY <1>33 DEF StopSeen, NextStop, CancelTasks
<1>34. ASSUME Breaks PROVE (marker \/ halted => sent' \subseteq sent)
  BY <1>34 DEF Breaks, Ends, Lost
<1>35. ASSUME NEW ok \in BOOLEAN, StopAnswered(ok)
      PROVE (marker \/ halted => sent' \subseteq sent)
  BY <1>35 DEF StopAnswered, Event, NextStop, CancelTasks
<1>36. ASSUME NEW ok \in BOOLEAN, NEW drained \in BOOLEAN, Finish(ok, drained)
      PROVE (marker \/ halted => sent' \subseteq sent)
  BY <1>36 DEF Finish, Event, Ends, Kept, Lost
<1>37. ASSUME Crash PROVE (marker \/ halted => sent' \subseteq sent)
  BY <1>37 DEF Crash, Event, Ends, Lost
<1>38. ASSUME UNCHANGED vars PROVE (marker \/ halted => sent' \subseteq sent)
  BY <1>38 DEF vars
<1> QED
  BY <1>1, <1>2, <1>3, <1>4, <1>5, <1>6, <1>7, <1>8, <1>9, <1>10, <1>11, <1>12, <1>13, <1>14,
       <1>15, <1>16, <1>17, <1>18, <1>19, <1>20, <1>21, <1>22, <1>23, <1>24, <1>25, <1>26,
       <1>27, <1>28, <1>29, <1>30, <1>31, <1>32, <1>33, <1>34, <1>35, <1>36, <1>37, <1>38
     DEF Next, Exchange, Start, Worker, Dict, Alarms, Reconcile, Shutdown

\* The last listing covers every order of the session.
LEMMA ShutdownCleanStep ==
  ASSUME TypeOK, OpenOnly, Covered, [Next]_vars
  PROVE  (report' = "clean" /\ report # "clean" => \A o \in resting : o[2] # session)
<1> USE DEF kalshi, disk, process, flags, chosen, crew, work, ending, outcome,
        Covered, OpenOnly, Mine, Managed, Of, TypeOK, Orders
<1>1. ASSUME NEW x \in Orders, Land(x)
      PROVE (report' = "clean" /\ report # "clean" => \A o \in resting : o[2] # session)
  BY <1>1 DEF Land
<1>2. ASSUME NEW x \in Orders, Expire(x)
      PROVE (report' = "clean" /\ report # "clean" => \A o \in resting : o[2] # session)
  BY <1>2 DEF Expire
<1>3. ASSUME NEW x \in Orders, NEW flat \in BOOLEAN, NEW heard \in BOOLEAN, Fill(x, flat, heard)
      PROVE (report' = "clean" /\ report # "clean" => \A o \in resting : o[2] # session)
  BY <1>3 DEF Fill, Event, Live
<1>4. ASSUME NEW t \in Tickers, Close(t)
      PROVE (report' = "clean" /\ report # "clean" => \A o \in resting : o[2] # session)
  BY <1>4 DEF Close
<1>5. ASSUME StartRun
      PROVE (report' = "clean" /\ report # "clean" => \A o \in resting : o[2] # session)
  BY <1>5 DEF StartRun
<1>6. ASSUME StartFifteen
      PROVE (report' = "clean" /\ report # "clean" => \A o \in resting : o[2] # session)
  BY <1>6 DEF StartFifteen
<1>7. ASSUME IdleEnds
      PROVE (report' = "clean" /\ report # "clean" => \A o \in resting : o[2] # session)
  BY <1>7 DEF IdleEnds, Ends
<1>8. ASSUME ReadPositions
      PROVE (report' = "clean" /\ report # "clean" => \A o \in resting : o[2] # session)
  BY <1>8 DEF ReadPositions
<1>9. ASSUME StartFails
      PROVE (report' = "clean" /\ report # "clean" => \A o \in resting : o[2] # session)
  BY <1>9 DEF StartFails, Event
<1>10. ASSUME StartDone
      PROVE (report' = "clean" /\ report # "clean" => \A o \in resting : o[2] # session)
  BY <1>10 DEF StartDone, Loops
<1>11. ASSUME CancelAll
      PROVE (report' = "clean" /\ report # "clean" => \A o \in resting : o[2] # session)
  BY <1>11 DEF CancelAll
<1>12. ASSUME NEW t \in Tickers, Quote(t)
      PROVE (report' = "clean" /\ report # "clean" => \A o \in resting : o[2] # session)
  BY <1>12 DEF Quote, Turns, Quoting, Approved, Live
<1>13. ASSUME NEW t \in Tickers, Cancel(t)
      PROVE (report' = "clean" /\ report # "clean" => \A o \in resting : o[2] # session)
  BY <1>13 DEF Cancel, Turns, Quoting, Live
<1>14. ASSUME NEW t \in Tickers, CancelAnswered(t)
      PROVE (report' = "clean" /\ report # "clean" => \A o \in resting : o[2] # session)
  BY <1>14 DEF CancelAnswered, Approved, Live
<1>15. ASSUME NEW t \in Tickers, CreateAnswered(t)
      PROVE (report' = "clean" /\ report # "clean" => \A o \in resting : o[2] # session)
  BY <1>15 DEF CreateAnswered, Live
<1>16. ASSUME NEW t \in Tickers, Evict(t)
      PROVE (report' = "clean" /\ report # "clean" => \A o \in resting : o[2] # session)
  BY <1>16 DEF Evict, Turns, OutOrWinds, Live
<1>17. ASSUME NEW t \in Tickers, Reap(t)
      PROVE (report' = "clean" /\ report # "clean" => \A o \in resting : o[2] # session)
  BY <1>17 DEF Reap, OutOrWinds, Live
<1>18. ASSUME Promote
      PROVE (report' = "clean" /\ report # "clean" => \A o \in resting : o[2] # session)
  BY <1>18 DEF Promote, Workers, Rearm, Live
<1>19. ASSUME Discover
      PROVE (report' = "clean" /\ report # "clean" => \A o \in resting : o[2] # session)
  BY <1>19 DEF Discover, Workers, Rearm, Live
<1>20. ASSUME NEW t \in Tickers, Retire(t)
      PROVE (report' = "clean" /\ report # "clean" => \A o \in resting : o[2] # session)
  BY <1>20 DEF Retire, Rearm, Live
<1>21. ASSUME NEW t \in Tickers, Settle(t)
      PROVE (report' = "clean" /\ report # "clean" => \A o \in resting : o[2] # session)
  BY <1>21 DEF Settle, Live
<1>22. ASSUME NEW t \in Tickers, Remove(t)
      PROVE (report' = "clean" /\ report # "clean" => \A o \in resting : o[2] # session)
  BY <1>22 DEF Remove, Rearm, Live
<1>23. ASSUME KillSwitch
      PROVE (report' = "clean" /\ report # "clean" => \A o \in resting : o[2] # session)
  BY <1>23 DEF KillSwitch, Live
<1>24. ASSUME HaltDone
      PROVE (report' = "clean" /\ report # "clean" => \A o \in resting : o[2] # session)
  BY <1>24 DEF HaltDone, Event, Live
<1>25. ASSUME TaskDies
      PROVE (report' = "clean" /\ report # "clean" => \A o \in resting : o[2] # session)
  BY <1>25 DEF TaskDies, Event, Live
<1>26. ASSUME KillSwitchDies
      PROVE (report' = "clean" /\ report # "clean" => \A o \in resting : o[2] # session)
  BY <1>26 DEF KillSwitchDies, Event, Live
<1>27. ASSUME Signal
      PROVE (report' = "clean" /\ report # "clean" => \A o \in resting : o[2] # session)
  BY <1>27 DEF Signal
<1>28. ASSUME ClearHalt
      PROVE (report' = "clean" /\ report # "clean" => \A o \in resting : o[2] # session)
  BY <1>28 DEF ClearHalt
<1>29. ASSUME NEW ok \in BOOLEAN, Flush(ok)
      PROVE (report' = "clean" /\ report # "clean" => \A o \in resting : o[2] # session)
  BY <1>29 DEF Flush, Event, Kept, Live
<1>30. ASSUME NEW x \in Orders, ReconcileOrphan(x)
      PROVE (report' = "clean" /\ report # "clean" => \A o \in resting : o[2] # session)
  BY <1>30 DEF ReconcileOrphan, Live
<1>31. ASSUME NEW t \in Tickers, ReconcileVanished(t)
      PROVE (report' = "clean" /\ report # "clean" => \A o \in resting : o[2] # session)
  BY <1>31 DEF ReconcileVanished, Live
<1>32. ASSUME ReconcilePositions
      PROVE (report' = "clean" /\ report # "clean" => \A o \in resting : o[2] # session)
  BY <1>32 DEF ReconcilePositions, Live
<1>33. ASSUME StopSeen
      PROVE (report' = "clean" /\ report # "clean" => \A o \in resting : o[2] # session)
  BY <1>33 DEF StopSeen, NextStop, CancelTasks
<1>34. ASSUME Breaks
      PROVE (report' = "clean" /\ report # "clean" => \A o \in resting : o[2] # session)
  BY <1>34 DEF Breaks, Ends, Lost
<1>35. ASSUME NEW ok \in BOOLEAN, StopAnswered(ok)
      PROVE (report' = "clean" /\ report # "clean" => \A o \in resting : o[2] # session)
  BY <1>35 DEF StopAnswered, Event, NextStop, CancelTasks
<1>36. ASSUME NEW ok \in BOOLEAN, NEW drained \in BOOLEAN, Finish(ok, drained)
      PROVE (report' = "clean" /\ report # "clean" => \A o \in resting : o[2] # session)
  BY <1>36 DEF Finish, Event, Ends, Kept, Lost
<1>37. ASSUME Crash
      PROVE (report' = "clean" /\ report # "clean" => \A o \in resting : o[2] # session)
  BY <1>37 DEF Crash, Event, Ends, Lost
<1>38. ASSUME UNCHANGED vars
      PROVE (report' = "clean" /\ report # "clean" => \A o \in resting : o[2] # session)
  BY <1>38 DEF vars
<1> QED
  BY <1>1, <1>2, <1>3, <1>4, <1>5, <1>6, <1>7, <1>8, <1>9, <1>10, <1>11, <1>12, <1>13, <1>14,
       <1>15, <1>16, <1>17, <1>18, <1>19, <1>20, <1>21, <1>22, <1>23, <1>24, <1>25, <1>26,
       <1>27, <1>28, <1>29, <1>30, <1>31, <1>32, <1>33, <1>34, <1>35, <1>36, <1>37, <1>38
     DEF Next, Exchange, Start, Worker, Dict, Alarms, Reconcile, Shutdown

-----------------------------------------------------------------------------
\* The variables keep their types (the whole session).
THEOREM TypeCorrect == Spec => []TypeOK
<1>1. Init => TypeOK
  <2> SUFFICES ASSUME Init PROVE TypeOK
    OBVIOUS
  <2>1. /\ mode \in {"run", "fifteen"} /\ session \in 0 .. MaxStarts
        /\ used \in 0 .. MaxEvents /\ size \in Nat
    BY SessionAssumption DEF Init
  <2>2. /\ ev \in [Tickers -> {"none", "queued", "open", "kept"}]
        /\ roster \in [Tickers -> {"none", "quotes", "winds", "out"}]
        /\ cycle \in [Tickers -> {"idle", "replace", "withdraw", "create"}]
        /\ \A t \in Tickers : cycle[t] = "idle"
    BY DEF Init
  <2>3. marker \in BOOLEAN /\ halted \in BOOLEAN /\ stop \in BOOLEAN /\ died \in BOOLEAN
    BY Zenon DEF Init
  <2>4. persisted \in BOOLEAN
    BY Zenon DEF Init
  <2> QED
    BY <2>1, <2>2, <2>3, <2>4 DEF Init, TypeOK
<1>2. TypeOK /\ [Next]_vars => TypeOK'
  BY TypeStep
<1> QED
  BY <1>1, <1>2, PTL DEF Spec

\* No order is approved under the HALTED marker or after the kill switch.
\* (RiskManager.halt, approve_order, check_halt_file)
THEOREM HaltHoldsAlways == Spec => HaltHolds
<1>1. Init => MarkerSeen
  BY DEF Init, MarkerSeen
<1>2. TypeOK /\ MarkerSeen /\ [Next]_vars => MarkerSeen'
  BY MarkerSeenStep
<1>3. TypeOK /\ MarkerSeen /\ [Next]_vars => [marker \/ halted => sent' \subseteq sent]_vars
  BY HaltHoldsStep
<1> QED
  BY <1>1, <1>2, <1>3, TypeCorrect, PTL DEF Spec, HaltHolds

\* A shutdown that reports no order left none of its session's on the book.
\* (the finally block, managed_tickers)
THEOREM ShutdownCleanAlways == Spec => ShutdownClean
<1> DEFINE I == /\ NoCrewYet /\ InTheDict /\ OutIsOver
               /\ NamedBefore /\ OpenOnly /\ Covered
<1>1. Init => I
  BY DEF Init, NoCrewYet, InTheDict, OutIsOver, NamedBefore, OpenOnly, Covered, Workers
<1>2. TypeOK /\ I /\ [Next]_vars => I'
  BY NoCrewYetStep, InTheDictStep, OutIsOverStep, NamedBeforeStep, OpenOnlyStep, CoveredStep
<1>3. TypeOK /\ I /\ [Next]_vars =>
        [report' = "clean" /\ report # "clean" => \A o \in resting : o[2] # session]_vars
  BY ShutdownCleanStep
<1> QED
  BY <1>1, <1>2, <1>3, TypeCorrect, PTL DEF Spec, ShutdownClean

\* A market the guard evicted is not quoted again, in this session or in a later one
\* that finds the event.  (bench_loop, the penalty box, EventLog)
THEOREM EvictedStaysOutAlways == Spec => []EvictedStaysOut
<1> DEFINE I == Landed /\ NoBench /\ NoCrewYet /\ Apart /\ Screened /\ EvictedStaysOut
<1>1. Init => I
  BY DEF Init, Landed, NoBench, NoCrewYet, Apart, Screened, EvictedStaysOut, Workers
<1>2. TypeOK /\ I /\ [Next]_vars => I'
  BY LandedStep, NoBenchStep, NoCrewYetStep, ApartStep, ScreenedStep, EvictedStep
<1> QED
  BY <1>1, <1>2, TypeCorrect, PTL DEF Spec

\* A worker is not put out beside inventory it could know of.
\* (_resolve_guard_trip, reap_closing_markets)
THEOREM NeverAbandonedAlways == Spec => []NeverAbandoned
<1>1. Init => NoCrewYet /\ NeverAbandoned
  BY DEF Init, NoCrewYet, NeverAbandoned, Workers
<1>2. TypeOK /\ NoCrewYet /\ NeverAbandoned /\ [Next]_vars => NoCrewYet' /\ NeverAbandoned'
  BY NoCrewYetStep, AbandonedStep
<1> QED
  BY <1>1, <1>2, TypeCorrect, PTL DEF Spec
=============================================================================
