------------------------- MODULE WorkerRegistryProofs -------------------------
(***************************************************************************)
(* Theorems about WorkerRegistry, for any set of workers and any number of *)
(* faults.                                                                 *)
(***************************************************************************)
EXTENDS WorkerRegistry, TLAPS

USE FaultAssumption

\* Every step of a worker keeps the types.
LEMMA StepType ==
    ASSUME TypeOK, NEW w \in Workers,
           MainStep(w) \/ MaintenanceStep(w) \/ EnvironmentStep(w)
    PROVE  TypeOK'
<1> USE DEF TypeOK, MainSteps, MaintenanceSteps, row, maintenance, history, Fault
<1>1. CASE Join(w)                 BY <1>1 DEF Join, Joined
<1>2. CASE _unregister_worker(w)   BY <1>2 DEF _unregister_worker
<1>3. CASE Exit(w)                 BY <1>3 DEF Exit, Gone
<1>4. CASE BeginRound(w)           BY <1>4 DEF BeginRound
<1>5. CASE _send_heartbeat(w)      BY <1>5 DEF _send_heartbeat, RefreshRow
<1>6. CASE detect_stale_workers(w) BY <1>6 DEF detect_stale_workers, IsStale
<1>7. CASE EndLoop(w)              BY <1>7 DEF EndLoop
<1>8. CASE _register_worker(w)     BY <1>8 DEF _register_worker, UpsertWorker
<1>9. CASE Stop(w)                 BY <1>9 DEF Stop
<1>10. CASE UnregisterRaises(w)    BY <1>10 DEF UnregisterRaises
<1>11. CASE RoundRaises(w)         BY <1>11 DEF RoundRaises
<1>12. CASE HeartbeatAges(w)       BY <1>12 DEF HeartbeatAges
<1>13. CASE ScanBecomesDue(w)      BY <1>13 DEF ScanBecomesDue
<1>14. CASE Crash(w)               BY <1>14 DEF Crash, Gone
<1>15. QED
  BY <1>1, <1>2, <1>3, <1>4, <1>5, <1>6, <1>7, <1>8, <1>9, <1>10, <1>11, <1>12, <1>13, <1>14
  DEF MainStep, MaintenanceStep, EnvironmentStep

\* Whatever fails, the variables keep their types; a process that is down has
\* no maintenance thread, and one that runs has a row.
THEOREM TypeCorrect == Spec => []TypeOK
<1>1. Init => TypeOK
  BY DEF Init, TypeOK, MainSteps, MaintenanceSteps
<1>2. TypeOK /\ [Next]_vars => TypeOK'
  <2> SUFFICES ASSUME TypeOK, [Next]_vars PROVE TypeOK'
    OBVIOUS
  <2>1. CASE Next  BY <2>1, StepType DEF Next
  <2>2. CASE UNCHANGED vars
    BY <2>2 DEF vars, row, maintenance, history, TypeOK
  <2>3. QED  BY <2>1, <2>2
<1>3. QED  BY <1>1, <1>2, PTL DEF Spec

-----------------------------------------------------------------------------
(* A clean stop is final                                                   *)

\* A row has a stopping time that its status does not tell only after the
\* process has unregistered, and a clean stop leaves no thread behind.
StopInv ==
    \A w \in Workers :
        /\ main[w] \in {"serving", "joining", "unregister"} =>
              status[w] # "STOPPED" /\ ~stopped_at[w] /\ ~clean_stop[w]
        /\ clean_stop[w] =>
              mpc[w] = "off" /\ status[w] = "STOPPED" /\ stopped_at[w]
        /\ status[w] = "STOPPED" => stopped_at[w]

\* Only the worker that steps writes its variables, except that a scan may mark
\* an ACTIVE row STALE.
LEMMA StopStep ==
    ASSUME TypeOK, StopInv, NEW w \in Workers,
           MainStep(w) \/ MaintenanceStep(w) \/ EnvironmentStep(w)
    PROVE  StopInv'
<1> USE DEF TypeOK, StopInv, row, maintenance, history
<1>1. CASE Join(w)                 BY <1>1 DEF Join, Joined, Fault
<1>2. CASE _unregister_worker(w)   BY <1>2 DEF _unregister_worker
<1>3. CASE Exit(w)                 BY <1>3 DEF Exit, Gone
<1>4. CASE BeginRound(w)           BY <1>4 DEF BeginRound
<1>5. CASE _send_heartbeat(w)      BY <1>5 DEF _send_heartbeat, RefreshRow, MainSteps
<1>6. CASE detect_stale_workers(w) BY <1>6 DEF detect_stale_workers, IsStale
<1>7. CASE EndLoop(w)              BY <1>7 DEF EndLoop
<1>8. CASE _register_worker(w)     BY <1>8 DEF _register_worker, UpsertWorker
<1>9. CASE Stop(w)                 BY <1>9 DEF Stop
<1>10. CASE UnregisterRaises(w)    BY <1>10 DEF UnregisterRaises
<1>11. CASE RoundRaises(w)         BY <1>11 DEF RoundRaises
<1>12. CASE HeartbeatAges(w)       BY <1>12 DEF HeartbeatAges
<1>13. CASE ScanBecomesDue(w)      BY <1>13 DEF ScanBecomesDue
<1>14. CASE Crash(w)               BY <1>14 DEF Crash, Gone
<1>15. QED
  BY <1>1, <1>2, <1>3, <1>4, <1>5, <1>6, <1>7, <1>8, <1>9, <1>10, <1>11, <1>12, <1>13, <1>14
  DEF MainStep, MaintenanceStep, EnvironmentStep

\* The strengthening holds of every reachable state.
LEMMA StopInvariant == Spec => []StopInv
<1>1. Init => StopInv
  BY DEF Init, StopInv
<1>2. TypeOK /\ StopInv /\ [Next]_vars => StopInv'
  <2> SUFFICES ASSUME TypeOK, StopInv, [Next]_vars PROVE StopInv'
    OBVIOUS
  <2>1. CASE Next  BY <2>1, StopStep DEF Next
  <2>2. CASE UNCHANGED vars
    BY <2>2 DEF vars, row, maintenance, history, StopInv
  <2>3. QED  BY <2>1, <2>2
<1>3. QED  BY <1>1, <1>2, TypeCorrect, PTL DEF Spec

\* With any number of workers, crashes and failing round trips, a worker that
\* unregistered after its maintenance thread ended is STOPPED until its id is
\* registered again.
THEOREM StopsAreFinal == Spec => []CleanStopIsFinal
<1>1. StopInv => CleanStopIsFinal
  BY DEF StopInv, CleanStopIsFinal
<1>2. QED  BY <1>1, StopInvariant, PTL

\* Only a heartbeat that came after an unregistration separates a stopping time
\* from the status STOPPED, and no serving process has such a row.
THEOREM StoppingTimesAgree == Spec => []StoppedAtAgrees
<1>1. TypeOK /\ StopInv => StoppedAtAgrees
  BY DEF TypeOK, MainSteps, StopInv, StoppedAtAgrees
<1>2. QED  BY <1>1, StopInvariant, TypeCorrect, PTL

=============================================================================
