---------------------------- MODULE WorkerRegistry ----------------------------
(***************************************************************************)
(* The workers table and the processes that write it: run registers a      *)
(* worker and, when it is told to stop, unregisters it; the maintenance    *)
(* thread sends heartbeats and, every few rounds, marks the workers STALE  *)
(* whose heartbeat is too old (detect_stale_workers of                     *)
(* services/recovery.py).                                                  *)
(*                                                                         *)
(* A worker is its id: the process that is started with an id, and its     *)
(* row.  One process at a time has an id.  A time stamp is "fresh" or      *)
(* older than the threshold; the clock is the step HeartbeatAges.  Faults  *)
(* are counted against MaxFaults, and FaultKinds says which ones the       *)
(* environment has.                                                        *)
(***************************************************************************)
EXTENDS Naturals

CONSTANTS
    Workers,      \* the worker ids
    FaultKinds,   \* the faults the environment has
    MaxFaults     \* how many faults a behaviour may have

\* "crash": a process dies.  "database": a round trip raises.  "slow": a round
\* trip of the maintenance thread takes longer than join waits for it.
ASSUME FaultAssumption ==
    FaultKinds \subseteq {"crash", "database", "slow"} /\ MaxFaults \in Nat

VARIABLES
    status,       \* a worker's row: "none" before its first registration
    fresh,        \* is its last_heartbeat_at younger than the threshold?
    stopped_at,   \* is its stopped_at set?
    main,         \* where the main thread is in run
    mpc,          \* where the maintenance thread is in its loop
    stop_event,   \* has the main thread called stop()?
    stamp,        \* is the time _send_heartbeat has read still fresh?
    due,          \* has recovery_interval_seconds passed since its last scan?
    clean_stop,   \* history: a process has unregistered, its maintenance thread
                  \* being over, and none has registered since
    faults

row         == <<status, fresh, stopped_at>>
maintenance == <<mpc, stamp, due>>
history     == <<clean_stop, faults>>
vars == <<row, main, maintenance, stop_event, history>>

\* The interpreter, leaving run, waits in "exiting" for handlers that outlived
\* their timeouts; until it is "down" the maintenance thread lives on.
MainSteps        == {"down", "serving", "joining", "unregister", "exiting"}
MaintenanceSteps == {"off", "wait", "heartbeat", "scan"}

TypeOK ==
    /\ status \in [Workers -> {"none", "ACTIVE", "STALE", "STOPPED"}]
    /\ fresh \in [Workers -> BOOLEAN]
    /\ stopped_at \in [Workers -> BOOLEAN]
    /\ main \in [Workers -> MainSteps]
    /\ mpc \in [Workers -> MaintenanceSteps]
    /\ stop_event \in [Workers -> BOOLEAN]
    /\ stamp \in [Workers -> BOOLEAN]
    /\ due \in [Workers -> BOOLEAN]
    /\ clean_stop \in [Workers -> BOOLEAN]
    /\ faults \in 0 .. MaxFaults
    /\ \A w \in Workers :
          /\ main[w] = "down" => mpc[w] = "off"
          /\ status[w] = "none" => main[w] = "down"
          /\ stop_event[w] <=> main[w] \in {"joining", "unregister", "exiting"}

Init ==
    /\ status = [w \in Workers |-> "none"]
    /\ fresh = [w \in Workers |-> FALSE]
    /\ stopped_at = [w \in Workers |-> FALSE]
    /\ main = [w \in Workers |-> "down"]
    /\ mpc = [w \in Workers |-> "off"]
    /\ stop_event = [w \in Workers |-> FALSE]
    /\ stamp = [w \in Workers |-> FALSE]
    /\ due = [w \in Workers |-> FALSE]
    /\ clean_stop = [w \in Workers |-> FALSE]
    /\ faults = 0

Fault(kind) == kind \in FaultKinds /\ faults < MaxFaults /\ faults' = faults + 1

-----------------------------------------------------------------------------
(* The main thread: run                                                    *)

\* (mistake: a row that is there is not cleared)
UpsertKeepingStop(w) ==
    /\ status' = [status EXCEPT ![w] = "ACTIVE"]
    /\ fresh' = [fresh EXCEPT ![w] = TRUE]
    /\ UNCHANGED stopped_at

\* The INSERT ... ON CONFLICT (id) DO UPDATE.
UpsertWorker(w) ==
    /\ status' = [status EXCEPT ![w] = "ACTIVE"]
    /\ fresh' = [fresh EXCEPT ![w] = TRUE]
    /\ stopped_at' = [stopped_at EXCEPT ![w] = FALSE]

\* run up to the loop.  A process that finds Redis or the database missing, or
\* whose registration raises, exits and leaves no trace.
_register_worker(w) ==
    /\ main[w] = "down"
    /\ UpsertWorker(w)
    /\ main' = [main EXCEPT ![w] = "serving"]
    /\ mpc' = [mpc EXCEPT ![w] = "wait"]
    /\ due' = [due EXCEPT ![w] = TRUE]
    /\ clean_stop' = [clean_stop EXCEPT ![w] = FALSE]
    /\ UNCHANGED <<stop_event, stamp, faults>>

\* A signal has set _running to False and the loop has seen it.
Stop(w) ==
    /\ main[w] = "serving"
    /\ main' = [main EXCEPT ![w] = "joining"]
    /\ stop_event' = [stop_event EXCEPT ![w] = TRUE]
    /\ UNCHANGED <<row, maintenance, history>>

\* join(timeout=3.0) returns because the thread has ended or gives it up.
Joined(w) ==
    /\ main[w] = "joining"
    /\ \/ mpc[w] = "off" /\ UNCHANGED faults
       \/ mpc[w] # "off" /\ Fault("slow")

Join(w) ==
    /\ Joined(w)
    /\ main' = [main EXCEPT ![w] = "unregister"]
    /\ UNCHANGED <<row, maintenance, stop_event, clean_stop>>

_unregister_worker(w) ==
    /\ main[w] = "unregister"
    /\ status' = [status EXCEPT ![w] = "STOPPED"]
    /\ stopped_at' = [stopped_at EXCEPT ![w] = TRUE]
    /\ main' = [main EXCEPT ![w] = "exiting"]
    /\ clean_stop' = [clean_stop EXCEPT ![w] = mpc[w] = "off"]
    /\ UNCHANGED <<fresh, maintenance, stop_event, faults>>

\* The round trip of _unregister_worker raises, and run with it.
UnregisterRaises(w) ==
    /\ main[w] = "unregister"
    /\ Fault("database")
    /\ main' = [main EXCEPT ![w] = "exiting"]
    /\ UNCHANGED <<row, maintenance, stop_event, clean_stop>>

\* (mistake: the next process finds the event set)
GoneKeepingEvent(w) ==
    /\ main' = [main EXCEPT ![w] = "down"]
    /\ mpc' = [mpc EXCEPT ![w] = "off"]
    /\ UNCHANGED <<row, stamp, due, stop_event, clean_stop>>

\* The process is gone, and its daemon thread with it.
Gone(w) ==
    /\ main' = [main EXCEPT ![w] = "down"]
    /\ mpc' = [mpc EXCEPT ![w] = "off"]
    /\ stop_event' = [stop_event EXCEPT ![w] = FALSE]
    /\ UNCHANGED <<row, stamp, due, clean_stop>>

Exit(w) ==
    /\ main[w] = "exiting"
    /\ Gone(w)
    /\ UNCHANGED faults

-----------------------------------------------------------------------------
(* The maintenance thread: WorkerMaintenanceThread.run                     *)

\* _send_heartbeat reads the time; the statement runs later.
BeginRound(w) ==
    /\ mpc[w] = "wait" /\ ~stop_event[w]
    /\ mpc' = [mpc EXCEPT ![w] = "heartbeat"]
    /\ stamp' = [stamp EXCEPT ![w] = TRUE]
    /\ UNCHANGED <<row, main, due, stop_event, history>>

\* (mistake: a worker that was marked STALE stays so)
RefreshActive(w) ==
    /\ fresh' = [fresh EXCEPT ![w] = stamp[w]]
    /\ UNCHANGED status

RefreshRow(w) ==
    /\ fresh' = [fresh EXCEPT ![w] = stamp[w]]
    /\ status' = [status EXCEPT ![w] = "ACTIVE"]

\* The UPDATE, and the decision whether this round scans.
_send_heartbeat(w) ==
    /\ mpc[w] = "heartbeat"
    /\ RefreshRow(w)
    /\ mpc' = [mpc EXCEPT ![w] = IF due[w] THEN "scan" ELSE "wait"]
    /\ UNCHANGED <<stopped_at, main, stop_event, stamp, due, history>>

\* (mistake: a row with a stopping time is taken for STOPPED)
IsStaleNeverStopped(v) == status[v] = "ACTIVE" /\ ~fresh[v] /\ ~stopped_at[v]

\* (mistake: the status is not compared)
IsStaleWhateverStatus(v) == ~fresh[v]

IsStale(v) == status[v] = "ACTIVE" /\ ~fresh[v]

\* One UPDATE for all rows, after the scan for stale tasks.
detect_stale_workers(w) ==
    /\ mpc[w] = "scan"
    /\ status' = [v \in Workers |-> IF IsStale(v) THEN "STALE" ELSE status[v]]
    /\ mpc' = [mpc EXCEPT ![w] = "wait"]
    /\ due' = [due EXCEPT ![w] = FALSE]
    /\ UNCHANGED <<fresh, stopped_at, main, stop_event, stamp, history>>

\* The heartbeat, or the scan for stale tasks or workers, raises: the loop goes
\* on, and a scan that failed is still due.
RoundRaises(w) ==
    /\ mpc[w] \in {"heartbeat", "scan"}
    /\ Fault("database")
    /\ mpc' = [mpc EXCEPT ![w] = "wait"]
    /\ UNCHANGED <<row, main, stop_event, stamp, due, clean_stop>>

EndLoop(w) ==
    /\ mpc[w] = "wait" /\ stop_event[w]
    /\ mpc' = [mpc EXCEPT ![w] = "off"]
    /\ UNCHANGED <<row, main, stop_event, stamp, due, history>>

-----------------------------------------------------------------------------
(* The environment                                                         *)

\* The threshold passes; a statement that is still under way ages with the row.
HeartbeatAges(w) ==
    /\ fresh[w] \/ stamp[w]
    /\ fresh' = [fresh EXCEPT ![w] = FALSE]
    /\ stamp' = [stamp EXCEPT ![w] = FALSE]
    /\ UNCHANGED <<status, stopped_at, main, mpc, due, stop_event, history>>

ScanBecomesDue(w) ==
    /\ mpc[w] # "off" /\ ~due[w]
    /\ due' = [due EXCEPT ![w] = TRUE]
    /\ UNCHANGED <<row, main, mpc, stamp, stop_event, history>>

Crash(w) ==
    /\ main[w] # "down"
    /\ Fault("crash")
    /\ Gone(w)

-----------------------------------------------------------------------------
MainStep(w) ==
    \/ Join(w)
    \/ _unregister_worker(w)
    \/ Exit(w)

MaintenanceStep(w) ==
    \/ BeginRound(w)
    \/ _send_heartbeat(w)
    \/ detect_stale_workers(w)
    \/ EndLoop(w)

EnvironmentStep(w) ==
    \/ _register_worker(w)
    \/ Stop(w)
    \/ UnregisterRaises(w)
    \/ RoundRaises(w)
    \/ HeartbeatAges(w)
    \/ ScanBecomesDue(w)
    \/ Crash(w)

Next == \E w \in Workers : MainStep(w) \/ MaintenanceStep(w) \/ EnvironmentStep(w)

Spec == Init /\ [][Next]_vars

\* The maintenance thread takes its steps and its scans become due.  The time
\* stamps of a worker whose process is gone age, for nobody renews them.
Fairness ==
    \A w \in Workers :
        /\ WF_vars(MaintenanceStep(w))
        /\ WF_vars(ScanBecomesDue(w))
        /\ WF_vars(main[w] = "down" /\ HeartbeatAges(w))

FairSpec == Spec /\ Fairness

-----------------------------------------------------------------------------
(* Properties                                                              *)

\* A worker that has unregistered after its maintenance thread ended is listed
\* as STOPPED until a process registers under its id: no scan and no thread of
\* an earlier process takes it back.
CleanStopIsFinal ==
    \A w \in Workers : clean_stop[w] => status[w] = "STOPPED" /\ stopped_at[w]

\* A worker that is STOPPED has a stopping time.  A row with a stopping time
\* that is not STOPPED is the trace of a heartbeat that came after the
\* unregistration: no process serves under such a row, so a worker that came
\* back under its old id has no stopping time, whatever became of its row.
StoppedAtAgrees ==
    \A w \in Workers :
        /\ status[w] = "STOPPED" => stopped_at[w]
        /\ stopped_at[w] /\ status[w] # "STOPPED" =>
              ~clean_stop[w] /\ main[w] \in {"exiting", "down"}

\* A worker that keeps serving is listed as ACTIVE again and again: a scan that
\* marks it STALE, because its heartbeats were held up, is corrected.
LiveIsListed ==
    \A w \in Workers :
        <>[](main[w] = "serving") => []<>(status[w] = "ACTIVE")

\* If another worker keeps serving, one whose process is gone does not stay
\* ACTIVE, however its process ended and whichever threads failed on the way.
DeadIsNoticed ==
    \A w, v \in Workers :
        (w # v /\ <>[](main[v] = "serving")) =>
            (main[w] = "down" /\ status[w] = "ACTIVE"
                ~> status[w] # "ACTIVE" \/ main[w] # "down")

=============================================================================
