--------------------------- MODULE V4GmoActualPath --------------------------
(***************************************************************************)
(* The actual path: operator sessions                                      *)
(* (backend/app/services/h11_v4_gmo_g013_canary.py) that reserve a cycle,  *)
(* bind the runtime under the process lock and walk the coordinated path   *)
(* (h11_v4_gmo_coordinated_actual_path.py) from the entry to exact         *)
(* protection, then the driver and the exit dispatcher; beside them the    *)
(* resident supervisor (h11_auto/v4_gmo_monitor_supervisor.py) and the     *)
(* console's external-flat reconciliation.  Sessions and supervisor share  *)
(* the coordinator database; every transaction, file write, GET and POST   *)
(* is a step, and a session may crash between any two.                     *)
(***************************************************************************)
EXTENDS V4GmoActualBroker, PhaseBClosedResults

CONSTANTS
    Proc,           \* operator sessions
    NoProc,         \* the process lock is free
    EvidenceWindow, \* ticks for which a reconciliation may be used (2..15 s)
    MaxTime         \* bound on the clock

ASSUME ActualPathAssumption ==
    /\ NoProc \notin Proc
    /\ EvidenceWindow \in Nat
    /\ MaxTime \in Nat

VARIABLES
    pc, sig,        \* per session: where it is, and its signal
    act, view,      \* the lock holder's stage and its last reconciliation
    lock,           \* process.lock
    risk, applied,  \* risk.json and its closed_result_cycle_refs
    permits,        \* one-use activation permit markers
    exits,          \* exit-sequence-dispatch markers: required, claimed, ...
    beat,           \* supervisor-heartbeat.json
    flatSeen        \* when the account snapshot evidence last showed flat

sessionVars == <<pc, sig, act, view, lock>>
fileVars == <<risk, applied, permits, exits>>
monitorVars == <<beat, flatSeen>>
pathVars == <<storeVars, brokerVars, sessionVars, fileVars, monitorVars, now>>

ExitStages == {"EXIT", CancelProtection, TimeExit}
Reply == {"ACCEPTED_SANITIZED", "REJECTED_SANITIZED", "UNKNOWN_SANITIZED"}
Label ==
    {"idle", "prepared", "reserved", "permitted", "executions", "positions",
     "orders", "preflight", "attempt", "charge", "post", "recover", "plan",
     "confirm", "drive", "claim", "exit", "metrics", "result", "complete",
     "fail", "release"} \cup Reply
Marker == {"required", "claimed", "completed", "failed"}

PathInit ==
    /\ StoreInit
    /\ BrokerInit
    /\ now = 0
    /\ pc = [p \in Proc |-> "idle"]
    /\ sig = [p \in Proc |-> NoSignal]
    /\ act = "NONE"
    /\ view = NoView
    /\ lock = NoProc
    /\ risk = InitialRisk
    /\ applied = {}
    /\ permits = {}
    /\ exits = [m \in Marker |-> {}]
    /\ beat = [at |-> NoTime, cycle |-> FALSE]
    /\ flatSeen = NoTime

Goto(p, label) == pc' = [pc EXCEPT ![p] = label]
Mark(m, d) == exits' = [exits EXCEPT ![m] = @ \cup {d}]

\* The day of the entry attempt names the exit markers.
EntryDay(s) == Day(cycles[s].at)

ExpectedClosed(s) == IF cycles[s].settle > 0 THEN cycles[s].settle ELSE cycles[s].plan
Requested(s) == IF act \in ExitStages THEN ExpectedClosed(s) ELSE RequestedSize
Fresh == view.known /\ now - view.at <= EvidenceWindow

\* binding.close
Unlock == lock' = NoProc /\ act' = "NONE" /\ view' = NoView

\* An exception.  In the exit dispatch it is turned into the failure marker;
\* elsewhere the session lets go of the lock and tries to release its row.
Raise(p) ==
    IF act \in ExitStages
    THEN Goto(p, "fail") /\ UNCHANGED <<sig, act, view, lock>>
    ELSE Goto(p, "release") /\ Unlock /\ UNCHANGED sig

\* A return that is no exception leaves the row alone.
Leave(p) ==
    /\ Goto(p, "idle")
    /\ sig' = [sig EXCEPT ![p] = NoSignal]
    /\ Unlock

RaiseUnhalted(p) == Raise(p) /\ UNCHANGED storeVars
RaiseHalted(p) ==
    /\ Raise(p)
    /\ EngageHalt
    /\ UNCHANGED <<cycles, attempts, pending, resolution, flatMarker>>

\* A refusal of something outside the model: the entry window, quotes,
\* confirmations, market status, the dead-man file.
Refused == "gate" \in Faults

(***************************************************************************)
(* Before the lock: prepare_g013_canary_session and                        *)
(* _run_g013_actual_canary_from_refreshed_session.                         *)
(***************************************************************************)

\* _require_fresh_monitor_heartbeat
BeatShows(present) ==
    beat.at # NoTime /\ now - beat.at <= FreshWindow /\ beat.cycle = present

Prepare(p, s) ==
    /\ pc[p] = "idle"
    /\ OwnerOpen
    /\ IF ~halt' /\ BeatShows(FALSE)
       THEN Goto(p, "prepared") /\ sig' = [sig EXCEPT ![p] = s]
       ELSE halt' # halt /\ UNCHANGED <<pc, sig>>
    /\ UNCHANGED <<cycles, attempts, pending, resolution, flatMarker, brokerVars,
                   act, view, lock, fileVars, monitorVars, now>>

ReserveCycle(p) ==
    /\ pc[p] = "prepared"
    /\ \/ /\ BeatShows(FALSE)
          /\ ReserveAllowed(sig[p])
          /\ Reserve(sig[p])
          /\ Goto(p, "reserved")
          /\ UNCHANGED sig
       \/ /\ ~(BeatShows(FALSE) /\ ReserveAllowed(sig[p])) \/ Refused
          /\ Goto(p, "idle")
          /\ sig' = [sig EXCEPT ![p] = NoSignal]
          /\ UNCHANGED storeVars
    /\ UNCHANGED <<brokerVars, act, view, lock, fileVars, monitorVars, now>>

\* The heartbeat must show the reserved cycle; the permit marker is created
\* exclusively.
IssuePermit(p) ==
    /\ pc[p] = "reserved"
    /\ \/ /\ BeatShows(TRUE)
          /\ sig[p] \notin permits
          /\ permits' = permits \cup {sig[p]}
          /\ Goto(p, "permitted")
       \/ /\ ~BeatShows(TRUE) \/ sig[p] \in permits \/ Refused
          /\ Goto(p, "release")
          /\ UNCHANGED permits
    /\ UNCHANGED <<storeVars, brokerVars, sig, act, view, lock, risk, applied, exits,
                   monitorVars, now>>

\* load_single_signal_fingerprint_internal: the store must hold this one row and
\* no other.
OnlyRow(s) == Rows = {s}

\* bind_v4_gmo_actual_runtime
Bind(p) ==
    /\ pc[p] = "permitted"
    /\ OwnerOpen
    /\ IF OnlyRow(sig[p]) /\ lock = NoProc
       THEN Goto(p, "executions") /\ lock' = p /\ act' = "PREFLIGHT" /\ view' = NoView
       ELSE Goto(p, "release") /\ UNCHANGED <<lock, act, view>>
    /\ UNCHANGED <<cycles, attempts, pending, resolution, flatMarker, brokerVars,
                   sig, fileVars, monitorVars, now>>

ReleaseReservation(p) ==
    /\ pc[p] = "release"
    /\ Release(sig[p])
    /\ Goto(p, "idle")
    /\ sig' = [sig EXCEPT ![p] = NoSignal]
    /\ UNCHANGED <<brokerVars, act, view, lock, fileVars, monitorVars, now>>

(***************************************************************************)
(* reconcile_once_fixed: three GETs.  A failed GET or rows that do not fit *)
(* latch the halt.                                                         *)
(***************************************************************************)
ReadExecutions(p) ==
    /\ pc[p] = "executions"
    /\ Prompt(sig[p])
    /\ view' = WithExecutions(sig[p], Requested(sig[p]))
    /\ Goto(p, "positions")
    /\ UNCHANGED <<storeVars, brokerVars, sig, act, lock, fileVars, monitorVars, now>>

ReadPositions(p) ==
    /\ pc[p] = "positions"
    /\ view' \in WithPositions(view, sig[p], Requested(sig[p]))
    /\ Goto(p, "orders")
    /\ UNCHANGED <<storeVars, brokerVars, sig, act, lock, fileVars, monitorVars, now>>

Observed ==
    CASE act = "PREFLIGHT" -> "preflight" [] act = "EXIT" -> "exit" [] OTHER -> "recover"

ReadOrders(p) ==
    /\ pc[p] = "orders"
    /\ \/ /\ view.known
          /\ view' = WithOrders(view, sig[p])
          /\ Goto(p, Observed)
          /\ UNCHANGED <<storeVars, sig, act, lock>>
       \/ /\ ~view.known \/ "read" \in Faults
          /\ RaiseHalted(p)
    /\ UNCHANGED <<brokerVars, fileVars, monitorVars, now>>

(***************************************************************************)
(* The entry: record_canary_entry_preflight and perform_market_once.       *)
(***************************************************************************)
Preflight(p) ==
    LET s == sig[p] IN
    /\ pc[p] = "preflight"
    /\ IF Fresh /\ NothingLeft(view) /\ s \in Rows /\ ~cycles[s].preflight
          /\ cycles[s].at = NoTime
       THEN /\ cycles' = [cycles EXCEPT ![s].preflight = TRUE]
            /\ Goto(p, "attempt")
            /\ act' = Market
            /\ UNCHANGED <<attempts, halt, pending, resolution, flatMarker, sig, view, lock>>
       ELSE RaiseUnhalted(p)
    /\ UNCHANGED <<brokerVars, fileVars, monitorVars, now>>

\* The gate and the database must agree on today's entries before the
\* attempt, and again after the entry is charged.
EntryAllowed(s) ==
    /\ ~halt
    /\ GateAllows(RollCalendar(risk, Day(now)))
    /\ LedgerCount(Day(now)) = RollCalendar(risk, Day(now)).entries
    /\ AttemptFree(s, Market)
    /\ s \in Rows
    /\ Fresh

EntryMismatch ==
    /\ ~halt
    /\ GateAllows(RollCalendar(risk, Day(now)))
    /\ LedgerCount(Day(now)) # RollCalendar(risk, Day(now)).entries

AttemptMarket(p) ==
    /\ pc[p] = "attempt"
    /\ act = Market
    /\ \/ /\ EntryAllowed(sig[p])
          /\ RecordAttempt(sig[p], Market, RequestedSize)
          /\ Goto(p, "charge")
          /\ UNCHANGED <<sig, act, view, lock>>
       \/ EntryMismatch /\ RaiseHalted(p)
       \/ ~EntryAllowed(sig[p]) /\ ~EntryMismatch /\ RaiseUnhalted(p)
       \/ Refused /\ RaiseHalted(p)
    /\ UNCHANGED <<brokerVars, fileVars, monitorVars, now>>

\* The entry is charged to the day of its attempt; the database counts it on
\* the day of its reservation.
ChargeDayReserved(s) == cycles[s].day
ChargeDay(s) == Day(cycles[s].at)

ChargeEntry(p) ==
    LET s == sig[p] IN
    /\ pc[p] = "charge"
    /\ risk' = RecordEntry(risk, ChargeDay(s))
    /\ IF LedgerCount(ChargeDay(s)) = risk'.entries
       THEN Goto(p, "post") /\ UNCHANGED <<sig, act, view, lock>>
       ELSE Raise(p)
    /\ UNCHANGED <<storeVars, brokerVars, applied, permits, exits, monitorVars, now>>

(***************************************************************************)
(* The transport: perform_once behind the committed-attempt verifier, and  *)
(* the reply.  A rejected order has no effect; an unknown one may have     *)
(* been sent, and then the transport's callback latches the halt at once.  *)
(***************************************************************************)
OrderSize(s) ==
    CASE act = Market -> RequestedSize
      [] act = CancelRemainder -> PendingSize(view, RequestedSize)
      [] act = Protect -> cycles[s].plan
      [] OTHER -> ExpectedClosed(s)

MayPost(s) ==
    /\ Committed(s, act)
    /\ act = Protect => WithinProtectionWindow(s)

Post(p) ==
    LET s == sig[p] IN
    /\ pc[p] = "post"
    /\ \/ /\ MayPost(s)
          /\ \/ /\ Goto(p, "ACCEPTED_SANITIZED")
                /\ Submit(s, act, OrderSize(s))
                /\ Count(s, act)
                /\ UNCHANGED halt
             \/ /\ "reply" \in Faults
                /\ Goto(p, "REJECTED_SANITIZED")
                /\ Count(s, act)
                /\ UNCHANGED <<wire, halt>>
             \/ /\ "reply" \in Faults
                /\ Goto(p, "UNKNOWN_SANITIZED")
                /\ Count(s, act)
                /\ EngageHalt
                /\ Submit(s, act, OrderSize(s)) \/ UNCHANGED wire
             \/ /\ "reply" \in Faults
                /\ Goto(p, "UNKNOWN_SANITIZED")
                /\ UNCHANGED <<wire, sent, halt>>
          /\ UNCHANGED <<cycles, attempts, pending, resolution, flatMarker, sig, act,
                         view, lock>>
       \/ ~MayPost(s) /\ RaiseUnhalted(p) /\ UNCHANGED <<wire, sent>>
       \/ Refused /\ act = Market /\ RaiseHalted(p) /\ UNCHANGED <<wire, sent>>
       \/ Refused /\ act \in ExitStages /\ RaiseUnhalted(p) /\ UNCHANGED <<wire, sent>>
    /\ UNCHANGED <<book, fileVars, monitorVars, now>>

\* Nothing is sent again, whatever the reply was.
NotAcceptedRetried(p) == Goto(p, "post") /\ UNCHANGED <<sig, act, view, lock>>
NotAccepted(p) == IF act \in ExitStages THEN Raise(p) ELSE Leave(p)

Outcome(p) ==
    /\ pc[p] \in Reply
    /\ RecordOutcome(sig[p], act, pc[p])
    /\ \/ /\ pc[p] = "ACCEPTED_SANITIZED"
          /\ Goto(p, "executions")
          /\ view' = NoView
          /\ UNCHANGED <<sig, act, lock>>
       \/ pc[p] # "ACCEPTED_SANITIZED" /\ NotAccepted(p)
    /\ UNCHANGED <<cycles, attempts, resolution, flatMarker, brokerVars, fileVars,
                   monitorVars, now>>

(***************************************************************************)
(* recover_pending_transport_and_carry_once, and what the session does     *)
(* with the classification.                                                *)
(***************************************************************************)
NextStage(class) ==
    CASE act = Market /\ class = "MARKET_PARTIAL_PENDING" -> <<"attempt", CancelRemainder>>
      [] act \in {Market, CancelRemainder} /\ class = "FILLED_UNPROTECTED" -> <<"plan", act>>
      [] act = Protect /\ class = "FILLED_PROTECTED" -> <<"confirm", act>>
      [] act = CancelProtection /\ class = "FILLED_UNPROTECTED" -> <<"attempt", TimeExit>>
      [] act = TimeExit /\ class = "FLAT_OR_REJECTED" -> <<"metrics", act>>
      [] act \in ExitStages -> <<"fail", act>>
      [] OTHER -> <<"idle", "NONE">>

Recover(p) ==
    LET s == sig[p]
        class == Classify(view, act, Requested(s))
    IN
    /\ pc[p] = "recover"
    /\ \/ /\ Fresh
          /\ ResolveAllowed(s, class)
          /\ Resolve(s, class)
          /\ IF NextStage(class)[1] = "idle" THEN Leave(p)
             ELSE /\ Goto(p, NextStage(class)[1])
                  /\ act' = NextStage(class)[2]
                  /\ UNCHANGED <<sig, view, lock>>
       \/ Fresh /\ ~ResolveAllowed(s, class) /\ RaiseHalted(p)
       \/ ~Fresh /\ RaiseUnhalted(p)
    /\ UNCHANGED <<brokerVars, fileVars, monitorVars, now>>

\* prepare_exact_protection_plan: once, and within the window.
PersistPlan(p) ==
    LET s == sig[p] IN
    /\ pc[p] = "plan"
    /\ IF Fresh /\ WithinProtectionWindow(s) /\ cycles[s].plan = 0
       THEN /\ cycles' = [cycles EXCEPT ![s].plan = view.filled]
            /\ Goto(p, "attempt")
            /\ act' = Protect
            /\ UNCHANGED <<attempts, halt, pending, resolution, flatMarker, sig, view, lock>>
       ELSE RaiseUnhalted(p)
    /\ UNCHANGED <<brokerVars, fileVars, monitorVars, now>>

\* perform_exact_protection_once and perform_risk_reducing_once, up to the
\* transport: what the last view must show for the action.
ViewPermitsAnySize(s) ==
    CASE act = CancelRemainder -> PendingSize(view, RequestedSize) > 0
      [] act = Protect -> cycles[s].plan > 0 /\ WithinProtectionWindow(s)
      [] act = CancelProtection -> EntryFilled(view) /\ ExactlyProtected(view) /\ ExitDue(s)
      [] act = TimeExit -> EntryFilled(view) /\ Unprotected(view) /\ ExitDue(s)
ViewPermits(s) ==
    CASE act = CancelRemainder -> PendingSize(view, RequestedSize) > 0
      [] act = Protect -> cycles[s].plan > 0 /\ WithinProtectionWindow(s)
      [] act = CancelProtection ->
            EntryFilled(view) /\ ExactlyProtected(view) /\ view.oco = OrderSize(s) /\ ExitDue(s)
      [] act = TimeExit ->
            EntryFilled(view) /\ Unprotected(view) /\ view.filled = OrderSize(s) /\ ExitDue(s)

Attempt(p) ==
    LET s == sig[p]
        allowed == Fresh /\ HaltAllows(s, act) /\ ViewPermits(s) /\ AttemptFree(s, act)
    IN
    /\ pc[p] = "attempt"
    /\ act # Market
    /\ \/ /\ allowed
          /\ RecordAttempt(s, act, OrderSize(s))
          /\ Goto(p, "post")
          /\ UNCHANGED <<sig, act, view, lock>>
       \/ ~allowed /\ RaiseUnhalted(p)
       \/ Refused /\ act \in ExitStages /\ RaiseHalted(p)
    /\ UNCHANGED <<brokerVars, fileVars, monitorVars, now>>

\* confirm_exact_protection_once
Confirm(p) ==
    LET s == sig[p] IN
    /\ pc[p] = "confirm"
    /\ \/ /\ Fresh
          /\ ExactlyProtected(view)
          /\ WithinProtectionWindow(s)
          /\ view.oco = cycles[s].plan
          /\ cycles' = [cycles EXCEPT ![s].confirmed = TRUE]
          /\ Goto(p, "drive")
          /\ view' = NoView
          /\ UNCHANGED <<attempts, halt, pending, resolution, flatMarker, sig, act, lock>>
       \/ /\ Fresh
          /\ ~(ExactlyProtected(view) /\ WithinProtectionWindow(s)
                 /\ view.oco = cycles[s].plan)
          /\ RaiseHalted(p)
       \/ ~Fresh /\ RaiseUnhalted(p)
    /\ UNCHANGED <<brokerVars, fileVars, monitorVars, now>>

(***************************************************************************)
(* run_until_flat of the foreground driver and dispatch_once of the exit   *)
(* dispatcher.  The driver's own errors do not latch the halt; the         *)
(* dispatcher's do, once it has claimed the exit.                          *)
(***************************************************************************)
Drive(p) ==
    LET s == sig[p] IN
    /\ pc[p] = "drive"
    /\ \/ /\ Cardinality(Unresolved) > 1
          /\ Raise(p)
       \/ /\ Cardinality(Unresolved) <= 1
          /\ cycles[Newest].loss # NoLoss
          /\ Leave(p)
       \/ /\ Cardinality(Unresolved) = 1
          /\ cycles[Newest].loss = NoLoss
          /\ EntryDay(s) \in exits["required"]
          /\ Goto(p, "claim")
          /\ UNCHANGED <<sig, act, view, lock>>
    /\ UNCHANGED <<storeVars, brokerVars, fileVars, monitorVars, now>>

Claim(p) ==
    LET s == sig[p] IN
    /\ pc[p] = "claim"
    /\ \/ /\ EntryDay(s) \notin exits["claimed"]
          /\ Mark("claimed", EntryDay(s))
          /\ Goto(p, IF OnlyRow(s) THEN "executions" ELSE "fail")
          /\ act' = "EXIT"
          /\ UNCHANGED <<sig, view, lock>>
       \/ EntryDay(s) \in exits["claimed"] /\ Raise(p) /\ UNCHANGED exits
    /\ UNCHANGED <<storeVars, brokerVars, risk, applied, permits, monitorVars, now>>

\* record_flat_closed_result_once and the peek that precedes it.
FlatClosedInPart(s) == view.closed > 0
FlatClosed(s) == NothingLeft(view) /\ view.closed = ExpectedClosed(s)

Exit(p) ==
    /\ pc[p] = "exit"
    /\ IF FlatClosed(sig[p])
       THEN Goto(p, "metrics") /\ UNCHANGED act
       ELSE Goto(p, "attempt") /\ act' = CancelProtection
    /\ UNCHANGED <<storeVars, brokerVars, sig, view, lock, fileVars, monitorVars, now>>

\* The result goes to the database first, to the risk file second.
RecordMetrics(p) ==
    LET s == sig[p] IN
    /\ pc[p] = "metrics"
    /\ \/ /\ Fresh
          /\ FlatClosed(s)
          /\ cycles[s].loss = NoLoss
          /\ \E loss \in 0..PerTradeLossBound :
                cycles' = [cycles EXCEPT ![s].loss = loss]
          /\ Goto(p, "result")
          /\ UNCHANGED <<attempts, halt, pending, resolution, flatMarker, sig, act, view, lock>>
       \/ Fresh /\ ~(FlatClosed(s) /\ cycles[s].loss = NoLoss) /\ RaiseHalted(p)
       \/ ~Fresh /\ RaiseUnhalted(p)
    /\ UNCHANGED <<brokerVars, fileVars, monitorVars, now>>

ApplyResult(p) ==
    LET s == sig[p] IN
    /\ pc[p] = "result"
    /\ IF s \in applied
       THEN Raise(p) /\ UNCHANGED <<risk, applied>>
       ELSE /\ risk' = RecordClosed(risk, Day(now), cycles[s].loss)
            /\ applied' = applied \cup {s}
            /\ Goto(p, "complete")
            /\ UNCHANGED <<sig, act, view, lock>>
    /\ UNCHANGED <<storeVars, brokerVars, permits, exits, monitorVars, now>>

CompleteExit(p) ==
    /\ pc[p] = "complete"
    /\ Mark("completed", EntryDay(sig[p]))
    /\ Leave(p)
    /\ UNCHANGED <<storeVars, brokerVars, risk, applied, permits, monitorVars, now>>

FailExit(p) ==
    /\ pc[p] = "fail"
    /\ EngageHalt
    /\ Mark("failed", EntryDay(sig[p]))
    /\ Goto(p, "release")
    /\ Unlock
    /\ UNCHANGED <<cycles, attempts, pending, resolution, flatMarker, brokerVars, sig,
                   risk, applied, permits, monitorVars, now>>

SessionStep(p) ==
    \/ \E s \in Signal : Prepare(p, s)
    \/ ReserveCycle(p)
    \/ IssuePermit(p)
    \/ Bind(p)
    \/ ReadExecutions(p)
    \/ ReadPositions(p)
    \/ ReadOrders(p)
    \/ Preflight(p)
    \/ AttemptMarket(p)
    \/ ChargeEntry(p)
    \/ Post(p)
    \/ Outcome(p)
    \/ Recover(p)
    \/ PersistPlan(p)
    \/ Attempt(p)
    \/ Confirm(p)
    \/ Drive(p)
    \/ Claim(p)
    \/ Exit(p)
    \/ RecordMetrics(p)
    \/ ApplyResult(p)
    \/ CompleteExit(p)
    \/ FailExit(p)
    \/ ReleaseReservation(p)

\* The operating system drops the lock of a dead process.  No session
\* resumes the cycle of another one.
Crash(p) ==
    /\ "crash" \in Faults
    /\ pc[p] # "idle"
    /\ Goto(p, "idle")
    /\ sig' = [sig EXCEPT ![p] = NoSignal]
    /\ IF lock = p THEN Unlock ELSE UNCHANGED <<lock, act, view>>
    /\ UNCHANGED <<storeVars, brokerVars, fileVars, monitorVars, now>>

(***************************************************************************)
(* The resident supervisor's tick.  It looks at the newest row only, and   *)
(* two unresolved rows are an internal failure that latches the halt and   *)
(* leaves the heartbeat as it is.  This is the committed generation, G075, *)
(* whose tick always may write.  Under G040, G041, G047 to G056 and G063   *)
(* to G065 the tick writes to the database and the required marker only if *)
(* it gets process.lock (shared_write_allowed), and no module says that.   *)
(***************************************************************************)
OpenEntryNotPending ==
    Rows # {} /\ cycles[Newest].at # NoTime /\ cycles[Newest].loss = NoLoss /\ pending = {}
OpenEntry == Rows # {} /\ cycles[Newest].at # NoTime /\ cycles[Newest].loss = NoLoss
ExitMarkerDayToday == Day(now)
ExitMarkerDay == Day(cycles[Newest].at)

SupervisorTick ==
    /\ \/ /\ Cardinality(Unresolved) > 1
          /\ EngageHalt
          /\ UNCHANGED <<exits, beat>>
       \/ /\ Cardinality(Unresolved) <= 1
          /\ halt' = (halt \/ (OpenEntry /\ ~WithinProtectionWindow(Newest)
                                 /\ ~cycles[Newest].confirmed))
          /\ IF OpenEntry /\ ExitDue(Newest) THEN Mark("required", ExitMarkerDay)
             ELSE UNCHANGED exits
          /\ beat' = [at |-> now, cycle |-> Rows # {} /\ cycles[Newest].loss = NoLoss
                                              /\ ~FlatMarkerLive(Newest)]
    /\ UNCHANGED <<cycles, attempts, pending, resolution, flatMarker, brokerVars,
                   sessionVars, risk, applied, permits, flatSeen, now>>

\* v4_gmo_weekend_flat_target_at: an entry still open at the weekend target.
WeekendTargetMissed ==
    /\ Refused
    /\ OpenEntry
    /\ ExitDue(Newest)
    /\ Cardinality(Unresolved) = 1
    /\ EngageHalt
    /\ UNCHANGED <<cycles, attempts, pending, resolution, flatMarker, brokerVars,
                   sessionVars, fileVars, monitorVars, now>>

(***************************************************************************)
(* The account-snapshot evidence and the console that acts on it.          *)
(***************************************************************************)
AccountFlat == \A s \in Signal : ~Exposed(s) /\ book[s].oco = 0

ObserveAccount ==
    /\ "console" \in Faults
    /\ flatSeen' = IF AccountFlat THEN now ELSE NoTime
    /\ UNCHANGED <<storeVars, brokerVars, sessionVars, fileVars, beat, now>>

ConsoleReconciles ==
    /\ "console" \in Faults
    /\ ExternalFlatAllowed(flatSeen)
    /\ ReconcileExternalFlat(flatSeen)
    /\ UNCHANGED <<brokerVars, sessionVars, fileVars, monitorVars, now>>

BrokerStep ==
    /\ \/ OrderTakesEffect
       \/ RemainderFills
       \/ OcoFires
       \/ "operator" \in Faults /\ OperatorFlattens
    /\ UNCHANGED <<storeVars, sessionVars, fileVars, monitorVars, now>>

Clock ==
    /\ now < MaxTime
    /\ now' = now + 1
    /\ UNCHANGED <<storeVars, brokerVars, sessionVars, fileVars, monitorVars>>

PathNext ==
    \/ \E p \in Proc : SessionStep(p) \/ Crash(p)
    \/ SupervisorTick
    \/ WeekendTargetMissed
    \/ ObserveAccount
    \/ ConsoleReconciles
    \/ BrokerStep
    \/ Clock

PathSpec == PathInit /\ [][PathNext]_pathVars

(***************************************************************************)
(* What is promised.                                                       *)
(***************************************************************************)

\* An entry POST is charged to its own JST day in the risk file before it is
\* sent, also when midnight falls between the reservation and the attempt, and
\* whatever crashes later: the day's cap counts every order that went out
\* (perform_market_once).
PostIsCharged ==
    \A s \in Signal : sent[<<s, Market>>] > 0 =>
        /\ risk.day >= EntryDay(s)
        /\ risk.day = EntryDay(s) => risk.entries > 0

\* Every order that may still change the account has its pending marker in
\* the database, through crashes and unknown replies, so the next owner to
\* open it halts (_record_transport_outcome_from_coordinated_path).
WireIsMarked == \A w \in wire : pending = {<<w.sig, w.act>>}

\* Exposure at the broker is never forgotten: its row is still there and
\* unresolved, and either the halt is latched or the pending marker will latch
\* it.
ExposureIsRemembered ==
    \A s \in Signal : Exposed(s) =>
        /\ cycles[s].at # NoTime
        /\ cycles[s].loss = NoLoss
        /\ halt \/ \E a \in Action : pending = {<<s, a>>}

\* At most one position is ever open, or on its way to be: while one signal has
\* a position, an unfilled order or its market order on the wire, no other
\* signal has (reserve_signal_fingerprint_internal's "at most one position ever
\* open").  Beside that guard the code keeps it by never deleting an attempted
\* row and by refusing, at the bind, a store with any other row.
MayHold(s) == Exposed(s) \/ \E w \in wire : w.sig = s /\ w.act = Market
OnePositionAtATime == \A s, t \in Signal : MayHold(s) /\ MayHold(t) => s = t

\* Once protection is confirmed, from three GETs that fills may fall between,
\* the plan covers all that was ever opened and nothing of the entry is left
\* working (confirm_exact_protection_once).
ConfirmedIsAll ==
    \A s \in Signal : cycles[s].confirmed =>
        book[s].opened = cycles[s].plan /\ book[s].pend = 0

\* The time exit goes out for exactly the open position, and never over a
\* working OCO, although the OCO may fire until its cancellation takes effect
\* (_record_risk_reducing_attempt_from_coordinated_path).
ExitIsExact ==
    [][\A w \in wire' \ wire : w.act = TimeExit =>
          w.size = book[w.sig].pos /\ book[w.sig].oco = 0]_pathVars

\* A completed exit left nothing at the broker, and its result is in the
\* database and in the risk file.
CompletedIsFlat ==
    \A s \in Rows : cycles[s].at # NoTime /\ EntryDay(s) \in exits["completed"] =>
        ~Exposed(s) /\ book[s].oco = 0 /\ cycles[s].loss # NoLoss /\ s \in applied

=============================================================================
