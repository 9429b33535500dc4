-------------------------- MODULE V4GmoActualStore --------------------------
(***************************************************************************)
(* The coordinator database of the actual path,                            *)
(* backend/app/h11_auto/v4_gmo_actual_coordinator.py: one row per cycle    *)
(* (named by its signal), the attempts, and the metadata keys that carry   *)
(* the halt, the pending transport, its last resolution and the console's  *)
(* external-flat marker.  Every operator below is one transaction.         *)
(***************************************************************************)
EXTENDS Integers, FiniteSets

CONSTANTS
    Signal,             \* the formal signals, and the cycles they name
    NoSignal,
    RequestedSize,      \* size of an entry
    ProtectionWindow,   \* ticks within which protection may be placed (15 s)
    HoldTime,           \* ticks after which the time exit is due
    FreshWindow,        \* ticks for which evidence and heartbeats count (60 s)
    DayLength           \* ticks in a JST day

ASSUME ActualStoreAssumption ==
    /\ NoSignal \notin Signal
    /\ {RequestedSize, DayLength} \subseteq Nat \ {0}
    /\ {ProtectionWindow, HoldTime, FreshWindow} \subseteq Nat
    /\ ProtectionWindow < HoldTime

VARIABLES
    cycles,         \* table cycles
    attempts,       \* table attempts: pairs of a cycle and an action
    halt,           \* unknown_halt_latched
    pending,        \* pending_transport_attempt, at most one pair
    resolution,     \* pending_transport_resolution, at most one pair
    flatMarker,     \* external_flat_reconciliation
    now             \* the wall clock

storeVars == <<cycles, attempts, halt, pending, resolution, flatMarker>>

NoTime == -1
NoLoss == -1

Market == "MARKET_ENTRY"
CancelRemainder == "CANCEL_ENTRY_REMAINDER"
Protect == "EXACT_SIZE_OCO_PROTECTION"
CancelProtection == "CANCEL_EXACT_PROTECTION_FOR_TIME_EXIT"
TimeExit == "POSITION_SPECIFIC_TIME_EXIT"

Action == {Market, CancelRemainder, Protect, CancelProtection, TimeExit}

Day(t) == t \div DayLength

\* No row yet.  A row is its place in the order of creation (0 when there is
\* none), its trading day, whether the entry preflight is recorded, when the
\* market attempt was, the size of the protection plan, whether protection was
\* confirmed, the settlement size, and the loss of the closed trade.
NoRow ==
    [born |-> 0, day |-> 0, preflight |-> FALSE, at |-> NoTime, plan |-> 0,
     confirmed |-> FALSE, settle |-> 0, loss |-> NoLoss]

StoreInit ==
    /\ cycles = [s \in Signal |-> NoRow]
    /\ attempts = {}
    /\ halt = FALSE
    /\ pending = {}
    /\ resolution = {}
    /\ flatMarker = [sig |-> NoSignal, at |-> NoTime]

Rows == {s \in Signal : cycles[s].born > 0}
Unresolved == {s \in Rows : cycles[s].loss = NoLoss}
Newest == CHOOSE s \in Rows : \A t \in Rows : cycles[t].born <= cycles[s].born

\* market_attempt_count_for_day: by the day of the reservation.
LedgerCount(d) ==
    Cardinality({s \in Rows : <<s, Market>> \in attempts /\ cycles[s].day = d})

\* _external_flat_reconciliation_matches
FlatMarkerLive(s) ==
    flatMarker.sig = s /\ flatMarker.at # NoTime /\ now - flatMarker.at <= FreshWindow

\* _initialize by an owner: a pending transport left behind latches the halt.
OwnerOpen == halt' = (halt \/ pending # {})

EngageHalt == halt' = TRUE

(***************************************************************************)
(* Reservation: reserve_entry_cycle, release_unattempted_reservation.      *)
(***************************************************************************)
ReserveAllowed(s) ==
    /\ ~halt
    /\ \A u \in Unresolved : FlatMarkerLive(u)
    /\ s \notin Rows

Reserve(s) ==
    /\ cycles' = [cycles EXCEPT ![s] =
                    [NoRow EXCEPT !.born = Cardinality(Rows) + 1, !.day = Day(now)]]
    /\ UNCHANGED <<attempts, halt, pending, resolution, flatMarker>>

ReleaseAllowedAttempted(s) == ~halt /\ s \in Rows /\ cycles[s].loss = NoLoss
ReleaseAllowed(s) ==
    ~halt /\ s \in Rows /\ cycles[s].at = NoTime /\ cycles[s].loss = NoLoss

\* Without row s, the rows that are younger move up by one.
WithoutRow(s) ==
    [t \in Signal |->
        IF t = s THEN NoRow
        ELSE [cycles[t] EXCEPT !.born = IF @ > cycles[s].born THEN @ - 1 ELSE @]]

Release(s) ==
    /\ cycles' = IF ReleaseAllowed(s) THEN WithoutRow(s) ELSE cycles
    /\ UNCHANGED <<attempts, halt, pending, resolution, flatMarker>>

(***************************************************************************)
(* Attempts.  Under the halt an action other than the entry is allowed     *)
(* when the last resolution of its cycle is in the action's row of         *)
(* _recovery_value_allows_action.                                          *)
(***************************************************************************)
RecoveryActions(class) ==
    CASE class = "MARKET_PARTIAL_PENDING" -> {CancelRemainder}
      [] class = "FILLED_UNPROTECTED" -> {Protect, TimeExit}
      [] class = "FILLED_PROTECTED" -> {CancelProtection}
      [] OTHER -> {}

RecoveryAllows(s, a) == \E r \in resolution : r[1] = s /\ a \in RecoveryActions(r[2])

HaltAllows(s, a) == halt => a # Market /\ RecoveryAllows(s, a)

WithinProtectionWindow(s) == now - cycles[s].at <= ProtectionWindow
ExitDue(s) == now - cycles[s].at >= HoldTime

\* The primary key of attempts and _mark_transport_pending.
AttemptFree(s, a) == <<s, a>> \notin attempts /\ pending = {}

\* The row and the pending marker are written by the transaction that checks
\* them; the entry also stamps its time and the exit its size.
RecordAttempt(s, a, size) ==
    /\ attempts' = attempts \cup {<<s, a>>}
    /\ pending' = {<<s, a>>}
    /\ cycles' = [cycles EXCEPT
                    ![s].at = IF a = Market THEN now ELSE @,
                    ![s].settle = IF a = TimeExit THEN size ELSE @]
    /\ UNCHANGED <<halt, resolution, flatMarker>>

\* _committed_attempt_verifier, at the transport boundary.
Committed(s, a) ==
    /\ <<s, a>> \in attempts
    /\ pending = {<<s, a>>}
    /\ HaltAllows(s, a)

\* _record_transport_outcome_from_coordinated_path: only a rejection removes
\* the marker, everything else waits for a reconciliation under the halt.
OutcomeForgetsMarker(s, a, reply) ==
    /\ pending' = IF reply = "UNKNOWN_SANITIZED" THEN pending ELSE {}
    /\ halt' = (halt \/ reply # "REJECTED_SANITIZED")
RecordOutcome(s, a, reply) ==
    /\ pending' = IF reply = "REJECTED_SANITIZED" THEN {} ELSE pending
    /\ halt' = (halt \/ reply # "REJECTED_SANITIZED")

\* _resolve_pending_transport_from_coordinated_path
ResolveAllowed(s, class) ==
    /\ halt
    /\ \E a \in Action : pending = {<<s, a>>}
    /\ class # "UNKNOWN"

ResolveAndResume(s, class) ==
    /\ resolution' = {<<s, class>>}
    /\ pending' = {}
    /\ halt' = FALSE
    /\ UNCHANGED <<cycles, attempts, flatMarker>>
Resolve(s, class) ==
    /\ resolution' = {<<s, class>>}
    /\ pending' = {}
    /\ UNCHANGED <<cycles, attempts, halt, flatMarker>>

(***************************************************************************)
(* The console's external-flat reconciliation.  The evidence's age is      *)
(* checked, not whether it is younger than the entry.                      *)
(***************************************************************************)
ExternalFlatAllowed(seen) ==
    /\ seen # NoTime
    /\ now - seen <= FreshWindow
    /\ pending = {}
    /\ Cardinality(Unresolved) = 1
    /\ cycles[Newest].loss = NoLoss

ReconcileExternalFlat(seen) ==
    /\ flatMarker' = [sig |-> Newest, at |-> seen]
    /\ halt' = FALSE
    /\ UNCHANGED <<cycles, attempts, pending, resolution>>

=============================================================================
