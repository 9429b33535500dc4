--------------------------- MODULE V4GmoContracts ---------------------------
(***************************************************************************)
(* The frozen contract of the relaxed GMO v4 profile                       *)
(* (backend/app/h11_auto/v4_gmo_contracts.py): the broker actions, the     *)
(* states of a cycle, the transition table, and what the engine concludes  *)
(* from one sanitized broker snapshot.                                     *)
(*                                                                         *)
(* A size is a number of lots; Lot stands for policy.requested_size.  A    *)
(* snapshot that is missing, stale or not result_known is treated alike by *)
(* every reader in the engine, so one field, known, stands for the three.  *)
(***************************************************************************)
EXTENDS Integers

CONSTANTS
    Cycle,      \* cycle references; a reference is the hash of one signal
    Side,       \* the side of the signal behind each reference
    Lot,        \* requested_size of a market entry
    OcoMax      \* the largest protection order a broker may be found holding

ASSUME LotAssumption == Lot \in Nat \ {0} /\ OcoMax \in Nat /\ OcoMax >= Lot
ASSUME SideAssumption == Side \in [Cycle -> {"BUY", "SELL"}]

Action == {"MARKET_ENTRY", "CANCEL_ENTRY_REMAINDER", "EXACT_SIZE_OCO_PROTECTION",
           "CANCEL_MISMATCHED_PROTECTION", "POSITION_SPECIFIC_EMERGENCY_EXIT"}

CycleState ==
    {"ENTRY_INTENT_PERSISTED", "MARKET_ENTRY_ATTEMPTED", "ENTRY_RECONCILING",
     "REMAINDER_CANCEL_ATTEMPTED", "ENTRY_FILLED_UNPROTECTED",
     "PROTECTION_INTENT_PERSISTED", "PROTECTION_ATTEMPTED",
     "PROTECTION_RECONCILING", "POSITION_PROTECTED",
     "PROTECTION_CANCEL_INTENT_PERSISTED", "PROTECTION_CANCEL_ATTEMPTED",
     "PROTECTION_CANCEL_RECONCILING", "EMERGENCY_EXIT_INTENT_PERSISTED",
     "EMERGENCY_EXIT_ATTEMPTED", "FLAT_RECONCILED",
     "HALTED_OPERATOR_REVIEW_REQUIRED", "OPERATOR_RELOAD_CLEARED"}

Flat == "FLAT_RECONCILED"
Halted == "HALTED_OPERATOR_REVIEW_REQUIRED"
Cleared == "OPERATOR_RELOAD_CLEARED"
Absent == "ABSENT"      \* no row with this cycle_ref in the table

ActiveStatesDropProtected == CycleState \ {Flat, Halted, Cleared, "POSITION_PROTECTED"}
ActiveStatesDropExitIntent ==
    CycleState \ {Flat, Halted, Cleared, "EMERGENCY_EXIT_INTENT_PERSISTED"}
ActiveStates == CycleState \ {Flat, Halted, Cleared}

\* require_v4_transition's table, without the HALT edge that every active
\* state has.
NextStates(s) ==
    CASE s = "ENTRY_INTENT_PERSISTED" -> {"MARKET_ENTRY_ATTEMPTED"}
      [] s = "MARKET_ENTRY_ATTEMPTED" -> {"ENTRY_RECONCILING"}
      [] s = "ENTRY_RECONCILING" ->
            {"REMAINDER_CANCEL_ATTEMPTED", "ENTRY_FILLED_UNPROTECTED", Flat}
      [] s = "REMAINDER_CANCEL_ATTEMPTED" -> {"ENTRY_RECONCILING"}
      [] s = "ENTRY_FILLED_UNPROTECTED" ->
            {"PROTECTION_INTENT_PERSISTED", "EMERGENCY_EXIT_INTENT_PERSISTED"}
      [] s = "PROTECTION_INTENT_PERSISTED" -> {"PROTECTION_ATTEMPTED"}
      [] s = "PROTECTION_ATTEMPTED" -> {"PROTECTION_RECONCILING"}
      [] s = "PROTECTION_RECONCILING" ->
            {"POSITION_PROTECTED", Flat, "PROTECTION_CANCEL_INTENT_PERSISTED",
             "EMERGENCY_EXIT_INTENT_PERSISTED"}
      [] s = "PROTECTION_CANCEL_INTENT_PERSISTED" -> {"PROTECTION_CANCEL_ATTEMPTED"}
      [] s = "PROTECTION_CANCEL_ATTEMPTED" -> {"PROTECTION_CANCEL_RECONCILING"}
      [] s = "PROTECTION_CANCEL_RECONCILING" ->
            {"EMERGENCY_EXIT_INTENT_PERSISTED", Flat}
      [] s = "EMERGENCY_EXIT_INTENT_PERSISTED" -> {"EMERGENCY_EXIT_ATTEMPTED"}
      [] s = "EMERGENCY_EXIT_ATTEMPTED" -> {Flat}
      [] s = "POSITION_PROTECTED" ->
            {"PROTECTION_CANCEL_INTENT_PERSISTED", "EMERGENCY_EXIT_INTENT_PERSISTED", Flat}
      [] s = Halted -> {Cleared}
      [] OTHER -> {}

AllowedTransitionNotFromProtected(current, target) ==
    \/ target \in NextStates(current) /\ current # "POSITION_PROTECTED"
    \/ target = Halted /\ current \in ActiveStates
AllowedTransition(current, target) ==
    \/ target \in NextStates(current)
    \/ target = Halted /\ current \in ActiveStates

\* The state record_action_attempt expects for each action.
AttemptTarget(a) ==
    CASE a = "MARKET_ENTRY" -> "MARKET_ENTRY_ATTEMPTED"
      [] a = "CANCEL_ENTRY_REMAINDER" -> "REMAINDER_CANCEL_ATTEMPTED"
      [] a = "EXACT_SIZE_OCO_PROTECTION" -> "PROTECTION_ATTEMPTED"
      [] a = "CANCEL_MISMATCHED_PROTECTION" -> "PROTECTION_CANCEL_ATTEMPTED"
      [] a = "POSITION_SPECIFIC_EMERGENCY_EXIT" -> "EMERGENCY_EXIT_ATTEMPTED"

(***************************************************************************)
(* Broker snapshots.                                                       *)
(***************************************************************************)
Sides == {"BUY", "SELL"}
NoSide == "NONE"
ProtectionStatus == {"NONE", "EXACT_MATCH", "UNDERSIZED", "OVERSIZED", "UNKNOWN"}

Snapshot ==
    [known : BOOLEAN, count : 0..2, side : Sides \cup {NoSide}, filled : Nat,
     pending : Nat, protection : 0..OcoMax, status : ProtectionStatus]

\* What FakeV4GmoBroker may be scripted to return, with bounded sizes.
ScriptedSnapshot ==
    [known : {TRUE}, count : 0..2, side : Sides \cup {NoSide}, filled : 0..OcoMax,
     pending : 0..OcoMax, protection : 0..OcoMax, status : ProtectionStatus]

UnknownSnapshot ==
    [known |-> FALSE, count |-> 0, side |-> NoSide, filled |-> 0, pending |-> 0,
     protection |-> 0, status |-> "UNKNOWN"]

\* position, pending and protection are all gone; the fill is not looked at.
PositionGone(s) == s.known /\ s.count = 0
NothingOpen(s) ==
    /\ s.known
    /\ s.count = 0
    /\ s.pending = 0
    /\ s.protection = 0
    /\ s.status = "NONE"

\* _flat_snapshot_blocked_reasons and _boot_blocked_reasons are empty.
FlatPosition(s) == s.known /\ s.count = 0 /\ s.filled = 0
FlatSnapshot(s) == NothingOpen(s) /\ s.filled = 0

\* One position of the cycle's side and size and no pending entry.
OwnPosition(s, side, size) ==
    /\ s.count = 1
    /\ s.side = side
    /\ s.filled = size
    /\ s.pending = 0

ExactlyProtected(s, side, size) ==
    /\ OwnPosition(s, side, size)
    /\ s.status = "EXACT_MATCH"
    /\ s.protection = size

CancellationConfirmed(s, side, size) ==
    /\ OwnPosition(s, side, size)
    /\ s.protection = 0
    /\ s.status = "NONE"

\* A protection order is there, whatever its size is said to be.
ProtectionExact(s) == s.status = "EXACT_MATCH"
ProtectionVisible(s) ==
    s.protection > 0 \/ s.status \in {"UNDERSIZED", "OVERSIZED", "EXACT_MATCH"}

\* _entry_snapshot_invalid_reason is not None.
EntrySnapshotInvalid(s, side) ==
    \/ s.count > 1
    \/ s.protection > 0
    \/ s.status # "NONE"
    \/ s.filled + s.pending > Lot
    \/ s.count = 1 /\ (s.side # side \/ s.filled = 0)
    \/ s.count = 0 /\ s.filled > 0

NoTime == -1
Coalesce(a, b) == IF a # NoTime THEN a ELSE b

=============================================================================
