----------------------------- MODULE V4GmoEngine ----------------------------
(***************************************************************************)
(* The cycle engine of backend/app/h11_auto/v4_gmo_engine.py, run by the   *)
(* process that holds the lock of v4_gmo_runtime.py.  A step is one store  *)
(* transaction or one call of the broker; the process may stop between any *)
(* two of them (Crash in V4GmoRuntime), and the broker moves between any   *)
(* two of them.                                                            *)
(*                                                                         *)
(* Every action goes through the same five points of the code, which pc    *)
(* names: "attempt" (before record_action_attempt), "perform" (before      *)
(* perform_once_synthetic), "outcome" (before record_action_outcome),      *)
(* "settle" (before the transition to the reconciling state) and "read"    *)
(* (before reconcile_synthetic); "decide" holds the snapshot just read.    *)
(***************************************************************************)
EXTENDS V4GmoStore, V4GmoBroker

CONSTANTS
    Proc,               \* processes that run the command lines
    MaxUnprotected,     \* policy.max_unprotected_seconds
    NoCycle

ASSUME EngineAssumption == MaxUnprotected \in Nat /\ NoCycle \notin Cycle

VARIABLES
    now,        \* the wall clock, SystemV4GmoClock
    lock,       \* holder of the process lock, a set of at most one process
    pc,         \* where each process stands
    ref,        \* the cycle it works on
    snap,       \* the snapshot it has read
    startedAt,  \* now_utc of its command line
    sent        \* history: requests handed to the broker, per cycle and action

procVars == <<lock, pc, ref, snap, startedAt>>
histVars == <<sent>>

\* The process leaves: its finally clause releases the lock.
Leave(p) ==
    /\ lock' = lock \ {p}
    /\ pc' = [pc EXCEPT ![p] = "idle"]
    /\ ref' = [ref EXCEPT ![p] = NoCycle]
    /\ snap' = [snap EXCEPT ![p] = UnknownSnapshot]
    /\ startedAt' = [startedAt EXCEPT ![p] = NoTime]

Goto(p, label) ==
    /\ pc' = [pc EXCEPT ![p] = label]
    /\ UNCHANGED <<lock, ref, snap, startedAt>>

Unread(p, label) ==
    /\ pc' = [pc EXCEPT ![p] = label]
    /\ snap' = [snap EXCEPT ![p] = UnknownSnapshot]
    /\ UNCHANGED <<lock, ref, startedAt>>

\* _halt: the cycle is latched for review and the command line ends.
Halt(p) == Transition(ref[p], Halted) /\ Leave(p)

\* The states from which an action is attempted, and those that record it.
IntentStates ==
    {"ENTRY_INTENT_PERSISTED", "ENTRY_RECONCILING", "PROTECTION_INTENT_PERSISTED",
     "PROTECTION_CANCEL_INTENT_PERSISTED", "EMERGENCY_EXIT_INTENT_PERSISTED"}
AttemptedStates ==
    {"MARKET_ENTRY_ATTEMPTED", "REMAINDER_CANCEL_ATTEMPTED", "PROTECTION_ATTEMPTED",
     "PROTECTION_CANCEL_ATTEMPTED", "EMERGENCY_EXIT_ATTEMPTED"}

\* The action that the code attempts from a state.
NextAction(s) ==
    CASE s = "ENTRY_INTENT_PERSISTED" -> "MARKET_ENTRY"
      [] s = "ENTRY_RECONCILING" -> "CANCEL_ENTRY_REMAINDER"
      [] s = "PROTECTION_INTENT_PERSISTED" -> "EXACT_SIZE_OCO_PROTECTION"
      [] s = "PROTECTION_CANCEL_INTENT_PERSISTED" -> "CANCEL_MISMATCHED_PROTECTION"
      [] s = "EMERGENCY_EXIT_INTENT_PERSISTED" -> "POSITION_SPECIFIC_EMERGENCY_EXIT"

\* The action whose attempt a state records.
AttemptedAction(s) ==
    CASE s = "MARKET_ENTRY_ATTEMPTED" -> "MARKET_ENTRY"
      [] s = "REMAINDER_CANCEL_ATTEMPTED" -> "CANCEL_ENTRY_REMAINDER"
      [] s = "PROTECTION_ATTEMPTED" -> "EXACT_SIZE_OCO_PROTECTION"
      [] s = "PROTECTION_CANCEL_ATTEMPTED" -> "CANCEL_MISMATCHED_PROTECTION"
      [] s = "EMERGENCY_EXIT_ATTEMPTED" -> "POSITION_SPECIFIC_EMERGENCY_EXIT"

ReconcilingState(s) ==
    CASE s \in {"MARKET_ENTRY_ATTEMPTED", "REMAINDER_CANCEL_ATTEMPTED"} -> "ENTRY_RECONCILING"
      [] s = "PROTECTION_ATTEMPTED" -> "PROTECTION_RECONCILING"
      [] s = "PROTECTION_CANCEL_ATTEMPTED" -> "PROTECTION_CANCEL_RECONCILING"

\* requested_size of the plan for an action.
PlanSize(p, a) ==
    CASE a = "MARKET_ENTRY" -> Lot
      [] a = "CANCEL_ENTRY_REMAINDER" -> snap[p].pending
      [] a = "CANCEL_MISMATCHED_PROTECTION" -> protectedSize[ref[p]]
      [] OTHER -> filledSize[ref[p]]

\* The two attempts that latch an unknown size instead of building a plan.
SizeChecked == {"CANCEL_MISMATCHED_PROTECTION", "POSITION_SPECIFIC_EMERGENCY_EXIT"}

\* _attempt_*: the attempt is recorded before anything is sent.
AttemptAction(p) ==
    /\ pc[p] = "attempt"
    /\ LET c == ref[p]
           a == NextAction(state[c])
       IN  \/ a \in SizeChecked /\ PlanSize(p, a) = 0 /\ Halt(p)
           \/ /\ PlanSize(p, a) > 0
              /\ RecordActionAttempt(c, a, now)
              /\ Goto(p, "perform")
    /\ UNCHANGED <<brokerVars, histVars, now>>

SendAction(p) ==
    LET c == ref[p]
        a == AttemptedAction(state[c])
    IN  /\ Send([cycle |-> c, action |-> a, size |-> PlanSize(p, a), side |-> Side[c]])
        /\ sent' = [sent EXCEPT ![c][a] = @ + 1]
        /\ Unread(p, "outcome")
        /\ UNCHANGED storeVars

\* perform_once_synthetic sends the plan or refuses it (V4GmoBoundaryError).
PerformAction(p) ==
    /\ pc[p] = "perform"
    /\ \/ SendAction(p)
       \/ Halt(p) /\ UNCHANGED <<brokerVars, histVars>>
    /\ UNCHANGED now

\* The emergency exit has no reconciling state of its own.
RecordOutcome(p) ==
    /\ pc[p] = "outcome"
    /\ LET c == ref[p]
           a == AttemptedAction(state[c])
       IN  /\ RecordActionOutcome(c, a)
           /\ Goto(p, IF a = "POSITION_SPECIFIC_EMERGENCY_EXIT" THEN "read" ELSE "settle")
    /\ UNCHANGED <<brokerVars, histVars, now>>

EnterReconciling(p) ==
    /\ pc[p] = "settle"
    /\ Transition(ref[p], ReconcilingState(state[ref[p]]))
    /\ Goto(p, "read")
    /\ UNCHANGED <<brokerVars, histVars, now>>

ReadSnapshot(p) ==
    /\ pc[p] = "read"
    /\ \E s \in Views : snap' = [snap EXCEPT ![p] = s]
    /\ pc' = [pc EXCEPT ![p] = "decide"]
    /\ UNCHANGED <<lock, ref, startedAt, storeVars, brokerVars, histVars, now>>

(***************************************************************************)
(* What each reconciliation does with the snapshot it has read.  In each,  *)
(* c is the cycle and s the snapshot.                                      *)
(***************************************************************************)
FinishFlat(p, filled, protected) ==
    TransitionSized(ref[p], Flat, filled, protected, NoTime) /\ Leave(p)

StartEmergencyExit(p) ==
    /\ Transition(ref[p], "EMERGENCY_EXIT_INTENT_PERSISTED")
    /\ Unread(p, "attempt")

StartProtectionCancel(p, s) ==
    /\ TransitionSized(ref[p], "PROTECTION_CANCEL_INTENT_PERSISTED",
                       filledSize[ref[p]], s.protection, NoTime)
    /\ Unread(p, "attempt")

RemainderCancelSpent(c) == Attempted(c, "CANCEL_ENTRY_REMAINDER")

ReconcileEntry(p, c, s) ==
    \/ (~s.known \/ EntrySnapshotInvalid(s, Side[c])) /\ Halt(p)
    \/ /\ s.known /\ ~EntrySnapshotInvalid(s, Side[c])
       /\ \/ s.pending > 0 /\ RemainderCancelSpent(c) /\ Halt(p)
          \/ /\ s.pending > 0 /\ ~RemainderCancelSpent(c)
             /\ Goto(p, "attempt")
             /\ UNCHANGED storeVars
          \/ /\ s.pending = 0 /\ s.count = 0
             /\ FinishFlat(p, filledSize[c], protectedSize[c])
          \/ /\ s.pending = 0 /\ s.count = 1
             /\ TransitionSized(c, "ENTRY_FILLED_UNPROTECTED", s.filled, s.protection, now)
             /\ Unread(p, "ensure")

\* The deadline runs from the market attempt to the confirmation.
InTime(c) == now - since[c] \in 0..MaxUnprotected

ReconcileProtection(p, c, s) ==
    \/ ~s.known /\ Halt(p)
    \/ NothingOpen(s) /\ FinishFlat(p, 0, 0)
    \/ /\ s.known /\ ~NothingOpen(s) /\ s.count = 0
       /\ IF s.protection > 0 THEN StartProtectionCancel(p, s) ELSE Halt(p)
    \/ s.known /\ s.count > 0 /\ (s.count > 1 \/ s.side # Side[c]) /\ Halt(p)
    \/ /\ s.known /\ s.count = 1 /\ s.side = Side[c]
       /\ \/ /\ ExactlyProtected(s, Side[c], filledSize[c]) /\ InTime(c)
             /\ TransitionSized(c, "POSITION_PROTECTED", s.filled, s.protection, NoTime)
             /\ Leave(p)
          \/ ExactlyProtected(s, Side[c], filledSize[c]) /\ ~InTime(c) /\ Halt(p)
          \/ /\ ~ExactlyProtected(s, Side[c], filledSize[c])
             /\ IF ProtectionVisible(s)
                THEN StartProtectionCancel(p, s)
                ELSE StartEmergencyExit(p)

ReconcileCancelledProtection(p, c, s) ==
    \/ NothingOpen(s) /\ FinishFlat(p, 0, 0)
    \/ /\ s.known /\ CancellationConfirmed(s, Side[c], filledSize[c])
       /\ StartEmergencyExit(p)
    \/ /\ ~NothingOpen(s)
       /\ ~(s.known /\ CancellationConfirmed(s, Side[c], filledSize[c]))
       /\ Halt(p)

ReconcileEmergencyExit(p, c, s) ==
    IF NothingOpen(s) THEN FinishFlat(p, 0, 0) ELSE Halt(p)

\* _reconcile_existing_protected_position, after a restart.
ReconcileProtectedPositionBySize(p, c, s) ==
    \/ ~s.known /\ Halt(p)
    \/ FlatSnapshot(s) /\ FinishFlat(p, 0, 0)
    \/ s.known /\ OwnPosition(s, Side[c], filledSize[c]) /\ Leave(p) /\ UNCHANGED storeVars
    \/ /\ s.known /\ ~FlatSnapshot(s) /\ ~OwnPosition(s, Side[c], filledSize[c])
       /\ Halt(p)
ReconcileProtectedPosition(p, c, s) ==
    \/ ~s.known /\ Halt(p)
    \/ FlatSnapshot(s) /\ FinishFlat(p, 0, 0)
    \/ /\ s.known /\ ExactlyProtected(s, Side[c], filledSize[c])
       /\ Leave(p)
       /\ UNCHANGED storeVars
    \/ /\ s.known /\ ~FlatSnapshot(s) /\ ~ExactlyProtected(s, Side[c], filledSize[c])
       /\ \/ ~OwnPosition(s, Side[c], filledSize[c]) /\ Halt(p)
          \/ /\ OwnPosition(s, Side[c], filledSize[c]) /\ s.protection > 0
             /\ StartProtectionCancel(p, s)
          \/ /\ OwnPosition(s, Side[c], filledSize[c]) /\ s.protection = 0
             /\ StartEmergencyExit(p)

\* Restart with an intent and no attempt: the market entry needs a flat book.
RestartEntryPreflight(p, c, s) ==
    \/ ~FlatSnapshot(s) /\ Halt(p)
    \/ FlatSnapshot(s) /\ Unread(p, "attempt") /\ UNCHANGED storeVars

Reconcile(p) ==
    /\ pc[p] = "decide"
    /\ LET c == ref[p]
           s == snap[p]
       IN  \/ state[c] = "ENTRY_INTENT_PERSISTED" /\ RestartEntryPreflight(p, c, s)
           \/ state[c] = "ENTRY_RECONCILING" /\ ReconcileEntry(p, c, s)
           \/ state[c] = "PROTECTION_RECONCILING" /\ ReconcileProtection(p, c, s)
           \/ /\ state[c] = "PROTECTION_CANCEL_RECONCILING"
              /\ ReconcileCancelledProtection(p, c, s)
           \/ state[c] = "EMERGENCY_EXIT_ATTEMPTED" /\ ReconcileEmergencyExit(p, c, s)
           \/ state[c] = "POSITION_PROTECTED" /\ ReconcileProtectedPosition(p, c, s)
    /\ UNCHANGED <<brokerVars, histVars, now>>

\* _ensure_protection: a late or impossible clock never reaches the OCO.
EnsureProtection(p) ==
    /\ pc[p] = "ensure"
    /\ LET c == ref[p]
           elapsed == now - since[c]
       IN  \/ elapsed < 0 /\ Halt(p)
           \/ elapsed > MaxUnprotected /\ StartEmergencyExit(p)
           \/ /\ elapsed \in 0..MaxUnprotected
              /\ Transition(c, "PROTECTION_INTENT_PERSISTED")
              /\ Goto(p, "attempt")
    /\ UNCHANGED <<brokerVars, histVars, now>>

\* resume_synthetic: where a process takes up a persisted state.  An attempt
\* that was started is never performed again.
ResumePointResends(s) ==
    CASE s \in {"PROTECTION_INTENT_PERSISTED", "PROTECTION_CANCEL_INTENT_PERSISTED",
                "EMERGENCY_EXIT_INTENT_PERSISTED"} -> "attempt"
      [] s \in {"MARKET_ENTRY_ATTEMPTED", "REMAINDER_CANCEL_ATTEMPTED",
                "PROTECTION_ATTEMPTED", "PROTECTION_CANCEL_ATTEMPTED"} -> "perform"
      [] s = "ENTRY_FILLED_UNPROTECTED" -> "ensure"
      [] OTHER -> "read"
ResumePoint(s) ==
    CASE s \in {"PROTECTION_INTENT_PERSISTED", "PROTECTION_CANCEL_INTENT_PERSISTED",
                "EMERGENCY_EXIT_INTENT_PERSISTED"} -> "attempt"
      [] s \in {"MARKET_ENTRY_ATTEMPTED", "REMAINDER_CANCEL_ATTEMPTED",
                "PROTECTION_ATTEMPTED", "PROTECTION_CANCEL_ATTEMPTED"} -> "settle"
      [] s = "ENTRY_FILLED_UNPROTECTED" -> "ensure"
      [] OTHER -> "read"

EngineStep(p) ==
    \/ AttemptAction(p)
    \/ PerformAction(p)
    \/ RecordOutcome(p)
    \/ EnterReconciling(p)
    \/ ReadSnapshot(p)
    \/ Reconcile(p)
    \/ EnsureProtection(p)

=============================================================================
