----------------------------- MODULE V4GmoStore -----------------------------
(***************************************************************************)
(* The SQLite state store of backend/app/h11_auto/v4_gmo_persistence.py.   *)
(* Each method is one BEGIN IMMEDIATE transaction, so each operator below  *)
(* is one atomic step: it survives a crash completely or not at all.  A    *)
(* column of the table cycles is a function on the cycle references.       *)
(*                                                                         *)
(* The hash-linked journal is written by the same transactions and never   *)
(* read back by a decision; it is left out.  So are the outcome labels:    *)
(* the engine stores them and never branches on one, and only the step     *)
(* from ATTEMPT_STARTED to a recorded outcome is kept.                     *)
(***************************************************************************)
EXTENDS V4GmoContracts

VARIABLES
    state,          \* cycles.state, Absent before the row is inserted
    filledSize,     \* cycles.filled_size
    protectedSize,  \* cycles.protected_size
    since,          \* cycles.unprotected_since_utc
    entryDay,       \* cycles.entry_day_jst
    attempts,       \* action_attempts: none, started, or with an outcome
    globalHalt      \* metadata.global_halt_latched

storeVars == <<state, filledSize, protectedSize, since, entryDay, attempts, globalHalt>>

AttemptStatus == {"NONE", "ATTEMPT_STARTED", "OUTCOME_RECORDED"}

StoreTypeOK ==
    /\ state \in [Cycle -> CycleState \cup {Absent}]
    /\ filledSize \in [Cycle -> 0..Lot]
    /\ protectedSize \in [Cycle -> 0..OcoMax]
    /\ since \in [Cycle -> Nat \cup {NoTime}]
    /\ entryDay \in [Cycle -> Nat \cup {NoTime}]
    /\ attempts \in [Cycle -> [Action -> AttemptStatus]]
    /\ globalHalt \in BOOLEAN

StoreInit ==
    /\ state = [c \in Cycle |-> Absent]
    /\ filledSize = [c \in Cycle |-> 0]
    /\ protectedSize = [c \in Cycle |-> 0]
    /\ since = [c \in Cycle |-> NoTime]
    /\ entryDay = [c \in Cycle |-> NoTime]
    /\ attempts = [c \in Cycle |-> [a \in Action |-> "NONE"]]
    /\ globalHalt = FALSE

ActiveCycles == {c \in Cycle : state[c] \in ActiveStates}
HaltedCycles == {c \in Cycle : state[c] = Halted}

HaltLatchedGlobalOnly == globalHalt
HaltLatchedCycleOnly == HaltedCycles # {}
HaltLatched == globalHalt \/ HaltedCycles # {}

Attempted(c, a) == attempts[c][a] # "NONE"

\* create_cycle's checks; the reference and the fingerprint are unique keys.
CreateAllowed(c, day) ==
    /\ ActiveCycles = {}
    /\ ~HaltLatched
    /\ \A d \in Cycle : Attempted(d, "MARKET_ENTRY") => entryDay[d] # day
    /\ state[c] = Absent

CreateCycle(c, day) ==
    /\ CreateAllowed(c, day)
    /\ state' = [state EXCEPT ![c] = "ENTRY_INTENT_PERSISTED"]
    /\ entryDay' = [entryDay EXCEPT ![c] = day]
    /\ UNCHANGED <<filledSize, protectedSize, since, attempts, globalHalt>>

\* record_action_attempt: the key (cycle_ref, action_kind) and the table of
\* transitions both have to admit it.
AttemptAllowed(c, a) ==
    /\ ~Attempted(c, a)
    /\ AllowedTransition(state[c], AttemptTarget(a))

RecordActionAttempt(c, a, time) ==
    /\ AttemptAllowed(c, a)
    /\ attempts' = [attempts EXCEPT ![c][a] = "ATTEMPT_STARTED"]
    /\ state' = [state EXCEPT ![c] = AttemptTarget(a)]
    /\ since' = [since EXCEPT ![c] = IF a = "MARKET_ENTRY" THEN Coalesce(@, time) ELSE @]
    /\ UNCHANGED <<filledSize, protectedSize, entryDay, globalHalt>>

RecordActionOutcome(c, a) ==
    /\ attempts[c][a] = "ATTEMPT_STARTED"
    /\ attempts' = [attempts EXCEPT ![c][a] = "OUTCOME_RECORDED"]
    /\ UNCHANGED <<state, filledSize, protectedSize, since, entryDay, globalHalt>>

\* transition with the sizes it writes; time is NoTime where the caller
\* passes no unprotected_since_utc.
TransitionSizedAdds(c, target, filled, protected, time) ==
    /\ AllowedTransition(state[c], target)
    /\ state' = [state EXCEPT ![c] = target]
    /\ filledSize' = [filledSize EXCEPT ![c] = @ + filled]
    /\ protectedSize' = [protectedSize EXCEPT ![c] = protected]
    /\ since' = [since EXCEPT ![c] = Coalesce(@, time)]
    /\ UNCHANGED <<entryDay, attempts, globalHalt>>
TransitionSized(c, target, filled, protected, time) ==
    /\ AllowedTransition(state[c], target)
    /\ state' = [state EXCEPT ![c] = target]
    /\ filledSize' = [filledSize EXCEPT ![c] = filled]
    /\ protectedSize' = [protectedSize EXCEPT ![c] = protected]
    /\ since' = [since EXCEPT ![c] = Coalesce(@, time)]
    /\ UNCHANGED <<entryDay, attempts, globalHalt>>

Transition(c, target) ==
    /\ AllowedTransition(state[c], target)
    /\ state' = [state EXCEPT ![c] = target]
    /\ UNCHANGED <<filledSize, protectedSize, since, entryDay, attempts, globalHalt>>

EngageGlobalHalt ==
    /\ globalHalt' = TRUE
    /\ UNCHANGED <<state, filledSize, protectedSize, since, entryDay, attempts>>

ClearGlobalHaltAllowed == ActiveCycles = {}

ClearGlobalHalt ==
    /\ ClearGlobalHaltAllowed
    /\ globalHalt' = FALSE
    /\ UNCHANGED <<state, filledSize, protectedSize, since, entryDay, attempts>>

ClearHaltedCycle(c) == TransitionSized(c, Cleared, 0, 0, NoTime)

=============================================================================
