------------------------- MODULE V4GmoRuntimeProofs -------------------------
(***************************************************************************)
(* V4GmoRuntime keeps its types, hands no action of a cycle to the broker  *)
(* twice, never has two unfinished cycles, is never refused an attempt by  *)
(* the store and sends nothing while a halt is latched: for any number of  *)
(* cycles and processes, any lot size, clock and risk policy, and for each *)
(* of the three ways a snapshot may be read.                               *)
(*                                                                         *)
(* None of these is inductive alone.  IInv adds what they rest on: the     *)
(* lock has one holder and only it is at work (LockInv); where a process   *)
(* stands agrees with the persisted state of its cycle (ProcOK); and an    *)
(* attempt that is on record rules out every state before it (HistoryOK).  *)
(*                                                                         *)
(* From the same invariant: the engine implements PersistentTransport,     *)
(* every command line ends after a bounded number of its own steps, and    *)
(* until then it has a next step.                                          *)
(***************************************************************************)
EXTENDS V4GmoProgress, TLAPS

(***************************************************************************)
(* The inductive invariant.                                                *)
(***************************************************************************)

\* The states a cycle can be in once an action was attempted.
AfterAttempt(a) ==
    CASE a = "MARKET_ENTRY" -> CycleState \ {"ENTRY_INTENT_PERSISTED"}
      [] a = "CANCEL_ENTRY_REMAINDER" ->
            CycleState \ {"ENTRY_INTENT_PERSISTED", "MARKET_ENTRY_ATTEMPTED"}
      [] a = "EXACT_SIZE_OCO_PROTECTION" ->
            {"PROTECTION_ATTEMPTED", "PROTECTION_RECONCILING", "POSITION_PROTECTED",
             "PROTECTION_CANCEL_INTENT_PERSISTED", "PROTECTION_CANCEL_ATTEMPTED",
             "PROTECTION_CANCEL_RECONCILING", "EMERGENCY_EXIT_INTENT_PERSISTED",
             "EMERGENCY_EXIT_ATTEMPTED", Flat, Halted, Cleared}
      [] a = "CANCEL_MISMATCHED_PROTECTION" ->
            {"PROTECTION_CANCEL_ATTEMPTED", "PROTECTION_CANCEL_RECONCILING",
             "EMERGENCY_EXIT_INTENT_PERSISTED", "EMERGENCY_EXIT_ATTEMPTED",
             Flat, Halted, Cleared}
      [] a = "POSITION_SPECIFIC_EMERGENCY_EXIT" ->
            {"EMERGENCY_EXIT_ATTEMPTED", Flat, Halted, Cleared}

HistoryOK(c) ==
    \A a \in Action :
        /\ sent[c][a] \in {0, 1}
        /\ sent[c][a] = 1 => Attempted(c, a)
        /\ Attempted(c, a) => state[c] \in AfterAttempt(a)

FillKnown(c) ==
    state[c] \in {"ENTRY_FILLED_UNPROTECTED", "PROTECTION_INTENT_PERSISTED"}
        => filledSize[c] > 0

StoreInv ==
    /\ \A c \in Cycle : HistoryOK(c) /\ FillKnown(c)
    /\ SingleUnfinishedCycle

LockInv ==
    /\ \A p \in Proc : pc[p] # "idle" <=> p \in lock
    /\ \A p, q \in lock : p = q

AtWork == {"attempt", "perform", "outcome", "settle", "read", "decide", "ensure"}

ReadableStates ==
    {"ENTRY_INTENT_PERSISTED", "ENTRY_RECONCILING", "PROTECTION_RECONCILING",
     "PROTECTION_CANCEL_RECONCILING", "EMERGENCY_EXIT_ATTEMPTED", "POSITION_PROTECTED"}

ProcOK(p) ==
    /\ pc[p] # "idle" => startedAt[p] \in Nat
    /\ pc[p] = "create" => ref[p] \in Cycle
    /\ pc[p] \in AtWork => ref[p] \in Cycle /\ ~globalHalt
    /\ pc[p] = "attempt" =>
          /\ state[ref[p]] \in IntentStates
          /\ ~Attempted(ref[p], NextAction(state[ref[p]]))
          /\ state[ref[p]] = "ENTRY_RECONCILING" => snap[p].pending > 0
    /\ pc[p] \in {"perform", "outcome"} =>
          /\ state[ref[p]] \in AttemptedStates
          /\ attempts[ref[p]][AttemptedAction(state[ref[p]])] = "ATTEMPT_STARTED"
    /\ pc[p] = "perform" => sent[ref[p]][AttemptedAction(state[ref[p]])] = 0
    /\ pc[p] = "settle" => state[ref[p]] \in AttemptedStates \ {"EMERGENCY_EXIT_ATTEMPTED"}
    /\ pc[p] \in {"read", "decide"} => state[ref[p]] \in ReadableStates
    /\ pc[p] = "ensure" => state[ref[p]] = "ENTRY_FILLED_UNPROTECTED"

IInv ==
    /\ TypeOK
    /\ StoreInv
    /\ LockInv
    /\ \A p \in Proc : ProcOK(p)

(***************************************************************************)
(* Facts about the contract's operators.                                   *)
(***************************************************************************)

\* Every transition the table admits leaves an unfinished state, never undoes
\* an attempt, and reaches PROTECTION_INTENT_PERSISTED only from a fill.
LEMMA TransitionFacts ==
    ASSUME NEW s \in CycleState \cup {Absent}, NEW t, AllowedTransition(s, t)
    PROVE  /\ s \in CycleState \ {Flat, Cleared}
           /\ t \in CycleState
           /\ \A a \in Action : s \in AfterAttempt(a) => t \in AfterAttempt(a)
           /\ t = "PROTECTION_INTENT_PERSISTED" => s = "ENTRY_FILLED_UNPROTECTED"
<1>1. /\ s \in CycleState \ {Flat, Cleared}
      /\ t \in CycleState
      /\ t = "PROTECTION_INTENT_PERSISTED" => s = "ENTRY_FILLED_UNPROTECTED"
  BY DEF AllowedTransition, NextStates, ActiveStates, CycleState, Flat, Halted, Cleared, Absent
<1>2. ASSUME NEW a \in Action, s \in AfterAttempt(a)
      PROVE  t \in AfterAttempt(a)
  BY <1>1, <1>2 DEF AllowedTransition, NextStates, ActiveStates, AfterAttempt, Action,
     CycleState, Flat, Halted, Cleared, Absent
<1>3. QED
  BY <1>1, <1>2

\* An attempt moves its cycle from an intent to the state that records it.
LEMMA AttemptFacts ==
    ASSUME NEW s \in IntentStates
    PROVE  /\ NextAction(s) \in Action
           /\ AttemptTarget(NextAction(s)) \in AttemptedStates \cap CycleState
           /\ AttemptedAction(AttemptTarget(NextAction(s))) = NextAction(s)
           /\ AllowedTransition(s, AttemptTarget(NextAction(s)))
           /\ AttemptTarget(NextAction(s)) \in AfterAttempt(NextAction(s))
  BY DEF IntentStates, NextAction, AttemptTarget, AttemptedStates, AttemptedAction, Action,
     CycleState, AllowedTransition, NextStates, AfterAttempt, Flat, Halted, Cleared

(***************************************************************************)
(* What one transaction of the store preserves.                            *)
(***************************************************************************)

\* A transition of the table keeps types, history and the single cycle.
LEMMA TransitionKeepsStore ==
    ASSUME StoreTypeOK, StoreInv, NEW c \in Cycle, NEW t,
           t # "ENTRY_FILLED_UNPROTECTED", Transition(c, t), UNCHANGED sent
    PROVE  StoreTypeOK' /\ StoreInv'
<1>1. /\ state[c] \in CycleState \ {Flat, Cleared}
      /\ t \in CycleState
      /\ \A a \in Action : state[c] \in AfterAttempt(a) => t \in AfterAttempt(a)
      /\ t = "PROTECTION_INTENT_PERSISTED" => state[c] = "ENTRY_FILLED_UNPROTECTED"
  BY TransitionFacts DEF StoreTypeOK, Transition
<1>2. /\ state' = [state EXCEPT ![c] = t]
      /\ UNCHANGED <<filledSize, protectedSize, since, entryDay, attempts, globalHalt, sent>>
  BY DEF Transition
<1>3. StoreTypeOK'
  BY <1>1, <1>2 DEF StoreTypeOK
<1>4. ASSUME NEW d \in Cycle
      PROVE  HistoryOK(d)' /\ FillKnown(d)'
  BY <1>1, <1>2 DEF StoreTypeOK, StoreInv, HistoryOK, FillKnown, Attempted
<1>5. SingleUnfinishedCycle'
  BY <1>1, <1>2 DEF StoreTypeOK, StoreInv, SingleUnfinishedCycle, Unfinished, CycleState,
     Flat, Cleared, Absent
<1>6. QED
  BY <1>3, <1>4, <1>5 DEF StoreInv

\* The same for a transition that writes reconciled sizes.
LEMMA TransitionSizedKeepsStore ==
    ASSUME StoreTypeOK, StoreInv, NEW c \in Cycle, NEW t, NEW f \in 0..Lot,
           NEW g \in 0..OcoMax, NEW u \in Nat \cup {NoTime},
           t \in {"ENTRY_FILLED_UNPROTECTED", "PROTECTION_INTENT_PERSISTED"} => f > 0,
           TransitionSized(c, t, f, g, u), UNCHANGED sent
    PROVE  StoreTypeOK' /\ StoreInv'
<1>1. /\ state[c] \in CycleState \ {Flat, Cleared}
      /\ t \in CycleState
      /\ \A a \in Action : state[c] \in AfterAttempt(a) => t \in AfterAttempt(a)
  BY TransitionFacts DEF StoreTypeOK, TransitionSized
<1>2. /\ state' = [state EXCEPT ![c] = t]
      /\ filledSize' = [filledSize EXCEPT ![c] = f]
      /\ protectedSize' = [protectedSize EXCEPT ![c] = g]
      /\ since' = [since EXCEPT ![c] = Coalesce(since[c], u)]
      /\ UNCHANGED <<entryDay, attempts, globalHalt, sent>>
  BY DEF TransitionSized
<1>3. Coalesce(since[c], u) \in Nat \cup {NoTime}
  BY DEF StoreTypeOK, Coalesce
<1>4. StoreTypeOK'
  BY <1>1, <1>2, <1>3 DEF StoreTypeOK
<1>5. ASSUME NEW d \in Cycle
      PROVE  HistoryOK(d)' /\ FillKnown(d)'
  BY <1>1, <1>2 DEF StoreTypeOK, StoreInv, HistoryOK, FillKnown, Attempted
<1>6. SingleUnfinishedCycle'
  BY <1>1, <1>2 DEF StoreTypeOK, StoreInv, SingleUnfinishedCycle, Unfinished, CycleState,
     Flat, Cleared, Absent
<1>7. QED
  BY <1>4, <1>5, <1>6 DEF StoreInv

\* Recording an attempt from its intent keeps them.
LEMMA AttemptKeepsStore ==
    ASSUME StoreTypeOK, StoreInv, NEW c \in Cycle, state[c] \in IntentStates,
           NEW u \in Nat, RecordActionAttempt(c, NextAction(state[c]), u), UNCHANGED sent
    PROVE  StoreTypeOK' /\ StoreInv'
<1> DEFINE a == NextAction(state[c])
           t == AttemptTarget(a)
<1>1. /\ a \in Action
      /\ t \in AttemptedStates \cap CycleState
      /\ AllowedTransition(state[c], t)
      /\ t \in AfterAttempt(a)
  BY AttemptFacts
<1>2. /\ state[c] \in CycleState \ {Flat, Cleared}
      /\ \A b \in Action : state[c] \in AfterAttempt(b) => t \in AfterAttempt(b)
  BY <1>1, TransitionFacts DEF StoreTypeOK
<1>3. /\ state' = [state EXCEPT ![c] = t]
      /\ attempts' = [attempts EXCEPT ![c][a] = "ATTEMPT_STARTED"]
      /\ since' = [since EXCEPT ![c] =
                       IF a = "MARKET_ENTRY" THEN Coalesce(since[c], u) ELSE since[c]]
      /\ UNCHANGED <<filledSize, protectedSize, entryDay, globalHalt, sent>>
  BY DEF RecordActionAttempt
<1> HIDE DEF a, t
<1>4. Coalesce(since[c], u) \in Nat \cup {NoTime}
  BY DEF StoreTypeOK, Coalesce
<1>5. StoreTypeOK'
  BY <1>1, <1>3, <1>4 DEF StoreTypeOK, AttemptStatus
<1>6. ASSUME NEW d \in Cycle
      PROVE  HistoryOK(d)' /\ FillKnown(d)'
  BY <1>1, <1>2, <1>3 DEF StoreTypeOK, StoreInv, HistoryOK, FillKnown, Attempted,
     AttemptedStates
<1>7. SingleUnfinishedCycle'
  BY <1>1, <1>2, <1>3 DEF StoreTypeOK, StoreInv, SingleUnfinishedCycle, Unfinished,
     CycleState, Flat, Cleared, Absent
<1>8. QED
  BY <1>5, <1>6, <1>7 DEF StoreInv

\* Recording an outcome keeps them.
LEMMA OutcomeKeepsStore ==
    ASSUME StoreTypeOK, StoreInv, NEW c \in Cycle, NEW a \in Action,
           RecordActionOutcome(c, a), UNCHANGED sent
    PROVE  StoreTypeOK' /\ StoreInv'
<1>1. /\ attempts[c][a] = "ATTEMPT_STARTED"
      /\ attempts' = [attempts EXCEPT ![c][a] = "OUTCOME_RECORDED"]
      /\ UNCHANGED <<state, filledSize, protectedSize, since, entryDay, globalHalt, sent>>
  BY DEF RecordActionOutcome
<1>2. StoreTypeOK'
  BY <1>1 DEF StoreTypeOK, AttemptStatus
<1>3. ASSUME NEW d \in Cycle
      PROVE  HistoryOK(d)' /\ FillKnown(d)'
  BY <1>1 DEF StoreTypeOK, StoreInv, HistoryOK, FillKnown, Attempted
<1>4. SingleUnfinishedCycle'
  BY <1>1 DEF StoreInv, SingleUnfinishedCycle, Unfinished
<1>5. QED
  BY <1>2, <1>3, <1>4 DEF StoreInv

\* A new cycle has no history, and is alone.
LEMMA CreateKeepsStore ==
    ASSUME StoreTypeOK, StoreInv, NEW c \in Cycle, NEW d \in Nat, CreateCycle(c, d),
           UNCHANGED sent
    PROVE  /\ StoreTypeOK' /\ StoreInv'
           /\ ~globalHalt'
           /\ state'[c] = "ENTRY_INTENT_PERSISTED"
           /\ attempts'[c]["MARKET_ENTRY"] = "NONE"
<1>1. /\ ActiveCycles = {} /\ HaltedCycles = {} /\ ~globalHalt
      /\ state[c] = Absent
      /\ state' = [state EXCEPT ![c] = "ENTRY_INTENT_PERSISTED"]
      /\ entryDay' = [entryDay EXCEPT ![c] = d]
      /\ UNCHANGED <<filledSize, protectedSize, since, attempts, globalHalt, sent>>
  BY DEF CreateCycle, CreateAllowed, HaltLatched
<1>2. \A e \in Cycle : ~Unfinished(e)
  BY <1>1 DEF ActiveCycles, HaltedCycles, ActiveStates, Unfinished, StoreTypeOK
<1>3. StoreTypeOK'
  BY <1>1 DEF StoreTypeOK, CycleState
<1>4. \A a \in Action : Absent \notin AfterAttempt(a)
  BY DEF AfterAttempt, Action, CycleState, Absent, Flat, Halted, Cleared
<1>5. \A a \in Action : ~Attempted(c, a)
  BY <1>1, <1>4 DEF StoreInv, HistoryOK
<1>6. ASSUME NEW e \in Cycle
      PROVE  HistoryOK(e)' /\ FillKnown(e)'
  BY <1>1, <1>5 DEF StoreTypeOK, StoreInv, HistoryOK, FillKnown, Attempted
<1>7. SingleUnfinishedCycle'
  BY <1>1, <1>2 DEF StoreTypeOK, SingleUnfinishedCycle, Unfinished
<1>8. QED
  BY <1>1, <1>3, <1>5, <1>6, <1>7 DEF StoreInv, StoreTypeOK, Attempted, Action

(***************************************************************************)
(* What a process may rely on.                                             *)
(***************************************************************************)

ProcTypeOK ==
    /\ lock \subseteq Proc
    /\ pc \in [Proc -> Label]
    /\ ref \in [Proc -> Cycle \cup {NoCycle}]
    /\ snap \in [Proc -> Snapshot]
    /\ startedAt \in [Proc -> Nat \cup {NoTime}]

HistTypeOK ==
    /\ sent \in [Cycle -> [Action -> Nat]]

EnvTypeOK ==
    /\ now \in Nat
    /\ risk \in RiskState
    /\ lastBeat \in Nat \cup {NoTime}

\* TypeOK by the parts that steps touch separately.
LEMMA TypeParts ==
    /\ TypeOK <=> StoreTypeOK /\ BrokerTypeOK /\ ProcTypeOK /\ HistTypeOK /\ EnvTypeOK
    /\ TypeOK' <=> /\ StoreTypeOK' /\ BrokerTypeOK' /\ ProcTypeOK'
                   /\ HistTypeOK' /\ EnvTypeOK'
  BY DEF TypeOK, ProcTypeOK, HistTypeOK, EnvTypeOK

\* The lock's holder is the only process at work.
LEMMA OthersIdle ==
    ASSUME LockInv, NEW p \in Proc, pc[p] # "idle", NEW q \in Proc, q # p
    PROVE  pc[q] = "idle"
  BY DEF LockInv

\* A process that leaves with the store in order leaves everything in order.
LEMMA LeaveKeepsInv ==
    ASSUME IInv, NEW p \in Proc, pc[p] # "idle", Leave(p),
           StoreTypeOK', StoreInv', BrokerTypeOK', HistTypeOK', EnvTypeOK'
    PROVE  IInv'
<1>1. /\ lock' = lock \ {p}
      /\ pc' = [pc EXCEPT ![p] = "idle"]
      /\ ref' = [ref EXCEPT ![p] = NoCycle]
      /\ snap' = [snap EXCEPT ![p] = UnknownSnapshot]
      /\ startedAt' = [startedAt EXCEPT ![p] = NoTime]
  BY DEF Leave
<1>2. ProcTypeOK /\ LockInv
  BY TypeParts DEF IInv
<1>3. UnknownSnapshot \in Snapshot
  BY LotAssumption DEF UnknownSnapshot, Snapshot, ProtectionStatus, NoSide
<1>4. ProcTypeOK'
  BY <1>1, <1>2, <1>3 DEF ProcTypeOK, Label
<1>5. \A q \in Proc : pc'[q] = "idle"
  BY <1>1, <1>2, OthersIdle DEF ProcTypeOK
<1>6. LockInv'
  BY <1>1, <1>2, <1>5 DEF LockInv, ProcTypeOK
<1>7. \A q \in Proc : ProcOK(q)'
  BY <1>5 DEF ProcOK, AtWork
<1>8. QED
  BY <1>4, <1>6, <1>7, TypeParts DEF IInv

\* A process that moves on within its command line keeps the invariant if it
\* and the store are in order where it arrives.
LEMMA MoveKeepsInv ==
    ASSUME IInv, NEW p \in Proc, pc[p] # "idle", NEW l \in Label, l # "idle",
           pc' = [pc EXCEPT ![p] = l], lock' = lock, ProcTypeOK', ProcOK(p)',
           StoreTypeOK', StoreInv', BrokerTypeOK', HistTypeOK', EnvTypeOK'
    PROVE  IInv'
<1>1. ProcTypeOK /\ LockInv
  BY TypeParts DEF IInv
<1>2. \A q \in Proc : q # p => pc'[q] = "idle"
  BY <1>1, OthersIdle DEF ProcTypeOK
<1>3. LockInv'
  BY <1>1 DEF LockInv, ProcTypeOK
<1>4. \A q \in Proc : q # p => ProcOK(q)'
  BY <1>2 DEF ProcOK, AtWork
<1>5. QED
  BY <1>3, <1>4, TypeParts DEF IInv

\* What a broker may show is a snapshot.
LEMMA ViewsAreSnapshots ==
    ASSUME BrokerTypeOK
    PROVE  Views \subseteq Snapshot
<1>1. UnknownSnapshot \in Snapshot
  BY LotAssumption DEF UnknownSnapshot, Snapshot, ProtectionStatus, NoSide
<1>2. ScriptedSnapshot \subseteq Snapshot
  <2>1. {TRUE} \subseteq BOOLEAN /\ 0..OcoMax \subseteq Nat
    BY LotAssumption
  <2>2. QED
    BY <2>1, Zenon DEF ScriptedSnapshot, Snapshot
<1>3. StatusOf(pos, oco) \in ProtectionStatus
  BY DEF StatusOf, ProtectionStatus
<1>4. Truth \in Snapshot
  BY <1>3 DEF Truth, Snapshot, BrokerTypeOK, NoSide
<1>5. QED
  BY <1>1, <1>2, <1>4, ReadModeAssumption, Zenon DEF Views

\* The calendar and the entry counter keep the risk state's type.
LEMMA RecordEntryTyped ==
    ASSUME risk \in RiskState, NEW d \in Nat
    PROVE  RecordEntry(risk, d) \in RiskState
<1>1. RollDay(risk, d) \in RiskState
  BY DEF RollDay, RiskState, StopState
<1>2. Month(d) \in Nat
  BY RiskPolicyAssumption DEF Month
<1>3. RollCalendar(risk, d) \in RiskState
  BY <1>1, <1>2 DEF RollCalendar, RollMonth, RiskState
<1>4. QED
  BY <1>3 DEF RecordEntry, RiskState

\* The JST day of a time.
LEMMA DayTyped ==
    ASSUME NEW t \in Nat
    PROVE  Day(t) \in Nat
  BY RuntimeAssumption DEF Day

\* In an intent state other than ENTRY_RECONCILING the action is still unused.
LEMMA IntentIsFresh ==
    ASSUME NEW s \in IntentStates \ {"ENTRY_RECONCILING"}
    PROVE  s \notin AfterAttempt(NextAction(s))
  BY Zenon DEF IntentStates, NextAction, AfterAttempt, CycleState, Flat, Halted, Cleared

(***************************************************************************)
(* The ways a decision of the engine ends.                                 *)
(***************************************************************************)

Rest == <<brokerVars, histVars, now, risk, lastBeat>>

\* Steps that leave the broker, the history, the clock and the files alone
\* keep their types.
LEMMA RestTyped ==
    ASSUME TypeOK, UNCHANGED Rest
    PROVE  BrokerTypeOK' /\ HistTypeOK' /\ EnvTypeOK' /\ UNCHANGED sent
  BY TypeParts DEF Rest, brokerVars, histVars, BrokerTypeOK, HistTypeOK, EnvTypeOK

\* Latching the cycle for review.
LEMMA HaltKeepsInv ==
    ASSUME IInv, NEW p \in Proc, pc[p] \in AtWork, Halt(p), UNCHANGED Rest
    PROVE  IInv'
<1>1. ref[p] \in Cycle /\ pc[p] # "idle"
  BY DEF IInv, ProcOK, AtWork
<1>2. Transition(ref[p], Halted) /\ Leave(p)
  BY DEF Halt
<1>3. /\ StoreTypeOK /\ StoreInv
      /\ BrokerTypeOK' /\ HistTypeOK' /\ EnvTypeOK' /\ UNCHANGED sent
  BY TypeParts, RestTyped DEF IInv
<1>4. StoreTypeOK' /\ StoreInv'
  BY <1>1, <1>2, <1>3, TransitionKeepsStore DEF Halted
<1>5. QED
  BY <1>1, <1>2, <1>3, <1>4, LeaveKeepsInv

\* Closing the cycle over a flat book.
LEMMA FinishKeepsInv ==
    ASSUME IInv, NEW p \in Proc, pc[p] \in AtWork, NEW f \in 0..Lot, NEW g \in 0..OcoMax,
           FinishFlat(p, f, g), UNCHANGED Rest
    PROVE  IInv'
<1>1. ref[p] \in Cycle /\ pc[p] # "idle"
  BY DEF IInv, ProcOK, AtWork
<1>2. TransitionSized(ref[p], Flat, f, g, NoTime) /\ Leave(p)
  BY DEF FinishFlat
<1>3. /\ StoreTypeOK /\ StoreInv
      /\ BrokerTypeOK' /\ HistTypeOK' /\ EnvTypeOK' /\ UNCHANGED sent
  BY TypeParts, RestTyped DEF IInv
<1>4. StoreTypeOK' /\ StoreInv'
  BY <1>1, <1>2, <1>3, TransitionSizedKeepsStore DEF Flat
<1>5. QED
  BY <1>1, <1>2, <1>3, <1>4, LeaveKeepsInv

\* Arriving at an attempt, with the cycle in an intent state other than
\* ENTRY_RECONCILING.
LEMMA IntentKeepsInv ==
    ASSUME IInv, NEW p \in Proc, pc[p] \in AtWork,
           pc' = [pc EXCEPT ![p] = "attempt"],
           snap' \in [Proc -> Snapshot], UNCHANGED <<lock, ref, startedAt>>,
           StoreTypeOK', StoreInv', UNCHANGED globalHalt, UNCHANGED Rest,
           state'[ref[p]] \in IntentStates \ {"ENTRY_RECONCILING"}
    PROVE  IInv'
<1>1. ref[p] \in Cycle /\ pc[p] # "idle" /\ ~globalHalt /\ startedAt[p] \in Nat
  BY DEF IInv, ProcOK, AtWork
<1>2. ProcTypeOK /\ BrokerTypeOK' /\ HistTypeOK' /\ EnvTypeOK'
  BY TypeParts, RestTyped DEF IInv
<1>3. ProcTypeOK' /\ pc'[p] = "attempt" /\ ref'[p] = ref[p]
  BY <1>2 DEF ProcTypeOK, Label
<1>4. NextAction(state'[ref[p]]) \in Action
  BY AttemptFacts
<1>5. ~Attempted(ref[p], NextAction(state[ref[p]]))'
  BY <1>1, <1>3, <1>4, IntentIsFresh DEF StoreInv, HistoryOK
<1>6. ProcOK(p)'
  BY <1>1, <1>3, <1>5 DEF ProcOK, AtWork, IntentStates
<1>7. QED
  BY <1>1, <1>2, <1>3, <1>6, MoveKeepsInv DEF Label

\* Persisting the intent of an emergency exit.
LEMMA ExitIntentKeepsInv ==
    ASSUME IInv, NEW p \in Proc, pc[p] \in AtWork, StartEmergencyExit(p), UNCHANGED Rest
    PROVE  IInv'
<1>1. ref[p] \in Cycle
  BY DEF IInv, ProcOK
<1>2. /\ Transition(ref[p], "EMERGENCY_EXIT_INTENT_PERSISTED")
      /\ pc' = [pc EXCEPT ![p] = "attempt"]
      /\ snap' = [snap EXCEPT ![p] = UnknownSnapshot]
      /\ UNCHANGED <<lock, ref, startedAt>>
  BY DEF StartEmergencyExit, Unread
<1>3. StoreTypeOK /\ StoreInv /\ ProcTypeOK /\ UNCHANGED sent
  BY TypeParts, RestTyped DEF IInv
<1>4. StoreTypeOK' /\ StoreInv'
  BY <1>1, <1>2, <1>3, TransitionKeepsStore
<1>5. snap' \in [Proc -> Snapshot]
  BY <1>2, <1>3, LotAssumption DEF ProcTypeOK, UnknownSnapshot, Snapshot, ProtectionStatus, NoSide
<1>6. /\ UNCHANGED globalHalt
      /\ state'[ref[p]] \in IntentStates \ {"ENTRY_RECONCILING"}
  BY <1>1, <1>2, <1>3 DEF Transition, StoreTypeOK, IntentStates
<1>7. QED
  BY <1>2, <1>4, <1>5, <1>6, IntentKeepsInv

\* Persisting the intent to cancel a protection order.
LEMMA CancelIntentKeepsInv ==
    ASSUME IInv, NEW p \in Proc, pc[p] \in AtWork, NEW s \in Snapshot,
           StartProtectionCancel(p, s), UNCHANGED Rest
    PROVE  IInv'
<1>1. ref[p] \in Cycle
  BY DEF IInv, ProcOK
<1>2. /\ TransitionSized(ref[p], "PROTECTION_CANCEL_INTENT_PERSISTED",
                         filledSize[ref[p]], s.protection, NoTime)
      /\ pc' = [pc EXCEPT ![p] = "attempt"]
      /\ snap' = [snap EXCEPT ![p] = UnknownSnapshot]
      /\ UNCHANGED <<lock, ref, startedAt>>
  BY DEF StartProtectionCancel, Unread
<1>3. StoreTypeOK /\ StoreInv /\ ProcTypeOK /\ UNCHANGED sent
  BY TypeParts, RestTyped DEF IInv
<1>4. filledSize[ref[p]] \in 0..Lot /\ s.protection \in 0..OcoMax
  BY <1>1, <1>3 DEF StoreTypeOK, Snapshot
<1>5. StoreTypeOK' /\ StoreInv'
  BY <1>1, <1>2, <1>3, <1>4, TransitionSizedKeepsStore
<1>6. snap' \in [Proc -> Snapshot]
  BY <1>2, <1>3, LotAssumption DEF ProcTypeOK, UnknownSnapshot, Snapshot, ProtectionStatus, NoSide
<1>7. /\ UNCHANGED globalHalt
      /\ state'[ref[p]] \in IntentStates \ {"ENTRY_RECONCILING"}
  BY <1>1, <1>2, <1>3 DEF TransitionSized, StoreTypeOK, IntentStates
<1>8. QED
  BY <1>2, <1>5, <1>6, <1>7, IntentKeepsInv

(***************************************************************************)
(* The steps of the engine.                                                *)
(***************************************************************************)

\* Every plan has a natural size.
LEMMA PlanSizeTyped ==
    ASSUME StoreTypeOK, ProcTypeOK, NEW p \in Proc, ref[p] \in Cycle, NEW a \in Action
    PROVE  PlanSize(p, a) \in Nat
<1>1. snap[p].pending \in Nat
  BY DEF ProcTypeOK, Snapshot
<1>2. protectedSize[ref[p]] \in Nat /\ filledSize[ref[p]] \in Nat /\ Lot \in Nat
  BY LotAssumption DEF StoreTypeOK
<1>3. QED
  BY <1>1, <1>2, Zenon DEF PlanSize, Action

\* A state that records an attempt names its action.
LEMMA AttemptedFacts ==
    ASSUME NEW s \in AttemptedStates
    PROVE  /\ AttemptedAction(s) \in Action
           /\ s \in ActiveStates
           /\ AttemptedAction(s) = "POSITION_SPECIFIC_EMERGENCY_EXIT"
                <=> s = "EMERGENCY_EXIT_ATTEMPTED"
           /\ s # "EMERGENCY_EXIT_ATTEMPTED" =>
                /\ ReconcilingState(s) \in ReadableStates \ {"ENTRY_INTENT_PERSISTED"}
                /\ ReconcilingState(s) # "ENTRY_FILLED_UNPROTECTED"
  BY DEF AttemptedStates, AttemptedAction, Action, ActiveStates, CycleState, ReconcilingState,
     ReadableStates, Flat, Halted, Cleared

\* AttemptAction: the attempt is recorded for the first time, or the cycle is
\* latched.
LEMMA AttemptActionKeepsInv ==
    ASSUME IInv, NEW p \in Proc, AttemptAction(p), UNCHANGED <<risk, lastBeat>>
    PROVE  IInv'
<1> DEFINE c == ref[p]
           a == NextAction(state[c])
<1>1. /\ pc[p] = "attempt" /\ UNCHANGED Rest
      /\ \/ Halt(p)
         \/ RecordActionAttempt(c, a, now) /\ Goto(p, "perform")
  BY DEF AttemptAction, Rest
<1>2. /\ c \in Cycle /\ ~globalHalt /\ startedAt[p] \in Nat
      /\ state[c] \in IntentStates
      /\ ~Attempted(c, a)
      /\ pc[p] \in AtWork
  BY <1>1 DEF IInv, ProcOK, AtWork
<1>3. CASE Halt(p)
  BY <1>1, <1>2, <1>3, HaltKeepsInv
<1>4. CASE RecordActionAttempt(c, a, now) /\ Goto(p, "perform")
  <2>1. /\ StoreTypeOK /\ StoreInv /\ ProcTypeOK /\ now \in Nat
        /\ BrokerTypeOK' /\ HistTypeOK' /\ EnvTypeOK' /\ UNCHANGED sent
    BY <1>1, TypeParts, RestTyped DEF IInv, EnvTypeOK
  <2>2. StoreTypeOK' /\ StoreInv'
    BY <1>2, <1>4, <2>1, AttemptKeepsStore
  <2>3. /\ a \in Action
        /\ AttemptTarget(a) \in AttemptedStates
        /\ AttemptedAction(AttemptTarget(a)) = a
    BY <1>2, AttemptFacts
  <2>4. /\ state' = [state EXCEPT ![c] = AttemptTarget(a)]
        /\ attempts' = [attempts EXCEPT ![c][a] = "ATTEMPT_STARTED"]
        /\ globalHalt' = globalHalt
        /\ pc' = [pc EXCEPT ![p] = "perform"]
        /\ UNCHANGED <<lock, ref, snap, startedAt>>
    BY <1>4 DEF RecordActionAttempt, Goto
  <2>5. ProcTypeOK' /\ pc'[p] = "perform" /\ ref'[p] = c
    BY <2>1, <2>4 DEF ProcTypeOK, Label
  <2>6. /\ state'[c] = AttemptTarget(a)
        /\ attempts'[c][a] = "ATTEMPT_STARTED"
    BY <1>2, <2>1, <2>3, <2>4 DEF StoreTypeOK
  <2>7. sent[c][a] = 0
    BY <1>2, <2>1, <2>3 DEF StoreInv, HistoryOK
  <2>8. ProcOK(p)'
    BY <1>2, <2>1, <2>3, <2>4, <2>5, <2>6, <2>7 DEF ProcOK, AtWork
  <2>9. QED
    BY <1>1, <2>1, <2>2, <2>4, <2>5, <2>8, MoveKeepsInv DEF Label
<1>5. QED
  BY <1>1, <1>3, <1>4

\* Sending: the action was recorded and never sent before.
LEMMA SendKeepsInv ==
    ASSUME IInv, NEW p \in Proc, pc[p] = "perform", SendAction(p),
           UNCHANGED <<now, risk, lastBeat>>
    PROVE  IInv'
<1> DEFINE c == ref[p]
           a == AttemptedAction(state[c])
<1>1. /\ c \in Cycle /\ ~globalHalt /\ startedAt[p] \in Nat
      /\ state[c] \in AttemptedStates
      /\ attempts[c][a] = "ATTEMPT_STARTED"
      /\ sent[c][a] = 0
  BY DEF IInv, ProcOK, AtWork
<1>2. a \in Action
  BY <1>1, AttemptedFacts
<1>3. StoreTypeOK /\ StoreInv /\ BrokerTypeOK /\ ProcTypeOK /\ HistTypeOK /\ EnvTypeOK
  BY TypeParts DEF IInv
<1>4. PlanSize(p, a) \in Nat
  BY <1>1, <1>2, <1>3, PlanSizeTyped
<1>5. /\ Send([cycle |-> c, action |-> a, size |-> PlanSize(p, a), side |-> Side[c]])
      /\ sent' = [sent EXCEPT ![c][a] = @ + 1]
      /\ pc' = [pc EXCEPT ![p] = "outcome"]
      /\ snap' = [snap EXCEPT ![p] = UnknownSnapshot]
      /\ UNCHANGED <<lock, ref, startedAt>>
      /\ UNCHANGED storeVars
  BY DEF SendAction, Unread
<1> HIDE DEF a
<1>6. [cycle |-> c, action |-> a, size |-> PlanSize(p, a), side |-> Side[c]] \in Request
  BY <1>1, <1>2, <1>4, SideAssumption DEF Request, Sides
<1>7. BrokerTypeOK'
  BY <1>3, <1>5, <1>6 DEF Send, BrokerTypeOK
<1>8. HistTypeOK' /\ EnvTypeOK'
  BY <1>1, <1>2, <1>3, <1>5 DEF HistTypeOK, EnvTypeOK
<1>9. StoreTypeOK'
  BY <1>3, <1>5 DEF StoreTypeOK, storeVars
<1>10. \A d \in Cycle : HistoryOK(d)' /\ FillKnown(d)'
  BY <1>1, <1>2, <1>3, <1>5 DEF StoreInv, HistoryOK, FillKnown, Attempted, storeVars, HistTypeOK
<1>11. SingleUnfinishedCycle'
  BY <1>3, <1>5 DEF StoreInv, SingleUnfinishedCycle, Unfinished, storeVars
<1>12. ProcTypeOK' /\ pc'[p] = "outcome" /\ ref'[p] = c
  BY <1>3, <1>5, LotAssumption
     DEF ProcTypeOK, Label, UnknownSnapshot, Snapshot, ProtectionStatus, NoSide
<1>13. ProcOK(p)'
  BY <1>1, <1>5, <1>12 DEF ProcOK, AtWork, storeVars, a
<1>14. QED
  BY <1>5, <1>7, <1>8, <1>9, <1>10, <1>11, <1>12, <1>13, MoveKeepsInv DEF StoreInv, Label

\* PerformAction: the action is sent, or the boundary refuses it.
LEMMA PerformActionKeepsInv ==
    ASSUME IInv, NEW p \in Proc, PerformAction(p), UNCHANGED <<risk, lastBeat>>
    PROVE  IInv'
<1>1. CASE SendAction(p)
  BY <1>1, SendKeepsInv DEF PerformAction
<1>2. CASE Halt(p) /\ UNCHANGED <<brokerVars, histVars>>
  BY <1>2, HaltKeepsInv DEF PerformAction, Rest, AtWork
<1>3. QED
  BY <1>1, <1>2 DEF PerformAction

\* RecordOutcome.
LEMMA RecordOutcomeKeepsInv ==
    ASSUME IInv, NEW p \in Proc, RecordOutcome(p), UNCHANGED <<risk, lastBeat>>
    PROVE  IInv'
<1> DEFINE c == ref[p]
           a == AttemptedAction(state[c])
           l == IF a = "POSITION_SPECIFIC_EMERGENCY_EXIT" THEN "read" ELSE "settle"
<1>1. /\ pc[p] = "outcome" /\ UNCHANGED Rest
      /\ RecordActionOutcome(c, a)
      /\ Goto(p, l)
  BY DEF RecordOutcome, Rest
<1>2. /\ c \in Cycle /\ ~globalHalt /\ startedAt[p] \in Nat
      /\ state[c] \in AttemptedStates
  BY <1>1 DEF IInv, ProcOK, AtWork
<1>3. /\ a \in Action
      /\ a = "POSITION_SPECIFIC_EMERGENCY_EXIT" <=> state[c] = "EMERGENCY_EXIT_ATTEMPTED"
  BY <1>2, AttemptedFacts
<1>4. /\ StoreTypeOK /\ StoreInv /\ ProcTypeOK
      /\ BrokerTypeOK' /\ HistTypeOK' /\ EnvTypeOK' /\ UNCHANGED sent
  BY <1>1, TypeParts, RestTyped DEF IInv
<1>5. StoreTypeOK' /\ StoreInv'
  BY <1>1, <1>2, <1>3, <1>4, OutcomeKeepsStore
<1>6. /\ UNCHANGED <<state, globalHalt, lock, ref, snap, startedAt>>
      /\ pc' = [pc EXCEPT ![p] = l]
  BY <1>1 DEF RecordActionOutcome, Goto
<1>7. ProcTypeOK' /\ pc'[p] = l /\ ref'[p] = c
  BY <1>4, <1>6 DEF ProcTypeOK, Label
<1>8. ProcOK(p)'
  BY <1>2, <1>3, <1>6, <1>7 DEF ProcOK, AtWork, ReadableStates
<1>9. QED
  BY <1>1, <1>4, <1>5, <1>6, <1>7, <1>8, MoveKeepsInv DEF Label

\* EnterReconciling.
LEMMA EnterReconcilingKeepsInv ==
    ASSUME IInv, NEW p \in Proc, EnterReconciling(p), UNCHANGED <<risk, lastBeat>>
    PROVE  IInv'
<1> DEFINE c == ref[p]
           t == ReconcilingState(state[c])
<1>1. /\ pc[p] = "settle" /\ UNCHANGED Rest
      /\ Transition(c, t)
      /\ Goto(p, "read")
  BY DEF EnterReconciling, Rest
<1>2. /\ c \in Cycle /\ ~globalHalt /\ startedAt[p] \in Nat
      /\ state[c] \in AttemptedStates \ {"EMERGENCY_EXIT_ATTEMPTED"}
  BY <1>1 DEF IInv, ProcOK, AtWork
<1>3. t \in ReadableStates /\ t # "ENTRY_FILLED_UNPROTECTED"
  BY <1>2, AttemptedFacts
<1>4. /\ StoreTypeOK /\ StoreInv /\ ProcTypeOK
      /\ BrokerTypeOK' /\ HistTypeOK' /\ EnvTypeOK' /\ UNCHANGED sent
  BY <1>1, TypeParts, RestTyped DEF IInv
<1>5. StoreTypeOK' /\ StoreInv'
  BY <1>1, <1>2, <1>3, <1>4, TransitionKeepsStore
<1>6. /\ state' = [state EXCEPT ![c] = t]
      /\ UNCHANGED <<globalHalt, lock, ref, snap, startedAt>>
      /\ pc' = [pc EXCEPT ![p] = "read"]
  BY <1>1 DEF Transition, Goto
<1>7. ProcTypeOK' /\ pc'[p] = "read" /\ ref'[p] = c /\ state'[c] = t
  BY <1>2, <1>4, <1>6 DEF ProcTypeOK, Label, StoreTypeOK
<1>8. ProcOK(p)'
  BY <1>2, <1>3, <1>6, <1>7 DEF ProcOK, AtWork
<1>9. QED
  BY <1>1, <1>4, <1>5, <1>6, <1>7, <1>8, MoveKeepsInv DEF Label

\* ReadSnapshot.
LEMMA ReadSnapshotKeepsInv ==
    ASSUME IInv, NEW p \in Proc, ReadSnapshot(p), UNCHANGED <<risk, lastBeat>>
    PROVE  IInv'
<1>1. PICK s \in Views : snap' = [snap EXCEPT ![p] = s]
  BY DEF ReadSnapshot
<1>2. /\ pc[p] = "read" /\ UNCHANGED Rest
      /\ pc' = [pc EXCEPT ![p] = "decide"]
      /\ UNCHANGED <<lock, ref, startedAt>>
      /\ UNCHANGED storeVars
  BY DEF ReadSnapshot, Rest
<1>3. /\ StoreTypeOK /\ StoreInv /\ ProcTypeOK /\ BrokerTypeOK
      /\ BrokerTypeOK' /\ HistTypeOK' /\ EnvTypeOK' /\ UNCHANGED sent
  BY <1>2, TypeParts, RestTyped DEF IInv
<1>4. s \in Snapshot
  BY <1>3, ViewsAreSnapshots
<1>5. StoreTypeOK' /\ StoreInv'
  BY <1>2, <1>3 DEF storeVars, StoreTypeOK, StoreInv, HistoryOK, FillKnown, Attempted,
     SingleUnfinishedCycle, Unfinished
<1>6. ProcTypeOK' /\ pc'[p] = "decide"
  BY <1>1, <1>2, <1>3, <1>4 DEF ProcTypeOK, Label
<1>7. ProcOK(p)'
  BY <1>2, <1>6 DEF IInv, ProcOK, AtWork, storeVars
<1>8. QED
  BY <1>2, <1>3, <1>5, <1>6, <1>7, MoveKeepsInv DEF Label

\* A decision that leaves the store alone moves on or ends without harm.
LEMMA StoreUntouched ==
    ASSUME StoreTypeOK, StoreInv, UNCHANGED storeVars, UNCHANGED sent
    PROVE  StoreTypeOK' /\ StoreInv'
  BY DEF storeVars, StoreTypeOK, StoreInv, HistoryOK, FillKnown, Attempted,
     SingleUnfinishedCycle, Unfinished

\* Leaving with nothing written.
LEMMA LeaveOnlyKeepsInv ==
    ASSUME IInv, NEW p \in Proc, pc[p] # "idle", Leave(p), UNCHANGED storeVars, UNCHANGED Rest
    PROVE  IInv'
  BY LeaveKeepsInv, StoreUntouched, TypeParts, RestTyped DEF IInv

\* Reconciling the entry: a remainder is only cancelled once, and a fill is
\* only recorded when it is positive and within the lot.
LEMMA ReconcileEntryKeepsInv ==
    ASSUME IInv, NEW p \in Proc, pc[p] = "decide", NEW c, c = ref[p], NEW s, s = snap[p],
           state[c] = "ENTRY_RECONCILING", ReconcileEntry(p, c, s), UNCHANGED Rest
    PROVE  IInv'
<1>1. /\ c \in Cycle /\ ~globalHalt /\ startedAt[p] \in Nat /\ pc[p] \in AtWork
      /\ pc[p] # "idle"
  BY DEF IInv, ProcOK, AtWork
<1>2. /\ StoreTypeOK /\ StoreInv /\ ProcTypeOK /\ now \in Nat
      /\ BrokerTypeOK' /\ HistTypeOK' /\ EnvTypeOK' /\ UNCHANGED sent
  BY TypeParts, RestTyped DEF IInv, EnvTypeOK
<1>3. s \in Snapshot
  BY <1>2 DEF ProcTypeOK
<1>4. CASE Halt(p)
  BY <1>1, <1>4, HaltKeepsInv
<1>5. CASE /\ s.pending > 0 /\ ~RemainderCancelSpent(c)
           /\ Goto(p, "attempt")
           /\ UNCHANGED storeVars
  <2>1. StoreTypeOK' /\ StoreInv'
    BY <1>2, <1>5, StoreUntouched
  <2>2. /\ pc' = [pc EXCEPT ![p] = "attempt"]
        /\ UNCHANGED <<lock, ref, snap, startedAt>>
    BY <1>5 DEF Goto
  <2>3. ProcTypeOK' /\ pc'[p] = "attempt"
    BY <1>2, <2>2 DEF ProcTypeOK, Label
  <2>4. NextAction(state[c]) = "CANCEL_ENTRY_REMAINDER"
    BY DEF NextAction
  <2>5. ProcOK(p)'
    BY <1>1, <1>5, <2>2, <2>3, <2>4
       DEF ProcOK, AtWork, IntentStates, RemainderCancelSpent, Attempted, storeVars
  <2>6. QED
    BY <1>1, <1>2, <2>1, <2>2, <2>3, <2>5, MoveKeepsInv DEF Label
<1>6. CASE FinishFlat(p, filledSize[c], protectedSize[c])
  <2>1. filledSize[c] \in 0..Lot /\ protectedSize[c] \in 0..OcoMax
    BY <1>1, <1>2 DEF StoreTypeOK
  <2>2. QED
    BY <1>1, <1>6, <2>1, FinishKeepsInv
<1>7. CASE /\ ~EntrySnapshotInvalid(s, Side[c]) /\ s.pending = 0 /\ s.count = 1
           /\ TransitionSized(c, "ENTRY_FILLED_UNPROTECTED", s.filled, s.protection, now)
           /\ Unread(p, "ensure")
  <2>1. /\ s.filled \in 0..Lot /\ s.filled > 0 /\ s.protection \in 0..OcoMax
    BY <1>3, <1>7, LotAssumption DEF EntrySnapshotInvalid, Snapshot
  <2>2. StoreTypeOK' /\ StoreInv'
    BY <1>1, <1>2, <1>7, <2>1, TransitionSizedKeepsStore
  <2>3. /\ pc' = [pc EXCEPT ![p] = "ensure"]
        /\ snap' = [snap EXCEPT ![p] = UnknownSnapshot]
        /\ UNCHANGED <<lock, ref, startedAt, globalHalt>>
        /\ state' = [state EXCEPT ![c] = "ENTRY_FILLED_UNPROTECTED"]
    BY <1>7 DEF Unread, TransitionSized
  <2>4. /\ ProcTypeOK' /\ pc'[p] = "ensure"
        /\ state'[c] = "ENTRY_FILLED_UNPROTECTED"
    BY <1>1, <1>2, <2>3, LotAssumption DEF ProcTypeOK, Label, StoreTypeOK, UnknownSnapshot,
       Snapshot, ProtectionStatus, NoSide
  <2>5. ProcOK(p)'
    BY <1>1, <2>3, <2>4 DEF ProcOK, AtWork
  <2>6. QED
    BY <1>1, <1>2, <2>2, <2>3, <2>4, <2>5, MoveKeepsInv DEF Label
<1>8. QED
  BY <1>4, <1>5, <1>6, <1>7 DEF ReconcileEntry

\* Reconciling the protection order: exact protection is recorded with the
\* size of the fill, anything else is cancelled, exited, closed or latched.
LEMMA ReconcileProtectionKeepsInv ==
    ASSUME IInv, NEW p \in Proc, pc[p] = "decide", NEW c, c = ref[p], NEW s, s = snap[p],
           ReconcileProtection(p, c, s), UNCHANGED Rest
    PROVE  IInv'
<1>1. c \in Cycle /\ pc[p] \in AtWork /\ pc[p] # "idle"
  BY DEF IInv, ProcOK, AtWork
<1>2. /\ StoreTypeOK /\ StoreInv /\ ProcTypeOK
      /\ BrokerTypeOK' /\ HistTypeOK' /\ EnvTypeOK' /\ UNCHANGED sent
  BY TypeParts, RestTyped DEF IInv
<1>3. s \in Snapshot /\ 0 \in 0..Lot /\ 0 \in 0..OcoMax
  BY <1>2, LotAssumption DEF ProcTypeOK
<1>4. CASE Halt(p)
  BY <1>1, <1>4, HaltKeepsInv
<1>5. CASE FinishFlat(p, 0, 0)
  BY <1>1, <1>3, <1>5, FinishKeepsInv
<1>6. CASE StartProtectionCancel(p, s)
  BY <1>1, <1>3, <1>6, CancelIntentKeepsInv
<1>7. CASE StartEmergencyExit(p)
  BY <1>1, <1>7, ExitIntentKeepsInv
<1>8. CASE /\ ExactlyProtected(s, Side[c], filledSize[c])
           /\ TransitionSized(c, "POSITION_PROTECTED", s.filled, s.protection, NoTime)
           /\ Leave(p)
  <2>1. s.filled \in 0..Lot /\ s.protection \in 0..OcoMax
    BY <1>1, <1>2, <1>3, <1>8 DEF ExactlyProtected, OwnPosition, StoreTypeOK, Snapshot
  <2>2. StoreTypeOK' /\ StoreInv'
    BY <1>1, <1>2, <1>8, <2>1, TransitionSizedKeepsStore
  <2>3. QED
    BY <1>1, <1>2, <1>8, <2>2, LeaveKeepsInv
<1>9. QED
  BY <1>4, <1>5, <1>6, <1>7, <1>8 DEF ReconcileProtection

\* A protected position looked at again after a restart.
LEMMA ReconcileProtectedKeepsInv ==
    ASSUME IInv, NEW p \in Proc, pc[p] = "decide", NEW c, c = ref[p], NEW s, s = snap[p],
           ReconcileProtectedPosition(p, c, s), UNCHANGED Rest
    PROVE  IInv'
<1>1. pc[p] \in AtWork /\ pc[p] # "idle"
  BY DEF AtWork
<1>2. s \in Snapshot /\ 0 \in 0..Lot /\ 0 \in 0..OcoMax
  BY TypeParts, LotAssumption DEF IInv, ProcTypeOK
<1>3. CASE Halt(p)
  BY <1>1, <1>3, HaltKeepsInv
<1>4. CASE FinishFlat(p, 0, 0)
  BY <1>1, <1>2, <1>4, FinishKeepsInv
<1>5. CASE Leave(p) /\ UNCHANGED storeVars
  BY <1>1, <1>5, LeaveOnlyKeepsInv
<1>6. CASE StartProtectionCancel(p, s)
  BY <1>1, <1>2, <1>6, CancelIntentKeepsInv
<1>7. CASE StartEmergencyExit(p)
  BY <1>1, <1>7, ExitIntentKeepsInv
<1>8. QED
  BY <1>3, <1>4, <1>5, <1>6, <1>7 DEF ReconcileProtectedPosition

\* The market entry of a restarted cycle.
LEMMA RestartEntryKeepsInv ==
    ASSUME IInv, NEW p \in Proc, pc[p] = "decide", NEW c, c = ref[p], NEW s,
           state[c] = "ENTRY_INTENT_PERSISTED", RestartEntryPreflight(p, c, s), UNCHANGED Rest
    PROVE  IInv'
<1>1. pc[p] \in AtWork
  BY DEF AtWork
<1>2. CASE Halt(p)
  BY <1>1, <1>2, HaltKeepsInv
<1>3. CASE Unread(p, "attempt") /\ UNCHANGED storeVars
  <2>1. StoreTypeOK /\ StoreInv /\ ProcTypeOK /\ UNCHANGED sent
    BY TypeParts, RestTyped DEF IInv
  <2>2. StoreTypeOK' /\ StoreInv'
    BY <1>3, <2>1, StoreUntouched
  <2>3. snap' \in [Proc -> Snapshot]
    BY <1>3, <2>1, LotAssumption DEF Unread, ProcTypeOK, UnknownSnapshot, Snapshot,
       ProtectionStatus, NoSide
  <2>4. /\ pc' = [pc EXCEPT ![p] = "attempt"]
        /\ UNCHANGED <<lock, ref, startedAt>>
        /\ UNCHANGED globalHalt
        /\ state'[ref[p]] \in IntentStates \ {"ENTRY_RECONCILING"}
    BY <1>3 DEF Unread, storeVars, IntentStates
  <2>5. QED
    BY <1>1, <2>2, <2>3, <2>4, IntentKeepsInv
<1>4. QED
  BY <1>2, <1>3 DEF RestartEntryPreflight

\* Reconcile: one case per state that is reconciled.
LEMMA ReconcileKeepsInv ==
    ASSUME IInv, NEW p \in Proc, Reconcile(p), UNCHANGED <<risk, lastBeat>>
    PROVE  IInv'
<1> DEFINE c == ref[p]
           s == snap[p]
<1>1. pc[p] = "decide" /\ pc[p] \in AtWork /\ UNCHANGED Rest
  BY DEF Reconcile, AtWork, Rest
<1>2. 0 \in 0..Lot /\ 0 \in 0..OcoMax
  BY LotAssumption
<1>3. CASE state[c] = "ENTRY_INTENT_PERSISTED" /\ RestartEntryPreflight(p, c, s)
  BY <1>1, <1>3, RestartEntryKeepsInv
<1>4. CASE state[c] = "ENTRY_RECONCILING" /\ ReconcileEntry(p, c, s)
  BY <1>1, <1>4, ReconcileEntryKeepsInv
<1>5. CASE ReconcileProtection(p, c, s)
  BY <1>1, <1>5, ReconcileProtectionKeepsInv
<1>6. CASE ReconcileCancelledProtection(p, c, s)
  BY <1>1, <1>2, <1>6, FinishKeepsInv, ExitIntentKeepsInv, HaltKeepsInv
     DEF ReconcileCancelledProtection
<1>7. CASE ReconcileEmergencyExit(p, c, s)
  BY <1>1, <1>2, <1>7, FinishKeepsInv, HaltKeepsInv DEF ReconcileEmergencyExit
<1>8. CASE ReconcileProtectedPosition(p, c, s)
  BY <1>1, <1>8, ReconcileProtectedKeepsInv
<1>9. QED
  BY <1>3, <1>4, <1>5, <1>6, <1>7, <1>8 DEF Reconcile

\* EnsureProtection.
LEMMA EnsureProtectionKeepsInv ==
    ASSUME IInv, NEW p \in Proc, EnsureProtection(p), UNCHANGED <<risk, lastBeat>>
    PROVE  IInv'
<1> DEFINE c == ref[p]
<1>1. pc[p] = "ensure" /\ pc[p] \in AtWork /\ UNCHANGED Rest
  BY DEF EnsureProtection, AtWork, Rest
<1>2. CASE Halt(p)
  BY <1>1, <1>2, HaltKeepsInv
<1>3. CASE StartEmergencyExit(p)
  BY <1>1, <1>3, ExitIntentKeepsInv
<1>4. CASE Transition(c, "PROTECTION_INTENT_PERSISTED") /\ Goto(p, "attempt")
  <2>1. StoreTypeOK /\ StoreInv /\ ProcTypeOK /\ UNCHANGED sent /\ c \in Cycle
    BY <1>1, TypeParts, RestTyped DEF IInv, ProcOK
  <2>2. StoreTypeOK' /\ StoreInv'
    BY <1>4, <2>1, TransitionKeepsStore
  <2>3. /\ pc' = [pc EXCEPT ![p] = "attempt"]
        /\ UNCHANGED <<lock, ref, startedAt>>
        /\ snap' \in [Proc -> Snapshot]
    BY <1>4, <2>1 DEF Goto, ProcTypeOK
  <2>4. /\ UNCHANGED globalHalt
        /\ state'[ref[p]] \in IntentStates \ {"ENTRY_RECONCILING"}
    BY <1>4, <2>1 DEF Transition, StoreTypeOK, IntentStates
  <2>5. QED
    BY <1>1, <2>2, <2>3, <2>4, IntentKeepsInv
<1>5. QED
  BY <1>2, <1>3, <1>4 DEF EnsureProtection

(***************************************************************************)
(* The steps of the command lines.                                         *)
(***************************************************************************)

\* Latching the global halt touches no cycle.
LEMMA GlobalHaltKeepsStore ==
    ASSUME StoreTypeOK, StoreInv, EngageGlobalHalt, UNCHANGED sent
    PROVE  StoreTypeOK' /\ StoreInv'
  BY DEF EngageGlobalHalt, StoreTypeOK, StoreInv, HistoryOK, FillKnown, Attempted,
     SingleUnfinishedCycle, Unfinished

\* A command line moves on to a point that is not yet at work on a cycle.
LEMMA GotoKeepsInv ==
    ASSUME IInv, NEW p \in Proc, pc[p] # "idle",
           NEW l \in {"boot", "risk", "clear", "clearGlobal"}, Goto(p, l),
           StoreTypeOK', StoreInv', BrokerTypeOK', HistTypeOK', EnvTypeOK'
    PROVE  IInv'
<1>1. /\ pc' = [pc EXCEPT ![p] = l]
      /\ UNCHANGED <<lock, ref, snap, startedAt>>
  BY DEF Goto
<1>2. ProcTypeOK /\ startedAt[p] \in Nat
  BY TypeParts DEF IInv, ProcOK
<1>3. ProcTypeOK' /\ pc'[p] = l
  BY <1>1, <1>2 DEF ProcTypeOK, Label
<1>4. ProcOK(p)'
  BY <1>1, <1>2, <1>3 DEF ProcOK, AtWork
<1>5. QED
  BY <1>1, <1>3, <1>4, MoveKeepsInv DEF Label

\* Start: the lock was free, so every process was idle.
LEMMA StartKeepsInv ==
    ASSUME IInv, NEW p \in Proc, NEW command \in {"run", "resume", "reload"},
           Start(p, command)
    PROVE  IInv'
<1>1. /\ pc[p] = "idle" /\ lock = {}
      /\ lock' = lock \cup {p}
      /\ pc' = [pc EXCEPT ![p] = command]
      /\ startedAt' = [startedAt EXCEPT ![p] = now]
      /\ UNCHANGED <<ref, snap>> /\ UNCHANGED storeVars /\ UNCHANGED Rest
  BY DEF Start, LockFree, Rest
<1>2. /\ StoreTypeOK /\ StoreInv /\ ProcTypeOK /\ LockInv /\ now \in Nat
      /\ BrokerTypeOK' /\ HistTypeOK' /\ EnvTypeOK' /\ UNCHANGED sent
  BY <1>1, TypeParts, RestTyped DEF IInv, EnvTypeOK
<1>3. StoreTypeOK' /\ StoreInv'
  BY <1>1, <1>2, StoreUntouched
<1>4. ProcTypeOK' /\ pc'[p] = command /\ startedAt'[p] = now
  BY <1>1, <1>2 DEF ProcTypeOK, Label
<1>5. \A q \in Proc : q # p => pc'[q] = "idle"
  BY <1>1, <1>2 DEF LockInv, ProcTypeOK
<1>6. LockInv'
  BY <1>1, <1>2, <1>4, <1>5 DEF LockInv
<1>7. \A q \in Proc : ProcOK(q)'
  BY <1>2, <1>4, <1>5 DEF ProcOK, AtWork
<1>8. QED
  BY <1>2, <1>3, <1>4, <1>6, <1>7, TypeParts DEF IInv

\* A notification that fails.
LEMMA NotificationKeepsInv ==
    ASSUME IInv, NEW p \in Proc, pc[p] # "idle", NotificationFails(p),
           UNCHANGED <<brokerVars, histVars, now, risk>>
    PROVE  IInv'
<1>1. lastBeat' = startedAt[p] /\ EngageGlobalHalt /\ Leave(p)
  BY DEF NotificationFails, Beat
<1>2. /\ StoreTypeOK /\ StoreInv /\ BrokerTypeOK /\ HistTypeOK /\ EnvTypeOK /\ ProcTypeOK
  BY TypeParts DEF IInv
<1>3. BrokerTypeOK' /\ HistTypeOK' /\ EnvTypeOK' /\ UNCHANGED sent
  BY <1>1, <1>2 DEF brokerVars, histVars, BrokerTypeOK, HistTypeOK, EnvTypeOK, ProcTypeOK
<1>4. QED
  BY <1>1, <1>2, <1>3, GlobalHaltKeepsStore, LeaveKeepsInv

\* RunGate.
LEMMA RunGateKeepsInv ==
    ASSUME IInv, NEW p \in Proc, RunGate(p)
    PROVE  IInv'
<1>1. pc[p] = "run" /\ pc[p] # "idle" /\ UNCHANGED <<brokerVars, histVars, now, risk>>
  BY DEF RunGate
<1>2. CASE Leave(p) /\ UNCHANGED <<storeVars, lastBeat>>
  BY <1>1, <1>2, LeaveOnlyKeepsInv DEF Rest
<1>3. CASE NotificationFails(p)
  BY <1>1, <1>3, NotificationKeepsInv
<1>4. CASE Beat(p) /\ Goto(p, "boot") /\ UNCHANGED storeVars
  <2>1. StoreTypeOK /\ StoreInv /\ BrokerTypeOK /\ HistTypeOK /\ EnvTypeOK /\ ProcTypeOK
    BY TypeParts DEF IInv
  <2>2. BrokerTypeOK' /\ HistTypeOK' /\ EnvTypeOK' /\ UNCHANGED sent
    BY <1>1, <1>4, <2>1
       DEF Beat, brokerVars, histVars, BrokerTypeOK, HistTypeOK, EnvTypeOK, ProcTypeOK
  <2>3. QED
    BY <1>1, <1>4, <2>1, <2>2, StoreUntouched, GotoKeepsInv
<1>5. QED
  BY <1>2, <1>3, <1>4 DEF RunGate

\* BootReconcile.
LEMMA BootReconcileKeepsInv ==
    ASSUME IInv, NEW p \in Proc, BootReconcile(p)
    PROVE  IInv'
<1>1. /\ pc[p] # "idle" /\ UNCHANGED Rest
      /\ \/ Goto(p, "risk") /\ UNCHANGED storeVars
         \/ EngageGlobalHalt /\ Leave(p)
  BY DEF BootReconcile, Rest
<1>2. /\ StoreTypeOK /\ StoreInv
      /\ BrokerTypeOK' /\ HistTypeOK' /\ EnvTypeOK' /\ UNCHANGED sent
  BY <1>1, TypeParts, RestTyped DEF IInv
<1>3. QED
  BY <1>1, <1>2, StoreUntouched, GlobalHaltKeepsStore, GotoKeepsInv, LeaveKeepsInv

\* RiskGate: the entry is counted, then the cycle named.
LEMMA RiskGateKeepsInv ==
    ASSUME IInv, NEW p \in Proc, RiskGate(p)
    PROVE  IInv'
<1>1. /\ pc[p] = "risk" /\ UNCHANGED storeVars
      /\ UNCHANGED <<brokerVars, histVars, now, lastBeat>>
  BY DEF RiskGate
<1>2. CASE Leave(p) /\ UNCHANGED risk
  BY <1>1, <1>2, LeaveOnlyKeepsInv DEF Rest
<1>3. CASE /\ risk' = RecordEntry(risk, Day(startedAt[p]))
           /\ \E c \in Cycle : ref' = [ref EXCEPT ![p] = c]
           /\ pc' = [pc EXCEPT ![p] = "create"]
           /\ UNCHANGED <<lock, snap, startedAt>>
  <2>1. /\ StoreTypeOK /\ StoreInv /\ BrokerTypeOK /\ HistTypeOK /\ EnvTypeOK /\ ProcTypeOK
        /\ startedAt[p] \in Nat
    BY <1>1, TypeParts DEF IInv, ProcOK
  <2>2. risk' \in RiskState
    BY <1>3, <2>1, DayTyped, RecordEntryTyped DEF EnvTypeOK
  <2>3. BrokerTypeOK' /\ HistTypeOK' /\ EnvTypeOK' /\ UNCHANGED sent
    BY <1>1, <2>1, <2>2 DEF brokerVars, histVars, BrokerTypeOK, HistTypeOK, EnvTypeOK
  <2>4. StoreTypeOK' /\ StoreInv'
    BY <1>1, <2>1, <2>3, StoreUntouched
  <2>5. ProcTypeOK' /\ pc'[p] = "create" /\ ref'[p] \in Cycle
    BY <1>3, <2>1 DEF ProcTypeOK, Label
  <2>6. ProcOK(p)'
    BY <1>3, <2>1, <2>5 DEF ProcOK, AtWork
  <2>7. QED
    BY <1>1, <1>3, <2>3, <2>4, <2>5, <2>6, MoveKeepsInv DEF Label
<1>4. QED
  BY <1>2, <1>3 DEF RiskGate

\* CreateCycleStep.
LEMMA CreateCycleKeepsInv ==
    ASSUME IInv, NEW p \in Proc, CreateCycleStep(p)
    PROVE  IInv'
<1> DEFINE c == ref[p]
           day == Day(startedAt[p])
<1>1. pc[p] = "create" /\ pc[p] # "idle" /\ UNCHANGED Rest
  BY DEF CreateCycleStep, Rest
<1>2. CASE Leave(p) /\ UNCHANGED storeVars
  BY <1>1, <1>2, LeaveOnlyKeepsInv
<1>3. CASE CreateCycle(c, day) /\ Goto(p, "attempt")
  <2>1. /\ StoreTypeOK /\ StoreInv /\ ProcTypeOK
        /\ BrokerTypeOK' /\ HistTypeOK' /\ EnvTypeOK' /\ UNCHANGED sent
        /\ c \in Cycle /\ startedAt[p] \in Nat
    BY <1>1, TypeParts, RestTyped DEF IInv, ProcOK
  <2>2. day \in Nat
    BY <2>1, DayTyped
  <2>3. /\ StoreTypeOK' /\ StoreInv' /\ ~globalHalt'
        /\ state'[c] = "ENTRY_INTENT_PERSISTED"
        /\ attempts'[c]["MARKET_ENTRY"] = "NONE"
    BY <1>3, <2>1, <2>2, CreateKeepsStore
  <2>4. /\ pc' = [pc EXCEPT ![p] = "attempt"]
        /\ UNCHANGED <<lock, ref, snap, startedAt>>
    BY <1>3 DEF Goto
  <2>5. ProcTypeOK' /\ pc'[p] = "attempt" /\ ref'[p] = c
    BY <2>1, <2>4 DEF ProcTypeOK, Label
  <2>6. NextAction("ENTRY_INTENT_PERSISTED") = "MARKET_ENTRY"
    BY DEF NextAction
  <2>7. ProcOK(p)'
    BY <2>1, <2>3, <2>4, <2>5, <2>6 DEF ProcOK, AtWork, IntentStates, Attempted
  <2>8. QED
    BY <1>1, <2>1, <2>3, <2>4, <2>5, <2>7, MoveKeepsInv DEF Label
<1>4. QED
  BY <1>2, <1>3 DEF CreateCycleStep

\* Where a resume takes up an active cycle, the cycle is in order.
LEMMA ResumeFacts ==
    ASSUME NEW s \in ActiveStates
    PROVE  \/ ResumePoint(s) = "attempt" /\ s \in IntentStates \ {"ENTRY_RECONCILING"}
           \/ /\ ResumePoint(s) = "settle"
              /\ s \in AttemptedStates \ {"EMERGENCY_EXIT_ATTEMPTED"}
           \/ ResumePoint(s) = "ensure" /\ s = "ENTRY_FILLED_UNPROTECTED"
           \/ ResumePoint(s) = "read" /\ s \in ReadableStates
  BY DEF ResumePoint, ActiveStates, CycleState, IntentStates, AttemptedStates,
     ReadableStates, Flat, Halted, Cleared

\* ResumeGate.
LEMMA ResumeGateKeepsInv ==
    ASSUME IInv, NEW p \in Proc, ResumeGate(p)
    PROVE  IInv'
<1>1. pc[p] = "resume" /\ pc[p] # "idle" /\ UNCHANGED <<brokerVars, histVars, now, risk>>
  BY DEF ResumeGate
<1>2. CASE Leave(p) /\ UNCHANGED <<storeVars, lastBeat>>
  BY <1>1, <1>2, LeaveOnlyKeepsInv DEF Rest
<1>3. CASE NotificationFails(p)
  BY <1>1, <1>3, NotificationKeepsInv
<1>4. ASSUME ~globalHalt, Beat(p), NEW c \in ActiveCycles,
             ref' = [ref EXCEPT ![p] = c],
             pc' = [pc EXCEPT ![p] = ResumePoint(state[c])],
             UNCHANGED <<lock, snap, startedAt, storeVars>>
      PROVE  IInv'
  <2>1. /\ StoreTypeOK /\ StoreInv /\ BrokerTypeOK /\ HistTypeOK /\ EnvTypeOK /\ ProcTypeOK
        /\ startedAt[p] \in Nat /\ c \in Cycle /\ state[c] \in ActiveStates
    BY <1>1, TypeParts DEF IInv, ProcOK, ActiveCycles
  <2>2. BrokerTypeOK' /\ HistTypeOK' /\ EnvTypeOK' /\ UNCHANGED sent
    BY <1>1, <1>4, <2>1
       DEF Beat, brokerVars, histVars, BrokerTypeOK, HistTypeOK, EnvTypeOK, ProcTypeOK
  <2>3. UNCHANGED storeVars /\ UNCHANGED <<state, attempts, globalHalt>>
    BY <1>4 DEF storeVars
  <2>4. StoreTypeOK' /\ StoreInv'
    BY <2>1, <2>2, <2>3, StoreUntouched
  <2> DEFINE l == ResumePoint(state[c])
  <2>5. \/ l = "attempt" /\ state[c] \in IntentStates \ {"ENTRY_RECONCILING"}
        \/ l = "settle" /\ state[c] \in AttemptedStates \ {"EMERGENCY_EXIT_ATTEMPTED"}
        \/ l = "ensure" /\ state[c] = "ENTRY_FILLED_UNPROTECTED"
        \/ l = "read" /\ state[c] \in ReadableStates
    BY <2>1, ResumeFacts
  <2> HIDE DEF l
  <2>6. l \in Label /\ l # "idle"
    BY <2>5 DEF Label
  <2>7. ProcTypeOK' /\ pc'[p] = l /\ ref'[p] = c
    BY <1>4, <2>1, <2>6 DEF ProcTypeOK, l
  <2>8. l = "attempt" => ~Attempted(c, NextAction(state[c]))
    <3>1. SUFFICES ASSUME l = "attempt" PROVE ~Attempted(c, NextAction(state[c]))
      OBVIOUS
    <3>2. state[c] \in IntentStates \ {"ENTRY_RECONCILING"}
      BY <2>5, <3>1
    <3>3. NextAction(state[c]) \in Action
      BY <3>2, AttemptFacts
    <3>4. QED
      BY <2>1, <3>2, <3>3, IntentIsFresh DEF StoreInv, HistoryOK
  <2>9. ProcOK(p)'
    BY <1>4, <2>1, <2>3, <2>5, <2>7, <2>8 DEF ProcOK, AtWork, Attempted
  <2>10. QED
    BY <1>1, <1>4, <2>2, <2>4, <2>6, <2>7, <2>9, MoveKeepsInv DEF l
<1>5. QED
  BY <1>2, <1>3, <1>4 DEF ResumeGate, ResumeRefused

\* ReloadGate.
LEMMA ReloadGateKeepsInv ==
    ASSUME IInv, NEW p \in Proc, ReloadGate(p)
    PROVE  IInv'
<1>1. /\ pc[p] # "idle" /\ UNCHANGED Rest /\ UNCHANGED storeVars
      /\ Leave(p) \/ Goto(p, "clear") \/ Goto(p, "clearGlobal")
  BY DEF ReloadGate, Rest
<1>2. /\ StoreTypeOK /\ StoreInv
      /\ BrokerTypeOK' /\ HistTypeOK' /\ EnvTypeOK' /\ UNCHANGED sent
  BY <1>1, TypeParts, RestTyped DEF IInv
<1>3. QED
  BY <1>1, <1>2, StoreUntouched, GotoKeepsInv, LeaveKeepsInv

\* ClearHalted: the first of the reload's two transactions.
LEMMA ClearHaltedKeepsInv ==
    ASSUME IInv, NEW p \in Proc, ClearHalted(p)
    PROVE  IInv'
<1>1. PICK c \in HaltedCycles : TransitionSized(c, Cleared, 0, 0, NoTime)
  BY DEF ClearHalted, ClearHaltedCycle
<1>2. pc[p] # "idle" /\ UNCHANGED Rest /\ Goto(p, "clearGlobal") /\ c \in Cycle
  BY DEF ClearHalted, Rest, HaltedCycles
<1>3. /\ StoreTypeOK /\ StoreInv
      /\ BrokerTypeOK' /\ HistTypeOK' /\ EnvTypeOK' /\ UNCHANGED sent
  BY <1>2, TypeParts, RestTyped DEF IInv
<1>4. 0 \in 0..Lot /\ 0 \in 0..OcoMax
  BY LotAssumption
<1>5. Cleared \notin {"ENTRY_FILLED_UNPROTECTED", "PROTECTION_INTENT_PERSISTED"}
  BY DEF Cleared
<1>6. StoreTypeOK' /\ StoreInv'
  BY <1>1, <1>2, <1>3, <1>4, <1>5, TransitionSizedKeepsStore
<1>7. QED
  BY <1>2, <1>3, <1>6, GotoKeepsInv

\* ClearGlobal: the second.
LEMMA ClearGlobalKeepsInv ==
    ASSUME IInv, NEW p \in Proc, ClearGlobal(p)
    PROVE  IInv'
<1>1. /\ pc[p] # "idle" /\ UNCHANGED Rest /\ Leave(p)
      /\ ClearGlobalHalt \/ UNCHANGED storeVars
  BY DEF ClearGlobal, Rest
<1>2. /\ StoreTypeOK /\ StoreInv
      /\ BrokerTypeOK' /\ HistTypeOK' /\ EnvTypeOK' /\ UNCHANGED sent
  BY <1>1, TypeParts, RestTyped DEF IInv
<1>3. StoreTypeOK' /\ StoreInv'
  BY <1>1, <1>2 DEF ClearGlobalHalt, storeVars, StoreTypeOK, StoreInv, HistoryOK, FillKnown,
     Attempted, SingleUnfinishedCycle, Unfinished
<1>4. QED
  BY <1>1, <1>2, <1>3, LeaveKeepsInv

(***************************************************************************)
(* The environment.                                                        *)
(***************************************************************************)

\* A move of the broker changes nothing but the broker.
LEMMA BrokerKeepsInv ==
    ASSUME IInv, BrokerMoves
    PROVE  IInv'
<1>1. UNCHANGED <<storeVars, procVars, histVars, now, risk, lastBeat>> /\ BrokerStep
  BY DEF BrokerMoves
<1>2. BrokerTypeOK
  BY TypeParts DEF IInv
<1>3. BrokerTypeOK'
  <2>1. CASE SettleRequest
    <3>1. PICK r \in wire :
             /\ wire' = wire \ {r}
             /\ \/ SettleWithoutEffect(r)
                \/ SettleMarketEntry(r)
                \/ SettleCancelRemainder(r)
                \/ SettleProtection(r)
                \/ SettleCancelProtection(r)
                \/ SettleExit(r)
      BY <2>1 DEF SettleRequest
    <3>2. r \in Request /\ wire' \subseteq Request
      BY <1>2, <3>1 DEF BrokerTypeOK
    <3>3. r.size \in Nat /\ r.side \in Sides
      BY <3>2 DEF Request
    <3>4. CASE SettleMarketEntry(r)
      BY <1>2, <3>2, <3>3, <3>4 DEF SettleMarketEntry, BrokerTypeOK
    <3>5. CASE SettleExit(r)
      BY <1>2, <3>2, <3>3, <3>5 DEF SettleExit, BrokerTypeOK
    <3>6. CASE \/ SettleWithoutEffect(r) \/ SettleCancelRemainder(r)
               \/ SettleProtection(r) \/ SettleCancelProtection(r)
      BY <1>2, <3>2, <3>6, LotAssumption DEF SettleWithoutEffect, SettleCancelRemainder,
         SettleProtection, SettleCancelProtection, BrokerTypeOK
    <3>7. QED
      BY <3>1, <3>4, <3>5, <3>6
  <2>2. CASE RemainderFills
    BY <1>2, <2>2 DEF RemainderFills, BrokerTypeOK
  <2>3. CASE ProtectionFires
    BY <1>2, <2>3, LotAssumption DEF ProtectionFires, BrokerTypeOK
  <2>4. CASE ProtectionDisappears \/ PositionLiquidated \/ OperatorFlattens
    BY <1>2, <2>4, LotAssumption DEF ProtectionDisappears, PositionLiquidated,
       OperatorFlattens, BrokerTypeOK
  <2>5. QED
    BY <1>1, <2>1, <2>2, <2>3, <2>4 DEF BrokerStep
<1>4. StoreTypeOK' /\ StoreInv' /\ ProcTypeOK' /\ HistTypeOK' /\ EnvTypeOK'
  BY <1>1, TypeParts, StoreUntouched
     DEF IInv, histVars, procVars, ProcTypeOK, HistTypeOK, EnvTypeOK
<1>5. LockInv' /\ \A p \in Proc : ProcOK(p)'
  BY <1>1 DEF IInv, LockInv, ProcOK, Attempted, storeVars, procVars, histVars
<1>6. QED
  BY <1>3, <1>4, <1>5, TypeParts DEF IInv

\* The clock moves, and a step that changes nothing.
LEMMA ClockKeepsInv ==
    ASSUME IInv, ClockStep \/ UNCHANGED vars
    PROVE  IInv'
<1>1. /\ UNCHANGED storeVars /\ UNCHANGED brokerVars /\ UNCHANGED procVars
      /\ UNCHANGED histVars /\ UNCHANGED <<risk, lastBeat>>
  BY DEF ClockStep, vars
<1>2. now' \in Nat
  BY TypeParts, RuntimeAssumption DEF IInv, EnvTypeOK, ClockStep, vars
<1>3. /\ StoreTypeOK' /\ StoreInv' /\ BrokerTypeOK' /\ ProcTypeOK' /\ HistTypeOK'
      /\ EnvTypeOK'
  BY <1>1, <1>2, TypeParts, StoreUntouched
     DEF IInv, brokerVars, histVars, procVars, BrokerTypeOK, ProcTypeOK, HistTypeOK, EnvTypeOK
<1>4. LockInv' /\ \A p \in Proc : ProcOK(p)'
  BY <1>1 DEF IInv, LockInv, ProcOK, Attempted, storeVars, procVars, histVars
<1>5. QED
  BY <1>3, <1>4, TypeParts DEF IInv

(***************************************************************************)
(* The invariant, and what follows from it.                                *)
(***************************************************************************)

\* The initial state satisfies the invariant.
LEMMA InitInv == Init => IInv
<1> SUFFICES ASSUME Init PROVE IInv
  OBVIOUS
<1>1. StoreTypeOK
  <2>1. 0 \in 0..Lot /\ 0 \in 0..OcoMax
    BY LotAssumption
  <2>2. attempts \in [Cycle -> [Action -> AttemptStatus]]
    BY DEF Init, StoreInit, AttemptStatus
  <2>3. QED
    BY <2>1, <2>2 DEF Init, StoreInit, StoreTypeOK
<1>2. UnknownSnapshot \in Snapshot
  BY LotAssumption DEF UnknownSnapshot, Snapshot, ProtectionStatus, NoSide
<1>3. InitialRisk \in RiskState
  BY DEF InitialRisk, RiskState, StopState, None
<1>4. BrokerTypeOK
  BY LotAssumption DEF Init, BrokerInit, BrokerTypeOK, NoSide
<1>5. ProcTypeOK /\ HistTypeOK /\ EnvTypeOK
  BY <1>2, <1>3 DEF Init, ProcTypeOK, HistTypeOK, EnvTypeOK, Label
<1>6. StoreInv
  BY DEF Init, StoreInit, StoreInv, HistoryOK, FillKnown, Attempted, SingleUnfinishedCycle,
     Unfinished, Absent
<1>7. LockInv /\ \A p \in Proc : ProcOK(p)
  BY DEF Init, LockInv, ProcOK, AtWork
<1>8. QED
  BY <1>1, <1>4, <1>5, <1>6, <1>7, TypeParts DEF IInv

\* Every step preserves it.
LEMMA NextInv == IInv /\ [Next]_vars => IInv'
<1> SUFFICES ASSUME IInv, [Next]_vars PROVE IInv'
  OBVIOUS
<1>1. ASSUME NEW p \in Proc, StartStep(p) PROVE IInv'
  BY <1>1, StartKeepsInv DEF StartStep
<1>2. ASSUME NEW p \in Proc, EngineStep(p), UNCHANGED <<risk, lastBeat>> PROVE IInv'
  BY <1>2, AttemptActionKeepsInv, PerformActionKeepsInv, RecordOutcomeKeepsInv,
     EnterReconcilingKeepsInv, ReadSnapshotKeepsInv, ReconcileKeepsInv,
     EnsureProtectionKeepsInv DEF EngineStep
<1>3. ASSUME NEW p \in Proc, ProcessStep(p) PROVE IInv'
  BY <1>2, <1>3, RunGateKeepsInv, BootReconcileKeepsInv, RiskGateKeepsInv,
     CreateCycleKeepsInv, ResumeGateKeepsInv, ReloadGateKeepsInv, ClearHaltedKeepsInv,
     ClearGlobalKeepsInv DEF ProcessStep
<1>4. ASSUME NEW p \in Proc, Crash(p) PROVE IInv'
  BY <1>4, LeaveOnlyKeepsInv DEF Crash, Rest
<1>5. QED
  BY <1>1, <1>3, <1>4, BrokerKeepsInv, ClockKeepsInv DEF Next

\* The inductive invariant holds in every reachable state.
THEOREM Invariance == Spec => []IInv
  BY InitInv, NextInv, PTL DEF Spec

\* Every variable keeps its type: sizes the store accepts stay within the
\* lot, whatever a broker reports.
THEOREM TypeCorrect == Spec => []TypeOK
<1>1. IInv => TypeOK
  BY DEF IInv
<1>2. QED
  BY <1>1, Invariance, PTL

\* No action of a cycle is handed to the broker twice, over any number of
\* crashes, resumes and concurrent command lines.
THEOREM NeverSentTwice == Spec => []AtMostOneSend
<1>1. IInv => AtMostOneSend
  BY DEF IInv, StoreInv, HistoryOK, AtMostOneSend
<1>2. QED
  BY <1>1, Invariance, PTL

\* Never two cycles that are active or wait for the operator.
THEOREM OneCycleAtATime == Spec => []SingleUnfinishedCycle
<1>1. IInv => SingleUnfinishedCycle
  BY DEF IInv, StoreInv
<1>2. QED
  BY <1>1, Invariance, PTL

\* An attempt about to be recorded is fresh and sized, and an attempt about to
\* be sent or answered is on record.
LEMMA AttemptAdmitted == IInv => StoreNeverRefuses
<1> SUFFICES ASSUME IInv, NEW p \in Proc
             PROVE  /\ pc[p] = "attempt" =>
                          /\ state[ref[p]] \in IntentStates
                          /\ AttemptAllowed(ref[p], NextAction(state[ref[p]]))
                          /\ \/ PlanSize(p, NextAction(state[ref[p]])) > 0
                             \/ NextAction(state[ref[p]]) \in SizeChecked
                    /\ pc[p] \in {"perform", "outcome"} =>
                          /\ state[ref[p]] \in AttemptedStates
                          /\ attempts[ref[p]][AttemptedAction(state[ref[p]])]
                                = "ATTEMPT_STARTED"
  BY DEF StoreNeverRefuses
<1> DEFINE c == ref[p]
           a == NextAction(state[c])
<1>1. CASE pc[p] = "attempt"
  <2>1. /\ c \in Cycle /\ state[c] \in IntentStates /\ ~Attempted(c, a)
        /\ state[c] = "ENTRY_RECONCILING" => snap[p].pending > 0
    BY <1>1 DEF IInv, ProcOK, AtWork
  <2>2. AttemptAllowed(c, a)
    BY <2>1, AttemptFacts DEF AttemptAllowed
  <2>3. state[c] = "PROTECTION_INTENT_PERSISTED" => filledSize[c] > 0
    BY <2>1 DEF IInv, StoreInv, FillKnown
  <2>4. Lot > 0
    BY LotAssumption
  <2>5. PlanSize(p, a) > 0 \/ a \in SizeChecked
    BY <2>1, <2>3, <2>4, Zenon DEF IntentStates, NextAction, PlanSize, SizeChecked
  <2>6. QED
    BY <1>1, <2>1, <2>2, <2>5
<1>2. CASE pc[p] \in {"perform", "outcome"}
  BY <1>2 DEF IInv, ProcOK
<1>3. QED
  BY <1>1, <1>2

\* Every attempt the engine asks the store to record is admitted, and has a
\* size or is latched.
THEOREM AttemptsAdmitted == Spec => []StoreNeverRefuses
  BY AttemptAdmitted, Invariance, PTL

\* Nothing is sent while a cycle waits for review or the global halt is
\* latched.
THEOREM HaltStopsSending == Spec => NothingSentWhileHalted
<1>1. IInv /\ [Next]_vars => [HaltLatched => sent' = sent]_vars
  <2> SUFFICES ASSUME IInv, Next, HaltLatched PROVE sent' = sent
    OBVIOUS
  <2>1. ASSUME NEW p \in Proc, SendAction(p), pc[p] = "perform" PROVE FALSE
    <3>1. ref[p] \in Cycle /\ ~globalHalt /\ state[ref[p]] \in AttemptedStates
      BY <2>1 DEF IInv, ProcOK, AtWork
    <3>2. PICK d \in Cycle : state[d] = Halted
      BY <3>1 DEF HaltLatched, HaltedCycles
    <3>3. Unfinished(d) /\ Unfinished(ref[p])
      BY <3>1, <3>2 DEF Unfinished, AttemptedStates, Halted, Flat, Cleared, Absent
    <3>4. d = ref[p]
      BY <3>1, <3>2, <3>3 DEF IInv, StoreInv, SingleUnfinishedCycle
    <3>5. QED
      BY <3>1, <3>2, <3>4 DEF AttemptedStates, Halted
  <2>2. ASSUME NEW p \in Proc, EngineStep(p) PROVE sent' = sent
    BY <2>1, <2>2 DEF EngineStep, AttemptAction, PerformAction, RecordOutcome,
       EnterReconciling, ReadSnapshot, Reconcile, EnsureProtection, histVars
  <2>3. ASSUME NEW p \in Proc, StartStep(p) \/ ProcessStep(p) \/ Crash(p) PROVE sent' = sent
    BY <2>2, <2>3 DEF StartStep, Start, ProcessStep, RunGate, BootReconcile, RiskGate,
       CreateCycleStep, ResumeGate, ReloadGate, ClearHalted, ClearGlobal, Crash, histVars
  <2>4. QED
    BY <2>3 DEF Next, BrokerMoves, ClockStep, histVars
<1>2. QED
  BY <1>1, Invariance, PTL DEF Spec, NothingSentWhileHalted

(***************************************************************************)
(* The engine and its command lines implement PersistentTransport, for any *)
(* number of cycles and processes.                                         *)
(*                                                                         *)
(* IInv does the work: it gives every request one of the abstract states   *)
(* (StatusFacts) and one cycle at a time.  A step of the code is then one  *)
(* of three: it records an attempt (Persist), it sends (Send), or it is    *)
(* quiet, and moves at most one cycle to a state that records no attempt   *)
(* (Settle, Abandon or a stutter).                                         *)
(***************************************************************************)

\* A step that neither sends nor records an attempt.
Quiet ==
    /\ sent' = sent
    /\ \A c \in Cycle, a \in Action : Attempted(c, a)' <=> Attempted(c, a)
    /\ \/ state' = state
       \/ \E c \in Cycle, t \in (CycleState \cup {Absent}) \ AttemptedStates :
             state' = [state EXCEPT ![c] = t]

(***************************************************************************)
(* The abstract state of a request.                                        *)
(***************************************************************************)

\* Each action has its own state that records it, and no intent is one.
LEMMA TargetFacts ==
    /\ \A a \in Action : AttemptTarget(a) \in AttemptedStates
    /\ \A a, b \in Action : AttemptTarget(a) = AttemptTarget(b) => a = b
    /\ \A s \in AttemptedStates : /\ AttemptedAction(s) \in Action
                                  /\ AttemptTarget(AttemptedAction(s)) = s
    /\ IntentStates \cap AttemptedStates = {}
  BY DEF AttemptTarget, AttemptedStates, AttemptedAction, Action, IntentStates

Expected(c, a) ==
    IF ~Attempted(c, a) THEN "new"
    ELSE IF state[c] = AttemptTarget(a)
         THEN IF sent[c][a] = 1 THEN "sent" ELSE "persisted"
         ELSE IF sent[c][a] = 1 THEN "done" ELSE "abandoned"

\* Within the invariant no request is sent twice or without a record.
LEMMA StatusFacts ==
    ASSUME IInv, IInv', NEW c \in Cycle, NEW a \in Action
    PROVE  /\ RequestStatus(c, a) = Expected(c, a)
           /\ RequestStatus(c, a)' = Expected(c, a)'
<1>1. /\ sent[c][a] \in {0, 1} /\ (sent[c][a] = 1 => Attempted(c, a))
      /\ sent'[c][a] \in {0, 1} /\ (sent'[c][a] = 1 => Attempted(c, a)')
  BY DEF IInv, StoreInv, HistoryOK
<1>2. RequestStatus(c, a) = Expected(c, a)
  BY <1>1 DEF RequestStatus, Expected
<1>3. RequestStatus(c, a)' = Expected(c, a)'
  BY <1>1 DEF RequestStatus, Expected
<1>4. QED
  BY <1>2, <1>3

\* Only one cycle can be in a state that records an attempt.
LEMMA OneAttempted ==
    ASSUME IInv, NEW c \in Cycle, NEW d \in Cycle, state[c] \in AttemptedStates \cup IntentStates,
           state[d] \in AttemptedStates
    PROVE  c = d
<1>1. Unfinished(c) /\ Unfinished(d)
  BY DEF Unfinished, AttemptedStates, IntentStates, Absent, Flat, Cleared
<1>2. QED
  BY <1>1 DEF IInv, StoreInv, SingleUnfinishedCycle

\* The mapping after a step, from what the step does to each request.
LEMMA StatusSame ==
    ASSUME \A d \in Cycle, b \in Action : RequestStatus(d, b)' = RequestStatus(d, b)
    PROVE  requestStatus' = requestStatus
  BY DEF requestStatus

LEMMA StatusUpdate ==
    ASSUME NEW c \in Cycle, NEW a \in Action, NEW v, RequestStatus(c, a)' = v,
           \A d \in Cycle, b \in Action :
               <<d, b>> # <<c, a>> => RequestStatus(d, b)' = RequestStatus(d, b)
    PROVE  requestStatus' = [requestStatus EXCEPT ![<<c, a>>] = v]
<1>1. ASSUME NEW j \in Cycle \X Action
      PROVE  RequestStatus(j[1], j[2])' =
                 IF j = <<c, a>> THEN v ELSE RequestStatus(j[1], j[2])
  <2>1. PICK d \in Cycle, b \in Action : j = <<d, b>>
    OBVIOUS
  <2>2. QED
    BY <2>1
<1>2. QED
  BY <1>1 DEF requestStatus

(***************************************************************************)
(* The three kinds of step.                                                *)
(***************************************************************************)

\* A request is settled or abandoned by the abstract state it was in.
LEMMA SettleStep ==
    ASSUME NEW c \in Cycle, NEW a \in Action,
           \/ /\ RequestStatus(c, a) = "sent"
              /\ requestStatus' = [requestStatus EXCEPT ![<<c, a>>] = "done"]
           \/ /\ RequestStatus(c, a) = "persisted"
              /\ requestStatus' = [requestStatus EXCEPT ![<<c, a>>] = "abandoned"]
    PROVE  Transport!TransportNext
<1>1. requestStatus[<<c, a>>] = RequestStatus(c, a) /\ <<c, a>> \in Cycle \X Action
  BY DEF requestStatus
<1>2. Transport!Settle(<<c, a>>) \/ Transport!Abandon(<<c, a>>)
  BY <1>1 DEF Transport!Settle, Transport!Abandon
<1>3. QED
  BY <1>1, <1>2 DEF Transport!TransportNext

LEMMA QuietRefines ==
    ASSUME IInv, IInv', Quiet
    PROVE  Transport!TransportNext \/ requestStatus' = requestStatus
<1>1. CASE state' = state
  <2>1. ASSUME NEW d \in Cycle, NEW b \in Action
        PROVE  RequestStatus(d, b)' = RequestStatus(d, b)
    BY <1>1, StatusFacts DEF Quiet, Expected
  <2>2. QED
    BY <2>1, StatusSame
<1>2. ASSUME NEW c \in Cycle, NEW t \in (CycleState \cup {Absent}) \ AttemptedStates,
             state' = [state EXCEPT ![c] = t]
      PROVE  Transport!TransportNext \/ requestStatus' = requestStatus
  <2>1. state \in [Cycle -> CycleState \cup {Absent}]
    BY DEF IInv, TypeOK, StoreTypeOK
  <2>2. ASSUME NEW d \in Cycle, NEW b \in Action,
               d # c \/ AttemptTarget(b) # state[c] \/ ~Attempted(d, b)
        PROVE  RequestStatus(d, b)' = RequestStatus(d, b)
    <3>1. d # c => state'[d] = state[d]
      BY <1>2, <2>1
    <3>2. d = c => state'[d] = t /\ t # AttemptTarget(b)
      BY <1>2, <2>1, TargetFacts
    <3>3. QED
      BY <2>2, <3>1, <3>2, StatusFacts DEF Quiet, Expected
  <2>3. CASE \A b \in Action : AttemptTarget(b) # state[c] \/ ~Attempted(c, b)
    BY <2>2, <2>3, StatusSame
  <2>4. ASSUME NEW a \in Action, AttemptTarget(a) = state[c], Attempted(c, a)
        PROVE  Transport!TransportNext
    <3>1. /\ RequestStatus(c, a) = IF sent[c][a] = 1 THEN "sent" ELSE "persisted"
          /\ RequestStatus(c, a)' = IF sent[c][a] = 1 THEN "done" ELSE "abandoned"
      <4>1. state'[c] = t /\ t # AttemptTarget(a)
        BY <1>2, <2>1, TargetFacts
      <4>2. QED
        BY <2>4, <4>1, StatusFacts DEF Quiet, Expected
    <3>2. ASSUME NEW d \in Cycle, NEW b \in Action, <<d, b>> # <<c, a>>
          PROVE  RequestStatus(d, b)' = RequestStatus(d, b)
      <4>1. d # c \/ AttemptTarget(b) # state[c]
        BY <2>4, <3>2, TargetFacts
      <4>2. QED
        BY <2>2, <4>1
    <3>3. requestStatus' = [requestStatus EXCEPT ![<<c, a>>] = RequestStatus(c, a)']
      BY <3>2, StatusUpdate
    <3>4. QED
      BY <3>1, <3>3, SettleStep
  <2>5. QED
    BY <2>3, <2>4
<1>3. QED
  BY <1>1, <1>2 DEF Quiet

\* An attempt is recorded from an intent, when no other is in flight.
LEMMA AttemptRefines ==
    ASSUME IInv, IInv', NEW c \in Cycle, state[c] \in IntentStates, NEW u,
           NEW a, a = NextAction(state[c]), RecordActionAttempt(c, a, u), sent' = sent
    PROVE  Transport!TransportNext
<1> DEFINE j == <<c, a>>
<1>1. /\ a \in Action /\ j \in Cycle \X Action
      /\ ~Attempted(c, a)
      /\ attempts' = [attempts EXCEPT ![c][a] = "ATTEMPT_STARTED"]
      /\ state' = [state EXCEPT ![c] = AttemptTarget(a)]
  BY AttemptFacts DEF RecordActionAttempt, AttemptAllowed
<1>2. /\ state \in [Cycle -> CycleState \cup {Absent}]
      /\ attempts \in [Cycle -> [Action -> AttemptStatus]]
  BY DEF IInv, TypeOK, StoreTypeOK
<1>3. RequestStatus(c, a) = "new"
  BY <1>1, StatusFacts DEF Expected
<1>4. sent[c][a] # 1
  BY <1>1 DEF IInv, StoreInv, HistoryOK
<1>5. Attempted(c, a)' /\ state'[c] = AttemptTarget(a)
  BY <1>1, <1>2 DEF Attempted
<1>6. RequestStatus(c, a)' = "persisted"
  BY <1>1, <1>4, <1>5, StatusFacts DEF Expected
<1>7. ASSUME NEW d \in Cycle, NEW b \in Action, <<d, b>> # <<c, a>>
      PROVE  RequestStatus(d, b)' = RequestStatus(d, b)
  <2>1. Attempted(d, b)' <=> Attempted(d, b)
    BY <1>1, <1>2, <1>7 DEF Attempted
  <2>2. (state'[d] = AttemptTarget(b)) <=> (state[d] = AttemptTarget(b))
    <3>1. CASE d # c
      BY <1>1, <1>2, <3>1
    <3>2. CASE d = c
      <4>1. state[c] # AttemptTarget(b)
        BY TargetFacts
      <4>2. AttemptTarget(a) # AttemptTarget(b)
        BY <1>1, <1>7, <3>2, TargetFacts
      <4>3. QED
        BY <1>5, <3>2, <4>1, <4>2
    <3>3. QED
      BY <3>1, <3>2
  <2>3. QED
    BY <2>1, <2>2, StatusFacts DEF Expected
<1>8. requestStatus' = [requestStatus EXCEPT ![j] = "persisted"]
  BY <1>1, <1>6, <1>7, StatusUpdate
<1>9. Transport!InFlight = {}
  <2> SUFFICES ASSUME NEW k \in Cycle \X Action, requestStatus[k] \in {"persisted", "sent"}
               PROVE  FALSE
    BY DEF Transport!InFlight
  <2>1. PICK d \in Cycle, b \in Action : k = <<d, b>>
    OBVIOUS
  <2>2. RequestStatus(d, b) \in {"persisted", "sent"}
    BY <2>1 DEF requestStatus
  <2>3. state[d] = AttemptTarget(b)
    BY <2>2, StatusFacts DEF Expected
  <2>4. state[d] \in AttemptedStates
    BY <2>3, TargetFacts
  <2>5. c = d
    BY <2>4, OneAttempted
  <2>6. QED
    BY <2>4, <2>5, TargetFacts
<1>10. requestStatus[j] = "new"
  BY <1>1, <1>3 DEF requestStatus
<1>11. Transport!Persist(j)
  BY <1>8, <1>9, <1>10 DEF Transport!Persist
<1>12. QED
  BY <1>1, <1>11 DEF Transport!TransportNext

\* The holder of the lock sends what it has just recorded.
LEMMA SendRefines ==
    ASSUME IInv, IInv', NEW p \in Proc, pc[p] = "perform", SendAction(p),
           NEW c, c = ref[p], NEW a, a = AttemptedAction(state[c])
    PROVE  Transport!TransportNext
<1> DEFINE j == <<c, a>>
<1>1. /\ c \in Cycle /\ state[c] \in AttemptedStates
      /\ attempts[c][a] = "ATTEMPT_STARTED"
      /\ sent[c][a] = 0
  BY DEF IInv, ProcOK, AtWork
<1>2. a \in Action /\ AttemptTarget(a) = state[c] /\ j \in Cycle \X Action
  BY <1>1, TargetFacts
<1>3. /\ sent' = [sent EXCEPT ![c][a] = @ + 1]
      /\ state' = state /\ attempts' = attempts
  BY DEF SendAction, storeVars
<1>4. sent \in [Cycle -> [Action -> Nat]]
  BY DEF IInv, TypeOK
<1>5. RequestStatus(c, a) = "persisted"
  BY <1>1, <1>2, StatusFacts DEF Expected, Attempted
<1>6. RequestStatus(c, a)' = "sent"
  <2>1. sent'[c][a] = 1
    BY <1>1, <1>2, <1>3, <1>4
  <2>2. RequestStatus(c, a)' = Expected(c, a)'
    BY <1>1, <1>2, StatusFacts
  <2>3. Expected(c, a)' = "sent"
    BY <1>1, <1>2, <1>3, <2>1 DEF Expected, Attempted
  <2>4. QED
    BY <2>2, <2>3
<1>7. ASSUME NEW d \in Cycle, NEW b \in Action, <<d, b>> # <<c, a>>
      PROVE  RequestStatus(d, b)' = RequestStatus(d, b)
  <2>1. sent'[d][b] = sent[d][b]
    BY <1>1, <1>2, <1>3, <1>4, <1>7
  <2>2. QED
    BY <1>3, <2>1, StatusFacts DEF Expected, Attempted
<1>8. requestStatus' = [requestStatus EXCEPT ![j] = "sent"]
  BY <1>1, <1>2, <1>6, <1>7, StatusUpdate
<1>9. requestStatus[j] = "persisted"
  BY <1>2, <1>5 DEF requestStatus
<1>10. QED
  BY <1>2, <1>8, <1>9 DEF Transport!Send, Transport!TransportNext

(***************************************************************************)
(* Which step is of which kind.                                            *)
(***************************************************************************)

\* A transaction that moves no attempt on record, and sends nothing, is quiet.
LEMMA QuietTransition ==
    ASSUME NEW c \in Cycle, NEW t \in (CycleState \cup {Absent}) \ AttemptedStates,
           state' = [state EXCEPT ![c] = t], attempts' = attempts, sent' = sent
    PROVE  Quiet
  BY DEF Quiet, Attempted

LEMMA QuietStore ==
    ASSUME state' = state, attempts' = attempts, sent' = sent
    PROVE  Quiet
  BY DEF Quiet, Attempted

Resting == CycleState \ AttemptedStates

\* The states a reconciliation moves its cycle to.
LEMMA RestingStates ==
    {Flat, Halted, Cleared, "ENTRY_INTENT_PERSISTED", "ENTRY_RECONCILING",
     "ENTRY_FILLED_UNPROTECTED", "PROTECTION_INTENT_PERSISTED", "PROTECTION_RECONCILING",
     "POSITION_PROTECTED", "PROTECTION_CANCEL_INTENT_PERSISTED",
     "PROTECTION_CANCEL_RECONCILING", "EMERGENCY_EXIT_INTENT_PERSISTED"} \subseteq Resting
  BY DEF Resting, CycleState, AttemptedStates, Flat, Halted, Cleared

\* A reconciliation's transaction.
StoreQuiet(c) ==
    /\ attempts' = attempts
    /\ state' = state \/ \E t \in Resting : state' = [state EXCEPT ![c] = t]

LEMMA StoreQuietIsQuiet ==
    ASSUME NEW c \in Cycle, StoreQuiet(c), sent' = sent
    PROVE  Quiet
  BY QuietTransition, QuietStore DEF StoreQuiet, Resting

LEMMA ReconcileQuiet ==
    ASSUME IInv, NEW p \in Proc, Reconcile(p)
    PROVE  Quiet
<1> DEFINE c == ref[p]
           s == snap[p]
<1>1. c \in Cycle /\ sent' = sent
  BY DEF Reconcile, IInv, ProcOK, AtWork, histVars
<1>2. ASSUME RestartEntryPreflight(p, c, s) PROVE StoreQuiet(c)
  BY <1>2, RestingStates DEF RestartEntryPreflight, Halt, Transition, StoreQuiet, storeVars
<1>3. ASSUME ReconcileEntry(p, c, s) PROVE StoreQuiet(c)
  BY <1>3, RestingStates DEF ReconcileEntry, Halt, Transition, TransitionSized, FinishFlat,
     StoreQuiet, storeVars
<1>4. ASSUME ReconcileProtection(p, c, s) PROVE StoreQuiet(c)
  BY <1>4, RestingStates DEF ReconcileProtection, Halt, Transition, TransitionSized,
     FinishFlat, StartProtectionCancel, StartEmergencyExit, StoreQuiet, storeVars
<1>5. ASSUME ReconcileCancelledProtection(p, c, s) PROVE StoreQuiet(c)
  BY <1>5, RestingStates DEF ReconcileCancelledProtection, Halt, Transition,
     TransitionSized, FinishFlat, StartEmergencyExit, StoreQuiet, storeVars
<1>6. ASSUME ReconcileEmergencyExit(p, c, s) PROVE StoreQuiet(c)
  BY <1>6, RestingStates DEF ReconcileEmergencyExit, Halt, Transition, TransitionSized,
     FinishFlat, StoreQuiet, storeVars
<1>7. ASSUME ReconcileProtectedPosition(p, c, s) PROVE StoreQuiet(c)
  BY <1>7, RestingStates DEF ReconcileProtectedPosition, Halt, Transition,
     TransitionSized, FinishFlat, StartProtectionCancel, StartEmergencyExit, StoreQuiet,
     storeVars
<1>8. StoreQuiet(c)
  BY <1>2, <1>3, <1>4, <1>5, <1>6, <1>7 DEF Reconcile
<1>9. QED
  BY <1>1, <1>8, StoreQuietIsQuiet

\* The engine records an attempt, sends, or is quiet.
LEMMA EngineSteps ==
    ASSUME IInv, NEW p \in Proc, EngineStep(p)
    PROVE  \/ Quiet
           \/ /\ pc[p] = "attempt" /\ ref[p] \in Cycle /\ state[ref[p]] \in IntentStates
              /\ sent' = sent
              /\ RecordActionAttempt(ref[p], NextAction(state[ref[p]]), now)
           \/ PerformAction(p) /\ SendAction(p)
<1>1. pc[p] \in AtWork => ref[p] \in Cycle
  BY DEF IInv, ProcOK
<1>2. CASE AttemptAction(p)
  <2>1. /\ pc[p] = "attempt" /\ ref[p] \in Cycle /\ state[ref[p]] \in IntentStates
        /\ sent' = sent
    BY <1>1, <1>2 DEF AttemptAction, IInv, ProcOK, AtWork, histVars
  <2>2. CASE Halt(p)
    <3>1. StoreQuiet(ref[p])
      BY <2>2, RestingStates DEF Halt, Transition, StoreQuiet
    <3>2. QED
      BY <2>1, <3>1, StoreQuietIsQuiet
  <2>3. QED
    BY <1>2, <2>1, <2>2 DEF AttemptAction
<1>3. CASE PerformAction(p)
  <2>2. CASE Halt(p) /\ UNCHANGED histVars
    <3>1. ref[p] \in Cycle /\ sent' = sent
      BY <1>1, <1>3, <2>2 DEF PerformAction, AtWork, histVars
    <3>2. StoreQuiet(ref[p])
      BY <2>2, RestingStates DEF Halt, Transition, StoreQuiet
    <3>3. QED
      BY <3>1, <3>2, StoreQuietIsQuiet
  <2>3. QED
    BY <1>3, <2>2 DEF PerformAction
<1>4. CASE RecordOutcome(p)
  <2>1. PICK c, a : RecordActionOutcome(c, a)
    BY <1>4 DEF RecordOutcome
  <2>2. attempts \in [Cycle -> [Action -> AttemptStatus]]
    BY DEF IInv, TypeOK, StoreTypeOK
  <2>3. /\ attempts[c][a] = "ATTEMPT_STARTED"
        /\ attempts' = [attempts EXCEPT ![c][a] = "OUTCOME_RECORDED"]
        /\ state' = state /\ sent' = sent
    BY <1>4, <2>1 DEF RecordActionOutcome, RecordOutcome, histVars
  <2>4. ASSUME NEW d \in Cycle, NEW b \in Action
        PROVE  Attempted(d, b)' <=> Attempted(d, b)
    BY <2>2, <2>3 DEF Attempted
  <2>5. QED
    BY <2>3, <2>4 DEF Quiet
<1>5. CASE EnterReconciling(p)
  <2>1. ref[p] \in Cycle /\ sent' = sent
    BY <1>1, <1>5 DEF EnterReconciling, AtWork, histVars
  <2>2. state[ref[p]] \in AttemptedStates \ {"EMERGENCY_EXIT_ATTEMPTED"}
    BY <1>5 DEF EnterReconciling, IInv, ProcOK
  <2>3. ReconcilingState(state[ref[p]]) \in Resting
    BY <2>2, RestingStates DEF ReconcilingState, AttemptedStates
  <2>4. StoreQuiet(ref[p])
    BY <1>5, <2>3 DEF EnterReconciling, Transition, StoreQuiet
  <2>5. QED
    BY <2>1, <2>4, StoreQuietIsQuiet
<1>6. CASE ReadSnapshot(p)
  BY <1>6, QuietStore DEF ReadSnapshot, storeVars, histVars
<1>7. CASE Reconcile(p)
  BY <1>7, ReconcileQuiet
<1>8. CASE EnsureProtection(p)
  <2>1. ref[p] \in Cycle /\ sent' = sent
    BY <1>1, <1>8 DEF EnsureProtection, AtWork, histVars
  <2>2. StoreQuiet(ref[p])
    BY <1>8, RestingStates DEF EnsureProtection, Halt, Transition, StartEmergencyExit,
       StoreQuiet
  <2>3. QED
    BY <2>1, <2>2, StoreQuietIsQuiet
<1>9. QED
  BY <1>2, <1>3, <1>4, <1>5, <1>6, <1>7, <1>8 DEF EngineStep

LEMMA EngineRefines ==
    ASSUME IInv, IInv', NEW p \in Proc, EngineStep(p)
    PROVE  Transport!TransportNext \/ requestStatus' = requestStatus
  BY EngineSteps, QuietRefines, AttemptRefines, SendRefines DEF PerformAction

\* The command lines around the engine create and clear cycles and latch the
\* halt; none of them sends.
LEMMA CommandsQuiet ==
    ASSUME IInv, NEW p \in Proc,
           \/ StartStep(p) \/ RunGate(p) \/ BootReconcile(p) \/ RiskGate(p)
           \/ CreateCycleStep(p) \/ ResumeGate(p) \/ ReloadGate(p) \/ ClearHalted(p)
           \/ ClearGlobal(p) \/ Crash(p)
    PROVE  Quiet
<1>1. CASE CreateCycleStep(p)
  <2>1. ref[p] \in Cycle /\ sent' = sent
    BY <1>1 DEF CreateCycleStep, IInv, ProcOK, histVars
  <2>2. StoreQuiet(ref[p])
    BY <1>1, RestingStates DEF CreateCycleStep, CreateCycle, StoreQuiet, storeVars
  <2>3. QED
    BY <2>1, <2>2, StoreQuietIsQuiet
<1>2. CASE ClearHalted(p)
  <2>1. PICK c \in HaltedCycles : ClearHaltedCycle(c)
    BY <1>2 DEF ClearHalted
  <2>2. c \in Cycle /\ sent' = sent
    BY <1>2 DEF ClearHalted, HaltedCycles, histVars
  <2>3. StoreQuiet(c)
    BY <2>1, RestingStates DEF ClearHaltedCycle, TransitionSized, StoreQuiet
  <2>4. QED
    BY <2>2, <2>3, StoreQuietIsQuiet
<1>3. CASE \/ StartStep(p) \/ RunGate(p) \/ BootReconcile(p) \/ RiskGate(p)
           \/ ResumeGate(p) \/ ReloadGate(p) \/ ClearGlobal(p) \/ Crash(p)
  <2>1. state' = state /\ attempts' = attempts /\ sent' = sent
    BY <1>3 DEF StartStep, Start, RunGate, BootReconcile, RiskGate, ResumeGate, ReloadGate,
       ClearGlobal, Crash, NotificationFails, EngageGlobalHalt, ClearGlobalHalt, storeVars,
       histVars
  <2>2. QED
    BY <2>1, QuietStore
<1>4. QED
  BY <1>1, <1>2, <1>3

(***************************************************************************)
(* The theorem.                                                            *)
(***************************************************************************)

LEMMA InitRefines == Init => Transport!TransportInit
<1> SUFFICES ASSUME Init PROVE Transport!TransportInit
  OBVIOUS
<1>1. ASSUME NEW c \in Cycle, NEW a \in Action
      PROVE  RequestStatus(c, a) = "new"
  BY DEF Init, StoreInit, RequestStatus, Attempted
<1>2. QED
  BY <1>1 DEF Transport!TransportInit, requestStatus

LEMMA NextRefines ==
    IInv /\ IInv' /\ [Next]_vars => [Transport!TransportNext]_requestStatus
<1> SUFFICES ASSUME IInv, IInv', [Next]_vars
             PROVE  Transport!TransportNext \/ requestStatus' = requestStatus
  OBVIOUS
<1>1. ASSUME NEW p \in Proc, StartStep(p) \/ ProcessStep(p) \/ Crash(p)
      PROVE  Transport!TransportNext \/ requestStatus' = requestStatus
  BY <1>1, CommandsQuiet, QuietRefines, EngineRefines DEF ProcessStep
<1>2. CASE BrokerMoves \/ ClockStep \/ UNCHANGED vars
  BY <1>2, QuietStore, QuietRefines DEF BrokerMoves, ClockStep, vars, storeVars, histVars
<1>3. QED
  BY <1>1, <1>2 DEF Next

\* Over any number of crashes, resumes and concurrent command lines, every
\* request is persisted before it is sent, sent at most once, never sent after
\* its cycle has moved on, and alone in flight (record_action_attempt before
\* perform_once_synthetic).
THEOREM TransportRefinement == Spec => ImplementsTransport
<1>1. Init => Transport!TransportInit
  BY InitRefines
<1>2. IInv /\ IInv' /\ [Next]_vars => [Transport!TransportNext]_requestStatus
  BY NextRefines
<1>3. QED
  BY <1>1, <1>2, Invariance, PTL DEF Spec, ImplementsTransport, Transport!TransportSpec

(***************************************************************************)
(* Every command line ends.  A step of a process lowers StepsLeft, and no  *)
(* step of anybody else changes what it is computed from: the cycle a      *)
(* process works on is written by the holder of the lock only.             *)
(***************************************************************************)

\* What a process finds in the store when it goes on by itself: a state that
\* records an attempt has that attempt on record.
RecordedOK ==
    \A c \in Cycle : state[c] \in AttemptedStates => Attempted(c, AttemptedAction(state[c]))

LEMMA RecordedInit == Init => RecordedOK
  BY DEF Init, StoreInit, RecordedOK, AttemptedStates, Absent

LEMMA QuietKeepsRecorded ==
    ASSUME TypeOK, RecordedOK, Quiet
    PROVE  RecordedOK'
<1>1. state \in [Cycle -> CycleState \cup {Absent}]
  BY DEF TypeOK, StoreTypeOK
<1>2. ASSUME NEW c \in Cycle, state'[c] \in AttemptedStates
      PROVE  attempts'[c][AttemptedAction(state'[c])] # "NONE"
  <2>1. state'[c] = state[c]
    BY <1>1, <1>2 DEF Quiet
  <2>2. AttemptedAction(state[c]) \in Action
    BY <1>2, <2>1, TargetFacts
  <2>3. Attempted(c, AttemptedAction(state[c]))
    BY <1>2, <2>1 DEF RecordedOK
  <2>4. QED
    BY <2>1, <2>2, <2>3 DEF Quiet, Attempted
<1>3. QED
  BY <1>2 DEF RecordedOK, Attempted

LEMMA RecordedNext ==
    IInv /\ RecordedOK /\ [Next]_vars => RecordedOK'
<1> SUFFICES ASSUME IInv, RecordedOK, [Next]_vars PROVE RecordedOK'
  OBVIOUS
<1>1. TypeOK
  BY DEF IInv
<1>2. ASSUME NEW p \in Proc, EngineStep(p) PROVE RecordedOK'
  <2>1. CASE Quiet
    BY <1>1, <2>1, QuietKeepsRecorded
  <2>2. CASE /\ ref[p] \in Cycle /\ state[ref[p]] \in IntentStates
             /\ RecordActionAttempt(ref[p], NextAction(state[ref[p]]), now)
    <3> DEFINE c == ref[p]
               a == NextAction(state[c])
    <3>1. /\ a \in Action /\ AttemptedAction(AttemptTarget(a)) = a
          /\ c \in Cycle
      BY <2>2, AttemptFacts
    <3>2. /\ attempts' = [attempts EXCEPT ![c][a] = "ATTEMPT_STARTED"]
          /\ state' = [state EXCEPT ![c] = AttemptTarget(a)]
      BY <2>2 DEF RecordActionAttempt
    <3>3. /\ attempts \in [Cycle -> [Action -> AttemptStatus]]
          /\ state \in [Cycle -> CycleState \cup {Absent}]
      BY <1>1 DEF TypeOK, StoreTypeOK
    <3> HIDE DEF a, c
    <3>4. ASSUME NEW d \in Cycle, state'[d] \in AttemptedStates
          PROVE  attempts'[d][AttemptedAction(state'[d])] # "NONE"
      <4>1. CASE d = c
        BY <3>1, <3>2, <3>3, <4>1 DEF Attempted
      <4>2. CASE d # c
        BY <3>2, <3>3, <3>4, <4>2 DEF Attempted, RecordedOK
      <4>3. QED
        BY <4>1, <4>2
    <3>5. QED
      BY <3>4 DEF RecordedOK, Attempted
  <2>3. CASE SendAction(p)
    BY <2>3 DEF SendAction, storeVars, RecordedOK, Attempted
  <2>4. QED
    BY <1>2, <2>1, <2>2, <2>3, EngineSteps
<1>3. ASSUME NEW p \in Proc, StartStep(p) \/ ProcessStep(p) \/ Crash(p) PROVE RecordedOK'
  BY <1>1, <1>2, <1>3, CommandsQuiet, QuietKeepsRecorded DEF ProcessStep
<1>4. CASE BrokerMoves \/ ClockStep \/ UNCHANGED vars
  BY <1>1, <1>4, QuietStore, QuietKeepsRecorded DEF BrokerMoves, ClockStep, vars, storeVars,
     histVars
<1>5. QED
  BY <1>3, <1>4 DEF Next

(***************************************************************************)
(* The count, label by label.                                              *)
(***************************************************************************)

\* What a label is worth, for every round.
LEMMA LabelSteps ==
    ASSUME NEW r \in 1..6
    PROVE  /\ \A l \in Label : StepsAt(l, r) \in 0..42
           /\ \A l \in Label : StepsAt(l, r) = 0 <=> l = "idle"
           /\ StepsAt("attempt", r) = 7 * r
           /\ StepsAt("perform", r) = 7 * r - 1
           /\ StepsAt("outcome", r) = 7 * r - 2
           /\ StepsAt("settle", r) = 7 * r - 3
           /\ StepsAt("read", r) = 7 * r - 4
           /\ StepsAt("decide", r) = 7 * r - 5
           /\ StepsAt("ensure", r) = 7 * r - 6
<1>1. /\ StepsAt("attempt", r) = 7 * r
      /\ StepsAt("perform", r) = 7 * r - 1
      /\ StepsAt("outcome", r) = 7 * r - 2
      /\ StepsAt("settle", r) = 7 * r - 3
      /\ StepsAt("read", r) = 7 * r - 4
      /\ StepsAt("decide", r) = 7 * r - 5
      /\ StepsAt("ensure", r) = 7 * r - 6
  BY DEF StepsAt
<1>2. ASSUME NEW l \in Label
      PROVE  StepsAt(l, r) \in 0..42 /\ (StepsAt(l, r) = 0 <=> l = "idle")
  BY DEF StepsAt, Label
<1>3. QED
  BY <1>1, <1>2

\* The round of every state the engine works in.
LEMMA Rounds ==
    ASSUME NEW l, NEW m
    PROVE  /\ RoundAt(l, "EMERGENCY_EXIT_INTENT_PERSISTED", m) = 1
           /\ RoundAt(l, "EMERGENCY_EXIT_ATTEMPTED", m) = 1
           /\ RoundAt(l, "PROTECTION_CANCEL_INTENT_PERSISTED", m) = 2
           /\ RoundAt(l, "PROTECTION_CANCEL_ATTEMPTED", m) = 2
           /\ RoundAt(l, "PROTECTION_CANCEL_RECONCILING", m) = 2
           /\ RoundAt(l, "PROTECTION_INTENT_PERSISTED", m) = 3
           /\ RoundAt(l, "PROTECTION_ATTEMPTED", m) = 3
           /\ RoundAt(l, "PROTECTION_RECONCILING", m) = 3
           /\ RoundAt(l, "POSITION_PROTECTED", m) = 3
           /\ RoundAt(l, "REMAINDER_CANCEL_ATTEMPTED", m) = 4
           /\ RoundAt(l, "ENTRY_FILLED_UNPROTECTED", m) = 4
           /\ RoundAt(l, "ENTRY_RECONCILING", m) = IF l = "attempt" \/ m THEN 4 ELSE 5
           /\ RoundAt(l, "MARKET_ENTRY_ATTEMPTED", m) = 5
           /\ RoundAt(l, "ENTRY_INTENT_PERSISTED", m) = IF l = "attempt" THEN 5 ELSE 6
  BY DEF RoundAt

LEMMA RoundRange ==
    ASSUME NEW l, NEW s, NEW m
    PROVE  RoundAt(l, s, m) \in 1..6
  BY DEF RoundAt

\* Until it is idle, a process has a step left.
LEMMA StepsRange ==
    ASSUME TypeOK, NEW p \in Proc
    PROVE  StepsLeft(p) \in Nat /\ (StepsLeft(p) = 0 <=> pc[p] = "idle")
<1>1. pc[p] \in Label
  BY DEF TypeOK
<1>2. QED
  BY <1>1, RoundRange, LabelSteps DEF StepsLeft

\* A process that leaves has none.
LEMMA LeaveCounts ==
    ASSUME TypeOK, NEW p \in Proc, pc[p] # "idle", Leave(p)
    PROVE  StepsLeft(p)' < StepsLeft(p)
<1>1. pc'[p] = "idle"
  BY DEF Leave, TypeOK
<1>2. StepsLeft(p)' = 0
  BY <1>1 DEF StepsLeft, StepsAt
<1>3. QED
  BY <1>2, StepsRange

\* A process that goes on has those of the label and the state it goes on in.
LEMMA MoveCounts ==
    ASSUME TypeOK, NEW p \in Proc, NEW l, NEW c \in Cycle, NEW s, NEW m \in BOOLEAN,
           pc'[p] = l, ref'[p] = c, state'[c] = s,
           m <=> attempts'[c]["CANCEL_ENTRY_REMAINDER"] # "NONE"
    PROVE  StepsLeft(p)' = StepsAt(l, RoundAt(l, s, m))
<1>1. RemainderCancelSpent(c)' = m
  BY DEF RemainderCancelSpent, Attempted
<1>2. RemainderCancelSpent(ref[p])' = m
  BY <1>1 DEF RemainderCancelSpent, Attempted
<1>3. QED
  BY <1>2 DEF StepsLeft

\* So a step within the engine is judged by where it leads from and to.
LEMMA StepCounts ==
    ASSUME TypeOK, NEW p \in Proc, ref[p] \in Cycle, ref'[p] = ref[p],
           NEW k, NEW l, pc[p] = k, pc'[p] = l,
           NEW s, NEW t, state[ref[p]] = s, state'[ref[p]] = t,
           NEW m \in BOOLEAN, NEW n \in BOOLEAN,
           m <=> attempts[ref[p]]["CANCEL_ENTRY_REMAINDER"] # "NONE",
           n <=> attempts'[ref[p]]["CANCEL_ENTRY_REMAINDER"] # "NONE",
           StepsAt(l, RoundAt(l, t, n)) < StepsAt(k, RoundAt(k, s, m))
    PROVE  StepsLeft(p)' < StepsLeft(p)
<1>1. PICK c \in Cycle : c = ref[p]
  OBVIOUS
<1>2. StepsLeft(p)' = StepsAt(l, RoundAt(l, t, n))
  BY <1>1, MoveCounts
<1>3. StepsLeft(p) = StepsAt(k, RoundAt(k, s, m))
  BY <1>1 DEF StepsLeft, RemainderCancelSpent, Attempted
<1>4. QED
  BY <1>2, <1>3

\* The flag of the remainder's cancellation, before and after a step.
Spent(c) == attempts[c]["CANCEL_ENTRY_REMAINDER"] # "NONE"

\* The attempt is followed by its call in the same round.
LEMMA AttemptCounts ==
    ASSUME IInv, NEW p \in Proc, AttemptAction(p)
    PROVE  StepsLeft(p)' < StepsLeft(p)
<1>1. /\ TypeOK
      /\ pc[p] = "attempt" /\ ref[p] \in Cycle /\ state[ref[p]] \in IntentStates
  BY DEF AttemptAction, IInv, ProcOK, AtWork
<1>2. CASE Halt(p)
  BY <1>1, <1>2, LeaveCounts DEF Halt
<1>3. ASSUME RecordActionAttempt(ref[p], NextAction(state[ref[p]]), now), Goto(p, "perform")
      PROVE  StepsLeft(p)' < StepsLeft(p)
  <2>1. PICK s \in IntentStates : s = state[ref[p]]
    BY <1>1
  <2>2. /\ state'[ref[p]] = AttemptTarget(NextAction(s))
        /\ pc'[p] = "perform" /\ ref'[p] = ref[p]
    BY <1>1, <1>3, <2>1 DEF RecordActionAttempt, Goto, TypeOK, StoreTypeOK
  <2>3. PICK m \in BOOLEAN, n \in BOOLEAN : m = Spent(ref[p]) /\ n = Spent(ref[p])'
    BY DEF Spent
  <2>4. /\ RoundAt("perform", AttemptTarget(NextAction(s)), n) = RoundAt("attempt", s, m)
        /\ RoundAt("attempt", s, m) \in 1..6
    BY <2>1, Rounds, RoundRange DEF IntentStates, NextAction, AttemptTarget
  <2>5. StepsAt("perform", RoundAt("perform", AttemptTarget(NextAction(s)), n))
            < StepsAt("attempt", RoundAt("attempt", s, m))
    BY <2>4, LabelSteps
  <2>6. QED
    BY <1>1, <2>1, <2>2, <2>3, <2>5, StepCounts DEF Spent
<1>4. QED
  BY <1>2, <1>3 DEF AttemptAction

\* The state that records an attempt has one round, from the call to its end.
LEMMA AttemptedRound ==
    ASSUME NEW s \in AttemptedStates, NEW k, NEW l, NEW m, NEW n
    PROVE  RoundAt(k, s, m) = RoundAt(l, s, n) /\ RoundAt(k, s, m) \in 1..6
  BY Rounds DEF AttemptedStates

LEMMA PerformCounts ==
    ASSUME IInv, NEW p \in Proc, PerformAction(p)
    PROVE  StepsLeft(p)' < StepsLeft(p)
<1>1. /\ TypeOK
      /\ pc[p] = "perform" /\ ref[p] \in Cycle /\ state[ref[p]] \in AttemptedStates
  BY DEF PerformAction, IInv, ProcOK, AtWork
<1>2. CASE Halt(p)
  BY <1>1, <1>2, LeaveCounts DEF Halt
<1>3. CASE SendAction(p)
  <2>1. PICK s \in AttemptedStates : s = state[ref[p]]
    BY <1>1
  <2>2. /\ state'[ref[p]] = s /\ attempts' = attempts
        /\ pc'[p] = "outcome" /\ ref'[p] = ref[p]
    BY <1>1, <1>3, <2>1 DEF SendAction, Unread, storeVars, TypeOK
  <2>3. PICK m \in BOOLEAN : m = Spent(ref[p])
    BY DEF Spent
  <2>4. StepsAt("outcome", RoundAt("outcome", s, m)) < StepsAt("perform", RoundAt("perform", s, m))
    BY AttemptedRound, LabelSteps
  <2>5. QED
    BY <1>1, <2>1, <2>2, <2>3, <2>4, StepCounts DEF Spent
<1>4. QED
  BY <1>2, <1>3 DEF PerformAction

LEMMA OutcomeCounts ==
    ASSUME IInv, NEW p \in Proc, RecordOutcome(p)
    PROVE  StepsLeft(p)' < StepsLeft(p)
<1>1. /\ TypeOK
      /\ pc[p] = "outcome" /\ ref[p] \in Cycle /\ state[ref[p]] \in AttemptedStates
  BY DEF RecordOutcome, IInv, ProcOK, AtWork
<1>2. PICK s \in AttemptedStates, l \in {"read", "settle"} :
          s = state[ref[p]] /\ Goto(p, l)
  BY <1>1 DEF RecordOutcome
<1>3. /\ state'[ref[p]] = s
      /\ pc'[p] = l /\ ref'[p] = ref[p]
  BY <1>1, <1>2 DEF RecordOutcome, RecordActionOutcome, Goto, TypeOK
<1>4. PICK m \in BOOLEAN, n \in BOOLEAN : m = Spent(ref[p]) /\ n = Spent(ref[p])'
  BY DEF Spent
<1>5. StepsAt(l, RoundAt(l, s, n)) < StepsAt("outcome", RoundAt("outcome", s, m))
  BY AttemptedRound, LabelSteps
<1>6. QED
  BY <1>1, <1>2, <1>3, <1>4, <1>5, StepCounts DEF Spent

\* Of the two attempts that lead back to ENTRY_RECONCILING, the second is on
\* record by then: the entry is not waited for a third time.
LEMMA ReconcilingCounts ==
    ASSUME IInv, RecordedOK, NEW p \in Proc, EnterReconciling(p)
    PROVE  StepsLeft(p)' < StepsLeft(p)
<1>1. /\ TypeOK
      /\ pc[p] = "settle" /\ ref[p] \in Cycle
      /\ state[ref[p]] \in AttemptedStates \ {"EMERGENCY_EXIT_ATTEMPTED"}
  BY DEF EnterReconciling, IInv, ProcOK, AtWork
<1>2. PICK s \in AttemptedStates \ {"EMERGENCY_EXIT_ATTEMPTED"} : s = state[ref[p]]
  BY <1>1
<1>3. /\ state'[ref[p]] = ReconcilingState(s)
      /\ attempts' = attempts /\ pc'[p] = "read" /\ ref'[p] = ref[p]
  BY <1>1, <1>2 DEF EnterReconciling, Transition, Goto, TypeOK, StoreTypeOK
<1>4. PICK m \in BOOLEAN : m = Spent(ref[p])
  BY DEF Spent
<1>5. s = "REMAINDER_CANCEL_ATTEMPTED" => m
  BY <1>1, <1>2, <1>4 DEF RecordedOK, AttemptedAction, Attempted, Spent
<1>6. /\ RoundAt("read", ReconcilingState(s), m) <= RoundAt("settle", s, m)
      /\ RoundAt("read", ReconcilingState(s), m) \in 1..6
      /\ RoundAt("settle", s, m) \in 1..6
  BY <1>5, Rounds DEF AttemptedStates, ReconcilingState
<1>7. StepsAt("read", RoundAt("read", ReconcilingState(s), m))
          < StepsAt("settle", RoundAt("settle", s, m))
  BY <1>6, LabelSteps
<1>8. QED
  BY <1>1, <1>2, <1>3, <1>4, <1>7, StepCounts DEF Spent

LEMMA ReadCounts ==
    ASSUME IInv, NEW p \in Proc, ReadSnapshot(p)
    PROVE  StepsLeft(p)' < StepsLeft(p)
<1>1. /\ TypeOK /\ ref[p] \in Cycle /\ pc[p] = "read"
      /\ state' = state /\ attempts' = attempts /\ pc'[p] = "decide" /\ ref'[p] = ref[p]
  BY DEF ReadSnapshot, storeVars, IInv, ProcOK, AtWork, TypeOK
<1>2. PICK s \in ReadableStates : s = state[ref[p]]
  BY <1>1 DEF IInv, ProcOK
<1>3. PICK m \in BOOLEAN : m = Spent(ref[p])
  BY DEF Spent
<1>4. RoundAt("decide", s, m) = RoundAt("read", s, m) /\ RoundAt("read", s, m) \in 1..6
  BY Rounds DEF ReadableStates
<1>5. StepsAt("decide", RoundAt("decide", s, m)) < StepsAt("read", RoundAt("read", s, m))
  BY <1>4, LabelSteps
<1>6. QED
  BY <1>1, <1>2, <1>3, <1>5, StepCounts DEF Spent

\* Where a reconciliation goes on, other than out: m says that the remainder's
\* cancellation is on record.
Verdict(s, t, l, m) ==
    \/ s = "ENTRY_INTENT_PERSISTED" /\ t = s /\ l = "attempt"
    \/ s = "ENTRY_RECONCILING" /\ t = s /\ l = "attempt" /\ ~m
    \/ s = "ENTRY_RECONCILING" /\ t = "ENTRY_FILLED_UNPROTECTED" /\ l = "ensure"
    \/ /\ s \in {"PROTECTION_RECONCILING", "POSITION_PROTECTED"}
       /\ t \in {"PROTECTION_CANCEL_INTENT_PERSISTED", "EMERGENCY_EXIT_INTENT_PERSISTED"}
       /\ l = "attempt"
    \/ /\ s = "PROTECTION_CANCEL_RECONCILING"
       /\ t = "EMERGENCY_EXIT_INTENT_PERSISTED" /\ l = "attempt"

\* Each leads to an action of a later round, or to the attempt of its own.
LEMMA VerdictCounts ==
    ASSUME NEW s, NEW t, NEW l, NEW m \in BOOLEAN, Verdict(s, t, l, m)
    PROVE  StepsAt(l, RoundAt(l, t, m)) < StepsAt("decide", RoundAt("decide", s, m))
<1>1. /\ RoundAt(l, t, m) \in 1..6 /\ RoundAt("decide", s, m) \in 1..6
      /\ \/ l = "attempt" /\ RoundAt(l, t, m) < RoundAt("decide", s, m)
         \/ l = "ensure" /\ RoundAt(l, t, m) <= RoundAt("decide", s, m)
  BY Rounds DEF Verdict
<1>2. QED
  BY <1>1, LabelSteps

\* Every reconciliation leaves or reaches one of these verdicts.
LEMMA ReconcileVerdict ==
    ASSUME IInv, NEW p \in Proc, Reconcile(p)
    PROVE  \/ Leave(p)
           \/ /\ ref'[p] = ref[p] /\ attempts' = attempts
              /\ Verdict(state[ref[p]], state'[ref[p]], pc'[p], Spent(ref[p]))
<1> DEFINE c == ref[p]
           s == snap[p]
           Goes(l) == pc' = [pc EXCEPT ![p] = l] /\ ref' = ref /\ attempts' = attempts
           Stays == state' = state
           Turns(t) == state' = [state EXCEPT ![c] = t]
<1>1. /\ c \in Cycle
      /\ state \in [Cycle -> CycleState \cup {Absent}] /\ pc \in [Proc -> Label]
  BY DEF Reconcile, IInv, ProcOK, AtWork, TypeOK, StoreTypeOK
<1>2. ASSUME Halt(p) \/ FinishFlat(p, filledSize[c], protectedSize[c]) \/ FinishFlat(p, 0, 0)
      PROVE  Leave(p)
  BY <1>2 DEF Halt, FinishFlat
<1>3. ASSUME StartEmergencyExit(p)
      PROVE  Goes("attempt") /\ Turns("EMERGENCY_EXIT_INTENT_PERSISTED")
  BY <1>3 DEF StartEmergencyExit, Transition, Unread
<1>4. ASSUME StartProtectionCancel(p, s)
      PROVE  Goes("attempt") /\ Turns("PROTECTION_CANCEL_INTENT_PERSISTED")
  BY <1>4 DEF StartProtectionCancel, TransitionSized, Unread
<1>5. ASSUME RestartEntryPreflight(p, c, s)
      PROVE  Leave(p) \/ (Goes("attempt") /\ Stays)
  BY <1>2, <1>5 DEF RestartEntryPreflight, Unread, storeVars
<1>6. ASSUME ReconcileEntry(p, c, s)
      PROVE  \/ Leave(p)
             \/ Goes("attempt") /\ Stays /\ ~Spent(c)
             \/ Goes("ensure") /\ Turns("ENTRY_FILLED_UNPROTECTED")
  BY <1>2, <1>6 DEF ReconcileEntry, Goto, Unread, TransitionSized, storeVars,
     RemainderCancelSpent, Attempted, Spent
<1>7. ASSUME \/ ReconcileProtection(p, c, s)
             \/ ReconcileProtectedPosition(p, c, s)
      PROVE  Leave(p) \/ StartEmergencyExit(p) \/ StartProtectionCancel(p, s)
  BY <1>2, <1>7 DEF ReconcileProtection, ReconcileProtectedPosition, TransitionSized
<1>8. ASSUME ReconcileCancelledProtection(p, c, s)
      PROVE  Leave(p) \/ StartEmergencyExit(p)
  BY <1>2, <1>8 DEF ReconcileCancelledProtection
<1>9. ASSUME ReconcileEmergencyExit(p, c, s)
      PROVE  Leave(p)
  BY <1>2, <1>9 DEF ReconcileEmergencyExit
<1>10. \/ Leave(p)
       \/ state[c] = "ENTRY_INTENT_PERSISTED" /\ Goes("attempt") /\ Stays
       \/ state[c] = "ENTRY_RECONCILING" /\ Goes("attempt") /\ Stays /\ ~Spent(c)
       \/ /\ state[c] = "ENTRY_RECONCILING"
          /\ Goes("ensure") /\ Turns("ENTRY_FILLED_UNPROTECTED")
       \/ /\ state[c] \in {"PROTECTION_RECONCILING", "POSITION_PROTECTED"}
          /\ Goes("attempt")
          /\ \E t \in {"PROTECTION_CANCEL_INTENT_PERSISTED",
                       "EMERGENCY_EXIT_INTENT_PERSISTED"} : Turns(t)
       \/ /\ state[c] = "PROTECTION_CANCEL_RECONCILING"
          /\ Goes("attempt") /\ Turns("EMERGENCY_EXIT_INTENT_PERSISTED")
  <2> HIDE DEF Goes, Stays, Turns
  <2>1. QED
    BY <1>3, <1>4, <1>5, <1>6, <1>7, <1>8, <1>9 DEF Reconcile
<1>11. QED
  BY <1>1, <1>10 DEF Verdict

LEMMA ReconcileCounts ==
    ASSUME IInv, NEW p \in Proc, Reconcile(p)
    PROVE  StepsLeft(p)' < StepsLeft(p)
<1>1. TypeOK /\ pc[p] = "decide" /\ ref[p] \in Cycle
  BY DEF Reconcile, IInv, ProcOK, AtWork
<1>2. CASE Leave(p)
  BY <1>1, <1>2, LeaveCounts
<1>3. ASSUME ref'[p] = ref[p], attempts' = attempts,
             Verdict(state[ref[p]], state'[ref[p]], pc'[p], Spent(ref[p]))
      PROVE  StepsLeft(p)' < StepsLeft(p)
  <2>1. PICK s, t, l : s = state[ref[p]] /\ t = state'[ref[p]] /\ l = pc'[p]
    OBVIOUS
  <2>2. PICK m \in BOOLEAN : m = Spent(ref[p])
    BY DEF Spent
  <2>3. StepsAt(l, RoundAt(l, t, m)) < StepsAt("decide", RoundAt("decide", s, m))
    BY <1>3, <2>1, <2>2, VerdictCounts
  <2>4. QED
    BY <1>1, <1>3, <2>1, <2>2, <2>3, StepCounts DEF Spent
<1>4. QED
  BY <1>2, <1>3, ReconcileVerdict

LEMMA EnsureCounts ==
    ASSUME IInv, NEW p \in Proc, EnsureProtection(p)
    PROVE  StepsLeft(p)' < StepsLeft(p)
<1>1. /\ TypeOK /\ pc[p] = "ensure" /\ ref[p] \in Cycle
      /\ state[ref[p]] = "ENTRY_FILLED_UNPROTECTED"
  BY DEF EnsureProtection, IInv, ProcOK, AtWork
<1>2. CASE Halt(p)
  BY <1>1, <1>2, LeaveCounts DEF Halt
<1>3. ASSUME ~Halt(p)
      PROVE  StepsLeft(p)' < StepsLeft(p)
  <2>1. PICK t \in {"PROTECTION_INTENT_PERSISTED", "EMERGENCY_EXIT_INTENT_PERSISTED"} :
            Transition(ref[p], t) /\ pc' = [pc EXCEPT ![p] = "attempt"] /\ ref' = ref
    BY <1>3 DEF EnsureProtection, StartEmergencyExit, Goto, Unread
  <2>2. /\ state'[ref[p]] = t /\ attempts' = attempts
        /\ pc'[p] = "attempt" /\ ref'[p] = ref[p]
    BY <1>1, <2>1 DEF Transition, TypeOK, StoreTypeOK
  <2>3. PICK m \in BOOLEAN : m = Spent(ref[p])
    BY DEF Spent
  <2>4. /\ RoundAt("attempt", t, m) \in 1..3
        /\ RoundAt("ensure", "ENTRY_FILLED_UNPROTECTED", m) = 4
    BY <2>1, Rounds
  <2>5. StepsAt("attempt", RoundAt("attempt", t, m))
            < StepsAt("ensure", RoundAt("ensure", "ENTRY_FILLED_UNPROTECTED", m))
    BY <2>4, LabelSteps
  <2>6. QED
    BY <1>1, <2>2, <2>3, <2>5, StepCounts DEF Spent
<1>4. QED
  BY <1>2, <1>3

(***************************************************************************)
(* The command lines around the engine.                                    *)
(***************************************************************************)

\* A resume joins its cycle somewhere in the engine.
LEMMA ResumeCounts ==
    ASSUME IInv, NEW p \in Proc, ResumeGate(p)
    PROVE  StepsLeft(p)' < StepsLeft(p)
<1>1. TypeOK /\ pc[p] = "resume"
  BY DEF ResumeGate, IInv
<1>2. CASE Leave(p)
  BY <1>1, <1>2, LeaveCounts
<1>3. ASSUME NEW c \in ActiveCycles,
             ref' = [ref EXCEPT ![p] = c], pc' = [pc EXCEPT ![p] = ResumePoint(state[c])],
             UNCHANGED storeVars
      PROVE  StepsLeft(p)' < StepsLeft(p)
  <2>1. c \in Cycle /\ state[c] \in ActiveStates
    BY DEF ActiveCycles
  <2>2. PICK s, l : s \in ActiveStates /\ s = state[c] /\ l = ResumePoint(s)
    BY <2>1
  <2>3. PICK m \in BOOLEAN : m = Spent(c)
    BY DEF Spent
  <2>4. /\ state'[c] = s /\ attempts' = attempts
        /\ pc'[p] = l /\ ref'[p] = c
    BY <1>1, <1>3, <2>2 DEF storeVars, TypeOK
  <2>5. StepsLeft(p)' = StepsAt(l, RoundAt(l, s, m))
    BY <1>1, <2>1, <2>3, <2>4, MoveCounts DEF Spent
  <2>6. StepsLeft(p) = 39
    BY <1>1 DEF StepsLeft, StepsAt
  <2>7. /\ l \in {"attempt", "settle", "ensure", "read"}
        /\ RoundAt(l, s, m) \in 1..6
        /\ l \in {"attempt", "settle"} => RoundAt(l, s, m) \in 1..5
    BY <2>2, Rounds, RoundRange, ResumeFacts DEF AttemptedStates, IntentStates
  <2>8. StepsAt(l, RoundAt(l, s, m)) < 39
    BY <2>7, LabelSteps
  <2>9. QED
    BY <2>5, <2>6, <2>8
<1>4. QED
  BY <1>2, <1>3 DEF ResumeGate, NotificationFails

LEMMA CreateCounts ==
    ASSUME IInv, NEW p \in Proc, CreateCycleStep(p)
    PROVE  StepsLeft(p)' < StepsLeft(p)
<1>1. TypeOK /\ pc[p] = "create" /\ ref[p] \in Cycle
  BY DEF CreateCycleStep, IInv, ProcOK
<1>2. CASE Leave(p)
  BY <1>1, <1>2, LeaveCounts
<1>3. ASSUME NEW d, CreateCycle(ref[p], d), Goto(p, "attempt")
      PROVE  StepsLeft(p)' < StepsLeft(p)
  <2>1. PICK c \in Cycle : c = ref[p]
    BY <1>1
  <2>2. PICK m \in BOOLEAN : m = Spent(c)
    BY DEF Spent
  <2>3. /\ state'[c] = "ENTRY_INTENT_PERSISTED" /\ attempts' = attempts
        /\ pc'[p] = "attempt" /\ ref'[p] = c
    BY <1>1, <1>3, <2>1 DEF CreateCycle, Goto, TypeOK, StoreTypeOK
  <2>4. StepsLeft(p)' = StepsAt("attempt", RoundAt("attempt", "ENTRY_INTENT_PERSISTED", m))
    BY <1>1, <2>2, <2>3, MoveCounts DEF Spent
  <2>5. StepsLeft(p)' = 35
    BY <2>4, Rounds, LabelSteps
  <2>6. StepsLeft(p) = 36
    BY <1>1 DEF StepsLeft, StepsAt
  <2>7. QED
    BY <2>5, <2>6
<1>4. QED
  BY <1>2, <1>3 DEF CreateCycleStep

\* The labels before and after the engine follow one another.
LEMMA CommandCounts ==
    ASSUME IInv, NEW p \in Proc,
           \/ RunGate(p) \/ BootReconcile(p) \/ RiskGate(p) \/ ReloadGate(p)
           \/ ClearHalted(p) \/ ClearGlobal(p)
    PROVE  StepsLeft(p)' < StepsLeft(p)
<1>1. TypeOK /\ pc[p] # "idle"
  BY DEF IInv, RunGate, BootReconcile, RiskGate, ReloadGate, ClearHalted, ClearGlobal
<1>2. CASE Leave(p)
  BY <1>1, <1>2, LeaveCounts
<1>3. ASSUME NEW k, NEW l, pc[p] = k, pc' = [pc EXCEPT ![p] = l],
             <<k, l>> \in {<<"run", "boot">>, <<"boot", "risk">>, <<"risk", "create">>,
                           <<"reload", "clear">>, <<"reload", "clearGlobal">>,
                           <<"clear", "clearGlobal">>}
      PROVE  StepsLeft(p)' < StepsLeft(p)
  <2>1. pc'[p] = l
    BY <1>1, <1>3 DEF TypeOK
  <2>2. \A r, q : StepsAt(l, q) < StepsAt(k, r)
    BY <1>3 DEF StepsAt
  <2>3. QED
    BY <1>3, <2>1, <2>2 DEF StepsLeft
<1>4. CASE RunGate(p)
  BY <1>2, <1>3, <1>4 DEF RunGate, NotificationFails, Goto
<1>5. CASE BootReconcile(p)
  BY <1>2, <1>3, <1>5 DEF BootReconcile, Goto
<1>6. CASE RiskGate(p)
  BY <1>2, <1>3, <1>6 DEF RiskGate
<1>7. CASE ReloadGate(p)
  BY <1>2, <1>3, <1>7 DEF ReloadGate, Goto
<1>8. CASE ClearHalted(p)
  BY <1>3, <1>8 DEF ClearHalted, Goto
<1>9. CASE ClearGlobal(p)
  BY <1>2, <1>9 DEF ClearGlobal
<1>10. QED
  BY <1>4, <1>5, <1>6, <1>7, <1>8, <1>9

\* Every step of a process counts.
LEMMA ProcessCounts ==
    ASSUME IInv, RecordedOK, NEW p \in Proc, ProcessStep(p)
    PROVE  StepsLeft(p)' < StepsLeft(p)
<1>1. CASE EngineStep(p)
  BY <1>1, AttemptCounts, PerformCounts, OutcomeCounts, ReconcilingCounts, ReadCounts,
     ReconcileCounts, EnsureCounts DEF EngineStep
<1>2. QED
  BY <1>1, CommandCounts, CreateCounts, ResumeCounts DEF ProcessStep

\* Whoever is not at work waits for the lock, and the broker and the clock do
\* not touch what is counted.
LEMMA OthersDoNotCount ==
    ASSUME IInv, RecordedOK, Next, NEW p \in Proc, pc[p] # "idle"
    PROVE  StepsLeft(p)' <= StepsLeft(p)
<1>1. TypeOK /\ LockInv /\ p \in lock
  BY DEF IInv, LockInv
<1>2. StepsLeft(p) \in Nat
  BY <1>1, StepsRange
<1>3. ASSUME NEW q \in Proc, StartStep(q) PROVE FALSE
  BY <1>1, <1>3 DEF StartStep, Start, LockFree
<1>4. ASSUME NEW q \in Proc, ProcessStep(q) \/ Crash(q) PROVE q = p
  <2>1. pc[q] # "idle"
    BY <1>4 DEF ProcessStep, Crash, RunGate, BootReconcile, RiskGate, CreateCycleStep,
       ResumeGate, ReloadGate, ClearHalted, ClearGlobal, EngineStep, AttemptAction,
       PerformAction, RecordOutcome, EnterReconciling, ReadSnapshot, Reconcile,
       EnsureProtection
  <2>2. QED
    BY <1>1, <2>1, OthersIdle
<1>5. StepsLeft(p)' \in Nat
  <2>1. pc'[p] \in Label
    BY NextInv DEF IInv, TypeOK
  <2>2. QED
    BY <2>1, RoundRange, LabelSteps DEF StepsLeft
<1>6. CASE ProcessStep(p)
  BY <1>2, <1>5, <1>6, ProcessCounts
<1>7. CASE Crash(p)
  BY <1>1, <1>2, <1>5, <1>7, LeaveCounts DEF Crash
<1>8. CASE BrokerMoves \/ ClockStep
  <2>1. StepsLeft(p)' = StepsLeft(p)
    BY <1>8 DEF BrokerMoves, ClockStep, storeVars, procVars, StepsLeft, RemainderCancelSpent,
       Attempted
  <2>2. QED
    BY <1>2, <2>1
<1>9. QED
  BY <1>3, <1>4, <1>6, <1>7, <1>8 DEF Next

\* Every command line ends after at most MaxSteps steps of its own, whatever
\* the broker shows it, whichever processes stand beside it and whoever
\* crashes: the engine never waits in a loop, and never starts a round again.
THEOREM CommandLinesEnd == Spec => RunsAreBounded
<1>1. Init => RecordedOK
  BY RecordedInit
<1>2. IInv /\ RecordedOK /\ [Next]_vars => RecordedOK'
  BY RecordedNext
<1>3. IInv /\ RecordedOK /\ [Next]_vars =>
          [\A p \in Proc :
              /\ ProcessStep(p) => StepsLeft(p)' < StepsLeft(p)
              /\ pc[p] # "idle" => StepsLeft(p)' <= StepsLeft(p)]_vars
  BY ProcessCounts, OthersDoNotCount
<1>4. QED
  BY <1>1, <1>2, <1>3, Invariance, PTL DEF Spec, RunsAreBounded

\* The count is what it says: it is between none and MaxSteps, and it is none
\* exactly when the process is idle.
THEOREM StepsAreCounted ==
    Spec => [](\A p \in Proc : /\ StepsLeft(p) \in 0..MaxSteps
                               /\ StepsLeft(p) = 0 <=> pc[p] = "idle")
<1>1. IInv => \A p \in Proc : /\ StepsLeft(p) \in 0..MaxSteps
                              /\ StepsLeft(p) = 0 <=> pc[p] = "idle"
  <2> SUFFICES ASSUME IInv, NEW p \in Proc
               PROVE  /\ StepsLeft(p) \in 0..MaxSteps
                      /\ StepsLeft(p) = 0 <=> pc[p] = "idle"
    OBVIOUS
  <2>1. TypeOK /\ pc[p] \in Label /\ ProcOK(p)
    BY DEF IInv, TypeOK
  <2>2. PICK l, s, m : l = pc[p] /\ s = state[ref[p]] /\ m = RemainderCancelSpent(ref[p])
    OBVIOUS
  <2>3. RoundAt(l, s, m) \in 1..6
    BY RoundRange
  <2>4. l \in {"attempt", "perform", "outcome", "settle"} => RoundAt(l, s, m) \in 1..5
    BY <2>1, <2>2, Rounds DEF ProcOK, IntentStates, AttemptedStates
  <2>5. StepsAt(l, RoundAt(l, s, m)) \in 0..MaxSteps
    BY <2>1, <2>2, <2>3, <2>4 DEF StepsAt, Label, MaxSteps
  <2>6. QED
    BY <2>1, <2>2, <2>5, StepsRange DEF StepsLeft
<1>2. QED
  BY <1>1, Invariance, PTL

(***************************************************************************)
(* Until it ends a command line has a next step.  CommandOK adds to IInv   *)
(* what the two commands rely on that go on without looking again.         *)
(***************************************************************************)

\* What the two commands that go on without looking again rely on.
CommandOK ==
    \A p \in Proc :
        /\ pc[p] = "clear" => HaltedCycles # {}
        /\ pc[p] = "create" => risk.entries > 0

LEMMA RollTyped ==
    ASSUME risk \in RiskState, NEW d \in Nat
    PROVE  RollCalendar(risk, d) \in RiskState
<1>1. RollDay(risk, d) \in RiskState
  BY DEF RollDay, RiskState, StopState
<1>2. Month(d) \in Nat
  BY RiskPolicyAssumption DEF Month
<1>3. QED
  BY <1>1, <1>2 DEF RollCalendar, RollMonth, RiskState

LEMMA CommandInit == Init => CommandOK
  BY DEF Init, CommandOK

\* Where a step of a process leads.
LEMMA EngineLeads ==
    ASSUME TypeOK, NEW p \in Proc, EngineStep(p)
    PROVE  \E l \in AtWork \cup {"idle"} : pc' = [pc EXCEPT ![p] = l]
<1>1. CASE AttemptAction(p)
  BY <1>1 DEF AttemptAction, Halt, Leave, Goto, AtWork
<1>2. CASE PerformAction(p)
  BY <1>2 DEF PerformAction, SendAction, Unread, Halt, Leave, AtWork
<1>3. CASE RecordOutcome(p)
  BY <1>3 DEF RecordOutcome, Goto, AtWork
<1>4. CASE EnterReconciling(p) \/ ReadSnapshot(p)
  BY <1>4 DEF EnterReconciling, ReadSnapshot, Goto, AtWork
<1>5. CASE Reconcile(p)
  BY <1>5 DEF Reconcile, RestartEntryPreflight, ReconcileEntry, ReconcileProtection,
     ReconcileCancelledProtection, ReconcileEmergencyExit, ReconcileProtectedPosition,
     FinishFlat, StartEmergencyExit, StartProtectionCancel, Halt, Leave, Goto, Unread, AtWork
<1>6. CASE EnsureProtection(p)
  BY <1>6 DEF EnsureProtection, StartEmergencyExit, Halt, Leave, Goto, Unread, AtWork
<1>7. QED
  BY <1>1, <1>2, <1>3, <1>4, <1>5, <1>6 DEF EngineStep

\* Only the two gates lead to the labels concerned.
LEMMA CommandGoes ==
    ASSUME IInv, NEW p \in Proc, StartStep(p) \/ ProcessStep(p) \/ Crash(p)
    PROVE  /\ \A q \in Proc : q # p => pc'[q] = "idle"
           /\ pc'[p] = "clear" => ReloadGate(p) /\ HaltedCycles # {}
           /\ pc'[p] = "create" => RiskGate(p) /\ ~Leave(p)
<1>1. TypeOK /\ LockInv /\ pc \in [Proc -> Label]
  BY DEF IInv, TypeOK
<1>2. ASSUME NEW l, pc' = [pc EXCEPT ![p] = l], l \notin {"clear", "create"},
             StartStep(p) \/ pc[p] # "idle"
      PROVE  /\ \A q \in Proc : q # p => pc'[q] = "idle"
             /\ pc'[p] \notin {"clear", "create"}
  <2>1. \A q \in Proc : q # p => pc[q] = "idle"
    BY <1>1, <1>2, OthersIdle DEF StartStep, Start, LockFree, LockInv
  <2>2. QED
    BY <1>1, <1>2, <2>1
<1>3. CASE StartStep(p)
  <2>1. PICK l \in {"run", "resume", "reload"} : pc' = [pc EXCEPT ![p] = l]
    BY <1>3 DEF StartStep, Start
  <2>2. QED
    BY <1>2, <1>3, <2>1
<1>4. ASSUME Leave(p), pc[p] # "idle"
      PROVE  /\ \A q \in Proc : q # p => pc'[q] = "idle"
             /\ pc'[p] \notin {"clear", "create"}
  <2>1. PICK l \in {"idle"} : pc' = [pc EXCEPT ![p] = l] /\ pc[p] # "idle"
    BY <1>4 DEF Leave
  <2>2. QED
    BY <1>2, <2>1
<1>5. CASE EngineStep(p)
  <2>1. PICK l \in AtWork \cup {"idle"} : pc' = [pc EXCEPT ![p] = l]
    BY <1>1, <1>5, EngineLeads
  <2>2. pc[p] # "idle"
    BY <1>5 DEF EngineStep, AttemptAction, PerformAction, RecordOutcome, EnterReconciling,
       ReadSnapshot, Reconcile, EnsureProtection
  <2>3. QED
    BY <1>2, <2>1, <2>2 DEF AtWork
<1>6. CASE RunGate(p) \/ BootReconcile(p) \/ CreateCycleStep(p) \/ ClearHalted(p) \/ ClearGlobal(p)
  <2>1. \/ Leave(p) /\ pc[p] # "idle"
        \/ /\ pc[p] # "idle"
           /\ \E l \in {"boot", "risk", "attempt", "clearGlobal"} : pc' = [pc EXCEPT ![p] = l]
    BY <1>6 DEF RunGate, BootReconcile, CreateCycleStep, ClearHalted, ClearGlobal,
       NotificationFails, Goto
  <2>2. QED
    BY <1>2, <1>4, <2>1
<1>7. CASE ResumeGate(p)
  <2>1. \/ Leave(p)
        \/ \E c \in ActiveCycles : pc' = [pc EXCEPT ![p] = ResumePoint(state[c])]
    BY <1>7 DEF ResumeGate, NotificationFails
  <2>2. \A c \in ActiveCycles : ResumePoint(state[c]) \notin {"clear", "create"}
    BY ResumeFacts DEF ActiveCycles
  <2>3. pc[p] # "idle"
    BY <1>7 DEF ResumeGate
  <2>4. QED
    BY <1>2, <1>4, <2>1, <2>2, <2>3
<1>8. CASE RiskGate(p) /\ ~Leave(p)
  <2>1. pc' = [pc EXCEPT ![p] = "create"] /\ pc[p] # "idle"
    BY <1>8 DEF RiskGate
  <2>2. \A q \in Proc : q # p => pc'[q] = "idle"
    BY <1>1, <2>1, OthersIdle
  <2>3. QED
    BY <1>1, <1>8, <2>1, <2>2
<1>9. CASE ReloadGate(p) /\ ~Leave(p)
  <2>1. /\ pc[p] # "idle"
        /\ pc' = [pc EXCEPT ![p] = IF HaltedCycles # {} THEN "clear" ELSE "clearGlobal"]
    BY <1>9 DEF ReloadGate, Goto
  <2>2. \A q \in Proc : q # p => pc'[q] = "idle"
    BY <1>1, <2>1, OthersIdle
  <2>3. QED
    BY <1>1, <1>9, <2>1, <2>2
<1>10. RiskGate(p) \/ ReloadGate(p) => pc[p] # "idle"
  BY DEF RiskGate, ReloadGate
<1>11. CASE RiskGate(p)
  BY <1>4, <1>8, <1>10, <1>11
<1>12. CASE ReloadGate(p)
  BY <1>4, <1>9, <1>10, <1>12
<1>13. CASE Crash(p)
  BY <1>4, <1>13 DEF Crash
<1>14. CASE ProcessStep(p)
  BY <1>5, <1>6, <1>7, <1>11, <1>12, <1>14 DEF ProcessStep
<1>15. QED
  BY <1>3, <1>13, <1>14

LEMMA CommandNext == IInv /\ CommandOK /\ [Next]_vars => CommandOK'
<1> SUFFICES ASSUME IInv, CommandOK, [Next]_vars PROVE CommandOK'
  OBVIOUS
<1>1. ASSUME NEW p \in Proc, StartStep(p) \/ ProcessStep(p) \/ Crash(p)
      PROVE  CommandOK'
  <2>1. /\ \A q \in Proc : q # p => pc'[q] = "idle"
        /\ pc'[p] = "clear" => ReloadGate(p) /\ HaltedCycles # {}
        /\ pc'[p] = "create" => RiskGate(p) /\ ~Leave(p)
    BY <1>1, CommandGoes
  <2>2. ReloadGate(p) /\ HaltedCycles # {} => HaltedCycles' # {}
    BY DEF ReloadGate, storeVars, HaltedCycles
  <2>3. RiskGate(p) /\ ~Leave(p) => risk'.entries > 0
    <3> SUFFICES ASSUME RiskGate(p), ~Leave(p) PROVE risk'.entries > 0
      OBVIOUS
    <3>1. risk \in RiskState /\ startedAt[p] \in Nat
      BY DEF RiskGate, IInv, TypeOK, ProcOK
    <3>2. Day(startedAt[p]) \in Nat
      BY <3>1, DayTyped
    <3>3. risk' = RecordEntry(risk, Day(startedAt[p]))
      BY DEF RiskGate
    <3>4. RollCalendar(risk, Day(startedAt[p])).entries \in Nat
      BY <3>1, <3>2, RollTyped DEF RiskState
    <3>5. QED
      BY <3>3, <3>4 DEF RecordEntry
  <2>4. QED
    BY <2>1, <2>2, <2>3 DEF CommandOK
<1>2. CASE BrokerMoves \/ ClockStep \/ UNCHANGED vars
  BY <1>2 DEF BrokerMoves, ClockStep, vars, storeVars, procVars, CommandOK, HaltedCycles
<1>3. QED
  BY <1>1, <1>2 DEF Next

\* The step w describes is taken.
Done(w) == storeVars' = w[1] /\ procVars' = w[2]

LEMMA LeaveHappens ==
    ASSUME NEW p \in Proc, procVars' = Out(p)
    PROVE  Leave(p)
  BY DEF Out, procVars, Leave

LEMMA GotoHappens ==
    ASSUME NEW p \in Proc, NEW l, procVars' = To(p, l)
    PROVE  Goto(p, l)
  BY DEF To, procVars, Goto

LEMMA UnreadHappens ==
    ASSUME NEW p \in Proc, NEW l, procVars' = ToReading(p, l, UnknownSnapshot)
    PROVE  Unread(p, l)
  BY DEF ToReading, procVars, Unread

LEMMA TransitionHappens ==
    ASSUME NEW c \in Cycle, NEW t, AllowedTransition(state[c], t), storeVars' = Turned(c, t)
    PROVE  Transition(c, t)
  BY DEF Turned, Stored, storeVars, Transition

LEMMA TransitionSizedHappens ==
    ASSUME NEW c \in Cycle, NEW t, NEW f, NEW g, NEW time, AllowedTransition(state[c], t),
           storeVars' = TurnedSized(c, t, f, g, time)
    PROVE  TransitionSized(c, t, f, g, time)
  BY DEF TurnedSized, Stored, storeVars, TransitionSized

LEMMA HaltHappens ==
    ASSUME NEW p \in Proc, ref[p] \in Cycle, state[ref[p]] \in ActiveStates,
           Done(HaltNext(p))
    PROVE  Halt(p)
<1>1. storeVars' = Turned(ref[p], Halted) /\ procVars' = Out(p)
  BY DEF Done, HaltNext
<1>2. AllowedTransition(state[ref[p]], Halted)
  BY DEF AllowedTransition
<1>3. QED
  BY <1>1, <1>2, TransitionHappens, LeaveHappens DEF Halt

LEMMA FlatHappens ==
    ASSUME NEW p \in Proc, ref[p] \in Cycle, NEW f, NEW g,
           AllowedTransition(state[ref[p]], Flat), Done(FlatNext(p, f, g))
    PROVE  FinishFlat(p, f, g)
<1>1. storeVars' = TurnedSized(ref[p], Flat, f, g, NoTime) /\ procVars' = Out(p)
  BY DEF Done, FlatNext
<1>2. QED
  BY <1>1, TransitionSizedHappens, LeaveHappens DEF FinishFlat

LEMMA ExitHappens ==
    ASSUME NEW p \in Proc, ref[p] \in Cycle,
           AllowedTransition(state[ref[p]], "EMERGENCY_EXIT_INTENT_PERSISTED"),
           Done(ExitNext(p))
    PROVE  StartEmergencyExit(p)
<1>1. /\ storeVars' = Turned(ref[p], "EMERGENCY_EXIT_INTENT_PERSISTED")
      /\ procVars' = ToReading(p, "attempt", UnknownSnapshot)
  BY DEF Done, ExitNext
<1>2. QED
  BY <1>1, TransitionHappens, UnreadHappens DEF StartEmergencyExit

LEMMA CancelHappens ==
    ASSUME NEW p \in Proc, ref[p] \in Cycle,
           AllowedTransition(state[ref[p]], "PROTECTION_CANCEL_INTENT_PERSISTED"),
           Done(CancelNext(p))
    PROVE  StartProtectionCancel(p, snap[p])
<1>1. /\ storeVars' = TurnedSized(ref[p], "PROTECTION_CANCEL_INTENT_PERSISTED",
                                  filledSize[ref[p]], snap[p].protection, NoTime)
      /\ procVars' = ToReading(p, "attempt", UnknownSnapshot)
  BY DEF Done, CancelNext
<1>2. QED
  BY <1>1, TransitionSizedHappens, UnreadHappens DEF StartProtectionCancel

\* What each of the engine's transitions relies on.
LEMMA EngineTable ==
    /\ \A s \in {"PROTECTION_RECONCILING", "POSITION_PROTECTED"} :
          /\ AllowedTransition(s, "PROTECTION_CANCEL_INTENT_PERSISTED")
          /\ AllowedTransition(s, "EMERGENCY_EXIT_INTENT_PERSISTED")
    /\ AllowedTransition("PROTECTION_CANCEL_RECONCILING", "EMERGENCY_EXIT_INTENT_PERSISTED")
    /\ AllowedTransition("ENTRY_FILLED_UNPROTECTED", "EMERGENCY_EXIT_INTENT_PERSISTED")
    /\ AllowedTransition("ENTRY_FILLED_UNPROTECTED", "PROTECTION_INTENT_PERSISTED")
    /\ AllowedTransition("ENTRY_RECONCILING", "ENTRY_FILLED_UNPROTECTED")
    /\ AllowedTransition("PROTECTION_RECONCILING", "POSITION_PROTECTED")
    /\ \A s \in {"ENTRY_RECONCILING", "PROTECTION_RECONCILING", "PROTECTION_CANCEL_RECONCILING",
                 "EMERGENCY_EXIT_ATTEMPTED", "POSITION_PROTECTED"} : AllowedTransition(s, Flat)
    /\ \A s \in AttemptedStates \ {"EMERGENCY_EXIT_ATTEMPTED"} :
          AllowedTransition(s, ReconcilingState(s))
    /\ AllowedTransition(Halted, Cleared)
    /\ ReadableStates \cup AttemptedStates \cup IntentStates \cup {"ENTRY_FILLED_UNPROTECTED"}
          \subseteq ActiveStates
  BY DEF AllowedTransition, NextStates, AttemptedStates, ReconcilingState, Halted, Flat, Cleared,
     ReadableStates, IntentStates, ActiveStates, CycleState

LEMMA AttemptHappens ==
    ASSUME IInv, NEW p \in Proc, pc[p] = "attempt",
           Done(AttemptNext(p, ref[p], NextAction(state[ref[p]]))),
           UNCHANGED <<brokerVars, histVars, now>>
    PROVE  AttemptAction(p)
<1> DEFINE c == ref[p]
           a == NextAction(state[c])
<1>1. c \in Cycle /\ state[c] \in IntentStates
  BY DEF IInv, ProcOK, AtWork
<1>2. /\ AttemptAllowed(c, a)
      /\ PlanSize(p, a) > 0 \/ a \in SizeChecked
  BY AttemptAdmitted DEF StoreNeverRefuses
<1>3. a \in Action
  BY <1>1 DEF IntentStates, NextAction, Action
<1>4. PlanSize(p, a) \in Nat
  BY <1>1, <1>3, TypeParts, PlanSizeTyped DEF IInv, TypeOK
<1> HIDE DEF a
<1>5. CASE PlanSize(p, a) = 0
  <2>1. Done(HaltNext(p))
    BY <1>5 DEF AttemptNext, a
  <2>2. state[c] \in ActiveStates
    BY <1>1, EngineTable
  <2>3. Halt(p)
    BY <1>1, <2>1, <2>2, HaltHappens
  <2>4. QED
    BY <1>2, <1>4, <1>5, <2>3 DEF AttemptAction, a
<1>6. CASE PlanSize(p, a) # 0
  <2>1. storeVars' = Tried(c, a) /\ procVars' = To(p, "perform")
    BY <1>6 DEF AttemptNext, Done, a
  <2>2. Goto(p, "perform")
    BY <2>1, GotoHappens
  <2>3. RecordActionAttempt(c, a, now)
    BY <1>2, <2>1 DEF Tried, Stored, storeVars, RecordActionAttempt
  <2>4. PlanSize(p, a) > 0
    BY <1>4, <1>6
  <2>5. QED
    BY <2>2, <2>3, <2>4 DEF AttemptAction, a
<1>7. QED
  BY <1>5, <1>6

LEMMA OutcomeHappens ==
    ASSUME IInv, NEW p \in Proc, pc[p] = "outcome",
           Done(OutcomeNext(p, ref[p], AttemptedAction(state[ref[p]]))),
           UNCHANGED <<brokerVars, histVars, now>>
    PROVE  RecordOutcome(p)
<1> DEFINE c == ref[p]
           a == AttemptedAction(state[c])
           l == IF a = "POSITION_SPECIFIC_EMERGENCY_EXIT" THEN "read" ELSE "settle"
<1>1. attempts[c][a] = "ATTEMPT_STARTED"
  BY DEF IInv, ProcOK
<1>2. storeVars' = Answered(c, a) /\ procVars' = To(p, l)
  BY DEF OutcomeNext, Done
<1>3. RecordActionOutcome(c, a)
  BY <1>1, <1>2 DEF Answered, Stored, storeVars, RecordActionOutcome
<1>4. Goto(p, l)
  BY <1>2, GotoHappens
<1>5. QED
  BY <1>3, <1>4 DEF RecordOutcome

LEMMA ReconcilingHappens ==
    ASSUME IInv, NEW p \in Proc, pc[p] = "settle",
           Done(<<Turned(ref[p], ReconcilingState(state[ref[p]])), To(p, "read")>>),
           UNCHANGED <<brokerVars, histVars, now>>
    PROVE  EnterReconciling(p)
<1>1. ref[p] \in Cycle /\ state[ref[p]] \in AttemptedStates \ {"EMERGENCY_EXIT_ATTEMPTED"}
  BY DEF IInv, ProcOK, AtWork
<1>2. Transition(ref[p], ReconcilingState(state[ref[p]]))
  BY <1>1, EngineTable, TransitionHappens DEF Done
<1>3. Goto(p, "read")
  BY GotoHappens DEF Done
<1>4. QED
  BY <1>2, <1>3 DEF EnterReconciling

LEMMA ReadHappens ==
    ASSUME NEW p \in Proc, pc[p] = "read",
           Done(<<storeVars, ToReading(p, "decide", UnknownSnapshot)>>),
           UNCHANGED <<brokerVars, histVars, now>>
    PROVE  ReadSnapshot(p)
<1>1. UnknownSnapshot \in Views
  BY ReadModeAssumption DEF Views
<1>2. Unread(p, "decide") /\ UNCHANGED storeVars
  BY UnreadHappens DEF Done
<1>3. QED
  BY <1>1, <1>2 DEF Unread, ReadSnapshot

LEMMA EnsureHappens ==
    ASSUME IInv, NEW p \in Proc, pc[p] = "ensure", Done(EnsureNext(p, ref[p])),
           UNCHANGED <<brokerVars, histVars, now>>
    PROVE  EnsureProtection(p)
<1> DEFINE c == ref[p]
           elapsed == now - since[c]
<1>1. c \in Cycle /\ state[c] = "ENTRY_FILLED_UNPROTECTED" /\ state[c] \in ActiveStates
  BY EngineTable DEF IInv, ProcOK, AtWork
<1>2. elapsed \in Int /\ MaxUnprotected \in Nat
  <2>1. now \in Nat /\ since \in [Cycle -> Nat \cup {NoTime}]
    BY DEF IInv, TypeOK, StoreTypeOK
  <2>2. since[c] \in Int
    BY <1>1, <2>1 DEF NoTime
  <2>3. QED
    BY <2>1, <2>2, EngineAssumption
<1> HIDE DEF elapsed
<1>3. CASE elapsed < 0
  <2>1. Done(HaltNext(p))
    BY <1>3 DEF EnsureNext, elapsed
  <2>2. Halt(p)
    BY <1>1, <2>1, HaltHappens
  <2>3. QED
    BY <1>3, <2>2 DEF EnsureProtection, elapsed
<1>4. CASE elapsed > MaxUnprotected
  <2>1. ~(elapsed < 0)
    BY <1>2, <1>4
  <2>2. Done(ExitNext(p))
    BY <1>4, <2>1 DEF EnsureNext, elapsed
  <2>3. StartEmergencyExit(p)
    BY <1>1, <2>2, EngineTable, ExitHappens
  <2>4. QED
    BY <1>4, <2>3 DEF EnsureProtection, elapsed
<1>5. CASE ~(elapsed < 0) /\ ~(elapsed > MaxUnprotected)
  <2>1. /\ storeVars' = Turned(c, "PROTECTION_INTENT_PERSISTED")
        /\ procVars' = To(p, "attempt")
    BY <1>5 DEF EnsureNext, Done, elapsed
  <2>2. Transition(c, "PROTECTION_INTENT_PERSISTED") /\ Goto(p, "attempt")
    BY <1>1, <2>1, EngineTable, TransitionHappens, GotoHappens
  <2>3. elapsed \in 0..MaxUnprotected
    BY <1>2, <1>5
  <2>4. QED
    BY <2>2, <2>3 DEF EnsureProtection, elapsed
<1>6. QED
  BY <1>3, <1>4, <1>5

\* A reconciliation about to decide.
Deciding(p, s) ==
    /\ ref[p] \in Cycle
    /\ snap[p] \in Snapshot
    /\ state[ref[p]] = s
    /\ s \in ReadableStates

LEMMA StayHappens ==
    ASSUME NEW p \in Proc, Done(<<storeVars, Out(p)>>)
    PROVE  Leave(p) /\ UNCHANGED storeVars
  BY LeaveHappens DEF Done

LEMMA RestartHappens ==
    ASSUME NEW p \in Proc, Deciding(p, "ENTRY_INTENT_PERSISTED"),
           Done(DecideNext(p, ref[p], snap[p]))
    PROVE  RestartEntryPreflight(p, ref[p], snap[p])
<1>1. CASE FlatSnapshot(snap[p])
  <2>1. Done(<<storeVars, ToReading(p, "attempt", UnknownSnapshot)>>)
    BY <1>1 DEF DecideNext, Deciding
  <2>2. Unread(p, "attempt") /\ UNCHANGED storeVars
    BY <2>1, UnreadHappens DEF Done
  <2>3. QED
    BY <1>1, <2>2 DEF RestartEntryPreflight
<1>2. CASE ~FlatSnapshot(snap[p])
  <2>1. Done(HaltNext(p))
    BY <1>2 DEF DecideNext, Deciding
  <2>2. Halt(p)
    BY <2>1, EngineTable, HaltHappens DEF Deciding
  <2>3. QED
    BY <1>2, <2>2 DEF RestartEntryPreflight
<1>3. QED
  BY <1>1, <1>2

LEMMA EntryHappens ==
    ASSUME NEW p \in Proc, Deciding(p, "ENTRY_RECONCILING"),
           Done(EntryNext(p, ref[p], snap[p]))
    PROVE  ReconcileEntry(p, ref[p], snap[p])
<1> DEFINE c == ref[p]
           s == snap[p]
<1>1. /\ c \in Cycle /\ state[c] \in ActiveStates
      /\ s.pending \in Nat /\ s.count \in 0..2
      /\ ~EntrySnapshotInvalid(s, Side[c]) => s.count \in {0, 1}
  BY EngineTable DEF Deciding, Snapshot, EntrySnapshotInvalid
<1>2. /\ AllowedTransition(state[c], Flat)
      /\ AllowedTransition(state[c], "ENTRY_FILLED_UNPROTECTED")
  BY EngineTable DEF Deciding
<1> HIDE DEF s
<1>3. CASE \/ ~s.known \/ EntrySnapshotInvalid(s, Side[c])
           \/ s.pending > 0 /\ RemainderCancelSpent(c)
  <2>1. Done(HaltNext(p))
    BY <1>3 DEF EntryNext, s
  <2>2. Halt(p)
    BY <1>1, <2>1, HaltHappens
  <2>3. QED
    BY <1>3, <2>2 DEF ReconcileEntry, s
<1>4. CASE /\ s.known /\ ~EntrySnapshotInvalid(s, Side[c])
           /\ s.pending > 0 /\ ~RemainderCancelSpent(c)
  <2>1. Done(<<storeVars, To(p, "attempt")>>)
    BY <1>4 DEF EntryNext, s
  <2>2. Goto(p, "attempt") /\ UNCHANGED storeVars
    BY <2>1, GotoHappens DEF Done
  <2>3. QED
    BY <1>4, <2>2 DEF ReconcileEntry, s
<1>5. CASE s.known /\ ~EntrySnapshotInvalid(s, Side[c]) /\ s.pending = 0 /\ s.count = 0
  <2>1. Done(FlatNext(p, filledSize[c], protectedSize[c]))
    BY <1>5 DEF EntryNext, s
  <2>2. FinishFlat(p, filledSize[c], protectedSize[c])
    BY <1>1, <1>2, <2>1, FlatHappens
  <2>3. QED
    BY <1>5, <2>2 DEF ReconcileEntry, s
<1>6. CASE s.known /\ ~EntrySnapshotInvalid(s, Side[c]) /\ s.pending = 0 /\ s.count = 1
  <2>1. /\ storeVars' = TurnedSized(c, "ENTRY_FILLED_UNPROTECTED", s.filled, s.protection, now)
        /\ procVars' = ToReading(p, "ensure", UnknownSnapshot)
    BY <1>6 DEF EntryNext, Done, s
  <2>2. TransitionSized(c, "ENTRY_FILLED_UNPROTECTED", s.filled, s.protection, now)
    BY <1>1, <1>2, <2>1, TransitionSizedHappens
  <2>3. Unread(p, "ensure")
    BY <2>1, UnreadHappens
  <2>4. QED
    BY <1>6, <2>2, <2>3 DEF ReconcileEntry, s
<1>7. QED
  BY <1>1, <1>3, <1>4, <1>5, <1>6

LEMMA ProtectionHappens ==
    ASSUME NEW p \in Proc, Deciding(p, "PROTECTION_RECONCILING"),
           Done(ProtectionNext(p, ref[p], snap[p]))
    PROVE  ReconcileProtection(p, ref[p], snap[p])
<1> DEFINE c == ref[p]
           s == snap[p]
           own == s.known /\ s.count = 1 /\ s.side = Side[c]
           exact == ExactlyProtected(s, Side[c], filledSize[c])
<1>1. /\ c \in Cycle /\ state[c] \in ActiveStates
      /\ s.count \in 0..2 /\ s.protection \in Nat /\ s.known \in BOOLEAN
      /\ NothingOpen(s) => s.known /\ s.count = 0
  BY EngineTable, LotAssumption DEF Deciding, Snapshot, NothingOpen
<1>2. /\ AllowedTransition(state[c], Flat)
      /\ AllowedTransition(state[c], "POSITION_PROTECTED")
      /\ AllowedTransition(state[c], "PROTECTION_CANCEL_INTENT_PERSISTED")
      /\ AllowedTransition(state[c], "EMERGENCY_EXIT_INTENT_PERSISTED")
  BY EngineTable DEF Deciding
<1>3. CASE NothingOpen(s)
  <2>1. FinishFlat(p, 0, 0)
    BY <1>1, <1>2, <1>3, FlatHappens DEF ProtectionNext
  <2>2. QED
    BY <1>3, <2>1 DEF ReconcileProtection
<1>4. CASE ~NothingOpen(s) /\ s.known /\ s.count = 0 /\ s.protection > 0
  <2>1. StartProtectionCancel(p, s)
    BY <1>1, <1>2, <1>4, CancelHappens DEF ProtectionNext
  <2>2. QED
    BY <1>4, <2>1 DEF ReconcileProtection
<1>5. CASE ~NothingOpen(s) /\ ~(s.known /\ s.count = 0 /\ s.protection > 0) /\ ~own
  <2>1. Done(HaltNext(p))
    BY <1>5 DEF ProtectionNext
  <2>2. Halt(p)
    BY <1>1, <2>1, HaltHappens
  <2>3. \/ ~s.known
        \/ s.known /\ s.count = 0 /\ ~(s.protection > 0)
        \/ s.known /\ s.count > 0 /\ (s.count > 1 \/ s.side # Side[c])
    BY <1>1, <1>5
  <2>4. QED
    BY <1>5, <2>2, <2>3 DEF ReconcileProtection
<1>6. CASE own /\ exact /\ InTime(c)
  <2>1. /\ storeVars' = TurnedSized(c, "POSITION_PROTECTED", s.filled, s.protection, NoTime)
        /\ procVars' = Out(p)
    BY <1>1, <1>6 DEF ProtectionNext, Done
  <2>2. TransitionSized(c, "POSITION_PROTECTED", s.filled, s.protection, NoTime)
    BY <1>1, <1>2, <2>1, TransitionSizedHappens
  <2>3. Leave(p)
    BY <2>1, LeaveHappens
  <2>4. QED
    BY <1>6, <2>2, <2>3 DEF ReconcileProtection
<1>7. CASE own /\ exact /\ ~InTime(c)
  <2>1. Done(HaltNext(p))
    BY <1>1, <1>7 DEF ProtectionNext
  <2>2. Halt(p)
    BY <1>1, <2>1, HaltHappens
  <2>3. QED
    BY <1>7, <2>2 DEF ReconcileProtection
<1>8. CASE own /\ ~exact /\ ProtectionVisible(s)
  <2>1. Done(CancelNext(p))
    BY <1>1, <1>8 DEF ProtectionNext
  <2>2. StartProtectionCancel(p, s)
    BY <1>1, <1>2, <2>1, CancelHappens
  <2>3. QED
    BY <1>8, <2>2 DEF ReconcileProtection
<1>9. CASE own /\ ~exact /\ ~ProtectionVisible(s)
  <2>1. Done(ExitNext(p))
    BY <1>1, <1>9 DEF ProtectionNext
  <2>2. StartEmergencyExit(p)
    BY <1>1, <1>2, <2>1, ExitHappens
  <2>3. QED
    BY <1>9, <2>2 DEF ReconcileProtection
<1>10. QED
  BY <1>3, <1>4, <1>5, <1>6, <1>7, <1>8, <1>9

LEMMA CancelledHappens ==
    ASSUME NEW p \in Proc, Deciding(p, "PROTECTION_CANCEL_RECONCILING"),
           Done(CancelledNext(p, ref[p], snap[p]))
    PROVE  ReconcileCancelledProtection(p, ref[p], snap[p])
<1> DEFINE c == ref[p]
           s == snap[p]
<1>1. /\ c \in Cycle /\ state[c] \in ActiveStates
      /\ AllowedTransition(state[c], Flat)
      /\ AllowedTransition(state[c], "EMERGENCY_EXIT_INTENT_PERSISTED")
  BY EngineTable DEF Deciding
<1>2. CASE NothingOpen(s)
  <2>1. Done(FlatNext(p, 0, 0))
    BY <1>2 DEF CancelledNext
  <2>2. FinishFlat(p, 0, 0)
    BY <1>1, <2>1, FlatHappens
  <2>3. QED
    BY <1>2, <2>2 DEF ReconcileCancelledProtection
<1>3. CASE ~NothingOpen(s) /\ s.known /\ CancellationConfirmed(s, Side[c], filledSize[c])
  <2>1. Done(ExitNext(p))
    BY <1>3 DEF CancelledNext
  <2>2. StartEmergencyExit(p)
    BY <1>1, <2>1, ExitHappens
  <2>3. QED
    BY <1>3, <2>2 DEF ReconcileCancelledProtection
<1>4. CASE ~NothingOpen(s) /\ ~(s.known /\ CancellationConfirmed(s, Side[c], filledSize[c]))
  <2>1. Done(HaltNext(p))
    BY <1>4 DEF CancelledNext
  <2>2. Halt(p)
    BY <1>1, <2>1, HaltHappens
  <2>3. QED
    BY <1>4, <2>2 DEF ReconcileCancelledProtection
<1>5. QED
  BY <1>2, <1>3, <1>4

LEMMA ExitedHappens ==
    ASSUME NEW p \in Proc, Deciding(p, "EMERGENCY_EXIT_ATTEMPTED"),
           Done(DecideNext(p, ref[p], snap[p]))
    PROVE  ReconcileEmergencyExit(p, ref[p], snap[p])
<1>1. CASE NothingOpen(snap[p])
  <2>1. Done(FlatNext(p, 0, 0))
    BY <1>1 DEF DecideNext, Deciding
  <2>2. FinishFlat(p, 0, 0)
    BY <2>1, EngineTable, FlatHappens DEF Deciding
  <2>3. QED
    BY <1>1, <2>2 DEF ReconcileEmergencyExit
<1>2. CASE ~NothingOpen(snap[p])
  <2>1. Done(HaltNext(p))
    BY <1>2 DEF DecideNext, Deciding
  <2>2. Halt(p)
    BY <2>1, EngineTable, HaltHappens DEF Deciding
  <2>3. QED
    BY <1>2, <2>2 DEF ReconcileEmergencyExit
<1>3. QED
  BY <1>1, <1>2

LEMMA ProtectedHappens ==
    ASSUME NEW p \in Proc, Deciding(p, "POSITION_PROTECTED"),
           Done(ProtectedNext(p, ref[p], snap[p]))
    PROVE  ReconcileProtectedPosition(p, ref[p], snap[p])
<1> DEFINE c == ref[p]
           s == snap[p]
           own == OwnPosition(s, Side[c], filledSize[c])
           exact == ExactlyProtected(s, Side[c], filledSize[c])
<1>1. /\ c \in Cycle /\ state[c] \in ActiveStates
      /\ s.protection \in Nat /\ s.known \in BOOLEAN
      /\ FlatSnapshot(s) => s.known
      /\ exact => own
  BY EngineTable, LotAssumption
     DEF Deciding, Snapshot, FlatSnapshot, NothingOpen, ExactlyProtected
<1>2. /\ AllowedTransition(state[c], Flat)
      /\ AllowedTransition(state[c], "PROTECTION_CANCEL_INTENT_PERSISTED")
      /\ AllowedTransition(state[c], "EMERGENCY_EXIT_INTENT_PERSISTED")
  BY EngineTable DEF Deciding
<1>3. CASE FlatSnapshot(s)
  <2>1. Done(FlatNext(p, 0, 0))
    BY <1>3 DEF ProtectedNext
  <2>2. FinishFlat(p, 0, 0)
    BY <1>1, <1>2, <2>1, FlatHappens
  <2>3. QED
    BY <1>3, <2>2 DEF ReconcileProtectedPosition
<1>4. CASE ~FlatSnapshot(s) /\ ~(s.known /\ own)
  <2>1. Done(HaltNext(p))
    BY <1>4 DEF ProtectedNext
  <2>2. Halt(p)
    BY <1>1, <2>1, HaltHappens
  <2>3. QED
    BY <1>1, <1>4, <2>2 DEF ReconcileProtectedPosition
<1>5. CASE ~FlatSnapshot(s) /\ s.known /\ own /\ exact
  <2>1. Done(<<storeVars, Out(p)>>)
    BY <1>5 DEF ProtectedNext
  <2>2. Leave(p) /\ UNCHANGED storeVars
    BY <2>1, StayHappens
  <2>3. QED
    BY <1>5, <2>2 DEF ReconcileProtectedPosition
<1>6. CASE ~FlatSnapshot(s) /\ s.known /\ own /\ ~exact /\ s.protection > 0
  <2>1. Done(CancelNext(p))
    BY <1>6 DEF ProtectedNext
  <2>2. StartProtectionCancel(p, s)
    BY <1>1, <1>2, <2>1, CancelHappens
  <2>3. QED
    BY <1>6, <2>2 DEF ReconcileProtectedPosition
<1>7. CASE ~FlatSnapshot(s) /\ s.known /\ own /\ ~exact /\ ~(s.protection > 0)
  <2>1. Done(ExitNext(p))
    BY <1>7 DEF ProtectedNext
  <2>2. StartEmergencyExit(p)
    BY <1>1, <1>2, <2>1, ExitHappens
  <2>3. s.protection = 0
    BY <1>1, <1>7
  <2>4. QED
    BY <1>7, <2>2, <2>3 DEF ReconcileProtectedPosition
<1>8. QED
  BY <1>3, <1>4, <1>5, <1>6, <1>7

LEMMA DecideHappens ==
    ASSUME IInv, NEW p \in Proc, pc[p] = "decide",
           Done(DecideNext(p, ref[p], snap[p])), UNCHANGED <<brokerVars, histVars, now>>
    PROVE  Reconcile(p)
<1>1. ref[p] \in Cycle /\ snap[p] \in Snapshot /\ state[ref[p]] \in ReadableStates
  BY DEF IInv, TypeOK, ProcOK, AtWork
<1>2. CASE state[ref[p]] = "ENTRY_INTENT_PERSISTED"
  BY <1>1, <1>2, RestartHappens DEF Deciding, Reconcile
<1>3. CASE state[ref[p]] = "ENTRY_RECONCILING"
  <2>1. Done(EntryNext(p, ref[p], snap[p]))
    BY <1>3 DEF DecideNext
  <2>2. QED
    BY <1>1, <1>3, <2>1, EntryHappens DEF Deciding, Reconcile
<1>4. CASE state[ref[p]] = "PROTECTION_RECONCILING"
  <2>1. Done(ProtectionNext(p, ref[p], snap[p]))
    BY <1>4 DEF DecideNext
  <2>2. QED
    BY <1>1, <1>4, <2>1, ProtectionHappens DEF Deciding, Reconcile
<1>5. CASE state[ref[p]] = "PROTECTION_CANCEL_RECONCILING"
  <2>1. Done(CancelledNext(p, ref[p], snap[p]))
    BY <1>5 DEF DecideNext
  <2>2. QED
    BY <1>1, <1>5, <2>1, CancelledHappens DEF Deciding, Reconcile
<1>6. CASE state[ref[p]] = "EMERGENCY_EXIT_ATTEMPTED"
  BY <1>1, <1>6, ExitedHappens DEF Deciding, Reconcile
<1>7. CASE state[ref[p]] = "POSITION_PROTECTED"
  <2>1. Done(ProtectedNext(p, ref[p], snap[p]))
    BY <1>7 DEF DecideNext
  <2>2. QED
    BY <1>1, <1>7, <2>1, ProtectedHappens DEF Deciding, Reconcile
<1>8. QED
  BY <1>1, <1>2, <1>3, <1>4, <1>5, <1>6, <1>7 DEF ReadableStates

LEMMA GateHappens ==
    ASSUME NEW p \in Proc, vars' = NextStep(p), LetThrough(p)
    PROVE  RunGate(p) \/ ResumeGate(p)
<1>1. /\ storeVars' = Latching(TRUE) /\ procVars' = Out(p)
      /\ UNCHANGED <<brokerVars, histVars, now, risk>> /\ lastBeat' = startedAt[p]
  BY DEF NextStep, vars
<1>2. EngageGlobalHalt
  BY <1>1 DEF Latching, Stored, storeVars, EngageGlobalHalt
<1>3. NotificationFails(p)
  BY <1>1, <1>2, LeaveHappens DEF NotificationFails, Beat
<1>4. QED
  BY <1>1, <1>3 DEF LetThrough, RunGate, ResumeGate

\* A gate that turns the command away, and the steps that may simply end.
LEMMA TurnedAwayHappens ==
    ASSUME NEW p \in Proc, pc[p] \in {"run", "resume", "reload", "risk"}, ~LetThrough(p),
           Done(<<storeVars, Out(p)>>),
           UNCHANGED <<brokerVars, histVars, now, risk, lastBeat>>
    PROVE  ProcessStep(p)
<1>1. Leave(p) /\ UNCHANGED storeVars
  BY StayHappens
<1>2. CASE pc[p] = "run"
  <2>1. HaltLatched \/ ActiveCycles # {} \/ ~HeartbeatAccepted(p)
    BY <1>2 DEF LetThrough
  <2>2. QED
    BY <1>1, <1>2, <2>1 DEF RunGate, ProcessStep
<1>3. CASE pc[p] = "resume"
  <2>1. ResumeRefused \/ ~HeartbeatAccepted(p)
    BY <1>3 DEF LetThrough
  <2>2. QED
    BY <1>1, <1>3, <2>1 DEF ResumeGate, ProcessStep
<1>4. CASE pc[p] = "reload"
  <2>1. UnknownSnapshot \in Views /\ ~FlatSnapshot(UnknownSnapshot)
    BY ReadModeAssumption DEF Views, FlatSnapshot, NothingOpen, UnknownSnapshot
  <2>2. ReloadGate(p)
    BY <1>1, <1>4, <2>1 DEF ReloadGate
  <2>3. QED
    BY <2>2 DEF ProcessStep
<1>5. CASE pc[p] = "risk"
  BY <1>1, <1>5 DEF RiskGate, ProcessStep
<1>6. QED
  BY <1>2, <1>3, <1>4, <1>5

LEMMA BootHappens ==
    ASSUME NEW p \in Proc, pc[p] = "boot", Done(<<Latching(TRUE), Out(p)>>),
           UNCHANGED <<brokerVars, histVars, now, risk, lastBeat>>
    PROVE  BootReconcile(p)
<1>1. UnknownSnapshot \in Views /\ ~FlatSnapshot(UnknownSnapshot)
  BY ReadModeAssumption DEF Views, FlatSnapshot, NothingOpen, UnknownSnapshot
<1>2. EngageGlobalHalt
  BY DEF Done, Latching, Stored, storeVars, EngageGlobalHalt
<1>3. Leave(p)
  BY LeaveHappens DEF Done
<1>4. QED
  BY <1>1, <1>2, <1>3 DEF BootReconcile

LEMMA CreateHappens ==
    ASSUME IInv, CommandOK, NEW p \in Proc, pc[p] = "create", Done(WorkNext(p)),
           UNCHANGED <<brokerVars, histVars, now, risk, lastBeat>>
    PROVE  CreateCycleStep(p)
<1> DEFINE c == ref[p]
           day == Day(startedAt[p])
<1>1. risk.entries \in Nat /\ risk.entries > 0
  BY DEF IInv, TypeOK, RiskState, CommandOK
<1>2. CASE risk.entries = 1 /\ CreateAllowed(c, day)
  <2>1. storeVars' = Created(c, day) /\ procVars' = To(p, "attempt")
    BY <1>2 DEF WorkNext, Done
  <2>2. CreateCycle(c, day)
    BY <1>2, <2>1 DEF Created, storeVars, CreateCycle
  <2>3. Goto(p, "attempt")
    BY <2>1, GotoHappens
  <2>4. QED
    BY <1>2, <2>2, <2>3 DEF CreateCycleStep
<1>3. CASE ~(risk.entries = 1 /\ CreateAllowed(c, day))
  <2>1. Done(<<storeVars, Out(p)>>)
    BY <1>3 DEF WorkNext
  <2>2. Leave(p) /\ UNCHANGED storeVars
    BY <2>1, StayHappens
  <2>3. risk.entries > 1 \/ ~CreateAllowed(c, day)
    BY <1>1, <1>3
  <2>4. QED
    BY <2>2, <2>3 DEF CreateCycleStep
<1>4. QED
  BY <1>2, <1>3

LEMMA ClearHappens ==
    ASSUME CommandOK, NEW p \in Proc, pc[p] = "clear", Done(WorkNext(p)),
           UNCHANGED <<brokerVars, histVars, now, risk, lastBeat>>
    PROVE  ClearHalted(p)
<1> DEFINE c == CHOOSE d \in HaltedCycles : TRUE
<1>1. HaltedCycles # {}
  BY DEF CommandOK
<1>2. c \in HaltedCycles
  BY <1>1
<1>3. /\ storeVars' = TurnedSized(c, Cleared, 0, 0, NoTime)
      /\ procVars' = To(p, "clearGlobal")
  BY DEF WorkNext, Done
<1> HIDE DEF c
<1>4. c \in Cycle /\ AllowedTransition(state[c], Cleared)
  BY <1>2, EngineTable DEF HaltedCycles
<1>5. ClearHaltedCycle(c)
  BY <1>3, <1>4, TransitionSizedHappens DEF ClearHaltedCycle
<1>6. Goto(p, "clearGlobal")
  BY <1>3, GotoHappens
<1>7. QED
  BY <1>2, <1>5, <1>6 DEF ClearHalted

LEMMA ClearGlobalHappens ==
    ASSUME NEW p \in Proc, pc[p] = "clearGlobal", Done(WorkNext(p)),
           UNCHANGED <<brokerVars, histVars, now, risk, lastBeat>>
    PROVE  ClearGlobal(p)
<1>1. /\ storeVars' = IF globalHalt /\ ClearGlobalHaltAllowed THEN Latching(FALSE) ELSE storeVars
      /\ procVars' = Out(p)
  BY DEF WorkNext, Done
<1>2. Leave(p)
  BY <1>1, LeaveHappens
<1>3. CASE globalHalt /\ ClearGlobalHaltAllowed
  <2>1. storeVars' = Latching(FALSE)
    BY <1>1, <1>3
  <2>2. ClearGlobalHalt
    BY <1>3, <2>1 DEF Latching, Stored, storeVars, ClearGlobalHalt
  <2>3. QED
    BY <1>2, <1>3, <2>2 DEF ClearGlobal
<1>4. CASE ~(globalHalt /\ ClearGlobalHaltAllowed)
  BY <1>1, <1>2, <1>4 DEF ClearGlobal
<1>5. QED
  BY <1>3, <1>4

\* Wherever a process stands, what NextStep describes is a step of its own: a
\* command line that has started always has a next step.  No action asks the
\* store for a transition outside its table, for a plan without a size or for
\* a halted cycle that is not there.
THEOREM NextStepIsAStep ==
    ASSUME IInv, CommandOK, NEW p \in Proc, pc[p] # "idle", vars' = NextStep(p)
    PROVE  ProcessStep(p)
<1>1. CASE LetThrough(p)
  BY <1>1, GateHappens DEF ProcessStep
<1>2. CASE ~LetThrough(p)
  <2>1. Done(WorkNext(p)) /\ UNCHANGED <<brokerVars, histVars, now, risk, lastBeat>>
    BY <1>2 DEF NextStep, vars, Done
  <2>2. pc[p] \in Label /\ ProcOK(p)
    BY DEF IInv, TypeOK
  <2>3. CASE pc[p] = "attempt"
    <3>1. Done(AttemptNext(p, ref[p], NextAction(state[ref[p]])))
      BY <2>1, <2>3 DEF WorkNext
    <3>2. QED
      BY <2>1, <2>3, <3>1, AttemptHappens DEF EngineStep, ProcessStep
  <2>4. CASE pc[p] = "perform"
    <3>1. Done(HaltNext(p))
      BY <2>1, <2>4 DEF WorkNext
    <3>2. ref[p] \in Cycle /\ state[ref[p]] \in ActiveStates
      BY <2>2, <2>4, EngineTable DEF ProcOK, AtWork
    <3>3. PerformAction(p)
      BY <2>1, <2>4, <3>1, <3>2, HaltHappens DEF PerformAction
    <3>4. QED
      BY <2>1, <3>3 DEF EngineStep, ProcessStep
  <2>5. CASE pc[p] = "outcome"
    <3>1. Done(OutcomeNext(p, ref[p], AttemptedAction(state[ref[p]])))
      BY <2>1, <2>5 DEF WorkNext
    <3>2. QED
      BY <2>1, <2>5, <3>1, OutcomeHappens DEF EngineStep, ProcessStep
  <2>6. CASE pc[p] = "settle"
    <3>1. Done(<<Turned(ref[p], ReconcilingState(state[ref[p]])), To(p, "read")>>)
      BY <2>1, <2>6 DEF WorkNext
    <3>2. QED
      BY <2>1, <2>6, <3>1, ReconcilingHappens DEF EngineStep, ProcessStep
  <2>7. CASE pc[p] = "read"
    <3>1. Done(<<storeVars, ToReading(p, "decide", UnknownSnapshot)>>)
      BY <2>1, <2>7 DEF WorkNext
    <3>2. QED
      BY <2>1, <2>7, <3>1, ReadHappens DEF EngineStep, ProcessStep
  <2>8. CASE pc[p] = "decide"
    <3>1. Done(DecideNext(p, ref[p], snap[p]))
      BY <2>1, <2>8 DEF WorkNext
    <3>2. QED
      BY <2>1, <2>8, <3>1, DecideHappens DEF EngineStep, ProcessStep
  <2>9. CASE pc[p] = "ensure"
    <3>1. Done(EnsureNext(p, ref[p]))
      BY <2>1, <2>9 DEF WorkNext
    <3>2. QED
      BY <2>1, <2>9, <3>1, EnsureHappens DEF EngineStep, ProcessStep
  <2>10. CASE pc[p] = "boot"
    <3>1. Done(<<Latching(TRUE), Out(p)>>)
      BY <2>1, <2>10 DEF WorkNext
    <3>2. QED
      BY <2>1, <2>10, <3>1, BootHappens DEF ProcessStep
  <2>11. CASE pc[p] = "create"
    BY <2>1, <2>11, CreateHappens DEF ProcessStep
  <2>12. CASE pc[p] = "clear"
    BY <2>1, <2>12, ClearHappens DEF ProcessStep
  <2>13. CASE pc[p] = "clearGlobal"
    BY <2>1, <2>13, ClearGlobalHappens DEF ProcessStep
  <2>14. CASE pc[p] \in {"run", "resume", "reload", "risk"}
    <3>1. Done(<<storeVars, Out(p)>>)
      BY <2>1, <2>14 DEF WorkNext
    <3>2. QED
      BY <1>2, <2>1, <2>14, <3>1, TurnedAwayHappens
  <2>15. QED
    BY <2>2, <2>3, <2>4, <2>5, <2>6, <2>7, <2>8, <2>9, <2>10, <2>11, <2>12, <2>13, <2>14
       DEF Label
<1>3. QED
  BY <1>1, <1>2

\* The two invariants NextStepIsAStep rests on hold in every reachable state.
THEOREM PlacesAreSound == Spec => [](IInv /\ CommandOK)
<1>1. Init => CommandOK
  BY CommandInit
<1>2. IInv /\ CommandOK /\ [Next]_vars => CommandOK'
  BY CommandNext
<1>3. QED
  BY <1>1, <1>2, Invariance, PTL DEF Spec

=============================================================================
