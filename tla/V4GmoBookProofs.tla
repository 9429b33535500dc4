--------------------------- MODULE V4GmoBookProofs --------------------------
(***************************************************************************)
(* The engine and the account it trades on: with settled reads, what is    *)
(* open at the broker or on its way there belongs to an unfinished cycle,  *)
(* an entry meets an empty book, the emergency exit meets no working       *)
(* protection, and a halt is lifted over an empty book only.               *)
(*                                                                         *)
(* A decision is taken on a snapshot while the book goes on moving, so the *)
(* invariant says what stays true of a snapshot until the decision         *)
(* (StillTrue), what a persisted state says of the book for whoever        *)
(* resumes from it (CycleBookOK), and what a request on the wire still     *)
(* finds there (RequestOK).                                                *)
(***************************************************************************)
EXTENDS V4GmoRuntimeProofs

\* A cycle in one of these states has nothing on its way to the broker.
QuietStates ==
    {"ENTRY_INTENT_PERSISTED", "ENTRY_FILLED_UNPROTECTED", "PROTECTION_INTENT_PERSISTED",
     "PROTECTION_CANCEL_INTENT_PERSISTED", "EMERGENCY_EXIT_INTENT_PERSISTED",
     "POSITION_PROTECTED"}

\* While a cycle is in one of these no protection order works.
BareStates ==
    {"ENTRY_FILLED_UNPROTECTED", "EMERGENCY_EXIT_INTENT_PERSISTED", "EMERGENCY_EXIT_ATTEMPTED"}

EmergencyExit == "POSITION_SPECIFIC_EMERGENCY_EXIT"

\* A request is alone on the wire, and its cycle waits for its effect.
RequestOK(r) ==
    /\ wire = {r}
    /\ Unfinished(r.cycle)
    /\ state[r.cycle] \notin QuietStates
    /\ state[r.cycle] = "EMERGENCY_EXIT_ATTEMPTED" => r.action = EmergencyExit
    /\ r.action = "MARKET_ENTRY" => BookEmpty
    /\ r.action = EmergencyExit => oco = 0

CycleBookOK(c) ==
    /\ state[c] = "ENTRY_INTENT_PERSISTED" => BookEmpty
    /\ state[c] \in BareStates => oco = 0

StoreBookOK ==
    /\ \A r \in wire : RequestOK(r)
    /\ \A c \in Cycle : CycleBookOK(c)
    /\ ~BookEmpty => \E c \in Cycle : Unfinished(c)

\* What a snapshot said and the account cannot undo by itself: no request was
\* under way, and what was gone is gone.
StillTrue(s) ==
    /\ wire = {}
    /\ s.protection = 0 => oco = 0
    /\ s.count = 0 /\ s.pending = 0 => pos = 0 /\ pend = 0

ProcBookOK(p) ==
    /\ pc[p] \in {"risk", "create", "clear", "clearGlobal"} => BookEmpty /\ wire = {}
    /\ pc[p] \in {"attempt", "perform"} => wire = {}
    /\ pc[p] = "perform" /\ state[ref[p]] = "MARKET_ENTRY_ATTEMPTED" => BookEmpty
    /\ pc[p] = "decide" /\ snap[p].known => StillTrue(snap[p])

BookOK == StoreBookOK /\ \A p \in Proc : ProcBookOK(p)

(***************************************************************************)
(* What a snapshot shows and what a state implies.                         *)
(***************************************************************************)

\* A known snapshot is the truth at a moment when nothing is under way.
LEMMA KnownIsTrue ==
    ASSUME ReadMode = "settled", BrokerTypeOK, NEW s \in Views, s.known
    PROVE  StillTrue(s)
<1>1. s = Truth /\ wire = {}
  BY DEF Views, UnknownSnapshot
<1>2. /\ Truth.protection = oco /\ Truth.pending = pend
      /\ Truth.count = IF pos > 0 THEN 1 ELSE 0
  BY DEF Truth
<1>3. pos \in Nat
  BY DEF BrokerTypeOK
<1>. QED
  BY <1>1, <1>2, <1>3 DEF StillTrue

\* A snapshot that shows nothing open still says so when it is used.
LEMMA NothingOpenIsTrue ==
    ASSUME NEW s, NothingOpen(s), StillTrue(s)
    PROVE  BookEmpty /\ wire = {}
  BY DEF NothingOpen, StillTrue, BookEmpty

\* Nothing is under way for a cycle in a quiet state: every request belongs to
\* the one unfinished cycle.
LEMMA QuietMeansNoRequest ==
    ASSUME IInv, StoreBookOK, NEW c \in Cycle, state[c] \in QuietStates
    PROVE  wire = {}
<1> SUFFICES ASSUME NEW r \in wire PROVE FALSE
  OBVIOUS
<1>1. RequestOK(r)
  BY DEF StoreBookOK
<1>2. r.cycle \in Cycle
  BY DEF IInv, TypeOK, BrokerTypeOK, Request
<1>3. Unfinished(c)
  BY DEF Unfinished, QuietStates, Flat, Cleared, Absent
<1>4. r.cycle = c
  BY <1>1, <1>2, <1>3 DEF RequestOK, IInv, StoreInv, SingleUnfinishedCycle
<1>. QED
  BY <1>1, <1>4 DEF RequestOK

(***************************************************************************)
(* What the parts of a step preserve.                                      *)
(***************************************************************************)

\* A process that leaves relies on nothing.
LEMMA LeaveKeepsBook ==
    ASSUME IInv, NEW p \in Proc, pc[p] # "idle", Leave(p), StoreBookOK'
    PROVE  BookOK'
<1>1. pc' = [pc EXCEPT ![p] = "idle"]
  BY DEF Leave
<1>2. ProcTypeOK /\ LockInv
  BY TypeParts DEF IInv
<1>3. \A q \in Proc : pc'[q] = "idle"
  BY <1>1, <1>2, OthersIdle DEF ProcTypeOK
<1>. QED
  BY <1>3 DEF BookOK, ProcBookOK

\* A process that moves on: the others are idle.
LEMMA MoveKeepsBook ==
    ASSUME IInv, NEW p \in Proc, pc[p] # "idle", NEW l, pc' = [pc EXCEPT ![p] = l],
           StoreBookOK', ProcBookOK(p)'
    PROVE  BookOK'
<1>1. ProcTypeOK /\ LockInv
  BY TypeParts DEF IInv
<1>2. \A q \in Proc : q # p => pc'[q] = "idle"
  BY <1>1, OthersIdle DEF ProcTypeOK
<1>3. \A q \in Proc : q # p => ProcBookOK(q)'
  BY <1>2 DEF ProcBookOK
<1>. QED
  BY <1>3 DEF BookOK

\* With the same states over the same book nothing changes.
LEMMA SameStatesKeepBook ==
    ASSUME StoreBookOK, UNCHANGED state, UNCHANGED brokerVars
    PROVE  StoreBookOK'
  BY DEF StoreBookOK, RequestOK, CycleBookOK, Unfinished, BookEmpty, brokerVars

\* Over an empty book and an empty wire every state is in order.
LEMMA EmptyBookAllowsAll ==
    ASSUME BookEmpty, wire = {}, UNCHANGED brokerVars
    PROVE  StoreBookOK'
  BY DEF StoreBookOK, CycleBookOK, BookEmpty, brokerVars

\* A transition to a state in which the cycle stays unfinished.
LEMMA TransitionKeepsBook ==
    ASSUME IInv, StoreBookOK, NEW c \in Cycle, NEW t, AllowedTransition(state[c], t),
           state' = [state EXCEPT ![c] = t], UNCHANGED brokerVars,
           t \notin {Flat, Cleared, "ENTRY_INTENT_PERSISTED"},
           t \in QuietStates \cup {"EMERGENCY_EXIT_ATTEMPTED"} => wire = {},
           t \in BareStates => oco = 0
    PROVE  StoreBookOK'
<1>1. /\ state \in [Cycle -> CycleState \cup {Absent}]
      /\ \A r \in wire : r.cycle \in Cycle
  BY DEF IInv, TypeOK, StoreTypeOK, BrokerTypeOK, Request
<1>2. t # Absent
  BY <1>1, TransitionFacts DEF CycleState, Absent
<1>3. \A d \in Cycle : Unfinished(d) => Unfinished(d)'
  BY <1>1, <1>2 DEF Unfinished
<1>4. ASSUME NEW r \in wire PROVE RequestOK(r)'
  <2>1. RequestOK(r) /\ r.cycle \in Cycle
    BY <1>1 DEF StoreBookOK
  <2>2. wire # {}
    OBVIOUS
  <2>3. Unfinished(r.cycle)'
    BY <1>3, <2>1 DEF RequestOK
  <2>. QED
    BY <1>1, <2>1, <2>2, <2>3 DEF RequestOK, BookEmpty, brokerVars
<1>5. \A d \in Cycle : CycleBookOK(d)'
  BY <1>1 DEF StoreBookOK, CycleBookOK, BookEmpty, brokerVars
<1>6. (~BookEmpty => \E d \in Cycle : Unfinished(d))'
  BY <1>3 DEF StoreBookOK, BookEmpty, brokerVars
<1>. QED
  BY <1>4, <1>5, <1>6 DEF StoreBookOK, brokerVars

(***************************************************************************)
(* The ways a decision of the engine ends.                                 *)
(***************************************************************************)

\* Latching the cycle.
LEMMA HaltKeepsBook ==
    ASSUME IInv, BookOK, NEW p \in Proc, pc[p] \in AtWork, Halt(p), UNCHANGED Rest
    PROVE  BookOK'
<1>1. ref[p] \in Cycle /\ pc[p] # "idle"
  BY DEF IInv, ProcOK, AtWork
<1>2. /\ Leave(p) /\ AllowedTransition(state[ref[p]], Halted)
      /\ state' = [state EXCEPT ![ref[p]] = Halted]
  BY DEF Halt, Transition
<1>3. UNCHANGED brokerVars
  BY DEF Rest
<1>4. Halted \notin {Flat, Cleared, "ENTRY_INTENT_PERSISTED", "EMERGENCY_EXIT_ATTEMPTED"}
        \cup QuietStates \cup BareStates
  BY DEF Halted, Flat, Cleared, QuietStates, BareStates
<1>5. StoreBookOK'
  BY <1>1, <1>2, <1>3, <1>4, TransitionKeepsBook DEF BookOK
<1>. QED
  BY <1>1, <1>2, <1>5, LeaveKeepsBook

\* Closing the cycle over what was seen to be an empty book.
LEMMA FinishKeepsBook ==
    ASSUME IInv, NEW p \in Proc, pc[p] \in AtWork, Leave(p), UNCHANGED Rest,
           BookEmpty, wire = {}
    PROVE  BookOK'
<1>1. pc[p] # "idle" /\ UNCHANGED brokerVars
  BY DEF AtWork, Rest
<1>. QED
  BY <1>1, EmptyBookAllowsAll, LeaveKeepsBook

\* Arriving at an attempt with nothing under way.
LEMMA IntentKeepsBook ==
    ASSUME IInv, BookOK, NEW p \in Proc, pc[p] \in AtWork, NEW t,
           AllowedTransition(state[ref[p]], t), state' = [state EXCEPT ![ref[p]] = t],
           pc' = [pc EXCEPT ![p] = "attempt"], UNCHANGED Rest, wire = {},
           t \notin {Flat, Cleared, "ENTRY_INTENT_PERSISTED"}, t \in BareStates => oco = 0
    PROVE  BookOK'
<1>1. ref[p] \in Cycle /\ pc[p] # "idle" /\ UNCHANGED brokerVars
  BY DEF IInv, ProcOK, AtWork, Rest
<1>2. StoreBookOK'
  BY <1>1, TransitionKeepsBook DEF BookOK
<1>3. pc'[p] = "attempt"
  BY TypeParts DEF IInv, ProcTypeOK
<1>4. ProcBookOK(p)'
  BY <1>1, <1>3 DEF ProcBookOK, brokerVars
<1>. QED
  BY <1>1, <1>2, <1>4, MoveKeepsBook

\* Persisting the exit once no protection works.
LEMMA ExitIntentKeepsBook ==
    ASSUME IInv, BookOK, NEW p \in Proc, pc[p] \in AtWork, StartEmergencyExit(p),
           UNCHANGED Rest, wire = {}, oco = 0
    PROVE  BookOK'
<1> DEFINE t == "EMERGENCY_EXIT_INTENT_PERSISTED"
<1>1. /\ AllowedTransition(state[ref[p]], t)
      /\ state' = [state EXCEPT ![ref[p]] = t]
      /\ pc' = [pc EXCEPT ![p] = "attempt"]
  BY DEF StartEmergencyExit, Transition, Unread
<1>2. t \notin {Flat, Cleared, "ENTRY_INTENT_PERSISTED"}
  BY DEF Flat, Cleared
<1>. QED
  BY <1>1, <1>2, IntentKeepsBook

\* Persisting the cancellation of a protection order.
LEMMA CancelIntentKeepsBook ==
    ASSUME IInv, BookOK, NEW p \in Proc, pc[p] \in AtWork, NEW s,
           StartProtectionCancel(p, s), UNCHANGED Rest, wire = {}
    PROVE  BookOK'
<1> DEFINE t == "PROTECTION_CANCEL_INTENT_PERSISTED"
<1>1. /\ AllowedTransition(state[ref[p]], t)
      /\ state' = [state EXCEPT ![ref[p]] = t]
      /\ pc' = [pc EXCEPT ![p] = "attempt"]
  BY DEF StartProtectionCancel, TransitionSized, Unread
<1>2. t \notin {Flat, Cleared, "ENTRY_INTENT_PERSISTED"} \cup BareStates
  BY DEF Flat, Cleared, BareStates
<1>. QED
  BY <1>1, <1>2, IntentKeepsBook

(***************************************************************************)
(* The steps of the engine.                                                *)
(***************************************************************************)

\* An attempt of each action starts from a state that vouches for the book.
LEMMA AttemptTargets ==
    ASSUME NEW s \in IntentStates
    PROVE  LET t == AttemptTarget(NextAction(s)) IN
           /\ t \notin {Flat, Cleared, "ENTRY_INTENT_PERSISTED"} \cup QuietStates
           /\ t = "MARKET_ENTRY_ATTEMPTED" => s = "ENTRY_INTENT_PERSISTED"
           /\ t \in BareStates => s = "EMERGENCY_EXIT_INTENT_PERSISTED"
  BY DEF IntentStates, NextAction, AttemptTarget, Flat, Cleared, QuietStates, BareStates

\* AttemptAction.
LEMMA AttemptActionKeepsBook ==
    ASSUME IInv, BookOK, NEW p \in Proc, AttemptAction(p), UNCHANGED <<risk, lastBeat>>
    PROVE  BookOK'
<1> DEFINE c == ref[p]
           t == AttemptTarget(NextAction(state[c]))
<1>1. /\ pc[p] = "attempt" /\ UNCHANGED Rest
      /\ \/ Halt(p)
         \/ RecordActionAttempt(c, NextAction(state[c]), now) /\ Goto(p, "perform")
  BY DEF AttemptAction, Rest
<1>2. c \in Cycle /\ state[c] \in IntentStates /\ pc[p] \in AtWork /\ wire = {}
  BY <1>1 DEF IInv, ProcOK, AtWork, BookOK, ProcBookOK
<1>3. CASE Halt(p)
  BY <1>1, <1>2, <1>3, HaltKeepsBook
<1>4. CASE RecordActionAttempt(c, NextAction(state[c]), now) /\ Goto(p, "perform")
  <2>1. /\ AllowedTransition(state[c], t)
        /\ state' = [state EXCEPT ![c] = t]
        /\ pc' = [pc EXCEPT ![p] = "perform"]
        /\ UNCHANGED ref
    BY <1>4 DEF RecordActionAttempt, AttemptAllowed, Goto
  <2>2. /\ t \notin {Flat, Cleared, "ENTRY_INTENT_PERSISTED"} \cup QuietStates
        /\ t = "MARKET_ENTRY_ATTEMPTED" => state[c] = "ENTRY_INTENT_PERSISTED"
        /\ t \in BareStates => state[c] = "EMERGENCY_EXIT_INTENT_PERSISTED"
    BY <1>2, AttemptTargets
  <2>3. CycleBookOK(c) /\ UNCHANGED brokerVars
    BY <1>1, <1>2 DEF BookOK, StoreBookOK, Rest
  <2> HIDE DEF t
  <2>4. StoreBookOK'
    BY <1>2, <2>1, <2>2, <2>3, TransitionKeepsBook DEF BookOK, CycleBookOK, BareStates
  <2>5. pc'[p] = "perform" /\ state'[c] = t
    BY <1>2, <2>1, TypeParts DEF IInv, ProcTypeOK, StoreTypeOK
  <2>6. ProcBookOK(p)'
    BY <1>2, <2>1, <2>2, <2>3, <2>5 DEF ProcBookOK, CycleBookOK, BookEmpty, brokerVars
  <2>. QED
    BY <1>1, <2>1, <2>4, <2>6, MoveKeepsBook
<1>. QED
  BY <1>1, <1>3, <1>4

\* Sending puts the only request on the wire, over the book it may meet.
LEMMA SendKeepsBook ==
    ASSUME ReadMode = "settled", IInv, BookOK, NEW p \in Proc, pc[p] = "perform", SendAction(p)
    PROVE  BookOK'
<1> DEFINE c == ref[p]
           a == AttemptedAction(state[c])
<1>1. /\ c \in Cycle /\ state[c] \in AttemptedStates /\ wire = {}
      /\ state[c] = "MARKET_ENTRY_ATTEMPTED" => BookEmpty
      /\ CycleBookOK(c)
  BY DEF IInv, ProcOK, AtWork, BookOK, ProcBookOK, StoreBookOK
<1>2. /\ UNCHANGED <<pos, side, pend, oco, state>>
      /\ pc' = [pc EXCEPT ![p] = "outcome"]
  BY <1>1 DEF SendAction, Send, Unread, storeVars
<1>3. /\ state[c] \notin QuietStates /\ Unfinished(c)
      /\ state[c] = "EMERGENCY_EXIT_ATTEMPTED" <=> a = EmergencyExit
      /\ a = "MARKET_ENTRY" => state[c] = "MARKET_ENTRY_ATTEMPTED"
  BY <1>1 DEF AttemptedStates, AttemptedAction, QuietStates, EmergencyExit, Unfinished, Flat,
     Cleared, Absent
<1>4. PICK r : wire' = {r} /\ r.cycle = c /\ r.action = a
  <2> DEFINE q == [cycle |-> c, action |-> a, size |-> PlanSize(p, a), side |-> Side[c]]
  <2>1. wire' = {q} /\ q.cycle = c /\ q.action = a
    BY <1>1 DEF SendAction, Send
  <2>. QED
    BY <2>1
<1> HIDE DEF a
<1>5. RequestOK(r)'
  BY <1>1, <1>2, <1>3, <1>4
     DEF RequestOK, CycleBookOK, BareStates, BookEmpty, EmergencyExit, Unfinished
<1>6. \A d \in Cycle : CycleBookOK(d)'
  BY <1>2 DEF BookOK, StoreBookOK, CycleBookOK, BookEmpty
<1>7. (~BookEmpty => \E d \in Cycle : Unfinished(d))'
  BY <1>2 DEF BookOK, StoreBookOK, BookEmpty, Unfinished
<1>8. StoreBookOK'
  BY <1>4, <1>5, <1>6, <1>7 DEF StoreBookOK
<1>9. pc'[p] = "outcome"
  BY <1>2, TypeParts DEF IInv, ProcTypeOK
<1>. QED
  BY <1>2, <1>8, <1>9, MoveKeepsBook DEF ProcBookOK

\* PerformAction.
LEMMA PerformActionKeepsBook ==
    ASSUME ReadMode = "settled", IInv, BookOK, NEW p \in Proc, PerformAction(p),
           UNCHANGED <<risk, lastBeat>>
    PROVE  BookOK'
<1>1. CASE SendAction(p)
  BY <1>1, SendKeepsBook DEF PerformAction
<1>2. CASE Halt(p) /\ UNCHANGED <<brokerVars, histVars>>
  BY <1>2, HaltKeepsBook DEF PerformAction, Rest, AtWork
<1>. QED
  BY <1>1, <1>2 DEF PerformAction

\* RecordOutcome.
LEMMA RecordOutcomeKeepsBook ==
    ASSUME IInv, BookOK, NEW p \in Proc, RecordOutcome(p)
    PROVE  BookOK'
<1>1. PICK l \in {"read", "settle"} :
          pc[p] = "outcome" /\ pc' = [pc EXCEPT ![p] = l] /\ UNCHANGED <<state, brokerVars>>
  BY DEF RecordOutcome, RecordActionOutcome, Goto
<1>2. StoreBookOK' /\ pc'[p] = l
  BY <1>1, SameStatesKeepBook, TypeParts DEF BookOK, IInv, ProcTypeOK
<1>. QED
  BY <1>1, <1>2, MoveKeepsBook DEF ProcBookOK

\* EnterReconciling.
LEMMA EnterReconcilingKeepsBook ==
    ASSUME IInv, BookOK, NEW p \in Proc, EnterReconciling(p)
    PROVE  BookOK'
<1> DEFINE c == ref[p]
           t == ReconcilingState(state[c])
<1>1. /\ pc[p] = "settle" /\ UNCHANGED brokerVars
      /\ AllowedTransition(state[c], t)
      /\ state' = [state EXCEPT ![c] = t]
      /\ pc' = [pc EXCEPT ![p] = "read"]
  BY DEF EnterReconciling, Transition, Goto
<1>2. c \in Cycle /\ state[c] \in AttemptedStates \ {"EMERGENCY_EXIT_ATTEMPTED"}
  BY <1>1 DEF IInv, ProcOK, AtWork
<1>3. /\ t \notin {Flat, Cleared, "ENTRY_INTENT_PERSISTED"}
      /\ t \notin QuietStates \cup {"EMERGENCY_EXIT_ATTEMPTED"}
      /\ t \notin BareStates
  BY <1>2 DEF AttemptedStates, ReconcilingState, Flat, Cleared, QuietStates, BareStates
<1> HIDE DEF t
<1>4. StoreBookOK'
  BY <1>1, <1>2, <1>3, TransitionKeepsBook DEF BookOK
<1>5. pc'[p] = "read"
  BY <1>1, TypeParts DEF IInv, ProcTypeOK
<1>. QED
  BY <1>1, <1>4, <1>5, MoveKeepsBook DEF ProcBookOK

\* ReadSnapshot.
LEMMA ReadSnapshotKeepsBook ==
    ASSUME ReadMode = "settled", IInv, BookOK, NEW p \in Proc, ReadSnapshot(p)
    PROVE  BookOK'
<1>1. PICK s \in Views : snap' = [snap EXCEPT ![p] = s]
  BY DEF ReadSnapshot
<1>2. /\ pc[p] = "read" /\ UNCHANGED <<state, brokerVars>>
      /\ pc' = [pc EXCEPT ![p] = "decide"]
  BY DEF ReadSnapshot, storeVars
<1>3. StoreBookOK' /\ pc'[p] = "decide" /\ snap'[p] = s
  BY <1>1, <1>2, SameStatesKeepBook, TypeParts DEF BookOK, IInv, ProcTypeOK
<1>4. s.known => StillTrue(s)
  BY KnownIsTrue DEF IInv, TypeOK
<1>5. s.known => StillTrue(s)'
  BY <1>2, <1>4 DEF StillTrue, brokerVars
<1>6. ProcBookOK(p)'
  BY <1>3, <1>5 DEF ProcBookOK, StillTrue
<1>. QED
  BY <1>2, <1>3, <1>6, MoveKeepsBook

\* Reconciling the entry.
LEMMA ReconcileEntryKeepsBook ==
    ASSUME IInv, BookOK, NEW p \in Proc, pc[p] = "decide", NEW c, c = ref[p], NEW s, s = snap[p],
           ReconcileEntry(p, c, s), UNCHANGED Rest
    PROVE  BookOK'
<1>1. /\ c \in Cycle /\ pc[p] \in AtWork /\ pc[p] # "idle" /\ UNCHANGED brokerVars
      /\ s.known => StillTrue(s)
      /\ s \in Snapshot
  BY TypeParts DEF IInv, ProcOK, AtWork, BookOK, ProcBookOK, Rest, ProcTypeOK
<1>2. ~EntrySnapshotInvalid(s, Side[c]) => s.protection = 0
  BY <1>1, LotAssumption DEF EntrySnapshotInvalid, Snapshot
<1>3. CASE Halt(p)
  BY <1>1, <1>3, HaltKeepsBook
<1>4. CASE s.known /\ Goto(p, "attempt") /\ UNCHANGED storeVars
  <2>1. /\ UNCHANGED state
        /\ pc' = [pc EXCEPT ![p] = "attempt"]
    BY <1>4 DEF Goto, storeVars
  <2>2. StoreBookOK' /\ pc'[p] = "attempt"
    BY <1>1, <2>1, SameStatesKeepBook, TypeParts DEF BookOK, IInv, ProcTypeOK
  <2>3. ProcBookOK(p)'
    BY <1>1, <1>4, <2>2 DEF ProcBookOK, StillTrue, brokerVars
  <2>. QED
    BY <1>1, <2>1, <2>2, <2>3, MoveKeepsBook
<1>5. CASE /\ s.known /\ ~EntrySnapshotInvalid(s, Side[c]) /\ s.pending = 0 /\ s.count = 0
           /\ FinishFlat(p, filledSize[c], protectedSize[c])
  <2>1. BookEmpty /\ wire = {}
    BY <1>1, <1>2, <1>5 DEF StillTrue, BookEmpty
  <2>. QED
    BY <1>1, <1>5, <2>1, FinishKeepsBook DEF FinishFlat
<1>6. CASE /\ s.known /\ ~EntrySnapshotInvalid(s, Side[c])
           /\ TransitionSized(c, "ENTRY_FILLED_UNPROTECTED", s.filled, s.protection, now)
           /\ Unread(p, "ensure")
  <2> DEFINE t == "ENTRY_FILLED_UNPROTECTED"
  <2>1. /\ AllowedTransition(state[c], t)
        /\ state' = [state EXCEPT ![c] = t]
        /\ pc' = [pc EXCEPT ![p] = "ensure"]
    BY <1>6 DEF TransitionSized, Unread
  <2>2. t \notin {Flat, Cleared, "ENTRY_INTENT_PERSISTED"} /\ wire = {} /\ oco = 0
    BY <1>1, <1>2, <1>6 DEF Flat, Cleared, StillTrue
  <2>3. StoreBookOK' /\ pc'[p] = "ensure"
    BY <1>1, <2>1, <2>2, TransitionKeepsBook, TypeParts DEF BookOK, IInv, ProcTypeOK
  <2>. QED
    BY <1>1, <2>1, <2>3, MoveKeepsBook DEF ProcBookOK
<1>. QED
  BY <1>3, <1>4, <1>5, <1>6 DEF ReconcileEntry

\* Reconciling the protection order.
LEMMA ReconcileProtectionKeepsBook ==
    ASSUME IInv, BookOK, NEW p \in Proc, pc[p] = "decide", NEW c, c = ref[p], NEW s, s = snap[p],
           ReconcileProtection(p, c, s), UNCHANGED Rest
    PROVE  BookOK'
<1>1. /\ c \in Cycle /\ pc[p] \in AtWork /\ pc[p] # "idle" /\ UNCHANGED brokerVars
      /\ s.known => StillTrue(s)
      /\ s \in Snapshot
  BY TypeParts DEF IInv, ProcOK, AtWork, BookOK, ProcBookOK, Rest, ProcTypeOK
<1>2. ~ProtectionVisible(s) => s.protection = 0
  BY <1>1, LotAssumption DEF ProtectionVisible, Snapshot
<1>3. CASE Halt(p)
  BY <1>1, <1>3, HaltKeepsBook
<1>4. CASE NothingOpen(s) /\ FinishFlat(p, 0, 0)
  BY <1>1, <1>4, NothingOpenIsTrue, FinishKeepsBook DEF FinishFlat, NothingOpen
<1>5. CASE s.known /\ StartProtectionCancel(p, s)
  BY <1>1, <1>5, CancelIntentKeepsBook DEF StillTrue
<1>6. CASE s.known /\ ~ProtectionVisible(s) /\ StartEmergencyExit(p)
  BY <1>1, <1>2, <1>6, ExitIntentKeepsBook DEF StillTrue
<1>7. CASE /\ s.known
           /\ TransitionSized(c, "POSITION_PROTECTED", s.filled, s.protection, NoTime)
           /\ Leave(p)
  <2> DEFINE t == "POSITION_PROTECTED"
  <2>1. AllowedTransition(state[c], t) /\ state' = [state EXCEPT ![c] = t]
    BY <1>7 DEF TransitionSized
  <2>2. t \notin {Flat, Cleared, "ENTRY_INTENT_PERSISTED"} \cup BareStates /\ wire = {}
    BY <1>1, <1>7 DEF Flat, Cleared, BareStates, StillTrue
  <2>3. StoreBookOK'
    BY <1>1, <2>1, <2>2, TransitionKeepsBook DEF BookOK
  <2>. QED
    BY <1>1, <1>7, <2>3, LeaveKeepsBook
<1>. QED
  BY <1>3, <1>4, <1>5, <1>6, <1>7 DEF ReconcileProtection

\* Reconciling a cancelled protection and an exit.
LEMMA ReconcileEndKeepsBook ==
    ASSUME IInv, BookOK, NEW p \in Proc, pc[p] = "decide", NEW c, c = ref[p], NEW s, s = snap[p],
           ReconcileCancelledProtection(p, c, s) \/ ReconcileEmergencyExit(p, c, s),
           UNCHANGED Rest
    PROVE  BookOK'
<1>1. pc[p] \in AtWork /\ (s.known => StillTrue(s))
  BY DEF AtWork, BookOK, ProcBookOK
<1>2. CASE Halt(p)
  BY <1>1, <1>2, HaltKeepsBook
<1>3. CASE NothingOpen(s) /\ FinishFlat(p, 0, 0)
  BY <1>1, <1>3, NothingOpenIsTrue, FinishKeepsBook DEF FinishFlat, NothingOpen
<1>4. CASE /\ s.known /\ CancellationConfirmed(s, Side[c], filledSize[c])
           /\ StartEmergencyExit(p)
  BY <1>1, <1>4, ExitIntentKeepsBook DEF StillTrue, CancellationConfirmed
<1>. QED
  BY <1>2, <1>3, <1>4 DEF ReconcileCancelledProtection, ReconcileEmergencyExit

\* A protected position looked at again.
LEMMA ReconcileProtectedKeepsBook ==
    ASSUME IInv, BookOK, NEW p \in Proc, pc[p] = "decide", NEW c, c = ref[p], NEW s, s = snap[p],
           ReconcileProtectedPosition(p, c, s), UNCHANGED Rest
    PROVE  BookOK'
<1>1. /\ pc[p] \in AtWork /\ pc[p] # "idle" /\ (s.known => StillTrue(s))
      /\ UNCHANGED brokerVars
  BY DEF AtWork, BookOK, ProcBookOK, Rest
<1>2. CASE Halt(p)
  BY <1>1, <1>2, HaltKeepsBook
<1>3. CASE FlatSnapshot(s) /\ FinishFlat(p, 0, 0)
  BY <1>1, <1>3, NothingOpenIsTrue, FinishKeepsBook DEF FinishFlat, FlatSnapshot, NothingOpen
<1>4. CASE Leave(p) /\ UNCHANGED storeVars
  BY <1>1, <1>4, SameStatesKeepBook, LeaveKeepsBook DEF storeVars, BookOK
<1>5. CASE s.known /\ StartProtectionCancel(p, s)
  BY <1>1, <1>5, CancelIntentKeepsBook DEF StillTrue
<1>6. CASE s.known /\ s.protection = 0 /\ StartEmergencyExit(p)
  BY <1>1, <1>6, ExitIntentKeepsBook DEF StillTrue
<1>. QED
  BY <1>2, <1>3, <1>4, <1>5, <1>6 DEF ReconcileProtectedPosition

\* The market entry of a restarted cycle.
LEMMA RestartEntryKeepsBook ==
    ASSUME IInv, BookOK, NEW p \in Proc, pc[p] = "decide", NEW c, c = ref[p], NEW s, s = snap[p],
           RestartEntryPreflight(p, c, s), UNCHANGED Rest
    PROVE  BookOK'
<1>1. /\ pc[p] \in AtWork /\ pc[p] # "idle" /\ (s.known => StillTrue(s))
      /\ UNCHANGED brokerVars
  BY DEF AtWork, BookOK, ProcBookOK, Rest
<1>2. CASE Halt(p)
  BY <1>1, <1>2, HaltKeepsBook
<1>3. CASE s.known /\ Unread(p, "attempt") /\ UNCHANGED storeVars
  <2>1. pc' = [pc EXCEPT ![p] = "attempt"] /\ UNCHANGED state
    BY <1>3 DEF Unread, storeVars
  <2>2. StoreBookOK' /\ pc'[p] = "attempt"
    BY <1>1, <2>1, SameStatesKeepBook, TypeParts DEF BookOK, IInv, ProcTypeOK
  <2>3. ProcBookOK(p)'
    BY <1>1, <1>3, <2>2 DEF ProcBookOK, StillTrue, brokerVars
  <2>. QED
    BY <1>1, <2>1, <2>2, <2>3, MoveKeepsBook
<1>. QED
  BY <1>2, <1>3 DEF RestartEntryPreflight, FlatSnapshot, NothingOpen

\* Reconcile: one case per state that is reconciled.
LEMMA ReconcileKeepsBook ==
    ASSUME IInv, BookOK, NEW p \in Proc, Reconcile(p), UNCHANGED <<risk, lastBeat>>
    PROVE  BookOK'
<1>1. pc[p] = "decide" /\ UNCHANGED Rest
  BY DEF Reconcile, Rest
<1>2. \/ RestartEntryPreflight(p, ref[p], snap[p])
      \/ ReconcileEntry(p, ref[p], snap[p])
      \/ ReconcileProtection(p, ref[p], snap[p])
      \/ ReconcileCancelledProtection(p, ref[p], snap[p])
      \/ ReconcileEmergencyExit(p, ref[p], snap[p])
      \/ ReconcileProtectedPosition(p, ref[p], snap[p])
  BY DEF Reconcile
<1>. QED
  BY <1>1, <1>2, RestartEntryKeepsBook, ReconcileEntryKeepsBook, ReconcileProtectionKeepsBook,
     ReconcileEndKeepsBook, ReconcileProtectedKeepsBook

\* EnsureProtection: the state vouches for the book, no snapshot is at hand.
LEMMA EnsureProtectionKeepsBook ==
    ASSUME IInv, BookOK, NEW p \in Proc, EnsureProtection(p), UNCHANGED <<risk, lastBeat>>
    PROVE  BookOK'
<1> DEFINE c == ref[p]
           t == "PROTECTION_INTENT_PERSISTED"
<1>1. pc[p] = "ensure" /\ pc[p] \in AtWork /\ UNCHANGED Rest
  BY DEF EnsureProtection, AtWork, Rest
<1>2. c \in Cycle /\ state[c] = "ENTRY_FILLED_UNPROTECTED"
  BY <1>1 DEF IInv, ProcOK, AtWork
<1>3. wire = {} /\ oco = 0
  BY <1>2, QuietMeansNoRequest DEF BookOK, StoreBookOK, CycleBookOK, QuietStates, BareStates
<1>4. CASE Halt(p)
  BY <1>1, <1>4, HaltKeepsBook
<1>5. CASE StartEmergencyExit(p)
  BY <1>1, <1>3, <1>5, ExitIntentKeepsBook
<1>6. CASE Transition(c, t) /\ Goto(p, "attempt")
  <2>1. /\ AllowedTransition(state[c], t)
        /\ state' = [state EXCEPT ![c] = t]
        /\ pc' = [pc EXCEPT ![p] = "attempt"]
    BY <1>6 DEF Transition, Goto
  <2>2. t \notin {Flat, Cleared, "ENTRY_INTENT_PERSISTED"} /\ t \notin BareStates
    BY DEF Flat, Cleared, BareStates
  <2>. QED
    BY <1>1, <1>3, <2>1, <2>2, IntentKeepsBook
<1>. QED
  BY <1>4, <1>5, <1>6 DEF EnsureProtection

\* The engine.
LEMMA EngineKeepsBook ==
    ASSUME ReadMode = "settled", IInv, BookOK, NEW p \in Proc, EngineStep(p),
           UNCHANGED <<risk, lastBeat>>
    PROVE  BookOK'
  BY AttemptActionKeepsBook, PerformActionKeepsBook, RecordOutcomeKeepsBook,
     EnterReconcilingKeepsBook, ReadSnapshotKeepsBook, ReconcileKeepsBook,
     EnsureProtectionKeepsBook DEF EngineStep

(***************************************************************************)
(* The steps of the command lines.                                         *)
(***************************************************************************)

\* A snapshot that opens a gate.
LEMMA FlatViewIsTrue ==
    ASSUME ReadMode = "settled", IInv, NEW s \in Views, FlatSnapshot(s)
    PROVE  BookEmpty /\ wire = {}
<1>1. s.known /\ NothingOpen(s)
  BY DEF FlatSnapshot, NothingOpen
<1>. QED
  BY <1>1, KnownIsTrue, NothingOpenIsTrue DEF IInv, TypeOK

\* Leaving with every cycle in its state.
LEMMA LeaveOnlyKeepsBook ==
    ASSUME IInv, BookOK, NEW p \in Proc, pc[p] # "idle", Leave(p), UNCHANGED state,
           UNCHANGED brokerVars
    PROVE  BookOK'
  BY SameStatesKeepBook, LeaveKeepsBook DEF BookOK

\* Going on with every cycle in its state.
LEMMA GotoKeepsBook ==
    ASSUME IInv, BookOK, NEW p \in Proc, pc[p] # "idle", NEW l, l \notin {"perform", "decide"},
           pc' = [pc EXCEPT ![p] = l], UNCHANGED state, UNCHANGED brokerVars,
           l \in {"risk", "create", "clear", "clearGlobal"} => BookEmpty /\ wire = {},
           l = "attempt" => wire = {}
    PROVE  BookOK'
<1>1. StoreBookOK' /\ pc'[p] = l
  BY SameStatesKeepBook, TypeParts DEF BookOK, IInv, ProcTypeOK
<1>2. ProcBookOK(p)'
  BY <1>1 DEF ProcBookOK, BookEmpty, brokerVars
<1>. QED
  BY <1>1, <1>2, MoveKeepsBook

\* Starting.
LEMMA StartKeepsBook ==
    ASSUME IInv, BookOK, NEW p \in Proc, StartStep(p)
    PROVE  BookOK'
<1>1. PICK l \in {"run", "resume", "reload"} : Start(p, l)
  BY DEF StartStep
<1>2. /\ pc' = [pc EXCEPT ![p] = l]
      /\ UNCHANGED <<ref, snap, state, wire, pos, side, pend, oco>>
  BY <1>1 DEF Start, storeVars, brokerVars
<1>3. StoreBookOK'
  BY <1>2, SameStatesKeepBook DEF BookOK, brokerVars
<1>4. ASSUME NEW q \in Proc PROVE ProcBookOK(q)'
  <2>1. CASE q = p
    BY <1>2, <2>1, TypeParts DEF IInv, ProcTypeOK, ProcBookOK
  <2>2. CASE q # p
    <3>1. pc'[q] = pc[q]
      BY <1>2, <2>2, TypeParts DEF IInv, ProcTypeOK
    <3>. QED
      BY <1>2, <3>1 DEF BookOK, ProcBookOK, StillTrue, BookEmpty
  <2>. QED
    BY <2>1, <2>2
<1>. QED
  BY <1>3, <1>4 DEF BookOK

\* run_v4_gmo_once_no_post up to the engine.
LEMMA RunKeepsBook ==
    ASSUME ReadMode = "settled", IInv, BookOK, NEW p \in Proc,
           RunGate(p) \/ BootReconcile(p) \/ RiskGate(p) \/ CreateCycleStep(p)
    PROVE  BookOK'
<1>1. pc[p] \in {"run", "boot", "risk", "create"} /\ pc[p] # "idle" /\ UNCHANGED brokerVars
  BY DEF RunGate, BootReconcile, RiskGate, CreateCycleStep
<1>2. CASE Leave(p) /\ UNCHANGED state
  BY <1>1, <1>2, LeaveOnlyKeepsBook
<1>3. CASE RunGate(p)
  <2>1. \/ Leave(p) /\ UNCHANGED state
        \/ pc' = [pc EXCEPT ![p] = "boot"] /\ UNCHANGED state
    BY <1>3 DEF RunGate, NotificationFails, EngageGlobalHalt, Goto, storeVars
  <2>. QED
    BY <1>1, <1>2, <2>1, GotoKeepsBook
<1>4. CASE BootReconcile(p)
  <2>1. \/ Leave(p) /\ UNCHANGED state
        \/ /\ \E s \in Views : FlatSnapshot(s)
           /\ pc' = [pc EXCEPT ![p] = "risk"] /\ UNCHANGED state
    BY <1>4 DEF BootReconcile, EngageGlobalHalt, Goto, storeVars
  <2>. QED
    BY <1>1, <1>2, <2>1, FlatViewIsTrue, GotoKeepsBook
<1>5. CASE RiskGate(p)
  <2>1. \/ Leave(p) /\ UNCHANGED state
        \/ pc[p] = "risk" /\ pc' = [pc EXCEPT ![p] = "create"] /\ UNCHANGED state
    BY <1>5 DEF RiskGate, storeVars
  <2>. QED
    BY <1>1, <1>2, <2>1, GotoKeepsBook DEF BookOK, ProcBookOK
<1>6. CASE CreateCycleStep(p)
  <2>1. pc[p] = "create" /\ BookEmpty /\ wire = {}
    BY <1>6 DEF CreateCycleStep, BookOK, ProcBookOK
  <2>2. \/ Leave(p) /\ UNCHANGED state
        \/ pc' = [pc EXCEPT ![p] = "attempt"]
    BY <1>6 DEF CreateCycleStep, storeVars, Goto
  <2>3. CASE pc' = [pc EXCEPT ![p] = "attempt"]
    <3>1. StoreBookOK' /\ pc'[p] = "attempt"
      BY <1>1, <2>1, <2>3, EmptyBookAllowsAll, TypeParts DEF IInv, ProcTypeOK
    <3>2. ProcBookOK(p)'
      BY <1>1, <2>1, <3>1 DEF ProcBookOK, brokerVars
    <3>. QED
      BY <1>1, <2>3, <3>1, <3>2, MoveKeepsBook
  <2>. QED
    BY <1>2, <2>2, <2>3
<1>. QED
  BY <1>3, <1>4, <1>5, <1>6

\* resume_v4_gmo_once_no_post: an intent is attempted only where nothing is
\* under way.
LEMMA ResumeKeepsBook ==
    ASSUME IInv, BookOK, NEW p \in Proc, ResumeGate(p)
    PROVE  BookOK'
<1>1. pc[p] # "idle" /\ UNCHANGED brokerVars
  BY DEF ResumeGate
<1>2. CASE Leave(p) /\ UNCHANGED state
  BY <1>1, <1>2, LeaveOnlyKeepsBook
<1>3. CASE \E c \in ActiveCycles : pc' = [pc EXCEPT ![p] = ResumePoint(state[c])]
           /\ UNCHANGED storeVars
  <2>1. PICK c \in Cycle : pc' = [pc EXCEPT ![p] = ResumePoint(state[c])]
    BY <1>3 DEF ActiveCycles
  <2> DEFINE l == ResumePoint(state[c])
  <2>2. /\ l \in {"attempt", "settle", "ensure", "read"}
        /\ l = "attempt" => state[c] \in QuietStates
    BY DEF ResumePoint, QuietStates
  <2>3. l = "attempt" => wire = {}
    BY <2>2, QuietMeansNoRequest DEF BookOK
  <2>4. UNCHANGED state
    BY <1>3 DEF storeVars
  <2> HIDE DEF l
  <2>. QED
    BY <1>1, <2>1, <2>2, <2>3, <2>4, GotoKeepsBook DEF l
<1>4. \/ Leave(p) /\ UNCHANGED state
      \/ (\E c \in ActiveCycles : pc' = [pc EXCEPT ![p] = ResumePoint(state[c])])
         /\ UNCHANGED storeVars
  BY DEF ResumeGate, NotificationFails, EngageGlobalHalt, storeVars
<1>. QED
  BY <1>2, <1>3, <1>4

\* operator_reload_v4_gmo_no_post.
LEMMA ReloadKeepsBook ==
    ASSUME ReadMode = "settled", IInv, BookOK, NEW p \in Proc,
           ReloadGate(p) \/ ClearHalted(p) \/ ClearGlobal(p)
    PROVE  BookOK'
<1>1. pc[p] \in {"reload", "clear", "clearGlobal"} /\ pc[p] # "idle" /\ UNCHANGED brokerVars
  BY DEF ReloadGate, ClearHalted, ClearGlobal
<1>2. CASE Leave(p) /\ UNCHANGED state
  BY <1>1, <1>2, LeaveOnlyKeepsBook
<1>3. CASE ReloadGate(p)
  <2>1. \/ Leave(p) /\ UNCHANGED state
        \/ \E l \in {"clear", "clearGlobal"} :
              /\ \E s \in Views : FlatSnapshot(s)
              /\ pc' = [pc EXCEPT ![p] = l] /\ UNCHANGED state
    BY <1>3 DEF ReloadGate, Goto, storeVars
  <2>. QED
    BY <1>1, <1>2, <2>1, FlatViewIsTrue, GotoKeepsBook
<1>4. CASE ClearHalted(p)
  <2>1. /\ BookEmpty /\ wire = {}
        /\ pc' = [pc EXCEPT ![p] = "clearGlobal"]
    BY <1>4 DEF ClearHalted, BookOK, ProcBookOK, Goto
  <2>2. StoreBookOK' /\ pc'[p] = "clearGlobal"
    BY <1>1, <2>1, EmptyBookAllowsAll, TypeParts DEF IInv, ProcTypeOK
  <2>3. ProcBookOK(p)'
    BY <1>1, <2>1, <2>2 DEF ProcBookOK, BookEmpty, brokerVars
  <2>. QED
    BY <1>1, <2>1, <2>2, <2>3, MoveKeepsBook
<1>5. CASE ClearGlobal(p)
  BY <1>2, <1>5 DEF ClearGlobal, ClearGlobalHalt, storeVars
<1>. QED
  BY <1>3, <1>4, <1>5

(***************************************************************************)
(* The account, crashes and the clock.                                     *)
(***************************************************************************)

\* What the account does by itself never brings back what is gone.
LEMMA AccountOnlyEmpties ==
    ASSUME BrokerTypeOK,
           \/ RemainderFills \/ ProtectionFires \/ ProtectionDisappears
           \/ PositionLiquidated \/ OperatorFlattens
    PROVE  /\ wire' = wire
           /\ oco = 0 => oco' = 0
           /\ pos = 0 /\ pend = 0 => pos' = 0 /\ pend' = 0
<1>1. pos \in Nat /\ pend \in Nat /\ oco \in Nat
  BY LotAssumption DEF BrokerTypeOK
<1>. QED
  BY <1>1 DEF RemainderFills, ProtectionFires, ProtectionDisappears, PositionLiquidated,
     OperatorFlattens, BookEmpty

\* A request takes effect: its cycle is the unfinished one and waits for it.
LEMMA SettleKeepsBook ==
    ASSUME IInv, BookOK, SettleRequest, UNCHANGED <<state, pc, ref, snap>>
    PROVE  BookOK'
<1>1. PICK r \in wire :
          /\ wire' = wire \ {r}
          /\ \/ SettleWithoutEffect(r) \/ SettleMarketEntry(r) \/ SettleCancelRemainder(r)
             \/ SettleProtection(r) \/ SettleCancelProtection(r) \/ SettleExit(r)
  BY DEF SettleRequest
<1>2. RequestOK(r) /\ r.cycle \in Cycle /\ wire # {}
  BY DEF BookOK, StoreBookOK, IInv, TypeOK, BrokerTypeOK, Request
<1>3. wire' = {}
  BY <1>1, <1>2 DEF RequestOK
<1>4. \A c \in Cycle : Unfinished(c) => c = r.cycle
  BY <1>2 DEF RequestOK, IInv, StoreInv, SingleUnfinishedCycle
<1>5. r.action = EmergencyExit /\ oco = 0 => oco' = 0
  BY <1>1 DEF SettleWithoutEffect, SettleMarketEntry, SettleCancelRemainder, SettleProtection,
     SettleCancelProtection, SettleExit, EmergencyExit
<1>6. ASSUME NEW c \in Cycle PROVE CycleBookOK(c)'
  <2>1. CASE state[c] \notin QuietStates \cup {"EMERGENCY_EXIT_ATTEMPTED"}
    BY <2>1 DEF CycleBookOK, QuietStates, BareStates
  <2>2. CASE state[c] \in QuietStates
    BY <1>2, <2>2, QuietMeansNoRequest DEF BookOK
  <2>3. CASE state[c] = "EMERGENCY_EXIT_ATTEMPTED"
    <3>1. c = r.cycle
      BY <1>4, <2>3 DEF Unfinished, Absent, Flat, Cleared
    <3>. QED
      BY <1>2, <1>5, <2>3, <3>1 DEF RequestOK, CycleBookOK, BareStates
  <2>. QED
    BY <2>1, <2>2, <2>3
<1>7. (\E c \in Cycle : Unfinished(c))'
  BY <1>2 DEF RequestOK, Unfinished
<1>8. StoreBookOK'
  BY <1>3, <1>6, <1>7 DEF StoreBookOK
<1>9. ASSUME NEW p \in Proc PROVE ProcBookOK(p)'
  BY <1>2 DEF BookOK, ProcBookOK, StillTrue
<1>. QED
  BY <1>8, <1>9 DEF BookOK

\* The account moves by itself.
LEMMA AccountKeepsBook ==
    ASSUME BookOK, UNCHANGED <<state, pc, ref, snap>>, wire' = wire, oco = 0 => oco' = 0,
           pos = 0 /\ pend = 0 => pos' = 0 /\ pend' = 0
    PROVE  BookOK'
<1>1. BookEmpty => BookEmpty'
  BY DEF BookEmpty
<1>2. ASSUME NEW r \in wire PROVE RequestOK(r)'
  BY <1>1 DEF BookOK, StoreBookOK, RequestOK, Unfinished
<1>3. \A c \in Cycle : CycleBookOK(c)'
  BY <1>1 DEF BookOK, StoreBookOK, CycleBookOK
<1>4. (~BookEmpty => \E c \in Cycle : Unfinished(c))'
  BY <1>1 DEF BookOK, StoreBookOK, Unfinished
<1>5. StoreBookOK'
  BY <1>2, <1>3, <1>4 DEF StoreBookOK
<1>6. ASSUME NEW p \in Proc PROVE ProcBookOK(p)'
  BY <1>1 DEF BookOK, ProcBookOK, StillTrue
<1>. QED
  BY <1>5, <1>6 DEF BookOK

\* The broker.
LEMMA BrokerKeepsBook ==
    ASSUME IInv, BookOK, BrokerMoves
    PROVE  BookOK'
<1>1. UNCHANGED <<state, pc, ref, snap>> /\ BrokerTypeOK
  BY DEF BrokerMoves, storeVars, procVars, IInv, TypeOK
<1>2. CASE SettleRequest
  BY <1>1, <1>2, SettleKeepsBook
<1>3. CASE \/ RemainderFills \/ ProtectionFires \/ ProtectionDisappears
           \/ PositionLiquidated \/ OperatorFlattens
  BY <1>1, <1>3, AccountOnlyEmpties, AccountKeepsBook
<1>. QED
  BY <1>2, <1>3 DEF BrokerMoves, BrokerStep

(***************************************************************************)
(* The invariant.                                                          *)
(***************************************************************************)

\* Nothing is open and nobody is at work.
LEMMA InitBook == Init => BookOK
<1> SUFFICES ASSUME Init PROVE BookOK
  OBVIOUS
<1>1. /\ wire = {} /\ pos = 0 /\ pend = 0 /\ oco = 0
      /\ \A p \in Proc : pc[p] = "idle"
  BY DEF Init, BrokerInit
<1>. QED
  BY <1>1 DEF BookOK, StoreBookOK, CycleBookOK, ProcBookOK, BookEmpty

\* Every step keeps the invariant.
LEMMA NextBook ==
    ASSUME ReadMode = "settled"
    PROVE  IInv /\ BookOK /\ [Next]_vars => BookOK'
<1> SUFFICES ASSUME IInv, BookOK, [Next]_vars PROVE BookOK'
  OBVIOUS
<1>1. CASE UNCHANGED vars
  BY <1>1 DEF vars, storeVars, brokerVars, procVars, BookOK, StoreBookOK, RequestOK,
     CycleBookOK, ProcBookOK, StillTrue, Unfinished, BookEmpty
<1>2. ASSUME NEW p \in Proc, StartStep(p) PROVE BookOK'
  BY <1>2, StartKeepsBook
<1>3. ASSUME NEW p \in Proc, ProcessStep(p) PROVE BookOK'
  BY <1>3, RunKeepsBook, ResumeKeepsBook, ReloadKeepsBook, EngineKeepsBook DEF ProcessStep
<1>4. ASSUME NEW p \in Proc, Crash(p) PROVE BookOK'
  BY <1>4, LeaveOnlyKeepsBook DEF Crash, storeVars
<1>5. CASE BrokerMoves
  BY <1>5, BrokerKeepsBook
<1>6. CASE ClockStep
  <2>1. UNCHANGED <<state, wire, oco, pos, pend, pc, ref, snap>>
    BY <1>6 DEF ClockStep, storeVars, brokerVars, procVars
  <2>. QED
    BY <2>1, AccountKeepsBook
<1>. QED
  BY <1>1, <1>2, <1>3, <1>4, <1>5, <1>6 DEF Next

\* With settled reads the invariant holds.
THEOREM BookInvariance ==
    ASSUME ReadMode = "settled"
    PROVE  Spec => [](IInv /\ BookOK)
<1>1. Init => BookOK
  BY InitBook
<1>2. IInv /\ BookOK /\ [Next]_vars => BookOK'
  BY NextBook
<1>. QED
  BY <1>1, <1>2, Invariance, PTL DEF Spec

(***************************************************************************)
(* What it gives.                                                          *)
(***************************************************************************)

\* With settled reads, a position, a working order or a pending request always
\* belongs to a cycle that is active or waits for the operator: the engine
\* never closes a cycle over something that is still open.
THEOREM ExposureAlwaysOwned ==
    ASSUME ReadMode = "settled"
    PROVE  Spec => []ExposureIsOwned
<1>1. IInv /\ BookOK => ExposureIsOwned
  <2> SUFFICES ASSUME IInv, BookOK, ~BookEmpty \/ wire # {}
               PROVE  \E c \in Cycle : Unfinished(c)
    BY DEF ExposureIsOwned
  <2>1. CASE ~BookEmpty
    BY <2>1 DEF BookOK, StoreBookOK
  <2>2. CASE wire # {}
    <3>1. PICK r \in wire : RequestOK(r)
      BY <2>2 DEF BookOK, StoreBookOK
    <3>2. r.cycle \in Cycle
      BY DEF IInv, TypeOK, BrokerTypeOK, Request
    <3>. QED
      BY <3>1, <3>2 DEF RequestOK
  <2>. QED
    BY <2>1, <2>2
<1>. QED
  BY <1>1, BookInvariance, PTL

\* With settled reads, the market entry of a cycle reaches a broker with no
\* position, no working order and no other request: no scale-in and no hedge,
\* whatever crashed, resumed or fired between the checks and the send.
THEOREM EntryAlwaysMeetsEmptyBook ==
    ASSUME ReadMode = "settled"
    PROVE  Spec => []EntryMeetsEmptyBook
<1>1. BookOK => EntryMeetsEmptyBook
  BY DEF BookOK, StoreBookOK, RequestOK, EntryMeetsEmptyBook
<1>. QED
  BY <1>1, BookInvariance, PTL

\* With settled reads, the emergency exit is never on its way while the
\* protection order of the position works.
THEOREM ExitNeverOverLiveProtection ==
    ASSUME ReadMode = "settled"
    PROVE  Spec => []NoExitOverLiveProtection
<1>1. BookOK => NoExitOverLiveProtection
  BY DEF BookOK, StoreBookOK, RequestOK, NoExitOverLiveProtection, EmergencyExit
<1>. QED
  BY <1>1, BookInvariance, PTL

\* No halt is latched while the engine works on a cycle.
LEMMA NoHaltAtWork ==
    ASSUME IInv, NEW p \in Proc, pc[p] \in AtWork
    PROVE  ~HaltLatched
<1>1. ref[p] \in Cycle /\ ~globalHalt
      /\ state[ref[p]] \in IntentStates \cup AttemptedStates \cup ReadableStates
            \cup {"ENTRY_FILLED_UNPROTECTED"}
  BY DEF IInv, ProcOK, AtWork
<1>2. Unfinished(ref[p]) /\ state[ref[p]] # Halted
  BY <1>1 DEF Unfinished, IntentStates, AttemptedStates, ReadableStates, Halted, Flat, Cleared,
     Absent
<1>3. \A d \in Cycle : state[d] = Halted => Unfinished(d)
  BY DEF Unfinished, Halted, Flat, Cleared, Absent
<1>. QED
  BY <1>1, <1>2, <1>3
     DEF HaltLatched, HaltedCycles, IInv, StoreInv, SingleUnfinishedCycle

\* Only the two transactions of the reload lift a halt.
LEMMA HaltOutlivesTheRest ==
    ASSUME IInv, HaltLatched, [Next]_vars,
           \A p \in Proc : ~ClearHalted(p) /\ ~ClearGlobal(p)
    PROVE  HaltLatched'
<1>1. ASSUME NEW p \in Proc, EngineStep(p) PROVE FALSE
  <2>1. pc[p] \in AtWork
    BY <1>1 DEF EngineStep, AttemptAction, PerformAction, RecordOutcome, EnterReconciling,
       ReadSnapshot, Reconcile, EnsureProtection, AtWork
  <2>. QED
    BY <2>1, NoHaltAtWork
<1>2. CASE UNCHANGED <<state, globalHalt>>
  BY <1>2 DEF HaltLatched, HaltedCycles
<1>3. CASE globalHalt'
  BY <1>3 DEF HaltLatched
<1>4. ASSUME NEW p \in Proc, CreateCycleStep(p) PROVE HaltLatched'
  <2>1. CASE UNCHANGED storeVars
    BY <1>2, <2>1 DEF storeVars
  <2>. QED
    BY <1>4, <2>1 DEF CreateCycleStep, CreateCycle, CreateAllowed
<1>5. ASSUME NEW p \in Proc,
             \/ StartStep(p) \/ Crash(p) \/ RunGate(p) \/ BootReconcile(p) \/ RiskGate(p)
             \/ ResumeGate(p) \/ ReloadGate(p)
      PROVE  HaltLatched'
  <2>1. UNCHANGED <<state, globalHalt>> \/ globalHalt'
    BY <1>5 DEF StartStep, Start, Crash, RunGate, BootReconcile, RiskGate, ResumeGate,
       ReloadGate, NotificationFails, EngageGlobalHalt, storeVars
  <2>. QED
    BY <1>2, <1>3, <2>1
<1>6. CASE BrokerMoves \/ ClockStep \/ UNCHANGED vars
  BY <1>2, <1>6 DEF BrokerMoves, ClockStep, vars, storeVars
<1>. QED
  BY <1>1, <1>4, <1>5, <1>6 DEF Next, ProcessStep

\* With settled reads, the operator's reload lifts a halt only over an account
\* with no position, no working order and no pending request: what the gate
\* read still holds when the two transactions run.
THEOREM HaltLiftedOverEmptyBook ==
    ASSUME ReadMode = "settled"
    PROVE  Spec => HaltLiftedOnlyWhenFlat
<1>1. IInv /\ BookOK /\ [Next]_vars => [HaltLatched /\ ~HaltLatched' => BookEmpty /\ wire = {}]_vars
  <2> SUFFICES ASSUME IInv, BookOK, [Next]_vars, HaltLatched, ~HaltLatched'
               PROVE  BookEmpty /\ wire = {}
    OBVIOUS
  <2>1. PICK p \in Proc : ClearHalted(p) \/ ClearGlobal(p)
    BY HaltOutlivesTheRest
  <2>. QED
    BY <2>1 DEF ClearHalted, ClearGlobal, BookOK, ProcBookOK
<1>. QED
  BY <1>1, BookInvariance, PTL DEF Spec, HaltLiftedOnlyWhenFlat

(***************************************************************************)
(* The calendar of the risk file.  Its day is charged with the time the    *)
(* run started, which the heartbeat has accepted before.                   *)
(***************************************************************************)

\* The day in the file is not after the day of the last heartbeat.
DayCovered == risk.day # None => lastBeat \in Nat /\ risk.day <= Day(lastBeat)

CalendarOK ==
    /\ DayCovered
    /\ \A p \in Proc : pc[p] \in {"boot", "risk", "create"} => startedAt[p] = lastBeat

\* A later time is on no earlier day.
LEMMA DayMonotone ==
    ASSUME NEW a \in Nat, NEW b \in Nat, a <= b
    PROVE  Day(a) <= Day(b)
<1> DEFINE x == a \div DayLength
           y == b \div DayLength
<1>1. x \in Nat /\ y \in Nat
  BY RuntimeAssumption, SMT
<1>2. /\ a = DayLength * x + (a % DayLength) /\ a % DayLength \in Nat
      /\ b = DayLength * y + (b % DayLength) /\ b % DayLength \in Nat
      /\ b % DayLength < DayLength
  BY RuntimeAssumption, SMT
<1> HIDE DEF x, y
<1>3. ASSUME x > y PROVE FALSE
  <2>1. PICK k \in Nat : x = y + 1 + k
    BY <1>1, <1>3
  <2>2. DayLength * x = DayLength * y + DayLength + DayLength * k /\ DayLength * k \in Nat
    BY <1>1, <2>1, RuntimeAssumption
  <2>3. DayLength * x \in Nat /\ DayLength * y \in Nat
    BY <1>1, RuntimeAssumption
  <2>. QED
    BY <1>2, <2>2, <2>3, RuntimeAssumption
<1>. QED
  BY <1>1, <1>3 DEF x, y, Day

\* An entry is counted on the day it is charged to.
LEMMA RecordEntryDay ==
    ASSUME risk \in RiskState, NEW d \in Nat
    PROVE  RecordEntry(risk, d).day = d
<1>1. RollDay(risk, d) \in RiskState /\ RollDay(risk, d).day = d
  BY DEF RollDay, RiskState, StopState
<1>2. Month(d) \in Nat
  BY RiskPolicyAssumption DEF Month
<1>3. RollCalendar(risk, d) \in RiskState /\ RollCalendar(risk, d).day = d
  BY <1>1, <1>2 DEF RollCalendar, RollMonth, RiskState
<1>. QED
  BY <1>3 DEF RecordEntry, RiskState

Charging == {"boot", "risk", "create"}

\* One process moves; the others are idle.
LEMMA CalendarOfOne ==
    ASSUME IInv, NEW p \in Proc, pc[p] # "idle", NEW l, pc' = [pc EXCEPT ![p] = l],
           l \in Charging => startedAt'[p] = lastBeat',
           DayCovered'
    PROVE  CalendarOK'
<1>1. ProcTypeOK /\ LockInv
  BY TypeParts DEF IInv
<1>2. /\ \A q \in Proc \ {p} : pc'[q] = "idle"
      /\ pc'[p] = l
  BY <1>1, OthersIdle DEF ProcTypeOK
<1>. QED
  BY <1>2 DEF CalendarOK, Charging

\* A move of the engine, of the reload, or a crash: away from the charge.
LEMMA CalendarOfOthers ==
    ASSUME IInv, CalendarOK, NEW p \in Proc, pc[p] # "idle", NEW l, l \notin Charging,
           pc' = [pc EXCEPT ![p] = l], UNCHANGED <<risk, lastBeat>>
    PROVE  CalendarOK' /\ risk'.day >= risk.day
<1>1. DayCovered' /\ risk' = risk
  BY DEF CalendarOK, DayCovered, Day
<1>2. risk.day \in Int
  BY DEF IInv, TypeOK, RiskState, None
<1>3. CalendarOK'
  BY <1>1, CalendarOfOne
<1>. QED
  BY <1>1, <1>2, <1>3

\* Where a step of the engine goes.
LEMMA EngineGoes ==
    ASSUME NEW p \in Proc, EngineStep(p)
    PROVE  \E l \in AtWork \cup {"idle"} : pc' = [pc EXCEPT ![p] = l]
<1>1. CASE AttemptAction(p)
  BY <1>1 DEF AttemptAction, Halt, Leave, Goto, AtWork
<1>2. CASE PerformAction(p)
  BY <1>2 DEF PerformAction, SendAction, Halt, Leave, Unread, AtWork
<1>3. CASE RecordOutcome(p) \/ EnterReconciling(p) \/ ReadSnapshot(p)
  BY <1>3 DEF RecordOutcome, EnterReconciling, ReadSnapshot, Goto, AtWork
<1>4. CASE EnsureProtection(p)
  BY <1>4 DEF EnsureProtection, StartEmergencyExit, Halt, Leave, Goto, Unread, AtWork
<1>5. CASE Reconcile(p)
  BY <1>5 DEF Reconcile, RestartEntryPreflight, ReconcileEntry, ReconcileProtection,
     ReconcileCancelledProtection, ReconcileEmergencyExit, ReconcileProtectedPosition,
     StartEmergencyExit, StartProtectionCancel, FinishFlat, Halt, Leave, Goto, Unread, AtWork
<1>. QED
  BY <1>1, <1>2, <1>3, <1>4, <1>5 DEF EngineStep

\* The heartbeat of a command line is no earlier than the last one.
LEMMA BeatMovesOn ==
    ASSUME IInv, CalendarOK, NEW p \in Proc, pc[p] # "idle", HeartbeatAccepted(p),
           Beat(p), UNCHANGED risk
    PROVE  DayCovered'
<1>1. startedAt[p] \in Nat /\ risk.day \in Nat \cup {None}
  BY DEF IInv, ProcOK, TypeOK, RiskState
<1>2. CASE risk.day = None
  BY <1>2 DEF DayCovered
<1>3. CASE risk.day # None
  <2>1. lastBeat \in Nat /\ risk.day <= Day(lastBeat) /\ lastBeat <= startedAt[p]
    BY <1>1, <1>3 DEF CalendarOK, DayCovered, HeartbeatAccepted
  <2>2. /\ Day(lastBeat) <= Day(startedAt[p])
        /\ Day(lastBeat) \in Nat /\ Day(startedAt[p]) \in Nat
    BY <1>1, <2>1, DayMonotone, DayTyped
  <2>3. risk.day <= Day(startedAt[p])
    BY <1>1, <1>3, <2>1, <2>2 DEF None
  <2>. QED
    BY <1>1, <2>3 DEF Beat, DayCovered, Day
<1>. QED
  BY <1>2, <1>3

\* The charge is made on the day of the last heartbeat, which is no earlier
\* than the day in the file.
LEMMA ChargeMovesOn ==
    ASSUME IInv, CalendarOK, NEW p \in Proc, pc[p] = "risk", UNCHANGED lastBeat,
           risk' = RecordEntry(risk, Day(startedAt[p]))
    PROVE  /\ risk'.day >= risk.day
           /\ DayCovered'
<1>1. /\ startedAt[p] = lastBeat /\ lastBeat \in Nat
      /\ risk \in RiskState
  BY DEF IInv, ProcOK, TypeOK, CalendarOK
<1>2. Day(lastBeat) \in Nat /\ risk.day \in Nat \cup {None}
  BY <1>1, DayTyped DEF RiskState
<1>3. risk'.day = Day(lastBeat)
  BY <1>1, <1>2, RecordEntryDay
<1>. QED
  BY <1>1, <1>2, <1>3 DEF CalendarOK, DayCovered, None, Day

\* Every step keeps the calendar's invariant and moves the file's day on.
LEMMA NextCalendar ==
    ASSUME IInv, CalendarOK, [Next]_vars
    PROVE  CalendarOK' /\ risk'.day >= risk.day
<1>1. risk.day \in Int
  BY DEF IInv, TypeOK, RiskState, None
<1>2. CASE BrokerMoves \/ ClockStep \/ UNCHANGED vars
  <2>1. UNCHANGED <<pc, startedAt, risk, lastBeat>>
    BY <1>2 DEF BrokerMoves, ClockStep, vars, procVars
  <2>. QED
    BY <1>1, <2>1 DEF CalendarOK, DayCovered, Day
<1>3. ASSUME NEW p \in Proc, StartStep(p) PROVE CalendarOK' /\ risk'.day >= risk.day
  <2>1. PICK l \in {"run", "resume", "reload"} : Start(p, l)
    BY <1>3 DEF StartStep
  <2>2. /\ pc' = [pc EXCEPT ![p] = l]
        /\ startedAt' = [startedAt EXCEPT ![p] = now]
        /\ UNCHANGED <<risk, lastBeat>>
    BY <2>1 DEF Start
  <2>3. \A q \in Proc : pc'[q] \in {"boot", "risk", "create"} =>
            pc'[q] = pc[q] /\ startedAt'[q] = startedAt[q]
    BY <2>2, TypeParts DEF IInv, ProcTypeOK
  <2>. QED
    BY <1>1, <2>2, <2>3 DEF CalendarOK, DayCovered, Day
<1>4. ASSUME NEW p \in Proc, pc[p] # "idle", UNCHANGED <<risk, lastBeat>>,
             NEW l, l \notin Charging, pc' = [pc EXCEPT ![p] = l]
      PROVE  CalendarOK' /\ risk'.day >= risk.day
  BY <1>4, CalendarOfOthers
<1>5. ASSUME NEW p \in Proc, EngineStep(p), UNCHANGED <<risk, lastBeat>>
      PROVE  CalendarOK' /\ risk'.day >= risk.day
  <2>1. PICK l \in AtWork \cup {"idle"} : pc' = [pc EXCEPT ![p] = l]
    BY <1>5, EngineGoes
  <2>2. l \notin Charging
    BY DEF AtWork, Charging
  <2>3. pc[p] # "idle"
    BY <1>5 DEF EngineStep, AttemptAction, PerformAction, RecordOutcome, EnterReconciling,
       ReadSnapshot, Reconcile, EnsureProtection
  <2>. QED
    BY <1>4, <1>5, <2>1, <2>2, <2>3
<1>6. ASSUME NEW p \in Proc, Crash(p) \/ ReloadGate(p) \/ ClearHalted(p) \/ ClearGlobal(p)
      PROVE  CalendarOK' /\ risk'.day >= risk.day
  <2>1. \E l \in {"idle", "clear", "clearGlobal"} :
            /\ pc[p] # "idle" /\ pc' = [pc EXCEPT ![p] = l]
            /\ UNCHANGED <<risk, lastBeat>>
    BY <1>6 DEF Crash, ReloadGate, ClearHalted, ClearGlobal, Leave, Goto
  <2>. QED
    BY <1>4, <2>1 DEF Charging
<1>7. ASSUME NEW p \in Proc, CreateCycleStep(p) \/ BootReconcile(p)
      PROVE  CalendarOK' /\ risk'.day >= risk.day
  <2>1. /\ pc[p] # "idle" /\ UNCHANGED <<risk, lastBeat>>
        /\ \/ \E l \in {"idle", "attempt"} : pc' = [pc EXCEPT ![p] = l]
           \/ pc[p] = "boot" /\ pc' = [pc EXCEPT ![p] = "risk"] /\ UNCHANGED startedAt
    BY <1>7 DEF CreateCycleStep, BootReconcile, Leave, Goto
  <2>2. CASE \E l \in {"idle", "attempt"} : pc' = [pc EXCEPT ![p] = l]
    BY <1>4, <2>1, <2>2 DEF Charging
  <2>3. CASE pc[p] = "boot" /\ pc' = [pc EXCEPT ![p] = "risk"] /\ UNCHANGED startedAt
    BY <1>1, <2>1, <2>3, CalendarOfOne DEF CalendarOK, DayCovered, Day
  <2>. QED
    BY <2>1, <2>2, <2>3
<1>8. ASSUME NEW p \in Proc, RiskGate(p)
      PROVE  CalendarOK' /\ risk'.day >= risk.day
  <2>1. pc[p] = "risk" /\ pc[p] # "idle" /\ UNCHANGED lastBeat
    BY <1>8 DEF RiskGate
  <2>2. CASE Leave(p) /\ UNCHANGED risk
    BY <1>4, <2>1, <2>2 DEF Leave, Charging
  <2>3. CASE /\ risk' = RecordEntry(risk, Day(startedAt[p]))
             /\ pc' = [pc EXCEPT ![p] = "create"] /\ UNCHANGED startedAt
    <3>1. startedAt'[p] = lastBeat'
      BY <2>1, <2>3 DEF CalendarOK
    <3>2. DayCovered' /\ risk'.day >= risk.day
      BY <2>1, <2>3, ChargeMovesOn
    <3>. QED
      BY <2>1, <2>3, <3>1, <3>2, CalendarOfOne
  <2>. QED
    BY <1>8, <2>2, <2>3 DEF RiskGate
<1>9. ASSUME NEW p \in Proc, RunGate(p) \/ ResumeGate(p)
      PROVE  CalendarOK' /\ risk'.day >= risk.day
  <2>1. /\ pc[p] # "idle" /\ UNCHANGED risk
        /\ \/ Leave(p) /\ UNCHANGED lastBeat
           \/ Leave(p) /\ Beat(p) /\ HeartbeatAccepted(p)
           \/ /\ Beat(p) /\ HeartbeatAccepted(p) /\ UNCHANGED startedAt
              /\ \/ pc' = [pc EXCEPT ![p] = "boot"]
                 \/ \E c \in ActiveCycles : pc' = [pc EXCEPT ![p] = ResumePoint(state[c])]
    BY <1>9 DEF RunGate, ResumeGate, NotificationFails, Goto
  <2>. risk'.day >= risk.day
    <3>1. risk' = risk
      BY <2>1
    <3>. QED
      BY <1>1, <3>1
  <2>2. CASE Leave(p) /\ UNCHANGED lastBeat
    BY <1>4, <2>1, <2>2 DEF Leave, Charging
  <2>3. CASE Leave(p) /\ Beat(p) /\ HeartbeatAccepted(p)
    <3>1. DayCovered'
      BY <2>1, <2>3, BeatMovesOn
    <3>2. pc' = [pc EXCEPT ![p] = "idle"] /\ "idle" \notin Charging
      BY <2>3 DEF Leave, Charging
    <3>. QED
      BY <2>1, <3>1, <3>2, CalendarOfOne
  <2>4. CASE Beat(p) /\ HeartbeatAccepted(p) /\ UNCHANGED startedAt
             /\ pc' = [pc EXCEPT ![p] = "boot"]
    <3>1. startedAt'[p] = lastBeat' /\ DayCovered'
      BY <2>1, <2>4, BeatMovesOn DEF Beat
    <3>. QED
      BY <2>1, <2>4, <3>1, CalendarOfOne
  <2>5. ASSUME Beat(p), HeartbeatAccepted(p),
               NEW c \in ActiveCycles, pc' = [pc EXCEPT ![p] = ResumePoint(state[c])]
        PROVE  CalendarOK' /\ risk'.day >= risk.day
    <3>1. ResumePoint(state[c]) \notin Charging /\ DayCovered'
      BY <2>1, <2>5, BeatMovesOn DEF ResumePoint, Charging
    <3>. QED
      BY <2>1, <2>5, <3>1, CalendarOfOne
  <2>. QED
    BY <2>1, <2>2, <2>3, <2>4, <2>5
<1>. QED
  BY <1>2, <1>3, <1>5, <1>6, <1>7, <1>8, <1>9 DEF Next, ProcessStep

\* The day in the risk file never moves back, even when the clock is set back
\* between two command lines: a run whose time is before the last heartbeat
\* ends before it charges its day, so the day's entry count is not reset.
THEOREM RiskDayNeverMovesBack == Spec => RiskCalendarNeverMovesBack
<1>1. Init => CalendarOK
  BY DEF Init, CalendarOK, DayCovered, InitialRisk
<1>2. IInv /\ CalendarOK /\ [Next]_vars => CalendarOK'
  BY NextCalendar
<1>3. IInv /\ CalendarOK /\ [Next]_vars => [risk'.day >= risk.day]_vars
  BY NextCalendar
<1>. QED
  BY <1>1, <1>2, <1>3, Invariance, PTL DEF Spec, RiskCalendarNeverMovesBack

=============================================================================
