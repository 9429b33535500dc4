---------------------------- MODULE V4GmoProgress ---------------------------
(***************************************************************************)
(* Why a command line of V4GmoRuntime ends: the steps it has left are      *)
(* counted down by each of its own steps and by nothing raised again, and  *)
(* until it ends it has a next step.  Together these are what the fairness *)
(* of V4GmoLiveness rests on: a process that keeps going is soon done,     *)
(* whatever the broker shows it and whatever the others do.                *)
(***************************************************************************)
EXTENDS V4GmoRefinement

(***************************************************************************)
(* The steps a process has left.  The engine works in rounds of at most    *)
(* seven steps, one for each action it may still attempt: entry,           *)
(* remainder, protection, cancellation, exit; a restart before the entry   *)
(* has a round of its own for the flat snapshot.                           *)
(***************************************************************************)
RoundAt(label, s, remainderSpent) ==
    CASE s \in {"EMERGENCY_EXIT_INTENT_PERSISTED", "EMERGENCY_EXIT_ATTEMPTED"} -> 1
      [] s \in {"PROTECTION_CANCEL_INTENT_PERSISTED", "PROTECTION_CANCEL_ATTEMPTED",
                "PROTECTION_CANCEL_RECONCILING"} -> 2
      [] s \in {"PROTECTION_INTENT_PERSISTED", "PROTECTION_ATTEMPTED",
                "PROTECTION_RECONCILING", "POSITION_PROTECTED"} -> 3
      [] s \in {"REMAINDER_CANCEL_ATTEMPTED", "ENTRY_FILLED_UNPROTECTED"} -> 4
      [] s = "ENTRY_RECONCILING" -> IF label = "attempt" \/ remainderSpent THEN 4 ELSE 5
      [] s = "MARKET_ENTRY_ATTEMPTED" -> 5
      [] OTHER -> IF label = "attempt" THEN 5 ELSE 6

StepsAt(label, round) ==
    CASE label = "idle" -> 0
      [] label = "clearGlobal" -> 1
      [] label = "clear" -> 2
      [] label = "reload" -> 3
      [] label = "create" -> 36
      [] label = "risk" -> 37
      [] label = "boot" -> 38
      [] label \in {"run", "resume"} -> 39
      [] label = "attempt" -> 7 * round
      [] label = "perform" -> 7 * round - 1
      [] label = "outcome" -> 7 * round - 2
      [] label = "settle" -> 7 * round - 3
      [] label = "read" -> 7 * round - 4
      [] label = "decide" -> 7 * round - 5
      [] label = "ensure" -> 7 * round - 6

MaxSteps == 39

StepsLeft(p) ==
    StepsAt(pc[p], RoundAt(pc[p], state[ref[p]], RemainderCancelSpent(ref[p])))

\* A command line ends after at most MaxSteps steps of its own: no reading is
\* repeated until it shows what is hoped for, no action is attempted again,
\* and nothing another process or the broker does gives it more to do
\* (run_signal_once_synthetic, resume_synthetic: the engine has no loop).
RunsAreBounded ==
    [][\A p \in Proc :
          /\ ProcessStep(p) => StepsLeft(p)' < StepsLeft(p)
          /\ pc[p] # "idle" => StepsLeft(p)' <= StepsLeft(p)]_vars

(***************************************************************************)
(* A next step for every place where a process can stand: what the         *)
(* variables are after it.  Where the code has a choice this takes one,    *)
(* the shortest; where it decides by the snapshot, so does this.           *)
(***************************************************************************)
Stored(st, filled, protected, time, tried, latched) ==
    <<st, filled, protected, time, entryDay, tried, latched>>
Turned(c, t) ==
    Stored([state EXCEPT ![c] = t], filledSize, protectedSize, since, attempts, globalHalt)
TurnedSized(c, t, f, g, time) ==
    Stored([state EXCEPT ![c] = t], [filledSize EXCEPT ![c] = f],
           [protectedSize EXCEPT ![c] = g], [since EXCEPT ![c] = Coalesce(@, time)],
           attempts, globalHalt)
Tried(c, a) ==
    Stored([state EXCEPT ![c] = AttemptTarget(a)], filledSize, protectedSize,
           [since EXCEPT ![c] = IF a = "MARKET_ENTRY" THEN Coalesce(@, now) ELSE @],
           [attempts EXCEPT ![c][a] = "ATTEMPT_STARTED"], globalHalt)
Answered(c, a) ==
    Stored(state, filledSize, protectedSize, since,
           [attempts EXCEPT ![c][a] = "OUTCOME_RECORDED"], globalHalt)
Latching(latched) == Stored(state, filledSize, protectedSize, since, attempts, latched)
Created(c, day) ==
    <<[state EXCEPT ![c] = "ENTRY_INTENT_PERSISTED"], filledSize, protectedSize, since,
      [entryDay EXCEPT ![c] = day], attempts, globalHalt>>

Out(p) ==
    <<lock \ {p}, [pc EXCEPT ![p] = "idle"], [ref EXCEPT ![p] = NoCycle],
      [snap EXCEPT ![p] = UnknownSnapshot], [startedAt EXCEPT ![p] = NoTime]>>
To(p, label) == <<lock, [pc EXCEPT ![p] = label], ref, snap, startedAt>>
ToReading(p, label, s) ==
    <<lock, [pc EXCEPT ![p] = label], ref, [snap EXCEPT ![p] = s], startedAt>>

HaltNext(p) == <<Turned(ref[p], Halted), Out(p)>>
FlatNext(p, f, g) == <<TurnedSized(ref[p], Flat, f, g, NoTime), Out(p)>>
ExitNext(p) ==
    <<Turned(ref[p], "EMERGENCY_EXIT_INTENT_PERSISTED"),
      ToReading(p, "attempt", UnknownSnapshot)>>
CancelNext(p) ==
    <<TurnedSized(ref[p], "PROTECTION_CANCEL_INTENT_PERSISTED", filledSize[ref[p]],
                  snap[p].protection, NoTime),
      ToReading(p, "attempt", UnknownSnapshot)>>

EntryNext(p, c, s) ==
    IF ~s.known \/ EntrySnapshotInvalid(s, Side[c]) \/ (s.pending > 0 /\ RemainderCancelSpent(c))
    THEN HaltNext(p)
    ELSE IF s.pending > 0 THEN <<storeVars, To(p, "attempt")>>
    ELSE IF s.count = 0 THEN FlatNext(p, filledSize[c], protectedSize[c])
    ELSE <<TurnedSized(c, "ENTRY_FILLED_UNPROTECTED", s.filled, s.protection, now),
           ToReading(p, "ensure", UnknownSnapshot)>>

ProtectionNext(p, c, s) ==
    IF NothingOpen(s) THEN FlatNext(p, 0, 0)
    ELSE IF s.known /\ s.count = 0 /\ s.protection > 0 THEN CancelNext(p)
    ELSE IF ~(s.known /\ s.count = 1 /\ s.side = Side[c]) THEN HaltNext(p)
    ELSE IF ExactlyProtected(s, Side[c], filledSize[c])
         THEN IF InTime(c)
              THEN <<TurnedSized(c, "POSITION_PROTECTED", s.filled, s.protection, NoTime), Out(p)>>
              ELSE HaltNext(p)
    ELSE IF ProtectionVisible(s) THEN CancelNext(p) ELSE ExitNext(p)

CancelledNext(p, c, s) ==
    IF NothingOpen(s) THEN FlatNext(p, 0, 0)
    ELSE IF s.known /\ CancellationConfirmed(s, Side[c], filledSize[c]) THEN ExitNext(p)
    ELSE HaltNext(p)

ProtectedNext(p, c, s) ==
    IF FlatSnapshot(s) THEN FlatNext(p, 0, 0)
    ELSE IF ~(s.known /\ OwnPosition(s, Side[c], filledSize[c])) THEN HaltNext(p)
    ELSE IF ExactlyProtected(s, Side[c], filledSize[c]) THEN <<storeVars, Out(p)>>
    ELSE IF s.protection > 0 THEN CancelNext(p) ELSE ExitNext(p)

DecideNext(p, c, s) ==
    CASE state[c] = "ENTRY_INTENT_PERSISTED" ->
            IF FlatSnapshot(s) THEN <<storeVars, ToReading(p, "attempt", UnknownSnapshot)>>
            ELSE HaltNext(p)
      [] state[c] = "ENTRY_RECONCILING" -> EntryNext(p, c, s)
      [] state[c] = "PROTECTION_RECONCILING" -> ProtectionNext(p, c, s)
      [] state[c] = "PROTECTION_CANCEL_RECONCILING" -> CancelledNext(p, c, s)
      [] state[c] = "EMERGENCY_EXIT_ATTEMPTED" ->
            IF NothingOpen(s) THEN FlatNext(p, 0, 0) ELSE HaltNext(p)
      [] state[c] = "POSITION_PROTECTED" -> ProtectedNext(p, c, s)

EnsureNext(p, c) ==
    IF now - since[c] < 0 THEN HaltNext(p)
    ELSE IF now - since[c] > MaxUnprotected THEN ExitNext(p)
    ELSE <<Turned(c, "PROTECTION_INTENT_PERSISTED"), To(p, "attempt")>>

AttemptNext(p, c, a) ==
    IF PlanSize(p, a) = 0 THEN HaltNext(p) ELSE <<Tried(c, a), To(p, "perform")>>

OutcomeNext(p, c, a) ==
    <<Answered(c, a),
      To(p, IF a = "POSITION_SPECIFIC_EMERGENCY_EXIT" THEN "read" ELSE "settle")>>

\* The store and the process after the step.
WorkNext(p) ==
    LET c == ref[p] IN
    CASE pc[p] = "attempt" -> AttemptNext(p, c, NextAction(state[c]))
      [] pc[p] = "perform" -> HaltNext(p)
      [] pc[p] = "outcome" -> OutcomeNext(p, c, AttemptedAction(state[c]))
      [] pc[p] = "settle" -> <<Turned(c, ReconcilingState(state[c])), To(p, "read")>>
      [] pc[p] = "read" -> <<storeVars, ToReading(p, "decide", UnknownSnapshot)>>
      [] pc[p] = "decide" -> DecideNext(p, c, snap[p])
      [] pc[p] = "ensure" -> EnsureNext(p, c)
      [] pc[p] = "boot" -> <<Latching(TRUE), Out(p)>>
      [] pc[p] = "create" ->
            IF risk.entries = 1 /\ CreateAllowed(c, Day(startedAt[p]))
            THEN <<Created(c, Day(startedAt[p])), To(p, "attempt")>>
            ELSE <<storeVars, Out(p)>>
      [] pc[p] = "clear" ->
            <<TurnedSized(CHOOSE d \in HaltedCycles : TRUE, Cleared, 0, 0, NoTime),
              To(p, "clearGlobal")>>
      [] pc[p] = "clearGlobal" ->
            <<IF globalHalt /\ ClearGlobalHaltAllowed THEN Latching(FALSE) ELSE storeVars, Out(p)>>
      [] OTHER -> <<storeVars, Out(p)>>

\* A run or a resume that is let through ends with a failed notification.
LetThrough(p) ==
    /\ HeartbeatAccepted(p)
    /\ \/ pc[p] = "run" /\ ~HaltLatched /\ ActiveCycles = {}
       \/ pc[p] = "resume" /\ ~ResumeRefused

NextStep(p) ==
    IF LetThrough(p)
    THEN <<Latching(TRUE), brokerVars, Out(p), histVars, now, risk, startedAt[p]>>
    ELSE <<WorkNext(p)[1], brokerVars, WorkNext(p)[2], histVars, now, risk, lastBeat>>

=============================================================================
