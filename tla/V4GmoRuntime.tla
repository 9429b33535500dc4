---------------------------- MODULE V4GmoRuntime ----------------------------
(***************************************************************************)
(* The three command lines of backend/app/h11_auto/v4_gmo_runtime.py (run  *)
(* one signal, resume the active cycle, operator reload) and the process   *)
(* lock, risk gate and dead-man heartbeat around the engine.  Processes    *)
(* start at any time, are refused while another holds the lock, and may    *)
(* crash between any two steps; a crash keeps what the store has committed *)
(* and nothing else.                                                       *)
(***************************************************************************)
EXTENDS V4GmoEngine, PhaseBRiskRules

CONSTANTS
    DayLength,          \* clock ticks in a JST day
    MaxTime,            \* bound on the clock
    ClockMayStepBack    \* whether the wall clock may be set back

ASSUME RuntimeAssumption ==
    /\ DayLength \in Nat \ {0}
    /\ MaxTime \in Nat
    /\ ClockMayStepBack \in BOOLEAN

VARIABLES
    risk,       \* the risk store's file
    lastBeat    \* the dead-man store's file

vars == <<storeVars, brokerVars, procVars, histVars, now, risk, lastBeat>>

Day(t) == t \div DayLength

Label == {"idle", "run", "boot", "risk", "create", "resume", "reload", "clear",
          "clearGlobal", "attempt", "perform", "outcome", "settle", "read",
          "decide", "ensure"}

Init ==
    /\ StoreInit
    /\ BrokerInit
    /\ now = 0
    /\ lock = {}
    /\ pc = [p \in Proc |-> "idle"]
    /\ ref = [p \in Proc |-> NoCycle]
    /\ snap = [p \in Proc |-> UnknownSnapshot]
    /\ startedAt = [p \in Proc |-> NoTime]
    /\ sent = [c \in Cycle |-> [a \in Action |-> 0]]
    /\ risk = InitialRisk
    /\ lastBeat = NoTime

(***************************************************************************)
(* Starting a command line: H11AutoProcessLock.acquire.                    *)
(***************************************************************************)
LockFreeForAll(p) == p \notin lock
LockFree(p) == lock = {}

Start(p, command) ==
    /\ pc[p] = "idle"
    /\ LockFree(p)
    /\ lock' = lock \cup {p}
    /\ pc' = [pc EXCEPT ![p] = command]
    /\ startedAt' = [startedAt EXCEPT ![p] = now]
    /\ UNCHANGED <<ref, snap, storeVars, brokerVars, histVars, now, risk, lastBeat>>

\* heartbeat refuses a time before the last one by raising.
HeartbeatAlwaysAccepted(p) == TRUE
HeartbeatAccepted(p) == startedAt[p] >= lastBeat

\* heartbeat, then notify; a notification that fails latches the global halt.
\* With the heartbeat just written, evaluate always finds the process alive.
Beat(p) == lastBeat' = startedAt[p]
NotificationFails(p) == Beat(p) /\ EngageGlobalHalt /\ Leave(p)

(***************************************************************************)
(* run_v4_gmo_once_no_post                                                 *)
(***************************************************************************)
RunGate(p) ==
    /\ pc[p] = "run"
    /\ \/ /\ HaltLatched \/ ActiveCycles # {} \/ ~HeartbeatAccepted(p)
          /\ Leave(p)
          /\ UNCHANGED <<storeVars, lastBeat>>
       \/ /\ ~HaltLatched /\ ActiveCycles = {} /\ HeartbeatAccepted(p)
          /\ \/ NotificationFails(p)
             \/ Beat(p) /\ Goto(p, "boot") /\ UNCHANGED storeVars
    /\ UNCHANGED <<brokerVars, histVars, now, risk>>

BootReconcile(p) ==
    /\ pc[p] = "boot"
    /\ \E s \in Views :
          \/ FlatSnapshot(s) /\ Goto(p, "risk") /\ UNCHANGED storeVars
          \/ ~FlatSnapshot(s) /\ EngageGlobalHalt /\ Leave(p)
    /\ UNCHANGED <<brokerVars, histVars, now, risk, lastBeat>>

\* A STAY, a mismatched or expired signal and a closed gate end the run; for
\* a tradable signal the entry is counted and saved before the engine runs.
RiskGate(p) ==
    /\ pc[p] = "risk"
    /\ \/ Leave(p) /\ UNCHANGED risk
       \/ /\ GateAllows(RollCalendar(risk, Day(startedAt[p])))
          /\ risk' = RecordEntry(risk, Day(startedAt[p]))
          /\ \E c \in Cycle : ref' = [ref EXCEPT ![p] = c]
          /\ pc' = [pc EXCEPT ![p] = "create"]
          /\ UNCHANGED <<lock, snap, startedAt>>
    /\ UNCHANGED <<storeVars, brokerVars, histVars, now, lastBeat>>

\* run_signal_once_synthetic up to the first attempt.  The preflight wants no
\* entry before the one just counted.
CreateCycleStep(p) ==
    /\ pc[p] = "create"
    /\ LET c == ref[p]
           day == Day(startedAt[p])
       IN  \/ /\ risk.entries = 1
              /\ CreateCycle(c, day)
              /\ Goto(p, "attempt")
           \/ /\ risk.entries > 1 \/ ~CreateAllowed(c, day)
              /\ Leave(p)
              /\ UNCHANGED storeVars
    /\ UNCHANGED <<brokerVars, histVars, now, risk, lastBeat>>

(***************************************************************************)
(* resume_v4_gmo_once_no_post                                              *)
(***************************************************************************)
ResumeRefusedNever == ActiveCycles = {}
ResumeRefused == ActiveCycles = {} \/ globalHalt

ResumeGate(p) ==
    /\ pc[p] = "resume"
    /\ \/ /\ ResumeRefused \/ ~HeartbeatAccepted(p)
          /\ Leave(p)
          /\ UNCHANGED <<storeVars, lastBeat>>
       \/ /\ ~ResumeRefused /\ HeartbeatAccepted(p)
          /\ \/ NotificationFails(p)
             \/ /\ Beat(p)
                /\ \E c \in ActiveCycles :
                      /\ ref' = [ref EXCEPT ![p] = c]
                      /\ pc' = [pc EXCEPT ![p] = ResumePoint(state[c])]
                /\ UNCHANGED <<lock, snap, startedAt, storeVars>>
    /\ UNCHANGED <<brokerVars, histVars, now, risk>>

(***************************************************************************)
(* operator_reload_v4_gmo_no_post.  The halted cycle and the global latch  *)
(* are cleared by two transactions.                                        *)
(***************************************************************************)
ReloadGate(p) ==
    /\ pc[p] = "reload"
    /\ \/ ~HaltLatched /\ Leave(p)
       \/ /\ HaltLatched
          /\ \E s \in Views :
                \/ ~FlatSnapshot(s) /\ Leave(p)
                \/ /\ FlatSnapshot(s)
                   /\ Goto(p, IF HaltedCycles # {} THEN "clear" ELSE "clearGlobal")
    /\ UNCHANGED <<storeVars, brokerVars, histVars, now, risk, lastBeat>>

ClearHalted(p) ==
    /\ pc[p] = "clear"
    /\ \E c \in HaltedCycles : ClearHaltedCycle(c)
    /\ Goto(p, "clearGlobal")
    /\ UNCHANGED <<brokerVars, histVars, now, risk, lastBeat>>

ClearGlobal(p) ==
    /\ pc[p] = "clearGlobal"
    /\ \/ globalHalt /\ ClearGlobalHalt
       \/ ~(globalHalt /\ ClearGlobalHaltAllowed) /\ UNCHANGED storeVars
    /\ Leave(p)
    /\ UNCHANGED <<brokerVars, histVars, now, risk, lastBeat>>

(***************************************************************************)
(* The environment.                                                        *)
(***************************************************************************)
Crash(p) ==
    /\ pc[p] # "idle"
    /\ Leave(p)
    /\ UNCHANGED <<storeVars, brokerVars, histVars, now, risk, lastBeat>>

ClockStep ==
    /\ \/ now < MaxTime /\ now' = now + 1
       \/ ClockMayStepBack /\ now > 0 /\ now' = now - 1
    /\ UNCHANGED <<storeVars, brokerVars, procVars, histVars, risk, lastBeat>>

StartStep(p) == \E command \in {"run", "resume", "reload"} : Start(p, command)

ProcessStep(p) ==
    \/ RunGate(p)
    \/ BootReconcile(p)
    \/ RiskGate(p)
    \/ CreateCycleStep(p)
    \/ ResumeGate(p)
    \/ ReloadGate(p)
    \/ ClearHalted(p)
    \/ ClearGlobal(p)
    \/ EngineStep(p) /\ UNCHANGED <<risk, lastBeat>>

BrokerMoves == BrokerStep /\ UNCHANGED <<storeVars, procVars, histVars, now, risk, lastBeat>>

Next ==
    \/ \E p \in Proc : StartStep(p) \/ ProcessStep(p) \/ Crash(p)
    \/ BrokerMoves
    \/ ClockStep

Spec == Init /\ [][Next]_vars

(***************************************************************************)
(* What is promised.                                                       *)
(***************************************************************************)

\* The type of every variable.
TypeOK ==
    /\ StoreTypeOK
    /\ BrokerTypeOK
    /\ now \in Nat
    /\ lock \subseteq Proc
    /\ pc \in [Proc -> Label]
    /\ ref \in [Proc -> Cycle \cup {NoCycle}]
    /\ snap \in [Proc -> Snapshot]
    /\ startedAt \in [Proc -> Nat \cup {NoTime}]
    /\ sent \in [Cycle -> [Action -> Nat]]
    /\ risk \in RiskState
    /\ lastBeat \in Nat \cup {NoTime}

\* An action of a cycle is handed to the broker at most once, however often
\* processes crash and resume (same_action_max_attempts = 1).
AtMostOneSend == \A c \in Cycle, a \in Action : sent[c][a] <= 1

\* Never two cycles that are active or wait for the operator: resume and
\* reload can always tell which cycle they are about.
Unfinished(c) == state[c] \notin {Absent, Flat, Cleared}
SingleUnfinishedCycle == \A c, d \in Cycle : Unfinished(c) /\ Unfinished(d) => c = d

\* With settled reads, whatever is open at the broker or on its way there
\* belongs to a cycle that is active or waits for the operator: a cycle is
\* never closed over a position, a working order or a pending request.
ExposureIsOwned == ~BookEmpty \/ wire # {} => \E c \in Cycle : Unfinished(c)

\* With settled reads, a market entry only ever meets an empty book and no
\* other request (no scale-in, no hedge).
EntryMeetsEmptyBook ==
    \A r \in wire : r.action = "MARKET_ENTRY" => BookEmpty /\ wire = {r}

\* With settled reads, a position is never closed by the emergency exit while
\* its protection order still works: the order could open the opposite side.
NoExitOverLiveProtection ==
    \A r \in wire : r.action = "POSITION_SPECIFIC_EMERGENCY_EXIT" => oco = 0

\* A process that has started always has a next step: whatever the broker
\* shows, the engine asks the store only for transitions of its table.
ProcessNeverStuck == \A p \in Proc : pc[p] # "idle" => ENABLED ProcessStep(p)

\* The store never refuses an attempt of the engine: never a second attempt
\* of an action, and never a plan without a size.
StoreNeverRefuses ==
    \A p \in Proc :
        LET c == ref[p]
        IN  /\ pc[p] = "attempt" =>
                  /\ state[c] \in IntentStates
                  /\ AttemptAllowed(c, NextAction(state[c]))
                  /\ \/ PlanSize(p, NextAction(state[c])) > 0
                     \/ NextAction(state[c]) \in SizeChecked
            /\ pc[p] \in {"perform", "outcome"} =>
                  /\ state[c] \in AttemptedStates
                  /\ attempts[c][AttemptedAction(state[c])] = "ATTEMPT_STARTED"

\* The risk file's day never moves back, even when the wall clock is set
\* back: the heartbeat refuses an earlier time before the risk gate rolls the
\* calendar, so the day's entry count is not reset by a clock correction.
RiskCalendarNeverMovesBack == [][risk'.day >= risk.day]_vars

\* Nothing is sent while a halt is latched.
NothingSentWhileHalted == [][HaltLatched => sent' = sent]_vars

\* With settled reads, a halt is only ever lifted over an empty book.
HaltLiftedOnlyWhenFlat == [][HaltLatched /\ ~HaltLatched' => BookEmpty /\ wire = {}]_vars

=============================================================================
