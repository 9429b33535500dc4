------------------------------ MODULE E1Shadow ------------------------------
(***************************************************************************)
(* The E1 shadow engine (backend/app/shadow/e1): it trades one virtual     *)
(* position against a local venue file and keeps an append-only journal.   *)
(* Every operation of the engine is a script of journal records, written   *)
(* one by one; a crash, a failing disk, an expired token or an injected    *)
(* execution fault may come between any two.  A new engine reads both      *)
(* files and must reconcile them before it does anything else.             *)
(***************************************************************************)
EXTENDS Integers, SequencesExt

CONSTANTS
    Units,                  \* fixed_virtual_units
    MaxEntriesPerDay,       \* max_entries_per_day
    MaxConsecutiveLosses,   \* max_consecutive_losses
    Faults,                 \* what may go wrong
    MaxIntents, MaxDay      \* bounds

ASSUME E1Assumption ==
    /\ {Units, MaxEntriesPerDay, MaxConsecutiveLosses} \subseteq Nat \ {0}
    /\ MaxIntents \in Nat \ {0} /\ MaxDay \in Nat
    /\ Faults \subseteq {"disk", "inject", "expire", "crash"}

VARIABLES
    journal,    \* what the records in the journal file say
    mem,        \* what the records in the engine's memory say
    behind,     \* the file holds a record that the memory lacks
    venue,      \* the position in the venue file
    seen,       \* the position in the engine's memory
    phase,      \* EnginePhase, "OFF" when no engine runs
    todo,       \* what the running operation still has to write or to execute
    doing,      \* the intent it is about
    today,
    sent        \* history: the executions, their effect, and the kills before them

vars == <<journal, mem, behind, venue, seen, phase, todo, doing, today, sent>>

(* Positions, intents and what the journal says *)

Flat == [ref |-> 0, units |-> 0]
Part(position) == [position EXCEPT !.units = IF Units = 1 THEN 1 ELSE Units \div 2]
Position == [ref : 0..MaxIntents, units : 0..Units]

FaultKind == {"none", "rejected", "partial", "timeout", "crash"}

Intent == [id : 0..MaxIntents, act : {"none", "entry", "settlement"}, before : Position,
           planned : Position, fault : FaultKind, day : 0..MaxDay, lost : BOOLEAN]

NoIntent == [id |-> 0, act |-> "none", before |-> Flat, planned |-> Flat,
             fault |-> "none", day |-> 0, lost |-> FALSE]

\* What remains of an intent in the counters and in the history.
Trade == [id : 0..MaxIntents, act : {"none", "entry", "settlement"}, day : 0..MaxDay, lost : BOOLEAN]
AsTrade(intent) ==
    [id |-> intent.id, act |-> intent.act, day |-> intent.day, lost |-> intent.lost]

\* expected: of the last record; open: the unresolved intents; booked: those
\* whose effect is recorded; prepared: how many intents there are.
Journal == [begun : BOOLEAN, expected : Position, prepared : 0..MaxIntents,
            open : SUBSET Intent, booked : Seq(Trade), killed : BOOLEAN, halted : BOOLEAN]

EmptyJournal == [begun |-> FALSE, expected |-> Flat, prepared |-> 0,
                 open |-> {}, booked |-> <<>>, killed |-> FALSE, halted |-> FALSE]

Stopped(j) == j.killed \/ j.halted

\* BOOT_NEW_RUN is BOOT_RECONCILE_REQUIRED with a journal that did not exist.
EnginePhase == {"OFF", "BOOT_NEW_RUN", "BOOT_RECONCILE_REQUIRED", "RESTART_ACK_REQUIRED",
                "READY_FLAT", "POSITION_OPEN", "RECONCILE_REQUIRED", "HALTED"}

\* The records; TORN is VIRTUAL_EXECUTION_UNCERTAIN over a failed venue write.
Event == {"RUN_STARTED", "NOTE", "INCIDENT", "PREPARED", "STARTED", "CONFIRMED",
          "REJECTED", "UNCERTAIN", "UNCERTAIN_ALERT", "TORN", "TORN_ALERT", "MATCHED",
          "MISMATCH", "HANDLED", "ACK", "KILL", "ALERT", "HALTED"}

EntriesOn(trades, day) ==
    Cardinality({k \in DOMAIN trades : trades[k].act = "entry" /\ trades[k].day = day})

\* The settlements at a loss after which there was none without one.
Streak(trades) ==
    Cardinality({k \in DOMAIN trades :
        /\ trades[k].act = "settlement"
        /\ \A n \in DOMAIN trades : n >= k /\ trades[n].act = "settlement" => trades[n].lost})

(* An operation: its script, its records, its exceptions *)

Idle == phase # "OFF" /\ todo = <<>>

Continue(script) ==
    /\ todo' = script
    /\ doing' = IF script = <<>> THEN NoIntent ELSE doing

Begin(script, intent) ==
    /\ todo' = script /\ doing' = intent
    /\ UNCHANGED <<journal, mem, behind, venue, seen, today, sent>>

\* Within a kill an E1EngineError is caught: the alert and the halt follow.
Raise(engineError) ==
    Continue(IF engineError /\ mem.killed THEN <<"ALERT", "HALTED">> ELSE <<>>)

Expects(event) ==
    CASE event \in {"PREPARED", "STARTED", "REJECTED", "UNCERTAIN", "UNCERTAIN_ALERT", "TORN"}
              -> doing.before
      [] event = "CONFIRMED" \/ (event = "MISMATCH" /\ doing # NoIntent) -> doing.planned
      [] event \in {"NOTE", "ACK", "HANDLED"} -> seen
      [] event = "MATCHED" /\ doing # NoIntent ->
              IF seen = doing.before THEN doing.before ELSE doing.planned
      [] OTHER -> mem.expected

TellsEffectConfirmed(event) == event = "CONFIRMED"
\* A record that tells of an effect: the confirmation, or a reconciliation that
\* found the planned state.
TellsEffect(event) ==
    event = "CONFIRMED" \/ (event = "MATCHED" /\ doing # NoIntent /\ seen # doing.before)

Log(j, event) ==
    [begun |-> TRUE,
     expected |-> Expects(event),
     prepared |-> j.prepared + (IF event = "PREPARED" THEN 1 ELSE 0),
     open |-> CASE event = "PREPARED" -> j.open \cup {doing}
                [] event \in {"CONFIRMED", "REJECTED", "MATCHED", "MISMATCH"} -> j.open \ {doing}
                [] OTHER -> j.open,
     booked |-> IF TellsEffect(event) THEN Append(j.booked, AsTrade(doing)) ELSE j.booked,
     killed |-> j.killed \/ event = "KILL",
     halted |-> j.halted \/ event = "HALTED"]

Trading == IF seen = Flat THEN "READY_FLAT" ELSE "POSITION_OPEN"

PhaseAfter(event) ==
    CASE event \in {"RUN_STARTED", "CONFIRMED", "ACK"} -> Trading
      [] event \in {"UNCERTAIN_ALERT", "TORN_ALERT"} -> "RECONCILE_REQUIRED"
      [] event = "HALTED" -> "HALTED"
      [] event \in {"MATCHED", "HANDLED"} /\ Len(todo) = 1 ->
              IF Stopped(mem) THEN "HALTED" ELSE "RESTART_ACK_REQUIRED"
      [] OTHER -> phase

PhaseAfterFailure(event) ==
    CASE event \in {"PREPARED", "STARTED", "TORN", "TORN_ALERT", "KILL"} -> "HALTED"
      [] event \in {"CONFIRMED", "REJECTED", "UNCERTAIN"} -> "RECONCILE_REQUIRED"
      [] OTHER -> phase

\* The failures that reach the caller as an E1EngineError; the others stay an
\* E1PersistenceError, which a kill does not catch.
EngineErrors == {"PREPARED", "STARTED", "TORN", "TORN_ALERT", "CONFIRMED", "REJECTED", "UNCERTAIN"}

Writing == phase # "OFF" /\ todo # <<>> /\ Head(todo) # "EXECUTE"

AppendRecord ==
    /\ Writing
    /\ ~behind
    /\ journal' = Log(mem, Head(todo)) /\ mem' = journal'
    /\ phase' = PhaseAfter(Head(todo))
    /\ Continue(Tail(todo))
    /\ UNCHANGED <<behind, venue, seen, today, sent>>

\* The file holds records the engine does not know of, or the write fails; the
\* line may be in the file although its fsync failed.
AppendFails ==
    /\ Writing
    /\ \/ behind /\ UNCHANGED <<journal, behind>>
       \/ /\ "disk" \in Faults /\ ~behind
          /\ \/ UNCHANGED <<journal, behind>>
             \/ journal' = Log(mem, Head(todo)) /\ behind' = TRUE
    /\ phase' = PhaseAfterFailure(Head(todo))
    /\ Raise(Head(todo) \in EngineErrors)
    /\ UNCHANGED <<mem, venue, seen, today, sent>>

(* The engine comes and goes *)

Init ==
    /\ journal = EmptyJournal /\ mem = EmptyJournal /\ behind = FALSE
    /\ venue = Flat /\ seen = Flat
    /\ phase = "OFF" /\ todo = <<>> /\ doing = NoIntent
    /\ today = 0 /\ sent = <<>>

Boot ==
    /\ phase = "OFF"
    /\ phase' = IF journal.begun THEN "BOOT_RECONCILE_REQUIRED" ELSE "BOOT_NEW_RUN"
    /\ mem' = journal /\ seen' = venue
    /\ UNCHANGED <<journal, behind, venue, todo, doing, today, sent>>

Crash ==
    /\ "crash" \in Faults /\ phase # "OFF"
    /\ phase' = "OFF" /\ todo' = <<>> /\ doing' = NoIntent
    /\ mem' = EmptyJournal /\ behind' = FALSE /\ seen' = Flat
    /\ UNCHANGED <<journal, venue, today, sent>>

(* boot_reconcile, reconcile_after_uncertain, acknowledge_restart *)

Mismatch == <<"MISMATCH", "ALERT", "HALTED">>

ExplainedIfPending(source) == source # NoIntent => seen \in {source.before, source.planned}
Explained(source) ==
    IF source = NoIntent THEN seen = mem.expected ELSE seen \in {source.before, source.planned}

\* A rejection whose record was lost halts here; a kill that was cut short is
\* completed without another settlement.
Matched(source, restart) ==
    <<"MATCHED">>
    \o (IF source.fault \in {"timeout", "crash"} THEN <<"HANDLED">> ELSE <<>>)
    \o (IF restart /\ source # NoIntent THEN <<"HANDLED">> ELSE <<>>)
    \o (IF source.fault = "rejected" /\ ~Stopped(mem) THEN <<"ALERT", "HALTED">> ELSE <<>>)
    \o (IF mem.killed /\ ~mem.halted
        THEN (IF seen # Flat THEN <<"ALERT">> ELSE <<>>) \o <<"HALTED">> ELSE <<>>)

Reconcile(restart) ==
    LET pending == mem.open
        source == IF pending = {} THEN NoIntent ELSE CHOOSE i \in pending : TRUE
    IN  IF Cardinality(pending) > 1
        THEN Begin(Mismatch, NoIntent)
        ELSE Begin(IF Explained(source) THEN Matched(source, restart) ELSE Mismatch, source)

\* A new run starts on a flat venue: the venue file appears with an entry.
BootReconcile ==
    /\ Idle
    /\ \/ phase = "BOOT_NEW_RUN" /\ Begin(<<"RUN_STARTED">>, NoIntent)
       \/ phase = "BOOT_RECONCILE_REQUIRED" /\ Reconcile(TRUE)
    /\ UNCHANGED phase

ReconcileAfterUncertain ==
    /\ Idle /\ phase = "RECONCILE_REQUIRED"
    /\ Reconcile(FALSE)
    /\ UNCHANGED phase

AcknowledgeRestart ==
    /\ Idle /\ phase = "RESTART_ACK_REQUIRED"
    /\ Begin(<<"ACK">>, NoIntent)
    /\ UNCHANGED phase

(* Heartbeats, incidents, decisions *)

MayTrade == phase \in {"READY_FLAT", "POSITION_OPEN"}

ProcessableByPhase == Idle /\ MayTrade /\ ~Stopped(mem) /\ mem.expected = seen
\* _assert_processable_state
Processable ==
    Idle /\ MayTrade /\ ~Stopped(mem) /\ mem.open = {} /\ mem.expected = seen

DecisionRefused ==
    /\ Idle /\ ~Processable
    /\ IF Stopped(mem) THEN phase' = "HALTED" /\ Begin(<<>>, NoIntent)
       ELSE /\ MayTrade
            /\ IF mem.open # {}
               THEN phase' = "RECONCILE_REQUIRED" /\ Begin(<<>>, NoIntent)
               ELSE UNCHANGED phase /\ Begin(Mismatch, NoIntent)

\* A heartbeat; a decision to do nothing, or one that the risk gate refuses, also
\* over the prices, the amounts at stake, the cooldown or a missing heartbeat.
Note ==
    /\ Idle /\ MayTrade
    /\ Begin(<<"NOTE">>, NoIntent)
    /\ UNCHANGED phase

\* record_incident and record_postmortem
Incident ==
    /\ Idle
    /\ Begin(<<"INCIDENT">>, NoIntent)
    /\ UNCHANGED phase

Injected == IF "inject" \in Faults THEN FaultKind ELSE {"none"}

EntryIntent(fault) ==
    [id |-> mem.prepared + 1, act |-> "entry", before |-> seen,
     planned |-> [ref |-> mem.prepared + 1, units |-> Units],
     fault |-> fault, day |-> today, lost |-> FALSE]

SettlementIntent(fault, lost) ==
    [id |-> mem.prepared + 1, act |-> "settlement", before |-> seen, planned |-> Flat,
     fault |-> fault, day |-> today, lost |-> lost]

\* The bound on intents leaves one for a kill.
MoreIntents == mem.prepared + 1 < MaxIntents

Execution == <<"PREPARED", "STARTED", "EXECUTE">>

DecideEntry ==
    /\ Processable /\ MoreIntents /\ phase = "READY_FLAT" /\ seen = Flat
    /\ EntriesOn(mem.booked, today) < MaxEntriesPerDay
    /\ Streak(mem.booked) < MaxConsecutiveLosses
    /\ \E fault \in Injected : Begin(Execution, EntryIntent(fault))
    /\ UNCHANGED phase

DecideSettlement ==
    /\ Processable /\ MoreIntents /\ phase = "POSITION_OPEN" /\ seen # Flat
    /\ \E fault \in Injected, lost \in BOOLEAN :
          Begin(Execution, SettlementIntent(fault, lost))
    /\ UNCHANGED phase

(* activate_kill, check_deadman *)

KillSpentIfHalted == mem.halted
KillSpent == Stopped(mem)

\* priced: the caller passes a market frame, without which nothing is closed.
Kill(priced) ==
    /\ Idle
    /\ IF KillSpent THEN phase' = "HALTED" /\ Begin(<<>>, NoIntent)
       ELSE IF mem.open # {} \/ ~MayTrade
       THEN phase' = "HALTED" /\ Begin(<<"KILL", "ALERT", "HALTED">>, NoIntent)
       ELSE /\ UNCHANGED phase
            /\ IF seen = Flat THEN Begin(<<"KILL", "HALTED">>, NoIntent)
               ELSE IF ~priced THEN Begin(<<"KILL", "ALERT", "HALTED">>, NoIntent)
               ELSE \E fault \in Injected, lost \in BOOLEAN :
                       Begin(<<"KILL">> \o Execution, SettlementIntent(fault, lost))

(* The executor *)

\* The token's time is up when the intent is committed or the execution begins.
TokenExpires ==
    /\ "expire" \in Faults
    /\ todo # <<>> /\ Head(todo) \in {"PREPARED", "EXECUTE"}
    /\ Raise(TRUE)
    /\ UNCHANGED <<journal, mem, behind, venue, seen, phase, today, sent>>

\* A fault may strike before or after the effect; a settlement fills in full.
Effects(intent) ==
    CASE intent.fault = "none" -> {TRUE}
      [] intent.fault = "partial" -> {intent.act = "entry"}
      [] intent.fault = "rejected" -> {FALSE}
      [] OTHER -> BOOLEAN

Target(intent) == IF intent.fault = "partial" THEN Part(intent.planned) ELSE intent.planned

\* What a kill adds once the settlement has been tried.
Finish(confirmed) ==
    IF ~mem.killed THEN <<>> ELSE IF confirmed THEN <<"HALTED">> ELSE <<"ALERT", "HALTED">>

Outcome(intent) ==
    CASE intent.fault = "none" -> <<"CONFIRMED">> \o Finish(TRUE)
      [] intent.fault = "rejected" -> <<"REJECTED", "HALTED">> \o Finish(FALSE)
      [] intent.fault = "crash" -> <<>>
      [] OTHER -> <<"UNCERTAIN", "UNCERTAIN_ALERT">> \o Finish(FALSE)

Executing == todo # <<>> /\ Head(todo) = "EXECUTE"

Sent(effect) == sent' = Append(sent, [trade |-> AsTrade(doing), effect |-> effect, killed |-> journal.killed])

Execute ==
    /\ Executing
    /\ \E effect \in Effects(doing) :
          /\ effect => venue = seen
          /\ venue' = IF effect THEN Target(doing) ELSE venue
          /\ seen' = IF effect THEN Target(doing) ELSE seen
          /\ Sent(effect)
    /\ Continue(Outcome(doing))
    /\ UNCHANGED <<journal, mem, behind, phase, today>>

\* The file differs from the memory, or its write fails, before or after the
\* new file is in place.
WriteFails ==
    /\ Executing /\ TRUE \in Effects(doing)
    /\ \/ venue # seen /\ UNCHANGED venue
       \/ "disk" \in Faults /\ venue = seen /\ venue' \in {venue, Target(doing)}
    /\ Sent(venue' # venue)
    /\ Continue(<<"TORN", "TORN_ALERT">> \o Finish(FALSE))
    /\ UNCHANGED <<journal, mem, behind, seen, phase, today>>

NextDay ==
    /\ today < MaxDay
    /\ today' = today + 1
    /\ UNCHANGED <<journal, mem, behind, venue, seen, phase, todo, doing, sent>>

Next ==
    \/ AppendRecord \/ AppendFails
    \/ Boot \/ Crash \/ BootReconcile \/ ReconcileAfterUncertain \/ AcknowledgeRestart
    \/ DecisionRefused \/ Note \/ Incident \/ DecideEntry \/ DecideSettlement
    \/ \E priced \in BOOLEAN : Kill(priced)
    \/ TokenExpires \/ Execute \/ WriteFails \/ NextDay

Spec == Init /\ [][Next]_vars

(* Properties *)

\* Every stored value is one the contracts of the E1 lane admit, and an engine
\* that is not behind the file knows all of it.
TypeOK ==
    /\ journal \in Journal /\ mem \in Journal /\ behind \in BOOLEAN
    /\ ~behind /\ phase # "OFF" => mem = journal
    /\ venue \in Position /\ seen \in Position /\ doing \in Intent
    /\ phase \in EnginePhase /\ todo \in Seq(Event \cup {"EXECUTE"})
    /\ today \in 0..MaxDay
    /\ sent \in Seq([trade : Trade, effect : BOOLEAN, killed : BOOLEAN])

\* Whoever may trade, or is about to be allowed to, knows what is open: unless
\* its own write of the venue tore, the venue file holds the position the
\* journal expects or one that the single unresolved intent leads to.
TradingKnowsTheVenue ==
    phase \in {"RESTART_ACK_REQUIRED", "READY_FLAT", "POSITION_OPEN"}
    /\ ~journal.halted /\ seen = venue =>
        \/ venue = journal.expected
        \/ \E i \in journal.open : venue \in {i.before, i.planned, Part(i.planned)}

\* The effects there really were, whatever the journal says of them.
Real == [k \in {n \in DOMAIN sent : sent[n].effect} |-> sent[k].trade]

\* The journal tells of a settlement in place of an earlier one of the same
\* position, whose venue write tore and was taken for one without effect.
Retold ==
    \E n \in DOMAIN journal.booked : \A k \in DOMAIN sent :
        sent[k].effect => sent[k].trade.id # journal.booked[n].id

\* An entry takes effect only within the daily cap and the losing streak of all
\* real effects: the journal has counted each of them, also those whose
\* confirmation was lost in a crash or on a failing disk.  The streak is not
\* the real one where a settlement was retold, with the result of its retry.
EntryWithinLimits ==
    [][ sent' # sent /\ Last(sent').effect /\ Last(sent').trade.act = "entry" =>
            /\ EntriesOn(Real, Last(sent').trade.day) < MaxEntriesPerDay
            /\ Streak(Real) < MaxConsecutiveLosses \/ Retold ]_vars

\* After a kill at most one execution, a settlement, is tried, and after a halt
\* none, whichever engine runs.
KillIsFinal ==
    [][ sent' # sent =>
            /\ ~journal.halted
            /\ journal.killed =>
                  /\ Last(sent').trade.act = "settlement"
                  /\ \A k \in DOMAIN sent : ~sent[k].killed ]_vars

=============================================================================
