--------------------------- MODULE E1ShadowProofs ---------------------------
(***************************************************************************)
(* Proofs about the E1 shadow engine: its types, the finality of a kill,   *)
(* the implementation of PersistentTransport, that an engine that may      *)
(* trade knows what is open, and that entries keep to the limits, for      *)
(* every bound and every set of faults.                                    *)
(***************************************************************************)
EXTENDS E1ShadowRefinement, SequenceTheorems, FiniteSetTheorems, TLAPS

\* The records of an operation that prepares no intent.
Plain == Event \ {"PREPARED", "STARTED"}

Early == {<<"KILL", "PREPARED", "STARTED", "EXECUTE">>, <<"PREPARED", "STARTED", "EXECUTE">>}
Late == {<<"STARTED", "EXECUTE">>, <<"EXECUTE">>}

\* An operation either only writes records or executes one intent; there is no
\* operation without an engine.
ScriptOK ==
    /\ todo \in Early \cup Late \cup Seq(Plain)
    /\ phase = "OFF" => todo = <<>> /\ ~behind

\* At most one intent is unresolved, executions are of different intents that
\* are in the journal, and there is room for an intent until the kill.
JournalOK ==
    /\ \A i \in journal.open : i.id \in 1..journal.prepared
    /\ \A i, j \in journal.open : i = j
    /\ \A k \in DOMAIN sent : /\ sent[k].trade.id \in 1..journal.prepared
                              /\ sent[k].killed => journal.killed
    /\ \A k, n \in DOMAIN sent : k # n => sent[k].trade.id # sent[n].trade.id
    /\ ~journal.killed => journal.prepared < MaxIntents
    /\ ~mem.killed => mem.prepared < MaxIntents

\* An intent that is about to be prepared is the next one, and none is
\* unresolved; after a kill it is the first settlement.
EarlyOK ==
    todo \in Early /\ ~behind =>
        /\ mem.open = {} /\ ~mem.halted
        /\ doing.id = mem.prepared + 1
        /\ Head(todo) = "KILL" => ~mem.killed
        /\ Head(todo) = "PREPARED" /\ ~mem.killed => doing.id < MaxIntents
        /\ Head(todo) = "PREPARED" => \A k \in DOMAIN sent : ~sent[k].killed
        /\ Head(todo) = "KILL" \/ mem.killed => doing.act = "settlement"

\* An intent that is about to be executed is in the journal, and was not
\* executed before.
LateOK ==
    todo \in Late =>
        /\ ~behind /\ doing \in journal.open /\ ~journal.halted
        /\ \A k \in DOMAIN sent : sent[k].trade.id # doing.id
        /\ journal.killed =>
              doing.act = "settlement" /\ \A k \in DOMAIN sent : ~sent[k].killed

IInv == TypeOK /\ ScriptOK /\ JournalOK /\ EarlyOK /\ LateOK

(* Scripts *)

\* A plain script neither prepares, starts nor executes.
LEMMA PlainScripts ==
  ASSUME NEW s \in Seq(Plain)
  PROVE  /\ s \notin Early /\ s \notin Late
         /\ s \in Seq(Event \cup {"EXECUTE"})
<1>1. \A k \in 1..Len(s) : s[k] \in Event \ {"PREPARED", "STARTED"}
  BY DEF Plain
<1>2. "EXECUTE" \notin Event
  BY DEF Event
<1>3. s # <<"KILL", "PREPARED", "STARTED", "EXECUTE">>
  <2>1. SUFFICES ASSUME s = <<"KILL", "PREPARED", "STARTED", "EXECUTE">> PROVE FALSE
    OBVIOUS
  <2>2. Len(s) = 4 /\ s[2] = "PREPARED"
    BY <2>1
  <2>. QED BY <1>1, <2>2
<1>4. s # <<"PREPARED", "STARTED", "EXECUTE">>
  <2>1. SUFFICES ASSUME s = <<"PREPARED", "STARTED", "EXECUTE">> PROVE FALSE
    OBVIOUS
  <2>2. Len(s) = 3 /\ s[1] = "PREPARED"
    BY <2>1
  <2>. QED BY <1>1, <2>2
<1>5. s # <<"STARTED", "EXECUTE">>
  <2>1. SUFFICES ASSUME s = <<"STARTED", "EXECUTE">> PROVE FALSE
    OBVIOUS
  <2>2. Len(s) = 2 /\ s[1] = "STARTED"
    BY <2>1
  <2>. QED BY <1>1, <2>2
<1>6. s # <<"EXECUTE">>
  <2>1. SUFFICES ASSUME s = <<"EXECUTE">> PROVE FALSE
    OBVIOUS
  <2>2. Len(s) = 1 /\ s[1] = "EXECUTE"
    BY <2>1
  <2>. QED BY <1>1, <1>2, <2>2
<1>7. s \in Seq(Event \cup {"EXECUTE"})
  BY DEF Plain
<1>. QED BY <1>3, <1>4, <1>5, <1>6, <1>7 DEF Early, Late

\* Head and tail of a plain script.
LEMMA PlainSteps ==
  ASSUME NEW s \in Seq(Plain), s # <<>>
  PROVE  Head(s) \in Plain /\ Tail(s) \in Seq(Plain) /\ Head(s) # "EXECUTE"
BY DEF Plain, Event

\* Head and tail of the script of an execution.
LEMMA ExecutionSteps ==
  ASSUME NEW s, s \in Early \cup Late
  PROVE  /\ s # <<>>
         /\ s \in Seq(Event \cup {"EXECUTE"})
         /\ Head(s) \in {"KILL", "PREPARED", "STARTED", "EXECUTE"}
         /\ Head(s) = "KILL" <=> s = <<"KILL", "PREPARED", "STARTED", "EXECUTE">>
         /\ Head(s) = "PREPARED" <=> s = <<"PREPARED", "STARTED", "EXECUTE">>
         /\ Head(s) = "STARTED" <=> s = <<"STARTED", "EXECUTE">>
         /\ Head(s) = "EXECUTE" <=> s = <<"EXECUTE">>
         /\ Head(s) = "KILL" => Tail(s) = <<"PREPARED", "STARTED", "EXECUTE">>
         /\ Head(s) = "PREPARED" => Tail(s) = <<"STARTED", "EXECUTE">>
         /\ Head(s) = "STARTED" => Tail(s) = <<"EXECUTE">>
<1>1. CASE s = <<"KILL", "PREPARED", "STARTED", "EXECUTE">>
  BY <1>1 DEF Event
<1>2. CASE s = <<"PREPARED", "STARTED", "EXECUTE">>
  BY <1>2 DEF Event
<1>3. CASE s = <<"STARTED", "EXECUTE">>
  BY <1>3 DEF Event
<1>4. CASE s = <<"EXECUTE">>
  BY <1>4 DEF Event
<1>. QED BY <1>1, <1>2, <1>3, <1>4 DEF Early, Late

\* The scripts of the operations that execute nothing.
LEMMA PlainParts ==
  /\ <<>> \in Seq(Plain)
  /\ \A e \in Plain : <<e>> \in Seq(Plain)
  /\ \A s, t \in Seq(Plain) : s \o t \in Seq(Plain)
OBVIOUS

\* Two and three records in a row.
LEMMA PlainPairs ==
  /\ \A d, e \in Plain : <<d, e>> \in Seq(Plain)
  /\ \A c, d, e \in Plain : <<c, d, e>> \in Seq(Plain)
OBVIOUS

\* The records that occur in plain scripts.
LEMMA PlainRecords ==
  /\ {"RUN_STARTED", "NOTE", "INCIDENT", "CONFIRMED", "REJECTED", "UNCERTAIN",
      "UNCERTAIN_ALERT", "TORN", "TORN_ALERT", "MATCHED", "MISMATCH", "HANDLED",
      "ACK", "KILL", "ALERT", "HALTED"} \subseteq Plain
  /\ Plain \subseteq Event
BY DEF Plain, Event

\* A successful reconciliation executes nothing (_reconcile).
LEMMA MatchedIsPlain ==
  ASSUME NEW source, NEW restart
  PROVE  Matched(source, restart) \in Seq(Plain)
<1>1. /\ <<"MATCHED">> \in Seq(Plain)
      /\ <<"HANDLED">> \in Seq(Plain)
      /\ <<"ALERT">> \in Seq(Plain)
      /\ <<"HALTED">> \in Seq(Plain)
      /\ <<"ALERT", "HALTED">> \in Seq(Plain)
      /\ <<>> \in Seq(Plain)
  BY PlainParts, PlainPairs, PlainRecords
<1>. DEFINE a == IF source.fault \in {"timeout", "crash"} THEN <<"HANDLED">> ELSE <<>>
            b == IF restart /\ source # NoIntent THEN <<"HANDLED">> ELSE <<>>
            c == IF source.fault = "rejected" /\ ~Stopped(mem) THEN <<"ALERT", "HALTED">> ELSE <<>>
            d == IF mem.killed /\ ~mem.halted
                 THEN (IF seen # Flat THEN <<"ALERT">> ELSE <<>>) \o <<"HALTED">> ELSE <<>>
<1>2. a \in Seq(Plain) /\ b \in Seq(Plain) /\ c \in Seq(Plain)
  BY <1>1
<1>3. d \in Seq(Plain)
  <2>1. (IF seen # Flat THEN <<"ALERT">> ELSE <<>>) \in Seq(Plain)
    BY <1>1
  <2>. QED BY <1>1, <2>1, PlainParts
<1>4. Matched(source, restart) = (((<<"MATCHED">> \o a) \o b) \o c) \o d
  BY Zenon DEF Matched
<1>. HIDE DEF a, b, c, d
<1>. QED BY <1>1, <1>2, <1>3, <1>4, PlainParts

\* What follows an execution executes nothing (_finish_execution).
LEMMA OutcomeIsPlain ==
  ASSUME NEW intent
  PROVE  /\ Outcome(intent) \in Seq(Plain)
         /\ <<"TORN", "TORN_ALERT">> \o Finish(FALSE) \in Seq(Plain)
<1>1. /\ <<"CONFIRMED">> \in Seq(Plain)
      /\ <<"REJECTED", "HALTED">> \in Seq(Plain)
      /\ <<"UNCERTAIN", "UNCERTAIN_ALERT">> \in Seq(Plain)
      /\ <<"TORN", "TORN_ALERT">> \in Seq(Plain)
      /\ <<"HALTED">> \in Seq(Plain)
      /\ <<"ALERT", "HALTED">> \in Seq(Plain)
      /\ <<>> \in Seq(Plain)
  BY PlainParts, PlainPairs, PlainRecords
<1>2. Finish(TRUE) \in Seq(Plain) /\ Finish(FALSE) \in Seq(Plain)
  BY <1>1 DEF Finish
<1>3. /\ <<"CONFIRMED">> \o Finish(TRUE) \in Seq(Plain)
      /\ <<"REJECTED", "HALTED">> \o Finish(FALSE) \in Seq(Plain)
      /\ <<"UNCERTAIN", "UNCERTAIN_ALERT">> \o Finish(FALSE) \in Seq(Plain)
      /\ <<"TORN", "TORN_ALERT">> \o Finish(FALSE) \in Seq(Plain)
  BY <1>1, <1>2, PlainParts
<1>. QED BY <1>1, <1>3 DEF Outcome

(* The journal *)

\* The initial values are typed.
LEMMA FlatTyped ==
  Flat \in Position /\ NoIntent \in Intent /\ NoIntent.id = 0 /\ EmptyJournal \in Journal
<1>1. MaxIntents \in Nat /\ Units \in Nat /\ MaxDay \in Nat
  BY E1Assumption
<1>2. Flat \in Position
  BY <1>1 DEF Flat, Position
<1>. QED BY <1>1, <1>2 DEF NoIntent, Intent, FaultKind, EmptyJournal, Journal

\* The position a record names.
LEMMA ExpectsTyped ==
  ASSUME mem \in Journal, doing \in Intent, seen \in Position, NEW e
  PROVE  Expects(e) \in Position
<1>1. mem.expected \in Position /\ doing.before \in Position /\ doing.planned \in Position
  BY DEF Journal, Intent
<1>. QED BY <1>1, Zenon DEF Expects

\* What a record changes in the journal.
LEMMA LogFields ==
  ASSUME NEW e
  PROVE  /\ Log(mem, e).begun = TRUE /\ Log(mem, e).expected = Expects(e)
         /\ Log(mem, e).killed = (mem.killed \/ e = "KILL")
         /\ Log(mem, e).halted = (mem.halted \/ e = "HALTED")
         /\ e = "PREPARED" => Log(mem, e).open = mem.open \cup {doing}
         /\ e = "PREPARED" => Log(mem, e).prepared = mem.prepared + 1
         /\ e # "PREPARED" => Log(mem, e).open \subseteq mem.open
         /\ e # "PREPARED" => Log(mem, e).prepared = mem.prepared + 0
         /\ e \in {"CONFIRMED", "REJECTED", "MATCHED", "MISMATCH"} => Log(mem, e).open = mem.open \ {doing}
         /\ e \notin {"PREPARED", "CONFIRMED", "REJECTED", "MATCHED", "MISMATCH"} => Log(mem, e).open = mem.open
         /\ Log(mem, e).booked = IF TellsEffect(e) THEN Append(mem.booked, AsTrade(doing)) ELSE mem.booked
<1>1. CASE e = "PREPARED"
  BY <1>1 DEF Log
<1>2. CASE e \in {"CONFIRMED", "REJECTED", "MATCHED", "MISMATCH"}
  BY <1>2 DEF Log
<1>3. CASE e \notin {"PREPARED", "CONFIRMED", "REJECTED", "MATCHED", "MISMATCH"}
  <2>1. Log(mem, e).open = mem.open
    BY <1>3, Zenon DEF Log
  <2>. QED BY <1>3, <2>1 DEF Log
<1>. QED BY <1>1, <1>2, <1>3

\* A record leaves a journal.
LEMMA LogTyped ==
  ASSUME mem \in Journal, doing \in Intent, seen \in Position, NEW e,
         e = "PREPARED" => mem.prepared < MaxIntents
  PROVE  Log(mem, e) \in Journal
<1>1. Expects(e) \in Position
  BY ExpectsTyped
<1>2. Log(mem, e).open \subseteq Intent
  BY LogFields DEF Journal
<1>3. Log(mem, e).prepared \in 0..MaxIntents
  <2>1. mem.prepared \in 0..MaxIntents /\ MaxIntents \in Nat
    BY E1Assumption DEF Journal
  <2>2. CASE e = "PREPARED"
    <3>1. Log(mem, e).prepared = mem.prepared + 1
      BY <2>2, LogFields
    <3>. QED BY <2>1, <2>2, <3>1
  <2>3. CASE e # "PREPARED"
    <3>1. Log(mem, e).prepared = mem.prepared + 0
      BY <2>3, LogFields
    <3>. QED BY <2>1, <3>1
  <2>. QED BY <2>2, <2>3
<1>4. Log(mem, e).booked \in Seq(Trade)
  <2>1. AsTrade(doing) \in Trade
    BY DEF AsTrade, Intent, Trade
  <2>2. mem.booked \in Seq(Trade)
    BY DEF Journal
  <2>3. Append(mem.booked, AsTrade(doing)) \in Seq(Trade)
    BY <2>1, <2>2
  <2>. QED BY <2>2, <2>3, LogFields, Zenon
<1>5. Log(mem, e).killed \in BOOLEAN /\ Log(mem, e).halted \in BOOLEAN /\ Log(mem, e).begun \in BOOLEAN
  BY LogFields, Zenon
<1>6. Log(mem, e) = [begun |-> Log(mem, e).begun, expected |-> Expects(e),
        prepared |-> Log(mem, e).prepared, open |-> Log(mem, e).open, booked |-> Log(mem, e).booked,
        killed |-> Log(mem, e).killed, halted |-> Log(mem, e).halted]
  BY DEF Log
<1>. QED BY <1>1, <1>2, <1>3, <1>4, <1>5, <1>6 DEF Journal

\* Phases after a record and after its failure; the engine stays on.
LEMMA PhasesTyped ==
  ASSUME phase \in EnginePhase, NEW e
  PROVE  /\ PhaseAfter(e) \in EnginePhase /\ PhaseAfterFailure(e) \in EnginePhase
         /\ phase # "OFF" => PhaseAfter(e) # "OFF" /\ PhaseAfterFailure(e) # "OFF"
<1>1. /\ {"READY_FLAT", "POSITION_OPEN", "RECONCILE_REQUIRED", "HALTED", "RESTART_ACK_REQUIRED"} \subseteq EnginePhase
      /\ "OFF" \notin {"READY_FLAT", "POSITION_OPEN", "RECONCILE_REQUIRED", "HALTED", "RESTART_ACK_REQUIRED"}
  BY DEF EnginePhase
<1>2. PhaseAfter(e) \in {"READY_FLAT", "POSITION_OPEN", "RECONCILE_REQUIRED", "HALTED", "RESTART_ACK_REQUIRED", phase}
  BY Zenon DEF PhaseAfter, Trading
<1>3. PhaseAfterFailure(e) \in {"HALTED", "RECONCILE_REQUIRED", phase}
  BY Zenon DEF PhaseAfterFailure
<1>. QED BY <1>1, <1>2, <1>3

(* The invariant *)

\* Unchanged but for the script.
Base == <<journal, mem, behind, venue, seen, today, sent>>

\* What stays when only records are left to write.
LEMMA PlainKeeps ==
  ASSUME todo' \in Seq(Plain), TypeOK', JournalOK',
         phase' = "OFF" => todo' = <<>> /\ ~behind'
  PROVE  IInv'
BY PlainScripts DEF IInv, ScriptOK, EarlyOK, LateOK

\* An operation that begins or ends with records only.
LEMMA PlainBegins ==
  ASSUME IInv, UNCHANGED Base, phase # "OFF", phase' \in EnginePhase, phase' # "OFF",
         todo' \in Seq(Plain), doing' \in Intent
  PROVE  IInv'
<1>1. TypeOK'
  BY PlainScripts DEF IInv, TypeOK, Base
<1>2. JournalOK'
  BY DEF IInv, JournalOK, Base
<1>. QED BY <1>1, <1>2, PlainKeeps

\* The journal of an engine that writes one more record.
LEMMA LogKeeps ==
  ASSUME IInv, ~behind, phase # "OFF", NEW e,
         journal' = Log(mem, e), mem' \in {mem, journal'}, sent' = sent,
         e = "PREPARED" => doing.id = mem.prepared + 1 /\ mem.open = {}
                           /\ doing.id <= MaxIntents /\ (~mem.killed => doing.id < MaxIntents)
  PROVE  JournalOK' /\ journal' \in Journal /\ mem' \in Journal
<1>1. /\ mem = journal /\ mem \in Journal /\ doing \in Intent /\ seen \in Position
      /\ JournalOK
  BY DEF IInv, TypeOK
<1>2. /\ mem.prepared \in 0..MaxIntents /\ MaxIntents \in Nat
      /\ mem.killed \in BOOLEAN /\ DOMAIN sent \subseteq Nat
  BY <1>1, E1Assumption DEF Journal, IInv, TypeOK
<1>3. CASE e = "PREPARED"
  <2>1. /\ Log(mem, e).open = {doing} /\ Log(mem, e).prepared = mem.prepared + 1
        /\ Log(mem, e).killed = mem.killed
    <3>1. /\ Log(mem, e).open = mem.open \cup {doing} /\ Log(mem, e).prepared = mem.prepared + 1
          /\ Log(mem, e).killed = (mem.killed \/ e = "KILL")
      BY <1>3, LogFields
    <3>. QED BY <1>2, <1>3, <3>1
  <2>2. doing.id = mem.prepared + 1 /\ doing.id <= MaxIntents /\ (~mem.killed => doing.id < MaxIntents)
    BY <1>3
  <2>3. mem.prepared < MaxIntents
    BY <1>2, <2>2
  <2>4. Log(mem, e) \in Journal
    BY <1>1, <2>3, LogTyped
  <2>5. \A k \in DOMAIN sent : sent[k].trade.id \in 1..(mem.prepared + 1)
    BY <1>1, <1>2 DEF JournalOK
  <2>. QED BY <1>1, <1>2, <2>1, <2>2, <2>4, <2>5 DEF JournalOK
<1>4. CASE e # "PREPARED"
  <2>1. /\ Log(mem, e).open \subseteq mem.open /\ Log(mem, e).prepared = mem.prepared
        /\ mem.killed => Log(mem, e).killed
    <3>1. Log(mem, e).open \subseteq mem.open /\ Log(mem, e).prepared = mem.prepared + 0
      BY <1>4, LogFields
    <3>2. Log(mem, e).killed = (mem.killed \/ e = "KILL")
      BY LogFields
    <3>. QED BY <1>2, <3>1, <3>2
  <2>2. Log(mem, e) \in Journal
    BY <1>1, <1>4, LogTyped
  <2>. QED BY <1>1, <1>2, <2>1, <2>2 DEF JournalOK
<1>. QED BY <1>3, <1>4

\* The types after a record was written.
LEMMA WrittenTyped ==
  ASSUME TypeOK, journal' \in Journal, mem' = journal', UNCHANGED <<behind, venue, seen, today, sent>>,
         phase' \in EnginePhase, doing' \in Intent, todo' \in Seq(Event \cup {"EXECUTE"})
  PROVE  TypeOK'
<1>1. sent \in Seq([trade : Trade, effect : BOOLEAN, killed : BOOLEAN])
  BY DEF TypeOK
<1>2. sent' \in Seq([trade : Trade, effect : BOOLEAN, killed : BOOLEAN])
  BY <1>1
<1>3. behind \in BOOLEAN /\ venue \in Position /\ seen \in Position /\ today \in 0..MaxDay
  BY DEF TypeOK
<1>. QED BY <1>2, <1>3 DEF TypeOK

\* A record that is written moves the script on.
LEMMA AppendKeeps ==
  ASSUME IInv, AppendRecord
  PROVE  IInv'
<1>1. /\ todo # <<>> /\ ~behind /\ phase # "OFF" /\ Head(todo) # "EXECUTE" /\ mem = journal
      /\ todo \in Early \cup Late \cup Seq(Plain) /\ doing \in Intent /\ phase \in EnginePhase
      /\ mem.prepared \in Nat /\ MaxIntents \in Nat /\ mem.prepared <= MaxIntents
  BY E1Assumption DEF IInv, TypeOK, ScriptOK, AppendRecord, Writing, Journal
<1>2. /\ journal' = Log(mem, Head(todo)) /\ mem' = journal' /\ sent' = sent
      /\ todo' = Tail(todo) /\ phase' = PhaseAfter(Head(todo))
      /\ doing' = IF todo' = <<>> THEN NoIntent ELSE doing
      /\ UNCHANGED <<behind, venue, seen, today, sent>>
  BY DEF AppendRecord, Continue
<1>3. phase' \in EnginePhase /\ phase' # "OFF" /\ doing' \in Intent
  BY <1>1, <1>2, PhasesTyped, FlatTyped
<1>4. CASE todo \in Seq(Plain)
  <2>1. Head(todo) \in Plain /\ Tail(todo) \in Seq(Plain)
    BY <1>1, <1>4, PlainSteps
  <2>2. Head(todo) # "PREPARED"
    BY <2>1 DEF Plain
  <2>3. JournalOK' /\ journal' \in Journal /\ mem' \in Journal
    BY <1>1, <1>2, <2>2, LogKeeps
  <2>4. todo' \in Seq(Event \cup {"EXECUTE"})
    BY <1>2, <2>1, PlainScripts
  <2>5. TypeOK'
    BY <1>2, <1>3, <2>3, <2>4, WrittenTyped DEF IInv
  <2>. QED BY <1>2, <1>3, <2>1, <2>3, <2>5, PlainKeeps
<1>5. CASE todo = <<"KILL", "PREPARED", "STARTED", "EXECUTE">>
  <2>1. Head(todo) = "KILL" /\ Tail(todo) = <<"PREPARED", "STARTED", "EXECUTE">>
    BY <1>5
  <2>2. JournalOK' /\ journal' \in Journal /\ mem' \in Journal
    BY <1>1, <1>2, <2>1, LogKeeps
  <2>3. /\ todo' \in Early /\ Head(todo') = "PREPARED" /\ todo' # <<>>
        /\ todo' \in Seq(Event \cup {"EXECUTE"}) /\ todo' \notin Late
    BY <1>2, <2>1, ExecutionSteps DEF Early, Late
  <2>4. TypeOK'
    BY <1>2, <1>3, <2>2, <2>3, WrittenTyped DEF IInv
  <2>5. /\ mem.open = {} /\ ~mem.halted /\ doing.id = mem.prepared + 1
        /\ ~mem.killed /\ doing.act = "settlement"
    BY <1>1, <1>5, <2>1 DEF IInv, EarlyOK, Early
  <2>6. /\ mem'.open = {} /\ mem'.prepared = mem.prepared + 0
        /\ mem'.killed /\ ~mem'.halted
    <3>1. mem'.open = {} /\ mem'.prepared = mem.prepared + 0
      BY <1>2, <2>1, <2>5, LogFields
    <3>2. mem'.killed = (mem.killed \/ Head(todo) = "KILL")
      BY <1>2, LogFields
    <3>3. mem'.halted = (mem.halted \/ Head(todo) = "HALTED")
      BY <1>2, LogFields
    <3>. QED BY <2>1, <2>5, <3>1, <3>2, <3>3
  <2>7. \A k \in DOMAIN sent : ~sent[k].killed
    BY <1>1, <2>5 DEF IInv, JournalOK
  <2>8. EarlyOK'
    <3>1. doing' = doing /\ sent' = sent
      BY <1>2, <2>3
    <3>2. doing'.id = mem'.prepared + 1
      BY <1>1, <2>5, <2>6, <3>1
    <3>3. mem'.open = {} /\ ~mem'.halted /\ mem'.killed /\ doing'.act = "settlement"
      BY <2>5, <2>6, <3>1
    <3>4. \A k \in DOMAIN sent' : ~sent'[k].killed
      BY <2>7, <3>1
    <3>. QED BY <2>3, <3>2, <3>3, <3>4, Zenon DEF EarlyOK
  <2>. QED BY <1>2, <1>3, <2>2, <2>3, <2>4, <2>8 DEF IInv, ScriptOK, LateOK
<1>6. CASE todo = <<"PREPARED", "STARTED", "EXECUTE">>
  <2>1. Head(todo) = "PREPARED" /\ Tail(todo) = <<"STARTED", "EXECUTE">>
    BY <1>6
  <2>2. /\ mem.open = {} /\ ~mem.halted /\ doing.id = mem.prepared + 1
        /\ ~mem.killed => doing.id < MaxIntents
        /\ mem.killed => doing.act = "settlement"
        /\ \A k \in DOMAIN sent : ~sent[k].killed
    BY <1>1, <1>6, <2>1 DEF IInv, EarlyOK, Early
  <2>3. doing.id <= MaxIntents
    BY <1>1 DEF Intent
  <2>4. JournalOK' /\ journal' \in Journal /\ mem' \in Journal
    BY <1>1, <1>2, <2>1, <2>2, <2>3, LogKeeps
  <2>5. /\ todo' \in Late /\ todo' # <<>>
        /\ todo' \in Seq(Event \cup {"EXECUTE"}) /\ todo' \notin Early
    <3>1. todo' = <<"STARTED", "EXECUTE">>
      BY <1>2, <2>1
    <3>2. todo' \in Late
      BY <3>1 DEF Late
    <3>3. Head(todo') = "STARTED"
      BY <3>1
    <3>. QED BY <3>2, <3>3, ExecutionSteps DEF Early
  <2>6. TypeOK'
    BY <1>2, <1>3, <2>4, <2>5, WrittenTyped DEF IInv
  <2>7. journal'.open = {doing} /\ journal'.killed = mem.killed /\ ~journal'.halted
    <3>1. journal'.open = {doing}
      <4>1. Log(mem, Head(todo)).open = mem.open \cup {doing}
        BY <2>1, LogFields
      <4>. QED BY <1>2, <2>2, <4>1
    <3>2. journal'.killed = (mem.killed \/ Head(todo) = "KILL")
      BY <1>2, LogFields
    <3>3. journal'.halted = (mem.halted \/ Head(todo) = "HALTED")
      BY <1>2, LogFields
    <3>4. mem.killed \in BOOLEAN
      BY DEF IInv, TypeOK, Journal
    <3>. QED BY <2>1, <2>2, <3>1, <3>2, <3>3, <3>4
  <2>8. \A k \in DOMAIN sent : sent[k].trade.id # doing.id
    BY <1>1, <2>2 DEF IInv, JournalOK
  <2>9. LateOK'
    BY <1>1, <1>2, <2>2, <2>5, <2>7, <2>8 DEF LateOK
  <2>. QED BY <1>2, <1>3, <2>4, <2>5, <2>6, <2>9 DEF IInv, ScriptOK, EarlyOK
<1>7. CASE todo = <<"STARTED", "EXECUTE">>
  <2>1. Head(todo) = "STARTED" /\ Tail(todo) = <<"EXECUTE">>
    BY <1>7
  <2>2. JournalOK' /\ journal' \in Journal /\ mem' \in Journal
    BY <1>1, <1>2, <2>1, LogKeeps
  <2>3. /\ todo' \in Late /\ todo' # <<>>
        /\ todo' \in Seq(Event \cup {"EXECUTE"}) /\ todo' \notin Early
    <3>1. todo' = <<"EXECUTE">>
      BY <1>2, <2>1
    <3>2. todo' \in Late
      BY <3>1 DEF Late
    <3>3. Head(todo') = "EXECUTE"
      BY <3>1
    <3>. QED BY <3>2, <3>3, ExecutionSteps DEF Early
  <2>4. TypeOK'
    BY <1>2, <1>3, <2>2, <2>3, WrittenTyped DEF IInv
  <2>5. journal'.open = journal.open /\ journal'.killed = journal.killed /\ ~journal'.halted
    <3>1. journal'.open = mem.open
      BY <1>2, <2>1, LogFields
    <3>2. journal'.killed = (mem.killed \/ Head(todo) = "KILL")
      BY <1>2, LogFields
    <3>3. journal'.halted = (mem.halted \/ Head(todo) = "HALTED")
      BY <1>2, LogFields
    <3>4. mem.killed \in BOOLEAN /\ ~mem.halted
      BY <1>1, <1>7 DEF IInv, TypeOK, Journal, LateOK, Late
    <3>. QED BY <1>1, <2>1, <3>1, <3>2, <3>3, <3>4
  <2>6. LateOK'
    BY <1>1, <1>2, <1>7, <2>3, <2>5 DEF IInv, LateOK, Late
  <2>. QED BY <1>2, <1>3, <2>2, <2>3, <2>4, <2>6 DEF IInv, ScriptOK, EarlyOK
<1>. QED BY <1>1, <1>4, <1>5, <1>6, <1>7 DEF Early, Late

\* A write that fails leaves records only, whether or not its line is in the file.
LEMMA AppendFailKeeps ==
  ASSUME IInv, AppendFails
  PROVE  IInv'
<1>1. /\ todo # <<>> /\ phase # "OFF" /\ Head(todo) # "EXECUTE"
      /\ todo \in Early \cup Late \cup Seq(Plain) /\ doing \in Intent /\ phase \in EnginePhase
      /\ mem.prepared \in Nat /\ MaxIntents \in Nat /\ mem.prepared <= MaxIntents
  BY E1Assumption DEF IInv, TypeOK, ScriptOK, AppendFails, Writing, Journal
<1>2. /\ phase' = PhaseAfterFailure(Head(todo)) /\ UNCHANGED <<mem, venue, seen, today, sent>>
      /\ todo' \in {<<>>, <<"ALERT", "HALTED">>} /\ doing' \in {doing, NoIntent}
      /\ \/ UNCHANGED <<journal, behind>>
         \/ ~behind /\ journal' = Log(mem, Head(todo)) /\ behind' = TRUE
  BY DEF AppendFails, Raise, Continue
<1>3. /\ phase' \in EnginePhase /\ phase' # "OFF" /\ doing' \in Intent /\ todo' \in Seq(Plain)
      /\ behind' \in BOOLEAN
  <2>1. phase' \in EnginePhase /\ phase' # "OFF" /\ doing' \in Intent
    BY <1>1, <1>2, PhasesTyped, FlatTyped
  <2>2. todo' \in Seq(Plain)
    BY <1>2, PlainParts, PlainPairs, PlainRecords
  <2>3. behind' \in BOOLEAN
    BY <1>2 DEF IInv, TypeOK
  <2>. QED BY <2>1, <2>2, <2>3
<1>4. JournalOK' /\ journal' \in Journal /\ mem' \in Journal /\ (~behind' => mem' = journal')
  <2>1. CASE UNCHANGED <<journal, behind>>
    BY <1>1, <1>2, <2>1 DEF IInv, TypeOK, JournalOK
  <2>2. CASE ~behind /\ journal' = Log(mem, Head(todo)) /\ behind' = TRUE
    <3>1. ASSUME Head(todo) = "PREPARED"
          PROVE  /\ doing.id = mem.prepared + 1 /\ mem.open = {}
                 /\ doing.id <= MaxIntents /\ (~mem.killed => doing.id < MaxIntents)
      <4>1. todo \in Early
        <5>1. CASE todo \in Seq(Plain)
          BY <1>1, <3>1, <5>1, PlainSteps DEF Plain
        <5>2. CASE todo \in Late
          BY <3>1, <5>2 DEF Late
        <5>. QED BY <1>1, <5>1, <5>2
      <4>2. doing.id <= MaxIntents
        BY <1>1 DEF Intent
      <4>. QED BY <2>2, <3>1, <4>1, <4>2 DEF IInv, EarlyOK
    <3>. QED BY <1>1, <1>2, <2>2, <3>1, LogKeeps
  <2>. QED BY <1>2, <2>1, <2>2
<1>5. todo' \in Seq(Event \cup {"EXECUTE"})
  BY <1>3, PlainScripts
<1>6. TypeOK'
  BY <1>2, <1>3, <1>4, <1>5 DEF IInv, TypeOK
<1>. QED BY <1>3, <1>4, <1>6, PlainKeeps

\* A reconciliation of either kind begins with records only.
LEMMA ReconcileKeeps ==
  ASSUME IInv, NEW restart, Reconcile(restart), UNCHANGED phase, phase # "OFF"
  PROVE  IInv'
<1>1. mem.open \subseteq Intent /\ phase \in EnginePhase
  BY DEF IInv, TypeOK, Journal
<1>. DEFINE source == IF mem.open = {} THEN NoIntent ELSE CHOOSE i \in mem.open : TRUE
<1>2. source \in Intent
  BY <1>1, FlatTyped
<1>3. Mismatch \in Seq(Plain)
  BY PlainPairs, PlainRecords DEF Mismatch
<1>4. Matched(source, restart) \in Seq(Plain)
  BY MatchedIsPlain
<1>5. todo' \in {Mismatch, Matched(source, restart)} /\ doing' \in {NoIntent, source} /\ UNCHANGED Base
  BY DEF Reconcile, Begin, Base
<1>. HIDE DEF source
<1>. QED BY <1>1, <1>2, <1>3, <1>4, <1>5, FlatTyped, PlainBegins

\* So do the other operations that prepare no intent.
LEMMA BeginsKeep ==
  ASSUME IInv,
         BootReconcile \/ ReconcileAfterUncertain \/ AcknowledgeRestart \/ DecisionRefused
         \/ Note \/ Incident
  PROVE  IInv'
<1>1. phase \in EnginePhase
  BY DEF IInv, TypeOK
<1>2. /\ <<>> \in Seq(Plain) /\ <<"RUN_STARTED">> \in Seq(Plain) /\ <<"ACK">> \in Seq(Plain)
      /\ <<"NOTE">> \in Seq(Plain) /\ <<"INCIDENT">> \in Seq(Plain) /\ Mismatch \in Seq(Plain)
      /\ NoIntent \in Intent /\ {"HALTED", "RECONCILE_REQUIRED"} \subseteq EnginePhase
  BY PlainParts, PlainPairs, PlainRecords, FlatTyped DEF Mismatch, EnginePhase
<1>3. CASE BootReconcile
  <2>1. phase # "OFF"
    BY <1>3 DEF BootReconcile, Idle
  <2>2. CASE Begin(<<"RUN_STARTED">>, NoIntent)
    BY <1>1, <1>2, <1>3, <2>1, <2>2, PlainBegins DEF BootReconcile, Begin, Base
  <2>3. CASE Reconcile(TRUE)
    BY <1>3, <2>1, <2>3, ReconcileKeeps DEF BootReconcile
  <2>. QED BY <1>3, <2>2, <2>3 DEF BootReconcile
<1>4. CASE ReconcileAfterUncertain
  BY <1>4, ReconcileKeeps DEF ReconcileAfterUncertain, Idle
<1>5. CASE AcknowledgeRestart
  BY <1>1, <1>2, <1>5, PlainBegins DEF AcknowledgeRestart, Idle, Begin, Base
<1>6. CASE DecisionRefused
  <2>1. phase # "OFF" /\ phase' \in {phase, "HALTED", "RECONCILE_REQUIRED"}
    BY <1>6 DEF DecisionRefused, Idle
  <2>2. todo' \in {<<>>, Mismatch} /\ doing' = NoIntent /\ UNCHANGED Base
    BY <1>6 DEF DecisionRefused, Begin, Base
  <2>. QED BY <1>1, <1>2, <2>1, <2>2, PlainBegins
<1>7. CASE Note
  BY <1>1, <1>2, <1>7, PlainBegins DEF Note, Idle, Begin, Base
<1>8. CASE Incident
  BY <1>1, <1>2, <1>8, PlainBegins DEF Incident, Idle, Begin, Base
<1>. QED BY <1>3, <1>4, <1>5, <1>6, <1>7, <1>8

\* A new engine reads both files.
LEMMA BootKeeps ==
  ASSUME IInv, Boot
  PROVE  IInv'
<1>1. /\ todo = <<>> /\ ~behind
      /\ UNCHANGED <<journal, behind, venue, todo, doing, today, sent>>
      /\ mem' = journal /\ seen' = venue
      /\ phase' \in EnginePhase /\ phase' # "OFF"
  BY DEF IInv, ScriptOK, Boot, EnginePhase
<1>2. TypeOK'
  BY <1>1 DEF IInv, TypeOK
<1>3. JournalOK'
  BY <1>1 DEF IInv, JournalOK
<1>. QED BY <1>1, <1>2, <1>3, PlainParts, PlainKeeps

\* A crash forgets the memory and the script.
LEMMA CrashKeeps ==
  ASSUME IInv, Crash
  PROVE  IInv'
<1>1. /\ todo' = <<>> /\ ~behind' /\ behind' \in BOOLEAN /\ phase' = "OFF" /\ phase' \in EnginePhase
      /\ mem' = EmptyJournal /\ seen' = Flat /\ doing' = NoIntent
      /\ UNCHANGED <<journal, venue, today, sent>>
  BY DEF Crash, EnginePhase
<1>2. <<>> \in Seq(Plain) /\ <<>> \in Seq(Event \cup {"EXECUTE"})
  BY PlainParts
<1>3. TypeOK'
  BY <1>1, <1>2, FlatTyped DEF IInv, TypeOK
<1>4. JournalOK'
  BY <1>1, E1Assumption DEF IInv, JournalOK, EmptyJournal
<1>. QED BY <1>1, <1>2, <1>3, <1>4, PlainKeeps

\* An expired token ends the script.
LEMMA TokenKeeps ==
  ASSUME IInv, TokenExpires
  PROVE  IInv'
<1>1. phase # "OFF" /\ phase \in EnginePhase /\ doing \in Intent
  BY DEF IInv, TypeOK, ScriptOK, TokenExpires
<1>2. /\ todo' \in {<<>>, <<"ALERT", "HALTED">>} /\ doing' \in {doing, NoIntent}
      /\ UNCHANGED <<journal, mem, behind, venue, seen, phase, today, sent>>
  BY DEF TokenExpires, Raise, Continue
<1>3. todo' \in Seq(Plain) /\ doing' \in Intent
  BY <1>1, <1>2, PlainParts, PlainPairs, PlainRecords, FlatTyped
<1>. QED BY <1>1, <1>2, <1>3, PlainBegins DEF Base

\* A new day changes nothing the invariant speaks of.
LEMMA DayKeeps ==
  ASSUME IInv, NextDay
  PROVE  IInv'
<1>1. /\ today' \in 0..MaxDay
      /\ UNCHANGED <<journal, mem, behind, venue, seen, phase, todo, doing, sent>>
  BY E1Assumption DEF IInv, TypeOK, NextDay
<1>. QED BY <1>1 DEF IInv, TypeOK, ScriptOK, JournalOK, EarlyOK, LateOK

\* The intents the engine may prepare.
LEMMA IntentsTyped ==
  ASSUME IInv, NEW fault \in FaultKind, NEW lost \in BOOLEAN, mem.prepared < MaxIntents
  PROVE  /\ EntryIntent(fault) \in Intent /\ SettlementIntent(fault, lost) \in Intent
         /\ EntryIntent(fault).id = mem.prepared + 1
         /\ SettlementIntent(fault, lost).id = mem.prepared + 1
         /\ SettlementIntent(fault, lost).act = "settlement"
<1>1. /\ mem.prepared \in Nat /\ MaxIntents \in Nat /\ Units \in Nat
      /\ seen \in Position /\ today \in 0..MaxDay
  BY E1Assumption DEF IInv, TypeOK, Journal
<1>2. mem.prepared + 1 \in 0..MaxIntents
  BY <1>1
<1>3. [ref |-> mem.prepared + 1, units |-> Units] \in Position
  BY <1>1, <1>2 DEF Position
<1>. QED BY <1>1, <1>2, <1>3, FlatTyped DEF EntryIntent, SettlementIntent, Intent

\* An operation that begins an execution.
LEMMA ExecutionBegins ==
  ASSUME IInv, UNCHANGED Base, phase # "OFF", UNCHANGED phase, todo' \in Early,
         doing' \in Intent, doing'.id = mem.prepared + 1, mem.prepared < MaxIntents,
         ~mem.killed, ~mem.halted, mem.open = {},
         Head(todo') = "KILL" => doing'.act = "settlement",
         Head(todo') = "PREPARED" => mem.prepared + 1 < MaxIntents
  PROVE  IInv'
<1>1. todo' # <<>> /\ todo' \in Seq(Event \cup {"EXECUTE"}) /\ todo' \notin Late
  BY ExecutionSteps DEF Early, Late
<1>2. TypeOK'
  BY <1>1 DEF IInv, TypeOK, Base
<1>3. JournalOK'
  BY DEF IInv, JournalOK, Base
<1>4. ASSUME ~behind PROVE \A k \in DOMAIN sent : ~sent[k].killed
  BY <1>4 DEF IInv, TypeOK, JournalOK
<1>5. EarlyOK'
  BY <1>4 DEF EarlyOK, Base
<1>6. ScriptOK' /\ LateOK'
  BY <1>1 DEF ScriptOK, LateOK
<1>. QED BY <1>2, <1>3, <1>5, <1>6 DEF IInv

\* The scripts of a decision and of a kill that settles.
LEMMA ExecutionIsEarly ==
  /\ Execution \in Early /\ Head(Execution) = "PREPARED"
  /\ <<"KILL">> \o Execution \in Early /\ Head(<<"KILL">> \o Execution) = "KILL"
<1>1. Execution = <<"PREPARED", "STARTED", "EXECUTE">>
  BY DEF Execution
<1>2. <<"KILL">> \o Execution = <<"KILL", "PREPARED", "STARTED", "EXECUTE">>
  <2>. DEFINE Name == {"KILL", "PREPARED", "STARTED", "EXECUTE"}
              s == <<"KILL">> \o Execution
              t == <<"KILL", "PREPARED", "STARTED", "EXECUTE">>
  <2>1. <<"KILL">> \in Seq(Name) /\ Execution \in Seq(Name)
    BY <1>1
  <2>2. s \in Seq(Name) /\ Len(s) = 4
    BY <1>1, <2>1
  <2>3. s[1] = "KILL" /\ s[2] = "PREPARED" /\ s[3] = "STARTED" /\ s[4] = "EXECUTE"
    BY <1>1, <2>1
  <2>4. /\ t \in Seq(Name) /\ Len(t) = 4
        /\ t[1] = "KILL" /\ t[2] = "PREPARED" /\ t[3] = "STARTED" /\ t[4] = "EXECUTE"
    OBVIOUS
  <2>. HIDE DEF s, t
  <2>5. \A k \in 1..4 : s[k] = t[k]
    BY <2>3, <2>4
  <2>6. s = t
    BY <2>2, <2>4, <2>5
  <2>. QED BY <2>6 DEF s, t
<1>. QED BY <1>1, <1>2 DEF Early

\* A decision that passes the risk gate.
LEMMA DecideKeeps ==
  ASSUME IInv, DecideEntry \/ DecideSettlement
  PROVE  IInv'
<1>1. /\ phase # "OFF" /\ ~mem.killed /\ ~mem.halted /\ mem.open = {}
      /\ mem.prepared + 1 < MaxIntents /\ UNCHANGED phase
      /\ \E intent : /\ Begin(Execution, intent)
                     /\ \E fault \in FaultKind, lost \in BOOLEAN :
                           intent \in {EntryIntent(fault), SettlementIntent(fault, lost)}
  BY DEF DecideEntry, DecideSettlement, Processable, Idle, Stopped, MoreIntents, Injected, FaultKind
<1>2. mem.prepared \in Nat /\ MaxIntents \in Nat
  BY E1Assumption DEF IInv, TypeOK, Journal
<1>3. mem.prepared < MaxIntents
  BY <1>1, <1>2
<1>4. todo' = Execution /\ doing' \in Intent /\ doing'.id = mem.prepared + 1 /\ UNCHANGED Base
  BY <1>1, <1>3, IntentsTyped DEF Begin, Base
<1>. QED BY <1>1, <1>3, <1>4, ExecutionIsEarly, ExecutionBegins

\* A kill, with or without a settlement.
LEMMA KillKeeps ==
  ASSUME IInv, NEW priced \in BOOLEAN, Kill(priced)
  PROVE  IInv'
<1>1. phase # "OFF" /\ phase \in EnginePhase /\ "HALTED" \in EnginePhase
  BY DEF IInv, TypeOK, Kill, Idle, EnginePhase
<1>2. /\ <<>> \in Seq(Plain) /\ <<"KILL", "HALTED">> \in Seq(Plain)
      /\ <<"KILL", "ALERT", "HALTED">> \in Seq(Plain) /\ NoIntent \in Intent
  BY PlainParts, PlainPairs, PlainRecords, FlatTyped
<1>3. CASE /\ phase' \in {phase, "HALTED"}
           /\ \E s \in Seq(Plain) : Begin(s, NoIntent)
  BY <1>1, <1>2, <1>3, PlainBegins DEF Begin, Base
<1>4. CASE /\ UNCHANGED phase /\ ~mem.killed /\ ~mem.halted /\ mem.open = {}
           /\ \E fault \in FaultKind, lost \in BOOLEAN :
                 Begin(<<"KILL">> \o Execution, SettlementIntent(fault, lost))
  <2>1. mem.prepared < MaxIntents
    BY <1>4 DEF IInv, JournalOK
  <2>2. /\ todo' = <<"KILL">> \o Execution /\ doing' \in Intent /\ doing'.id = mem.prepared + 1
        /\ doing'.act = "settlement" /\ UNCHANGED Base
    BY <1>4, <2>1, IntentsTyped DEF Begin, Base
  <2>. QED BY <1>1, <1>4, <2>1, <2>2, ExecutionIsEarly, ExecutionBegins
<1>. QED BY <1>2, <1>3, <1>4 DEF Kill, KillSpent, Stopped, Injected, FaultKind

\* An execution is one more entry of the history, of an intent that has none.
LEMMA SentKeeps ==
  ASSUME IInv, todo = <<"EXECUTE">>, NEW effect \in BOOLEAN, Sent(effect),
         UNCHANGED <<journal, mem>>
  PROVE  /\ JournalOK'
         /\ sent' \in Seq([trade : Trade, effect : BOOLEAN, killed : BOOLEAN])
         /\ sent' # sent
         /\ DOMAIN sent = 1..Len(sent) /\ DOMAIN sent' = 1..(Len(sent) + 1) /\ Len(sent) \in Nat
         /\ \A k \in DOMAIN sent : sent'[k] = sent[k]
         /\ sent'[Len(sent) + 1] = [trade |-> AsTrade(doing), effect |-> effect, killed |-> journal.killed]
         /\ Last(sent') = sent'[Len(sent) + 1]
         /\ AsTrade(doing).id = doing.id /\ AsTrade(doing).act = doing.act
<1>1. /\ journal \in Journal /\ doing \in Intent
      /\ sent \in Seq([trade : Trade, effect : BOOLEAN, killed : BOOLEAN])
  BY DEF IInv, TypeOK
<1>2. /\ AsTrade(doing) \in Trade /\ AsTrade(doing).id = doing.id /\ AsTrade(doing).act = doing.act
      /\ journal.killed \in BOOLEAN
  BY <1>1 DEF AsTrade, Intent, Trade, Journal
<1>. DEFINE new == [trade |-> AsTrade(doing), effect |-> effect, killed |-> journal.killed]
<1>3. new \in [trade : Trade, effect : BOOLEAN, killed : BOOLEAN]
      /\ new.trade.id = doing.id /\ new.killed = journal.killed
  BY <1>2
<1>4. sent' = Append(sent, new)
  BY DEF Sent
<1>. HIDE DEF new
<1>5. /\ sent' \in Seq([trade : Trade, effect : BOOLEAN, killed : BOOLEAN])
      /\ sent' # sent
      /\ DOMAIN sent = 1..Len(sent) /\ DOMAIN sent' = 1..(Len(sent) + 1) /\ Len(sent) \in Nat
      /\ \A k \in DOMAIN sent : sent'[k] = sent[k]
      /\ sent'[Len(sent) + 1] = new
      /\ Len(sent') = Len(sent) + 1
  BY <1>1, <1>3, <1>4
<1>6. doing \in journal.open /\ \A k \in DOMAIN sent : sent[k].trade.id # doing.id
  BY DEF IInv, LateOK, Late
<1>7. JournalOK'
  <2>1. doing.id \in 1..journal.prepared
    BY <1>6 DEF IInv, JournalOK
  <2>2. \A k \in DOMAIN sent' : k \in DOMAIN sent \/ k = Len(sent) + 1
    BY <1>5
  <2>3. JournalOK /\ UNCHANGED <<journal, mem>>
    BY DEF IInv
  <2>4. ASSUME NEW k \in DOMAIN sent'
        PROVE  sent'[k].trade.id \in 1..journal.prepared /\ (sent'[k].killed => journal.killed)
    BY <1>3, <1>5, <2>1, <2>2, <2>3 DEF JournalOK
  <2>5. ASSUME NEW k \in DOMAIN sent', NEW n \in DOMAIN sent', k # n
        PROVE  sent'[k].trade.id # sent'[n].trade.id
    BY <1>3, <1>5, <1>6, <2>2, <2>3, <2>5 DEF JournalOK
  <2>. QED BY <2>3, <2>4, <2>5 DEF JournalOK
<1>8. Last(sent') = sent'[Len(sent) + 1]
  BY <1>5 DEF Last
<1>. QED BY <1>2, <1>5, <1>7, <1>8 DEF new

\* The execution, or its failed write, leaves records only.
LEMMA ExecuteKeeps ==
  ASSUME IInv, Execute \/ WriteFails
  PROVE  IInv' /\ todo = <<"EXECUTE">> /\ \E effect \in BOOLEAN : Sent(effect)
<1>1. todo # <<>> /\ Head(todo) = "EXECUTE"
  BY DEF Execute, WriteFails, Executing
<1>2. todo = <<"EXECUTE">>
  <2>1. todo \in Early \cup Late \cup Seq(Plain)
    BY DEF IInv, ScriptOK
  <2>2. todo \notin Seq(Plain)
    BY <1>1, PlainSteps
  <2>. QED BY <1>1, <2>1, <2>2, ExecutionSteps
<1>3. phase # "OFF" /\ phase \in EnginePhase /\ doing \in Intent /\ venue \in Position /\ seen \in Position
  BY <1>1 DEF IInv, TypeOK, ScriptOK
<1>4. Target(doing) \in Position
  <2>1. doing.planned \in Position
    BY <1>3 DEF Intent
  <2>2. Part(doing.planned) \in Position
    <3>1. (IF Units = 1 THEN 1 ELSE Units \div 2) \in 0..Units
      BY E1Assumption
    <3>. QED BY <2>1, <3>1 DEF Part, Position
  <2>. QED BY <2>1, <2>2 DEF Target
<1>5. /\ \E effect \in BOOLEAN : Sent(effect)
      /\ UNCHANGED <<journal, mem, behind, phase, today>>
      /\ venue' \in {venue, Target(doing)} /\ seen' \in {seen, Target(doing)}
  <2>1. CASE Execute
    <3>1. \A effect \in Effects(doing) : effect \in BOOLEAN
      BY Zenon DEF Effects
    <3>. QED BY <2>1, <3>1 DEF Execute
  <2>2. CASE WriteFails
    BY <2>2 DEF WriteFails
  <2>. QED BY <2>1, <2>2
<1>6. /\ todo' \in {Outcome(doing), <<"TORN", "TORN_ALERT">> \o Finish(FALSE)}
      /\ doing' \in {NoIntent, doing}
  BY DEF Execute, WriteFails, Continue
<1>7. todo' \in Seq(Plain) /\ doing' \in Intent
  BY <1>3, <1>6, OutcomeIsPlain, FlatTyped
<1>8. /\ JournalOK'
      /\ sent' \in Seq([trade : Trade, effect : BOOLEAN, killed : BOOLEAN])
  BY <1>2, <1>5, SentKeeps
<1>9. TypeOK'
  BY <1>3, <1>4, <1>5, <1>7, <1>8, PlainScripts DEF IInv, TypeOK
<1>. QED BY <1>2, <1>3, <1>5, <1>7, <1>8, <1>9, PlainKeeps

\* The invariant holds initially ...
LEMMA InitOK == Init => IInv
<1>. SUFFICES ASSUME Init PROVE IInv
  OBVIOUS
<1>1. todo = <<>> /\ <<>> \in Seq(Plain) /\ todo \notin Early /\ todo \notin Late
  BY PlainParts, PlainScripts DEF Init
<1>2. TypeOK
  <2>1. todo \in Seq(Event \cup {"EXECUTE"})
    BY <1>1, PlainScripts
  <2>2. sent \in Seq([trade : Trade, effect : BOOLEAN, killed : BOOLEAN])
    BY DEF Init
  <2>3. "OFF" \in EnginePhase /\ today \in 0..MaxDay
    BY E1Assumption DEF Init, EnginePhase
  <2>. QED BY <2>1, <2>2, <2>3, FlatTyped DEF Init, TypeOK
<1>3. JournalOK
  BY E1Assumption DEF Init, JournalOK, EmptyJournal
<1>. QED BY <1>1, <1>2, <1>3 DEF Init, IInv, ScriptOK, EarlyOK, LateOK

\* ... and is kept by every step.
LEMMA StepOK == IInv /\ [Next]_vars => IInv'
<1>1. ASSUME IInv, UNCHANGED vars PROVE IInv'
  BY <1>1 DEF vars, IInv, TypeOK, ScriptOK, JournalOK, EarlyOK, LateOK
<1>2. ASSUME IInv, Next PROVE IInv'
  BY <1>2, AppendKeeps, AppendFailKeeps, BootKeeps, CrashKeeps, BeginsKeep, DecideKeeps,
     KillKeeps, TokenKeeps, ExecuteKeeps, DayKeeps DEF Next
<1>. QED BY <1>1, <1>2

\* The inductive invariant of the E1 engine: operations either only write or
\* execute one intent, which was written before and is the only unresolved one.
THEOREM E1Invariance == Spec => []IInv
BY InitOK, StepOK, PTL DEF Spec

\* Every variable of the E1 engine has its type, and an engine that is not
\* behind the file knows all of it (persistence.py).
THEOREM E1IsTyped == Spec => []TypeOK
<1>1. IInv => TypeOK
  BY DEF IInv
<1>. QED BY <1>1, E1Invariance, PTL

\* After a kill at most one execution is tried, a settlement, and after a halt
\* none, over all restarts (activate_kill, _reconcile).
THEOREM KillsAreFinal == Spec => KillIsFinal
<1>. DEFINE Final == sent' # sent =>
            /\ ~journal.halted
            /\ journal.killed =>
                  /\ Last(sent').trade.act = "settlement"
                  /\ \A k \in DOMAIN sent : ~sent[k].killed
<1>1. ASSUME IInv, [Next]_vars PROVE [Final]_vars
  <2>1. CASE Execute \/ WriteFails
    <3>1. todo = <<"EXECUTE">> /\ \E effect \in BOOLEAN : Sent(effect)
      BY <1>1, <2>1, ExecuteKeeps
    <3>2. UNCHANGED <<journal, mem>>
      BY <2>1 DEF Execute, WriteFails
    <3>3. PICK effect \in BOOLEAN : Sent(effect)
      BY <3>1
    <3>4. Last(sent') = [trade |-> AsTrade(doing), effect |-> effect, killed |-> journal.killed]
          /\ AsTrade(doing).act = doing.act
      BY <1>1, <3>1, <3>2, <3>3, SentKeeps
    <3>5. Last(sent').trade.act = doing.act
      BY <3>4
    <3>. QED BY <1>1, <3>1, <3>5 DEF IInv, LateOK, Late
  <2>2. CASE ~(Execute \/ WriteFails)
    <3>1. sent' = sent
      BY <1>1, <2>2 DEF vars, Next, AppendRecord, AppendFails, Boot, Crash, BootReconcile,
         ReconcileAfterUncertain, AcknowledgeRestart, DecisionRefused, Note, Incident, Reconcile,
         DecideEntry, DecideSettlement, Kill, TokenExpires, NextDay, Begin
    <3>. QED BY <3>1
  <2>. QED BY <2>1, <2>2
<1>. QED BY <1>1, E1Invariance, PTL DEF Spec, KillIsFinal

(* The implementation of PersistentTransport *)

\* The mapped state depends on the journal file and the executions only.
LEMMA StatusSame ==
  ASSUME journal'.prepared = journal.prepared, journal'.open = journal.open, sent' = sent
  PROVE  intentStatus' = intentStatus
BY DEF intentStatus, StatusOf, Executed, ExecutedTwice

\* The status of an intent under the invariant.
LEMMA StatusFacts ==
  ASSUME JournalOK, NEW id \in Job
  PROVE  /\ ~ExecutedTwice(id)
         /\ StatusOf(id) = intentStatus[id]
         /\ StatusOf(id) \in {"persisted", "sent"} => \E i \in journal.open : i.id = id
<1>1. ~ExecutedTwice(id)
  BY DEF JournalOK, ExecutedTwice
<1>. QED BY <1>1 DEF StatusOf, intentStatus

\* A written intent is a persisted action.
LEMMA PrepareIsPersist ==
  ASSUME IInv, IInv', journal.open = {}, journal'.open = {doing}, sent' = sent,
         doing.id = journal.prepared + 1, journal'.prepared = journal.prepared + 1
  PROVE  Transport!TransportNext
<1>1. JournalOK /\ JournalOK' /\ journal.prepared \in Nat
  BY E1Assumption DEF IInv, TypeOK, Journal
<1>2. doing.id \in Job /\ \A k \in DOMAIN sent : sent[k].trade.id \in 1..journal.prepared
  <2>1. doing.id \in 1..MaxIntents
    <3>1. journal' \in Journal
      BY DEF IInv, TypeOK
    <3>2. journal'.prepared \in 0..MaxIntents /\ MaxIntents \in Nat
      BY <3>1, E1Assumption DEF Journal
    <3>. QED BY <1>1, <3>2
  <2>. QED BY <1>1, <2>1 DEF Job, JournalOK
<1>3. PICK d \in Job : d = doing.id
  BY <1>2
<1>4. intentStatus[doing.id] = "new"
  BY <1>1, <1>2 DEF intentStatus, StatusOf
<1>5. intentStatus'[doing.id] = "persisted"
  <2>1. ~Executed(d)' /\ ~ExecutedTwice(d)'
    BY <1>1, <1>2, <1>3 DEF Executed, ExecutedTwice
  <2>2. ~(d > journal'.prepared) /\ \E i \in journal'.open : i.id = d
    BY <1>1, <1>2, <1>3
  <2>. QED BY <1>3, <2>1, <2>2 DEF intentStatus, StatusOf
<1>6. \A id \in Job : id # doing.id => intentStatus'[id] = intentStatus[id]
  <2>. TAKE id \in Job
  <2>1. id \in Nat
    BY DEF Job
  <2>. QED BY <1>1, <2>1 DEF intentStatus, StatusOf, Executed, ExecutedTwice
<1>7. Transport!InFlight = {}
  BY <1>1, StatusFacts DEF Transport!InFlight
<1>8. intentStatus' = [intentStatus EXCEPT ![doing.id] = "persisted"]
  BY <1>2, <1>5, <1>6 DEF intentStatus
<1>. QED BY <1>2, <1>4, <1>7, <1>8 DEF Transport!TransportNext, Transport!Persist

\* A record that resolves the intent settles the action or gives it up.
LEMMA ResolveIsSettle ==
  ASSUME IInv, IInv', journal'.open = journal.open \ {doing}, sent' = sent,
         journal'.prepared = journal.prepared
  PROVE  Transport!TransportNext \/ intentStatus' = intentStatus
<1>1. JournalOK /\ JournalOK' /\ journal.prepared \in 0..MaxIntents /\ MaxIntents \in Nat
  BY E1Assumption DEF IInv, TypeOK, Journal
<1>2. CASE doing \notin journal.open
  <2>1. journal'.open = journal.open
    BY <1>2
  <2>. QED BY <2>1, StatusSame
<1>3. CASE doing \in journal.open
  <2>1. journal.open = {doing} /\ journal'.open = {} /\ doing.id \in 1..journal.prepared
    BY <1>1, <1>3 DEF JournalOK
  <2>2. doing.id \in Job
    BY <1>1, <2>1 DEF Job
  <2>3. intentStatus[doing.id] = IF Executed(doing.id) THEN "sent" ELSE "persisted"
    BY <1>1, <2>1, <2>2, StatusFacts DEF intentStatus, StatusOf
  <2>4. intentStatus'[doing.id] = IF Executed(doing.id) THEN "done" ELSE "abandoned"
    BY <1>1, <2>1, <2>2, StatusFacts DEF intentStatus, StatusOf, Executed, ExecutedTwice
  <2>5. \A id \in Job : id # doing.id => intentStatus'[id] = intentStatus[id]
    BY <2>1 DEF intentStatus, StatusOf, Executed, ExecutedTwice
  <2>6. intentStatus' = [intentStatus EXCEPT ![doing.id] = intentStatus'[doing.id]]
    BY <2>2, <2>5 DEF intentStatus
  <2>. QED BY <2>2, <2>3, <2>4, <2>6 DEF Transport!TransportNext, Transport!Settle, Transport!Abandon
<1>. QED BY <1>2, <1>3

\* The execution sends the action.
LEMMA ExecutionIsSend ==
  ASSUME IInv, todo = <<"EXECUTE">>, NEW effect \in BOOLEAN, Sent(effect),
         UNCHANGED <<journal, mem>>
  PROVE  Transport!TransportNext
<1>1. JournalOK /\ JournalOK'
      /\ DOMAIN sent = 1..Len(sent) /\ DOMAIN sent' = 1..(Len(sent) + 1) /\ Len(sent) \in Nat
      /\ (\A k \in DOMAIN sent : sent'[k] = sent[k])
      /\ sent'[Len(sent) + 1] = [trade |-> AsTrade(doing), effect |-> effect, killed |-> journal.killed]
      /\ AsTrade(doing).id = doing.id
  BY SentKeeps DEF IInv
<1>2. sent'[Len(sent) + 1].trade.id = doing.id
  BY <1>1
<1>3. doing \in journal.open /\ \A k \in DOMAIN sent : sent[k].trade.id # doing.id
  BY DEF IInv, LateOK, Late
<1>4. doing.id \in Job /\ doing.id \in 1..journal.prepared
  <2>1. journal.prepared \in 0..MaxIntents /\ MaxIntents \in Nat
    BY E1Assumption DEF IInv, TypeOK, Journal
  <2>. QED BY <1>1, <1>3, <2>1 DEF JournalOK, Job
<1>d. PICK d \in Job : d = doing.id
  BY <1>4
<1>5. ~Executed(d) /\ Executed(d)'
  BY <1>1, <1>2, <1>3, <1>d DEF Executed
<1>6. \A id \in Job : id # d => (Executed(id)' <=> Executed(id))
  BY <1>1, <1>2, <1>d DEF Executed
<1>7. \A id \in Job : ~ExecutedTwice(id) /\ ~ExecutedTwice(id)'
  BY <1>1 DEF JournalOK, ExecutedTwice
<1>8. /\ ~(d > journal.prepared) /\ \E i \in journal.open : i.id = d
      /\ ~(d > journal'.prepared) /\ \E i \in journal'.open : i.id = d
  <2>1. journal.prepared \in 0..MaxIntents /\ MaxIntents \in Nat
    BY E1Assumption DEF IInv, TypeOK, Journal
  <2>. QED BY <1>3, <1>4, <1>d, <2>1
<1>9. intentStatus[d] = "persisted"
  BY <1>5, <1>7, <1>8 DEF intentStatus, StatusOf
<1>10. intentStatus'[d] = "sent"
  BY <1>5, <1>7, <1>8 DEF intentStatus, StatusOf
<1>11. \A id \in Job : id # d => intentStatus'[id] = intentStatus[id]
  BY <1>6, <1>7 DEF intentStatus, StatusOf
<1>12. intentStatus' = [intentStatus EXCEPT ![d] = "sent"]
  BY <1>10, <1>11 DEF intentStatus
<1>. QED BY <1>9, <1>12 DEF Transport!TransportNext, Transport!Send

\* A record in the journal file is a step of the transport or a stutter.
LEMMA LogIsTransport ==
  ASSUME IInv, IInv', ~behind, phase # "OFF", NEW e, journal' = Log(mem, e), sent' = sent,
         e = "PREPARED" => doing.id = mem.prepared + 1 /\ mem.open = {}
  PROVE  Transport!TransportNext \/ intentStatus' = intentStatus
<1>1. mem = journal /\ mem.prepared \in Nat
  BY E1Assumption DEF IInv, TypeOK, Journal
<1>2. CASE e = "PREPARED"
  <2>1. Log(mem, e).open = mem.open \cup {doing} /\ Log(mem, e).prepared = mem.prepared + 1
    BY <1>2, LogFields
  <2>2. journal'.open = {doing} /\ journal'.prepared = journal.prepared + 1
    BY <1>1, <1>2, <2>1
  <2>3. journal.open = {} /\ doing.id = journal.prepared + 1
    BY <1>1, <1>2
  <2>. QED BY <2>2, <2>3, PrepareIsPersist
<1>3. CASE e # "PREPARED"
  <2>1. journal'.prepared = journal.prepared
    <3>1. journal'.prepared = mem.prepared + 0
      BY <1>3, LogFields
    <3>. QED BY <1>1, <3>1
  <2>2. journal'.open = journal.open \/ journal'.open = journal.open \ {doing}
    BY <1>1, <1>3, LogFields
  <2>. QED BY <2>1, <2>2, ResolveIsSettle, StatusSame
<1>. QED BY <1>2, <1>3

\* A PREPARED record is written of the next intent, when none is unresolved.
LEMMA PreparedIsNext ==
  ASSUME IInv, ~behind, todo # <<>>, Head(todo) = "PREPARED"
  PROVE  doing.id = mem.prepared + 1 /\ mem.open = {}
<1>1. todo \in Early
  <2>1. todo \in Early \cup Late \cup Seq(Plain)
    BY DEF IInv, ScriptOK
  <2>2. todo \notin Seq(Plain)
    BY PlainSteps DEF Plain
  <2>3. todo \notin Late
    BY DEF Late
  <2>. QED BY <2>1, <2>2, <2>3
<1>. QED BY <1>1 DEF IInv, EarlyOK

\* Every step is a step of the transport or a stutter.
LEMMA StepRefines ==
  ASSUME IInv, IInv', [Next]_vars
  PROVE  [Transport!TransportNext]_intentStatus
<1>1. CASE AppendRecord
  <2>1. /\ ~behind /\ phase # "OFF" /\ todo # <<>> /\ journal' = Log(mem, Head(todo)) /\ sent' = sent
    BY <1>1 DEF AppendRecord, Writing
  <2>. QED BY <2>1, PreparedIsNext, LogIsTransport
<1>2. CASE AppendFails
  <2>1. /\ phase # "OFF" /\ todo # <<>> /\ sent' = sent
        /\ journal' = journal \/ (~behind /\ journal' = Log(mem, Head(todo)))
    BY <1>2 DEF AppendFails, Writing
  <2>2. CASE journal' = journal
    BY <2>1, <2>2, StatusSame
  <2>3. CASE ~behind /\ journal' = Log(mem, Head(todo))
    BY <2>1, <2>3, PreparedIsNext, LogIsTransport
  <2>. QED BY <2>1, <2>2, <2>3
<1>3. CASE Execute \/ WriteFails
  <2>1. todo = <<"EXECUTE">> /\ \E effect \in BOOLEAN : Sent(effect)
    BY <1>3, ExecuteKeeps
  <2>2. UNCHANGED <<journal, mem>>
    BY <1>3 DEF Execute, WriteFails
  <2>. QED BY <2>1, <2>2, ExecutionIsSend
<1>4. CASE ~(AppendRecord \/ AppendFails \/ Execute \/ WriteFails)
  <2>1. UNCHANGED <<journal, sent>>
    BY <1>4 DEF vars, Next, Boot, Crash, BootReconcile, ReconcileAfterUncertain,
       AcknowledgeRestart, DecisionRefused, Note, Incident, Reconcile, DecideEntry,
       DecideSettlement, Kill, TokenExpires, NextDay, Begin
  <2>. QED BY <2>1, StatusSame
<1>. QED BY <1>1, <1>2, <1>3, <1>4

\* Initially no action is known.
LEMMA InitRefines == Init => Transport!TransportInit
<1>. SUFFICES ASSUME Init PROVE Transport!TransportInit
  OBVIOUS
<1>1. journal.prepared = 0 /\ \A id \in Job : id > 0
  BY DEF Init, EmptyJournal, Job
<1>. QED BY <1>1 DEF Transport!TransportInit, intentStatus, StatusOf

\* The engine implements PersistentTransport: an intent is in the journal
\* before its execution, is executed at most once over all restarts, and the
\* next one is prepared when none is unresolved (_prepare_and_start, _reconcile).
THEOREM E1TransportRefinement == Spec => ImplementsTransport
<1>2. IInv /\ IInv' /\ [Next]_vars => [Transport!TransportNext]_intentStatus
  BY StepRefines
<1>. QED BY <1>2, InitRefines, E1Invariance, PTL DEF Spec, ImplementsTransport, Transport!TransportSpec

(***************************************************************************)
(* An engine that may trade knows what is open.                            *)
(***************************************************************************)

\* The phases in which an engine may trade or is about to be allowed to.
Entrusted == {"RESTART_ACK_REQUIRED", "READY_FLAT", "POSITION_OPEN"}

\* A position that the journal explains.
Leads(intent) == {intent.before, intent.planned, Part(intent.planned)}
Known(j, position) ==
    position = j.expected \/ \E i \in j.open : position \in Leads(i)

\* Records that may be written whatever the position is, and those that follow
\* an execution of unknown effect.
Quiet == {"NOTE", "INCIDENT", "HANDLED", "ACK", "KILL", "ALERT", "HALTED"}
Uncertain == {"UNCERTAIN", "UNCERTAIN_ALERT", "TORN", "TORN_ALERT"}

\* What the other records of a script without execution say is true.
FirstOK(event) ==
    \/ event = "RUN_STARTED" /\ phase = "BOOT_NEW_RUN"
    \/ event = "CONFIRMED" /\ seen = doing.planned
    \/ event = "REJECTED" /\ seen = doing.before
    \/ event = "MATCHED" /\ Explained(doing)
    \/ /\ event = "MISMATCH"
       /\ doing = NoIntent \/ phase \in {"BOOT_RECONCILE_REQUIRED", "RECONCILE_REQUIRED"}

UncertainOK ==
    phase # "BOOT_NEW_RUN" /\ doing \in mem.open /\ seen \in Leads(doing)

RecordsOK ==
    \/ todo \in Early \cup Late /\ MayTrade /\ doing.before = seen
    \/ todo \in Seq(Quiet)
    \/ todo \in Seq(Quiet \cup Uncertain) /\ UncertainOK
    \/ todo # <<>> /\ Tail(todo) \in Seq(Quiet) /\ FirstOK(Head(todo))

\* A run that has not begun is flat.
NewRunOK ==
    /\ ~journal.begun => journal.expected = Flat /\ journal.open = {} /\ venue = Flat
    /\ phase = "BOOT_NEW_RUN" => seen = Flat /\ mem.expected = Flat

VenueInv == IInv /\ TradingKnowsTheVenue /\ NewRunOK /\ RecordsOK

(* Scripts *)

\* The scripts that need no more than records.
LEMMA QuietScripts ==
  /\ <<>> \in Seq(Quiet) /\ <<"ALERT">> \in Seq(Quiet) /\ <<"HALTED">> \in Seq(Quiet)
  /\ <<"ALERT", "HALTED">> \in Seq(Quiet) /\ <<"HANDLED">> \in Seq(Quiet)
  /\ <<"NOTE">> \in Seq(Quiet) /\ <<"INCIDENT">> \in Seq(Quiet) /\ <<"ACK">> \in Seq(Quiet)
  /\ <<"KILL", "HALTED">> \in Seq(Quiet) /\ <<"KILL", "ALERT", "HALTED">> \in Seq(Quiet)
  /\ \A s, t \in Seq(Quiet) : s \o t \in Seq(Quiet)
  /\ Finish(TRUE) \in Seq(Quiet) /\ Finish(FALSE) \in Seq(Quiet)
  /\ "EXECUTE" \notin Quiet \cup Uncertain
<1>1. /\ <<>> \in Seq(Quiet) /\ <<"ALERT">> \in Seq(Quiet) /\ <<"HALTED">> \in Seq(Quiet)
      /\ <<"ALERT", "HALTED">> \in Seq(Quiet) /\ <<"HANDLED">> \in Seq(Quiet)
      /\ <<"NOTE">> \in Seq(Quiet) /\ <<"INCIDENT">> \in Seq(Quiet) /\ <<"ACK">> \in Seq(Quiet)
      /\ <<"KILL", "HALTED">> \in Seq(Quiet) /\ <<"KILL", "ALERT", "HALTED">> \in Seq(Quiet)
  BY DEF Quiet
<1>2. \A s, t \in Seq(Quiet) : s \o t \in Seq(Quiet)
  OBVIOUS
<1>3. "EXECUTE" \notin Quiet \cup Uncertain
  BY DEF Quiet, Uncertain
<1>. QED BY <1>1, <1>2, <1>3 DEF Finish

\* A script that begins with one record, the others being quiet.
LedBy(first, s) == \E rest \in Seq(Quiet) : s = <<first>> \o rest

\* Its head and its tail.
LEMMA LedParts ==
  ASSUME NEW first, NEW s, LedBy(first, s)
  PROVE  s # <<>> /\ Head(s) = first /\ Tail(s) \in Seq(Quiet)
<1>1. PICK rest \in Seq(Quiet) : s = <<first>> \o rest
  BY DEF LedBy
<1>. DEFINE All == Quiet \cup {first}
<1>2. /\ s \in Seq(All) /\ Len(s) = Len(rest) + 1 /\ Len(rest) \in Nat
      /\ s[1] = first /\ \A k \in 1..Len(rest) : s[k + 1] = rest[k]
  BY <1>1
<1>3. s # <<>> /\ Head(s) = first
  BY <1>2
<1>4. Tail(s) \in Seq(All) /\ Len(Tail(s)) = Len(rest) /\ \A k \in 1..Len(rest) : Tail(s)[k] = rest[k]
  BY <1>2
<1>5. Tail(s) = rest
  BY <1>4
<1>. QED BY <1>1, <1>3, <1>5

\* It stays one when quiet records follow.
LEMMA LedOn ==
  ASSUME NEW first, NEW s, LedBy(first, s), NEW t \in Seq(Quiet)
  PROVE  LedBy(first, s \o t)
<1>1. PICK rest \in Seq(Quiet) : s = <<first>> \o rest
  BY DEF LedBy
<1>2. rest \o t \in Seq(Quiet)
  BY <1>1
<1>3. (<<first>> \o rest) \o t = <<first>> \o (rest \o t)
  <2>. DEFINE All == Quiet \cup {first}
  <2>1. <<first>> \in Seq(All) /\ rest \in Seq(All) /\ t \in Seq(All)
    BY <1>1
  <2>. HIDE DEF All
  <2>. QED BY <2>1, ConcatAssociative
<1>. QED BY <1>1, <1>2, <1>3 DEF LedBy

\* Single records and pairs.
LEMMA LedStarts ==
  /\ \A first : LedBy(first, <<first>>)
  /\ LedBy("REJECTED", <<"REJECTED", "HALTED">>)
  /\ LedBy("MISMATCH", <<"MISMATCH", "ALERT", "HALTED">>)
<1>1. ASSUME NEW first PROVE LedBy(first, <<first>>)
  <2>1. <<first>> = <<first>> \o <<>>
    OBVIOUS
  <2>. QED BY <2>1, QuietScripts DEF LedBy
<1>2. LedBy("REJECTED", <<"REJECTED", "HALTED">>)
  <2>. DEFINE s == <<"REJECTED", "HALTED">>
              t == <<"REJECTED">> \o <<"HALTED">>
  <2>1. /\ s \in Seq({"REJECTED", "HALTED"}) /\ t \in Seq({"REJECTED", "HALTED"})
        /\ Len(s) = 2 /\ Len(t) = 2 /\ s[1] = t[1] /\ s[2] = t[2]
    OBVIOUS
  <2>. HIDE DEF s, t
  <2>2. s = t
    BY <2>1
  <2>. QED BY <2>2, QuietScripts DEF LedBy, s, t
<1>3. LedBy("MISMATCH", <<"MISMATCH", "ALERT", "HALTED">>)
  <2>. DEFINE s == <<"MISMATCH", "ALERT", "HALTED">>
              t == <<"MISMATCH">> \o <<"ALERT", "HALTED">>
  <2>1. /\ s \in Seq({"MISMATCH", "ALERT", "HALTED"}) /\ t \in Seq({"MISMATCH", "ALERT", "HALTED"})
        /\ Len(s) = 3 /\ Len(t) = 3 /\ s[1] = t[1] /\ s[2] = t[2] /\ s[3] = t[3]
    OBVIOUS
  <2>. HIDE DEF s, t
  <2>2. s = t
    BY <2>1
  <2>. QED BY <2>2, QuietScripts DEF LedBy, s, t
<1>. QED BY <1>1, <1>2, <1>3

\* A mismatch and a match begin with the record that says so (_reconcile).
LEMMA ReconcileScripts ==
  ASSUME NEW source, NEW restart
  PROVE  LedBy("MATCHED", Matched(source, restart)) /\ LedBy("MISMATCH", Mismatch)
<1>1. LedBy("MISMATCH", Mismatch)
  BY LedStarts DEF Mismatch
<1>. DEFINE a == IF source.fault \in {"timeout", "crash"} THEN <<"HANDLED">> ELSE <<>>
            b == IF restart /\ source # NoIntent THEN <<"HANDLED">> ELSE <<>>
            c == IF source.fault = "rejected" /\ ~Stopped(mem) THEN <<"ALERT", "HALTED">> ELSE <<>>
            alert == IF seen # Flat THEN <<"ALERT">> ELSE <<>>
            d == IF mem.killed /\ ~mem.halted THEN alert \o <<"HALTED">> ELSE <<>>
<1>2. a \in Seq(Quiet) /\ b \in Seq(Quiet) /\ c \in Seq(Quiet) /\ alert \in Seq(Quiet)
  BY QuietScripts
<1>3. d \in Seq(Quiet)
  <2>. HIDE DEF alert
  <2>. QED BY <1>2, QuietScripts
<1>4. Matched(source, restart) = (((<<"MATCHED">> \o a) \o b) \o c) \o d
  BY Zenon DEF Matched
<1>. HIDE DEF a, b, c, d
<1>5. LedBy("MATCHED", <<"MATCHED">> \o a)
  BY <1>2, LedStarts, LedOn
<1>6. LedBy("MATCHED", (<<"MATCHED">> \o a) \o b)
  BY <1>2, <1>5, LedOn
<1>7. LedBy("MATCHED", ((<<"MATCHED">> \o a) \o b) \o c)
  BY <1>2, <1>6, LedOn
<1>. QED BY <1>1, <1>3, <1>4, <1>7, LedOn

\* What an execution leaves to write (_finish_execution).
LEMMA OutcomeScripts ==
  ASSUME NEW intent
  PROVE  /\ intent.fault = "none" => LedBy("CONFIRMED", Outcome(intent))
         /\ intent.fault = "rejected" => LedBy("REJECTED", Outcome(intent))
         /\ intent.fault = "crash" => Outcome(intent) = <<>>
         /\ intent.fault \notin {"none", "rejected", "crash"} =>
               Outcome(intent) \in Seq(Quiet \cup Uncertain)
         /\ <<"TORN", "TORN_ALERT">> \o Finish(FALSE) \in Seq(Quiet \cup Uncertain)
<1>1. /\ <<"UNCERTAIN", "UNCERTAIN_ALERT">> \in Seq(Quiet \cup Uncertain)
      /\ <<"TORN", "TORN_ALERT">> \in Seq(Quiet \cup Uncertain)
  BY DEF Uncertain
<1>2. Finish(FALSE) \in Seq(Quiet \cup Uncertain)
  <2>1. \A s \in Seq(Quiet) : s \in Seq(Quiet \cup Uncertain)
    OBVIOUS
  <2>. QED BY <2>1, QuietScripts
<1>3. /\ <<"UNCERTAIN", "UNCERTAIN_ALERT">> \o Finish(FALSE) \in Seq(Quiet \cup Uncertain)
      /\ <<"TORN", "TORN_ALERT">> \o Finish(FALSE) \in Seq(Quiet \cup Uncertain)
  <2>1. \A s, t \in Seq(Quiet \cup Uncertain) : s \o t \in Seq(Quiet \cup Uncertain)
    OBVIOUS
  <2>. QED BY <1>1, <1>2, <2>1
<1>4. LedBy("CONFIRMED", <<"CONFIRMED">> \o Finish(TRUE))
  BY QuietScripts, LedStarts, LedOn
<1>5. LedBy("REJECTED", <<"REJECTED", "HALTED">> \o Finish(FALSE))
  BY LedStarts, QuietScripts, LedOn
<1>6. CASE intent.fault = "none"
  BY <1>3, <1>4, <1>6, Zenon DEF Outcome
<1>7. CASE intent.fault = "rejected"
  <2>1. Outcome(intent) = <<"REJECTED", "HALTED">> \o Finish(FALSE)
    BY <1>7 DEF Outcome
  <2>. QED BY <1>3, <1>5, <1>7, <2>1
<1>8. CASE intent.fault = "crash"
  <2>1. Outcome(intent) = <<>>
    BY <1>8 DEF Outcome
  <2>. QED BY <1>3, <1>8, <2>1
<1>9. CASE intent.fault \notin {"none", "rejected", "crash"}
  <2>1. Outcome(intent) = <<"UNCERTAIN", "UNCERTAIN_ALERT">> \o Finish(FALSE)
    BY <1>9, Zenon DEF Outcome
  <2>. QED BY <1>3, <1>9, <2>1
<1>. QED BY <1>6, <1>7, <1>8, <1>9

(* Records *)

\* The position that a record names.
LEMMA ExpectsValues ==
  /\ \A e \in {"NOTE", "ACK", "HANDLED"} : Expects(e) = seen
  /\ \A e \in {"INCIDENT", "KILL", "ALERT", "HALTED", "TORN_ALERT", "RUN_STARTED"} :
        Expects(e) = mem.expected
  /\ \A e \in {"PREPARED", "STARTED", "REJECTED", "UNCERTAIN", "UNCERTAIN_ALERT", "TORN"} :
        Expects(e) = doing.before
  /\ Expects("CONFIRMED") = doing.planned
  /\ doing = NoIntent => Expects("MATCHED") = mem.expected /\ Expects("MISMATCH") = mem.expected
  /\ doing # NoIntent =>
        Expects("MATCHED") = IF seen = doing.before THEN doing.before ELSE doing.planned
<1>1. \A e \in {"NOTE", "ACK", "HANDLED"} : Expects(e) = seen
  BY Zenon DEF Expects
<1>2. \A e \in {"INCIDENT", "KILL", "ALERT", "HALTED", "TORN_ALERT", "RUN_STARTED"} :
        Expects(e) = mem.expected
  BY DEF Expects
<1>3. \A e \in {"PREPARED", "STARTED", "REJECTED", "UNCERTAIN", "UNCERTAIN_ALERT", "TORN"} :
        Expects(e) = doing.before
  BY DEF Expects
<1>4. Expects("CONFIRMED") = doing.planned
  BY DEF Expects
<1>5. doing = NoIntent => Expects("MATCHED") = mem.expected /\ Expects("MISMATCH") = mem.expected
  BY DEF Expects
<1>6. doing # NoIntent =>
        Expects("MATCHED") = IF seen = doing.before THEN doing.before ELSE doing.planned
  BY DEF Expects
<1>. QED BY <1>1, <1>2, <1>3, <1>4, <1>5, <1>6

\* The next record of a script, and what holds when it is written.
LEMMA NextRecord ==
  ASSUME IInv, RecordsOK, Writing
  PROVE  LET e == Head(todo)
         IN  \/ /\ e \in {"KILL", "PREPARED", "STARTED"} /\ MayTrade /\ doing.before = seen
                /\ todo \in Early \cup Late /\ Tail(todo) \in Early \cup Late /\ Tail(todo) # <<>>
             \/ e \in Quiet /\ Tail(todo) \in Seq(Quiet)
             \/ e \in Quiet \cup Uncertain /\ Tail(todo) \in Seq(Quiet \cup Uncertain) /\ UncertainOK
             \/ FirstOK(e) /\ Tail(todo) \in Seq(Quiet)
<1>1. todo # <<>> /\ Head(todo) # "EXECUTE"
  BY DEF Writing
<1>2. CASE todo \in Early \cup Late /\ MayTrade /\ doing.before = seen
  <2>1. /\ <<"PREPARED", "STARTED", "EXECUTE">> \in Early \cup Late
        /\ <<"STARTED", "EXECUTE">> \in Early \cup Late /\ <<"EXECUTE">> \in Early \cup Late
    BY DEF Early, Late
  <2>2. Head(todo) \in {"KILL", "PREPARED", "STARTED"}
    BY <1>1, <1>2, ExecutionSteps
  <2>3. Tail(todo) \in {<<"PREPARED", "STARTED", "EXECUTE">>, <<"STARTED", "EXECUTE">>, <<"EXECUTE">>}
    BY <1>2, <2>2, ExecutionSteps
  <2>4. Tail(todo) \in Early \cup Late
    BY <2>1, <2>3, Zenon
  <2>5. Tail(todo) # <<>>
    BY <2>4, ExecutionSteps
  <2>. QED BY <1>2, <2>2, <2>4, <2>5
<1>3. CASE todo \in Seq(Quiet)
  BY <1>1, <1>3
<1>4. CASE todo \in Seq(Quiet \cup Uncertain) /\ UncertainOK
  <2>1. Head(todo) \in Quiet \cup Uncertain /\ Tail(todo) \in Seq(Quiet \cup Uncertain)
    BY <1>1, <1>4
  <2>. QED BY <1>4, <2>1
<1>5. CASE Tail(todo) \in Seq(Quiet) /\ FirstOK(Head(todo))
  BY <1>5
<1>. QED BY <1>2, <1>3, <1>4, <1>5 DEF RecordsOK

\* A record leaves the position explained that was explained before it.
LEMMA LogKnown ==
  ASSUME VenueInv, Writing, ~behind, ~mem.halted, seen = venue,
         phase \in Entrusted
         \/ Head(todo) \in {"RUN_STARTED", "CONFIRMED", "ACK", "MATCHED", "HANDLED"}
  PROVE  Known(Log(mem, Head(todo)), venue)
<1>. DEFINE e == Head(todo)
            new == Log(mem, e)
<1>1. /\ mem = journal /\ mem.open \subseteq Intent
      /\ \A i \in mem.open : i # NoIntent
  <2>1. mem = journal /\ mem.open \subseteq Intent
    BY DEF VenueInv, IInv, TypeOK, Writing, Journal
  <2>2. \A i \in mem.open : i.id \in 1..journal.prepared
    BY <2>1 DEF VenueInv, IInv, JournalOK
  <2>3. NoIntent.id = 0 /\ 0 \notin 1..journal.prepared
    BY FlatTyped
  <2>. QED BY <2>1, <2>2, <2>3
<1>2. new.expected = Expects(e)
  BY LogFields
<1>3. phase \in Entrusted => Known(journal, venue)
  BY <1>1 DEF VenueInv, TradingKnowsTheVenue, Entrusted, Known, Leads
<1>4. e \notin {"PREPARED", "CONFIRMED", "REJECTED", "MATCHED", "MISMATCH"} => new.open = mem.open
  BY LogFields
<1>5. \/ e \in {"KILL", "PREPARED", "STARTED"} /\ MayTrade /\ doing.before = seen
      \/ e \in Quiet
      \/ e \in Quiet \cup Uncertain /\ UncertainOK
      \/ FirstOK(e)
  BY NextRecord DEF VenueInv
<1>. HIDE DEF e, new
<1>6. CASE e \in {"INCIDENT", "KILL", "ALERT", "HALTED"}
  <2>1. new.expected = journal.expected /\ new.open = journal.open /\ phase \in Entrusted
    BY <1>1, <1>2, <1>4, <1>6, ExpectsValues DEF e
  <2>. QED BY <1>3, <2>1 DEF Known, new, e
<1>7. CASE e \in {"NOTE", "ACK", "HANDLED"}
  BY <1>2, <1>7, ExpectsValues DEF Known, new, e
<1>8. CASE e \in {"PREPARED", "STARTED"}
  <2>1. doing.before = seen
    BY <1>5, <1>8 DEF Quiet, Uncertain, FirstOK
  <2>. QED BY <1>2, <1>8, <2>1, ExpectsValues DEF Known, new, e
<1>9. CASE e \in Uncertain
  <2>1. UncertainOK
    BY <1>5, <1>9 DEF Quiet, Uncertain, FirstOK
  <2>2. new.open = mem.open
    BY <1>4, <1>9 DEF Uncertain
  <2>. QED BY <2>1, <2>2 DEF UncertainOK, Known, new, e
<1>10. CASE FirstOK(e)
  <2>1. CASE e = "RUN_STARTED" /\ phase = "BOOT_NEW_RUN"
    <3>1. new.expected = mem.expected /\ mem.expected = Flat /\ seen = Flat
      BY <1>2, <2>1, ExpectsValues DEF VenueInv, NewRunOK
    <3>. QED BY <3>1 DEF Known, new, e
  <2>2. CASE e = "CONFIRMED" /\ seen = doing.planned
    BY <1>2, <2>2, ExpectsValues DEF Known, new, e
  <2>3. CASE e = "REJECTED" /\ seen = doing.before
    BY <1>2, <2>3, ExpectsValues DEF Known, new, e
  <2>4. CASE e = "MATCHED" /\ Explained(doing)
    <3>1. Expects("MATCHED") = seen
      BY <2>4, ExpectsValues DEF Explained
    <3>. QED BY <1>2, <2>4, <3>1 DEF Known, new, e
  <2>5. CASE e = "MISMATCH" /\ phase \in Entrusted
    <3>1. doing = NoIntent
      BY <1>10, <2>5 DEF FirstOK, Entrusted
    <3>2. new.expected = journal.expected
      BY <1>1, <1>2, <2>5, <3>1, ExpectsValues
    <3>3. new.open = mem.open \ {doing}
      BY <2>5, LogFields DEF new
    <3>4. new.open = journal.open
      BY <1>1, <3>1, <3>3
    <3>. QED BY <1>3, <2>5, <3>2, <3>4 DEF Known, new, e
  <2>. QED BY <1>10, <2>1, <2>2, <2>3, <2>4, <2>5 DEF FirstOK, e
<1>. QED BY <1>5, <1>6, <1>7, <1>8, <1>9, <1>10 DEF Quiet

(* Steps *)

\* The phases that a record, or its failure, may lead to.
LEMMA EntrustedPhases ==
  ASSUME NEW e
  PROVE  /\ PhaseAfter(e) \in Entrusted =>
               phase \in Entrusted \/ e \in {"RUN_STARTED", "CONFIRMED", "ACK", "MATCHED", "HANDLED"}
         /\ PhaseAfterFailure(e) \in Entrusted => phase \in Entrusted
         /\ PhaseAfter(e) = "BOOT_NEW_RUN" => phase = "BOOT_NEW_RUN"
         /\ PhaseAfterFailure(e) = "BOOT_NEW_RUN" => phase = "BOOT_NEW_RUN"
         /\ e \in {"KILL", "PREPARED", "STARTED"} => PhaseAfter(e) = phase
<1>1. CASE e \in {"RUN_STARTED", "CONFIRMED", "ACK"}
  <2>1. PhaseAfter(e) \in {"READY_FLAT", "POSITION_OPEN"}
    BY <1>1, Zenon DEF PhaseAfter, Trading
  <2>2. PhaseAfterFailure(e) \in {"HALTED", "RECONCILE_REQUIRED", phase}
    BY Zenon DEF PhaseAfterFailure
  <2>. QED BY <1>1, <2>1, <2>2 DEF Entrusted
<1>2. CASE e \in {"MATCHED", "HANDLED"}
  <2>1. PhaseAfter(e) \in {"HALTED", "RESTART_ACK_REQUIRED", phase}
    BY <1>2 DEF PhaseAfter
  <2>2. PhaseAfterFailure(e) \in {"HALTED", "RECONCILE_REQUIRED", phase}
    BY Zenon DEF PhaseAfterFailure
  <2>. QED BY <1>2, <2>1, <2>2 DEF Entrusted
<1>3. CASE e \in {"UNCERTAIN_ALERT", "TORN_ALERT", "HALTED"}
  <2>1. PhaseAfter(e) \in {"HALTED", "RECONCILE_REQUIRED"}
    BY <1>3 DEF PhaseAfter
  <2>2. PhaseAfterFailure(e) \in {"HALTED", "RECONCILE_REQUIRED", phase}
    BY Zenon DEF PhaseAfterFailure
  <2>. QED BY <1>3, <2>1, <2>2 DEF Entrusted
<1>4. CASE e \notin {"RUN_STARTED", "CONFIRMED", "ACK", "MATCHED", "HANDLED", "UNCERTAIN_ALERT",
                     "TORN_ALERT", "HALTED"}
  <2>1. PhaseAfter(e) = phase
    BY <1>4 DEF PhaseAfter
  <2>2. PhaseAfterFailure(e) \in {"HALTED", "RECONCILE_REQUIRED", phase}
    BY Zenon DEF PhaseAfterFailure
  <2>. QED BY <1>4, <2>1, <2>2 DEF Entrusted
<1>. QED BY <1>1, <1>2, <1>3, <1>4

\* A run that has not begun expects nothing else after a record.
LEMMA ExpectsFlat ==
  ASSUME VenueInv, Writing, phase = "BOOT_NEW_RUN"
  PROVE  Expects(Head(todo)) = Flat
<1>. DEFINE e == Head(todo)
<1>1. seen = Flat /\ mem.expected = Flat /\ ~MayTrade /\ ~UncertainOK
  BY DEF VenueInv, NewRunOK, MayTrade, UncertainOK
<1>2. e \in Quiet \/ FirstOK(e)
  BY <1>1, NextRecord DEF VenueInv
<1>. HIDE DEF e
<1>3. CASE e \in {"NOTE", "ACK", "HANDLED"}
  BY <1>1, <1>3, ExpectsValues DEF e
<1>4. CASE e \in {"INCIDENT", "KILL", "ALERT", "HALTED"}
  BY <1>1, <1>4, ExpectsValues DEF e
<1>5. CASE FirstOK(e)
  <2>1. CASE e = "RUN_STARTED"
    BY <1>1, <2>1, ExpectsValues DEF e
  <2>2. CASE e = "CONFIRMED" /\ seen = doing.planned
    BY <1>1, <2>2, ExpectsValues DEF e
  <2>3. CASE e = "REJECTED" /\ seen = doing.before
    BY <1>1, <2>3, ExpectsValues DEF e
  <2>4. CASE e = "MATCHED" /\ Explained(doing)
    <3>1. Expects("MATCHED") = seen
      BY <2>4, ExpectsValues DEF Explained
    <3>. QED BY <1>1, <2>4, <3>1 DEF e
  <2>5. CASE e = "MISMATCH" /\ doing = NoIntent
    BY <1>1, <2>5, ExpectsValues DEF e
  <2>. QED BY <1>5, <2>1, <2>2, <2>3, <2>4, <2>5 DEF FirstOK
<1>. QED BY <1>2, <1>3, <1>4, <1>5 DEF Quiet, e

\* A record that is written.
LEMMA AppendKnows ==
  ASSUME VenueInv, AppendRecord
  PROVE  VenueInv'
<1>. DEFINE e == Head(todo)
<1>1. /\ Writing /\ ~behind /\ todo # <<>>
      /\ journal' = Log(mem, e) /\ mem' = journal' /\ phase' = PhaseAfter(e)
      /\ todo' = Tail(todo) /\ doing' = IF todo' = <<>> THEN NoIntent ELSE doing
      /\ UNCHANGED <<behind, venue, seen, today, sent>>
  BY DEF AppendRecord, Continue, Writing
<1>2. /\ Log(mem, e).begun = TRUE /\ Log(mem, e).expected = Expects(e)
      /\ Log(mem, e).halted = (mem.halted \/ e = "HALTED")
      /\ e \notin {"PREPARED", "CONFIRMED", "REJECTED", "MATCHED", "MISMATCH"} => Log(mem, e).open = mem.open
  BY LogFields
<1>3. TradingKnowsTheVenue'
  <2>. SUFFICES ASSUME phase' \in Entrusted, ~journal'.halted, seen' = venue'
               PROVE  Known(journal', venue')
    BY DEF TradingKnowsTheVenue, Entrusted, Known, Leads
  <2>1. ~mem.halted /\ seen = venue
    BY <1>1, <1>2
  <2>2. phase \in Entrusted \/ e \in {"RUN_STARTED", "CONFIRMED", "ACK", "MATCHED", "HANDLED"}
    BY <1>1, EntrustedPhases
  <2>3. Known(Log(mem, e), venue)
    BY <1>1, <2>1, <2>2, LogKnown
  <2>. QED BY <1>1, <2>3
<1>4. NewRunOK'
  <2>1. ASSUME phase' = "BOOT_NEW_RUN" PROVE seen' = Flat /\ mem'.expected = Flat
    <3>1. phase = "BOOT_NEW_RUN"
      BY <1>1, <2>1, EntrustedPhases
    <3>2. Expects(e) = Flat /\ seen = Flat
      BY <1>1, <3>1, ExpectsFlat DEF VenueInv, NewRunOK
    <3>. QED BY <1>1, <1>2, <3>2
  <2>. QED BY <1>1, <1>2, <2>1 DEF NewRunOK
<1>5. RecordsOK'
  <2>1. CASE /\ e \in {"KILL", "PREPARED", "STARTED"} /\ MayTrade /\ doing.before = seen
             /\ Tail(todo) \in Early \cup Late /\ Tail(todo) # <<>>
    <3>1. phase' = phase /\ doing' = doing
      BY <1>1, <2>1, EntrustedPhases
    <3>. QED BY <1>1, <2>1, <3>1 DEF RecordsOK, MayTrade
  <2>2. CASE Tail(todo) \in Seq(Quiet)
    BY <1>1, <2>2 DEF RecordsOK
  <2>3. CASE e \in Quiet \cup Uncertain /\ Tail(todo) \in Seq(Quiet \cup Uncertain) /\ UncertainOK
    <3>1. CASE todo' = <<>>
      BY <3>1, QuietScripts DEF RecordsOK
    <3>2. CASE todo' # <<>>
      <4>1. doing' = doing /\ mem'.open = mem.open
        BY <1>1, <1>2, <2>3, <3>2 DEF Quiet, Uncertain
      <4>2. phase' # "BOOT_NEW_RUN"
        BY <1>1, <2>3, EntrustedPhases DEF UncertainOK
      <4>3. UncertainOK'
        BY <1>1, <2>3, <4>1, <4>2 DEF UncertainOK, Leads
      <4>. QED BY <1>1, <2>3, <4>3 DEF RecordsOK
    <3>. QED BY <3>1, <3>2
  <2>. QED BY <1>1, <2>1, <2>2, <2>3, NextRecord DEF VenueInv
<1>. QED BY <1>3, <1>4, <1>5, AppendKeeps DEF VenueInv

\* A write that fails, whether or not its line is in the file.
LEMMA AppendFailKnows ==
  ASSUME VenueInv, AppendFails
  PROVE  VenueInv'
<1>. DEFINE e == Head(todo)
<1>1. /\ Writing /\ phase' = PhaseAfterFailure(e) /\ UNCHANGED <<mem, venue, seen, today, sent>>
      /\ todo' \in {<<>>, <<"ALERT", "HALTED">>}
      /\ \/ UNCHANGED <<journal, behind>>
         \/ ~behind /\ journal' = Log(mem, e)
  BY DEF AppendFails, Raise, Continue
<1>2. Log(mem, e).begun = TRUE /\ Log(mem, e).halted = (mem.halted \/ e = "HALTED")
  BY LogFields
<1>3. TradingKnowsTheVenue'
  <2>. SUFFICES ASSUME phase' \in Entrusted, ~journal'.halted, seen' = venue'
               PROVE  Known(journal', venue')
    BY DEF TradingKnowsTheVenue, Entrusted, Known, Leads
  <2>1. phase \in Entrusted /\ seen = venue
    BY <1>1, EntrustedPhases
  <2>2. CASE UNCHANGED journal
    <3>1. Known(journal, venue)
      BY <2>1, <2>2 DEF VenueInv, TradingKnowsTheVenue, Entrusted, Known, Leads
    <3>. QED BY <1>1, <2>2, <3>1 DEF Known
  <2>3. CASE ~behind /\ journal' = Log(mem, e)
    <3>1. Known(Log(mem, e), venue)
      BY <1>1, <1>2, <2>1, <2>3, LogKnown
    <3>. QED BY <1>1, <2>3, <3>1
  <2>. QED BY <1>1, <2>2, <2>3
<1>4. NewRunOK'
  <2>1. phase' = "BOOT_NEW_RUN" => seen' = Flat /\ mem'.expected = Flat
    BY <1>1, EntrustedPhases DEF VenueInv, NewRunOK
  <2>2. ~journal'.begun => journal'.expected = Flat /\ journal'.open = {} /\ venue' = Flat
    BY <1>1, <1>2 DEF VenueInv, NewRunOK
  <2>. QED BY <2>1, <2>2 DEF NewRunOK
<1>5. RecordsOK'
  BY <1>1, QuietScripts DEF RecordsOK
<1>. QED BY <1>3, <1>4, <1>5, AppendFailKeeps DEF VenueInv

\* What an operation that begins has to see to.
LEMMA BeginsKnow ==
  ASSUME VenueInv, UNCHANGED Base, phase' \in {phase, "HALTED", "RECONCILE_REQUIRED"},
         RecordsOK', IInv'
  PROVE  VenueInv'
<1>1. TradingKnowsTheVenue'
  BY DEF VenueInv, TradingKnowsTheVenue, Base
<1>2. NewRunOK'
  BY DEF VenueInv, NewRunOK, Base
<1>. QED BY <1>1, <1>2 DEF VenueInv

\* A reconciliation of either kind: a match is recorded when the position is
\* explained (_reconcile).
LEMMA ReconcileKnows ==
  ASSUME NEW restart, Reconcile(restart), UNCHANGED phase,
         phase \in {"BOOT_RECONCILE_REQUIRED", "RECONCILE_REQUIRED"}
  PROVE  RecordsOK'
<1>. DEFINE source == IF mem.open = {} THEN NoIntent ELSE CHOOSE i \in mem.open : TRUE
<1>1. CASE todo' = Mismatch
  <2>1. todo' # <<>> /\ Head(todo') = "MISMATCH" /\ Tail(todo') \in Seq(Quiet)
    BY <1>1, LedParts, LedStarts DEF Mismatch
  <2>. QED BY <2>1 DEF RecordsOK, FirstOK
<1>2. CASE /\ todo' = Matched(source, restart) /\ doing' = source /\ Explained(source)
           /\ UNCHANGED <<mem, seen>>
  <2>1. LedBy("MATCHED", Matched(source, restart))
    BY ReconcileScripts
  <2>. HIDE DEF source
  <2>2. todo' # <<>> /\ Head(todo') = "MATCHED" /\ Tail(todo') \in Seq(Quiet)
    BY <1>2, <2>1, LedParts
  <2>3. Explained(doing)'
    BY <1>2 DEF Explained
  <2>. QED BY <2>2, <2>3 DEF RecordsOK, FirstOK
<1>. QED BY <1>1, <1>2 DEF Reconcile, Begin

\* The operations that prepare no intent.
LEMMA PlainKnow ==
  ASSUME VenueInv,
         BootReconcile \/ ReconcileAfterUncertain \/ AcknowledgeRestart \/ DecisionRefused
         \/ Note \/ Incident
  PROVE  VenueInv'
<1>1. IInv'
  BY BeginsKeep DEF VenueInv
<1>2. UNCHANGED Base /\ phase' \in {phase, "HALTED", "RECONCILE_REQUIRED"}
  BY DEF BootReconcile, ReconcileAfterUncertain, AcknowledgeRestart, DecisionRefused, Note,
     Incident, Reconcile, Begin, Base
<1>3. RecordsOK'
  <2>1. CASE BootReconcile
    <3>1. CASE phase = "BOOT_NEW_RUN" /\ Begin(<<"RUN_STARTED">>, NoIntent)
      <4>1. todo' # <<>> /\ Head(todo') = "RUN_STARTED" /\ Tail(todo') \in Seq(Quiet)
        BY <3>1, LedParts, LedStarts DEF Begin
      <4>2. phase' = "BOOT_NEW_RUN"
        BY <2>1, <3>1 DEF BootReconcile
      <4>. QED BY <4>1, <4>2 DEF RecordsOK, FirstOK
    <3>. QED BY <2>1, <3>1, ReconcileKnows DEF BootReconcile
  <2>2. CASE ReconcileAfterUncertain
    BY <2>2, ReconcileKnows DEF ReconcileAfterUncertain
  <2>3. CASE AcknowledgeRestart \/ Note \/ Incident
    <3>1. todo' \in {<<"ACK">>, <<"NOTE">>, <<"INCIDENT">>}
      BY <2>3 DEF AcknowledgeRestart, Note, Incident, Begin
    <3>. QED BY <3>1, QuietScripts DEF RecordsOK
  <2>4. CASE DecisionRefused
    <3>1. todo' \in {<<>>, Mismatch} /\ doing' = NoIntent
      BY <2>4 DEF DecisionRefused, Begin
    <3>2. CASE todo' = Mismatch
      <4>1. todo' # <<>> /\ Head(todo') = "MISMATCH" /\ Tail(todo') \in Seq(Quiet)
        BY <3>2, LedParts, LedStarts DEF Mismatch
      <4>. QED BY <3>1, <4>1 DEF RecordsOK, FirstOK
    <3>. QED BY <3>1, <3>2, QuietScripts DEF RecordsOK
  <2>. QED BY <2>1, <2>2, <2>3, <2>4
<1>. QED BY <1>1, <1>2, <1>3, BeginsKnow

\* Decisions and kills: an intent is about the position the engine knows.
LEMMA ExecutionsKnow ==
  ASSUME VenueInv, DecideEntry \/ DecideSettlement \/ \E priced \in BOOLEAN : Kill(priced)
  PROVE  VenueInv'
<1>1. IInv'
  BY DecideKeeps, KillKeeps DEF VenueInv
<1>2. UNCHANGED Base /\ phase' \in {phase, "HALTED", "RECONCILE_REQUIRED"}
  BY DEF DecideEntry, DecideSettlement, Kill, Begin, Base
<1>3. \A fault, lost : EntryIntent(fault).before = seen /\ SettlementIntent(fault, lost).before = seen
  BY DEF EntryIntent, SettlementIntent
<1>4. \/ todo' \in {<<>>, <<"KILL", "HALTED">>, <<"KILL", "ALERT", "HALTED">>}
      \/ /\ todo' \in {Execution, <<"KILL">> \o Execution} /\ UNCHANGED <<phase, seen>> /\ MayTrade
         /\ \E fault, lost : doing' \in {EntryIntent(fault), SettlementIntent(fault, lost)}
  <2>1. CASE DecideEntry \/ DecideSettlement
    BY <2>1 DEF DecideEntry, DecideSettlement, Begin, Processable
  <2>2. CASE \E priced \in BOOLEAN : Kill(priced)
    BY <2>2 DEF Kill, Begin
  <2>. QED BY <2>1, <2>2
<1>5. RecordsOK'
  <2>1. CASE todo' \in {<<>>, <<"KILL", "HALTED">>, <<"KILL", "ALERT", "HALTED">>}
    BY <2>1, QuietScripts DEF RecordsOK
  <2>2. CASE /\ todo' \in {Execution, <<"KILL">> \o Execution} /\ UNCHANGED <<phase, seen>> /\ MayTrade
             /\ \E fault, lost : doing' \in {EntryIntent(fault), SettlementIntent(fault, lost)}
    <3>1. todo' \in Early /\ doing'.before = seen' /\ MayTrade'
      BY <1>3, <2>2, ExecutionIsEarly DEF MayTrade
    <3>. QED BY <3>1 DEF RecordsOK
  <2>. QED BY <1>4, <2>1, <2>2
<1>. QED BY <1>1, <1>2, <1>5, BeginsKnow

\* A new engine, a crash, an expired token and a new day.
LEMMA SurroundingsKnow ==
  ASSUME VenueInv, Boot \/ Crash \/ TokenExpires \/ NextDay
  PROVE  VenueInv'
<1>1. IInv'
  BY BootKeeps, CrashKeeps, TokenKeeps, DayKeeps DEF VenueInv
<1>2. CASE Boot
  <2>1. /\ todo' = <<>> /\ UNCHANGED <<journal, venue>> /\ mem' = journal /\ seen' = venue
        /\ phase' \in {"BOOT_RECONCILE_REQUIRED", "BOOT_NEW_RUN"}
        /\ phase' = "BOOT_NEW_RUN" => ~journal.begun
    BY <1>2 DEF VenueInv, IInv, ScriptOK, Boot
  <2>2. TradingKnowsTheVenue'
    BY <2>1 DEF TradingKnowsTheVenue
  <2>3. NewRunOK'
    BY <2>1 DEF VenueInv, NewRunOK
  <2>. QED BY <1>1, <2>1, <2>2, <2>3, QuietScripts DEF VenueInv, RecordsOK
<1>3. CASE Crash
  <2>1. todo' = <<>> /\ UNCHANGED <<journal, venue>> /\ phase' = "OFF"
    BY <1>3 DEF Crash
  <2>2. TradingKnowsTheVenue' /\ NewRunOK'
    BY <2>1 DEF VenueInv, TradingKnowsTheVenue, NewRunOK
  <2>. QED BY <1>1, <2>1, <2>2, QuietScripts DEF VenueInv, RecordsOK
<1>4. CASE TokenExpires
  <2>1. todo' \in {<<>>, <<"ALERT", "HALTED">>} /\ UNCHANGED Base /\ UNCHANGED phase
    BY <1>4 DEF TokenExpires, Raise, Continue, Base
  <2>2. RecordsOK'
    BY <2>1, QuietScripts DEF RecordsOK
  <2>. QED BY <1>1, <2>1, <2>2, BeginsKnow
<1>5. CASE NextDay
  <2>1. UNCHANGED <<journal, mem, venue, seen, phase, todo, doing>>
    BY <1>5 DEF NextDay
  <2>. QED BY <1>1, <2>1 DEF VenueInv, TradingKnowsTheVenue, NewRunOK, RecordsOK, FirstOK,
          UncertainOK, MayTrade, Explained, Leads
<1>. QED BY <1>2, <1>3, <1>4, <1>5

\* What holds when an intent is executed: the journal names it, and it is about
\* the position the engine knows.
LEMMA ExecutingKnows ==
  ASSUME VenueInv, Executing
  PROVE  /\ MayTrade /\ doing.before = seen /\ doing \in journal.open /\ mem = journal
         /\ doing # NoIntent
<1>1. todo # <<>> /\ Head(todo) = "EXECUTE"
  BY DEF Executing
<1>2. todo \in Early \cup Late /\ MayTrade /\ doing.before = seen
  <2>1. todo \notin Seq(Quiet)
    BY <1>1, QuietScripts
  <2>2. todo \notin Seq(Quiet \cup Uncertain)
    BY <1>1, QuietScripts
  <2>3. ~FirstOK("EXECUTE")
    BY DEF FirstOK
  <2>. QED BY <1>1, <2>1, <2>2, <2>3 DEF VenueInv, RecordsOK
<1>3. todo \in Late
  BY <1>1, <1>2, ExecutionSteps DEF Late
<1>4. ~behind /\ doing \in journal.open /\ phase # "OFF"
  BY <1>2, <1>3 DEF VenueInv, IInv, LateOK, MayTrade
<1>5. mem = journal
  BY <1>4 DEF VenueInv, IInv, TypeOK
<1>6. doing # NoIntent
  <2>1. doing.id \in 1..journal.prepared
    BY <1>4 DEF VenueInv, IInv, JournalOK
  <2>2. NoIntent.id = 0 /\ 0 \notin 1..journal.prepared
    BY FlatTyped
  <2>. QED BY <2>1, <2>2
<1>. QED BY <1>2, <1>4, <1>5, <1>6

\* An execution leads to a position the unresolved intent explains.
LEMMA ExecuteKnows ==
  ASSUME VenueInv, Execute
  PROVE  VenueInv'
<1>1. IInv'
  BY ExecuteKeeps DEF VenueInv
<1>2. MayTrade /\ doing.before = seen /\ doing \in journal.open /\ mem = journal
  BY ExecutingKnows DEF Execute
<1>3. PICK effect \in Effects(doing) :
         /\ effect => venue = seen
         /\ venue' = (IF effect THEN Target(doing) ELSE venue)
         /\ seen' = (IF effect THEN Target(doing) ELSE seen)
  BY DEF Execute
<1>4. /\ UNCHANGED <<journal, mem, phase>> /\ todo' = Outcome(doing)
      /\ doing' = IF todo' = <<>> THEN NoIntent ELSE doing
  BY DEF Execute, Continue
<1>5. Target(doing) \in Leads(doing)
  BY DEF Target, Leads
<1>6. seen' \in Leads(doing)
  BY <1>2, <1>3, <1>5 DEF Leads
<1>7. TradingKnowsTheVenue'
  <2>. SUFFICES ASSUME seen' = venue' PROVE Known(journal', venue')
    BY DEF TradingKnowsTheVenue, Known, Leads
  <2>. QED BY <1>2, <1>4, <1>6 DEF Known
<1>8. NewRunOK'
  BY <1>2, <1>4 DEF VenueInv, NewRunOK, MayTrade
<1>9. RecordsOK'
  <2>1. CASE doing.fault = "none"
    <3>1. todo' # <<>> /\ Head(todo') = "CONFIRMED" /\ Tail(todo') \in Seq(Quiet)
      BY <1>4, <2>1, OutcomeScripts, LedParts
    <3>2. effect = TRUE
      BY <1>3, <2>1 DEF Effects
    <3>3. seen' = doing.planned
      BY <1>3, <2>1, <3>2 DEF Target
    <3>. QED BY <1>4, <3>1, <3>3 DEF RecordsOK, FirstOK
  <2>2. CASE doing.fault = "rejected"
    <3>1. todo' # <<>> /\ Head(todo') = "REJECTED" /\ Tail(todo') \in Seq(Quiet)
      BY <1>4, <2>2, OutcomeScripts, LedParts
    <3>2. effect = FALSE
      BY <1>3, <2>2 DEF Effects
    <3>3. seen' = doing.before
      BY <1>2, <1>3, <3>2
    <3>. QED BY <1>4, <3>1, <3>3 DEF RecordsOK, FirstOK
  <2>3. CASE doing.fault = "crash"
    BY <1>4, <2>3, OutcomeScripts, QuietScripts DEF RecordsOK
  <2>4. CASE doing.fault \notin {"none", "rejected", "crash"}
    <3>1. todo' \in Seq(Quiet \cup Uncertain)
      BY <1>4, <2>4, OutcomeScripts
    <3>2. CASE todo' = <<>>
      BY <3>2, QuietScripts DEF RecordsOK
    <3>3. CASE todo' # <<>>
      <4>1. doing' = doing
        BY <1>4, <3>3
      <4>2. phase' # "BOOT_NEW_RUN" /\ doing' \in mem'.open /\ seen' \in Leads(doing')
        BY <1>2, <1>4, <1>6, <4>1 DEF MayTrade
      <4>3. UncertainOK'
        BY <4>2 DEF UncertainOK, Leads
      <4>. QED BY <3>1, <4>3 DEF RecordsOK
    <3>. QED BY <3>2, <3>3
  <2>. QED BY <2>1, <2>2, <2>3, <2>4
<1>. QED BY <1>1, <1>7, <1>8, <1>9 DEF VenueInv

\* So does a write of the venue that fails.
LEMMA WriteFailKnows ==
  ASSUME VenueInv, WriteFails
  PROVE  VenueInv'
<1>1. IInv'
  BY ExecuteKeeps DEF VenueInv
<1>2. MayTrade /\ doing.before = seen /\ doing \in journal.open /\ mem = journal
  BY ExecutingKnows DEF WriteFails
<1>3. /\ UNCHANGED <<journal, mem, phase, seen>>
      /\ todo' = <<"TORN", "TORN_ALERT">> \o Finish(FALSE)
      /\ doing' = IF todo' = <<>> THEN NoIntent ELSE doing
  BY DEF WriteFails, Continue
<1>4. seen' \in Leads(doing)
  BY <1>2, <1>3 DEF Leads
<1>5. TradingKnowsTheVenue'
  <2>. SUFFICES ASSUME seen' = venue' PROVE Known(journal', venue')
    BY DEF TradingKnowsTheVenue, Known, Leads
  <2>. QED BY <1>2, <1>3, <1>4 DEF Known
<1>6. NewRunOK'
  BY <1>2, <1>3 DEF VenueInv, NewRunOK, MayTrade
<1>7. RecordsOK'
  <2>1. todo' \in Seq(Quiet \cup Uncertain)
    BY <1>3, OutcomeScripts
  <2>2. CASE todo' = <<>>
    BY <2>2, QuietScripts DEF RecordsOK
  <2>3. CASE todo' # <<>>
    <3>1. doing' = doing
      BY <1>3, <2>3
    <3>2. phase' # "BOOT_NEW_RUN" /\ doing' \in mem'.open /\ seen' \in Leads(doing')
      BY <1>2, <1>3, <1>4, <3>1 DEF MayTrade
    <3>3. UncertainOK'
      BY <3>2 DEF UncertainOK, Leads
    <3>. QED BY <2>1, <3>3 DEF RecordsOK
  <2>. QED BY <2>2, <2>3
<1>. QED BY <1>1, <1>5, <1>6, <1>7 DEF VenueInv

\* The invariant holds initially ...
LEMMA InitKnows == Init => VenueInv
<1>. SUFFICES ASSUME Init PROVE VenueInv
  OBVIOUS
<1>1. IInv
  BY InitOK
<1>2. TradingKnowsTheVenue /\ NewRunOK
  BY DEF Init, TradingKnowsTheVenue, NewRunOK, EmptyJournal
<1>3. RecordsOK
  BY QuietScripts DEF Init, RecordsOK
<1>. QED BY <1>1, <1>2, <1>3 DEF VenueInv

\* ... and is kept by every step.
LEMMA StepKnows == VenueInv /\ [Next]_vars => VenueInv'
<1>1. ASSUME VenueInv, UNCHANGED vars PROVE VenueInv'
  <2>1. IInv'
    BY <1>1, StepOK DEF VenueInv
  <2>2. UNCHANGED Base /\ phase' = phase /\ todo' = todo /\ doing' = doing
    BY <1>1 DEF vars, Base
  <2>3. RecordsOK'
    BY <1>1, <2>2 DEF VenueInv, RecordsOK, FirstOK, UncertainOK, MayTrade, Explained, Leads, Base
  <2>. QED BY <1>1, <2>1, <2>2, <2>3, BeginsKnow
<1>2. ASSUME VenueInv, Next PROVE VenueInv'
  BY <1>2, AppendKnows, AppendFailKnows, PlainKnow, ExecutionsKnow, SurroundingsKnow,
     ExecuteKnows, WriteFailKnows DEF Next
<1>. QED BY <1>1, <1>2

\* Whoever may trade, or is about to be allowed to, knows what is open: through
\* crashes, failing disks and faults of the execution, the journal explains the
\* position that the engine and the venue file agree on (_reconcile,
\* _assert_processable_state).
THEOREM TradersKnowTheVenue == Spec => []TradingKnowsTheVenue
<1>1. VenueInv => TradingKnowsTheVenue
  BY DEF VenueInv
<1>. QED BY <1>1, InitKnows, StepKnows, PTL DEF Spec

(***************************************************************************)
(* The limits count what really happened.                                  *)
(***************************************************************************)

\* The intent was executed with effect.
Took(intent) == \E k \in DOMAIN sent : sent[k].effect /\ sent[k].trade.id = intent.id

\* What the venue file shows after an effect, until the next one.
Shows(trade) == IF trade.act = "entry" THEN venue.ref = trade.id ELSE venue = Flat

\* An entry opens a new position, a settlement closes one.
IntentOK(intent) ==
    /\ intent.act = "entry" => intent.before = Flat /\ intent.planned.ref = intent.id
    /\ intent.act # "entry" => intent.before # Flat /\ intent.planned = Flat

\* The unresolved intent is the latest, and its effect is in the file.
OpenOK ==
    /\ ~journal.begun => journal = EmptyJournal
    /\ \A i \in journal.open :
          /\ IntentOK(i) /\ i.id = journal.prepared
          /\ \A k \in DOMAIN sent : sent[k].trade.id = i.id => sent[k].trade = AsTrade(i)
          /\ Took(i) => Shows(i)

\* Executions and what is told of them are in the order of the intents.
OrderOK ==
    /\ \A k, n \in DOMAIN sent : k < n => sent[k].trade.id < sent[n].trade.id
    /\ \A k, n \in DOMAIN journal.booked : k < n => journal.booked[k].id < journal.booked[n].id
    /\ \A n \in DOMAIN journal.booked :
          /\ journal.booked[n].id \in 1..journal.prepared
          /\ \A i \in journal.open : journal.booked[n].id # i.id
          /\ \A k \in DOMAIN sent :
                sent[k].trade.id = journal.booked[n].id => sent[k].trade = journal.booked[n]

\* An effect is told by the journal or its intent is unresolved; or it is in the
\* file only, where the journal does not explain it; or a settlement was told
\* in place of it.
Booked(k) == \E n \in DOMAIN journal.booked : journal.booked[n] = sent[k].trade
Pending(k) == \E i \in journal.open : i.id = sent[k].trade.id
Missed(k) ==
    /\ venue # journal.expected
    /\ \A i \in journal.open : venue # i.before
    /\ Shows(sent[k].trade)
    /\ sent[k].trade.act # "entry" => \A i \in journal.open : ~Took(i)
Replaced(k) == sent[k].trade.act # "entry" /\ Retold

ToldOK ==
    \A k \in DOMAIN sent : sent[k].effect => Booked(k) \/ Pending(k) \/ Missed(k) \/ Replaced(k)

\* An engine that may trade is not halted and knows whether its own intent took
\* effect; what an engine sees is the file, unless its own write tore.
EngineOK ==
    /\ phase \in Entrusted \cup {"BOOT_NEW_RUN"} => ~mem.halted
    /\ phase = "BOOT_NEW_RUN" => mem.open = {}
    /\ phase \in Entrusted => \A i \in mem.open : seen = i.before \/ Took(i)
    /\ phase # "OFF" => \A i \in mem.open : i # NoIntent /\ seen \in {i.before, venue}

\* Records that say nothing of positions and intents, and those that follow
\* one that resolves an intent.
Ends == {"ALERT", "HALTED"}
Silent == Ends \cup {"RUN_STARTED", "INCIDENT", "KILL"}
Closing == Ends \cup {"HANDLED"}

\* What the records that resolve an intent say of it is true.
MatchOK ==
    /\ Explained(doing)
    /\ IF doing = NoIntent THEN mem.open = {} ELSE doing \in mem.open
ResolveOK(event) ==
    \/ event = "CONFIRMED" /\ phase \in Entrusted /\ doing \in mem.open /\ Took(doing)
    \/ event = "REJECTED" /\ doing \in mem.open /\ ~Took(doing)
    \/ /\ event = "MISMATCH"
       /\ doing # NoIntent => doing \in mem.open /\ seen \notin {doing.before, doing.planned}

TellsOK ==
    \/ todo \in Early \cup Late /\ MayTrade /\ doing.before = seen /\ IntentOK(doing)
    \/ todo \in Seq(Silent)
    \/ todo \in {<<"NOTE">>, <<"ACK">>} /\ phase \in Entrusted
    \/ todo \in Seq(Uncertain \cup Ends) /\ doing \in mem.open
    \/ todo \in Seq(Closing) /\ mem.expected = seen /\ mem.open = {}
    \/ todo # <<>> /\ Tail(todo) \in Seq(Closing) /\ Head(todo) = "MATCHED" /\ MatchOK
    \/ todo # <<>> /\ Tail(todo) \in Seq(Ends) /\ ResolveOK(Head(todo))

\* An entry that was decided is within the limits as the journal counts them.
LimitsOK ==
    todo \in Early \cup Late /\ doing.act = "entry" =>
        /\ EntriesOn(mem.booked, doing.day) < MaxEntriesPerDay
        /\ Streak(mem.booked) < MaxConsecutiveLosses

LimitInv == VenueInv /\ OpenOK /\ OrderOK /\ ToldOK /\ EngineOK /\ TellsOK /\ LimitsOK

(* Counting *)

\* What the records of trades and executions are.
LEMMA TradesTyped ==
  ASSUME VenueInv
  PROVE  /\ journal \in Journal /\ journal.open \subseteq Intent /\ journal.booked \in Seq(Trade)
         /\ journal.prepared \in Nat
         /\ DOMAIN journal.booked = 1..Len(journal.booked) /\ Len(journal.booked) \in Nat
         /\ \A n \in DOMAIN journal.booked : journal.booked[n] \in Trade /\ journal.booked[n].id \in Nat
         /\ DOMAIN sent = 1..Len(sent) /\ Len(sent) \in Nat
         /\ \A k \in DOMAIN sent : sent[k].trade \in Trade /\ sent[k].trade.id \in Nat
         /\ \A i \in journal.open : i.id \in Nat
<1>1. /\ journal \in Journal /\ sent \in Seq([trade : Trade, effect : BOOLEAN, killed : BOOLEAN])
      /\ MaxIntents \in Nat
  BY E1Assumption DEF VenueInv, IInv, TypeOK
<1>2. /\ journal.open \subseteq Intent /\ journal.booked \in Seq(Trade) /\ journal.prepared \in 0..MaxIntents
  BY <1>1 DEF Journal
<1>3. \A t \in Trade : t.id \in Nat
  BY <1>1 DEF Trade
<1>4. \A i \in Intent : i.id \in Nat
  BY <1>1 DEF Intent
<1>5. /\ DOMAIN journal.booked = 1..Len(journal.booked) /\ Len(journal.booked) \in Nat
      /\ \A n \in DOMAIN journal.booked : journal.booked[n] \in Trade
  BY <1>2
<1>6. /\ DOMAIN sent = 1..Len(sent) /\ Len(sent) \in Nat
      /\ \A k \in DOMAIN sent : sent[k].trade \in Trade
  <2>. DEFINE Sending == [trade : Trade, effect : BOOLEAN, killed : BOOLEAN]
  <2>1. \A x \in Sending : x.trade \in Trade
    OBVIOUS
  <2>2. sent \in Seq(Sending)
    BY <1>1
  <2>. HIDE DEF Sending
  <2>3. /\ DOMAIN sent = 1..Len(sent) /\ Len(sent) \in Nat
        /\ \A k \in DOMAIN sent : sent[k] \in Sending
    BY <2>2
  <2>. QED BY <2>1, <2>3
<1>7. journal.prepared \in Nat
  BY <1>1, <1>2
<1>8. /\ \A n \in DOMAIN journal.booked : journal.booked[n].id \in Nat
      /\ \A k \in DOMAIN sent : sent[k].trade.id \in Nat
  BY <1>3, <1>5, <1>6
<1>9. \A i \in journal.open : i.id \in Nat
  BY <1>2, <1>4
<1>. QED BY <1>1, <1>2, <1>5, <1>6, <1>7, <1>8, <1>9

\* The effective executions are no more than what is told of them.
LEMMA NotMore ==
  ASSUME VenueInv, NEW S, NEW T, S \subseteq DOMAIN sent, T \subseteq DOMAIN journal.booked,
         \A k, n \in DOMAIN sent : k < n => sent[k].trade.id < sent[n].trade.id,
         \A k \in S : \E n \in T : journal.booked[n] = sent[k].trade
  PROVE  Cardinality(S) <= Cardinality(T) /\ Cardinality(S) \in Nat /\ Cardinality(T) \in Nat
<1>. DEFINE f == [k \in S |-> CHOOSE n \in T : journal.booked[n] = sent[k].trade]
<1>1. \A k \in S : f[k] \in T /\ journal.booked[f[k]] = sent[k].trade
  OBVIOUS
<1>2. IsFiniteSet(T)
  <2>. HIDE DEF f
  <2>1. T \in SUBSET (1..Len(journal.booked)) /\ Len(journal.booked) \in Int
    BY TradesTyped
  <2>2. IsFiniteSet(1..Len(journal.booked))
    BY <2>1, FS_Interval
  <2>. QED BY <2>1, <2>2, FS_Subset, Zenon
<1>3. \A k, n \in S : f[k] = f[n] => k = n
  <2>1. SUFFICES ASSUME NEW k \in S, NEW n \in S, sent[k].trade = sent[n].trade PROVE k = n
    BY <1>1
  <2>. QED BY <2>1, TradesTyped
<1>4. f \in Injection(S, T)
  BY <1>1, <1>3 DEF Injection, IsInjective
<1>. HIDE DEF f
<1>. QED BY <1>2, <1>4, FS_Injection, FS_CardinalityType

\* The daily cap: when every entry is told.
LEMMA EntriesNotMore ==
  ASSUME VenueInv, OrderOK, NEW day,
         \A k \in DOMAIN sent : sent[k].effect /\ sent[k].trade.act = "entry" => Booked(k)
  PROVE  /\ EntriesOn(Real, day) <= EntriesOn(journal.booked, day)
         /\ EntriesOn(Real, day) \in Nat /\ EntriesOn(journal.booked, day) \in Nat
<1>. DEFINE S == {k \in DOMAIN Real : Real[k].act = "entry" /\ Real[k].day = day}
            T == {n \in DOMAIN journal.booked : journal.booked[n].act = "entry" /\ journal.booked[n].day = day}
<1>1. \A k \in S : k \in DOMAIN sent /\ sent[k].effect /\ sent[k].trade.act = "entry" /\ sent[k].trade.day = day
  BY DEF Real
<1>2. \A k \in S : \E n \in T : journal.booked[n] = sent[k].trade
  BY <1>1 DEF Booked
<1>3. S \subseteq DOMAIN sent /\ T \subseteq DOMAIN journal.booked
  BY <1>1
<1>4. EntriesOn(Real, day) = Cardinality(S) /\ EntriesOn(journal.booked, day) = Cardinality(T)
  BY DEF EntriesOn
<1>. HIDE DEF S, T
<1>. QED BY <1>2, <1>3, <1>4, NotMore DEF OrderOK

\* The losing streak: when every effect is told and nothing else is.
LEMMA StreakNotMore ==
  ASSUME VenueInv, OrderOK, ~Retold, \A k \in DOMAIN sent : sent[k].effect => Booked(k)
  PROVE  /\ Streak(Real) <= Streak(journal.booked)
         /\ Streak(Real) \in Nat /\ Streak(journal.booked) \in Nat
<1>. DEFINE S == {k \in DOMAIN Real :
                    /\ Real[k].act = "settlement"
                    /\ \A n \in DOMAIN Real : n >= k /\ Real[n].act = "settlement" => Real[n].lost}
            T == {k \in DOMAIN journal.booked :
                    /\ journal.booked[k].act = "settlement"
                    /\ \A n \in DOMAIN journal.booked :
                          n >= k /\ journal.booked[n].act = "settlement" => journal.booked[n].lost}
<1>1. /\ DOMAIN Real \subseteq DOMAIN sent
      /\ \A k \in DOMAIN Real : Real[k] = sent[k].trade /\ sent[k].effect
      /\ \A k \in DOMAIN sent : sent[k].effect => k \in DOMAIN Real
  BY DEF Real
<1>2. ASSUME NEW k \in S PROVE \E n \in T : journal.booked[n] = sent[k].trade
  <2>1. PICK n \in DOMAIN journal.booked : journal.booked[n] = sent[k].trade
    BY <1>1, <1>2 DEF Booked
  <2>2. journal.booked[n].act = "settlement"
    BY <1>1, <1>2, <2>1
  <2>3. ASSUME NEW m \in DOMAIN journal.booked, m >= n, journal.booked[m].act = "settlement"
        PROVE  journal.booked[m].lost
    <3>1. PICK l \in DOMAIN sent : sent[l].effect /\ sent[l].trade.id = journal.booked[m].id
      BY DEF Retold
    <3>2. sent[l].trade = journal.booked[m]
      BY <3>1 DEF OrderOK
    <3>3. l >= k
      <4>1. journal.booked[n].id <= journal.booked[m].id
        <5>1. n < m => journal.booked[n].id < journal.booked[m].id
          BY <2>3 DEF OrderOK
        <5>2. n \in Nat /\ m \in Nat /\ journal.booked[n].id \in Nat /\ journal.booked[m].id \in Nat
          BY TradesTyped
        <5>3. n < m \/ n = m
          BY <2>3, <5>2
        <5>. QED BY <5>1, <5>2, <5>3
      <4>2. sent[k].trade.id <= sent[l].trade.id
        BY <2>1, <3>1, <4>1
      <4>3. ~(l < k)
        <5>1. k \in DOMAIN sent /\ l \in DOMAIN sent
          BY <1>1, <1>2, <3>1
        <5>2. sent[k].trade.id \in Nat /\ sent[l].trade.id \in Nat
          BY <5>1, TradesTyped
        <5>. QED BY <4>2, <5>1, <5>2 DEF OrderOK
      <4>4. k \in Nat /\ l \in Nat
        BY <1>1, <1>2, TradesTyped
      <4>. QED BY <4>3, <4>4
    <3>4. l \in DOMAIN Real /\ Real[l].act = "settlement"
      BY <1>1, <2>3, <3>1, <3>2
    <3>5. Real[l].lost
      BY <1>2, <3>3, <3>4
    <3>. QED BY <1>1, <3>2, <3>4, <3>5
  <2>4. n \in T
    BY <2>2, <2>3
  <2>. QED BY <2>1, <2>4
<1>3. S \subseteq DOMAIN sent /\ T \subseteq DOMAIN journal.booked
  BY <1>1
<1>4. Streak(Real) = Cardinality(S) /\ Streak(journal.booked) = Cardinality(T)
  BY DEF Streak
<1>. HIDE DEF S, T
<1>. QED BY <1>2, <1>3, <1>4, NotMore DEF OrderOK

(* Records *)

\* The next record of a script, and what holds when it is written.
NextTold(e, rest) ==
    \/ /\ e \in {"KILL", "PREPARED", "STARTED"} /\ MayTrade /\ doing.before = seen /\ IntentOK(doing)
       /\ todo \in Early \cup Late /\ rest \in Early \cup Late /\ rest # <<>>
    \/ e \in Silent /\ rest \in Seq(Silent)
    \/ e \in {"NOTE", "ACK"} /\ rest = <<>> /\ phase \in Entrusted
    \/ e \in Uncertain \cup Ends /\ rest \in Seq(Uncertain \cup Ends) /\ doing \in mem.open
    \/ e \in Closing /\ rest \in Seq(Closing) /\ mem.expected = seen /\ mem.open = {}
    \/ e = "MATCHED" /\ rest \in Seq(Closing) /\ MatchOK
    \/ ResolveOK(e) /\ rest \in Seq(Ends)

LEMMA NextIsTold ==
  ASSUME TellsOK, Writing
  PROVE  NextTold(Head(todo), Tail(todo))
<1>1. todo # <<>> /\ Head(todo) # "EXECUTE"
  BY DEF Writing
<1>2. CASE todo \in Early \cup Late /\ MayTrade /\ doing.before = seen /\ IntentOK(doing)
  <2>1. /\ <<"PREPARED", "STARTED", "EXECUTE">> \in Early \cup Late
        /\ <<"STARTED", "EXECUTE">> \in Early \cup Late /\ <<"EXECUTE">> \in Early \cup Late
    BY DEF Early, Late
  <2>2. Head(todo) \in {"KILL", "PREPARED", "STARTED"}
    BY <1>1, <1>2, ExecutionSteps
  <2>3. Tail(todo) \in {<<"PREPARED", "STARTED", "EXECUTE">>, <<"STARTED", "EXECUTE">>, <<"EXECUTE">>}
    BY <1>2, <2>2, ExecutionSteps
  <2>4. Tail(todo) \in Early \cup Late
    BY <2>1, <2>3, Zenon
  <2>5. Tail(todo) # <<>>
    BY <2>4, ExecutionSteps
  <2>. QED BY <1>2, <2>2, <2>4, <2>5 DEF NextTold
<1>3. CASE todo \in Seq(Silent)
  <2>1. Head(todo) \in Silent /\ Tail(todo) \in Seq(Silent)
    BY <1>1, <1>3
  <2>. QED BY <2>1 DEF NextTold
<1>4. CASE todo \in {<<"NOTE">>, <<"ACK">>} /\ phase \in Entrusted
  <2>1. ASSUME NEW e, todo = <<e>> PROVE Head(todo) = e /\ Tail(todo) = <<>>
    <3>1. todo \in Seq({e}) /\ Len(todo) = 1
      BY <2>1
    <3>2. Tail(todo) \in Seq({e}) /\ Len(Tail(todo)) = 0
      BY <3>1
    <3>. QED BY <2>1, <3>2
  <2>2. Head(todo) \in {"NOTE", "ACK"} /\ Tail(todo) = <<>>
    BY <1>4, <2>1
  <2>. QED BY <1>4, <2>2 DEF NextTold
<1>5. CASE todo \in Seq(Uncertain \cup Ends) /\ doing \in mem.open
  <2>1. Head(todo) \in Uncertain \cup Ends /\ Tail(todo) \in Seq(Uncertain \cup Ends)
    BY <1>1, <1>5
  <2>. QED BY <1>5, <2>1 DEF NextTold
<1>6. CASE todo \in Seq(Closing) /\ mem.expected = seen /\ mem.open = {}
  <2>1. Head(todo) \in Closing /\ Tail(todo) \in Seq(Closing)
    BY <1>1, <1>6
  <2>. QED BY <1>6, <2>1 DEF NextTold
<1>7. CASE Tail(todo) \in Seq(Closing) /\ Head(todo) = "MATCHED" /\ MatchOK
  BY <1>7 DEF NextTold
<1>8. CASE Tail(todo) \in Seq(Ends) /\ ResolveOK(Head(todo))
  BY <1>8 DEF NextTold
<1>. QED BY <1>2, <1>3, <1>4, <1>5, <1>6, <1>7, <1>8 DEF TellsOK

\* The engine knows the file and no intent in it is that of no intent.
LEMMA EngineKnows ==
  ASSUME VenueInv, phase # "OFF", ~behind
  PROVE  /\ mem = journal /\ \A i, j \in journal.open : i = j
         /\ \A i \in journal.open : i # NoIntent
<1>1. mem = journal
  BY DEF VenueInv, IInv, TypeOK
<1>2. \A i \in journal.open : i.id \in 1..journal.prepared
  BY DEF VenueInv, IInv, JournalOK
<1>3. NoIntent.id = 0 /\ 0 \notin 1..journal.prepared
  BY FlatTyped
<1>4. \A i \in journal.open : i # NoIntent
  BY <1>2, <1>3
<1>. QED BY <1>1, <1>4 DEF VenueInv, IInv, JournalOK

\* An intent that is prepared is the first one unresolved and the latest.
LEMMA PreparedIsLatest ==
  ASSUME VenueInv, Writing, ~behind, Head(todo) = "PREPARED", todo \in Early \cup Late
  PROVE  /\ journal.open = {} /\ doing.id = journal.prepared + 1
         /\ \A k \in DOMAIN sent : sent[k].trade.id # doing.id
         /\ ~Took(doing)
<1>1. todo = <<"PREPARED", "STARTED", "EXECUTE">>
  BY ExecutionSteps
<1>2. todo \in Early
  BY <1>1 DEF Early
<1>3. mem.open = {} /\ doing.id = mem.prepared + 1
  BY <1>2 DEF VenueInv, IInv, EarlyOK
<1>4. mem = journal
  BY EngineKnows DEF Writing
<1>5. \A k \in DOMAIN sent : sent[k].trade.id \in 1..journal.prepared
  BY DEF VenueInv, IInv, JournalOK
<1>6. journal.prepared \in Nat
  BY TradesTyped
<1>. QED BY <1>3, <1>4, <1>5, <1>6 DEF Took

\* A record that tells of an effect resolves the intent.
LEMMA TellingResolves ==
  ASSUME VenueInv, TellsOK, Writing, ~behind, TellsEffect(Head(todo))
  PROVE  /\ Head(todo) \in {"CONFIRMED", "MATCHED"} /\ doing \in journal.open
         /\ Head(todo) = "CONFIRMED" => Took(doing)
         /\ Head(todo) = "MATCHED" => seen # doing.before /\ seen = doing.planned
<1>1. NextTold(Head(todo), Tail(todo))
  BY NextIsTold
<1>2. mem = journal
  BY EngineKnows DEF Writing
<1>3. CASE Head(todo) = "CONFIRMED"
  BY <1>1, <1>2, <1>3 DEF NextTold, ResolveOK, Silent, Closing, Ends, Uncertain
<1>4. CASE Head(todo) = "MATCHED" /\ doing # NoIntent /\ seen # doing.before
  <2>1. MatchOK
    BY <1>1, <1>4 DEF NextTold, ResolveOK, Silent, Closing, Ends, Uncertain
  <2>. QED BY <1>2, <1>4, <2>1 DEF MatchOK, Explained
<1>. QED BY <1>3, <1>4 DEF TellsEffect

\* The file with one more record in it, the venue and the executions unchanged.
Logged ==
    /\ Writing /\ ~behind
    /\ journal' = Log(mem, Head(todo)) /\ UNCHANGED <<venue, sent>>

\* What a record adds to the unresolved intents.
LEMMA LoggedOpen ==
  ASSUME VenueInv, TellsOK, Logged, NEW i \in journal'.open
  PROVE  \/ i \in journal.open /\ Head(todo) # "PREPARED"
         \/ /\ i = doing /\ Head(todo) = "PREPARED" /\ journal.open = {} /\ IntentOK(doing)
            /\ doing.id = journal.prepared + 1 /\ ~Took(doing)
            /\ \A k \in DOMAIN sent : sent[k].trade.id # doing.id
<1>1. mem = journal
  BY EngineKnows DEF Logged, Writing
<1>2. CASE Head(todo) = "PREPARED"
  <2>1. todo \in Early \cup Late /\ IntentOK(doing)
    BY <1>2, NextIsTold DEF Logged, NextTold, ResolveOK, Silent, Closing, Ends, Uncertain
  <2>2. journal'.open = mem.open \cup {doing}
    BY <1>2, LogFields DEF Logged
  <2>. QED BY <1>1, <1>2, <2>1, <2>2, PreparedIsLatest DEF Logged
<1>3. CASE Head(todo) # "PREPARED"
  BY <1>1, <1>3, LogFields DEF Logged
<1>. QED BY <1>2, <1>3

\* The unresolved intent stays the latest.
LEMMA LoggedOpenOK ==
  ASSUME LimitInv, Logged
  PROVE  OpenOK'
<1>1. journal'.begun = TRUE
  BY LogFields DEF Logged
<1>2. ASSUME NEW i \in journal'.open
      PROVE  /\ IntentOK(i)' /\ i.id = journal'.prepared
             /\ \A k \in DOMAIN sent' : sent'[k].trade.id = i.id => sent'[k].trade = AsTrade(i)
             /\ Took(i)' => Shows(i)'
  <2>1. mem = journal
    BY EngineKnows DEF LimitInv, Logged, Writing
  <2>2. CASE i \in journal.open /\ Head(todo) # "PREPARED"
    <3>1. journal'.prepared = journal.prepared
      <4>1. journal'.prepared = mem.prepared + 0
        BY <2>2, LogFields DEF Logged
      <4>. QED BY <2>1, <4>1, TradesTyped DEF LimitInv
    <3>. QED BY <2>2, <3>1 DEF LimitInv, OpenOK, Logged, IntentOK, Took, Shows
  <2>3. CASE /\ i = doing /\ Head(todo) = "PREPARED" /\ journal.open = {} /\ IntentOK(doing)
             /\ doing.id = journal.prepared + 1 /\ ~Took(doing)
             /\ \A k \in DOMAIN sent : sent[k].trade.id # doing.id
    <3>1. journal'.prepared = mem.prepared + 1
      BY <2>3, LogFields DEF Logged
    <3>2. ~Took(i)'
      BY <2>3 DEF Took, Logged
    <3>. QED BY <2>1, <2>3, <3>1, <3>2 DEF Logged, IntentOK
  <2>. QED BY <1>2, <2>2, <2>3, LoggedOpen DEF LimitInv
<1>. QED BY <1>1, <1>2 DEF OpenOK

\* What is told stays in the order of the intents.
LEMMA LoggedOrderOK ==
  ASSUME LimitInv, Logged
  PROVE  OrderOK'
<1>1. /\ mem = journal /\ \A i, j \in journal.open : i = j
      /\ \A i \in journal.open : i # NoIntent
  BY EngineKnows DEF LimitInv, Logged, Writing
<1>2. VenueInv /\ OrderOK /\ OpenOK /\ TellsOK /\ Writing /\ ~behind
  BY DEF LimitInv, Logged
<1>3. CASE TellsEffect(Head(todo))
  <2>1. Head(todo) \in {"CONFIRMED", "MATCHED"} /\ doing \in journal.open
    BY <1>2, <1>3, TellingResolves
  <2>2. PICK old \in Seq(Trade) : old = journal.booked
    BY <1>2, TradesTyped
  <2>3. PICK trade : trade = AsTrade(doing)
    OBVIOUS
  <2>4. journal'.booked = Append(old, trade) /\ journal'.open = {}
    <3>1. Log(mem, Head(todo)).booked = Append(mem.booked, AsTrade(doing))
      BY <1>3, LogFields
    <3>2. journal'.booked = Append(old, trade)
      BY <1>1, <2>2, <2>3, <3>1 DEF Logged
    <3>3. journal'.open = journal.open \ {doing}
      BY <1>1, <2>1, LogFields DEF Logged
    <3>. QED BY <1>1, <2>1, <3>2, <3>3
  <2>5. journal'.prepared = journal.prepared
    <3>1. journal'.prepared = mem.prepared + 0
      BY <2>1, LogFields DEF Logged
    <3>. QED BY <1>1, <1>2, <3>1, TradesTyped
  <2>6. trade.id = doing.id /\ doing.id = journal.prepared /\ journal.prepared \in Nat
    BY <1>2, <2>1, <2>3, TradesTyped DEF AsTrade, OpenOK
  <2>7. doing.id \in 1..journal.prepared
    BY <1>2, <2>1 DEF VenueInv, IInv, JournalOK
  <2>8. \A k \in DOMAIN sent : sent[k].trade.id = trade.id => sent[k].trade = trade
    BY <1>2, <2>1, <2>3, <2>6 DEF OpenOK
  <2>9. \A n \in 1..Len(old) : old[n].id \in 1..journal.prepared /\ old[n].id # trade.id
    BY <1>2, <2>1, <2>2, <2>6 DEF OrderOK
  <2>10. \A n \in 1..Len(old) : old[n].id < trade.id
    BY <2>6, <2>9
  <2>11. /\ DOMAIN Append(old, trade) = 1..(Len(old) + 1) /\ Len(old) \in Nat
         /\ \A n \in 1..Len(old) : Append(old, trade)[n] = old[n]
         /\ Append(old, trade)[Len(old) + 1] = trade
    BY <2>2
  <2>12. \A k, n \in 1..Len(old) : k < n => old[k].id < old[n].id
    BY <1>2, <2>2 DEF OrderOK
  <2>13. ASSUME NEW k \in 1..(Len(old) + 1), NEW n \in 1..(Len(old) + 1), k < n
         PROVE  Append(old, trade)[k].id < Append(old, trade)[n].id
    <3>1. k \in 1..Len(old)
      BY <2>11, <2>13
    <3>2. CASE n \in 1..Len(old)
      BY <2>11, <2>12, <2>13, <3>1, <3>2
    <3>3. CASE n = Len(old) + 1
      BY <2>10, <2>11, <3>1, <3>3
    <3>. QED BY <2>11, <3>2, <3>3
  <2>14. ASSUME NEW n \in 1..(Len(old) + 1)
         PROVE  /\ Append(old, trade)[n].id \in 1..journal.prepared
                /\ \A k \in DOMAIN sent : sent[k].trade.id = Append(old, trade)[n].id
                                             => sent[k].trade = Append(old, trade)[n]
    <3>1. CASE n \in 1..Len(old)
      BY <1>2, <2>2, <2>11, <3>1 DEF OrderOK
    <3>2. CASE n = Len(old) + 1
      BY <2>6, <2>7, <2>8, <2>11, <3>2
    <3>. QED BY <2>11, <3>1, <3>2
  <2>15. sent' = sent /\ \A k, n \in DOMAIN sent : k < n => sent[k].trade.id < sent[n].trade.id
    BY <1>2 DEF OrderOK, Logged
  <2>. QED BY <2>4, <2>5, <2>11, <2>13, <2>14, <2>15 DEF OrderOK
<1>4. CASE ~TellsEffect(Head(todo))
  <2>1. journal'.booked = journal.booked
    BY <1>1, <1>4, LogFields DEF Logged
  <2>2. journal'.prepared \in {journal.prepared, journal.prepared + 1} /\ journal.prepared \in Nat
    <3>1. journal'.prepared \in {mem.prepared + 0, mem.prepared + 1}
      BY LogFields DEF Logged
    <3>. QED BY <1>1, <1>2, <3>1, TradesTyped
  <2>3. ASSUME NEW n \in DOMAIN journal.booked, NEW i \in journal'.open PROVE journal.booked[n].id # i.id
    <3>1. journal.booked[n].id \in 1..journal.prepared
      BY <1>2 DEF OrderOK
    <3>2. i \in journal.open \/ i.id = journal.prepared + 1
      BY <1>2, LoggedOpen
    <3>. QED BY <1>2, <2>2, <3>1, <3>2 DEF OrderOK
  <2>4. \A n \in DOMAIN journal.booked : journal.booked[n].id \in 1..journal'.prepared
    <3>1. \A n \in DOMAIN journal.booked : journal.booked[n].id \in 1..journal.prepared
      BY <1>2 DEF OrderOK
    <3>. QED BY <2>2, <3>1
  <2>5. sent' = sent
    BY DEF Logged
  <2>. QED BY <1>2, <2>1, <2>3, <2>4, <2>5 DEF OrderOK
<1>. QED BY <1>3, <1>4

\* What a record says of the position, by what is known when it is written.
LEMMA LoggedExpects ==
  ASSUME LimitInv, Logged
  PROVE  \/ journal'.expected = journal.expected /\ Head(todo) \notin {"PREPARED", "CONFIRMED", "REJECTED"}
         \/ journal'.expected = seen /\ Head(todo) \in {"NOTE", "ACK"} /\ phase \in Entrusted
         \/ journal'.expected = doing.before /\ doing \in journal.open /\ Head(todo) \notin {"CONFIRMED", "MISMATCH"}
         \/ journal'.expected = seen /\ Head(todo) = "PREPARED" /\ phase \in Entrusted
         \/ /\ journal'.expected = doing.planned /\ doing \in journal.open
            /\ \/ Head(todo) \in {"CONFIRMED", "MATCHED"} /\ TellsEffect(Head(todo))
               \/ Head(todo) = "MISMATCH" /\ seen \notin {doing.before, doing.planned}
<1>. DEFINE e == Head(todo)
<1>1. /\ mem = journal /\ \A i \in journal.open : i # NoIntent
      /\ VenueInv /\ TellsOK
  BY EngineKnows DEF LimitInv, Logged, Writing
<1>2. NextTold(e, Tail(todo))
  BY <1>1, NextIsTold DEF Logged
<1>3. journal'.expected = Expects(e)
  BY LogFields DEF Logged
<1>4. MayTrade => phase \in Entrusted
  BY DEF MayTrade, Entrusted
<1>. HIDE DEF e
<1>5. CASE e \in {"KILL", "PREPARED", "STARTED"} /\ MayTrade /\ doing.before = seen /\ todo \in Early \cup Late
  <2>1. CASE e = "KILL"
    BY <1>1, <1>3, <2>1, ExpectsValues DEF e
  <2>2. CASE e = "PREPARED"
    BY <1>3, <1>4, <1>5, <2>2, ExpectsValues DEF e
  <2>3. CASE e = "STARTED"
    <3>1. todo \in Late
      BY <1>5, <2>3, ExecutionSteps DEF Late, e
    <3>2. doing \in journal.open
      BY <1>1, <3>1 DEF VenueInv, IInv, LateOK
    <3>. QED BY <1>3, <2>3, <3>2, ExpectsValues DEF e
  <2>. QED BY <1>5, <2>1, <2>2, <2>3
<1>6. CASE e \in Silent \cup {"TORN_ALERT"}
  BY <1>1, <1>3, <1>6, ExpectsValues DEF Silent, Ends, e
<1>7. CASE e \in {"NOTE", "ACK"} /\ phase \in Entrusted
  BY <1>3, <1>7, ExpectsValues DEF e
<1>8. CASE e \in {"UNCERTAIN", "UNCERTAIN_ALERT", "TORN"} /\ doing \in mem.open
  BY <1>1, <1>3, <1>8, ExpectsValues DEF e
<1>9. CASE e = "HANDLED" /\ mem.expected = seen
  BY <1>1, <1>3, <1>9, ExpectsValues DEF e
<1>10. CASE e = "MATCHED" /\ MatchOK
  <2>1. CASE doing = NoIntent
    BY <1>1, <1>3, <1>10, <2>1, ExpectsValues DEF e
  <2>2. CASE doing # NoIntent
    <3>1. doing \in journal.open
      BY <1>1, <1>10, <2>2 DEF MatchOK
    <3>2. Expects("MATCHED") = IF seen = doing.before THEN doing.before ELSE doing.planned
      BY <2>2, ExpectsValues
    <3>3. seen # doing.before => TellsEffect("MATCHED")
      BY <2>2 DEF TellsEffect
    <3>4. CASE seen = doing.before
      BY <1>3, <1>10, <3>1, <3>2, <3>4 DEF e
    <3>5. CASE seen # doing.before
      BY <1>3, <1>10, <3>1, <3>2, <3>3, <3>5 DEF e
    <3>. QED BY <3>4, <3>5
  <2>. QED BY <2>1, <2>2
<1>11. CASE e = "CONFIRMED" /\ doing \in mem.open
  BY <1>1, <1>3, <1>11, ExpectsValues DEF e, TellsEffect
<1>12. CASE e = "REJECTED" /\ doing \in mem.open
  BY <1>1, <1>3, <1>12, ExpectsValues DEF e
<1>13. CASE e = "MISMATCH" /\ (doing # NoIntent => doing \in mem.open /\ seen \notin {doing.before, doing.planned})
  <2>1. CASE doing = NoIntent
    BY <1>1, <1>3, <1>13, <2>1, ExpectsValues DEF e
  <2>2. CASE doing # NoIntent
    <3>1. Expects("MISMATCH") = doing.planned
      BY <2>2 DEF Expects
    <3>. QED BY <1>1, <1>3, <1>13, <2>2, <3>1 DEF e
  <2>. QED BY <2>1, <2>2
<1>14. CASE e \in Uncertain /\ doing \in mem.open
  BY <1>6, <1>8, <1>14 DEF Uncertain
<1>. QED BY <1>2, <1>5, <1>6, <1>7, <1>9, <1>10, <1>11, <1>12, <1>13, <1>14
     DEF NextTold, ResolveOK, Closing, Silent

\* What was told stays told.
LEMMA LoggedBooked ==
  ASSUME LimitInv, Logged
  PROVE  /\ \A n \in DOMAIN journal.booked :
               n \in DOMAIN journal'.booked /\ journal'.booked[n] = journal.booked[n]
         /\ TellsEffect(Head(todo)) =>
               \E n \in DOMAIN journal'.booked : journal'.booked[n] = AsTrade(doing)
<1>1. mem = journal
  BY EngineKnows DEF LimitInv, Logged, Writing
<1>2. PICK old \in Seq(Trade) : old = journal.booked
  BY TradesTyped DEF LimitInv
<1>3. PICK trade : trade = AsTrade(doing)
  OBVIOUS
<1>4. journal'.booked = IF TellsEffect(Head(todo)) THEN Append(old, trade) ELSE old
  <2>1. Log(mem, Head(todo)).booked =
           IF TellsEffect(Head(todo)) THEN Append(mem.booked, AsTrade(doing)) ELSE mem.booked
    BY LogFields
  <2>. QED BY <1>1, <1>2, <1>3, <2>1 DEF Logged
<1>5. /\ DOMAIN Append(old, trade) = 1..(Len(old) + 1) /\ Len(old) \in Nat
      /\ \A n \in 1..Len(old) : Append(old, trade)[n] = old[n]
      /\ Append(old, trade)[Len(old) + 1] = trade /\ DOMAIN old = 1..Len(old)
  BY <1>2
<1>6. CASE TellsEffect(Head(todo))
  <2>1. journal'.booked = Append(old, trade)
    BY <1>4, <1>6
  <2>2. Len(old) + 1 \in 1..(Len(old) + 1) /\ 1..Len(old) \subseteq 1..(Len(old) + 1)
    BY <1>5
  <2>. QED BY <1>2, <1>3, <1>5, <2>1, <2>2
<1>7. CASE ~TellsEffect(Head(todo))
  BY <1>2, <1>4, <1>7
<1>. QED BY <1>6, <1>7

\* An effect that is in the file only, and whose intent is resolved, is not
\* that of an unresolved one.
LEMMA MissedAlone ==
  ASSUME LimitInv, NEW k \in DOMAIN sent, Missed(k), ~Pending(k), NEW i \in journal.open
  PROVE  ~Took(i)
<1>. SUFFICES ASSUME Took(i) PROVE FALSE
  OBVIOUS
<1>1. Shows(i) /\ Shows(sent[k].trade) /\ sent[k].trade.act = "entry"
  BY DEF Missed, LimitInv, OpenOK
<1>2. sent[k].trade.id \in 1..journal.prepared
  BY DEF LimitInv, VenueInv, IInv, JournalOK
<1>3. venue.ref = sent[k].trade.id /\ sent[k].trade.id # 0
  BY <1>1, <1>2 DEF Shows
<1>4. i.id # sent[k].trade.id
  BY DEF Pending
<1>. QED BY <1>1, <1>3, <1>4 DEF Shows, Flat

\* Whoever may trade does not see it.
LEMMA MissedUnseen ==
  ASSUME LimitInv, phase \in Entrusted, ~behind, NEW k \in DOMAIN sent, Missed(k), ~Pending(k)
  PROVE  venue # seen
<1>. SUFFICES ASSUME venue = seen PROVE FALSE
  OBVIOUS
<1>1. phase # "OFF" /\ VenueInv /\ EngineOK
  BY DEF Entrusted, LimitInv
<1>2. mem = journal
  BY <1>1, EngineKnows
<1>3. ~journal.halted
  BY <1>1, <1>2 DEF EngineOK
<1>4. venue # journal.expected
  BY DEF Missed
<1>5. PICK i \in journal.open : TRUE
  BY <1>1, <1>3, <1>4 DEF VenueInv, TradingKnowsTheVenue, Entrusted
<1>6. venue # i.before
  BY DEF Missed
<1>7. Took(i)
  BY <1>1, <1>2, <1>6 DEF EngineOK
<1>. QED BY <1>7, MissedAlone

\* A record keeps the account of an effect whose intent is unresolved.
LEMMA LoggedPending ==
  ASSUME LimitInv, Logged, NEW k \in DOMAIN sent, sent[k].effect, Pending(k)
  PROVE  (Booked(k) \/ Pending(k) \/ Missed(k))'
<1>1. PICK i \in journal.open : i.id = sent[k].trade.id
  BY DEF Pending
<1>2. /\ mem = journal /\ \A j, l \in journal.open : j = l
      /\ \A j \in journal.open : j # NoIntent
      /\ VenueInv /\ TellsOK /\ Writing /\ ~behind /\ phase # "OFF"
      /\ UNCHANGED <<venue, sent>>
  BY EngineKnows DEF LimitInv, Logged, Writing
<1>3. Took(i) /\ sent[k].trade = AsTrade(i) /\ Shows(i) /\ IntentOK(i)
  BY <1>1 DEF Took, LimitInv, OpenOK
<1>4. CASE i \in journal'.open
  BY <1>1, <1>2, <1>4 DEF Pending
<1>5. CASE i \notin journal'.open
  <2>1. /\ Head(todo) \in {"CONFIRMED", "REJECTED", "MATCHED", "MISMATCH"} /\ doing = i
        /\ journal'.open = {}
    <3>1. Head(todo) \in {"CONFIRMED", "REJECTED", "MATCHED", "MISMATCH"}
      <4>1. journal' = Log(mem, Head(todo)) /\ i \in mem.open
        BY <1>2 DEF Logged
      <4>2. Head(todo) # "PREPARED"
        BY <1>5, <4>1, LogFields
      <4>. QED BY <1>5, <4>1, <4>2, LogFields
    <3>2. journal'.open = journal.open \ {doing}
      BY <1>2, <3>1, LogFields DEF Logged
    <3>. QED BY <1>2, <1>5, <3>1, <3>2
  <2>2. CASE TellsEffect(Head(todo))
    <3>1. \E n \in DOMAIN journal'.booked : journal'.booked[n] = AsTrade(doing)
      BY <2>2, LoggedBooked
    <3>. QED BY <1>2, <1>3, <2>1, <3>1 DEF Booked
  <2>3. CASE ~TellsEffect(Head(todo))
    <3>1. NextTold(Head(todo), Tail(todo))
      BY <1>2, NextIsTold
    <3>2. Head(todo) # "REJECTED"
      BY <1>3, <2>1, <3>1 DEF NextTold, ResolveOK, Silent, Closing, Ends, Uncertain
    <3>3. Head(todo) \in {"MATCHED", "MISMATCH"}
      BY <2>1, <2>3, <3>2 DEF TellsEffect
    <3>4. doing # NoIntent
      BY <1>2, <2>1
    <3>5. venue # journal'.expected
      <4>1. CASE Head(todo) = "MATCHED"
        <5>1. seen = doing.before
          BY <2>3, <3>4, <4>1 DEF TellsEffect
        <5>2. journal'.expected = doing.before
          <6>1. Expects("MATCHED") = doing.before
            BY <3>4, <5>1, ExpectsValues
          <6>. QED BY <4>1, <6>1, LogFields DEF Logged
        <5>3. i.id # 0
          BY <1>2 DEF VenueInv, IInv, JournalOK
        <5>4. venue # doing.before
          <6>1. CASE i.act = "entry"
            BY <1>3, <2>1, <5>3, <6>1 DEF IntentOK, Shows, Flat
          <6>2. CASE i.act # "entry"
            BY <1>3, <2>1, <6>2 DEF IntentOK, Shows
          <6>. QED BY <6>1, <6>2
        <5>. QED BY <5>2, <5>4
      <4>2. CASE Head(todo) = "MISMATCH"
        <5>1. seen \notin {doing.before, doing.planned}
          BY <3>1, <3>4, <4>2 DEF NextTold, ResolveOK, Silent, Closing, Ends, Uncertain
        <5>2. journal'.expected = doing.planned
          <6>1. Expects("MISMATCH") = doing.planned
            BY <3>4 DEF Expects
          <6>. QED BY <4>2, <6>1, LogFields DEF Logged
        <5>3. seen \in {i.before, venue}
          BY <1>2 DEF LimitInv, EngineOK
        <5>. QED BY <2>1, <5>1, <5>2, <5>3
      <4>. QED BY <3>3, <4>1, <4>2
    <3>6. Shows(sent[k].trade)
      BY <1>3 DEF Shows, AsTrade
    <3>7. Missed(k)'
      BY <1>2, <2>1, <3>5, <3>6 DEF Missed, Shows
    <3>. QED BY <3>7
  <2>. QED BY <2>2, <2>3
<1>. QED BY <1>4, <1>5

\* A record keeps the account of an effect that is in the file only, or tells
\* of a settlement in place of it.
LEMMA LoggedMissed ==
  ASSUME LimitInv, Logged, NEW k \in DOMAIN sent, sent[k].effect, Missed(k), ~Pending(k)
  PROVE  (Missed(k) \/ Replaced(k))'
<1>1. /\ mem = journal /\ \A j, l \in journal.open : j = l
      /\ VenueInv /\ TellsOK /\ EngineOK /\ OpenOK /\ Writing /\ ~behind /\ phase # "OFF"
      /\ UNCHANGED <<venue, sent>>
  BY EngineKnows DEF LimitInv, Logged, Writing
<1>2. /\ venue # journal.expected /\ \A i \in journal.open : venue # i.before
      /\ Shows(sent[k].trade) /\ \A i \in journal.open : ~Took(i)
  BY MissedAlone DEF Missed
<1>3. phase \in Entrusted => venue # seen
  BY <1>1, MissedUnseen
<1>4. sent[k].trade.id # 0 /\ \A i \in journal.open : i.id # sent[k].trade.id /\ i.id # 0
  BY <1>1 DEF VenueInv, IInv, JournalOK, Pending
<1>5. ASSUME venue # journal'.expected PROVE Missed(k)'
  <2>1. ASSUME NEW i \in journal'.open PROVE venue # i.before /\ ~Took(i)
    <3>1. CASE i \in journal.open
      BY <1>2, <3>1
    <3>2. CASE i = doing /\ Head(todo) = "PREPARED" /\ ~Took(doing)
      <4>1. doing.before = seen /\ phase \in Entrusted
        <5>1. doing.before = seen /\ MayTrade
          BY <1>1, <3>2, NextIsTold DEF NextTold, ResolveOK, Silent, Closing, Ends, Uncertain
        <5>. QED BY <5>1 DEF MayTrade, Entrusted
      <4>. QED BY <1>3, <3>2, <4>1
    <3>. QED BY <1>1, <2>1, <3>1, <3>2, LoggedOpen
  <2>2. \A i \in journal'.open : ~Took(i)'
    BY <1>1, <2>1 DEF Took
  <2>. QED BY <1>1, <1>2, <1>5, <2>1, <2>2 DEF Missed, Shows
<1>6. CASE \/ journal'.expected = journal.expected
           \/ journal'.expected = seen /\ phase \in Entrusted
           \/ journal'.expected = doing.before /\ doing \in journal.open
  BY <1>2, <1>3, <1>5, <1>6
<1>7. CASE journal'.expected = doing.planned /\ doing \in journal.open
  <2>1. ~Took(doing) /\ IntentOK(doing) /\ doing.id # sent[k].trade.id /\ doing.id # 0
    BY <1>1, <1>2, <1>4, <1>7 DEF OpenOK
  <2>2. CASE sent[k].trade.act = "entry"
    <3>1. venue.ref = sent[k].trade.id
      BY <1>2, <2>2 DEF Shows
    <3>2. doing.planned.ref \in {0, doing.id}
      BY <2>1 DEF IntentOK, Flat
    <3>. QED BY <1>4, <1>5, <1>7, <2>1, <3>1, <3>2
  <2>3. CASE sent[k].trade.act # "entry" /\ TellsEffect(Head(todo))
    <3>1. PICK n \in DOMAIN journal'.booked : journal'.booked[n] = AsTrade(doing)
      BY <2>3, LoggedBooked
    <3>2. journal'.booked[n].id = doing.id
      BY <3>1 DEF AsTrade
    <3>3. Retold'
      BY <1>1, <2>1, <3>2 DEF Retold, Took
    <3>. QED BY <1>1, <2>3, <3>3 DEF Replaced
  <2>4. CASE /\ sent[k].trade.act # "entry" /\ seen \notin {doing.before, doing.planned}
    <3>1. venue = Flat
      BY <1>2, <2>4 DEF Shows
    <3>2. seen \in {doing.before, venue}
      BY <1>1, <1>7 DEF EngineOK
    <3>3. venue # doing.planned
      BY <2>4, <3>2
    <3>. QED BY <1>5, <1>7, <3>3
  <2>5. TellsEffect(Head(todo)) \/ seen \notin {doing.before, doing.planned} \/ venue # journal'.expected
    BY <1>2, <1>3, LoggedExpects
  <2>. QED BY <1>5, <2>2, <2>3, <2>4, <2>5
<1>. QED BY <1>6, <1>7, LoggedExpects

\* A record keeps the account of every effect.
LEMMA LoggedToldOK ==
  ASSUME LimitInv, Logged
  PROVE  ToldOK'
<1>1. UNCHANGED sent
  BY DEF Logged
<1>2. SUFFICES ASSUME NEW k \in DOMAIN sent, sent[k].effect
               PROVE  (Booked(k) \/ Pending(k) \/ Missed(k) \/ Replaced(k))'
  BY <1>1 DEF ToldOK
<1>3. CASE Booked(k)
  BY <1>1, <1>3, LoggedBooked DEF Booked
<1>4. CASE Pending(k)
  BY <1>2, <1>4, LoggedPending
<1>5. CASE Missed(k) /\ ~Pending(k)
  BY <1>2, <1>5, LoggedMissed
<1>6. CASE Replaced(k)
  BY <1>1, <1>6, LoggedBooked DEF Replaced, Retold
<1>. QED BY <1>2, <1>3, <1>4, <1>5, <1>6 DEF LimitInv, ToldOK

(* Steps *)

\* Nothing is told and nothing is executed.
LEMMA AccountSame ==
  ASSUME LimitInv, UNCHANGED <<journal, venue, sent>>
  PROVE  OpenOK' /\ OrderOK' /\ ToldOK'
<1>1. OpenOK'
  BY DEF LimitInv, OpenOK, IntentOK, Took, Shows
<1>2. OrderOK'
  BY DEF LimitInv, OrderOK
<1>3. ToldOK'
  BY DEF LimitInv, ToldOK, Booked, Pending, Missed, Replaced, Shows, Took, Retold
<1>. QED BY <1>1, <1>2, <1>3

\* A script without an execution.
LEMMA QuietLimits ==
  ASSUME NEW s, s \in Seq(Silent) \/ s \in Seq(Closing) \/ s \in Seq(Uncertain \cup Ends)
                \/ s \in {<<"NOTE">>, <<"ACK">>}
  PROVE  s \notin Early \cup Late
<1>1. Silent \subseteq Plain /\ Closing \subseteq Plain /\ Uncertain \cup Ends \subseteq Plain
      /\ {"NOTE", "ACK"} \subseteq Plain
  BY DEF Silent, Closing, Uncertain, Ends, Plain, Event
<1>2. s \in Seq(Plain)
  <2>1. CASE s \in {<<"NOTE">>, <<"ACK">>}
    BY <1>1, <2>1, PlainParts
  <2>2. CASE s \in Seq(Silent)
    BY <1>1, <2>2
  <2>3. CASE s \in Seq(Closing)
    BY <1>1, <2>3
  <2>4. CASE s \in Seq(Uncertain \cup Ends)
    BY <1>1, <2>4
  <2>. QED BY <2>1, <2>2, <2>3, <2>4
<1>. QED BY <1>2, PlainScripts

LEMMA SilentScripts ==
  /\ <<>> \in Seq(Silent) /\ <<"ALERT", "HALTED">> \in Seq(Silent)
  /\ \A s \in Seq(Ends) : s \in Seq(Silent)
BY DEF Silent, Ends

\* After a match the journal agrees with the engine, and nothing is unresolved.
LEMMA MatchedAgrees ==
  ASSUME LimitInv, Logged, Head(todo) = "MATCHED"
  PROVE  journal'.expected = seen /\ journal'.open = {}
<1>1. /\ mem = journal /\ TellsOK /\ Writing
      /\ \A i, j \in journal.open : i = j
  BY EngineKnows DEF LimitInv, Logged, Writing
<1>2. MatchOK
  BY <1>1, NextIsTold DEF NextTold, ResolveOK, Silent, Closing, Ends, Uncertain
<1>3. journal'.expected = Expects("MATCHED") /\ journal'.open = mem.open \ {doing}
  BY LogFields DEF Logged
<1>4. Expects("MATCHED") = seen
  BY <1>2, ExpectsValues DEF MatchOK, Explained
<1>5. mem.open \ {doing} = {}
  BY <1>1, <1>2 DEF MatchOK
<1>. QED BY <1>3, <1>4, <1>5

\* Whoever becomes entrusted by a record was not halted.
LEMMA EntrustedUnhalted ==
  ASSUME LimitInv, Logged, PhaseAfter(Head(todo)) \in Entrusted \cup {"BOOT_NEW_RUN"}
  PROVE  /\ ~journal'.halted
         /\ phase \in Entrusted \cup {"BOOT_NEW_RUN"} \/ Head(todo) \in {"MATCHED", "HANDLED"}
<1>. DEFINE e == Head(todo)
<1>1. journal'.halted = (mem.halted \/ e = "HALTED")
  BY LogFields DEF Logged
<1>2. VenueInv /\ EngineOK /\ TellsOK /\ Writing
  BY DEF LimitInv, Logged
<1>3. NextTold(e, Tail(todo))
  BY <1>2, NextIsTold
<1>4. e = "RUN_STARTED" => phase = "BOOT_NEW_RUN"
  BY <1>2, NextRecord DEF VenueInv, FirstOK, Quiet, Uncertain
<1>5. e \in {"CONFIRMED", "ACK"} => phase \in Entrusted
  BY <1>3 DEF NextTold, ResolveOK, Silent, Closing, Ends, Uncertain
<1>. HIDE DEF e
<1>6. e # "HALTED"
  <2>1. PhaseAfter("HALTED") = "HALTED"
    BY DEF PhaseAfter
  <2>. QED BY <2>1 DEF Entrusted, e
<1>7. \/ phase \in Entrusted \cup {"BOOT_NEW_RUN"}
      \/ e \in {"MATCHED", "HANDLED"}
  BY <1>4, <1>5, EntrustedPhases DEF e
<1>8. CASE phase \in Entrusted \cup {"BOOT_NEW_RUN"}
  BY <1>1, <1>2, <1>6, <1>8 DEF EngineOK, e
<1>9. CASE e \in {"MATCHED", "HANDLED"} /\ phase \notin Entrusted \cup {"BOOT_NEW_RUN"}
  <2>1. PhaseAfter(e) = IF Len(todo) = 1 THEN (IF Stopped(mem) THEN "HALTED" ELSE "RESTART_ACK_REQUIRED") ELSE phase
    BY <1>9 DEF PhaseAfter
  <2>2. ~Stopped(mem)
    BY <1>9, <2>1 DEF Entrusted, e
  <2>. QED BY <1>1, <1>6, <1>9, <2>2 DEF Stopped, e
<1>. QED BY <1>7, <1>8, <1>9 DEF e

\* A record that is written.
LEMMA AppendLimits ==
  ASSUME LimitInv, AppendRecord
  PROVE  LimitInv'
<1>. DEFINE e == Head(todo)
<1>1. /\ Logged /\ mem' = journal' /\ phase' = PhaseAfter(e)
      /\ todo' = Tail(todo) /\ doing' = IF todo' = <<>> THEN NoIntent ELSE doing
      /\ UNCHANGED <<venue, seen, today, sent>>
  BY DEF AppendRecord, Continue, Logged
<1>2. /\ mem = journal /\ VenueInv /\ EngineOK /\ TellsOK /\ Writing /\ phase # "OFF"
  BY <1>1, EngineKnows DEF LimitInv, Logged, Writing
<1>3. NextTold(e, Tail(todo))
  BY <1>2, NextIsTold
<1>4. e = "PREPARED" => doing.before = seen /\ MayTrade
  BY <1>3 DEF NextTold, ResolveOK, Silent, Closing, Ends, Uncertain
<1>5. EngineOK'
  <2>1. phase' \in Entrusted \cup {"BOOT_NEW_RUN"} => ~mem'.halted
    BY <1>1, EntrustedUnhalted
  <2>2. ASSUME NEW i \in mem'.open
        PROVE  i \in journal.open \/ (i = doing /\ e = "PREPARED")
    BY <1>1, <1>2, <2>2, LoggedOpen
  <2>3. phase' = "BOOT_NEW_RUN" => mem'.open = {}
    <3>1. SUFFICES ASSUME phase' = "BOOT_NEW_RUN" PROVE mem'.open = {}
      OBVIOUS
    <3>2. phase = "BOOT_NEW_RUN"
      BY <1>1, <3>1, EntrustedPhases
    <3>3. journal.open = {} /\ ~MayTrade
      BY <1>2, <3>2 DEF EngineOK, MayTrade
    <3>. QED BY <1>4, <2>2, <3>3
  <2>4. ASSUME phase' \in Entrusted, NEW i \in mem'.open PROVE seen' = i.before \/ Took(i)'
    <3>1. Took(i)' = Took(i)
      BY <1>1 DEF Took
    <3>2. CASE i = doing /\ e = "PREPARED"
      BY <1>1, <1>4, <3>2
    <3>3. CASE i \in journal.open
      <4>1. phase \in Entrusted \cup {"BOOT_NEW_RUN"} \/ e \in {"MATCHED", "HANDLED"}
        BY <1>1, <2>4, EntrustedUnhalted
      <4>2. CASE phase \in Entrusted \cup {"BOOT_NEW_RUN"}
        BY <1>1, <1>2, <3>1, <3>3, <4>2 DEF EngineOK
      <4>3. CASE e = "MATCHED"
        BY <1>1, <2>4, <4>3, MatchedAgrees
      <4>4. CASE e = "HANDLED"
        BY <1>2, <1>3, <3>3, <4>4 DEF NextTold, ResolveOK, Silent, Closing, Ends, Uncertain
      <4>. QED BY <4>1, <4>2, <4>3, <4>4
    <3>. QED BY <2>2, <2>4, <3>2, <3>3
  <2>5. ASSUME NEW i \in mem'.open PROVE i # NoIntent /\ seen' \in {i.before, venue'}
    <3>1. CASE i = doing /\ e = "PREPARED"
      <4>1. doing.id = journal.prepared + 1 /\ journal.prepared \in Nat /\ NoIntent.id = 0
        BY <1>1, <1>2, <2>5, <3>1, LoggedOpen, TradesTyped, FlatTyped
      <4>. QED BY <1>1, <1>4, <3>1, <4>1
    <3>2. CASE i \in journal.open
      BY <1>1, <1>2, <3>2 DEF EngineOK
    <3>. QED BY <2>2, <2>5, <3>1, <3>2
  <2>. QED BY <2>1, <2>3, <2>4, <2>5 DEF EngineOK
<1>6. TellsOK' /\ LimitsOK'
  <2>1. CASE /\ e \in {"KILL", "PREPARED", "STARTED"} /\ MayTrade /\ doing.before = seen /\ IntentOK(doing)
             /\ todo \in Early \cup Late /\ Tail(todo) \in Early \cup Late /\ Tail(todo) # <<>>
    <3>1. phase' = phase /\ doing' = doing
      BY <1>1, <2>1, EntrustedPhases
    <3>2. TellsOK'
      BY <1>1, <2>1, <3>1 DEF TellsOK, MayTrade, IntentOK
    <3>3. mem'.booked = mem.booked
      <4>1. ~TellsEffect(e)
        BY <2>1 DEF TellsEffect
      <4>. QED BY <1>1, <4>1, LogFields DEF Logged
    <3>. QED BY <2>1, <3>1, <3>2, <3>3 DEF LimitInv, LimitsOK
  <2>2. CASE Tail(todo) \in Seq(Silent)
    BY <1>1, <2>2, QuietLimits DEF TellsOK, LimitsOK
  <2>3. CASE Tail(todo) = <<>>
    BY <2>2, <2>3, SilentScripts
  <2>4. CASE Tail(todo) \in Seq(Ends)
    BY <2>2, <2>4, SilentScripts
  <2>5. CASE /\ e \in Uncertain \cup Ends /\ Tail(todo) \in Seq(Uncertain \cup Ends) /\ doing \in mem.open
             /\ Tail(todo) # <<>>
    <3>1. doing' = doing /\ mem'.open = mem.open
      <4>1. e \notin {"PREPARED", "CONFIRMED", "REJECTED", "MATCHED", "MISMATCH"}
        BY <2>5 DEF Uncertain, Ends
      <4>. QED BY <1>1, <2>5, <4>1, LogFields DEF Logged
    <3>. QED BY <1>1, <2>5, <3>1, QuietLimits DEF TellsOK, LimitsOK
  <2>6. CASE e \in Closing /\ Tail(todo) \in Seq(Closing) /\ mem.expected = seen /\ mem.open = {}
    <3>1. mem'.expected = seen
      <4>1. Expects(e) = seen
        BY <2>6, ExpectsValues DEF Closing, Ends
      <4>. QED BY <1>1, <4>1, LogFields DEF Logged
    <3>2. mem'.open = {}
      <4>1. e \notin {"PREPARED", "CONFIRMED", "REJECTED", "MATCHED", "MISMATCH"}
        BY <2>6 DEF Closing, Ends
      <4>. QED BY <1>1, <2>6, <4>1, LogFields DEF Logged
    <3>. QED BY <1>1, <2>6, <3>1, <3>2, QuietLimits DEF TellsOK, LimitsOK
  <2>7. CASE e = "MATCHED" /\ Tail(todo) \in Seq(Closing)
    <3>1. mem'.expected = seen /\ mem'.open = {}
      BY <1>1, <2>7, MatchedAgrees
    <3>. QED BY <1>1, <2>7, <3>1, QuietLimits DEF TellsOK, LimitsOK
  <2>. HIDE DEF e
  <2>. QED BY <1>3, <2>1, <2>2, <2>3, <2>4, <2>5, <2>6, <2>7 DEF NextTold
<1>7. VenueInv'
  BY AppendKnows DEF LimitInv
<1>8. OpenOK' /\ OrderOK' /\ ToldOK'
  BY <1>1, LoggedOpenOK, LoggedOrderOK, LoggedToldOK
<1>. QED BY <1>5, <1>6, <1>7, <1>8 DEF LimitInv

\* A write that fails, whether or not its line is in the file.
LEMMA AppendFailLimits ==
  ASSUME LimitInv, AppendFails
  PROVE  LimitInv'
<1>1. /\ Writing /\ phase' = PhaseAfterFailure(Head(todo)) /\ UNCHANGED <<mem, venue, seen, today, sent>>
      /\ todo' \in {<<>>, <<"ALERT", "HALTED">>}
      /\ \/ UNCHANGED <<journal, behind>>
         \/ ~behind /\ journal' = Log(mem, Head(todo))
  BY DEF AppendFails, Raise, Continue
<1>2. OpenOK' /\ OrderOK' /\ ToldOK'
  <2>1. CASE UNCHANGED journal
    BY <1>1, <2>1, AccountSame
  <2>2. CASE ~behind /\ journal' = Log(mem, Head(todo))
    BY <1>1, <2>2, LoggedOpenOK, LoggedOrderOK, LoggedToldOK DEF Logged
  <2>. QED BY <1>1, <2>1, <2>2
<1>3. EngineOK'
  <2>1. /\ phase' \in Entrusted => phase \in Entrusted
        /\ phase' = "BOOT_NEW_RUN" => phase = "BOOT_NEW_RUN"
        /\ phase # "OFF"
    BY <1>1, EntrustedPhases DEF Writing
  <2>. QED BY <1>1, <2>1 DEF LimitInv, EngineOK, Took
<1>4. todo' \in Seq(Silent)
  BY <1>1, SilentScripts
<1>5. TellsOK' /\ LimitsOK'
  BY <1>4, QuietLimits DEF TellsOK, LimitsOK
<1>6. VenueInv'
  BY AppendFailKnows DEF LimitInv
<1>. QED BY <1>2, <1>3, <1>5, <1>6 DEF LimitInv

\* What an operation that begins has to see to.
LEMMA BeginsLimits ==
  ASSUME LimitInv, UNCHANGED Base, phase # "OFF",
         phase' \in {phase, "HALTED", "RECONCILE_REQUIRED"}, VenueInv', TellsOK', LimitsOK'
  PROVE  LimitInv'
<1>1. OpenOK' /\ OrderOK' /\ ToldOK'
  BY AccountSame DEF Base
<1>2. EngineOK'
  <2>1. phase' \in Entrusted \cup {"BOOT_NEW_RUN"} => phase' = phase
    BY DEF Entrusted
  <2>2. UNCHANGED <<mem, seen, venue, sent>>
    BY DEF Base
  <2>. QED BY <2>1, <2>2 DEF LimitInv, EngineOK, Took
<1>. QED BY <1>1, <1>2 DEF LimitInv

\* The tail of a script that one record leads.
LEMMA LedTails ==
  ASSUME NEW first, NEW s, NEW S, LedBy(first, s), s \in Seq({first} \cup S), first \notin Quiet
  PROVE  s # <<>> /\ Head(s) = first /\ Tail(s) \in Seq(S)
<1>1. s # <<>> /\ Head(s) = first /\ Tail(s) \in Seq(Quiet)
  BY LedParts
<1>2. Tail(s) \in Seq({first} \cup S)
  BY <1>1
<1>3. \A k \in 1..Len(Tail(s)) : Tail(s)[k] \in S
  BY <1>1, <1>2
<1>4. PICK t : t = Tail(s)
  OBVIOUS
<1>5. t \in Seq({first} \cup S) /\ \A k \in 1..Len(t) : t[k] \in S
  BY <1>2, <1>3, <1>4
<1>6. t \in Seq(S)
  BY <1>5
<1>. QED BY <1>1, <1>4, <1>6

\* A mismatch and a match (_reconcile).
LEMMA ReconcileTails ==
  ASSUME NEW source, NEW restart
  PROVE  /\ Mismatch # <<>> /\ Head(Mismatch) = "MISMATCH" /\ Tail(Mismatch) \in Seq(Ends)
         /\ Matched(source, restart) # <<>> /\ Head(Matched(source, restart)) = "MATCHED"
         /\ Tail(Matched(source, restart)) \in Seq(Closing)
<1>1. Mismatch \in Seq({"MISMATCH"} \cup Ends)
  BY DEF Mismatch, Ends
<1>. DEFINE All == {"MATCHED"} \cup Closing
            a == IF source.fault \in {"timeout", "crash"} THEN <<"HANDLED">> ELSE <<>>
            b == IF restart /\ source # NoIntent THEN <<"HANDLED">> ELSE <<>>
            c == IF source.fault = "rejected" /\ ~Stopped(mem) THEN <<"ALERT", "HALTED">> ELSE <<>>
            alert == IF seen # Flat THEN <<"ALERT">> ELSE <<>>
            d == IF mem.killed /\ ~mem.halted THEN alert \o <<"HALTED">> ELSE <<>>
<1>2. /\ <<>> \in Seq(All) /\ <<"HANDLED">> \in Seq(All) /\ <<"ALERT", "HALTED">> \in Seq(All)
      /\ <<"ALERT">> \in Seq(All) /\ <<"HALTED">> \in Seq(All) /\ <<"MATCHED">> \in Seq(All)
  BY DEF Closing, Ends
<1>3. \A s, t \in Seq(All) : s \o t \in Seq(All)
  <2>. HIDE DEF All
  <2>. QED OBVIOUS
<1>. HIDE DEF All
<1>4. a \in Seq(All) /\ b \in Seq(All) /\ c \in Seq(All) /\ alert \in Seq(All)
  BY <1>2
<1>5. d \in Seq(All)
  <2>. HIDE DEF alert
  <2>. QED BY <1>2, <1>3, <1>4
<1>6. Matched(source, restart) = (((<<"MATCHED">> \o a) \o b) \o c) \o d
  BY Zenon DEF Matched
<1>7. Matched(source, restart) \in Seq(All)
  <2>. HIDE DEF a, b, c, d
  <2>. QED BY <1>2, <1>3, <1>4, <1>5, <1>6
<1>8. "MATCHED" \notin Quiet /\ "MISMATCH" \notin Quiet
  BY DEF Quiet
<1>. HIDE DEF a, b, c, d, alert
<1>. QED BY <1>1, <1>7, <1>8, ReconcileScripts, LedTails DEF All

\* What an execution leaves to write (_finish_execution).
LEMMA OutcomeTails ==
  ASSUME NEW intent
  PROVE  /\ intent.fault = "none" =>
               Outcome(intent) # <<>> /\ Head(Outcome(intent)) = "CONFIRMED" /\ Tail(Outcome(intent)) \in Seq(Ends)
         /\ intent.fault = "rejected" =>
               Outcome(intent) # <<>> /\ Head(Outcome(intent)) = "REJECTED" /\ Tail(Outcome(intent)) \in Seq(Ends)
         /\ intent.fault \notin {"none", "rejected", "crash"} => Outcome(intent) \in Seq(Uncertain \cup Ends)
         /\ <<"TORN", "TORN_ALERT">> \o Finish(FALSE) \in Seq(Uncertain \cup Ends)
<1>1. Finish(TRUE) \in Seq(Ends) /\ Finish(FALSE) \in Seq(Ends)
  <2>1. <<>> \in Seq(Ends) /\ <<"HALTED">> \in Seq(Ends) /\ <<"ALERT", "HALTED">> \in Seq(Ends)
    BY DEF Ends
  <2>. QED BY <2>1 DEF Finish
<1>2. ASSUME NEW S, NEW s \in Seq(S), NEW t \in Seq(Ends) PROVE s \o t \in Seq(S \cup Ends)
  <2>1. s \in Seq(S \cup Ends) /\ t \in Seq(S \cup Ends)
    OBVIOUS
  <2>. QED BY <2>1
<1>3. /\ <<"UNCERTAIN", "UNCERTAIN_ALERT">> \o Finish(FALSE) \in Seq(Uncertain \cup Ends)
      /\ <<"TORN", "TORN_ALERT">> \o Finish(FALSE) \in Seq(Uncertain \cup Ends)
  <2>1. <<"UNCERTAIN", "UNCERTAIN_ALERT">> \in Seq(Uncertain) /\ <<"TORN", "TORN_ALERT">> \in Seq(Uncertain)
    BY DEF Uncertain
  <2>. QED BY <1>1, <1>2, <2>1
<1>4. CASE intent.fault = "none"
  <2>1. Outcome(intent) = <<"CONFIRMED">> \o Finish(TRUE)
    BY <1>4 DEF Outcome
  <2>2. Outcome(intent) \in Seq({"CONFIRMED"} \cup Ends)
    <3>1. <<"CONFIRMED">> \in Seq({"CONFIRMED"})
      OBVIOUS
    <3>. QED BY <1>1, <1>2, <2>1, <3>1
  <2>3. "CONFIRMED" \notin Quiet
    BY DEF Quiet
  <2>. QED BY <1>3, <1>4, <2>2, <2>3, OutcomeScripts, LedTails
<1>5. CASE intent.fault = "rejected"
  <2>1. Outcome(intent) = <<"REJECTED", "HALTED">> \o Finish(FALSE)
    BY <1>5 DEF Outcome
  <2>2. Outcome(intent) \in Seq({"REJECTED"} \cup Ends)
    <3>1. <<"REJECTED", "HALTED">> \in Seq({"REJECTED"} \cup Ends)
      BY DEF Ends
    <3>2. Outcome(intent) \in Seq(({"REJECTED"} \cup Ends) \cup Ends)
      BY <1>1, <1>2, <2>1, <3>1
    <3>3. ({"REJECTED"} \cup Ends) \cup Ends = {"REJECTED"} \cup Ends
      OBVIOUS
    <3>. QED BY <3>2, <3>3
  <2>3. "REJECTED" \notin Quiet
    BY DEF Quiet
  <2>. QED BY <1>3, <1>5, <2>2, <2>3, OutcomeScripts, LedTails
<1>6. CASE intent.fault \notin {"none", "rejected", "crash"}
  <2>1. Outcome(intent) = <<"UNCERTAIN", "UNCERTAIN_ALERT">> \o Finish(FALSE)
    BY <1>6, Zenon DEF Outcome
  <2>. QED BY <1>3, <1>6, <2>1
<1>7. CASE intent.fault = "crash"
  BY <1>3, <1>7
<1>. QED BY <1>4, <1>5, <1>6, <1>7

\* A reconciliation is about the unresolved intent, if there is one.
LEMMA ReconcileTells ==
  ASSUME LimitInv, phase # "OFF", NEW restart, Reconcile(restart), UNCHANGED phase
  PROVE  TellsOK'
<1>. DEFINE source == IF mem.open = {} THEN NoIntent ELSE CHOOSE i \in mem.open : TRUE
<1>1. PICK it : it = source
  OBVIOUS
<1>2. IF it = NoIntent THEN mem.open = {} \/ it \in mem.open ELSE it \in mem.open
  BY <1>1
<1>3. UNCHANGED <<mem, seen>>
  BY DEF Reconcile, Begin
<1>4. CASE todo' = Mismatch /\ (doing' = NoIntent \/ (doing' = it /\ ~Explained(it)))
  <2>1. it # NoIntent => it \in mem.open /\ (~Explained(it) => seen \notin {it.before, it.planned})
    BY <1>2 DEF Explained
  <2>2. ResolveOK("MISMATCH")'
    BY <1>3, <1>4, <2>1 DEF ResolveOK
  <2>. QED BY <1>4, <2>2, ReconcileTails DEF TellsOK
<1>5. CASE todo' = Matched(it, restart) /\ doing' = it /\ Explained(it)
  <2>1. IF it = NoIntent THEN mem.open = {} ELSE it \in mem.open
    BY <1>2 DEF LimitInv, EngineOK
  <2>2. MatchOK'
    BY <1>3, <1>5, <2>1 DEF MatchOK, Explained
  <2>. QED BY <1>5, <2>2, ReconcileTails DEF TellsOK
<1>6. \/ todo' = Mismatch /\ (doing' = NoIntent \/ (doing' = it /\ ~Explained(it)))
      \/ todo' = Matched(it, restart) /\ doing' = it /\ Explained(it)
  BY <1>1 DEF Reconcile, Begin
<1>. QED BY <1>4, <1>5, <1>6

\* The operations that prepare no intent.
LEMMA PlainLimits ==
  ASSUME LimitInv,
         BootReconcile \/ ReconcileAfterUncertain \/ AcknowledgeRestart \/ DecisionRefused
         \/ Note \/ Incident
  PROVE  LimitInv'
<1>1. VenueInv'
  BY PlainKnow DEF LimitInv
<1>2. /\ UNCHANGED Base /\ phase # "OFF" /\ phase' \in {phase, "HALTED", "RECONCILE_REQUIRED"}
  BY DEF BootReconcile, ReconcileAfterUncertain, AcknowledgeRestart, DecisionRefused, Note,
     Incident, Reconcile, Begin, Base, Idle
<1>3. todo' \in Seq(Plain)
  <2>1. todo' \in {<<"RUN_STARTED">>, <<"ACK">>, <<"NOTE">>, <<"INCIDENT">>, <<>>, Mismatch}
        \/ \E source, restart : todo' = Matched(source, restart)
    BY DEF BootReconcile, ReconcileAfterUncertain, AcknowledgeRestart, DecisionRefused, Note,
       Incident, Reconcile, Begin
  <2>2. Mismatch \in Seq(Plain)
    BY PlainPairs, PlainRecords DEF Mismatch
  <2>3. /\ <<"RUN_STARTED">> \in Seq(Plain) /\ <<"ACK">> \in Seq(Plain) /\ <<"NOTE">> \in Seq(Plain)
        /\ <<"INCIDENT">> \in Seq(Plain) /\ <<>> \in Seq(Plain)
    BY PlainParts, PlainRecords
  <2>4. CASE \E source, restart : todo' = Matched(source, restart)
    BY <2>4, MatchedIsPlain
  <2>. QED BY <2>1, <2>2, <2>3, <2>4
<1>4. LimitsOK'
  BY <1>3, PlainScripts DEF LimitsOK
<1>5. TellsOK'
  <2>1. CASE BootReconcile
    <3>1. CASE Begin(<<"RUN_STARTED">>, NoIntent)
      <4>1. todo' = <<"RUN_STARTED">>
        BY <3>1 DEF Begin
      <4>. QED BY <4>1 DEF TellsOK, Silent
    <3>. QED BY <2>1, <3>1, ReconcileTells DEF BootReconcile
  <2>2. CASE ReconcileAfterUncertain
    BY <2>2, ReconcileTells DEF ReconcileAfterUncertain
  <2>3. CASE AcknowledgeRestart \/ Note
    <3>1. todo' \in {<<"NOTE">>, <<"ACK">>} /\ phase' = phase /\ phase \in Entrusted
      BY <2>3 DEF AcknowledgeRestart, Note, Begin, MayTrade, Entrusted
    <3>. QED BY <3>1 DEF TellsOK
  <2>4. CASE Incident
    <3>1. todo' = <<"INCIDENT">>
      BY <2>4 DEF Incident, Begin
    <3>. QED BY <3>1 DEF TellsOK, Silent
  <2>5. CASE DecisionRefused
    <3>1. todo' \in {<<>>, Mismatch} /\ doing' = NoIntent
      BY <2>5 DEF DecisionRefused, Begin
    <3>2. CASE todo' = Mismatch
      <4>1. ResolveOK("MISMATCH")'
        BY <3>1 DEF ResolveOK
      <4>. QED BY <3>2, <4>1, ReconcileTails DEF TellsOK
    <3>3. CASE todo' = <<>>
      BY <3>3, SilentScripts DEF TellsOK
    <3>. QED BY <3>1, <3>2, <3>3
  <2>. QED BY <2>1, <2>2, <2>3, <2>4, <2>5
<1>. QED BY <1>1, <1>2, <1>4, <1>5, BeginsLimits

\* A decision to enter is taken within the limits (_risk_gate).
LEMMA EntryLimits ==
  ASSUME LimitInv, DecideEntry
  PROVE  LimitInv'
<1>1. VenueInv'
  BY ExecutionsKnow DEF LimitInv
<1>2. /\ UNCHANGED Base /\ phase' = phase /\ phase # "OFF" /\ MayTrade /\ seen = Flat
      /\ todo' = Execution /\ \E fault : doing' = EntryIntent(fault)
      /\ EntriesOn(mem.booked, today) < MaxEntriesPerDay /\ Streak(mem.booked) < MaxConsecutiveLosses
  BY DEF DecideEntry, Begin, Base, Processable, Idle
<1>3. todo' \in Early
  BY <1>2, ExecutionIsEarly
<1>4. PICK fault : doing' = EntryIntent(fault)
  BY <1>2
<1>5. doing'.before = seen /\ doing'.planned.ref = doing'.id /\ doing'.act = "entry" /\ doing'.day = today
  BY <1>4 DEF EntryIntent
<1>6. UNCHANGED <<seen, mem>>
  BY <1>2 DEF Base
<1>7. IntentOK(doing)'
  BY <1>2, <1>5 DEF IntentOK
<1>8. TellsOK'
  BY <1>2, <1>3, <1>5, <1>6, <1>7 DEF TellsOK, MayTrade
<1>9. LimitsOK'
  BY <1>2, <1>5, <1>6 DEF LimitsOK
<1>. QED BY <1>1, <1>2, <1>8, <1>9, BeginsLimits

\* Settlements and kills.
LEMMA SettlementLimits ==
  ASSUME LimitInv, DecideSettlement \/ \E priced \in BOOLEAN : Kill(priced)
  PROVE  LimitInv'
<1>1. VenueInv'
  BY ExecutionsKnow DEF LimitInv
<1>2. UNCHANGED Base /\ phase # "OFF" /\ phase' \in {phase, "HALTED", "RECONCILE_REQUIRED"}
  BY DEF DecideSettlement, Kill, Begin, Base, Processable, Idle
<1>3. \/ todo' \in {<<>>, <<"KILL", "HALTED">>, <<"KILL", "ALERT", "HALTED">>}
      \/ /\ todo' \in {Execution, <<"KILL">> \o Execution} /\ UNCHANGED <<phase, seen>> /\ MayTrade
         /\ seen # Flat /\ \E fault, lost : doing' = SettlementIntent(fault, lost)
  <2>1. CASE DecideSettlement
    BY <2>1 DEF DecideSettlement, Begin, Processable
  <2>2. CASE \E priced \in BOOLEAN : Kill(priced)
    BY <2>2 DEF Kill, Begin
  <2>. QED BY <2>1, <2>2
<1>4. CASE todo' \in {<<>>, <<"KILL", "HALTED">>, <<"KILL", "ALERT", "HALTED">>}
  <2>1. /\ <<>> \in Seq(Silent) /\ <<"KILL", "HALTED">> \in Seq(Silent)
        /\ <<"KILL", "ALERT", "HALTED">> \in Seq(Silent)
    BY DEF Silent, Ends
  <2>2. TellsOK' /\ LimitsOK'
    BY <1>4, <2>1, QuietLimits DEF TellsOK, LimitsOK
  <2>. QED BY <1>1, <1>2, <2>2, BeginsLimits
<1>5. CASE /\ todo' \in {Execution, <<"KILL">> \o Execution} /\ UNCHANGED <<phase, seen>> /\ MayTrade
           /\ seen # Flat /\ \E fault, lost : doing' = SettlementIntent(fault, lost)
  <2>1. PICK fault, lost : doing' = SettlementIntent(fault, lost)
    BY <1>5
  <2>2. doing'.before = seen /\ doing'.planned = Flat /\ doing'.act = "settlement"
    BY <2>1 DEF SettlementIntent
  <2>3. todo' \in Early
    BY <1>5, ExecutionIsEarly
  <2>4. IntentOK(doing)'
    BY <1>5, <2>2 DEF IntentOK
  <2>5. TellsOK'
    BY <1>5, <2>2, <2>3, <2>4 DEF TellsOK, MayTrade
  <2>6. LimitsOK'
    BY <2>2 DEF LimitsOK
  <2>. QED BY <1>1, <1>2, <2>5, <2>6, BeginsLimits
<1>. QED BY <1>3, <1>4, <1>5

\* A new engine, a crash, an expired token and a new day.
LEMMA SurroundingsLimits ==
  ASSUME LimitInv, Boot \/ Crash \/ TokenExpires \/ NextDay
  PROVE  LimitInv'
<1>1. VenueInv'
  BY SurroundingsKnow DEF LimitInv
<1>2. CASE Boot
  <2>1. /\ todo' = <<>> /\ UNCHANGED <<journal, venue, sent>> /\ mem' = journal /\ seen' = venue
        /\ phase' \in {"BOOT_RECONCILE_REQUIRED", "BOOT_NEW_RUN"}
        /\ phase' = "BOOT_NEW_RUN" => ~journal.begun
    BY <1>2 DEF LimitInv, VenueInv, IInv, ScriptOK, Boot
  <2>2. OpenOK' /\ OrderOK' /\ ToldOK'
    BY <2>1, AccountSame
  <2>3. ~journal.begun => ~journal.halted /\ journal.open = {}
    <3>1. ~journal.begun => journal = EmptyJournal
      BY DEF LimitInv, OpenOK
    <3>2. ~EmptyJournal.halted /\ EmptyJournal.open = {}
      BY DEF EmptyJournal
    <3>. QED BY <3>1, <3>2
  <2>4. EngineOK'
    <3>1. \A i \in journal.open : i # NoIntent
      <4>1. \A i \in journal.open : i.id \in 1..journal.prepared
        BY DEF LimitInv, VenueInv, IInv, JournalOK
      <4>. QED BY <4>1, FlatTyped
    <3>. QED BY <2>1, <2>3, <3>1 DEF EngineOK, Entrusted
  <2>5. todo' \in Seq(Silent)
    BY <2>1, SilentScripts
  <2>. QED BY <1>1, <2>2, <2>4, <2>5, QuietLimits DEF LimitInv, TellsOK, LimitsOK
<1>3. CASE Crash
  <2>1. todo' = <<>> /\ UNCHANGED <<journal, venue, sent>> /\ phase' = "OFF"
    BY <1>3 DEF Crash
  <2>2. OpenOK' /\ OrderOK' /\ ToldOK'
    BY <2>1, AccountSame
  <2>3. EngineOK'
    BY <2>1 DEF EngineOK, Entrusted
  <2>4. todo' \in Seq(Silent)
    BY <2>1, SilentScripts
  <2>. QED BY <1>1, <2>2, <2>3, <2>4, QuietLimits DEF LimitInv, TellsOK, LimitsOK
<1>4. CASE TokenExpires
  <2>1. /\ todo' \in {<<>>, <<"ALERT", "HALTED">>} /\ UNCHANGED Base /\ UNCHANGED phase
        /\ todo # <<>>
    BY <1>4 DEF TokenExpires, Raise, Continue, Base
  <2>2. phase # "OFF"
    BY <2>1 DEF LimitInv, VenueInv, IInv, ScriptOK
  <2>3. todo' \in Seq(Silent)
    BY <2>1, SilentScripts
  <2>4. TellsOK' /\ LimitsOK'
    BY <2>3, QuietLimits DEF TellsOK, LimitsOK
  <2>. QED BY <1>1, <2>1, <2>2, <2>4, BeginsLimits
<1>5. CASE NextDay
  <2>1. UNCHANGED <<journal, mem, venue, seen, phase, todo, doing, sent>>
    BY <1>5 DEF NextDay
  <2>2. OpenOK' /\ OrderOK' /\ ToldOK'
    BY <2>1, AccountSame
  <2>3. EngineOK'
    BY <2>1 DEF LimitInv, EngineOK, Took
  <2>4. TellsOK' /\ LimitsOK'
    BY <2>1 DEF LimitInv, TellsOK, LimitsOK, MayTrade, IntentOK, MatchOK, ResolveOK, Explained, Took
  <2>. QED BY <1>1, <2>2, <2>3, <2>4 DEF LimitInv
<1>. QED BY <1>2, <1>3, <1>4, <1>5

\* An execution is the latest of all, of the unresolved intent, and what it
\* does to the file is known: a settlement closes, an entry opens its own.
LEMMA ExecutedNext ==
  ASSUME LimitInv, Executing, NEW effect \in BOOLEAN, Sent(effect), UNCHANGED <<journal, mem>>
  PROVE  /\ MayTrade /\ doing.before = seen /\ doing \in journal.open /\ mem = journal
         /\ IntentOK(doing) /\ todo = <<"EXECUTE">> /\ todo \in Late
         /\ doing.id = journal.prepared /\ doing.id # 0 /\ ~Took(doing)
         /\ \A i \in journal.open : i = doing
         /\ DOMAIN sent = 1..Len(sent) /\ DOMAIN sent' = 1..(Len(sent) + 1) /\ Len(sent) \in Nat
         /\ \A k \in DOMAIN sent : sent'[k] = sent[k] /\ sent[k].trade.id < doing.id
         /\ sent'[Len(sent) + 1].trade = AsTrade(doing) /\ sent'[Len(sent) + 1].effect = effect
         /\ Last(sent') = sent'[Len(sent) + 1]
         /\ AsTrade(doing).id = doing.id /\ AsTrade(doing).act = doing.act
<1>1. /\ MayTrade /\ doing.before = seen /\ doing \in journal.open /\ mem = journal
      /\ VenueInv /\ IInv
  BY ExecutingKnows DEF LimitInv, VenueInv
<1>2. todo = <<"EXECUTE">> /\ todo \in Late
  <2>1. todo \in Early \cup Late \cup Seq(Plain)
    BY <1>1 DEF IInv, ScriptOK
  <2>2. todo # <<>> /\ Head(todo) = "EXECUTE"
    BY DEF Executing
  <2>3. todo \notin Seq(Plain)
    BY <2>2, PlainSteps
  <2>4. todo = <<"EXECUTE">>
    BY <2>1, <2>2, <2>3, ExecutionSteps
  <2>. QED BY <2>4 DEF Late
<1>3. /\ DOMAIN sent = 1..Len(sent) /\ DOMAIN sent' = 1..(Len(sent) + 1) /\ Len(sent) \in Nat
      /\ \A k \in DOMAIN sent : sent'[k] = sent[k]
      /\ sent'[Len(sent) + 1] = [trade |-> AsTrade(doing), effect |-> effect, killed |-> journal.killed]
      /\ Last(sent') = sent'[Len(sent) + 1]
      /\ AsTrade(doing).id = doing.id /\ AsTrade(doing).act = doing.act
  BY <1>1, <1>2, SentKeeps
<1>4. sent'[Len(sent) + 1].trade = AsTrade(doing) /\ sent'[Len(sent) + 1].effect = effect
  BY <1>3
<1>5. \A k \in DOMAIN sent : sent[k].trade.id # doing.id
  BY <1>1, <1>2 DEF IInv, LateOK
<1>6. doing.id = journal.prepared /\ doing.id \in 1..journal.prepared /\ journal.prepared \in Nat
  BY <1>1, TradesTyped DEF LimitInv, OpenOK, IInv, JournalOK
<1>7. \A k \in DOMAIN sent : sent[k].trade.id \in 1..journal.prepared
  BY <1>1 DEF IInv, JournalOK
<1>8. \A k \in DOMAIN sent : sent[k].trade.id < doing.id
  BY <1>5, <1>6, <1>7
<1>9. IntentOK(doing) /\ \A i \in journal.open : i = doing
  <2>1. IntentOK(doing)
    BY <1>1 DEF LimitInv, OpenOK
  <2>2. \A i, j \in journal.open : i = j
    BY <1>1 DEF IInv, JournalOK
  <2>. QED BY <1>1, <2>1, <2>2
<1>10. ~Took(doing)
  BY <1>5 DEF Took
<1>. QED BY <1>1, <1>2, <1>3, <1>4, <1>6, <1>8, <1>9, <1>10

\* The position that an execution leads to shows its effect.
LEMMA TargetShows ==
  ASSUME LimitInv, IntentOK(doing), TRUE \in Effects(doing)
  PROVE  IF doing.act = "entry" THEN Target(doing).ref = doing.id ELSE Target(doing) = Flat
<1>1. CASE doing.act = "entry"
  <2>1. doing.planned \in Position
    BY DEF LimitInv, VenueInv, IInv, TypeOK, Intent
  <2>2. PICK r, u : doing.planned = [ref |-> r, units |-> u]
    BY <2>1 DEF Position
  <2>3. Part([ref |-> r, units |-> u]).ref = r
    BY DEF Part
  <2>4. Target(doing).ref = r
    BY <2>2, <2>3 DEF Target
  <2>. QED BY <1>1, <2>2, <2>4 DEF IntentOK
<1>2. CASE doing.act # "entry"
  <2>1. doing.fault # "partial"
    <3>1. doing.fault = "partial" => Effects(doing) = {doing.act = "entry"}
      BY DEF Effects
    <3>. QED BY <1>2, <3>1
  <2>. QED BY <1>2, <2>1 DEF Target, IntentOK
<1>. QED BY <1>1, <1>2

\* The account of all effects over an execution: its own is pending, and if
\* there is one, the file was what the engine saw, so that no other was missed.
LEMMA ExecutedAccount ==
  ASSUME LimitInv, Executing, NEW effect \in BOOLEAN, Sent(effect), UNCHANGED <<journal, mem>>,
         effect => TRUE \in Effects(doing) /\ venue = seen /\ venue' = Target(doing),
         ~effect => venue' = venue
  PROVE  OpenOK' /\ OrderOK' /\ ToldOK' /\ \A i \in journal.open : Took(i)' <=> effect
<1>. DEFINE last == Len(sent) + 1
<1>1. /\ doing.before = seen /\ doing \in journal.open /\ IntentOK(doing)
      /\ doing.id = journal.prepared /\ doing.id # 0 /\ ~Took(doing)
      /\ \A i \in journal.open : i = doing
      /\ DOMAIN sent' = DOMAIN sent \cup {last} /\ DOMAIN sent = 1..Len(sent) /\ Len(sent) \in Nat
      /\ \A k \in DOMAIN sent : sent'[k] = sent[k] /\ sent[k].trade.id < doing.id
      /\ sent'[last].trade = AsTrade(doing) /\ sent'[last].effect = effect
      /\ AsTrade(doing).id = doing.id /\ AsTrade(doing).act = doing.act
  <2>1. Len(sent) \in Nat => 1..(Len(sent) + 1) = (1..Len(sent)) \cup {Len(sent) + 1}
    OBVIOUS
  <2>. QED BY <2>1, ExecutedNext
<1>2. /\ journal' = journal /\ VenueInv /\ OpenOK /\ OrderOK /\ ToldOK
      /\ \A k \in DOMAIN sent : k < last /\ sent[k].trade.id # doing.id
      /\ doing.id \in Nat /\ \A k \in DOMAIN sent : sent[k].trade.id \in Nat
  <2>1. VenueInv
    BY DEF LimitInv
  <2>2. doing.id \in Nat /\ \A k \in DOMAIN sent : sent[k].trade.id \in Nat
    BY <1>1, <2>1, TradesTyped
  <2>. QED BY <1>1, <2>2 DEF LimitInv
<1>3. last \notin DOMAIN sent
  BY <1>1
<1>. HIDE DEF last
<1>4. ASSUME NEW i \in journal.open PROVE Took(i)' <=> effect
  <2>1. i = doing
    BY <1>1
  <2>2. Took(i)' => effect
    BY <1>1, <1>2, <2>1 DEF Took
  <2>3. effect => Took(i)'
    BY <1>1, <2>1 DEF Took
  <2>. QED BY <2>2, <2>3
<1>5. effect => IF doing.act = "entry" THEN venue'.ref = doing.id ELSE venue' = Flat
  BY <1>1, TargetShows
<1>6. OpenOK'
  <2>1. \A k \in DOMAIN sent' : sent'[k].trade.id = doing.id => sent'[k].trade = AsTrade(doing)
    BY <1>1, <1>2
  <2>3. journal.begun
    BY <1>1, <1>2 DEF OpenOK, EmptyJournal
  <2>4. ASSUME NEW i \in journal.open
        PROVE  /\ IntentOK(i)' /\ i.id = journal.prepared
               /\ \A k \in DOMAIN sent' : sent'[k].trade.id = i.id => sent'[k].trade = AsTrade(i)
               /\ Took(i)' => Shows(i)'
    <3>1. i = doing
      BY <1>1
    <3>2. IntentOK(i)'
      BY <1>1, <3>1 DEF IntentOK
    <3>3. Took(i)' => Shows(i)'
      BY <1>4, <1>5, <3>1 DEF Shows
    <3>. QED BY <1>1, <2>1, <3>1, <3>2, <3>3
  <2>. QED BY <1>2, <2>3, <2>4 DEF OpenOK
<1>7. OrderOK'
  <2>1. ASSUME NEW k \in DOMAIN sent', NEW n \in DOMAIN sent', k < n
        PROVE  sent'[k].trade.id < sent'[n].trade.id
    <3>1. CASE k \in DOMAIN sent /\ n \in DOMAIN sent
      BY <1>1, <1>2, <2>1, <3>1 DEF OrderOK
    <3>2. CASE k \in DOMAIN sent /\ n = last
      BY <1>1, <3>2
    <3>3. k # last
      <4>1. SUFFICES ASSUME k = last PROVE FALSE
        OBVIOUS
      <4>2. n \in DOMAIN sent => n < last
        BY <1>2
      <4>. QED BY <1>1, <2>1, <4>1, <4>2 DEF last
    <3>. QED BY <1>1, <3>1, <3>2, <3>3
  <2>2. ASSUME NEW n \in DOMAIN journal.booked, NEW k \in DOMAIN sent',
               sent'[k].trade.id = journal.booked[n].id
        PROVE  sent'[k].trade = journal.booked[n]
    <3>1. journal.booked[n].id # doing.id
      BY <1>1, <1>2 DEF OrderOK
    <3>2. k \in DOMAIN sent
      BY <1>1, <2>2, <3>1
    <3>. QED BY <1>1, <1>2, <2>2, <3>2 DEF OrderOK
  <2>. QED BY <1>2, <2>1, <2>2 DEF OrderOK
<1>8. ASSUME NEW k \in DOMAIN sent', sent'[k].effect
      PROVE  (Booked(k) \/ Pending(k) \/ Missed(k) \/ Replaced(k))'
  <2>1. CASE k = last
    <3>1. Pending(k)'
      BY <1>1, <1>2, <2>1 DEF Pending
    <3>. QED BY <3>1
  <2>2. CASE k \in DOMAIN sent
    <3>1. sent'[k] = sent[k] /\ sent[k].effect
      BY <1>1, <1>8, <2>2
    <3>2. CASE Booked(k)
      BY <1>2, <3>1, <3>2 DEF Booked
    <3>3. ~Pending(k)
      BY <1>1, <1>2, <2>2 DEF Pending
    <3>4. CASE Missed(k)
      <4>1. venue # doing.before
        BY <1>1, <3>4 DEF Missed
      <4>2. ~effect /\ venue' = venue
        BY <1>1, <4>1
      <4>3. \A i \in journal.open : ~Took(i)'
        BY <1>4, <4>2
      <4>. QED BY <1>2, <3>1, <3>4, <4>2, <4>3 DEF Missed, Shows
    <3>5. CASE Replaced(k)
      <4>1. PICK n \in DOMAIN journal.booked : \A m \in DOMAIN sent :
               sent[m].effect => sent[m].trade.id # journal.booked[n].id
        BY <3>5 DEF Replaced, Retold
      <4>2. journal.booked[n].id # doing.id
        BY <1>1, <1>2 DEF OrderOK
      <4>3. \A m \in DOMAIN sent' : sent'[m].effect => sent'[m].trade.id # journal.booked[n].id
        BY <1>1, <4>1, <4>2
      <4>. QED BY <1>2, <3>1, <3>5, <4>3 DEF Replaced, Retold
    <3>. QED BY <1>2, <2>2, <3>1, <3>2, <3>3, <3>4, <3>5 DEF ToldOK
  <2>. QED BY <1>1, <2>1, <2>2
<1>9. ToldOK'
  BY <1>8 DEF ToldOK
<1>. QED BY <1>4, <1>6, <1>7, <1>9

\* What an execution has to see to, beside the account: the engine knows its
\* effect when it knows the file, and says no more than it knows.
LEMMA ExecutedLimits ==
  ASSUME LimitInv, Executing, NEW effect \in BOOLEAN, Sent(effect), UNCHANGED <<journal, mem, phase>>,
         effect => TRUE \in Effects(doing) /\ venue = seen /\ venue' = Target(doing),
         ~effect => venue' = venue,
         seen' = seen \/ (effect /\ seen' = venue'),
         todo' \in Seq(Plain), VenueInv', TellsOK'
  PROVE  LimitInv'
<1>1. /\ MayTrade /\ doing.before = seen /\ doing \in journal.open /\ mem = journal
      /\ \A i \in journal.open : i = doing
  BY ExecutedNext
<1>2. OpenOK' /\ OrderOK' /\ ToldOK' /\ \A i \in journal.open : Took(i)' <=> effect
  BY ExecutedAccount
<1>3. EngineOK'
  <2>1. phase \in Entrusted /\ phase # "BOOT_NEW_RUN"
    BY <1>1 DEF MayTrade, Entrusted
  <2>2. ~mem.halted /\ \A i \in mem.open : i # NoIntent
    BY <2>1 DEF LimitInv, EngineOK, Entrusted
  <2>3. ASSUME NEW i \in journal.open PROVE (seen' = i.before \/ Took(i)') /\ seen' \in {i.before, venue'}
    <3>1. i.before = seen
      BY <1>1
    <3>. QED BY <1>2, <3>1
  <2>. QED BY <1>1, <2>1, <2>2, <2>3 DEF EngineOK
<1>4. LimitsOK'
  BY PlainScripts DEF LimitsOK
<1>. QED BY <1>2, <1>3, <1>4 DEF LimitInv

\* An execution (virtual_execution.py).
LEMMA ExecuteLimits ==
  ASSUME LimitInv, Execute
  PROVE  LimitInv'
<1>1. PICK effect \in Effects(doing) :
         /\ effect => venue = seen
         /\ venue' = (IF effect THEN Target(doing) ELSE venue)
         /\ seen' = (IF effect THEN Target(doing) ELSE seen)
         /\ Sent(effect)
  BY DEF Execute
<1>2. /\ Executing /\ UNCHANGED <<journal, mem, phase>> /\ todo' = Outcome(doing)
      /\ doing' = IF todo' = <<>> THEN NoIntent ELSE doing
  BY DEF Execute, Continue
<1>3. effect \in BOOLEAN
  <2>1. \A e \in Effects(doing) : e \in BOOLEAN
    BY Zenon DEF Effects
  <2>. QED BY <1>1, <2>1
<1>4. /\ effect => TRUE \in Effects(doing) /\ venue = seen /\ venue' = Target(doing)
      /\ ~effect => venue' = venue
  BY <1>1, <1>3
<1>5. MayTrade /\ doing \in journal.open /\ mem = journal
  BY <1>1, <1>2, <1>3, ExecutedNext
<1>6. \A i \in journal.open : Took(i)' <=> effect
  BY <1>1, <1>2, <1>3, <1>4, ExecutedAccount
<1>7. TellsOK'
  <2>1. CASE doing.fault = "none"
    <3>1. todo' # <<>> /\ Head(todo') = "CONFIRMED" /\ Tail(todo') \in Seq(Ends)
      BY <1>2, <2>1, OutcomeTails
    <3>2. effect = TRUE
      BY <1>1, <2>1 DEF Effects
    <3>3. doing' = doing
      BY <1>2, <3>1
    <3>4. Took(doing)'
      BY <1>5, <1>6, <3>2, <3>3 DEF Took
    <3>5. ResolveOK("CONFIRMED")'
      BY <1>2, <1>5, <3>3, <3>4 DEF ResolveOK, MayTrade, Entrusted
    <3>. QED BY <3>1, <3>5 DEF TellsOK
  <2>2. CASE doing.fault = "rejected"
    <3>1. todo' # <<>> /\ Head(todo') = "REJECTED" /\ Tail(todo') \in Seq(Ends)
      BY <1>2, <2>2, OutcomeTails
    <3>2. effect = FALSE
      BY <1>1, <2>2 DEF Effects
    <3>3. doing' = doing
      BY <1>2, <3>1
    <3>4. ~Took(doing)'
      BY <1>5, <1>6, <3>2, <3>3 DEF Took
    <3>5. ResolveOK("REJECTED")'
      BY <1>2, <1>5, <3>3, <3>4 DEF ResolveOK
    <3>. QED BY <3>1, <3>5 DEF TellsOK
  <2>3. CASE doing.fault = "crash"
    <3>1. todo' = <<>>
      BY <1>2, <2>3 DEF Outcome
    <3>. QED BY <3>1, SilentScripts DEF TellsOK
  <2>4. CASE doing.fault \notin {"none", "rejected", "crash"}
    <3>1. todo' \in Seq(Uncertain \cup Ends)
      BY <1>2, <2>4, OutcomeTails
    <3>2. CASE todo' = <<>>
      BY <3>2, SilentScripts DEF TellsOK
    <3>3. CASE todo' # <<>>
      <4>1. doing' \in mem'.open
        BY <1>2, <1>5, <3>3
      <4>. QED BY <3>1, <4>1 DEF TellsOK
    <3>. QED BY <3>2, <3>3
  <2>. QED BY <2>1, <2>2, <2>3, <2>4
<1>8. todo' \in Seq(Plain)
  BY <1>2, OutcomeIsPlain
<1>9. VenueInv'
  BY ExecuteKnows DEF LimitInv
<1>10. seen' = seen \/ (effect /\ seen' = venue')
  BY <1>1
<1>. QED BY <1>1, <1>2, <1>3, <1>4, <1>7, <1>8, <1>9, <1>10, ExecutedLimits

\* A write of the venue that fails, whether or not the new file is in place.
LEMMA WriteFailLimits ==
  ASSUME LimitInv, WriteFails
  PROVE  LimitInv'
<1>. DEFINE effect == venue' # venue
<1>1. /\ Executing /\ Sent(effect) /\ UNCHANGED <<journal, mem, phase, seen>>
      /\ todo' = <<"TORN", "TORN_ALERT">> \o Finish(FALSE)
      /\ doing' = IF todo' = <<>> THEN NoIntent ELSE doing
  BY DEF WriteFails, Continue
<1>2. effect => TRUE \in Effects(doing) /\ venue = seen /\ venue' = Target(doing)
  BY DEF WriteFails
<1>3. ~effect => venue' = venue
  OBVIOUS
<1>4. effect \in BOOLEAN
  OBVIOUS
<1>5. todo' \in Seq(Plain) /\ todo' \in Seq(Uncertain \cup Ends)
  BY <1>1, OutcomeIsPlain, OutcomeTails
<1>6. VenueInv'
  BY WriteFailKnows DEF LimitInv
<1>7. PICK took \in BOOLEAN : took = effect
  BY <1>4
<1>. HIDE DEF effect
<1>8. doing \in journal.open /\ mem = journal
  BY <1>1, <1>7, ExecutedNext
<1>9. TellsOK'
  <2>1. CASE todo' = <<>>
    BY <2>1, SilentScripts DEF TellsOK
  <2>2. CASE todo' # <<>>
    <3>1. doing' \in mem'.open
      BY <1>1, <1>8, <2>2
    <3>. QED BY <1>5, <3>1 DEF TellsOK
  <2>. QED BY <2>1, <2>2
<1>. QED BY <1>1, <1>2, <1>3, <1>5, <1>6, <1>7, <1>9, ExecutedLimits

\* The invariant holds initially ...
LEMMA InitLimits == Init => LimitInv
<1>. SUFFICES ASSUME Init PROVE LimitInv
  OBVIOUS
<1>1. VenueInv
  BY InitKnows
<1>2. OpenOK /\ OrderOK /\ ToldOK
  BY DEF Init, EmptyJournal, OpenOK, OrderOK, ToldOK
<1>3. EngineOK
  BY DEF Init, EngineOK, Entrusted
<1>4. todo \in Seq(Silent)
  BY SilentScripts DEF Init
<1>. QED BY <1>1, <1>2, <1>3, <1>4, QuietLimits DEF LimitInv, TellsOK, LimitsOK

\* ... and is kept by every step.
LEMMA StepLimits == LimitInv /\ [Next]_vars => LimitInv'
<1>1. ASSUME LimitInv, UNCHANGED vars PROVE LimitInv'
  <2>1. VenueInv'
    BY <1>1, StepKnows DEF LimitInv
  <2>2. UNCHANGED <<journal, mem, venue, seen, phase, todo, doing, sent>>
    BY <1>1 DEF vars
  <2>3. OpenOK' /\ OrderOK' /\ ToldOK'
    BY <1>1, <2>2, AccountSame
  <2>4. EngineOK'
    BY <1>1, <2>2 DEF LimitInv, EngineOK, Took
  <2>5. TellsOK' /\ LimitsOK'
    BY <1>1, <2>2 DEF LimitInv, TellsOK, LimitsOK, MayTrade, IntentOK, MatchOK, ResolveOK, Explained, Took
  <2>. QED BY <2>1, <2>3, <2>4, <2>5 DEF LimitInv
<1>2. ASSUME LimitInv, Next PROVE LimitInv'
  BY <1>2, AppendLimits, AppendFailLimits, PlainLimits, EntryLimits, SettlementLimits,
     SurroundingsLimits, ExecuteLimits, WriteFailLimits DEF Next
<1>. QED BY <1>1, <1>2

\* When an entry takes effect, the limits it was decided within count every
\* real effect.
LEMMA EntryIsCounted ==
  ASSUME LimitInv, Executing, Sent(TRUE), UNCHANGED <<journal, mem>>, venue = seen,
         Last(sent').trade.act = "entry"
  PROVE  /\ EntriesOn(Real, Last(sent').trade.day) < MaxEntriesPerDay
         /\ Streak(Real) < MaxConsecutiveLosses \/ Retold
<1>1. /\ doing.before = seen /\ doing \in journal.open /\ mem = journal /\ todo \in Late
      /\ \A k \in DOMAIN sent : sent[k].trade.id < doing.id
      /\ \A i \in journal.open : i = doing
      /\ Last(sent').trade = AsTrade(doing) /\ AsTrade(doing).act = doing.act
  BY ExecutedNext
<1>2. AsTrade(doing).day = doing.day
  BY DEF AsTrade
<1>3. VenueInv /\ OrderOK /\ ToldOK /\ LimitsOK
  BY DEF LimitInv
<1>4. /\ EntriesOn(journal.booked, doing.day) < MaxEntriesPerDay
      /\ Streak(journal.booked) < MaxConsecutiveLosses
  BY <1>1, <1>3 DEF LimitsOK
<1>5. ASSUME NEW k \in DOMAIN sent, sent[k].effect PROVE Booked(k) \/ Replaced(k)
  <2>1. ~Pending(k)
    <3>1. doing.id \in Nat /\ sent[k].trade.id \in Nat
      BY <1>1, <1>3, TradesTyped
    <3>. QED BY <1>1, <3>1 DEF Pending
  <2>2. ~Missed(k)
    BY <1>1 DEF Missed
  <2>. QED BY <1>3, <1>5, <2>1, <2>2 DEF ToldOK
<1>6. EntriesOn(Real, doing.day) < MaxEntriesPerDay
  <2>1. /\ EntriesOn(Real, doing.day) <= EntriesOn(journal.booked, doing.day)
        /\ EntriesOn(Real, doing.day) \in Nat /\ EntriesOn(journal.booked, doing.day) \in Nat
    BY <1>3, <1>5, EntriesNotMore DEF Replaced
  <2>. QED BY <1>4, <2>1, E1Assumption
<1>7. ASSUME ~Retold PROVE Streak(Real) < MaxConsecutiveLosses
  <2>1. /\ Streak(Real) <= Streak(journal.booked)
        /\ Streak(Real) \in Nat /\ Streak(journal.booked) \in Nat
    BY <1>3, <1>5, <1>7, StreakNotMore DEF Replaced
  <2>. QED BY <1>4, <2>1, E1Assumption
<1>. QED BY <1>1, <1>2, <1>6, <1>7

\* An entry takes effect only within the daily cap and the losing streak of all
\* real effects, through crashes, failing disks and faults of the execution:
\* the journal has counted each of them by the time the engine decides
\* (_risk_gate, _reconcile).
THEOREM EntriesWithinLimits == Spec => EntryWithinLimits
<1>1. ASSUME LimitInv, [Next]_vars, sent' # sent, Last(sent').effect, Last(sent').trade.act = "entry"
      PROVE  /\ EntriesOn(Real, Last(sent').trade.day) < MaxEntriesPerDay
             /\ Streak(Real) < MaxConsecutiveLosses \/ Retold
  <2>1. Execute \/ WriteFails
    BY <1>1, Zenon DEF Next, vars, AppendRecord, AppendFails, Boot, Crash, BootReconcile,
       ReconcileAfterUncertain, AcknowledgeRestart, DecisionRefused, Note, Incident, DecideEntry,
       DecideSettlement, Kill, TokenExpires, NextDay, Reconcile, Begin
  <2>2. PICK effect \in BOOLEAN : Sent(effect) /\ (effect => venue = seen)
    <3>1. CASE Execute
      <4>1. \A effect \in Effects(doing) : effect \in BOOLEAN
        BY Zenon DEF Effects
      <4>. QED BY <3>1, <4>1 DEF Execute
    <3>2. CASE WriteFails
      <4>1. Sent(venue' # venue) /\ (venue' # venue) \in BOOLEAN
        BY <3>2 DEF WriteFails
      <4>2. venue' # venue => venue = seen
        BY <3>2 DEF WriteFails
      <4>. QED BY <4>1, <4>2
    <3>. QED BY <2>1, <3>1, <3>2
  <2>3. Executing /\ UNCHANGED <<journal, mem>>
    BY <2>1 DEF Execute, WriteFails
  <2>4. effect = TRUE
    <3>1. Last(sent').effect = effect
      BY <1>1, <2>2, <2>3, ExecutedNext
    <3>. QED BY <1>1, <2>2, <3>1
  <2>. QED BY <1>1, <2>2, <2>3, <2>4, EntryIsCounted
<1>2. LimitInv /\ [Next]_vars =>
        [ sent' # sent /\ Last(sent').effect /\ Last(sent').trade.act = "entry" =>
            /\ EntriesOn(Real, Last(sent').trade.day) < MaxEntriesPerDay
            /\ Streak(Real) < MaxConsecutiveLosses \/ Retold ]_vars
  BY <1>1
<1>. QED BY <1>2, InitLimits, StepLimits, PTL DEF Spec, EntryWithinLimits
=============================================================================
