------------------------------ MODULE OandaBot ------------------------------
(***************************************************************************)
(* The OANDA practice bot: the automation cycle and its runner thread      *)
(* (backend/app/services/automation_service.py), orders                    *)
(* (broker_service.py), the bot's status (bot_service.py) and the requests *)
(* of backend/app/main.py that reach them.  Every thread of the server is  *)
(* either a request or a runner thread; every database commit and every    *)
(* call that changes the account is a step.                                *)
(***************************************************************************)
EXTENDS OandaAccount

CONSTANTS
    Client,         \* threads that serve requests
    Loop,           \* threads that AutomationRunner may start
    NoThread,       \* the cycle lock is free
    MaxFailures,    \* bound: no start is requested over more failures
    Faults          \* what may happen in this instance

\* "reply": an order or a close may fail, with or without an effect; "read": a
\* GET may fail; "crash": the server may die; "byhand": orders and bot starts
\* by request.
ASSUME BotAssumption ==
    /\ NoThread \notin Client \cup Loop
    /\ Client \cap Loop = {}
    /\ MaxFailures \in Nat
    /\ Faults \subseteq {"reply", "read", "crash", "byhand"}

VARIABLES
    enabled, failures,  \* auto_trade_state
    bot,                \* bot_status: status and mode
    pc, seen, order,    \* per thread: where it is, the number of positions it
                        \* read, and its order
    closing,            \* the result of the close in progress
    lock,               \* _cycle_lock
    runner, stopEvent,  \* threads started by AutomationRunner, and its event
    loaded,             \* per thread: the auto_trade_state its session still holds
    boot,               \* recover_automation_after_restart
    word, closeFails    \* history: what was started last since the server
                        \* started (nothing, the automation, the bot alone),
                        \* and failed closes in a row

Thread == Client \cup Loop

stateVars == <<enabled, failures, bot>>
threadVars == <<pc, seen, order, closing, lock>>
runnerVars == <<runner, stopEvent>>
serverVars == <<loaded, boot>>
history == <<word, closeFails>>
botVars == <<accountVars, stateVars, threadVars, runnerVars, serverVars, history>>

BotStatus == {"running", "stopped", "risk_stopped", "error_stopped"}
Mode == {"demo", "practice"}

CycleOnly ==
    {"market", "reconcile", "signal", "closecheck", "close", "closed", "closefail",
     "judge", "confirm", "decline", "riskstop"}
OrderLabel == {"place", "post", "filled", "orderfail", "emergency"}
RequestLabel ==
    {"initialize", "startbot", "runnerstop", "runnerstart", "stop", "disable", "stopbot"}
Label == {"idle", "fatal", "errorstop"} \cup CycleOnly \cup OrderLabel \cup RequestLabel

\* A session reads the row once and writes what it changed: until its next
\* commit it does not see the writes of others.
Load(t) == loaded' = [loaded EXCEPT ![t] = {[on |-> enabled, failures |-> failures]}]
Expire(t) == loaded' = [loaded EXCEPT ![t] = {}]

NoClose == [trades |-> {}, lost |-> FALSE]

BotInit ==
    /\ AccountInit
    /\ enabled = FALSE
    /\ failures = 0
    /\ bot = [status |-> "stopped", mode |-> "demo"]
    /\ pc = [t \in Thread |-> "idle"]
    /\ seen = [t \in Thread |-> 0]
    /\ order = [t \in Thread |-> {}]
    /\ closing = NoClose
    /\ lock = NoThread
    /\ runner = {}
    /\ stopEvent = FALSE
    /\ loaded = [t \in Thread |-> {}]
    /\ boot = "done"
    /\ word = "none"
    /\ closeFails = 0

Goto(t, label) == pc' = [pc EXCEPT ![t] = label]
SetBot(status) == bot' = [bot EXCEPT !.status = status]
Practising == bot.status = "running" /\ bot.mode = "practice"
InCycle(t) == lock = t
ReadFails == "read" \in Faults
ReplyFails == "reply" \in Faults

\* A runner thread leaves its loop when it finds the event set.
Looping == ~stopEvent
Finish(t) ==
    /\ Goto(t, "idle")
    /\ lock' = IF InCycle(t) THEN NoThread ELSE lock
    /\ runner' = IF Looping THEN runner ELSE runner \ {t}
    /\ order' = [order EXCEPT ![t] = {}]
    /\ seen' = [seen EXCEPT ![t] = 0]
    /\ closing' = IF InCycle(t) THEN NoClose ELSE closing
    /\ UNCHANGED stopEvent

Die(t) ==
    /\ Goto(t, "idle")
    /\ lock' = NoThread
    /\ runner' = runner \ {t}
    /\ seen' = [seen EXCEPT ![t] = 0]
    /\ UNCHANGED <<order, closing, stopEvent>>

Step(t, label) == Goto(t, label) /\ UNCHANGED <<seen, order, closing, lock, runnerVars>>

(***************************************************************************)
(* run_automation_cycle.                                                   *)
(***************************************************************************)
LockFreeForAll == TRUE
LockFree == lock = NoThread

\* A runner's wait times out, or a request asks for a cycle; under another
\* thread's cycle nothing happens.
BeginCycle(t) ==
    /\ boot = "done"
    /\ pc[t] = "idle"
    /\ t \in Client \/ (t \in runner /\ ~stopEvent)
    /\ LockFree
    /\ enabled /\ Practising
    /\ lock' = t
    /\ Goto(t, "market")
    /\ Load(t)
    /\ UNCHANGED <<accountVars, stateVars, seen, order, closing, runnerVars, boot, history>>

\* Account, price, candles and positions; the failure count is left alone.
\* Trades of one symbol are one position.
Positions == IF OpenTrades = {} THEN 0 ELSE 1
ReadMarketResets == failures' = 0
ReadMarket == UNCHANGED failures
Market(t) ==
    /\ pc[t] = "market"
    /\ \/ /\ seen' = [seen EXCEPT ![t] = Positions]
          /\ ReadMarket
          /\ Goto(t, "reconcile")
          /\ Expire(t)
          /\ UNCHANGED <<order, closing, lock, runnerVars>>
       \/ ReadFails /\ Step(t, "fatal") /\ UNCHANGED <<failures, loaded>>
    /\ UNCHANGED <<accountVars, enabled, bot, boot, history>>

\* _reconcile_closed_positions: without a position, every filled order.
ToReconcileWhileHeld(t) == IF seen[t] = 0 THEN {} ELSE Filled
ToReconcile(t) == IF seen[t] = 0 THEN Filled ELSE {}

Reconcile(t) ==
    LET due == ToReconcile(t) IN
    /\ pc[t] = "reconcile"
    /\ \/ due = {} /\ Step(t, "signal") /\ UNCHANGED <<row, results, enabled, failures>>
       \/ /\ due # {}
          /\ \A o \in due : Summarised(o)
          /\ Book(due)
          /\ Finish(t)
          /\ UNCHANGED <<enabled, failures>>
       \/ \* A trade that cannot be summarised: what was booked before is
          \* committed by _fatal_stop.
          \E done \in SUBSET due :
             /\ \A o \in done : Summarised(o)
             /\ \E o \in due \ done : row[o].traded /\ (ReadFails \/ ~Summarised(o))
             /\ Book(done)
             /\ enabled' = FALSE
             /\ failures' = failures + 1
             /\ Step(t, "errorstop")
       \/ \* A trade without an id is marked before the exception.
          \E done \in SUBSET due, u \in due :
             /\ ~row[u].traded
             /\ u \notin done
             /\ \A o \in done : Summarised(o)
             /\ \E s \in ResultsOf(done) : results' = results \o s
             /\ row' = [o \in Order |->
                          IF o \in done THEN [row[o] EXCEPT !.status = "closed"]
                          ELSE IF o = u THEN [row[o] EXCEPT !.status = "close_unconfirmed"]
                          ELSE row[o]]
             /\ Step(t, "fatal")
             /\ UNCHANGED <<enabled, failures>>
    /\ UNCHANGED <<trade, bot, serverVars, history>>

\* The strategy's signal decides: nothing, a close on the opposite signal, an
\* entry without a position; the entry may be too small for the risk budget.
Signal(t) ==
    /\ pc[t] = "signal"
    /\ \/ Finish(t) /\ UNCHANGED enabled
       \/ seen[t] > 0 /\ Step(t, "closecheck") /\ UNCHANGED enabled
       \/ seen[t] = 0 /\ Step(t, "place") /\ UNCHANGED enabled
       \/ seen[t] = 0 /\ enabled' = FALSE /\ Step(t, "riskstop")
    /\ UNCHANGED <<accountVars, failures, bot, serverVars, history>>

(***************************************************************************)
(* _close_position.                                                        *)
(***************************************************************************)
CloseCheck(t) ==
    /\ pc[t] = "closecheck"
    /\ IF Practising THEN Step(t, "close") ELSE Die(t)
    /\ UNCHANGED <<accountVars, stateVars, serverVars, history>>

\* The close and its confirmation.  It is refused when the position is gone,
\* or when orders by hand have turned it to the other side.
Refusable == OpenTrades = {} \/ ReplyFails \/ "byhand" \in Faults

Close(t) ==
    /\ pc[t] = "close"
    /\ \/ /\ OpenTrades # {}
          /\ \E outcome \in [OpenTrades -> BOOLEAN], lost \in BOOLEAN :
                /\ SumMayBe(outcome, lost)
                /\ PositionCloses(outcome)
                /\ \/ /\ closing' = [trades |-> OpenTrades, lost |-> lost]
                      /\ Goto(t, "closed")
                   \/ /\ ReplyFails
                      /\ Goto(t, "closefail")
                      /\ UNCHANGED closing
       \/ /\ Refusable
          /\ Goto(t, "closefail")
          /\ UNCHANGED <<trade, closing>>
    /\ UNCHANGED <<row, results, stateVars, seen, order, lock, runnerVars, serverVars, history>>

CloseDone(t) ==
    /\ pc[t] = "closed"
    /\ BookClose(closing)
    /\ failures' = 0
    /\ closeFails' = 0
    /\ Finish(t)
    /\ UNCHANGED <<trade, enabled, bot, serverVars, word>>

CloseFails(t) ==
    /\ pc[t] = "closefail"
    /\ failures' = failures + 1
    /\ closeFails' = closeFails + 1
    /\ Step(t, "judge")
    /\ UNCHANGED <<accountVars, enabled, bot, serverVars, word>>

TooManyFailures == failures >= 2
Judge(t) ==
    /\ pc[t] = "judge"
    /\ IF TooManyFailures
       THEN enabled' = FALSE /\ Step(t, "errorstop")
       ELSE Finish(t) /\ UNCHANGED enabled
    /\ UNCHANGED <<accountVars, failures, bot, serverVars, history>>

(***************************************************************************)
(* place_order, by a cycle or by a request.  Refused: quantities, spread,  *)
(* news or prices outside the model.                                       *)
(***************************************************************************)
MayPlace == Practising /\ enabled
PositionsFor(t) == IF InCycle(t) THEN seen[t] ELSE Cardinality(Filled)

Refuse(t) == IF InCycle(t) THEN Step(t, "decline") ELSE Finish(t)

PlaceOrder(t) ==
    /\ pc[t] = "place"
    /\ \/ /\ MayPlace
          /\ RiskAllows(PositionsFor(t))
          /\ \E o \in Unused :
                /\ SetStatus(o, "pending")
                /\ order' = [order EXCEPT ![t] = {o}]
          /\ Goto(t, "post")
          /\ UNCHANGED <<seen, closing, lock, runnerVars>>
       \/ Refuse(t) /\ UNCHANGED row
    /\ UNCHANGED <<results, trade, stateVars, serverVars, history>>

\* The order and the confirmation of its fill.
Post(t) ==
    /\ pc[t] = "post"
    /\ \/ \E o \in order[t] : OrderFills(o) /\ Step(t, "filled")
       \/ \E o \in order[t] : ReplyFails /\ OrderFills(o) /\ Step(t, "orderfail")
       \/ ReplyFails /\ UNCHANGED trade /\ Step(t, "orderfail")
    /\ UNCHANGED <<row, results, stateVars, serverVars, history>>

\* The trade id is that of the trade the fill opened, if it opened one.
OrderFilled(t) ==
    /\ pc[t] = "filled"
    /\ \E o \in order[t] :
          row' = [row EXCEPT ![o] = [status |-> "filled", traded |-> trade[o] # "none"]]
    /\ IF InCycle(t) THEN Step(t, "confirm") ELSE Finish(t)
    /\ UNCHANGED <<results, trade, stateVars, serverVars, history>>

OrderFails(t) ==
    /\ pc[t] = "orderfail"
    /\ \E o \in order[t] : SetStatus(o, "emergency_stopped")
    /\ Step(t, "emergency")
    /\ UNCHANGED <<results, trade, stateVars, serverVars, history>>

EmergencyStop(t) ==
    /\ pc[t] = "emergency"
    /\ SetBot("error_stopped")
    /\ Refuse(t)
    /\ UNCHANGED <<accountVars, enabled, failures, serverVars, history>>

\* After a fill the cycle reads the positions again.
ConfirmPosition(t) ==
    /\ pc[t] = "confirm"
    /\ \/ failures' = 0 /\ closeFails' = 0 /\ Finish(t)
       \/ ReadFails /\ Step(t, "fatal") /\ UNCHANGED <<failures, closeFails>>
    /\ UNCHANGED <<accountVars, enabled, bot, serverVars, word>>

\* After a refusal it switches the automation off and stops a running bot.
Decline(t) ==
    /\ pc[t] = "decline"
    /\ enabled' = FALSE
    /\ IF bot.status = "running" THEN Step(t, "riskstop") ELSE Finish(t)
    /\ UNCHANGED <<accountVars, failures, bot, serverVars, history>>

RiskStop(t) ==
    /\ pc[t] = "riskstop"
    /\ SetBot("risk_stopped")
    /\ Finish(t)
    /\ UNCHANGED <<accountVars, enabled, failures, serverVars, history>>

\* _fatal_stop, over the row as the session holds it.
FatalStop(t) ==
    /\ pc[t] = "fatal"
    /\ \/ /\ loaded[t] = {}
          /\ enabled' = FALSE
          /\ failures' = failures + 1
       \/ \E state \in loaded[t] :
             /\ enabled' = (enabled /\ ~state.on)
             /\ failures' = state.failures + 1
    /\ Step(t, "errorstop")
    /\ Expire(t)
    /\ UNCHANGED <<accountVars, bot, boot, history>>

ErrorStop(t) ==
    /\ pc[t] = "errorstop"
    /\ SetBot("error_stopped")
    /\ Finish(t)
    /\ UNCHANGED <<accountVars, enabled, failures, serverVars, history>>

(***************************************************************************)
(* Requests.                                                               *)
(***************************************************************************)
Request(t, label) ==
    /\ boot = "done"
    /\ pc[t] = "idle" /\ t \in Client
    /\ Step(t, label)
    /\ UNCHANGED <<accountVars, stateVars, boot, closeFails>>

StartRequested(t) ==
    failures <= MaxFailures /\ Request(t, "initialize") /\ Load(t) /\ word' = "start"
StopRequested(t) == Request(t, "stop") /\ UNCHANGED <<loaded, word>>
OrderRequested(t) ==
    "byhand" \in Faults /\ Request(t, "place") /\ UNCHANGED <<loaded, word>>

\* start_bot by request; live is refused by stopping the bot.
BotStartRequested(mode) ==
    /\ boot = "done"
    /\ "byhand" \in Faults
    /\ bot' = IF mode \in Mode THEN [status |-> "running", mode |-> mode]
              ELSE [bot EXCEPT !.status = "risk_stopped"]
    /\ word' = IF word = "none" THEN "none" ELSE "bot"
    /\ UNCHANGED <<accountVars, enabled, failures, threadVars, runnerVars, serverVars, closeFails>>

\* initialize_automation: what is as it was read is not written.
Initialize(t) ==
    /\ pc[t] = "initialize"
    /\ \/ /\ \E state \in loaded[t] :
                /\ enabled' = (enabled \/ ~state.on)
                /\ failures' = IF state.failures = 0 THEN failures ELSE 0
          /\ closeFails' = 0
          /\ Step(t, "startbot")
          /\ Expire(t)
       \/ /\ ReadFails
          /\ Step(t, "fatal")
          /\ UNCHANGED <<enabled, failures, closeFails, loaded>>
    /\ UNCHANGED <<accountVars, bot, boot, word>>

StartBot(t) ==
    /\ pc[t] = "startbot"
    /\ bot' = [status |-> "running", mode |-> "practice"]
    /\ Step(t, "runnerstop")
    /\ UNCHANGED <<accountVars, enabled, failures, serverVars, history>>

\* AutomationRunner.stop: waiting threads end, a thread in a cycle is waited
\* for, at most two seconds.
EndWaiting ==
    /\ stopEvent' = TRUE
    /\ runner' = {u \in runner : pc[u] # "idle"}

\* AutomationRunner.start, under its own lock: stop, clear the event, a new
\* thread.
RunnerStop(t) ==
    /\ pc[t] = "runnerstop"
    /\ \A u \in Thread : pc[u] # "runnerstart"
    /\ EndWaiting
    /\ Goto(t, "runnerstart")
    /\ UNCHANGED <<accountVars, stateVars, seen, order, closing, lock, serverVars, history>>

LeaveEvent == UNCHANGED stopEvent
ClearEvent == stopEvent' = FALSE
RunnerStart(t) ==
    /\ pc[t] = "runnerstart"
    /\ ClearEvent
    /\ \E u \in Loop \ runner : runner' = runner \cup {u}
    /\ Goto(t, "idle")
    /\ UNCHANGED <<accountVars, stateVars, seen, order, closing, lock, serverVars, history>>

\* The stop request: runner, automation, bot.
StopRunner(t) ==
    /\ pc[t] = "stop"
    /\ EndWaiting
    /\ Goto(t, "disable")
    /\ UNCHANGED <<accountVars, stateVars, seen, order, closing, lock, serverVars, history>>

Disable(t) ==
    /\ pc[t] = "disable"
    /\ enabled' = FALSE
    /\ Step(t, "stopbot")
    /\ UNCHANGED <<accountVars, failures, bot, serverVars, history>>

StopBot(t) ==
    /\ pc[t] = "stopbot"
    /\ SetBot("stopped")
    /\ Finish(t)
    /\ UNCHANGED <<accountVars, enabled, failures, serverVars, history>>

(***************************************************************************)
(* A crash, and the restart of the server.                                 *)
(***************************************************************************)
Crash ==
    /\ "crash" \in Faults
    /\ boot' = "recover"
    /\ pc' = [t \in Thread |-> "idle"]
    /\ seen' = [t \in Thread |-> 0]
    /\ order' = [t \in Thread |-> {}]
    /\ closing' = NoClose
    /\ lock' = NoThread
    /\ runner' = {}
    /\ stopEvent' = FALSE
    /\ loaded' = [t \in Thread |-> {}]
    /\ word' = "none"
    /\ UNCHANGED <<accountVars, stateVars, closeFails>>

\* recover_automation_after_restart
RecoverKeepsRunning ==
    /\ boot = "recover"
    /\ boot' = "done"
    /\ UNCHANGED <<accountVars, stateVars, threadVars, runnerVars, loaded, history>>
Recover ==
    /\ boot = "recover"
    /\ enabled' = FALSE
    /\ boot' = IF enabled THEN "stopbot" ELSE "done"
    /\ UNCHANGED <<accountVars, failures, bot, threadVars, runnerVars, loaded, history>>

RecoverBot ==
    /\ boot = "stopbot"
    /\ SetBot("stopped")
    /\ boot' = "done"
    /\ UNCHANGED <<accountVars, enabled, failures, threadVars, runnerVars, loaded, history>>

CycleStep(t) ==
    \/ Market(t) \/ Reconcile(t) \/ Signal(t)
    \/ CloseCheck(t) \/ Close(t) \/ CloseDone(t) \/ CloseFails(t) \/ Judge(t)
    \/ ConfirmPosition(t) \/ Decline(t) \/ RiskStop(t)
OrderStep(t) ==
    \/ PlaceOrder(t) \/ Post(t) \/ OrderFilled(t) \/ OrderFails(t) \/ EmergencyStop(t)
RequestStep(t) ==
    \/ Initialize(t) \/ StartBot(t) \/ RunnerStop(t) \/ RunnerStart(t)
    \/ StopRunner(t) \/ Disable(t) \/ StopBot(t)
ThreadStep(t) ==
    CycleStep(t) \/ OrderStep(t) \/ RequestStep(t) \/ FatalStop(t) \/ ErrorStop(t)
Asked(t) == StartRequested(t) \/ StopRequested(t) \/ OrderRequested(t)
AccountStep ==
    /\ \E o \in Order : TradeCloses(o)
    /\ UNCHANGED <<stateVars, threadVars, runnerVars, serverVars, history>>

BotNext ==
    \/ \E t \in Thread : BeginCycle(t) \/ ThreadStep(t) \/ Asked(t)
    \/ \E mode \in Mode \cup {"live"} : BotStartRequested(mode)
    \/ AccountStep
    \/ Crash \/ Recover \/ RecoverBot

BotSpec == BotInit /\ [][BotNext]_botVars

(***************************************************************************)
(* What is promised.                                                       *)
(***************************************************************************)

\* The type of every variable, and who holds the cycle lock.
BotTypeOK ==
    /\ AccountTypeOK
    /\ enabled \in BOOLEAN
    /\ failures \in Nat
    /\ bot \in [status : BotStatus, mode : Mode]
    /\ pc \in [Thread -> Label]
    /\ seen \in [Thread -> Nat]
    /\ order \in [Thread -> SUBSET Order]
    /\ closing \in Result
    /\ lock \in Thread \cup {NoThread}
    /\ runner \subseteq Loop
    /\ stopEvent \in BOOLEAN
    /\ loaded \in [Thread -> SUBSET [on : BOOLEAN, failures : Nat]]
    /\ boot \in {"done", "recover", "stopbot"}
    /\ word \in {"none", "start", "bot"}
    /\ closeFails \in Nat
    /\ \A t \in Thread : pc[t] \in CycleOnly => lock = t
    /\ lock # NoThread => pc[lock] # "idle"

Sending(t) == pc[t] = "post"

\* Cycles alone never hold two positions, whatever becomes of replies, of the
\* server and of the runner's threads: "サイクルを排他実行し ... 二重注文を防止"
\* (run_automation_cycle).
OneTradeAtATime == \A o, p \in OpenTrades : o = p

\* An entry of a cycle is weighed against the result of every order that is
\* recorded as filled: none of them waits to be reconciled
\* (_reconcile_closed_positions before place_order).
EntryKnowsFilledOrders == \A t \in Thread : Sending(t) /\ InCycle(t) => Filled = {}

\* After a restart nothing is sent until somebody asks for a start again
\* (recover_automation_after_restart).
NothingSentUnasked == \A t \in Thread : Sending(t) \/ pc[t] = "close" => word # "none"

\* Two failed closes in a row stop the bot: "決済失敗が2回連続した場合は
\* `error_stopped`" (docs/SAFETY.md).  Starts that overlap lose a count
\* (initialize_automation, _fatal_stop): see OandaBotOverlap.
ClosesStopAfterTwo == closeFails <= 2

\* A result in the order log is that of trades that are closed, and of one
\* trade with its sign, although positions are read before orders by hand are
\* filled (_reconcile_closed_positions, closed_trade_summary).
BookedIsClosed ==
    \A i \in DOMAIN results : \A o \in results[i].trades :
        /\ trade[o] \in {"won", "lost"}
        /\ results[i].trades = {o} => trade[o] = Outcome(results[i].lost)

\* The losses an order is weighed against are not more than the trades that
\* were lost.
LossesCountedOnce == Cardinality(LosingRows) <= Cardinality(LostTrades)

=============================================================================
