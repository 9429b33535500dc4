# Verification of the execution cores of fx-strategy-lab

`fx-strategy-lab` is a Python laboratory for FX strategies. Most of it computes
(back-tests, reports, evidence documents); the parts with a protocol are the
four state machines that act on an account, real or virtual. This project models
them: the H-11 v4 engine with its fake broker, the v4 actual path against the
GMO API, the OANDA practice bot, and the E1 shadow engine. Paths below are
relative to `src/backend/app/` unless they start with `docs/`.

## 1. Inventory

| Component | State it keeps | Operations | Interacts with | What is hard |
|---|---|---|---|---|
| v4 contract `h11_auto/v4_gmo_contracts.py` | none | transition table, action plans, snapshots, preflight, scheduled exit | used by all v4 parts | a missing edge strands a cycle |
| v4 state store `h11_auto/v4_gmo_persistence.py` | SQLite: cycles, action attempts, metadata (halt, generation), journal | create, attempt, outcome, transition, halt, clear | engine, runtime | each method is one transaction; crash between two |
| v4 engine `h11_auto/v4_gmo_engine.py` | none of its own | run a signal, resume, five attempts, five reconciliations | store, broker, clock | unknown results, partial fills, wrong-size protection, deadline |
| v4 boundary `h11_auto/v4_gmo_boundary.py` | calls made | perform once, reconcile | engine | what a read shows |
| v4 runtime `h11_auto/v4_gmo_runtime.py` | process lock file | run, resume, operator reload | store, engine, risk file, heartbeat file, notifier | concurrent command lines, clock set back, stuck halts |
| risk gate and heartbeat `h11_auto/runtime_safety.py` | two JSON files | gate, count entry, closed result, kill; heartbeat, evaluate | runtime, actual path | calendar roll, stop latching, exactly-once closed results |
| v4 actual coordinator `h11_auto/v4_gmo_actual_coordinator.py` | SQLite: one row per cycle, attempts, halt, pending marker, its resolution, external-flat marker | reserve, release, preflight, attempt, mark and resolve pending, plan, confirm, metrics, external flat | sessions, supervisor, console | several owners of one database |
| coordinated path, adapter, driver, exit dispatcher `services/h11_v4_gmo_*` | permits, exit markers, risk file | prepare, bind, enter, protect, confirm, drive, exit | coordinator, GMO API | unknown replies, three GETs for one snapshot, crash between metrics and risk file, midnight |
| monitor supervisor `h11_auto/v4_gmo_monitor_supervisor.py` | heartbeat, status files | tick every 15 s | coordinator, exit markers, account evidence | a deadline nobody else watches |
| preparation guard, activation gates | marker files, digests | check, consume | coordinated path | one-use markers per day |
| OANDA practice bot `services/automation_service.py`, `broker_service.py`, `bot_service.py`, `main.py` | database rows (order log, automation state, bot status), runner thread, event, cycle lock | start, stop, cycle, manual order, bot start, restart recovery | OANDA practice API | requests against runner threads, stale ORM rows, lost replies |
| E1 shadow engine `shadow/e1/*` | append-only journal, venue file | boot, reconcile, acknowledge, decide, execute, kill, dead-man, incident | its own files | a crash or a failing disk between any two records |
| Phase A cycle `h11_auto/{engine,state_machine,recovery,...}.py` | SQLite | run, recover | process lock | predecessor of v4 |
| manual ledger `h11_manual/*` | SQLite | record, settle, synchronise | API | idempotent settlement |
| back-tests, strategies, `live_verification/`, scripts, frontend | files | batch computation, display | - | nothing concurrent |

What makes the modelled parts correct:

* *store and engine*: an action of a cycle reaches the broker at most once; the
  store never has to refuse the engine; no reachable point is stuck;
* *engine and broker*: whatever is open belongs to an unfinished cycle; an entry
  meets an empty book; a position is not closed under a live protection order;
* *runtime*: one unfinished cycle; nothing is sent under a halt; a halt is
  lifted only over a flat book; the risk calendar never moves back;
* *risk file*: what it has counted is what happened; a limit that is reached
  latches a stop, and a stop stays;
* *actual path*: a POST is charged to its own day before it leaves; whatever
  may still change the account is marked in the database; exposure is never
  forgotten; an exit closes exactly what is open and, completed, leaves nothing;
* *OANDA bot*: one position at a time; an entry is decided with every earlier
  order reconciled; nothing is sent after a restart that nobody asked for;
* *E1 engine*: an intent is recorded before it is executed and executed once;
  limits count every real effect, also those whose confirmation was lost; a kill
  is final;
* *over time*: a cycle settles, lost protection is noticed, a halted cycle is
  released, an exit concludes, an entry is not forgotten, a closed trade is
  booked.

Three of the machines make the same promise about what they send, stated once
in `PersistentTransport` and implemented by each of them. The hazards behind the
properties are listed with their lines in `PROJECT.json`.

## 2. Modules

```
V4GmoContracts   PhaseBRiskRules ---- PhaseBClosedResults ---- PhaseBRiskLedger
   |        |          |        |               |
V4GmoStore  V4GmoBroker|        |               |   V4GmoActualStore
       \    /          |   PhaseBRiskRulesProofs|          |
     V4GmoEngine       |                        |   V4GmoActualBroker
            \          |                        |          |
             V4GmoRuntime                      V4GmoActualPath ---- V4GmoActualLiveness
              /        \                                |
   V4GmoLiveness    V4GmoRefinement          V4GmoActualRefinement
                      |      \                   /      |
             V4GmoProgress    \                 /  V4GmoActualProgress
OandaAccount                  PersistentTransport
   |                                 |
OandaBot -- OandaBotLiveness   E1ShadowRefinement -- E1Shadow
   |
OandaBotOverlap
```

Proofs are in the modules `...Proofs`; `MC...` modules add symmetry sets and
definitions for TLC. Modules that have no `MC` module are checked directly.

**PersistentTransport** is the abstract specification: a job is persisted before
it is sent, sent at most once, never after it was given up, and the next job is
persisted only when none is in flight. Its jobs are the pairs of a cycle and an
action (`V4GmoRefinement`, `V4GmoActualRefinement`) or the intents of a journal
(`E1ShadowRefinement`). The refinement mappings read the persisted state and a
history of what was sent; a request sent twice or without a record maps outside
the abstract states, or back to "new", so that it is refused as a step.

### The v4 engine

**V4GmoContracts.** `CycleState` is `V4GmoCycleState`; `AllowedTransition` is
`require_v4_transition`; the predicates on snapshots (`NothingOpen`,
`FlatSnapshot`, `ExactlyProtected`, ...) are the conditions the engine computes
inline. A snapshot that is missing, stale or not `result_known` is treated alike
by every reader, so the field `known` stands for the three. `entry_status` is
never read by the engine and is left out.

**V4GmoStore.** A column is a function on cycle references. One method is one
`BEGIN IMMEDIATE` transaction, hence one atomic operator. The journal and the
outcome labels are written and never read by a decision; only the step from
`ATTEMPT_STARTED` to a recorded outcome is kept.

**V4GmoBroker.** External. A request that was sent stays on the wire until it is
settled, with any effect the engine is prepared to find: none at all, a partial
fill with or without a working remainder, a protection order of any size, a
partial close. Between requests a remainder fills, a protection order fires or
disappears, the position is liquidated, or the operator flattens the account.
`ReadMode` says what a snapshot shows:

* `settled`: a read is known only once everything sent has been settled. This
  is what the profile assumes of its broker, and what the properties about the
  book need;
* `early`: a read may come before that;
* `scripted`: `FakeV4GmoBroker`, which hands out any snapshot, consistent or
  not. It is the only broker `v4_gmo_runtime.py` accepts today.

The runs use settled reads. For the other two modes TLC's state spaces say
little that the proofs do not say for every size: `TypeCorrect`,
`NeverSentTwice`, `OneCycleAtATime`, `AttemptsAdmitted`, `HaltStopsSending`,
`NextStepIsAStep` and `RiskDayNeverMovesBack` hold for each `ReadMode`.

**V4GmoEngine.** A step is one store transaction or one broker call. The code's
five `_attempt_*` methods have the same shape, so `pc` names the five points
they share (`attempt`, `perform`, `outcome`, `settle`, `read`) plus `decide`,
which holds the snapshot read, and `ensure` for `_ensure_protection`. What is
done at a point depends on the persisted state, as in the code. `ResumePoint` is
the dispatch of `resume_synthetic`. `POLICY_CONFIG_HASH_MISMATCH` is not
modelled: `bind_generation` has already refused another policy.

**V4GmoRuntime.** `Start` acquires the lock and reads the clock; `RunGate`,
`BootReconcile`, `RiskGate`, `CreateCycleStep` are the stages of
`run_v4_gmo_once_no_post`, `ResumeGate` of `resume_v4_gmo_once_no_post`,
`ReloadGate`, `ClearHalted`, `ClearGlobal` of `operator_reload_v4_gmo_no_post`.
`Crash` ends a process between any two steps, keeping the store and the files.
An exception that leaves a method is a `Leave`: the `finally` clause releases
the lock. `sent` and `entryRun` are history variables.

**V4GmoLiveness** adds fairness and a flag `calm` after which nothing crashes.

**V4GmoProgress** models no code; it says why a command line ends. `StepsLeft(p)`
counts the steps a process has left: the engine works in rounds of at most seven
steps, one round per action that is still to be attempted. `NextStep(p)` is a
next step for each place where a process can stand.

### The risk file

**PhaseBRiskRules.** The stored risk state as a record; `RollCalendar`,
`GateAllows` and `RecordEntry` are `_roll_calendar`,
`evaluate_risk_before_entry` and `record_risk_entry_attempt`.

**PhaseBClosedResults.** `RecordClosed` is `record_closed_result`, with the
order that matters: the existing stop is read before the calendar is rolled.

**PhaseBRiskLedger.** The life of one risk file under its callers: entries, one
position at a time, results applied once per cycle however often they are
offered, days, the operator's kill. `lost` and `entered` are what really
happened; a result is its loss, 0 for a win.

### The actual path

**V4GmoActualStore.** The coordinator database: a row per signal, the attempts,
and the metadata keys of the halt, the pending transport, its resolution and the
external-flat marker. One operator is one transaction. `born` is the order of
creation, which decides what "newest" means to the supervisor and the driver.

**V4GmoActualBroker.** External: accepted orders on the wire, and a book per
cycle. A reconciliation is three GETs (`ReadExecutions`, `ReadPositions`,
`ReadOrders`), put together as `_reconcile_rows` does; without `slow` in
`Faults` the account executes what it accepted before it is next read, with it
orders take effect later or never.

**V4GmoActualPath.** Sessions, the supervisor and the console over the shared
database. A session prepares, reserves, takes its one-use permit, binds under
the process lock, reads and records the preflight, and then repeats one pattern
per action: `Attempt` (with the pending marker), `ChargeEntry` for the entry,
`Post`, `Outcome` for the reply, three GETs, `Recover` from what they show.
`PersistPlan`, `Confirm`, `Drive`, `Claim`, `Exit`, `RecordMetrics`,
`ApplyResult`, `CompleteExit`, `FailExit` are the stages after it.
`SupervisorTick` is one tick as the committed generation makes it (section 5),
`ConsoleReconciles` the external-flat release.
`Raise` is an exception that reaches `finally`; `RaiseHalted` one on whose way
the halt is latched. Whatever depends on quotes, market status, entry windows,
digests or confirmations is the nondeterministic refusal `Refused`.

`Faults` selects what may go wrong: `crash`, `reply` (lost or rejected), `read`
(a GET fails), `gate` (a refusal), `slow`, `operator` (trades by hand),
`console`. `EvidenceWindow` is one constant for the windows of 2 to 15 seconds
for which the code accepts a reconciliation. Over-approximations: the validity
of a signal and of a permit in time is not bounded, so a session may be slower
than the code allows. Not modelled: a database error between a dispatched POST
and its record, which leaves the same state as a crash there.

**V4GmoActualLiveness** adds the fairness of the surroundings and of a driver.

**V4GmoActualProgress** counts the steps a session has left
(`SessionStepsLeft(p)`), from its stage and the action it is about.

### The OANDA practice bot

**OandaAccount.** The order log as the code queries it, and the practice account
behind the API. An order names the trade it opens; all orders have one size and
one symbol, so that a second order against an open trade closes it.
`ConsecutiveLosses` and the daily count are what `place_order` sums, over every
row that has a result.

**OandaBot.** A thread of the server is a request (`Client`) or a runner thread
(`Loop`); a step is one database commit or one call that changes the account.
The cycle is `BeginCycle`, `Market`, `Reconcile`, `Signal`, `CloseCheck`,
`Close`, `CloseDone`/`CloseFails`, `Judge`, `PlaceOrder`, `Post`,
`OrderFilled`/`OrderFails`, `EmergencyStop`, `ConfirmPosition`, `Decline`,
`RiskStop`, `FatalStop`, `ErrorStop`; the requests are `Initialize`, `StartBot`,
`RunnerStop`, `RunnerStart`, `StopRunner`, `Disable`, `StopBot`; a restart is
`Crash`, `Recover`, `RecoverBot`. `loaded` is the `auto_trade_state` row a
session still holds: SQLAlchemy writes only what differs from it, which is how a
late failure overwrites the count of others. The checks of `place_order` and its
commit of the pending row are one step, and prompt execution of a market order
is assumed. Sides of positions are not modelled.

**OandaBotOverlap** adds a history variable: whether a start was asked for while
another request still held the row it had read with the automation off. Requests
are served concurrently (FastAPI runs these endpoints on a thread pool), so two
clients can do that.

**OandaBotLiveness** adds fairness.

### The E1 shadow engine

**E1Shadow.** Every operation of the engine is a script `todo` of journal
records and at most one `EXECUTE`, run off one by one by `AppendRecord` and
`Execute`; `Begin` starts a script, `Continue` goes on with it. `journal` is what
the records in the file say, `mem` what the engine's copy says; they differ
(`behind`) after an fsync that failed although the line was written, and then
every later write fails until a restart. `venue` and `seen` are the same pair
for the venue file. `AppendFails`, `WriteFails`, `TokenExpires`, `Crash` may
come before any record; `Injected` are the fault kinds the executor knows.
`PhaseAfterFailure` and `Raise` are the handlers: what each `except` clause sets,
and which failures a kill catches.

`EntryWithinLimits` compares the two limits with `Real`, the trades that took
effect, not with what the journal tells; it leaves out the runs in which a
settlement was `Retold` (section 6).

Decisions see days, not prices: amounts at risk, cooldown, market data and
missing heartbeats are refusals (`Note`) that may come at any time. Days are
those of the caller's evaluation times, which do not go back. One of the
`MaxIntents` intents is left for a kill. A half-written journal line makes the
next boot refuse the file, which changes nothing, and is not modelled.
`ACCEPTED_RESULT_STATE_MISMATCH` and `INITIAL_VENUE_NOT_FLAT` cannot be reached
over one engine and one run root and are left out.

## 3. Runs

All bounds are constants of the cfg files. In the v4 runs a day is one tick and
`MaxUnprotected = 0`, so one tick is at once a new day and a missed deadline.

| Run | Instance | Shows |
|---|---|---|
| `V4GmoTwoCycles` | 2 cycles, lot 1, 1 process, settled reads | `SingleUnfinishedCycle`, `ExposureIsOwned`, `EntryMeetsEmptyBook`, `HaltLiftedOnlyWhenFlat` |
| `V4GmoPartialFills` | 1 cycle, lot 2, protection up to 3, 2 processes, clock may be set back | `TypeOK`, `AtMostOneSend`, `NoExitOverLiveProtection`, `StoreNeverRefuses`, `ProcessNeverStuck`, `RiskCalendarNeverMovesBack`, `NothingSentWhileHalted` |
| `V4GmoLiveness` | 1 cycle, fairness | `CycleSettles`, `LostProtectionIsNoticed`, `HaltedCycleIsReleased`, `GlobalHaltIsReleased`, `ImplementsTransport` |
| `PhaseBRiskLedger` | 5 trades, 6 days in 3 months, limits 3 a day, 5 a month, 3 in a row | `LimitLatchesStop`, `LossesBounded`, `BooksAreReal`, `StopIsFinal` |
| `V4GmoActualPrompt` | 2 sessions, 2 signals, size 2, 5 ticks over 3 days; crashes, lost replies, failing reads, refusals | `PostIsCharged`, `WireIsMarked`, `ExposureIsRemembered`, `CompletedIsFlat`, `ExitIsExact`, `ImplementsTransport` |
| `V4GmoActualFaults` | 2 sessions, 2 signals, size 2, 2 days; slow orders, lost replies, crashes, operator, console | `OnePositionAtATime`, `ConfirmedIsAll` |
| `V4GmoActualLiveness` | 1 session, 2 signals, 5 ticks, fairness | `ExitConcludes`, `NoEntryIsForgotten` |
| `OandaBotCycles` | 2 clients, 2 runner threads, 2 orders; lost replies, failing reads | `OneTradeAtATime`, `EntryKnowsFilledOrders`, `ThirdCloseNeedsOverlap` |
| `OandaBotLiveness` | 1 client, 2 runner threads, 1 order; orders and bot starts by hand, lost replies, failing reads, restarts, fairness | `BookedIsClosed`, `NothingSentUnasked`, `TradeIsBooked` |
| `E1Shadow` | 2 units, 1 entry a day, 1 loss in a row, 4 intents, 2 days; crash, disk, expired token, injected faults | `TradingKnowsTheVenue`, `EntryWithinLimits`, `KillIsFinal`, `ImplementsTransport` |
| `OandaBotTwiceCounted` | 1 client, 1 runner thread, 2 orders | violation of `LossesCountedOnce` |
| `OandaBotThirdClose` | 2 clients, 1 runner thread, 1 order; lost replies, failing reads | violation of `ClosesStopAfterTwo` |

Why the bounds suffice. Size 2 distinguishes no, partial and full fill, and
`OcoMax = 3` under-, exact and oversized protection for each. Two cycles or
signals are what handing over the book, and a second position beside a first,
need; two sessions or processes what the locks and the shared database are for.
Five trades reach every limit and then close another trade; six days cross two
month ends. Five ticks with two ticks to a day put the entry, the exit and the
result on either side of midnight. Two runner threads are two generations of the
runner: the older one may still be in its cycle when the next starts. Two
clients are what overlapping starts need; with `MaxFailures = 0` they are asked
for only over a count of zero, which already lets a start undo a count of two.
Restarts of the bot are in `OandaBotLiveness`; the two runs as one would not
finish in minutes. Every safety property of the two is also proved, for any
number of clients and with restarts. Four intents are an entry, its settlement, a second entry on the next day and the
kill; limits of 1 make the second of anything a breach. A retold settlement
before a second entry takes a fifth intent: `EntryWithinLimits` alone also
passes with five, and fails there without its exemption; the refinement over as
many intents takes too long for a run. Limits that play no part
in a run are set so that they do not stop it. Deadlock is checked in every run.
Threads, sessions, signals, orders, trades, processes and cycles are symmetric;
no liveness run uses symmetry.

Two runs end in a violation. `OandaBotTwiceCounted`: `_close_position` writes the result
of a close to the close row (`services/automation_service.py:249`) and to the
row of every entry it closed (`:274`), and `place_order` sums every row with a
result (`services/broker_service.py:161-175`), while `docs/SAFETY.md:36` says
that the daily loss and the losing streak are checked before an order. One lost
trade makes two losing rows, so that a limit of two losses in a row is reached
by one.

`OandaBotThirdClose`: `docs/SAFETY.md:40` says that two failed closes in a row
stop the bot, and a note in the code (`services/automation_service.py:389-391`)
keeps the market reads from losing the count. In the run a start loads the
automation as off with a count of zero; a second client's start enables it; two
closes fail; and before the count is judged (`:298`) the first start fails at its
reads and its `_fatal_stop` writes its own count plus one, 1 (`:313`). It also
sets `enabled` to False, but that is what it had loaded, so nothing is written
and the automation stays on. A third close is tried. That it takes overlapping
starts, and nothing less, is `ThirdCloseNeedsOverlap`.

### Fairness

*v4.* A started command line keeps going (weak fairness of its steps; it has no
wait). The broker settles requests. The operator follows
`docs/H11_V4_GMO_OPERATOR_RUNBOOK_NO_POST_20260715.md`: an active cycle is resumed
again and again, a halt is reloaded again and again, some reload finds a flat
snapshot if flat snapshots keep being possible, and the account is flattened by
hand while a halt is latched. Resume and reload compete for the lock, so their
starts are strongly fair. Nothing makes a snapshot known or a notification
succeed: an unknown read ends in a halt, and `CycleSettles` and
`LostProtectionIsNoticed` name the global halt as the other outcome.
`GlobalHaltIsReleased` is about a halt over no active cycle; section 6 says what
happens over an active one. A crash in every attempt to resume would stop
anything, hence `calm`.

*Actual path.* The supervisor ticks every 15 seconds (`run_forever`), the clock
runs, the account executes what it accepted. A session is fair only once its
entry is confirmed, when `run_until_flat` polls every 5 seconds until it finds a
terminal marker; before that it may stop for good anywhere, and
`NoEntryIsForgotten` does not rely on it.

*OANDA bot.* A runner thread's wait times out again and again, and a thread that
has begun goes on because every call to the broker has a client timeout of 10
seconds. Nobody has to ask for anything. `TradeIsBooked` assumes that requests
end some time (`RequestsEnd`): a start that is asked for again and again cuts
every wait short. A start of the bot alone starts no runner, so after it
(`word = "bot"`) the automation may be on with nobody looking.

## 4. Proofs

Every theorem holds for all values of the constants that meet the named
assumptions; nothing else is assumed.

**V4GmoRuntimeProofs**, for any sets of cycles and processes, any lot size, clock
bound, risk policy and each `ReadMode`: `TypeCorrect`, `NeverSentTwice`
(`AtMostOneSend`), `OneCycleAtATime` (`SingleUnfinishedCycle`),
`AttemptsAdmitted` (`StoreNeverRefuses`), `HaltStopsSending`
(`NothingSentWhileHalted`). They follow from `Invariance`, `Spec => []IInv`.
`IInv` adds to the types

* `LockInv`: a process is at work exactly if it holds the lock, and the lock has
  one holder. Without it two processes could stand before the same attempt;
* `ProcOK`: where the holder stands agrees with the persisted state of its
  cycle; before `perform` the attempt is recorded and nothing was sent; and no
  process at work is under the global halt;
* `HistoryOK`: what was sent is recorded, and a recorded attempt rules out every
  state before it (`AfterAttempt`), which the transition table never undoes
  (`TransitionFacts`). This is why a resume in an intent state may attempt: had
  the action been attempted before, the cycle could not be in that state;
* `FillKnown`: a position about to be protected has a positive size.

`NothingSentWhileHalted` also needs `SingleUnfinishedCycle`: the sender's cycle
is unfinished, so no other cycle is halted. The proof goes bottom up: facts about
the table, what each store transaction preserves, what a process that leaves,
moves on or latches preserves, then one lemma per action.

Also there: `TransportRefinement`, the engine implements
`PersistentTransport`. From `IInv`, each action changes the status of at most one
job; one lemma per kind of change (an attempt persists, a call sends, a
transition settles or abandons), and everything else keeps every status.

And why a command line ends, whatever the broker shows it, whichever others run
beside it and whoever crashes:

* `CommandLinesEnd` (`RunsAreBounded`): each step of a process lowers its
  `StepsLeft`, and no step of another process, of the broker or of the clock
  raises it; by `StepsAreCounted` it starts at most at `MaxSteps` = 39 and is
  0 exactly when the process is idle. It needs `RecordedOK`: a cycle
  in an attempted state has that attempt on record, so that after the
  remainder's cancellation a second one is never begun;
* `NextStepIsAStep`: under `IInv` and `CommandOK` a process that is not idle has
  a next step, namely the one `NextStep` describes, with `NextStep` an ordinary
  expression over the state. No action asks the store for a transition outside
  its table, for a plan without a size or for a halted cycle that is not there.
  `CommandOK` says that what a command found under the lock is still so: a halted
  cycle before it is cleared, a charged entry before the cycle is created.
  `PlacesAreSound` shows that both hold in every reachable state.

Together they are `ProcessNeverStuck` without the word `ENABLED`, and the part of
the liveness properties that is about the process and not its surroundings: under
weak fairness of its steps every command line is over after at most 39 of them.
They also show what that fairness relies on, that a started process has no wait.

**V4GmoBookProofs**: what the engine and the account promise each other,
`ExposureAlwaysOwned` (`ExposureIsOwned`), `EntryAlwaysMeetsEmptyBook`
(`EntryMeetsEmptyBook`), `ExitNeverOverLiveProtection`
(`NoExitOverLiveProtection`) and `HaltLiftedOverEmptyBook`
(`HaltLiftedOnlyWhenFlat`), for `ReadMode = "settled"`: with early or scripted
reads a snapshot says nothing certain about the account, and the four do not
hold. They follow from `BookInvariance`; `BookOK` adds to `IInv`

* `StillTrue`: until the decision on a snapshot nothing is on the wire, a
  protection that was gone stays gone, and a book that was empty stays empty. Of
  what is open a snapshot may be wrong by then: orders fill in between;
* `CycleBookOK`: before a market attempt the book is empty, and in the states
  before a protection or after its cancellation no protection works: what a
  process that resumes from the state may rely on;
* `RequestOK`: a request is alone on the wire, of the unfinished cycle whose
  state waits for it; an entry still finds an empty book, and the emergency exit
  no working protection.

`RiskDayNeverMovesBack` (`RiskCalendarNeverMovesBack`) needs no assumption on
`ReadMode`: day and month of the risk file are only written after a comparison
with what the file holds, whatever the clock does.

**PhaseBRiskLedgerProofs** (with `PhaseBRiskRulesProofs` for the calendar and the
gate), for any limits and any length of day and month: `RiskFileTyped`,
`LimitsLatch`, `LossesStayBounded`, `BooksStayReal`, `StopsAreFinal`. The
inductive invariant conjoins the properties themselves with `OpenPassedGate` (the
open position passed the gate, so before it no limit was reached) and
`risk.day <= today`; the bound of a limit plus one trade follows because no
second position can be open when the first one's loss reaches the limit.

**V4GmoActualPathProofs**, for any signals, sessions, windows and every set of
`Faults`: `EntriesAreCharged` (`PostIsCharged`) and
`ActualTransportRefinement`. The invariant `PathInv` is

* `Shape`: rows and counters, and that no attempt lies in the future;
* `AttemptsOK`: an attempt has a row with an entry attempt, all attempts are of
  one cycle, and what was sent was attempted, once. Console, supervisor and
  released sessions cannot delete a row that was attempted;
* `ChargeOK`: an entry that was sent is charged to its day or the file has moved
  on to a later one; the file's day is never ahead of the clock;
* `SessionOK`: where the lock holder stands agrees with the attempts of its own
  cycle, before a POST its attempt is recorded and nothing was sent.

`SessionsEnd` (`SessionsAreBounded`) and `SessionsAreCounted`: a session takes at
most `MaxSessionSteps` = 61 steps of its own, and the supervisor, the console,
other sessions and the broker give it no more. Every reply and every view leads
forward or to the end; no GET or POST is repeated. There is no counterpart of
`NextStepIsAStep`: the driver of a confirmed entry waits for the exit marker (a
poll that finds none is no step), and where no order is slow a session's first
GET waits for the account.

**V4GmoActualBookProofs**, for any signals, sessions, sizes and windows. The
actual path learns what it holds from three GETs at three moments, while orders
fill in between, so its invariant `TradeInv` says for each part of a look what
the later parts can still change:

* `BookOK`: how a book and its row go together at every stage. An order not yet
  taken has left the book empty; what was opened is open or closed, unless the
  operator emptied it; the protection covers the plan exactly only while nothing
  was closed, so that an exact cover proves that everything was seen;
* `LookOK`: what the holder of the lock may conclude from a view, given how the
  book may have moved since each of the three GETs was made;
* `StageOK`, `QuietOK`: what the row shows at each stage of the holder, and at
  which stages nothing is on the wire;
* `ExactOK`: from the acknowledged cancellation to the time exit no protection
  works, and the view is the position;
* `Remembered`, `LatchedOK`: what is open or on its way latches the halt or has
  the only pending marker, and once the entry was accepted the halt is latched.

`ConfirmationIsComplete` (`ConfirmedIsAll`), `CompletionIsFlat`
(`CompletedIsFlat`) and `PositionsAreSingle` (`OnePositionAtATime`) hold for
every set of `Faults`. The last follows from `BookOK` and `AttemptsOK`: whatever
is open or on its way was sent, what was sent was attempted, and all attempts of
a store are of one cycle (section 6 says what else follows from that). `OrdersOnTheWireAreMarked`
(`WireIsMarked`) assumes that no order is slow, `ExposureIsNeverForgotten`
(`ExposureIsRemembered`) that the console does not release a session, and
`TimeExitIsExact` (`ExitIsExact`) that no order is slow and nobody trades by
hand: these are the cases in which the code has nothing to know better by
(section 5).

**OandaBotProofs**, for any number of threads and orders: `BotIsTyped`,
`RestartIsQuiet` (`NothingSentUnasked`), and, without orders by hand,
`CyclesHoldOneTrade` (`OneTradeAtATime`) and `EntriesFollowReconciliation`
(`EntryKnowsFilledOrders`). `IInv` adds `BootInv` (no thread is at work while the
server boots; a cycle, an order and a start were asked for) and `CycleInv` (every
order is made under the cycle lock, and what its cycle read of positions and
rows stays true until it sends).

`BookedResultsAreFinal` (`BookedIsClosed`) holds also with orders by hand. It
needs `OrdersApart` (an order under way is pending, no other thread's, and opened
nothing before it was sent), from which a closed trade never opens again, and
`CloseSettled` (a close reports the outcome of the trades it closed).

`ThirdCloseTakesOverlap` (`ThirdCloseNeedsOverlap`) holds for any number of
clients and runner threads. `CountInv`, which holds until starts overlap, says
that after two failed closes no cycle is before a close and none will be: the
automation is off, or the thread that judges the failure is about to switch it
off, or a restart is. This rests on `OffIsRead`: what a session holds of the
automation being off is still true, and one session at most holds it, so that a
failing start, which writes back what it loaded, leaves it off. Overlapping
starts break `OffIsRead`, and with it the promise (`OandaBotThirdClose`).

**E1ShadowProofs**, for any number of units, limits, intents and days and every
set of `Faults`: `E1Invariance`, `E1IsTyped`, `KillsAreFinal` (`KillIsFinal`),
`E1TransportRefinement`. `IInv` adds to the types

* `ScriptOK`: what is left to do is the start or the end of one execution, or a
  script of records without one; an engine that is off has nothing to do. This
  is what makes an execution find its own intent recorded;
* `JournalOK`: at most one intent is open, with a number that was prepared; an
  intent was executed at most once; until a kill there is room for its intent;
* `EarlyOK`: an intent about to be prepared has the next number, and nothing is
  open; under a kill it is a settlement and no execution came after the kill;
* `LateOK`: an intent about to be executed is open in the journal, was never
  executed, and no halt is recorded.

Also there, from the same assumptions: `TradersKnowTheVenue`
(`TradingKnowsTheVenue`). What an engine knows is lost and found again between
two records, so `VenueInv` adds to `IInv`

* `NewRunOK`: a run that has not begun has an empty journal and a flat venue;
* `RecordsOK`: what is left of a script either still begins with an intent that
  starts from the true position, or contains only records that say nothing of
  the position (`Quiet`), or also records an execution of unknown effect while
  its intent stays open, or begins with one record that tells the truth about
  the position (`FirstOK`) and goes on quietly. A crash cuts a script anywhere,
  and each of these leaves a journal that explains the venue.

`EntriesWithinLimits` (`EntryWithinLimits`) needs to know of every effect that
ever was how it is told. `LimitInv` adds to `VenueInv`

* `OpenOK`: the unresolved intent is the latest one, and if it took effect the
  venue file shows it (`Shows`);
* `OrderOK`: executions, and the records that tell of them, are in the order of
  the intents and agree where they are of the same intent;
* `ToldOK`: each effect is told by the journal (`Booked`), or its intent is
  unresolved (`Pending`), or it shows only in the venue file, where the journal
  does not explain it (`Missed`), or it is of a settlement and another was told
  in its place (`Replaced`). `Missed` is what a torn venue write leaves behind;
* `EngineOK`: an engine that may trade is not halted and knows whether its own
  intent took effect, and what it sees is the file or the position from before;
* `TellsOK`: `RecordsOK` with what each resolving record says of the intent: a
  confirmation is of one that took effect, a rejection of one that did not;
* `LimitsOK`: an entry that was decided is within the limits of the journal.

An entry takes effect only if the file is what the engine saw. Then nothing is
`Missed` and nothing but the entry itself `Pending`, so the effects map one to
one into the records that count (`NotMore`): the daily cap and, unless a
settlement was replaced, the losing streak hold of the effects too.

TLC checked each inductive invariant on the instances of the runs before it was
proved; so too `RunsAreBounded`, the range of `StepsLeft` and that `NextStep` is a
step of the process (`V4GmoTwoCycles`, `V4GmoPartialFills`, and an instance with scripted reads), and
`SessionsAreBounded` with its range (`V4GmoActualPrompt`, `V4GmoActualFaults`).

Only model-checked, because the prover cannot treat fairness and `ENABLED`: the
seven liveness properties `CycleSettles`, `LostProtectionIsNoticed`,
`HaltedCycleIsReleased`, `GlobalHaltIsReleased`, `ExitConcludes`,
`NoEntryIsForgotten`, `TradeIsBooked`, and `ProcessNeverStuck` in its own words.

## 5. Not modelled

* v4: `bind_generation` and the journal of the store; refusals that only
  validate arguments; the weekday and hour rules of the entry window; reports,
  soak drivers, protection preview.
* Torn or malformed files: stores write a temporary file and replace it, and a
  malformed file is refused on load.
* Actual path: pricing, fingerprints, secrets, the append-only event table; the
  preparation guard and activation gates, which validate documents before a
  session and then allow or refuse it. `WireIsMarked` and `ExitIsExact` assume
  that what the API accepted shows in the next read; the other properties of the
  actual path do not.
* Supervisor: the status files, and the tick of other generations. The committed
  one, G075, always may write. The ticks of G040, G041, G047 to G056 and G063 to
  G065 first try `process.lock` and, while a session or a driver holds it,
  neither latch the halt nor write the required marker
  (`h11_auto/v4_gmo_monitor_supervisor.py:153-184`, used at `:294`, `:304`,
  `:315`, `:353`). `ExitConcludes` says nothing of those: a driver that keeps the
  lock may wait there for a marker that the supervisor does not write.
* OANDA bot: demo orders, `close_order` and the connection test; what risk
  settings contain; missing credentials; sides, sizes and prices.
* E1: two engines alive on one run root; `qualification.py`, which drives the
  engine through a fixed list of scenarios; amounts, cooldown and prices.
* Phase A cycle: the predecessor of v4, with its own store, no longer on the
  path to a broker. Manual ledger: every operation is one transaction of one
  process.
* Back-tests, strategies, research, scripts, `live_verification/` and the
  frontend: batch computation, validation of evidence documents and display,
  without state that two actors share. They are by far the largest part of the
  tree (`live_verification/` alone is some 130,000 lines), which is why the
  share of the tree that is modelled is small.

## 6. What the code does beyond its documents

Met while modelling. None of these is a property of a passing run: the code
falls short of the document, or does not prevent the case. Where the hazard list
has no property, this is the reason.

v4 engine
* *An entry on a later day.* A cycle is persisted on day D, the process dies
  before the market attempt, and the cycle is resumed on D+1: the entry is
  charged to D (`h11_auto/v4_gmo_persistence.py:184`), and D+1 still has its own.
  The profile document (`docs/H11_V4_GMO_RELAXED_EXECUTION_PROFILE_NO_POST_20260715.md:66`)
  has `max_entries_per_day: 1`.
* *Protection after the deadline.* A resume that finds
  `PROTECTION_INTENT_PERSISTED` sends the OCO however late it is
  (`h11_auto/v4_gmo_engine.py:174-175`); the same document, lines 89-92, exits.
* *A halt nothing releases.* A notification that fails during a resume latches
  the global halt over an active cycle (`h11_auto/v4_gmo_runtime.py:403-407`).
  Resume is then refused because of the halt (`:389`), reload because of the
  active cycle (`h11_auto/v4_gmo_persistence.py:607-608`), run because of both
  (`:175`).

Actual path
* *Sequential entries.* "This lets the same reviewed generation serve many
  trading days, and many sequential entries within a day once flat", says
  `reserve_entry_cycle` (`h11_auto/v4_gmo_actual_coordinator.py:503-519`); so do
  `monitor_snapshot_safe` (`:1799-1809`), the session
  (`services/h11_v4_gmo_g013_canary.py:451-461`, `:611-616`) and the ceiling of
  30 entries a day (`h11_auto/runtime_safety.py:27-31`). The code serves one.
  An accepted order latches the halt (`v4_gmo_actual_coordinator.py:1587-1590`),
  which only the console lifts again, and that over an unresolved row; and once
  the first row is resolved a session that reserves the second one is refused at
  the bind, which wants exactly one row
  (`load_single_signal_fingerprint_internal`, `:864-873`, called at
  `services/h11_v4_gmo_actual_runtime_binding.py:110`). What is promised and
  kept is "at most one position ever open" (`:508`), `OnePositionAtATime`.
* `perform_market_once` keeps a failure retryable if the store is not latched
  (`services/h11_v4_gmo_coordinated_actual_path.py:409-414`); the pending marker
  that the failed attempt left is then found by the next owner, which halts.

OANDA bot
* *A late order.* `place_order` checks bot and automation, commits twice and then
  posts (`services/broker_service.py:226`) without a second look; a stop may
  complete in between (`docs/SAFETY.md:31`).
* *A late start.* A start enables the automation after its reads, whatever a stop
  did meanwhile (`services/automation_service.py:338`, `docs/SAFETY.md:26`).
* *A lost trade.* An order whose fill could not be confirmed is
  `emergency_stopped` (`services/broker_service.py:253`), and only `filled` rows
  are reconciled (`services/automation_service.py:186`), so that its loss is
  never weighed (`docs/SAFETY.md:41`).
* *A late failure.* With overlapping starts a failing start sets the count of
  failed closes back to what it loaded plus one
  (`services/automation_service.py:313`, `:325`), and a third close in a row is
  tried (`docs/SAFETY.md:40`): the run `OandaBotThirdClose`.
* *Nobody looking.* A start of the bot by request leaves the automation on
  without a runner thread.

E1 engine (`docs/E1_SHADOW_FULL_AUTO_ENGINE_NO_POST.md`)
* A rejected execution followed by a crash before its `HALTED` record is written:
  the restart reconciles the recorded rejection as settled, and after the
  acknowledgement the run goes on.
* A settlement whose outcome was uncertain is reconciled and acknowledged, after
  which the same position may be settled by a second attempt; the document says
  `maximum settlement attempts per position: 1` (line 260).
* A venue write that tore after the replacement (the fsync of the directory
  fails, `persistence.py:722-726`) is compared with what the engine remembers,
  not with the file (`engine.py:546-585`), and reconciled as without effect;
  line 196 has it stop as unknown. The following writes fail.
* *A retold settlement.* The two together lose a loss: the torn settlement was at
  a loss, after the acknowledgement a second one with another result is tried,
  the engine dies in it, and the restart explains the position in the file by
  this one and books its result. The losing streak never counts the loss, and
  the next entry goes out. `EntryWithinLimits` holds of every other run
  (`Retold`).
* A halt that follows a failing journal is kept in memory only (line 189).

## 7. What is left

In this order: the preparation guard's one-use markers beside two sessions; the
Phase A cycle and the manual ledger as further implementations of
`PersistentTransport`.
