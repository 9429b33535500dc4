---------------------------- MODULE OandaBotProofs --------------------------
(***************************************************************************)
(* Theorems about OandaBot, for any threads, orders and limits.            *)
(***************************************************************************)
EXTENDS OandaBotOverlap, FiniteSetTheorems, TLAPS

\* While the server boots no thread is at work; a cycle, an order and a start
\* were asked for; the automation is on only after a start; a request other
\* than for a cycle or an order does not hold the cycle lock.
BootInv ==
    /\ boot # "done" => lock = NoThread /\ \A t \in Thread : pc[t] = "idle"
    /\ boot # "recover" => (enabled => word # "none")
    /\ lock # NoThread => word # "none"
    /\ \A t \in Thread : pc[t] \in {"post", "initialize"} => word # "none"
    /\ \A t \in Thread : pc[t] \in RequestLabel => lock # t

\* Without orders by hand every order is a cycle's, and what the cycle read
\* stays true until it sends.
CycleInv ==
    /\ OneTradeAtATime
    /\ \A t \in Thread :
          /\ pc[t] \in OrderLabel => lock = t
          /\ pc[t] \in {"reconcile", "signal"} /\ seen[t] = 0 => OpenTrades = {}
          /\ pc[t] = "signal" /\ seen[t] = 0 => Filled = {}
          /\ pc[t] \in {"place", "post"} => OpenTrades = {} /\ Filled = {}

IInv ==
    /\ BotTypeOK
    /\ BootInv
    /\ "byhand" \notin Faults => CycleInv

(***************************************************************************)
(* The type invariant in parts, and how a thread's moves keep them.        *)
(***************************************************************************)

\* The part that is about threads.
ThreadsOK ==
    /\ pc \in [Thread -> Label]
    /\ seen \in [Thread -> Nat]
    /\ order \in [Thread -> SUBSET Order]
    /\ closing \in Result
    /\ lock \in Thread \cup {NoThread}
    /\ runner \subseteq Loop
    /\ stopEvent \in BOOLEAN
    /\ \A t \in Thread : pc[t] \in CycleOnly => lock = t
    /\ lock # NoThread => pc[lock] # "idle"

\* The part that is about the database and the history.
StateOK ==
    /\ enabled \in BOOLEAN
    /\ failures \in Nat
    /\ bot \in [status : BotStatus, mode : Mode]
    /\ loaded \in [Thread -> SUBSET [on : BOOLEAN, failures : Nat]]
    /\ boot \in {"done", "recover", "stopbot"}
    /\ word \in {"none", "start", "bot"}
    /\ closeFails \in Nat

LEMMA TypeParts == BotTypeOK <=> AccountTypeOK /\ ThreadsOK /\ StateOK
BY DEF BotTypeOK, ThreadsOK, StateOK

\* How a thread may move.
LEMMA StepTyped ==
  ASSUME ThreadsOK, NEW t \in Thread, NEW label \in Label \ {"idle"},
         label \in CycleOnly => lock = t, Step(t, label)
  PROVE  ThreadsOK'
BY DEF ThreadsOK, Step, Goto, runnerVars

LEMMA FinishTyped ==
  ASSUME ThreadsOK, NEW t \in Thread, Finish(t)
  PROVE  ThreadsOK'
<1>1. "idle" \in Label /\ "idle" \notin CycleOnly
  BY DEF Label, CycleOnly
<1>2. pc' \in [Thread -> Label] /\ seen' \in [Thread -> Nat] /\ order' \in [Thread -> SUBSET Order]
  BY <1>1 DEF ThreadsOK, Finish, Goto
<1>3. closing' \in Result /\ runner' \subseteq Loop /\ stopEvent' \in BOOLEAN
  BY DEF ThreadsOK, Finish, NoClose, Result
<1>4. lock' \in Thread \cup {NoThread}
  BY DEF ThreadsOK, Finish
<1>5. \A u \in Thread : pc'[u] \in CycleOnly => lock' = u
  BY <1>1 DEF ThreadsOK, Finish, Goto, InCycle
<1>6. lock' # NoThread => pc'[lock'] # "idle"
  BY BotAssumption DEF ThreadsOK, Finish, Goto, InCycle, Thread
<1>. QED BY <1>2, <1>3, <1>4, <1>5, <1>6 DEF ThreadsOK

LEMMA DieTyped ==
  ASSUME ThreadsOK, NEW t \in Thread, lock = t, Die(t)
  PROVE  ThreadsOK'
BY BotAssumption DEF ThreadsOK, Die, Goto, Thread, Label, CycleOnly

\* A close appends results.
LEMMA CloseBooksResults ==
  ASSUME AccountTypeOK, NEW result \in Result, BookClose(result)
  PROVE  results' \in Seq(Result)
<1> DEFINE entries == {o \in Filled : row[o].traded /\ o \in result.trades}
           copies == [i \in 1..Cardinality(entries) |-> result]
<1>1. Cardinality(entries) \in Nat
  <2>1. entries \subseteq Order
    BY DEF Filled
  <2>. QED BY <2>1, AccountAssumption, FS_Subset, FS_CardinalityType
     DEF AccountAssumption
<1>2. copies \in Seq(Result)
  BY <1>1
<1>3. results \o <<result>> \in Seq(Result)
  BY DEF AccountTypeOK
<1>4. results' = results \o <<result>> \o copies
  BY DEF BookClose
<1>. HIDE DEF copies
<1>. QED BY <1>2, <1>3, <1>4

\* A reconciliation appends results, too.
LEMMA ResultsOfTyped ==
  ASSUME AccountTypeOK, NEW done \in SUBSET Order, NEW s \in ResultsOf(done)
  PROVE  results \o s \in Seq(Result)
<1>1. Cardinality(done) \in Nat
  BY AccountAssumption, FS_Subset, FS_CardinalityType DEF AccountAssumption
<1>2. \A o \in done : [trades |-> {o}, lost |-> trade[o] = "lost"] \in Result
  BY DEF Result
<1>3. s \in [1..Cardinality(done) -> Result]
  BY <1>2 DEF ResultsOf
<1>. QED BY <1>1, <1>3 DEF AccountTypeOK

\* What a cycle's reconciliation does to the order log and to its thread.
LEMMA ReconcileEffect ==
  ASSUME AccountTypeOK, NEW t \in Thread, Reconcile(t)
  PROVE  /\ AccountTypeOK'
         /\ Filled' \subseteq Filled
         /\ \/ Step(t, "signal") /\ enabled' = enabled /\ failures' = failures
               /\ (seen[t] = 0 => Filled' = {})
            \/ Finish(t) /\ enabled' = enabled /\ failures' = failures
            \/ Step(t, "errorstop") /\ enabled' = FALSE /\ failures' = failures + 1
            \/ Step(t, "fatal") /\ enabled' = enabled /\ failures' = failures
<1> DEFINE due == ToReconcile(t)
<1>1. due \subseteq Filled /\ due \subseteq Order
  BY DEF ToReconcile, Filled
<1>2. trade' = trade
  BY DEF Reconcile
<1>3. ASSUME NEW done \in SUBSET due, Book(done)
      PROVE  AccountTypeOK' /\ Filled' \subseteq Filled
  <2>1. results' \in Seq(Result)
    BY <1>1, <1>3, ResultsOfTyped DEF Book
  <2>2. row' \in [Order -> Row]
    BY <1>3 DEF Book, AccountTypeOK, Row, RowStatus
  <2>3. Filled' \subseteq Filled
    BY <1>3 DEF Book, AccountTypeOK, Filled, Row
  <2>. QED BY <1>2, <2>1, <2>2, <2>3 DEF AccountTypeOK
<1>4. CASE due = {} /\ Step(t, "signal") /\ UNCHANGED <<row, results, enabled, failures>>
  <2>1. AccountTypeOK' /\ Filled' = Filled
    BY <1>2, <1>4 DEF AccountTypeOK, Filled
  <2>. QED BY <1>4, <2>1 DEF ToReconcile
<1>5. CASE Book(due) /\ Finish(t) /\ UNCHANGED <<enabled, failures>>
  BY <1>3, <1>5
<1>6. CASE \E done \in SUBSET due :
             Book(done) /\ enabled' = FALSE /\ failures' = failures + 1 /\ Step(t, "errorstop")
  BY <1>3, <1>6
<1>7. CASE /\ Step(t, "fatal")
           /\ UNCHANGED <<enabled, failures>>
           /\ \E done \in SUBSET due, u \in due :
                 /\ \E s \in ResultsOf(done) : results' = results \o s
                 /\ row' = [o \in Order |->
                              IF o \in done THEN [row[o] EXCEPT !.status = "closed"]
                              ELSE IF o = u THEN [row[o] EXCEPT !.status = "close_unconfirmed"]
                              ELSE row[o]]
  <2>1. PICK done \in SUBSET due, u \in due :
               /\ \E s \in ResultsOf(done) : results' = results \o s
               /\ row' = [o \in Order |->
                            IF o \in done THEN [row[o] EXCEPT !.status = "closed"]
                            ELSE IF o = u THEN [row[o] EXCEPT !.status = "close_unconfirmed"]
                            ELSE row[o]]
    BY <1>7
  <2>2. results' \in Seq(Result)
    BY <1>1, <2>1, ResultsOfTyped
  <2>3. row' \in [Order -> Row]
    BY <2>1 DEF AccountTypeOK, Row, RowStatus
  <2>4. Filled' \subseteq Filled
    BY <2>1 DEF AccountTypeOK, Filled, Row
  <2>. QED BY <1>2, <1>7, <2>2, <2>3, <2>4 DEF AccountTypeOK
<1>. QED BY <1>4, <1>5, <1>6, <1>7 DEF Reconcile

(***************************************************************************)
(* One lemma per action: the types in parts, then the other two.         *)
(***************************************************************************)
LEMMA BeginCycleKeeps ==
  ASSUME IInv, NEW t \in Thread, BeginCycle(t)
  PROVE  IInv'
<1>0. AccountTypeOK /\ ThreadsOK /\ StateOK
  BY TypeParts DEF IInv
<1>1. AccountTypeOK'
  BY <1>0
     DEF AccountTypeOK, Row, RowStatus, Trade, BeginCycle, accountVars, LockFree,
         Practising
<1>2. StateOK'
  BY <1>0
     DEF StateOK, BotStatus, Mode, BeginCycle, stateVars, serverVars, Load, Expire,
         history, accountVars, LockFree, Practising
<1>3. ThreadsOK'
  BY <1>0, BotAssumption
     DEF ThreadsOK, BeginCycle, LockFree, Goto, runnerVars, Thread, Label,
         CycleOnly, OrderLabel, RequestLabel
<1>4. BootInv'
  BY <1>0, BotAssumption
     DEF IInv, ThreadsOK, BootInv, BeginCycle, Step, Goto, Finish, Die, InCycle,
         Looping, accountVars, stateVars, threadVars, runnerVars, serverVars,
         history, NoClose, Label, CycleOnly, OrderLabel, RequestLabel, Thread,
         LockFree, Practising
<1>5. ASSUME "byhand" \notin Faults PROVE CycleInv'
  BY <1>5, BotAssumption
     DEF IInv, BotTypeOK, AccountTypeOK, Result, BootInv, CycleInv, OneTradeAtATime,
         OpenTrades, Filled, Trade, BeginCycle, Step, Goto, Finish, Die, InCycle,
         Looping, accountVars, stateVars, threadVars, runnerVars, serverVars,
         history, NoClose, Label, CycleOnly, OrderLabel, RequestLabel, Thread,
         LockFree, Practising
<1>. QED BY <1>1, <1>2, <1>3, <1>4, <1>5 DEF IInv, BotTypeOK, ThreadsOK, StateOK

LEMMA MarketKeeps ==
  ASSUME IInv, NEW t \in Thread, Market(t)
  PROVE  IInv'
<1>0. AccountTypeOK /\ ThreadsOK /\ StateOK
  BY TypeParts DEF IInv
<1>1. AccountTypeOK'
  BY <1>0
     DEF AccountTypeOK, Row, RowStatus, Trade, Market, accountVars, ReadMarket,
         ReadFails, Positions
<1>2. StateOK'
  BY <1>0
     DEF StateOK, BotStatus, Mode, Market, stateVars, serverVars, Load, Expire,
         history, accountVars, ReadMarket, ReadFails, Positions
<1>3. ThreadsOK'
  BY <1>0, BotAssumption
     DEF ThreadsOK, Market, Positions, Step, Goto, runnerVars, Thread, Label,
         CycleOnly, OrderLabel, RequestLabel
<1>4. BootInv'
  BY <1>0, BotAssumption
     DEF IInv, ThreadsOK, BootInv, Market, Step, Goto, Finish, Die, InCycle,
         Looping, accountVars, stateVars, threadVars, runnerVars, serverVars,
         history, NoClose, Label, CycleOnly, OrderLabel, RequestLabel, Thread,
         ReadMarket, ReadFails, Positions
<1>5. ASSUME "byhand" \notin Faults PROVE CycleInv'
  BY <1>5, <1>0, BotAssumption
     DEF IInv, ThreadsOK, AccountTypeOK, CycleInv, OneTradeAtATime, OpenTrades,
         Filled, Market, Positions, ReadMarket, Step, Goto, accountVars, Label,
         CycleOnly, OrderLabel, RequestLabel, Thread
<1>. QED BY <1>1, <1>2, <1>3, <1>4, <1>5 DEF IInv, BotTypeOK, ThreadsOK, StateOK

LEMMA SignalKeeps ==
  ASSUME IInv, NEW t \in Thread, Signal(t)
  PROVE  IInv'
<1>0. AccountTypeOK /\ ThreadsOK /\ StateOK
  BY TypeParts DEF IInv
<1>1. AccountTypeOK'
  BY <1>0 DEF AccountTypeOK, Row, RowStatus, Trade, Signal, accountVars
<1>2. StateOK'
  BY <1>0
     DEF StateOK, BotStatus, Mode, Signal, stateVars, serverVars, Load, Expire,
         history, accountVars
<1>3. ThreadsOK'
  BY <1>0, StepTyped, FinishTyped, DieTyped
     DEF ThreadsOK, Signal, Label, CycleOnly, OrderLabel, RequestLabel, InCycle,
         Goto, Result, threadVars, runnerVars
<1>4. BootInv'
  BY <1>0, BotAssumption
     DEF IInv, ThreadsOK, BootInv, Signal, Step, Goto, Finish, Die, InCycle,
         Looping, accountVars, stateVars, threadVars, runnerVars, serverVars,
         history, NoClose, Label, CycleOnly, OrderLabel, RequestLabel, Thread
<1>5. ASSUME "byhand" \notin Faults PROVE CycleInv'
  BY <1>5, BotAssumption
     DEF IInv, BotTypeOK, AccountTypeOK, Result, BootInv, CycleInv, OneTradeAtATime,
         OpenTrades, Filled, Trade, Signal, Step, Goto, Finish, Die, InCycle,
         Looping, accountVars, stateVars, threadVars, runnerVars, serverVars,
         history, NoClose, Label, CycleOnly, OrderLabel, RequestLabel, Thread
<1>. QED BY <1>1, <1>2, <1>3, <1>4, <1>5 DEF IInv, BotTypeOK, ThreadsOK, StateOK

LEMMA CloseCheckKeeps ==
  ASSUME IInv, NEW t \in Thread, CloseCheck(t)
  PROVE  IInv'
<1>0. AccountTypeOK /\ ThreadsOK /\ StateOK
  BY TypeParts DEF IInv
<1>1. AccountTypeOK'
  BY <1>0
     DEF AccountTypeOK, Row, RowStatus, Trade, CloseCheck, accountVars, Practising
<1>2. StateOK'
  BY <1>0
     DEF StateOK, BotStatus, Mode, CloseCheck, stateVars, serverVars, Load, Expire,
         history, accountVars, Practising
<1>3. ThreadsOK'
  BY <1>0, StepTyped, FinishTyped, DieTyped
     DEF ThreadsOK, CloseCheck, Label, CycleOnly, OrderLabel, RequestLabel, InCycle,
         Goto, Result, threadVars, runnerVars, Practising
<1>4. BootInv'
  BY <1>0, BotAssumption
     DEF IInv, ThreadsOK, BootInv, CloseCheck, Step, Goto, Finish, Die, InCycle,
         Looping, accountVars, stateVars, threadVars, runnerVars, serverVars,
         history, NoClose, Label, CycleOnly, OrderLabel, RequestLabel, Thread,
         Practising
<1>5. ASSUME "byhand" \notin Faults PROVE CycleInv'
  BY <1>5, BotAssumption
     DEF IInv, BotTypeOK, AccountTypeOK, Result, BootInv, CycleInv, OneTradeAtATime,
         OpenTrades, Filled, Trade, CloseCheck, Step, Goto, Finish, Die, InCycle,
         Looping, accountVars, stateVars, threadVars, runnerVars, serverVars,
         history, NoClose, Label, CycleOnly, OrderLabel, RequestLabel, Thread,
         Practising
<1>. QED BY <1>1, <1>2, <1>3, <1>4, <1>5 DEF IInv, BotTypeOK, ThreadsOK, StateOK

LEMMA CloseKeeps ==
  ASSUME IInv, NEW t \in Thread, Close(t)
  PROVE  IInv'
<1>0. AccountTypeOK /\ ThreadsOK /\ StateOK
  BY TypeParts DEF IInv
<1>1. AccountTypeOK'
  BY <1>0
     DEF AccountTypeOK, Row, RowStatus, Trade, Close, accountVars, ReplyFails,
         Refusable, PositionCloses, Outcome
<1>2. StateOK'
  BY <1>0
     DEF StateOK, BotStatus, Mode, Close, stateVars, serverVars, Load, Expire,
         history, accountVars, ReplyFails, Refusable, PositionCloses, Outcome
<1>3. ThreadsOK'
  <2>1. closing' \in Result
    <3>1. \A lost \in BOOLEAN : [trades |-> OpenTrades, lost |-> lost] \in Result
      BY DEF OpenTrades, Result
    <3>2. closing' = closing \/ \E lost \in BOOLEAN : closing' = [trades |-> OpenTrades, lost |-> lost]
      BY DEF Close
    <3>. QED BY <1>0, <3>1, <3>2 DEF ThreadsOK
  <2>2. pc' \in [Thread -> Label] /\ \A u \in Thread : pc'[u] \in CycleOnly => lock' = u
    BY <1>0 DEF ThreadsOK, Close, Goto, Label, CycleOnly, OrderLabel, RequestLabel
  <2>3. lock' # NoThread => pc'[lock'] # "idle"
    BY <1>0 DEF ThreadsOK, Close, Goto, Label, CycleOnly, OrderLabel, RequestLabel
  <2>. QED BY <1>0, <2>1, <2>2, <2>3 DEF ThreadsOK, Close, runnerVars
<1>4. BootInv'
  BY <1>0, BotAssumption
     DEF IInv, ThreadsOK, BootInv, Close, Step, Goto, Finish, Die, InCycle, Looping,
         accountVars, stateVars, threadVars, runnerVars, serverVars, history,
         NoClose, Label, CycleOnly, OrderLabel, RequestLabel, Thread, ReplyFails,
         Refusable, PositionCloses, Outcome
<1>5. ASSUME "byhand" \notin Faults PROVE CycleInv'
  <2>1. OpenTrades' \subseteq OpenTrades /\ Filled' = Filled
    <3>1. CASE trade' = trade
      BY <3>1 DEF OpenTrades, Filled, Close
    <3>2. CASE \E outcome \in [OpenTrades -> BOOLEAN] : PositionCloses(outcome)
      BY <3>2 DEF PositionCloses, OpenTrades, Filled, Outcome, Close
    <3>. QED BY <3>1, <3>2 DEF Close
  <2>2. CycleInv
    BY <1>5 DEF IInv
  <2>3. \A u \in Thread : pc'[u] \in OrderLabel \cup {"reconcile", "signal"} => pc'[u] = pc[u]
    BY <1>0 DEF ThreadsOK, Close, Goto, OrderLabel
  <2>. QED BY <2>1, <2>2, <2>3 DEF CycleInv, OneTradeAtATime, OrderLabel, Close
<1>. QED BY <1>1, <1>2, <1>3, <1>4, <1>5 DEF IInv, BotTypeOK, ThreadsOK, StateOK

LEMMA CloseDoneKeeps ==
  ASSUME IInv, NEW t \in Thread, CloseDone(t)
  PROVE  IInv'
<1>0. AccountTypeOK /\ ThreadsOK /\ StateOK
  BY TypeParts DEF IInv
<1>1. AccountTypeOK'
  <2>1. row' \in [Order -> Row]
    BY <1>0 DEF AccountTypeOK, Row, RowStatus, CloseDone, BookClose
  <2>2. closing \in Result
    BY <1>0 DEF ThreadsOK
  <2>3. results' \in Seq(Result)
    BY <1>0, <2>2, CloseBooksResults DEF CloseDone, AccountTypeOK
  <2>. QED BY <1>0, <2>1, <2>3 DEF AccountTypeOK, CloseDone
<1>2. StateOK'
  BY <1>0
     DEF StateOK, BotStatus, Mode, CloseDone, stateVars, serverVars, Load, Expire,
         history, accountVars, BookClose
<1>3. ThreadsOK'
  BY <1>0, StepTyped, FinishTyped, DieTyped
     DEF ThreadsOK, CloseDone, Label, CycleOnly, OrderLabel, RequestLabel, InCycle,
         Goto, Result, threadVars, runnerVars, BookClose
<1>4. BootInv'
  BY <1>0, BotAssumption
     DEF IInv, ThreadsOK, BootInv, CloseDone, Step, Goto, Finish, Die, InCycle,
         Looping, accountVars, stateVars, threadVars, runnerVars, serverVars,
         history, NoClose, Label, CycleOnly, OrderLabel, RequestLabel, Thread,
         BookClose
<1>5. ASSUME "byhand" \notin Faults PROVE CycleInv'
  BY <1>5, BotAssumption
     DEF IInv, BotTypeOK, AccountTypeOK, Result, BootInv, CycleInv, OneTradeAtATime,
         OpenTrades, Filled, Trade, CloseDone, Step, Goto, Finish, Die, InCycle,
         Looping, accountVars, stateVars, threadVars, runnerVars, serverVars,
         history, NoClose, Label, CycleOnly, OrderLabel, RequestLabel, Thread,
         BookClose
<1>. QED BY <1>1, <1>2, <1>3, <1>4, <1>5 DEF IInv, BotTypeOK, ThreadsOK, StateOK

LEMMA CloseFailsKeeps ==
  ASSUME IInv, NEW t \in Thread, CloseFails(t)
  PROVE  IInv'
<1>0. AccountTypeOK /\ ThreadsOK /\ StateOK
  BY TypeParts DEF IInv
<1>1. AccountTypeOK'
  BY <1>0 DEF AccountTypeOK, Row, RowStatus, Trade, CloseFails, accountVars
<1>2. StateOK'
  BY <1>0
     DEF StateOK, BotStatus, Mode, CloseFails, stateVars, serverVars, Load, Expire,
         history, accountVars
<1>3. ThreadsOK'
  BY <1>0, StepTyped, FinishTyped, DieTyped
     DEF ThreadsOK, CloseFails, Label, CycleOnly, OrderLabel, RequestLabel, InCycle,
         Goto, Result, threadVars, runnerVars
<1>4. BootInv'
  BY <1>0, BotAssumption
     DEF IInv, ThreadsOK, BootInv, CloseFails, Step, Goto, Finish, Die, InCycle,
         Looping, accountVars, stateVars, threadVars, runnerVars, serverVars,
         history, NoClose, Label, CycleOnly, OrderLabel, RequestLabel, Thread
<1>5. ASSUME "byhand" \notin Faults PROVE CycleInv'
  BY <1>5, BotAssumption
     DEF IInv, BotTypeOK, AccountTypeOK, Result, BootInv, CycleInv, OneTradeAtATime,
         OpenTrades, Filled, Trade, CloseFails, Step, Goto, Finish, Die, InCycle,
         Looping, accountVars, stateVars, threadVars, runnerVars, serverVars,
         history, NoClose, Label, CycleOnly, OrderLabel, RequestLabel, Thread
<1>. QED BY <1>1, <1>2, <1>3, <1>4, <1>5 DEF IInv, BotTypeOK, ThreadsOK, StateOK

LEMMA JudgeKeeps ==
  ASSUME IInv, NEW t \in Thread, Judge(t)
  PROVE  IInv'
<1>0. AccountTypeOK /\ ThreadsOK /\ StateOK
  BY TypeParts DEF IInv
<1>1. AccountTypeOK'
  BY <1>0
     DEF AccountTypeOK, Row, RowStatus, Trade, Judge, accountVars, TooManyFailures
<1>2. StateOK'
  BY <1>0
     DEF StateOK, BotStatus, Mode, Judge, stateVars, serverVars, Load, Expire,
         history, accountVars, TooManyFailures
<1>3. ThreadsOK'
  BY <1>0, StepTyped, FinishTyped, DieTyped
     DEF ThreadsOK, Judge, Label, CycleOnly, OrderLabel, RequestLabel, InCycle,
         Goto, Result, threadVars, runnerVars, TooManyFailures
<1>4. BootInv'
  BY <1>0, BotAssumption
     DEF IInv, ThreadsOK, BootInv, Judge, Step, Goto, Finish, Die, InCycle, Looping,
         accountVars, stateVars, threadVars, runnerVars, serverVars, history,
         NoClose, Label, CycleOnly, OrderLabel, RequestLabel, Thread,
         TooManyFailures
<1>5. ASSUME "byhand" \notin Faults PROVE CycleInv'
  BY <1>5, BotAssumption
     DEF IInv, BotTypeOK, AccountTypeOK, Result, BootInv, CycleInv, OneTradeAtATime,
         OpenTrades, Filled, Trade, Judge, Step, Goto, Finish, Die, InCycle,
         Looping, accountVars, stateVars, threadVars, runnerVars, serverVars,
         history, NoClose, Label, CycleOnly, OrderLabel, RequestLabel, Thread,
         TooManyFailures
<1>. QED BY <1>1, <1>2, <1>3, <1>4, <1>5 DEF IInv, BotTypeOK, ThreadsOK, StateOK

LEMMA ConfirmPositionKeeps ==
  ASSUME IInv, NEW t \in Thread, ConfirmPosition(t)
  PROVE  IInv'
<1>0. AccountTypeOK /\ ThreadsOK /\ StateOK
  BY TypeParts DEF IInv
<1>1. AccountTypeOK'
  BY <1>0
     DEF AccountTypeOK, Row, RowStatus, Trade, ConfirmPosition, accountVars,
         ReadFails
<1>2. StateOK'
  BY <1>0
     DEF StateOK, BotStatus, Mode, ConfirmPosition, stateVars, serverVars, Load,
         Expire, history, accountVars, ReadFails
<1>3. ThreadsOK'
  BY <1>0, StepTyped, FinishTyped, DieTyped
     DEF ThreadsOK, ConfirmPosition, Label, CycleOnly, OrderLabel, RequestLabel,
         InCycle, Goto, Result, threadVars, runnerVars, ReadFails
<1>4. BootInv'
  BY <1>0, BotAssumption
     DEF IInv, ThreadsOK, BootInv, ConfirmPosition, Step, Goto, Finish, Die,
         InCycle, Looping, accountVars, stateVars, threadVars, runnerVars,
         serverVars, history, NoClose, Label, CycleOnly, OrderLabel, RequestLabel,
         Thread, ReadFails
<1>5. ASSUME "byhand" \notin Faults PROVE CycleInv'
  BY <1>5, BotAssumption
     DEF IInv, BotTypeOK, AccountTypeOK, Result, BootInv, CycleInv, OneTradeAtATime,
         OpenTrades, Filled, Trade, ConfirmPosition, Step, Goto, Finish, Die,
         InCycle, Looping, accountVars, stateVars, threadVars, runnerVars,
         serverVars, history, NoClose, Label, CycleOnly, OrderLabel, RequestLabel,
         Thread, ReadFails
<1>. QED BY <1>1, <1>2, <1>3, <1>4, <1>5 DEF IInv, BotTypeOK, ThreadsOK, StateOK

LEMMA DeclineKeeps ==
  ASSUME IInv, NEW t \in Thread, Decline(t)
  PROVE  IInv'
<1>0. AccountTypeOK /\ ThreadsOK /\ StateOK
  BY TypeParts DEF IInv
<1>1. AccountTypeOK'
  BY <1>0 DEF AccountTypeOK, Row, RowStatus, Trade, Decline, accountVars
<1>2. StateOK'
  BY <1>0
     DEF StateOK, BotStatus, Mode, Decline, stateVars, serverVars, Load, Expire,
         history, accountVars
<1>3. ThreadsOK'
  BY <1>0, StepTyped, FinishTyped, DieTyped
     DEF ThreadsOK, Decline, Label, CycleOnly, OrderLabel, RequestLabel, InCycle,
         Goto, Result, threadVars, runnerVars
<1>4. BootInv'
  BY <1>0, BotAssumption
     DEF IInv, ThreadsOK, BootInv, Decline, Step, Goto, Finish, Die, InCycle,
         Looping, accountVars, stateVars, threadVars, runnerVars, serverVars,
         history, NoClose, Label, CycleOnly, OrderLabel, RequestLabel, Thread
<1>5. ASSUME "byhand" \notin Faults PROVE CycleInv'
  <2>1. CycleInv /\ pc \in [Thread -> Label]
    BY <1>0, <1>5 DEF IInv, ThreadsOK
  <2>2. UNCHANGED accountVars
    BY DEF Decline
  <2>3. pc[t] = "decline" /\ lock = t
    BY <1>0 DEF Decline, IInv, BotTypeOK, CycleOnly
  <2>4. \/ pc' = [pc EXCEPT ![t] = "idle"]
        \/ pc' = [pc EXCEPT ![t] = "riskstop"] /\ UNCHANGED <<lock, seen>>
    BY DEF Decline, Step, Finish, Goto
  <2>5. \A u \in Thread : u # t => seen'[u] = seen[u]
    BY <1>0 DEF Decline, Step, Finish, ThreadsOK
  <2>6. \A u \in Thread : u # t => ~(pc[u] \in OrderLabel)
    BY <2>1, <2>3 DEF CycleInv
  <2>. QED
    BY <2>1, <2>2, <2>3, <2>4, <2>5, <2>6
       DEF CycleInv, OneTradeAtATime, OpenTrades, Filled, accountVars, OrderLabel
<1>. QED BY <1>1, <1>2, <1>3, <1>4, <1>5 DEF IInv, BotTypeOK, ThreadsOK, StateOK

LEMMA RiskStopKeeps ==
  ASSUME IInv, NEW t \in Thread, RiskStop(t)
  PROVE  IInv'
<1>0. AccountTypeOK /\ ThreadsOK /\ StateOK
  BY TypeParts DEF IInv
<1>1. AccountTypeOK'
  BY <1>0 DEF AccountTypeOK, Row, RowStatus, Trade, RiskStop, accountVars, SetBot
<1>2. StateOK'
  BY <1>0
     DEF StateOK, BotStatus, Mode, RiskStop, stateVars, serverVars, Load, Expire,
         history, accountVars, SetBot
<1>3. ThreadsOK'
  BY <1>0, StepTyped, FinishTyped, DieTyped
     DEF ThreadsOK, RiskStop, Label, CycleOnly, OrderLabel, RequestLabel, InCycle,
         Goto, Result, threadVars, runnerVars, SetBot
<1>4. BootInv'
  BY <1>0, BotAssumption
     DEF IInv, ThreadsOK, BootInv, RiskStop, Step, Goto, Finish, Die, InCycle,
         Looping, accountVars, stateVars, threadVars, runnerVars, serverVars,
         history, NoClose, Label, CycleOnly, OrderLabel, RequestLabel, Thread,
         SetBot
<1>5. ASSUME "byhand" \notin Faults PROVE CycleInv'
  BY <1>5, BotAssumption
     DEF IInv, BotTypeOK, AccountTypeOK, Result, BootInv, CycleInv, OneTradeAtATime,
         OpenTrades, Filled, Trade, RiskStop, Step, Goto, Finish, Die, InCycle,
         Looping, accountVars, stateVars, threadVars, runnerVars, serverVars,
         history, NoClose, Label, CycleOnly, OrderLabel, RequestLabel, Thread,
         SetBot
<1>. QED BY <1>1, <1>2, <1>3, <1>4, <1>5 DEF IInv, BotTypeOK, ThreadsOK, StateOK

LEMMA PlaceOrderKeeps ==
  ASSUME IInv, NEW t \in Thread, PlaceOrder(t)
  PROVE  IInv'
<1>0. AccountTypeOK /\ ThreadsOK /\ StateOK
  BY TypeParts DEF IInv
<1>1. AccountTypeOK'
  BY <1>0
     DEF AccountTypeOK, Row, RowStatus, Trade, PlaceOrder, accountVars, MayPlace,
         Practising, Refuse, SetStatus, Unused
<1>2. StateOK'
  BY <1>0
     DEF StateOK, BotStatus, Mode, PlaceOrder, stateVars, serverVars, Load, Expire,
         history, accountVars, MayPlace, Practising, Refuse, SetStatus, Unused
<1>3. ThreadsOK'
  BY <1>0, StepTyped, FinishTyped, DieTyped
     DEF ThreadsOK, PlaceOrder, Label, CycleOnly, OrderLabel, RequestLabel, InCycle,
         Goto, Result, threadVars, runnerVars, MayPlace, Practising, Refuse,
         SetStatus, Unused
<1>4. BootInv'
  <2>1. boot' = boot /\ enabled' = enabled /\ word' = word
    BY DEF PlaceOrder, stateVars, serverVars, history
  <2>2. boot = "done"
    BY <1>0 DEF IInv, BootInv, PlaceOrder
  <2>3. \A u \in Thread : pc'[u] \in {"post", "initialize"} => pc[u] = pc'[u] \/ enabled
    BY <1>0 DEF ThreadsOK, PlaceOrder, MayPlace, Refuse, Step, Finish, Goto
  <2>4. lock' \in {lock, NoThread}
    BY DEF PlaceOrder, Refuse, Step, Finish
  <2>5. \A u \in Thread : pc'[u] \in RequestLabel => pc[u] = pc'[u]
    BY <1>0
       DEF ThreadsOK, PlaceOrder, Refuse, Step, Finish, Goto, Label, CycleOnly,
           OrderLabel, RequestLabel
  <2>. QED BY <2>1, <2>2, <2>3, <2>4, <2>5, BotAssumption DEF IInv, BootInv, Thread
<1>5. ASSUME "byhand" \notin Faults PROVE CycleInv'
  <2>1. CycleInv /\ lock = t /\ OpenTrades = {} /\ Filled = {}
    BY <1>5 DEF IInv, CycleInv, PlaceOrder, OrderLabel
  <2>2. trade' = trade /\ OpenTrades' = OpenTrades
    BY DEF PlaceOrder, OpenTrades
  <2>3. Filled' = {}
    BY <1>0, <2>1 DEF PlaceOrder, SetStatus, Unused, Filled, AccountTypeOK, Row
  <2>4. \A u \in Thread : pc'[u] \in OrderLabel => lock' = u
    BY <1>0, <2>1, BotAssumption
       DEF CycleInv, ThreadsOK, PlaceOrder, Refuse, InCycle, Step, Finish, Goto,
           Label, CycleOnly, OrderLabel, RequestLabel
  <2>. QED BY <2>1, <2>2, <2>3, <2>4 DEF CycleInv, OneTradeAtATime
<1>. QED BY <1>1, <1>2, <1>3, <1>4, <1>5 DEF IInv, BotTypeOK, ThreadsOK, StateOK

LEMMA PostKeeps ==
  ASSUME IInv, NEW t \in Thread, Post(t)
  PROVE  IInv'
<1>0. AccountTypeOK /\ ThreadsOK /\ StateOK
  BY TypeParts DEF IInv
<1>1. AccountTypeOK'
  BY <1>0
     DEF AccountTypeOK, Row, RowStatus, Trade, Post, accountVars, ReplyFails,
         OrderFills, Outcome
<1>2. StateOK'
  BY <1>0
     DEF StateOK, BotStatus, Mode, Post, stateVars, serverVars, Load, Expire,
         history, accountVars, ReplyFails, OrderFills, Outcome
<1>3. ThreadsOK'
  BY <1>0, StepTyped, FinishTyped, DieTyped
     DEF ThreadsOK, Post, Label, CycleOnly, OrderLabel, RequestLabel, InCycle, Goto,
         Result, threadVars, runnerVars, ReplyFails, OrderFills, Outcome
<1>4. BootInv'
  BY <1>0, BotAssumption
     DEF IInv, ThreadsOK, BootInv, Post, Step, Goto, Finish, Die, InCycle, Looping,
         accountVars, stateVars, threadVars, runnerVars, serverVars, history,
         NoClose, Label, CycleOnly, OrderLabel, RequestLabel, Thread, ReplyFails,
         OrderFills, Outcome
<1>5. ASSUME "byhand" \notin Faults PROVE CycleInv'
  <2>1. CycleInv /\ lock = t /\ OpenTrades = {} /\ pc[t] = "post"
    BY <1>5 DEF IInv, CycleInv, Post, OrderLabel
  <2>2. OneTradeAtATime'
    <3>1. \A o \in Order : trade[o] # "open"
      BY <2>1 DEF OpenTrades
    <3>2. \/ trade' = trade
          \/ \E o \in Order : trade' = [trade EXCEPT ![o] = "open"]
      BY <1>0, <2>1 DEF Post, OrderFills, ThreadsOK
    <3>. QED BY <1>0, <3>1, <3>2 DEF OneTradeAtATime, OpenTrades, AccountTypeOK
  <2>3. pc'[t] \in {"filled", "orderfail"} /\ lock' = lock /\ \A u \in Thread : u # t => pc'[u] = pc[u]
    BY <1>0 DEF Post, Step, Goto, ThreadsOK
  <2>4. \A u \in Thread : u # t => pc[u] \notin OrderLabel \cup CycleOnly
    BY <1>0, <2>1 DEF CycleInv, ThreadsOK
  <2>5. {"reconcile", "signal", "place", "post"} \subseteq OrderLabel \cup CycleOnly
    BY DEF OrderLabel, CycleOnly
  <2>. QED BY <2>1, <2>2, <2>3, <2>4, <2>5 DEF CycleInv
<1>. QED BY <1>1, <1>2, <1>3, <1>4, <1>5 DEF IInv, BotTypeOK, ThreadsOK, StateOK

LEMMA OrderFilledKeeps ==
  ASSUME IInv, NEW t \in Thread, OrderFilled(t)
  PROVE  IInv'
<1>0. AccountTypeOK /\ ThreadsOK /\ StateOK
  BY TypeParts DEF IInv
<1>1. AccountTypeOK'
  <2>1. \A o \in Order : [status |-> "filled", traded |-> trade[o] # "none"] \in Row
    BY DEF Row, RowStatus
  <2>. QED BY <1>0, <2>1 DEF AccountTypeOK, ThreadsOK, OrderFilled
<1>2. StateOK'
  BY <1>0
     DEF StateOK, BotStatus, Mode, OrderFilled, stateVars, serverVars, Load, Expire,
         history, accountVars
<1>3. ThreadsOK'
  BY <1>0, StepTyped, FinishTyped, DieTyped
     DEF ThreadsOK, OrderFilled, Label, CycleOnly, OrderLabel, RequestLabel,
         InCycle, Goto, Result, threadVars, runnerVars
<1>4. BootInv'
  <2>1. boot' = boot /\ enabled' = enabled /\ word' = word
    BY DEF OrderFilled, stateVars, serverVars, history
  <2>2. boot = "done"
    BY <1>0 DEF IInv, BootInv, OrderFilled
  <2>3. \A u \in Thread : pc'[u] \in {"post", "initialize"} => pc[u] = pc'[u]
    BY <1>0 DEF ThreadsOK, OrderFilled, Step, Finish, Goto
  <2>4. lock' \in {lock, NoThread}
    BY DEF OrderFilled, Step, Finish
  <2>5. \A u \in Thread : pc'[u] \in RequestLabel => pc[u] = pc'[u]
    BY <1>0
       DEF ThreadsOK, OrderFilled, Step, Finish, Goto, Label, CycleOnly, OrderLabel,
           RequestLabel
  <2>. QED BY <2>1, <2>2, <2>3, <2>4, <2>5, BotAssumption DEF IInv, BootInv, Thread
<1>5. ASSUME "byhand" \notin Faults PROVE CycleInv'
  BY <1>5, BotAssumption
     DEF IInv, BotTypeOK, AccountTypeOK, Result, BootInv, CycleInv, OneTradeAtATime,
         OpenTrades, Filled, Trade, OrderFilled, Step, Goto, Finish, Die, InCycle,
         Looping, accountVars, stateVars, threadVars, runnerVars, serverVars,
         history, NoClose, Label, CycleOnly, OrderLabel, RequestLabel, Thread
<1>. QED BY <1>1, <1>2, <1>3, <1>4, <1>5 DEF IInv, BotTypeOK, ThreadsOK, StateOK

LEMMA OrderFailsKeeps ==
  ASSUME IInv, NEW t \in Thread, OrderFails(t)
  PROVE  IInv'
<1>0. AccountTypeOK /\ ThreadsOK /\ StateOK
  BY TypeParts DEF IInv
<1>1. AccountTypeOK'
  BY <1>0
     DEF AccountTypeOK, Row, RowStatus, Trade, OrderFails, accountVars, SetStatus
<1>2. StateOK'
  BY <1>0
     DEF StateOK, BotStatus, Mode, OrderFails, stateVars, serverVars, Load, Expire,
         history, accountVars, SetStatus
<1>3. ThreadsOK'
  BY <1>0, StepTyped, FinishTyped, DieTyped
     DEF ThreadsOK, OrderFails, Label, CycleOnly, OrderLabel, RequestLabel, InCycle,
         Goto, Result, threadVars, runnerVars, SetStatus
<1>4. BootInv'
  BY <1>0, BotAssumption
     DEF IInv, ThreadsOK, BootInv, OrderFails, Step, Goto, Finish, Die, InCycle,
         Looping, accountVars, stateVars, threadVars, runnerVars, serverVars,
         history, NoClose, Label, CycleOnly, OrderLabel, RequestLabel, Thread,
         SetStatus
<1>5. ASSUME "byhand" \notin Faults PROVE CycleInv'
  BY <1>5, BotAssumption
     DEF IInv, BotTypeOK, AccountTypeOK, Result, BootInv, CycleInv, OneTradeAtATime,
         OpenTrades, Filled, Trade, OrderFails, Step, Goto, Finish, Die, InCycle,
         Looping, accountVars, stateVars, threadVars, runnerVars, serverVars,
         history, NoClose, Label, CycleOnly, OrderLabel, RequestLabel, Thread,
         SetStatus
<1>. QED BY <1>1, <1>2, <1>3, <1>4, <1>5 DEF IInv, BotTypeOK, ThreadsOK, StateOK

LEMMA EmergencyStopKeeps ==
  ASSUME IInv, NEW t \in Thread, EmergencyStop(t)
  PROVE  IInv'
<1>0. AccountTypeOK /\ ThreadsOK /\ StateOK
  BY TypeParts DEF IInv
<1>1. AccountTypeOK'
  BY <1>0
     DEF AccountTypeOK, Row, RowStatus, Trade, EmergencyStop, accountVars, SetBot,
         Refuse
<1>2. StateOK'
  BY <1>0
     DEF StateOK, BotStatus, Mode, EmergencyStop, stateVars, serverVars, Load,
         Expire, history, accountVars, SetBot, Refuse
<1>3. ThreadsOK'
  BY <1>0, StepTyped, FinishTyped, DieTyped
     DEF ThreadsOK, EmergencyStop, Label, CycleOnly, OrderLabel, RequestLabel,
         InCycle, Goto, Result, threadVars, runnerVars, SetBot, Refuse
<1>4. BootInv'
  <2>1. boot' = boot /\ enabled' = enabled /\ word' = word
    BY DEF EmergencyStop, Refuse, SetBot, serverVars, history
  <2>2. boot = "done"
    BY <1>0 DEF IInv, BootInv, EmergencyStop, Refuse
  <2>3. \A u \in Thread : pc'[u] \in {"post", "initialize"} => pc[u] = pc'[u]
    BY <1>0 DEF ThreadsOK, EmergencyStop, Refuse, Step, Finish, Goto
  <2>4. lock' \in {lock, NoThread}
    BY DEF EmergencyStop, Refuse, Step, Finish
  <2>5. \A u \in Thread : pc'[u] \in RequestLabel => pc[u] = pc'[u]
    BY <1>0
       DEF ThreadsOK, EmergencyStop, Refuse, Step, Finish, Goto, Label, CycleOnly,
           OrderLabel, RequestLabel
  <2>. QED BY <2>1, <2>2, <2>3, <2>4, <2>5, BotAssumption DEF IInv, BootInv, Thread
<1>5. ASSUME "byhand" \notin Faults PROVE CycleInv'
  BY <1>5, BotAssumption
     DEF IInv, BotTypeOK, AccountTypeOK, Result, BootInv, CycleInv, OneTradeAtATime,
         OpenTrades, Filled, Trade, EmergencyStop, Step, Goto, Finish, Die, InCycle,
         Looping, accountVars, stateVars, threadVars, runnerVars, serverVars,
         history, NoClose, Label, CycleOnly, OrderLabel, RequestLabel, Thread,
         SetBot, Refuse
<1>. QED BY <1>1, <1>2, <1>3, <1>4, <1>5 DEF IInv, BotTypeOK, ThreadsOK, StateOK

LEMMA FatalStopKeeps ==
  ASSUME IInv, NEW t \in Thread, FatalStop(t)
  PROVE  IInv'
<1>0. AccountTypeOK /\ ThreadsOK /\ StateOK
  BY TypeParts DEF IInv
<1>1. AccountTypeOK'
  BY <1>0 DEF AccountTypeOK, Row, RowStatus, Trade, FatalStop, accountVars
<1>2. StateOK'
  <2>1. enabled' \in BOOLEAN
    BY <1>0 DEF StateOK, FatalStop
  <2>2. failures' \in Nat
    BY <1>0 DEF StateOK, FatalStop
  <2>3. loaded' \in [Thread -> SUBSET [on : BOOLEAN, failures : Nat]]
    BY <1>0 DEF StateOK, FatalStop, Expire
  <2>. QED BY <1>0, <2>1, <2>2, <2>3 DEF StateOK, FatalStop, history
<1>3. ThreadsOK'
  BY <1>0, StepTyped, FinishTyped, DieTyped
     DEF ThreadsOK, FatalStop, Label, CycleOnly, OrderLabel, RequestLabel, InCycle,
         Goto, Result, threadVars, runnerVars
<1>4. BootInv'
  BY <1>0, BotAssumption
     DEF IInv, ThreadsOK, BootInv, FatalStop, Step, Goto, Finish, Die, InCycle,
         Looping, accountVars, stateVars, threadVars, runnerVars, serverVars,
         history, NoClose, Label, CycleOnly, OrderLabel, RequestLabel, Thread
<1>5. ASSUME "byhand" \notin Faults PROVE CycleInv'
  BY <1>5, BotAssumption
     DEF IInv, BotTypeOK, AccountTypeOK, Result, BootInv, CycleInv, OneTradeAtATime,
         OpenTrades, Filled, Trade, FatalStop, Step, Goto, Finish, Die, InCycle,
         Looping, accountVars, stateVars, threadVars, runnerVars, serverVars,
         history, NoClose, Label, CycleOnly, OrderLabel, RequestLabel, Thread
<1>. QED BY <1>1, <1>2, <1>3, <1>4, <1>5 DEF IInv, BotTypeOK, ThreadsOK, StateOK

LEMMA ErrorStopKeeps ==
  ASSUME IInv, NEW t \in Thread, ErrorStop(t)
  PROVE  IInv'
<1>0. AccountTypeOK /\ ThreadsOK /\ StateOK
  BY TypeParts DEF IInv
<1>1. AccountTypeOK'
  BY <1>0 DEF AccountTypeOK, Row, RowStatus, Trade, ErrorStop, accountVars, SetBot
<1>2. StateOK'
  BY <1>0
     DEF StateOK, BotStatus, Mode, ErrorStop, stateVars, serverVars, Load, Expire,
         history, accountVars, SetBot
<1>3. ThreadsOK'
  BY <1>0, StepTyped, FinishTyped, DieTyped
     DEF ThreadsOK, ErrorStop, Label, CycleOnly, OrderLabel, RequestLabel, InCycle,
         Goto, Result, threadVars, runnerVars, SetBot
<1>4. BootInv'
  BY <1>0, BotAssumption
     DEF IInv, ThreadsOK, BootInv, ErrorStop, Step, Goto, Finish, Die, InCycle,
         Looping, accountVars, stateVars, threadVars, runnerVars, serverVars,
         history, NoClose, Label, CycleOnly, OrderLabel, RequestLabel, Thread,
         SetBot
<1>5. ASSUME "byhand" \notin Faults PROVE CycleInv'
  BY <1>5, BotAssumption
     DEF IInv, BotTypeOK, AccountTypeOK, Result, BootInv, CycleInv, OneTradeAtATime,
         OpenTrades, Filled, Trade, ErrorStop, Step, Goto, Finish, Die, InCycle,
         Looping, accountVars, stateVars, threadVars, runnerVars, serverVars,
         history, NoClose, Label, CycleOnly, OrderLabel, RequestLabel, Thread,
         SetBot
<1>. QED BY <1>1, <1>2, <1>3, <1>4, <1>5 DEF IInv, BotTypeOK, ThreadsOK, StateOK

LEMMA StartRequestedKeeps ==
  ASSUME IInv, NEW t \in Thread, StartRequested(t)
  PROVE  IInv'
<1>0. AccountTypeOK /\ ThreadsOK /\ StateOK
  BY TypeParts DEF IInv
<1>1. AccountTypeOK'
  BY <1>0
     DEF AccountTypeOK, Row, RowStatus, Trade, StartRequested, accountVars, Request
<1>2. StateOK'
  BY <1>0
     DEF StateOK, BotStatus, Mode, StartRequested, stateVars, serverVars, Load,
         Expire, history, accountVars, Request
<1>3. ThreadsOK'
  BY <1>0, StepTyped, FinishTyped, DieTyped
     DEF ThreadsOK, StartRequested, Label, CycleOnly, OrderLabel, RequestLabel,
         InCycle, Goto, Result, threadVars, runnerVars, Request
<1>4. BootInv'
  BY <1>0, BotAssumption
     DEF IInv, ThreadsOK, BootInv, StartRequested, Step, Goto, Finish, Die, InCycle,
         Looping, accountVars, stateVars, threadVars, runnerVars, serverVars,
         history, NoClose, Label, CycleOnly, OrderLabel, RequestLabel, Thread,
         Request
<1>5. ASSUME "byhand" \notin Faults PROVE CycleInv'
  BY <1>5, BotAssumption
     DEF IInv, BotTypeOK, AccountTypeOK, Result, BootInv, CycleInv, OneTradeAtATime,
         OpenTrades, Filled, Trade, StartRequested, Step, Goto, Finish, Die,
         InCycle, Looping, accountVars, stateVars, threadVars, runnerVars,
         serverVars, history, NoClose, Label, CycleOnly, OrderLabel, RequestLabel,
         Thread, Request
<1>. QED BY <1>1, <1>2, <1>3, <1>4, <1>5 DEF IInv, BotTypeOK, ThreadsOK, StateOK

LEMMA StopRequestedKeeps ==
  ASSUME IInv, NEW t \in Thread, StopRequested(t)
  PROVE  IInv'
<1>0. AccountTypeOK /\ ThreadsOK /\ StateOK
  BY TypeParts DEF IInv
<1>1. AccountTypeOK'
  BY <1>0
     DEF AccountTypeOK, Row, RowStatus, Trade, StopRequested, accountVars, Request
<1>2. StateOK'
  BY <1>0
     DEF StateOK, BotStatus, Mode, StopRequested, stateVars, serverVars, Load,
         Expire, history, accountVars, Request
<1>3. ThreadsOK'
  BY <1>0, StepTyped, FinishTyped, DieTyped
     DEF ThreadsOK, StopRequested, Label, CycleOnly, OrderLabel, RequestLabel,
         InCycle, Goto, Result, threadVars, runnerVars, Request
<1>4. BootInv'
  BY <1>0, BotAssumption
     DEF IInv, ThreadsOK, BootInv, StopRequested, Step, Goto, Finish, Die, InCycle,
         Looping, accountVars, stateVars, threadVars, runnerVars, serverVars,
         history, NoClose, Label, CycleOnly, OrderLabel, RequestLabel, Thread,
         Request
<1>5. ASSUME "byhand" \notin Faults PROVE CycleInv'
  BY <1>5, BotAssumption
     DEF IInv, BotTypeOK, AccountTypeOK, Result, BootInv, CycleInv, OneTradeAtATime,
         OpenTrades, Filled, Trade, StopRequested, Step, Goto, Finish, Die, InCycle,
         Looping, accountVars, stateVars, threadVars, runnerVars, serverVars,
         history, NoClose, Label, CycleOnly, OrderLabel, RequestLabel, Thread,
         Request
<1>. QED BY <1>1, <1>2, <1>3, <1>4, <1>5 DEF IInv, BotTypeOK, ThreadsOK, StateOK

LEMMA OrderRequestedKeeps ==
  ASSUME IInv, NEW t \in Thread, OrderRequested(t)
  PROVE  IInv'
<1>0. AccountTypeOK /\ ThreadsOK /\ StateOK
  BY TypeParts DEF IInv
<1>1. AccountTypeOK'
  BY <1>0
     DEF AccountTypeOK, Row, RowStatus, Trade, OrderRequested, accountVars, Request
<1>2. StateOK'
  BY <1>0
     DEF StateOK, BotStatus, Mode, OrderRequested, stateVars, serverVars, Load,
         Expire, history, accountVars, Request
<1>3. ThreadsOK'
  BY <1>0, StepTyped, FinishTyped, DieTyped
     DEF ThreadsOK, OrderRequested, Label, CycleOnly, OrderLabel, RequestLabel,
         InCycle, Goto, Result, threadVars, runnerVars, Request
<1>4. BootInv'
  BY <1>0, BotAssumption
     DEF IInv, ThreadsOK, BootInv, OrderRequested, Step, Goto, Finish, Die, InCycle,
         Looping, accountVars, stateVars, threadVars, runnerVars, serverVars,
         history, NoClose, Label, CycleOnly, OrderLabel, RequestLabel, Thread,
         Request
<1>5. ASSUME "byhand" \notin Faults PROVE CycleInv'
  BY <1>5, BotAssumption
     DEF IInv, BotTypeOK, AccountTypeOK, Result, BootInv, CycleInv, OneTradeAtATime,
         OpenTrades, Filled, Trade, OrderRequested, Step, Goto, Finish, Die,
         InCycle, Looping, accountVars, stateVars, threadVars, runnerVars,
         serverVars, history, NoClose, Label, CycleOnly, OrderLabel, RequestLabel,
         Thread, Request
<1>. QED BY <1>1, <1>2, <1>3, <1>4, <1>5 DEF IInv, BotTypeOK, ThreadsOK, StateOK

LEMMA InitializeKeeps ==
  ASSUME IInv, NEW t \in Thread, Initialize(t)
  PROVE  IInv'
<1>0. AccountTypeOK /\ ThreadsOK /\ StateOK
  BY TypeParts DEF IInv
<1>1. AccountTypeOK'
  BY <1>0
     DEF AccountTypeOK, Row, RowStatus, Trade, Initialize, accountVars, ReadFails
<1>2. StateOK'
  <2>1. enabled' \in BOOLEAN
    BY <1>0 DEF StateOK, Initialize
  <2>2. failures' \in Nat /\ closeFails' \in Nat
    BY <1>0 DEF StateOK, Initialize
  <2>3. loaded' \in [Thread -> SUBSET [on : BOOLEAN, failures : Nat]]
    BY <1>0 DEF StateOK, Initialize, Expire
  <2>. QED BY <1>0, <2>1, <2>2, <2>3 DEF StateOK, Initialize
<1>3. ThreadsOK'
  BY <1>0, StepTyped, FinishTyped, DieTyped
     DEF ThreadsOK, Initialize, Label, CycleOnly, OrderLabel, RequestLabel, InCycle,
         Goto, Result, threadVars, runnerVars, ReadFails
<1>4. BootInv'
  BY <1>0, BotAssumption
     DEF IInv, ThreadsOK, BootInv, Initialize, Step, Goto, Finish, Die, InCycle,
         Looping, accountVars, stateVars, threadVars, runnerVars, serverVars,
         history, NoClose, Label, CycleOnly, OrderLabel, RequestLabel, Thread,
         ReadFails
<1>5. ASSUME "byhand" \notin Faults PROVE CycleInv'
  BY <1>5, BotAssumption
     DEF IInv, BotTypeOK, AccountTypeOK, Result, BootInv, CycleInv, OneTradeAtATime,
         OpenTrades, Filled, Trade, Initialize, Step, Goto, Finish, Die, InCycle,
         Looping, accountVars, stateVars, threadVars, runnerVars, serverVars,
         history, NoClose, Label, CycleOnly, OrderLabel, RequestLabel, Thread,
         ReadFails
<1>. QED BY <1>1, <1>2, <1>3, <1>4, <1>5 DEF IInv, BotTypeOK, ThreadsOK, StateOK

LEMMA StartBotKeeps ==
  ASSUME IInv, NEW t \in Thread, StartBot(t)
  PROVE  IInv'
<1>0. AccountTypeOK /\ ThreadsOK /\ StateOK
  BY TypeParts DEF IInv
<1>1. AccountTypeOK'
  BY <1>0 DEF AccountTypeOK, Row, RowStatus, Trade, StartBot, accountVars
<1>2. StateOK'
  BY <1>0
     DEF StateOK, BotStatus, Mode, StartBot, stateVars, serverVars, Load, Expire,
         history, accountVars
<1>3. ThreadsOK'
  BY <1>0, StepTyped, FinishTyped, DieTyped
     DEF ThreadsOK, StartBot, Label, CycleOnly, OrderLabel, RequestLabel, InCycle,
         Goto, Result, threadVars, runnerVars
<1>4. BootInv'
  BY <1>0, BotAssumption
     DEF IInv, ThreadsOK, BootInv, StartBot, Step, Goto, Finish, Die, InCycle,
         Looping, accountVars, stateVars, threadVars, runnerVars, serverVars,
         history, NoClose, Label, CycleOnly, OrderLabel, RequestLabel, Thread
<1>5. ASSUME "byhand" \notin Faults PROVE CycleInv'
  BY <1>5, BotAssumption
     DEF IInv, BotTypeOK, AccountTypeOK, Result, BootInv, CycleInv, OneTradeAtATime,
         OpenTrades, Filled, Trade, StartBot, Step, Goto, Finish, Die, InCycle,
         Looping, accountVars, stateVars, threadVars, runnerVars, serverVars,
         history, NoClose, Label, CycleOnly, OrderLabel, RequestLabel, Thread
<1>. QED BY <1>1, <1>2, <1>3, <1>4, <1>5 DEF IInv, BotTypeOK, ThreadsOK, StateOK

LEMMA RunnerStopKeeps ==
  ASSUME IInv, NEW t \in Thread, RunnerStop(t)
  PROVE  IInv'
<1>0. AccountTypeOK /\ ThreadsOK /\ StateOK
  BY TypeParts DEF IInv
<1>1. AccountTypeOK'
  BY <1>0
     DEF AccountTypeOK, Row, RowStatus, Trade, RunnerStop, accountVars, EndWaiting
<1>2. StateOK'
  BY <1>0
     DEF StateOK, BotStatus, Mode, RunnerStop, stateVars, serverVars, Load, Expire,
         history, accountVars, EndWaiting
<1>3. ThreadsOK'
  BY <1>0, StepTyped, FinishTyped, DieTyped
     DEF ThreadsOK, RunnerStop, Label, CycleOnly, OrderLabel, RequestLabel, InCycle,
         Goto, Result, threadVars, runnerVars, EndWaiting
<1>4. BootInv'
  BY <1>0, BotAssumption
     DEF IInv, ThreadsOK, BootInv, RunnerStop, Step, Goto, Finish, Die, InCycle,
         Looping, accountVars, stateVars, threadVars, runnerVars, serverVars,
         history, NoClose, Label, CycleOnly, OrderLabel, RequestLabel, Thread,
         EndWaiting
<1>5. ASSUME "byhand" \notin Faults PROVE CycleInv'
  BY <1>5, BotAssumption
     DEF IInv, BotTypeOK, AccountTypeOK, Result, BootInv, CycleInv, OneTradeAtATime,
         OpenTrades, Filled, Trade, RunnerStop, Step, Goto, Finish, Die, InCycle,
         Looping, accountVars, stateVars, threadVars, runnerVars, serverVars,
         history, NoClose, Label, CycleOnly, OrderLabel, RequestLabel, Thread,
         EndWaiting
<1>. QED BY <1>1, <1>2, <1>3, <1>4, <1>5 DEF IInv, BotTypeOK, ThreadsOK, StateOK

LEMMA RunnerStartKeeps ==
  ASSUME IInv, NEW t \in Thread, RunnerStart(t)
  PROVE  IInv'
<1>0. AccountTypeOK /\ ThreadsOK /\ StateOK
  BY TypeParts DEF IInv
<1>1. AccountTypeOK'
  BY <1>0 DEF AccountTypeOK, Row, RowStatus, Trade, RunnerStart, ClearEvent, accountVars
<1>2. StateOK'
  BY <1>0
     DEF StateOK, BotStatus, Mode, RunnerStart, ClearEvent, stateVars, serverVars, Load, Expire,
         history, accountVars
<1>3. ThreadsOK'
  <2>1. runner' \subseteq Loop /\ stopEvent' \in BOOLEAN
    BY <1>0 DEF ThreadsOK, RunnerStart, ClearEvent
  <2>2. lock # t
    BY DEF IInv, BootInv, RunnerStart, RequestLabel
  <2>. QED BY <1>0, <2>1, <2>2, BotAssumption
     DEF ThreadsOK, RunnerStart, ClearEvent, Goto, Thread, Label, CycleOnly, OrderLabel,
         RequestLabel
<1>4. BootInv'
  BY <1>0, BotAssumption
     DEF IInv, ThreadsOK, BootInv, RunnerStart, ClearEvent, Step, Goto, Finish, Die, InCycle,
         Looping, accountVars, stateVars, threadVars, runnerVars, serverVars,
         history, NoClose, Label, CycleOnly, OrderLabel, RequestLabel, Thread
<1>5. ASSUME "byhand" \notin Faults PROVE CycleInv'
  BY <1>5, BotAssumption
     DEF IInv, BotTypeOK, AccountTypeOK, Result, BootInv, CycleInv, OneTradeAtATime,
         OpenTrades, Filled, Trade, RunnerStart, ClearEvent, Step, Goto, Finish, Die, InCycle,
         Looping, accountVars, stateVars, threadVars, runnerVars, serverVars,
         history, NoClose, Label, CycleOnly, OrderLabel, RequestLabel, Thread
<1>. QED BY <1>1, <1>2, <1>3, <1>4, <1>5 DEF IInv, BotTypeOK, ThreadsOK, StateOK

LEMMA StopRunnerKeeps ==
  ASSUME IInv, NEW t \in Thread, StopRunner(t)
  PROVE  IInv'
<1>0. AccountTypeOK /\ ThreadsOK /\ StateOK
  BY TypeParts DEF IInv
<1>1. AccountTypeOK'
  BY <1>0
     DEF AccountTypeOK, Row, RowStatus, Trade, StopRunner, accountVars, EndWaiting
<1>2. StateOK'
  BY <1>0
     DEF StateOK, BotStatus, Mode, StopRunner, stateVars, serverVars, Load, Expire,
         history, accountVars, EndWaiting
<1>3. ThreadsOK'
  BY <1>0, StepTyped, FinishTyped, DieTyped
     DEF ThreadsOK, StopRunner, Label, CycleOnly, OrderLabel, RequestLabel, InCycle,
         Goto, Result, threadVars, runnerVars, EndWaiting
<1>4. BootInv'
  BY <1>0, BotAssumption
     DEF IInv, ThreadsOK, BootInv, StopRunner, Step, Goto, Finish, Die, InCycle,
         Looping, accountVars, stateVars, threadVars, runnerVars, serverVars,
         history, NoClose, Label, CycleOnly, OrderLabel, RequestLabel, Thread,
         EndWaiting
<1>5. ASSUME "byhand" \notin Faults PROVE CycleInv'
  BY <1>5, BotAssumption
     DEF IInv, BotTypeOK, AccountTypeOK, Result, BootInv, CycleInv, OneTradeAtATime,
         OpenTrades, Filled, Trade, StopRunner, Step, Goto, Finish, Die, InCycle,
         Looping, accountVars, stateVars, threadVars, runnerVars, serverVars,
         history, NoClose, Label, CycleOnly, OrderLabel, RequestLabel, Thread,
         EndWaiting
<1>. QED BY <1>1, <1>2, <1>3, <1>4, <1>5 DEF IInv, BotTypeOK, ThreadsOK, StateOK

LEMMA DisableKeeps ==
  ASSUME IInv, NEW t \in Thread, Disable(t)
  PROVE  IInv'
<1>0. AccountTypeOK /\ ThreadsOK /\ StateOK
  BY TypeParts DEF IInv
<1>1. AccountTypeOK'
  BY <1>0 DEF AccountTypeOK, Row, RowStatus, Trade, Disable, accountVars
<1>2. StateOK'
  BY <1>0
     DEF StateOK, BotStatus, Mode, Disable, stateVars, serverVars, Load, Expire,
         history, accountVars
<1>3. ThreadsOK'
  BY <1>0, StepTyped, FinishTyped, DieTyped
     DEF ThreadsOK, Disable, Label, CycleOnly, OrderLabel, RequestLabel, InCycle,
         Goto, Result, threadVars, runnerVars
<1>4. BootInv'
  BY <1>0, BotAssumption
     DEF IInv, ThreadsOK, BootInv, Disable, Step, Goto, Finish, Die, InCycle,
         Looping, accountVars, stateVars, threadVars, runnerVars, serverVars,
         history, NoClose, Label, CycleOnly, OrderLabel, RequestLabel, Thread
<1>5. ASSUME "byhand" \notin Faults PROVE CycleInv'
  BY <1>5, BotAssumption
     DEF IInv, BotTypeOK, AccountTypeOK, Result, BootInv, CycleInv, OneTradeAtATime,
         OpenTrades, Filled, Trade, Disable, Step, Goto, Finish, Die, InCycle,
         Looping, accountVars, stateVars, threadVars, runnerVars, serverVars,
         history, NoClose, Label, CycleOnly, OrderLabel, RequestLabel, Thread
<1>. QED BY <1>1, <1>2, <1>3, <1>4, <1>5 DEF IInv, BotTypeOK, ThreadsOK, StateOK

LEMMA StopBotKeeps ==
  ASSUME IInv, NEW t \in Thread, StopBot(t)
  PROVE  IInv'
<1>0. AccountTypeOK /\ ThreadsOK /\ StateOK
  BY TypeParts DEF IInv
<1>1. AccountTypeOK'
  BY <1>0 DEF AccountTypeOK, Row, RowStatus, Trade, StopBot, accountVars, SetBot
<1>2. StateOK'
  BY <1>0
     DEF StateOK, BotStatus, Mode, StopBot, stateVars, serverVars, Load, Expire,
         history, accountVars, SetBot
<1>3. ThreadsOK'
  BY <1>0, StepTyped, FinishTyped, DieTyped
     DEF ThreadsOK, StopBot, Label, CycleOnly, OrderLabel, RequestLabel, InCycle,
         Goto, Result, threadVars, runnerVars, SetBot
<1>4. BootInv'
  BY <1>0, BotAssumption
     DEF IInv, ThreadsOK, BootInv, StopBot, Step, Goto, Finish, Die, InCycle,
         Looping, accountVars, stateVars, threadVars, runnerVars, serverVars,
         history, NoClose, Label, CycleOnly, OrderLabel, RequestLabel, Thread,
         SetBot
<1>5. ASSUME "byhand" \notin Faults PROVE CycleInv'
  BY <1>5, BotAssumption
     DEF IInv, BotTypeOK, AccountTypeOK, Result, BootInv, CycleInv, OneTradeAtATime,
         OpenTrades, Filled, Trade, StopBot, Step, Goto, Finish, Die, InCycle,
         Looping, accountVars, stateVars, threadVars, runnerVars, serverVars,
         history, NoClose, Label, CycleOnly, OrderLabel, RequestLabel, Thread,
         SetBot
<1>. QED BY <1>1, <1>2, <1>3, <1>4, <1>5 DEF IInv, BotTypeOK, ThreadsOK, StateOK

LEMMA ReconcileKeeps ==
  ASSUME IInv, NEW t \in Thread, Reconcile(t)
  PROVE  IInv'
<1>0. AccountTypeOK /\ ThreadsOK /\ StateOK /\ BootInv
  BY TypeParts DEF IInv
<1>1. /\ AccountTypeOK'
      /\ Filled' \subseteq Filled
      /\ \/ Step(t, "signal") /\ enabled' = enabled /\ failures' = failures
            /\ (seen[t] = 0 => Filled' = {})
         \/ Finish(t) /\ enabled' = enabled /\ failures' = failures
         \/ Step(t, "errorstop") /\ enabled' = FALSE /\ failures' = failures + 1
         \/ Step(t, "fatal") /\ enabled' = enabled /\ failures' = failures
  BY <1>0, ReconcileEffect
<1>2. /\ trade' = trade /\ bot' = bot /\ boot' = boot /\ word' = word /\ loaded' = loaded
      /\ closeFails' = closeFails /\ pc[t] = "reconcile" /\ lock = t
  BY <1>0 DEF Reconcile, serverVars, history, ThreadsOK, CycleOnly
<1>3. StateOK'
  <2>1. enabled' \in BOOLEAN
    BY <1>0, <1>1 DEF StateOK
  <2>2. failures' \in Nat
    BY <1>0, <1>1 DEF StateOK
  <2>. QED BY <1>0, <1>2, <2>1, <2>2 DEF StateOK
<1>4. ThreadsOK'
  BY <1>0, <1>1, <1>2, StepTyped, FinishTyped DEF Label, CycleOnly
<1>5. BootInv'
  BY <1>0, <1>1, <1>2, BotAssumption
     DEF ThreadsOK, BootInv, Step, Finish, Goto, InCycle, Label, CycleOnly,
         OrderLabel, RequestLabel, Thread
<1>6. ASSUME "byhand" \notin Faults PROVE CycleInv'
  <2>1. CycleInv
    BY <1>6 DEF IInv
  <2>2. OpenTrades' = OpenTrades
    BY <1>2 DEF OpenTrades
  <2>. QED BY <1>0, <1>1, <1>2, <2>1, <2>2, BotAssumption
           DEF CycleInv, OneTradeAtATime, ThreadsOK, Step, Finish, Goto, InCycle, OrderLabel, Thread
<1>. QED BY <1>1, <1>3, <1>4, <1>5, <1>6 DEF IInv, BotTypeOK, ThreadsOK, StateOK

(***************************************************************************)
(* Steps of no thread.                                                     *)
(***************************************************************************)
LEMMA BotStartKeeps ==
  ASSUME IInv, NEW mode \in Mode \cup {"live"}, BotStartRequested(mode)
  PROVE  IInv'
<1>1. bot' \in [status : BotStatus, mode : Mode]
  BY DEF IInv, BotTypeOK, BotStartRequested, BotStatus
<1>2. BotTypeOK'
  BY <1>1
     DEF IInv, BotTypeOK, AccountTypeOK, BotStartRequested, accountVars, threadVars,
         runnerVars, serverVars, history
<1>3. BootInv'
  BY DEF IInv, BootInv, BotStartRequested, threadVars, serverVars, history
<1>4. "byhand" \in Faults
  BY DEF BotStartRequested
<1>. QED BY <1>2, <1>3, <1>4 DEF IInv

LEMMA AccountKeeps ==
  ASSUME IInv, AccountStep
  PROVE  IInv'
<1>1. PICK o \in Order : TradeCloses(o)
  BY DEF AccountStep
<1>2. trade' \in [Order -> Trade]
  BY <1>1 DEF TradeCloses, IInv, BotTypeOK, AccountTypeOK, Trade, Outcome
<1>3. OpenTrades' \subseteq OpenTrades /\ Filled' = Filled
  BY <1>1
     DEF TradeCloses, IInv, BotTypeOK, AccountTypeOK, OpenTrades, Filled, Outcome
<1>4. BotTypeOK'
  BY <1>1, <1>2
     DEF TradeCloses, IInv, BotTypeOK, AccountTypeOK, AccountStep, stateVars,
         threadVars, runnerVars, serverVars, history
<1>5. BootInv'
  BY DEF IInv, BootInv, AccountStep, stateVars, threadVars, serverVars, history
<1>6. ASSUME CycleInv PROVE CycleInv'
  BY <1>3, <1>6 DEF CycleInv, OneTradeAtATime, AccountStep, threadVars
<1>. QED BY <1>4, <1>5, <1>6 DEF IInv

LEMMA CrashKeeps ==
  ASSUME IInv, Crash
  PROVE  IInv'
<1>1. BotTypeOK'
  BY DEF IInv, BotTypeOK, AccountTypeOK, Crash, accountVars, stateVars, Label,
     CycleOnly, NoClose, Result
<1>2. BootInv'
  BY DEF IInv, BootInv, Crash, stateVars, RequestLabel
<1>3. ASSUME CycleInv PROVE CycleInv'
  BY <1>3
     DEF CycleInv, OneTradeAtATime, OpenTrades, Filled, OrderLabel, Crash,
         accountVars
<1>. QED BY <1>1, <1>2, <1>3 DEF IInv

LEMMA RecoverKeeps ==
  ASSUME IInv, Recover \/ RecoverBot
  PROVE  IInv'
<1>1. BotTypeOK'
  BY DEF IInv, BotTypeOK, AccountTypeOK, Recover, RecoverBot, SetBot,
     BotStatus, Mode, accountVars, threadVars, runnerVars, serverVars, history
<1>2. BootInv'
  BY DEF IInv, BootInv, Recover, RecoverBot, threadVars, serverVars,
     history
<1>3. ASSUME CycleInv PROVE CycleInv'
  BY <1>3
     DEF CycleInv, OneTradeAtATime, OpenTrades, Filled, Recover, RecoverBot,
         accountVars, threadVars
<1>. QED BY <1>1, <1>2, <1>3 DEF IInv

(***************************************************************************)
(* The invariant.                                                          *)
(***************************************************************************)
LEMMA InitHolds == BotInit => IInv
<1> SUFFICES ASSUME BotInit PROVE IInv
  OBVIOUS
<1>1. AccountTypeOK
  BY DEF BotInit, AccountInit, AccountTypeOK, Row, RowStatus, Trade
<1>2. BotTypeOK
  BY <1>1 DEF BotInit, BotTypeOK, BotStatus, Mode, Label, CycleOnly, NoClose, Result
<1>3. BootInv
  BY DEF BotInit, BootInv, RequestLabel
<1>4. CycleInv
  BY DEF BotInit, AccountInit, CycleInv, OneTradeAtATime, OpenTrades, OrderLabel
<1>. QED BY <1>2, <1>3, <1>4 DEF IInv

LEMMA ThreadKeeps ==
  ASSUME IInv, NEW t \in Thread, BeginCycle(t) \/ ThreadStep(t) \/ Asked(t)
  PROVE  IInv'
<1>1. CASE CycleStep(t)
  BY <1>1, MarketKeeps, ReconcileKeeps, SignalKeeps, CloseCheckKeeps, CloseKeeps,
     CloseDoneKeeps, CloseFailsKeeps, JudgeKeeps, ConfirmPositionKeeps, DeclineKeeps,
     RiskStopKeeps DEF CycleStep
<1>2. CASE OrderStep(t)
  BY <1>2, PlaceOrderKeeps, PostKeeps, OrderFilledKeeps, OrderFailsKeeps,
     EmergencyStopKeeps
     DEF OrderStep
<1>3. CASE RequestStep(t)
  BY <1>3, InitializeKeeps, StartBotKeeps, RunnerStopKeeps, RunnerStartKeeps,
     StopRunnerKeeps, DisableKeeps, StopBotKeeps DEF RequestStep
<1>4. CASE Asked(t)
  BY <1>4, StartRequestedKeeps, StopRequestedKeeps, OrderRequestedKeeps DEF Asked
<1>5. CASE BeginCycle(t) \/ FatalStop(t) \/ ErrorStop(t)
  BY <1>5, BeginCycleKeeps, FatalStopKeeps, ErrorStopKeeps
<1>. QED BY <1>1, <1>2, <1>3, <1>4, <1>5 DEF ThreadStep

LEMMA StutterKeeps == ASSUME IInv, UNCHANGED botVars PROVE IInv'
BY DEF IInv, BotTypeOK, AccountTypeOK, BootInv, CycleInv, OneTradeAtATime,
       OpenTrades, Filled, botVars, accountVars, stateVars, threadVars, runnerVars, serverVars, history

LEMMA StepHolds == IInv /\ [BotNext]_botVars => IInv'
<1> SUFFICES ASSUME IInv, [BotNext]_botVars PROVE IInv'
  OBVIOUS
<1>1. CASE \E t \in Thread : BeginCycle(t) \/ ThreadStep(t) \/ Asked(t)
  BY <1>1, ThreadKeeps
<1>2. CASE \E mode \in Mode \cup {"live"} : BotStartRequested(mode)
  BY <1>2, BotStartKeeps
<1>3. CASE AccountStep
  BY <1>3, AccountKeeps
<1>4. CASE Crash
  BY <1>4, CrashKeeps
<1>5. CASE Recover \/ RecoverBot
  BY <1>5, RecoverKeeps
<1>6. CASE UNCHANGED botVars
  BY <1>6, StutterKeeps
<1>. QED BY <1>1, <1>2, <1>3, <1>4, <1>5, <1>6 DEF BotNext

LEMMA Invariance == BotSpec => []IInv
BY InitHolds, StepHolds, PTL DEF BotSpec

\* Types and the cycle lock, for any number of threads (_cycle_lock).
THEOREM BotIsTyped == BotSpec => []BotTypeOK
<1>1. IInv => BotTypeOK
  BY DEF IInv
<1>. QED BY <1>1, Invariance, PTL

\* Nothing is sent after a restart that nobody asked for
\* (recover_automation_after_restart).
THEOREM RestartIsQuiet == BotSpec => []NothingSentUnasked
<1>1. IInv => NothingSentUnasked
  BY BotAssumption
     DEF IInv, BotTypeOK, BootInv, NothingSentUnasked, Sending, CycleOnly, Thread
<1>. QED BY <1>1, Invariance, PTL

\* Where orders come from cycles only, the cycle lock and the read of the
\* positions before each order keep a single trade open
\* (run_automation_cycle).
THEOREM CyclesHoldOneTrade ==
  ASSUME "byhand" \notin Faults
  PROVE  BotSpec => []OneTradeAtATime
<1>1. IInv => OneTradeAtATime
  BY DEF IInv, CycleInv
<1>. QED BY <1>1, Invariance, PTL

\* ... and every filled order is reconciled before the next is sent
\* (_reconcile_closed_positions).
THEOREM EntriesFollowReconciliation ==
  ASSUME "byhand" \notin Faults
  PROVE  BotSpec => []EntryKnowsFilledOrders
<1>1. IInv => EntryKnowsFilledOrders
  BY DEF IInv, CycleInv, EntryKnowsFilledOrders, Sending
<1>. QED BY <1>1, Invariance, PTL

(***************************************************************************)
(* What becomes of orders and results.                                     *)
(***************************************************************************)
\* An order that is under way is pending and no other thread's, and it has
\* opened nothing before it is sent; what a close reports and what is booked is
\* final.
Ordering == {"post", "filled", "orderfail"}
OrdersApart ==
    /\ \A o \in Order : row[o].status = "none" => trade[o] = "none"
    /\ \A t \in Thread : pc[t] \in Ordering => \A o \in order[t] : row[o].status = "pending"
    /\ \A t \in Thread : pc[t] = "post" => \A o \in order[t] : trade[o] = "none"
    /\ \A t, u \in Thread :
          t # u /\ pc[t] \in Ordering /\ pc[u] \in Ordering =>
              \A o \in order[t] : o \notin order[u]

Settled(result) ==
    \A o \in result.trades :
        /\ trade[o] \in {"won", "lost"}
        /\ result.trades = {o} => trade[o] = Outcome(result.lost)
CloseSettled == \A t \in Thread : pc[t] = "closed" => Settled(closing)

ResultInv == OrdersApart /\ CloseSettled /\ BookedIsClosed

\* Nobody takes an order, sends one or reports a close.
Uninvolved ==
    \A u \in Thread :
        /\ pc'[u] \in Ordering => pc[u] \in Ordering /\ order'[u] = order[u]
        /\ pc'[u] = "post" => pc[u] = "post"
        /\ pc'[u] = "closed" => pc[u] = "closed" /\ closing' = closing
RowsKept ==
    \A o \in Order :
        /\ row'[o].status = "none" => row[o].status = "none"
        /\ row[o].status = "pending" => row'[o].status = "pending"
FinalKept == \A o \in Order : trade[o] \in {"won", "lost"} => trade'[o] = trade[o]
UnopenedKept == \A o \in Order : trade[o] = "none" => trade'[o] = "none"

LEMMA StepUninvolved ==
  ASSUME ThreadsOK, NEW t \in Thread, NEW label \in Label \ {"post", "closed"}, Step(t, label),
         label \in Ordering => pc[t] \in Ordering
  PROVE  Uninvolved
BY DEF ThreadsOK, Step, Goto, Uninvolved

LEMMA FinishUninvolved ==
  ASSUME ThreadsOK, NEW t \in Thread, Finish(t)
  PROVE  Uninvolved
BY DEF ThreadsOK, Finish, Goto, Uninvolved, Ordering, InCycle, CycleOnly

LEMMA DieUninvolved ==
  ASSUME ThreadsOK, NEW t \in Thread, Die(t)
  PROVE  Uninvolved
BY DEF ThreadsOK, Die, Goto, Uninvolved, Ordering

\* ... so that every order under way stays as it is.
LEMMA OrdersApartKept ==
  ASSUME ThreadsOK, OrdersApart, Uninvolved, RowsKept, UnopenedKept
  PROVE  OrdersApart'
<1>1. \A t \in Thread : order[t] \subseteq Order
  BY DEF ThreadsOK
<1>2. \A o \in Order : row'[o].status = "none" => trade'[o] = "none"
  BY DEF OrdersApart, RowsKept, UnopenedKept
<1>3. \A t \in Thread : pc'[t] \in Ordering => \A o \in order'[t] : row'[o].status = "pending"
  BY <1>1 DEF OrdersApart, Uninvolved, RowsKept
<1>4. \A t \in Thread : pc'[t] = "post" => \A o \in order'[t] : trade'[o] = "none"
  BY <1>1 DEF OrdersApart, Uninvolved, UnopenedKept, Ordering
<1>5. \A t, u \in Thread :
         t # u /\ pc'[t] \in Ordering /\ pc'[u] \in Ordering =>
             \A o \in order'[t] : o \notin order'[u]
  BY DEF OrdersApart, Uninvolved
<1>. QED BY <1>2, <1>3, <1>4, <1>5 DEF OrdersApart

LEMMA SettledKept ==
  ASSUME NEW result \in Result, Settled(result), FinalKept
  PROVE  \A o \in result.trades :
            /\ trade'[o] \in {"won", "lost"}
            /\ result.trades = {o} => trade'[o] = Outcome(result.lost)
BY DEF Settled, FinalKept, Result

LEMMA CloseSettledKept ==
  ASSUME ThreadsOK, CloseSettled, Uninvolved, FinalKept
  PROVE  CloseSettled'
<1> SUFFICES ASSUME NEW t \in Thread, pc'[t] = "closed" PROVE Settled(closing)'
  BY DEF CloseSettled
<1>1. pc[t] = "closed" /\ closing' = closing
  BY DEF Uninvolved
<1>2. Settled(closing) /\ closing \in Result
  BY <1>1 DEF CloseSettled, ThreadsOK
<1>. QED BY <1>1, <1>2, SettledKept DEF Settled

LEMMA BookedKept ==
  ASSUME AccountTypeOK, BookedIsClosed, results' = results, FinalKept
  PROVE  BookedIsClosed'
<1> SUFFICES ASSUME NEW i \in DOMAIN results
             PROVE  Settled(results[i])'
  BY DEF BookedIsClosed, Settled
<1>1. results[i] \in Result
  BY DEF AccountTypeOK
<1>2. Settled(results[i])
  BY DEF BookedIsClosed, Settled
<1>. QED BY <1>1, <1>2, SettledKept DEF Settled

\* All that leaves the account alone.
LEMMA UninvolvedKeeps ==
  ASSUME AccountTypeOK, ThreadsOK, ResultInv, Uninvolved, UNCHANGED accountVars
  PROVE  ResultInv'
<1>1. RowsKept /\ FinalKept /\ UnopenedKept
  BY DEF accountVars, RowsKept, FinalKept, UnopenedKept
<1>. QED BY <1>1, OrdersApartKept, CloseSettledKept, BookedKept DEF ResultInv, accountVars

\* The sequence of results grows by results that are settled.
LEMMA BookedAppended ==
  ASSUME AccountTypeOK, BookedIsClosed, trade' = trade,
         NEW n \in Nat, NEW s \in [1..n -> Result], results' = results \o s,
         \A i \in 1..n : Settled(s[i])
  PROVE  BookedIsClosed'
<1>1. results \in Seq(Result) /\ s \in Seq(Result) /\ Len(s) = n
  BY DEF AccountTypeOK
<1>2. SUFFICES ASSUME NEW i \in DOMAIN results' PROVE Settled(results'[i])
  BY DEF BookedIsClosed, Settled
<1>3. CASE i \in 1..Len(results)
  <2>1. results'[i] = results[i] /\ i \in DOMAIN results
    BY <1>1, <1>3
  <2>. QED BY <2>1 DEF BookedIsClosed, Settled
<1>4. CASE i \notin 1..Len(results)
  <2>1. i - Len(results) \in 1..n /\ results'[i] = s[i - Len(results)]
    BY <1>1, <1>2, <1>4
  <2>. QED BY <2>1
<1>. QED BY <1>3, <1>4

\* The results of a reconciliation are those of closed trades.
LEMMA ResultsOfSettled ==
  ASSUME AccountTypeOK, NEW done \in SUBSET Order, \A o \in done : Summarised(o),
         NEW s \in ResultsOf(done)
  PROVE  /\ Cardinality(done) \in Nat
         /\ s \in [1..Cardinality(done) -> Result]
         /\ \A i \in 1..Cardinality(done) : Settled(s[i])
<1> DEFINE Of(o) == [trades |-> {o}, lost |-> trade[o] = "lost"]
<1>1. Cardinality(done) \in Nat
  BY AccountAssumption, FS_Subset, FS_CardinalityType DEF AccountAssumption
<1>2. \A o \in done : Of(o) \in Result
  BY DEF Result
<1>3. s \in [1..Cardinality(done) -> {Of(o) : o \in done}]
  BY DEF ResultsOf
<1>4. ASSUME NEW o \in done PROVE Settled(Of(o))
  <2>1. trade[o] \in {"won", "lost"}
    BY DEF Summarised
  <2>2. Of(o).trades = {o} /\ Of(o).lost = (trade[o] = "lost")
    OBVIOUS
  <2>3. trade[o] = Outcome(Of(o).lost)
    BY <2>1, <2>2 DEF Outcome
  <2>. HIDE DEF Of
  <2>. QED BY <2>1, <2>2, <2>3 DEF Settled
<1>. HIDE DEF Of
<1>. QED BY <1>1, <1>2, <1>3, <1>4

LEMMA ReconcileSettles ==
  ASSUME AccountTypeOK, ThreadsOK, ResultInv, NEW t \in Thread, Reconcile(t)
  PROVE  ResultInv'
<1> DEFINE due == ToReconcile(t)
<1>1. due \subseteq Filled /\ due \subseteq Order
  BY DEF ToReconcile, Filled
<1>2. trade' = trade /\ FinalKept /\ UnopenedKept
  BY DEF Reconcile, FinalKept, UnopenedKept
<1>3. Uninvolved
  <2>1. Step(t, "signal") \/ Finish(t) \/ Step(t, "errorstop") \/ Step(t, "fatal")
    BY DEF Reconcile
  <2>. QED BY <2>1, StepUninvolved, FinishUninvolved
           DEF Ordering, Label, CycleOnly
<1>4. ASSUME NEW done \in SUBSET due, \A o \in done : Summarised(o),
             \E s \in ResultsOf(done) : results' = results \o s
      PROVE  BookedIsClosed'
  <2>1. PICK s \in ResultsOf(done) : results' = results \o s
    BY <1>4
  <2>2. done \in SUBSET Order
    BY <1>1
  <2>. QED BY <1>2, <1>4, <2>1, <2>2, ResultsOfSettled, BookedAppended DEF ResultInv
<1>5. RowsKept
  <2>1. \/ row' = row
        \/ \E done \in SUBSET due :
              row' = [o \in Order |-> IF o \in done THEN [row[o] EXCEPT !.status = "closed"] ELSE row[o]]
        \/ \E done \in SUBSET due, u \in due :
              row' = [o \in Order |->
                         IF o \in done THEN [row[o] EXCEPT !.status = "closed"]
                         ELSE IF o = u THEN [row[o] EXCEPT !.status = "close_unconfirmed"]
                         ELSE row[o]]
    BY DEF Reconcile, Book
  <2>. QED BY <1>1, <2>1 DEF AccountTypeOK, RowsKept, Row, Filled
<1>6. \/ results' = results
      \/ \E done \in SUBSET due :
            (\A o \in done : Summarised(o)) /\ \E s \in ResultsOf(done) : results' = results \o s
  BY DEF Reconcile, Book
<1>7. BookedIsClosed'
  BY <1>2, <1>4, <1>6, BookedKept DEF ResultInv
<1>. QED BY <1>2, <1>3, <1>5, <1>7, OrdersApartKept, CloseSettledKept DEF ResultInv

\* A close reports the outcome of the trades it closed.
LEMMA CloseSettles ==
  ASSUME AccountTypeOK, ThreadsOK, ResultInv, NEW t \in Thread, Close(t)
  PROVE  ResultInv'
<1>1. row' = row /\ results' = results /\ order' = order /\ RowsKept
  BY DEF Close, RowsKept
<1>2. FinalKept /\ UnopenedKept
  <2>1. CASE trade' = trade
    BY <2>1 DEF FinalKept, UnopenedKept
  <2>2. CASE \E outcome \in [OpenTrades -> BOOLEAN] : PositionCloses(outcome)
    BY <2>2 DEF FinalKept, UnopenedKept, PositionCloses, OpenTrades
  <2>. QED BY <2>1, <2>2 DEF Close
<1>3. pc[t] = "close" /\ lock = t /\ lock' = lock /\ \E l \in {"closed", "closefail"} : Goto(t, l)
  BY DEF Close, ThreadsOK, CycleOnly
<1>4. OrdersApart'
  BY <1>1, <1>2, <1>3 DEF OrdersApart, ResultInv, RowsKept, UnopenedKept, ThreadsOK, Goto, Ordering
<1>5. BookedIsClosed'
  BY <1>1, <1>2, BookedKept DEF ResultInv
<1>6. CloseSettled'
  <2>1. \A u \in Thread : pc'[u] = "closed" => u = t
    BY <1>3 DEF ThreadsOK, Goto, CycleOnly
  <2>2. CASE pc'[t] = "closed"
    <3>1. PICK outcome \in [OpenTrades -> BOOLEAN], lost \in BOOLEAN :
             /\ SumMayBe(outcome, lost)
             /\ PositionCloses(outcome)
             /\ closing' = [trades |-> OpenTrades, lost |-> lost]
      BY <1>3, <2>2 DEF Close, Goto, ThreadsOK
    <3>2. \A o \in OpenTrades : trade'[o] \in {"won", "lost"} /\ trade'[o] = Outcome(outcome[o])
      BY <3>1 DEF PositionCloses, OpenTrades, Outcome
    <3>3. \A o \in OpenTrades : OpenTrades = {o} => outcome[o] = lost
      BY <3>1 DEF SumMayBe
    <3>4. closing'.trades = OpenTrades /\ closing'.lost = lost
      BY <3>1
    <3>5. Settled(closing)'
      BY <3>2, <3>3, <3>4 DEF Settled
    <3>. QED BY <2>1, <3>5 DEF CloseSettled
  <2>3. CASE pc'[t] # "closed"
    BY <2>1, <2>3 DEF CloseSettled
  <2>. QED BY <2>2, <2>3
<1>. QED BY <1>4, <1>5, <1>6 DEF ResultInv

LEMMA RepeatedlyAppended ==
  ASSUME NEW old \in Seq(Result), NEW result \in Result, NEW n \in Nat,
         NEW copies \in [1..n -> Result], \A i \in 1..n : copies[i] = result
  PROVE  \A i \in DOMAIN (old \o <<result>> \o copies) :
            \/ (old \o <<result>> \o copies)[i] = result
            \/ i \in DOMAIN old /\ (old \o <<result>> \o copies)[i] = old[i]
<1>1. copies \in Seq(Result) /\ Len(copies) = n /\ Len(old) \in Nat
  OBVIOUS
<1>2. PICK base \in Seq(Result) : base = old \o <<result>>
  <2>1. old \o <<result>> \in Seq(Result)
    OBVIOUS
  <2>. QED BY <2>1
<1>3. /\ Len(base) = Len(old) + 1
      /\ \A i \in 1..Len(old) : base[i] = old[i]
      /\ base[Len(old) + 1] = result
  BY <1>2
<1>4. Len(base \o copies) = Len(old) + 1 + n
  BY <1>1, <1>3
<1>5. SUFFICES ASSUME NEW i \in 1..Len(old) + 1 + n
               PROVE  (base \o copies)[i] = result \/ (i \in 1..Len(old) /\ (base \o copies)[i] = old[i])
  <2>1. DOMAIN (base \o copies) = 1..Len(old) + 1 + n
    BY <1>1, <1>3, <1>4
  <2>2. DOMAIN old = 1..Len(old)
    OBVIOUS
  <2>. QED BY <1>2, <2>1, <2>2
<1>6. CASE i \in 1..Len(old) + 1
  <2>1. (base \o copies)[i] = base[i]
    BY <1>1, <1>3, <1>6
  <2>. QED BY <1>1, <1>3, <1>6, <2>1
<1>7. CASE i \notin 1..Len(old) + 1
  <2>1. i - Len(base) \in 1..n /\ (base \o copies)[i] = copies[i - Len(base)]
    BY <1>1, <1>3, <1>7
  <2>. QED BY <2>1
<1>. QED BY <1>6, <1>7

LEMMA CloseDoneSettles ==
  ASSUME AccountTypeOK, ThreadsOK, ResultInv, NEW t \in Thread, CloseDone(t)
  PROVE  ResultInv'
<1> DEFINE entries == {o \in Filled : row[o].traded /\ o \in closing.trades}
           copies == [i \in 1..Cardinality(entries) |-> closing]
<1>1. closing \in Result /\ Settled(closing)
  BY DEF ThreadsOK, ResultInv, CloseSettled, CloseDone
<1>2. Cardinality(entries) \in Nat /\ entries \subseteq Order
  <2>1. entries \subseteq Order
    BY DEF Filled
  <2>. QED BY <2>1, AccountAssumption, FS_Subset, FS_CardinalityType
     DEF AccountAssumption
<1>3. PICK n \in Nat : n = Cardinality(entries)
  BY <1>2
<1>4. \A i \in DOMAIN results' :
         results'[i] = closing \/ (i \in DOMAIN results /\ results'[i] = results[i])
  <2>1. results' = results \o <<closing>> \o copies
    BY DEF CloseDone, BookClose
  <2>2. copies \in [1..n -> Result] /\ \A i \in 1..n : copies[i] = closing
    BY <1>1, <1>3
  <2>3. results \in Seq(Result)
    BY DEF AccountTypeOK
  <2>. HIDE DEF copies
  <2>. QED BY <1>1, <1>3, <2>1, <2>2, <2>3, RepeatedlyAppended
<1>5. trade' = trade /\ Finish(t) /\ FinalKept /\ UnopenedKept
  BY DEF CloseDone, FinalKept, UnopenedKept
<1>6. BookedIsClosed'
  <2>1. \A i \in DOMAIN results : Settled(results[i])
    BY DEF ResultInv, BookedIsClosed, Settled
  <2>2. \A i \in DOMAIN results' :
           \A o \in results'[i].trades :
              /\ trade[o] \in {"won", "lost"}
              /\ results'[i].trades = {o} => trade[o] = Outcome(results'[i].lost)
    BY <1>1, <1>4, <2>1 DEF Settled
  <2>. QED BY <1>5, <2>2 DEF BookedIsClosed
<1>7. RowsKept
  <2>1. row' = [o \in Order |-> IF o \in entries THEN [row[o] EXCEPT !.status = "closed"]
                               ELSE row[o]]
    BY DEF CloseDone, BookClose
  <2>2. \A o \in entries : row[o].status = "filled"
    BY DEF Filled
  <2>. HIDE DEF entries
  <2>. QED BY <2>1, <2>2 DEF RowsKept, AccountTypeOK, Row
<1>. QED BY <1>5, <1>6, <1>7, FinishUninvolved, OrdersApartKept, CloseSettledKept DEF ResultInv

\* An order takes an unused row, under which nothing was opened.
LEMMA PlaceOrderSettles ==
  ASSUME AccountTypeOK, ThreadsOK, ResultInv, NEW t \in Thread, PlaceOrder(t)
  PROVE  ResultInv'
<1>1. trade' = trade /\ results' = results /\ FinalKept
  BY DEF PlaceOrder, FinalKept
<1>2. BookedIsClosed'
  BY <1>1, BookedKept DEF ResultInv
<1>3. CASE Refuse(t) /\ row' = row
  <2>1. Uninvolved
    BY <1>3, StepUninvolved, FinishUninvolved
       DEF Refuse, Ordering, Label, CycleOnly
  <2>. QED BY <1>1, <1>3, <2>1, UninvolvedKeeps DEF accountVars
<1>4. CASE /\ closing' = closing
           /\ Goto(t, "post")
           /\ \E o \in Unused : SetStatus(o, "pending") /\ order' = [order EXCEPT ![t] = {o}]
  <2>1. PICK o \in Unused : SetStatus(o, "pending") /\ order' = [order EXCEPT ![t] = {o}]
    BY <1>4
  <2>2. o \in Order /\ row[o].status = "none" /\ trade[o] = "none"
    BY DEF Unused, ResultInv, OrdersApart
  <2>3. row'[o].status = "pending" /\ \A p \in Order : p # o => row'[p] = row[p]
    BY <2>1, <2>2 DEF SetStatus, AccountTypeOK, Row
  <2>4. pc'[t] = "post" /\ order'[t] = {o}
    BY <1>4, <2>1 DEF ThreadsOK, Goto
  <2>5. \A u \in Thread : u # t => pc'[u] = pc[u] /\ order'[u] = order[u]
    BY <1>4, <2>1 DEF ThreadsOK, Goto
  <2>6. \A u \in Thread : u # t /\ pc[u] \in Ordering => o \notin order[u]
    BY <2>2 DEF ResultInv, OrdersApart
  <2>7. \A u \in Thread : order[u] \subseteq Order
    BY DEF ThreadsOK
  <2>8. OrdersApart'
    <3>1. \A p \in Order : row'[p].status = "none" => trade'[p] = "none"
      BY <1>1, <2>2, <2>3 DEF ResultInv, OrdersApart
    <3>2. \A u \in Thread : pc'[u] \in Ordering => \A p \in order'[u] : row'[p].status = "pending"
      BY <2>3, <2>4, <2>5, <2>6, <2>7 DEF ResultInv, OrdersApart
    <3>3. \A u \in Thread : pc'[u] = "post" => \A p \in order'[u] : trade'[p] = "none"
      BY <1>1, <2>2, <2>4, <2>5 DEF ResultInv, OrdersApart
    <3>4. \A u, v \in Thread :
             u # v /\ pc'[u] \in Ordering /\ pc'[v] \in Ordering =>
                 \A p \in order'[u] : p \notin order'[v]
      BY <2>4, <2>5, <2>6 DEF ResultInv, OrdersApart
    <3>. QED BY <3>1, <3>2, <3>3, <3>4 DEF OrdersApart
  <2>9. CloseSettled'
    BY <1>1, <1>4, <2>4, <2>5 DEF ResultInv, CloseSettled, Settled
  <2>. QED BY <1>2, <2>8, <2>9 DEF ResultInv
<1>. QED BY <1>3, <1>4 DEF PlaceOrder

\* A fill opens the order's trade or closes one that was open.
LEMMA PostSettles ==
  ASSUME AccountTypeOK, ThreadsOK, ResultInv, NEW t \in Thread, Post(t)
  PROVE  ResultInv'
<1>1. row' = row /\ results' = results
  BY DEF Post
<1>2. /\ pc[t] = "post" /\ order' = order /\ closing' = closing
      /\ \E label \in {"filled", "orderfail"} : Goto(t, label)
  BY DEF Post, Step
<1>3. order[t] \subseteq Order /\ \A o \in order[t] : row[o].status = "pending" /\ trade[o] = "none"
  BY <1>2 DEF ThreadsOK, ResultInv, OrdersApart, Ordering
<1>4. \/ trade' = trade
      \/ \E o \in order[t] : trade' = [trade EXCEPT ![o] = "open"]
      \/ \E p \in OpenTrades, lost \in BOOLEAN : trade' = [trade EXCEPT ![p] = Outcome(lost)]
  BY DEF Post, OrderFills
<1>5. FinalKept
  BY <1>3, <1>4 DEF FinalKept, AccountTypeOK, OpenTrades
<1>6. \A o \in Order : trade[o] = "none" /\ o \notin order[t] => trade'[o] = "none"
  BY <1>3, <1>4 DEF AccountTypeOK, OpenTrades
<1>7. \A u \in Thread : u # t => pc'[u] = pc[u]
  BY <1>2 DEF ThreadsOK, Goto
<1>8. pc'[t] \in {"filled", "orderfail"}
  BY <1>2 DEF ThreadsOK, Goto
<1>9. OrdersApart'
  <2>1. \A o \in Order : row'[o].status = "none" => trade'[o] = "none"
    BY <1>1, <1>3, <1>6 DEF ResultInv, OrdersApart
  <2>2. \A u \in Thread : pc'[u] \in Ordering => \A o \in order'[u] : row'[o].status = "pending"
    BY <1>1, <1>2, <1>3, <1>7 DEF ResultInv, OrdersApart
  <2>3. \A u \in Thread : pc'[u] = "post" => \A o \in order'[u] : trade'[o] = "none"
    BY <1>2, <1>6, <1>7, <1>8 DEF ResultInv, OrdersApart, ThreadsOK, Ordering
  <2>4. \A u, v \in Thread :
           u # v /\ pc'[u] \in Ordering /\ pc'[v] \in Ordering =>
               \A o \in order'[u] : o \notin order'[v]
    BY <1>2, <1>7, <1>8 DEF ResultInv, OrdersApart, Ordering
  <2>. QED BY <2>1, <2>2, <2>3, <2>4 DEF OrdersApart
<1>10. CloseSettled'
  <2> SUFFICES ASSUME NEW u \in Thread, pc'[u] = "closed" PROVE Settled(closing)'
    BY DEF CloseSettled
  <2>1. pc[u] = "closed"
    BY <1>7, <1>8
  <2>2. Settled(closing) /\ closing \in Result
    BY <2>1 DEF ResultInv, CloseSettled, ThreadsOK
  <2>. QED BY <1>2, <1>5, <2>2, SettledKept DEF Settled
<1>. QED BY <1>1, <1>5, <1>9, <1>10, BookedKept DEF ResultInv

\* An order that is answered is no other thread's.
LEMMA AnsweredSettles ==
  ASSUME AccountTypeOK, ThreadsOK, ResultInv, NEW t \in Thread,
         OrderFilled(t) \/ OrderFails(t)
  PROVE  ResultInv'
<1>1. trade' = trade /\ results' = results /\ FinalKept
  BY DEF OrderFilled, OrderFails, FinalKept
<1>2. PICK o \in order[t] :
         \/ row' = [row EXCEPT ![o] = [status |-> "filled", traded |-> trade[o] # "none"]]
         \/ SetStatus(o, "emergency_stopped")
  BY DEF OrderFilled, OrderFails
<1>3. o \in Order /\ \A p \in Order : p # o => row'[p] = row[p]
  BY <1>2 DEF ThreadsOK, AccountTypeOK, SetStatus
<1>4. row'[o].status # "none"
  BY <1>2, <1>3 DEF AccountTypeOK, SetStatus, Row
<1>5. Step(t, "confirm") \/ Finish(t) \/ Step(t, "emergency")
  BY DEF OrderFilled, OrderFails
<1>6. pc[t] \in Ordering /\ pc'[t] \notin Ordering
  BY <1>5 DEF OrderFilled, OrderFails, Step, Finish, Goto, ThreadsOK, Ordering
<1>7. Uninvolved
  BY <1>5, StepUninvolved, FinishUninvolved DEF Ordering, Label, CycleOnly, OrderLabel
<1>8. \A u \in Thread : pc'[u] \in Ordering => pc[u] \in Ordering /\ order'[u] = order[u] /\ o \notin order[u]
  BY <1>6, <1>7 DEF Uninvolved, ResultInv, OrdersApart
<1>9. OrdersApart'
  <2>1. \A p \in Order : row'[p].status = "none" => trade'[p] = "none"
    BY <1>1, <1>3, <1>4 DEF ResultInv, OrdersApart
  <2>2. \A u \in Thread : pc'[u] \in Ordering => \A p \in order'[u] : row'[p].status = "pending"
    BY <1>3, <1>8 DEF ResultInv, OrdersApart, ThreadsOK
  <2>3. \A u \in Thread : pc'[u] = "post" => \A p \in order'[u] : trade'[p] = "none"
    BY <1>1, <1>7 DEF ResultInv, OrdersApart, Uninvolved, Ordering
  <2>4. \A u, v \in Thread :
           u # v /\ pc'[u] \in Ordering /\ pc'[v] \in Ordering =>
               \A p \in order'[u] : p \notin order'[v]
    BY <1>8 DEF ResultInv, OrdersApart
  <2>. QED BY <2>1, <2>2, <2>3, <2>4 DEF OrdersApart
<1>. QED BY <1>1, <1>7, <1>9, CloseSettledKept, BookedKept DEF ResultInv

LEMMA AccountSettles ==
  ASSUME AccountTypeOK, ThreadsOK, ResultInv, AccountStep
  PROVE  ResultInv'
<1>1. PICK o \in Order : TradeCloses(o)
  BY DEF AccountStep
<1>2. FinalKept /\ UnopenedKept /\ RowsKept /\ results' = results
  BY <1>1 DEF TradeCloses, FinalKept, UnopenedKept, RowsKept, AccountTypeOK
<1>3. Uninvolved
  BY DEF AccountStep, threadVars, Uninvolved
<1>. QED BY <1>2, <1>3, OrdersApartKept, CloseSettledKept, BookedKept DEF ResultInv

\* The other steps.
LEMMA RestSettles ==
  ASSUME IInv, ResultInv, NEW t \in Thread,
         \/ BeginCycle(t) \/ Market(t) \/ Signal(t) \/ CloseCheck(t) \/ CloseFails(t) \/ Judge(t)
         \/ ConfirmPosition(t) \/ Decline(t) \/ RiskStop(t) \/ EmergencyStop(t)
         \/ RequestStep(t) \/ FatalStop(t) \/ ErrorStop(t) \/ Asked(t)
  PROVE  ResultInv'
<1>1. AccountTypeOK /\ ThreadsOK
  BY TypeParts DEF IInv
<1>2. UNCHANGED accountVars
  BY DEF BeginCycle, Market, Signal, CloseCheck, CloseFails, Judge, ConfirmPosition, Decline,
         RiskStop, EmergencyStop, RequestStep, Initialize, StartBot, RunnerStop, RunnerStart,
         StopRunner, Disable, StopBot, FatalStop, ErrorStop, Asked, StartRequested,
         StopRequested, OrderRequested, Request
<1>3. ASSUME NEW label \in Label \ ({"post", "closed"} \cup Ordering),
             Goto(t, label), UNCHANGED <<order, closing>>
      PROVE  Uninvolved
  BY <1>1, <1>3 DEF ThreadsOK, Uninvolved, Goto
<1>4. \A label : Step(t, label) => Goto(t, label) /\ UNCHANGED <<order, closing>>
  BY DEF Step
<1>5. \/ Finish(t) \/ Die(t)
      \/ \E label \in Label \ ({"post", "closed"} \cup Ordering) :
            Goto(t, label) /\ UNCHANGED <<order, closing>>
  <2>1. CASE BeginCycle(t) \/ Market(t) \/ RunnerStop(t) \/ RunnerStart(t) \/ StopRunner(t)
    BY <1>4, <2>1
       DEF BeginCycle, Market, RunnerStop, RunnerStart, StopRunner, Ordering, Label, CycleOnly,
           OrderLabel, RequestLabel
  <2>2. CASE \/ Finish(t) \/ Die(t)
             \/ \E label \in Label \ ({"post", "closed"} \cup Ordering) : Step(t, label)
    BY <1>4, <2>2
  <2>3. ASSUME ~(BeginCycle(t) \/ Market(t) \/ RunnerStop(t) \/ RunnerStart(t) \/ StopRunner(t))
        PROVE  \/ Finish(t) \/ Die(t)
               \/ \E label \in Label \ ({"post", "closed"} \cup Ordering) : Step(t, label)
    BY <2>3
       DEF Signal, CloseCheck, CloseFails, Judge, ConfirmPosition, Decline, RiskStop,
           EmergencyStop, Refuse, RequestStep, Initialize, StartBot, Disable, StopBot, FatalStop,
           ErrorStop, Asked, StartRequested, StopRequested, OrderRequested, Request, Ordering,
           Label, CycleOnly, OrderLabel, RequestLabel
  <2>. QED BY <2>1, <2>2, <2>3
<1>6. Uninvolved
  BY <1>1, <1>3, <1>5, FinishUninvolved, DieUninvolved
<1>. QED BY <1>1, <1>2, <1>6, UninvolvedKeeps

LEMMA ServerSettles ==
  ASSUME IInv, ResultInv,
         \/ \E mode \in Mode \cup {"live"} : BotStartRequested(mode)
         \/ Crash \/ Recover \/ RecoverBot \/ UNCHANGED botVars
  PROVE  ResultInv'
<1>1. AccountTypeOK /\ ThreadsOK
  BY TypeParts DEF IInv
<1>2. UNCHANGED accountVars
  BY DEF BotStartRequested, Crash, Recover, RecoverBot, botVars
<1>3. UNCHANGED threadVars \/ \A t \in Thread : pc'[t] = "idle"
  BY DEF BotStartRequested, Crash, Recover, RecoverBot, botVars
<1>4. Uninvolved
  BY <1>3 DEF threadVars, Uninvolved, Ordering
<1>. QED BY <1>1, <1>2, <1>4, UninvolvedKeeps

LEMMA ResultStep == IInv /\ ResultInv /\ [BotNext]_botVars => ResultInv'
<1> SUFFICES ASSUME IInv, ResultInv, [BotNext]_botVars PROVE ResultInv'
  OBVIOUS
<1>1. AccountTypeOK /\ ThreadsOK
  BY TypeParts DEF IInv
<1>2. CASE \E t \in Thread : BeginCycle(t) \/ ThreadStep(t) \/ Asked(t)
  BY <1>1, <1>2, ReconcileSettles, CloseSettles, CloseDoneSettles, PlaceOrderSettles,
     PostSettles, AnsweredSettles, RestSettles DEF ThreadStep, CycleStep, OrderStep
<1>. QED BY <1>1, <1>2, AccountSettles, ServerSettles DEF BotNext

\* Whatever is booked is the result of closed trades, also where orders by hand
\* are filled between the read of the positions and the booking
\* (_reconcile_closed_positions, _close_position).
THEOREM BookedResultsAreFinal == BotSpec => []BookedIsClosed
<1>1. BotInit => ResultInv
  BY DEF BotInit, AccountInit, ResultInv, OrdersApart, CloseSettled, BookedIsClosed, Ordering
<1>2. ResultInv => BookedIsClosed
  BY DEF ResultInv
<1>. QED BY <1>1, <1>2, ResultStep, Invariance, PTL DEF BotSpec

(***************************************************************************)
(* Failed closes.                                                          *)
(***************************************************************************)
\* After two failed closes in a row no cycle is before a close and none will
\* be: the automation is off, or the cycle that failed is about to switch it
\* off, or the restart is.
BeforeClose == {"market", "reconcile", "signal", "closecheck", "close", "closefail"}
Stopping == ~enabled \/ boot = "recover" \/ \E t \in Thread : pc[t] = "judge" /\ failures >= 2

\* What a session holds of the automation being off is still true, and at most
\* one session holds it: as long as no starts have overlapped.
OffIsRead ==
    /\ \A t \in Thread : pc[t] = "initialize" => t \in Client
    /\ \A t \in Loop : \A state \in loaded[t] : state.on
    /\ \A t \in Client : \A state \in loaded[t] : state.on \/ ~enabled
    /\ \A t, u \in Client : HoldsOff(t) /\ HoldsOff(u) => t = u

CountInv ==
    /\ closeFails <= 2
    /\ closeFails > 0 => failures > 0
    /\ closeFails = 2 => Stopping /\ \A t \in Thread : pc[t] \notin BeforeClose
    /\ OffIsRead

\* The counts stay, nothing is enabled, and no cycle comes closer to a close
\* than it was or leaves the judgement of its failure.
CountKept ==
    /\ UNCHANGED <<failures, closeFails>>
    /\ enabled' => enabled
    /\ boot = "recover" => boot' = "recover" \/ ~enabled'
    /\ \A u \in Thread :
          /\ loaded'[u] \subseteq loaded[u]
          /\ pc'[u] \in BeforeClose => pc[u] \in BeforeClose
          /\ pc[u] = "judge" => pc'[u] = "judge"
          /\ pc'[u] = "initialize" => pc[u] = "initialize"

LEMMA KeptCounts ==
  ASSUME CountInv, CountKept
  PROVE  CountInv'
<1>1. OffIsRead'
  BY DEF CountInv, CountKept, OffIsRead, HoldsOff, Thread
<1>2. Stopping => Stopping'
  BY DEF CountKept, Stopping
<1>. QED BY <1>1, <1>2 DEF CountInv, CountKept


LEMMA RestCounts ==
  ASSUME IInv, CountInv, NEW t \in Thread,
         \/ Signal(t) \/ CloseCheck(t) \/ Close(t) \/ Decline(t) \/ RiskStop(t) \/ OrderStep(t)
         \/ ErrorStop(t) \/ StopRequested(t) \/ OrderRequested(t) \/ StartBot(t) \/ RunnerStop(t)
         \/ RunnerStart(t) \/ StopRunner(t) \/ Disable(t) \/ StopBot(t)
  PROVE  CountInv'
<1>1. ThreadsOK
  BY TypeParts DEF IInv
<1>2. /\ UNCHANGED <<failures, closeFails, boot, loaded>>
      /\ enabled' => enabled
  BY DEF Signal, CloseCheck, Close, Decline, RiskStop, OrderStep, PlaceOrder, Post, OrderFilled,
         OrderFails, EmergencyStop, ErrorStop, StopRequested, OrderRequested, Request, StartBot,
         RunnerStop, RunnerStart, StopRunner, Disable, StopBot, stateVars, serverVars, history
<1>3. pc[t] # "judge"
  BY DEF Signal, CloseCheck, Close, Decline, RiskStop, OrderStep, PlaceOrder, Post, OrderFilled,
         OrderFails, EmergencyStop, ErrorStop, StopRequested, OrderRequested, Request, StartBot,
         RunnerStop, RunnerStart, StopRunner, Disable, StopBot
<1>4. \E label \in Label \ {"judge", "initialize"} :
         Goto(t, label) /\ (label \in BeforeClose => pc[t] \in BeforeClose)
  <2>1. CASE Signal(t) \/ CloseCheck(t) \/ Close(t)
    BY <2>1 DEF Signal, CloseCheck, Close, Step, Finish, Die, BeforeClose, Label, CycleOnly,
                OrderLabel
  <2>2. CASE OrderStep(t)
    <3>1. \E label \in {"idle", "decline", "post", "filled", "orderfail", "confirm", "emergency"} :
             Goto(t, label)
      BY <2>2 DEF OrderStep, PlaceOrder, Post, OrderFilled, OrderFails, EmergencyStop, Refuse,
                  Step, Finish
    <3>. QED BY <3>1 DEF BeforeClose, Label, CycleOnly, OrderLabel
  <2>3. CASE \/ Decline(t) \/ RiskStop(t) \/ ErrorStop(t) \/ StopRequested(t) \/ OrderRequested(t)
             \/ StartBot(t) \/ RunnerStop(t) \/ RunnerStart(t) \/ StopRunner(t) \/ Disable(t)
             \/ StopBot(t)
    <3>1. \E label \in {"idle", "riskstop", "stop", "place", "runnerstop", "runnerstart",
                        "disable", "stopbot"} :
             Goto(t, label)
      BY <2>3 DEF Decline, RiskStop, ErrorStop, StopRequested, OrderRequested, Request, StartBot,
                  RunnerStop, RunnerStart, StopRunner, Disable, StopBot, Step, Finish
    <3>. QED BY <3>1 DEF BeforeClose, Label, CycleOnly, OrderLabel, RequestLabel
  <2>. QED BY <2>1, <2>2, <2>3
<1>5. CountKept
  BY <1>1, <1>2, <1>3, <1>4 DEF CountKept, ThreadsOK, Goto
<1>. QED BY <1>5, KeptCounts

LEMMA MarketCounts ==
  ASSUME IInv, CountInv, NEW t \in Thread, Market(t)
  PROVE  CountInv'
<1>1. ThreadsOK /\ StateOK
  BY TypeParts DEF IInv
<1>2. CountKept
  BY <1>1 DEF CountKept, Market, ReadMarket, Step, Goto, Expire, ThreadsOK, StateOK, BeforeClose,
              history
<1>. QED BY <1>2, KeptCounts

LEMMA ReconcileCounts ==
  ASSUME IInv, CountInv, NEW t \in Thread, Reconcile(t)
  PROVE  CountInv'
<1>1. AccountTypeOK /\ ThreadsOK /\ StateOK
  BY TypeParts DEF IInv
<1>2. /\ pc[t] = "reconcile" /\ boot' = boot /\ loaded' = loaded /\ closeFails' = closeFails
      /\ enabled' => enabled
  BY <1>1, ReconcileEffect DEF Reconcile, serverVars, history
<1>3. \E label \in {"signal", "idle", "errorstop", "fatal"} : Goto(t, label)
  BY <1>1, ReconcileEffect DEF Step, Finish
<1>4. CASE failures' = failures
  <2>1. CountKept
    BY <1>1, <1>2, <1>3, <1>4 DEF CountKept, ThreadsOK, Goto, BeforeClose
  <2>. QED BY <2>1, KeptCounts
<1>5. CASE enabled' = FALSE /\ failures' = failures + 1
  <2>1. OffIsRead'
    BY <1>1, <1>2, <1>3, <1>5 DEF CountInv, OffIsRead, HoldsOff, ThreadsOK, Goto
  <2>2. \A u \in Thread : pc'[u] \in BeforeClose => pc[u] \in BeforeClose
    BY <1>1, <1>2, <1>3 DEF ThreadsOK, Goto, BeforeClose
  <2>3. closeFails # 2
    BY <1>2 DEF CountInv, BeforeClose
  <2>4. failures' > 0
    BY <1>1, <1>5 DEF StateOK
  <2>. QED BY <1>2, <2>1, <2>2, <2>3, <2>4 DEF CountInv
<1>. QED BY <1>1, <1>4, <1>5, ReconcileEffect

\* A cycle begins only while fewer than two closes have failed.
LEMMA BeginCounts ==
  ASSUME IInv, CountInv, NEW t \in Thread, BeginCycle(t)
  PROVE  CountInv'
<1>1. ThreadsOK /\ StateOK
  BY TypeParts DEF IInv
<1>2. enabled /\ boot = "done" /\ lock = NoThread
  BY DEF BeginCycle, LockFree
<1>3. \A u \in Thread : pc[u] # "judge"
  BY <1>1, <1>2, BotAssumption DEF ThreadsOK, CycleOnly, Thread
<1>4. closeFails # 2
  BY <1>2, <1>3 DEF CountInv, Stopping
<1>5. UNCHANGED <<failures, closeFails, enabled>> /\ Goto(t, "market")
  BY DEF BeginCycle, stateVars, history
<1>6. loaded' = [loaded EXCEPT ![t] = {[on |-> enabled, failures |-> failures]}]
  BY DEF BeginCycle, Load
<1>7. \A u \in Thread : \A state \in loaded'[u] : state.on \/ state \in loaded[u]
  BY <1>1, <1>2, <1>6 DEF StateOK
<1>8. OffIsRead'
  BY <1>1, <1>5, <1>7 DEF CountInv, OffIsRead, HoldsOff, ThreadsOK, Goto, Thread
<1>. QED BY <1>4, <1>5, <1>8 DEF CountInv

\* The first failed close leads on, the second stops.
LEMMA FailureCounts ==
  ASSUME IInv, CountInv, NEW t \in Thread, CloseFails(t)
  PROVE  CountInv'
<1>1. ThreadsOK /\ StateOK
  BY TypeParts DEF IInv
<1>2. /\ pc[t] = "closefail" /\ lock = t
      /\ failures' = failures + 1 /\ closeFails' = closeFails + 1
      /\ UNCHANGED <<enabled, boot, loaded>> /\ Goto(t, "judge")
  BY <1>1 DEF CloseFails, Step, serverVars, ThreadsOK, CycleOnly
<1>3. closeFails # 2 /\ closeFails <= 2 /\ (closeFails > 0 => failures > 0)
  BY <1>2 DEF CountInv, BeforeClose
<1>4. closeFails \in {0, 1} /\ failures \in Nat
  BY <1>1, <1>3 DEF StateOK
<1>5. pc'[t] = "judge" /\ \A u \in Thread : u # t => pc'[u] = pc[u]
  BY <1>1, <1>2 DEF ThreadsOK, Goto
<1>6. \A u \in Thread : pc'[u] \notin BeforeClose
  BY <1>1, <1>2, <1>5 DEF ThreadsOK, BeforeClose, CycleOnly
<1>7. OffIsRead'
  BY <1>2, <1>5 DEF CountInv, OffIsRead, HoldsOff
<1>8. closeFails' = 2 => failures' >= 2
  BY <1>2, <1>3, <1>4
<1>9. failures' > 0 /\ closeFails' <= 2
  BY <1>2, <1>4
<1>. QED BY <1>5, <1>6, <1>7, <1>8, <1>9 DEF CountInv, Stopping

LEMMA JudgeCounts ==
  ASSUME IInv, CountInv, NEW t \in Thread, Judge(t)
  PROVE  CountInv'
<1>1. ThreadsOK /\ BootInv
  BY TypeParts DEF IInv
<1>2. /\ pc[t] = "judge" /\ lock = t
      /\ UNCHANGED <<failures, closeFails, boot, loaded>>
      /\ IF failures >= 2 THEN enabled' = FALSE ELSE enabled' = enabled
      /\ \E label \in {"errorstop", "idle"} : Goto(t, label)
  BY <1>1 DEF Judge, TooManyFailures, Step, Finish, serverVars, history, ThreadsOK, CycleOnly
<1>3. boot = "done"
  BY <1>1, <1>2 DEF BootInv
<1>4. \A u \in Thread :
         pc'[u] \in BeforeClose \cup {"initialize"} => pc'[u] = pc[u]
  BY <1>1, <1>2 DEF ThreadsOK, Goto, BeforeClose
<1>5. OffIsRead'
  BY <1>2, <1>4 DEF CountInv, OffIsRead, HoldsOff
<1>6. closeFails = 2 => ~enabled'
  BY <1>2, <1>3 DEF CountInv, Stopping
<1>. QED BY <1>2, <1>4, <1>5, <1>6 DEF CountInv, Stopping

\* A close or an entry that succeeds starts the count again.
LEMMA SuccessCounts ==
  ASSUME IInv, CountInv, NEW t \in Thread, CloseDone(t) \/ ConfirmPosition(t)
  PROVE  CountInv'
<1>1. ThreadsOK
  BY TypeParts DEF IInv
<1>2. /\ UNCHANGED <<enabled, loaded, boot>>
      /\ \/ closeFails' = 0 /\ failures' = 0
         \/ UNCHANGED <<closeFails, failures>>
      /\ pc[t] \in {"closed", "confirm"}
      /\ \E label \in {"fatal", "idle"} : Goto(t, label)
  BY DEF CloseDone, ConfirmPosition, Step, Finish, serverVars
<1>3. CASE UNCHANGED <<closeFails, failures>>
  <2>1. CountKept
    BY <1>1, <1>2, <1>3 DEF CountKept, ThreadsOK, Goto, BeforeClose
  <2>. QED BY <2>1, KeptCounts
<1>4. CASE closeFails' = 0
  <2>1. \A u \in Thread : pc'[u] = "initialize" => pc[u] = "initialize"
    BY <1>1, <1>2 DEF ThreadsOK, Goto
  <2>2. OffIsRead'
    BY <1>2, <2>1 DEF CountInv, OffIsRead, HoldsOff
  <2>. QED BY <1>4, <2>2 DEF CountInv
<1>. QED BY <1>2, <1>3, <1>4

\* An unexpected error switches the automation off, or finds it off.
LEMMA FatalCounts ==
  ASSUME IInv, CountInv, NEW t \in Thread, FatalStop(t)
  PROVE  CountInv'
<1>1. ThreadsOK /\ StateOK
  BY TypeParts DEF IInv
<1>2. /\ pc[t] = "fatal" /\ Goto(t, "errorstop")
      /\ UNCHANGED <<closeFails, boot>>
      /\ loaded' = [loaded EXCEPT ![t] = {}]
  BY DEF FatalStop, Step, Expire, history
<1>3. enabled' = FALSE /\ failures' > 0
  <2>1. CASE enabled' = FALSE /\ failures' = failures + 1
    BY <1>1, <2>1 DEF StateOK
  <2>2. ASSUME NEW state \in loaded[t],
               enabled' = (enabled /\ ~state.on), failures' = state.failures + 1
        PROVE  enabled' = FALSE /\ failures' > 0
    <3>1. state.on \/ ~enabled
      BY DEF CountInv, OffIsRead, HoldsOff, Thread
    <3>2. state.failures \in Nat
      BY <1>1 DEF StateOK
    <3>3. enabled' = FALSE
      BY <2>2, <3>1
    <3>. QED BY <2>2, <3>2, <3>3
  <2>. QED BY <2>1, <2>2 DEF FatalStop
<1>4. \A u \in Thread :
         /\ pc'[u] \in BeforeClose \cup {"initialize"} => pc'[u] = pc[u]
         /\ loaded'[u] \subseteq loaded[u]
  BY <1>1, <1>2 DEF ThreadsOK, StateOK, Goto, BeforeClose
<1>5. OffIsRead'
  BY <1>3, <1>4 DEF CountInv, OffIsRead, HoldsOff, Thread
<1>. QED BY <1>2, <1>3, <1>4, <1>5 DEF CountInv, Stopping

\* A start reads the automation, which no other start holds as off.
LEMMA StartCounts ==
  ASSUME IInv, CountInv, NEW t \in Thread, StartRequested(t),
         \A c \in Client : ~HoldsOff(c)
  PROVE  CountInv'
<1>1. ThreadsOK /\ StateOK
  BY TypeParts DEF IInv
<1>2. /\ pc[t] = "idle" /\ t \in Client /\ Goto(t, "initialize")
      /\ UNCHANGED <<closeFails, boot, enabled, failures>>
      /\ loaded' = [loaded EXCEPT ![t] = {[on |-> enabled, failures |-> failures]}]
  BY DEF StartRequested, Request, Step, Load, stateVars
<1>3. /\ pc'[t] = "initialize"
      /\ \A u \in Thread : u # t => pc'[u] = pc[u] /\ loaded'[u] = loaded[u]
  BY <1>1, <1>2 DEF ThreadsOK, StateOK, Goto
<1>4. \A state \in loaded'[t] : state.on = enabled
  BY <1>1, <1>2 DEF StateOK
<1>5. OffIsRead'
  BY <1>1, <1>2, <1>3, <1>4, BotAssumption DEF StateOK, CountInv, OffIsRead, HoldsOff, Thread
<1>6. Stopping => Stopping'
  BY <1>2, <1>3 DEF Stopping
<1>7. \A u \in Thread : pc'[u] \in BeforeClose => pc[u] \in BeforeClose
  BY <1>3 DEF BeforeClose
<1>. QED BY <1>2, <1>5, <1>6, <1>7 DEF CountInv

\* When it succeeds it enables the automation and counts from zero: nobody
\* else holds the automation as off.
LEMMA InitializeCounts ==
  ASSUME IInv, CountInv, NEW t \in Thread, Initialize(t)
  PROVE  CountInv'
<1>1. ThreadsOK /\ StateOK
  BY TypeParts DEF IInv
<1>2. pc[t] = "initialize" /\ t \in Client /\ boot' = boot
  BY DEF Initialize, CountInv, OffIsRead, HoldsOff
<1>3. \E label \in {"startbot", "fatal"} : Goto(t, label)
  BY DEF Initialize, Step
<1>4. CASE UNCHANGED <<enabled, failures, closeFails, loaded>>
  <2>1. CountKept
    BY <1>1, <1>2, <1>3, <1>4 DEF CountKept, ThreadsOK, Goto, BeforeClose
  <2>. QED BY <2>1, KeptCounts
<1>5. ASSUME closeFails' = 0, Expire(t),
             NEW state \in loaded[t], enabled' = (enabled \/ ~state.on)
      PROVE  CountInv'
  <2>1. \A u \in Thread : pc'[u] = "initialize" => pc[u] = "initialize"
    BY <1>1, <1>3 DEF ThreadsOK, Goto
  <2>2. loaded'[t] = {} /\ \A u \in Thread : u # t => loaded'[u] = loaded[u]
    BY <1>1, <1>5 DEF StateOK, Expire
  <2>3. ASSUME NEW u \in Client, NEW held \in loaded'[u], ~held.on
        PROVE  ~enabled'
    <3>1. u # t /\ held \in loaded[u]
      BY <2>2, <2>3 DEF Thread
    <3>2. HoldsOff(u)
      BY <2>3, <3>1 DEF HoldsOff
    <3>3. state.on
      BY <1>2, <1>5, <3>1, <3>2 DEF CountInv, OffIsRead, HoldsOff
    <3>. QED BY <1>5, <2>3, <3>1, <3>3 DEF CountInv, OffIsRead
  <2>4. \A u \in Thread : loaded'[u] \subseteq loaded[u]
    BY <2>2
  <2>5. OffIsRead'
    BY <2>1, <2>3, <2>4 DEF CountInv, OffIsRead, HoldsOff, Thread
  <2>. QED BY <1>5, <2>5 DEF CountInv
<1>. QED BY <1>4, <1>5 DEF Initialize

LEMMA ServerCounts ==
  ASSUME IInv, CountInv,
         \/ \E mode \in Mode \cup {"live"} : BotStartRequested(mode)
         \/ AccountStep \/ Crash \/ Recover \/ RecoverBot \/ UNCHANGED botVars
  PROVE  CountInv'
<1>1. CASE Crash
  <2>1. /\ \A u \in Thread : pc'[u] = "idle" /\ loaded'[u] = {}
        /\ UNCHANGED <<closeFails, failures>> /\ boot' = "recover"
    BY <1>1 DEF Crash, stateVars
  <2>2. OffIsRead'
    BY <2>1 DEF OffIsRead, HoldsOff, Thread
  <2>. QED BY <2>1, <2>2 DEF CountInv, Stopping, BeforeClose
<1>2. CASE ~Crash
  <2>1. UNCHANGED <<failures, closeFails, pc, loaded>> /\ (enabled' => enabled)
    BY <1>2 DEF BotStartRequested, AccountStep, Recover, RecoverBot, botVars, stateVars,
                threadVars, serverVars, history
  <2>2. boot = "recover" => boot' = "recover" \/ ~enabled'
    BY <1>2 DEF BotStartRequested, AccountStep, Recover, RecoverBot, botVars, serverVars
  <2>3. CountKept
    BY <2>1, <2>2 DEF CountKept
  <2>. QED BY <2>3, KeptCounts
<1>. QED BY <1>1, <1>2

LEMMA CountStep ==
  ASSUME IInv, CountInv, BotNext, ~StartsOverlap
  PROVE  CountInv'
<1>1. CASE \E t \in Thread : BeginCycle(t) \/ ThreadStep(t) \/ Asked(t)
  <2>1. ASSUME NEW t \in Thread, StartRequested(t)
        PROVE  \A c \in Client : ~HoldsOff(c)
    BY <2>1 DEF StartsOverlap, StartRequested, Request
  <2>. QED
    BY <1>1, <2>1, RestCounts, MarketCounts, ReconcileCounts, BeginCounts, FailureCounts,
       JudgeCounts, SuccessCounts, FatalCounts, StartCounts, InitializeCounts
       DEF ThreadStep, CycleStep, RequestStep, Asked
<1>. QED BY <1>1, ServerCounts DEF BotNext

\* For any number of clients and runner threads, restarts, manual cycles and
\* failing starts a third close in a row is only tried after starts that
\* overlapped (_close_position, initialize_automation, _fatal_stop).
THEOREM ThirdCloseTakesOverlap == OverlapSpec => []ThirdCloseNeedsOverlap
<1> DEFINE Counted == overlapped \/ CountInv
<1>1. OverlapInit => Counted
  BY DEF OverlapInit, BotInit, CountInv, OffIsRead, HoldsOff, Thread
<1>2. IInv /\ Counted /\ [OverlapNext]_overlapVars => Counted'
  <2> SUFFICES ASSUME IInv, CountInv, ~overlapped', [OverlapNext]_overlapVars
               PROVE  CountInv'
    BY DEF OverlapNext, overlapVars
  <2>1. CASE OverlapNext
    BY <2>1, CountStep DEF OverlapNext
  <2>2. CASE UNCHANGED overlapVars
    BY <2>2, ServerCounts DEF overlapVars
  <2>. QED BY <2>1, <2>2
<1>3. IInv /\ Counted => ThirdCloseNeedsOverlap
  BY TypeParts DEF IInv, StateOK, CountInv, ThirdCloseNeedsOverlap
<1>4. OverlapSpec => BotSpec
  <2>1. [OverlapNext]_overlapVars => [BotNext]_botVars
    BY DEF OverlapNext, overlapVars
  <2>. QED BY <2>1, PTL DEF OverlapSpec, OverlapInit, BotSpec
<1>. QED BY <1>1, <1>2, <1>3, <1>4, Invariance, PTL DEF OverlapSpec

=============================================================================
