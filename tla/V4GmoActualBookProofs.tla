----------------------- MODULE V4GmoActualBookProofs ------------------------
(***************************************************************************)
(* The actual path and the account it trades on.  A confirmed protection   *)
(* covers all that was opened and a completed exit left nothing, whatever  *)
(* goes wrong; an order on the wire is marked as pending unless orders may *)
(* take effect late; exposure is remembered unless the console lifts the   *)
(* halt; and the time exit is exact unless the operator trades by hand or  *)
(* orders are late.                                                        *)
(*                                                                         *)
(* Three GETs never show one moment.  BookOK says how a cycle's book and   *)
(* its row go together at every stage, and LookOK what the holder of the   *)
(* lock may conclude from a view, given how the book may have moved since  *)
(* each of the three was made.                                             *)
(***************************************************************************)
EXTENDS V4GmoActualPathProofs

BookType == [pend : Nat, opened : Nat, pos : Nat, oco : Nat, closed : Nat]
ViewType ==
    [known : BOOLEAN, opened : Nat, closed : Nat, filled : Nat, active : BOOLEAN,
     oco : Nat, at : Nat \cup {NoTime}]

OnWire(s, a) == \E w \in wire : w.sig = s /\ w.act = a

\* The types of the account, the view and the rows, and what is on the wire.
TradeShape ==
    /\ wire \subseteq [sig : Signal, act : Action, size : Int]
    /\ book \in [Signal -> BookType]
    /\ view \in ViewType
    /\ halt \in BOOLEAN
    /\ exits = [m \in Marker |-> exits[m]]
    /\ \A s \in Signal :
          /\ cycles[s].plan \in Nat
          /\ cycles[s].settle \in Nat
          /\ cycles[s].confirmed \in BOOLEAN
    /\ \A w \in wire :
          /\ sent[<<w.sig, w.act>>] = 1
          /\ w.act = Market => w.size = RequestedSize
          /\ w.act = Protect => w.size = cycles[w.sig].plan

\* A book that the market order has not reached is empty; what was opened is
\* open or closed, unless the operator emptied it; and the OCO never covers
\* more than the plan, exactly the plan only while nothing has been closed.
BookOK(s) ==
    LET b == book[s]
        c == cycles[s]
    IN
    /\ sent[<<s, Market>>] = 0 \/ OnWire(s, Market) => b = EmptyBook
    /\ b.pos + b.closed = b.opened \/ (b.pos = 0 /\ b.pend = 0 /\ b.oco = 0)
    /\ b.oco <= c.plan
    /\ ~c.confirmed =>
          /\ b.closed > 0 => b.oco < c.plan
          /\ sent[<<s, Protect>>] = 0 \/ OnWire(s, Protect) => b.oco = 0 /\ b.closed = 0
          /\ sent[<<s, TimeExit>>] = 0
    /\ c.plan > 0 => b.pend = 0 /\ b.opened > 0
    /\ c.confirmed => c.plan > 0 /\ b.opened = c.plan
    /\ c.loss # NoLoss => c.confirmed /\ b.pos = 0 /\ b.oco = 0

\* A row that was never attempted is blank, and a protection has its plan.
RowOK(s) ==
    LET c == cycles[s]
    IN
    /\ sent[<<s, Protect>>] = 1 => c.plan > 0
    /\ c.at = NoTime => c.plan = 0 /\ c.settle = 0 /\ ~c.confirmed /\ c.loss = NoLoss
    /\ c.at # NoTime => <<s, Market>> \in attempts

CompletedOK ==
    /\ exits["completed"] # {} => attempts # {}
    /\ \A s \in Signal : cycles[s].at # NoTime /\ EntryDay(s) \in exits["completed"] =>
          cycles[s].loss # NoLoss /\ s \in applied

\* What is open or on its way latches the halt or will.
Remembered ==
    \A s \in Signal : Exposed(s) \/ (\E w \in wire : w.sig = s) =>
        halt \/ \E a \in Action : pending = {<<s, a>>}

StoreTradeOK ==
    /\ TradeShape
    /\ \A s \in Signal : BookOK(s) /\ RowOK(s)
    /\ CompletedOK
    /\ "slow" \notin Faults => WireIsMarked
    /\ "console" \notin Faults => Remembered

(***************************************************************************)
(* What the holder of the lock knows.                                      *)
(***************************************************************************)

Looking == {"orders", "recover", "confirm", "exit", "metrics"}
Seen == {"preflight", "recover", "plan", "confirm", "exit", "metrics"}

LookOK(p) ==
    LET b == book[sig[p]]
        c == cycles[sig[p]]
    IN
    /\ view.filled > 0 => b.opened > 0
    /\ pc[p] \in Seen /\ ~view.active /\ view.filled > 0 => b.pend = 0
    /\ pc[p] \in Looking /\ c.plan > 0 => b.pos <= view.filled /\ view.filled <= b.opened
    /\ pc[p] \in {"recover", "confirm"} /\ ~c.confirmed /\ c.plan > 0 /\ view.oco = c.plan =>
          view.filled = b.opened
    /\ pc[p] \in {"recover", "exit", "metrics"} /\ c.plan > 0 /\ view.filled = 0
          /\ view.oco = 0 => b.oco = 0

\* Where the holder stands, what it is about and what its row shows.
StageOK(p) ==
    LET c == cycles[sig[p]]
    IN
    /\ pc[p] = "plan" => view.filled > 0 /\ ~view.active
    /\ act \in ExitStages \/ pc[p] \in {"drive", "claim"} => c.confirmed
    /\ pc[p] \in {"exit", "metrics", "result", "complete"} => act \in ExitStages
    /\ pc[p] \in {"result", "complete"} => c.loss # NoLoss
    /\ pc[p] = "complete" => sig[p] \in applied
    /\ pc[p] \in {"attempt", "post"} /\ act = Protect => c.plan > 0
    /\ pc[p] = "attempt" /\ act = Market => attempts = {}
    /\ pc[p] \in {"charge", "post"} /\ act = Market => attempts = {<<sig[p], Market>>}
    /\ pc[p] \in Reply => act \in Action

\* From the first of the three GETs to the next POST nothing is on the wire.
QuietStages ==
    {"positions", "orders", "preflight", "recover", "plan", "confirm", "exit", "attempt",
     "charge", "post", "REJECTED_SANITIZED"}
QuietOK(p) == pc[p] \in QuietStages => wire = {}

\* From the cancellation of the protection to the time exit.
ExactOK(p) ==
    LET b == book[sig[p]]
    IN
    /\ act = CancelProtection /\ pc[p] \in {"ACCEPTED_SANITIZED", "executions"} =>
          /\ \A w \in wire : w.sig = sig[p] /\ w.act = CancelProtection
          /\ b.oco = 0 \/ wire # {}
    /\ act = CancelProtection /\ pc[p] \in {"positions", "orders", "recover"} => b.oco = 0
    /\ act = CancelProtection /\ pc[p] \in {"orders", "recover"} => b.pos = view.filled
    /\ act = TimeExit /\ pc[p] = "attempt" => b.oco = 0 /\ b.pos = view.filled
    /\ act = TimeExit /\ pc[p] = "post" =>
          b.oco = 0 /\ b.pos = cycles[sig[p]].settle /\ cycles[sig[p]].settle > 0

\* Once the entry was accepted the halt is latched.
LatchedOK(p) ==
    /\ act \in (Action \ {Market}) \cup {"EXIT"} => halt
    /\ pc[p] \in {"plan", "confirm", "drive", "claim"} => halt
    /\ act = Market /\ pc[p] \in {"charge", "post", "REJECTED_SANITIZED"} =>
          wire = {} /\ \A s \in Signal : book[s] = EmptyBook

HolderTradeOK(p) ==
    /\ LookOK(p)
    /\ StageOK(p)
    /\ "slow" \notin Faults => QuietOK(p)
    /\ "slow" \notin Faults /\ "operator" \notin Faults => ExactOK(p)
    /\ "console" \notin Faults => LatchedOK(p)

TradeInv ==
    /\ StoreTradeOK
    /\ \A p \in Proc : pc[p] \notin Unlocked => HolderTradeOK(p)

(***************************************************************************)
(* What the steps have in common.                                          *)
(***************************************************************************)

\* The fields of the rows that the invariant is about.
SameRow(s) ==
    /\ cycles'[s].at = cycles[s].at
    /\ cycles'[s].plan = cycles[s].plan
    /\ cycles'[s].settle = cycles[s].settle
    /\ cycles'[s].confirmed = cycles[s].confirmed
    /\ cycles'[s].loss = cycles[s].loss
SameRows == \A s \in Signal : SameRow(s)

SameBooks == UNCHANGED <<wire, book, sent>>

\* Rows and books stay, attempts and applied results may be added.
LEMMA BooksKept ==
    ASSUME TradeInv, SameBooks, SameRows, attempts \subseteq attempts'
    PROVE  \A s \in Signal : BookOK(s)' /\ RowOK(s)'
<1> SUFFICES ASSUME NEW s \in Signal PROVE BookOK(s)' /\ RowOK(s)'
  OBVIOUS
<1>1. BookOK(s) /\ RowOK(s) /\ SameRow(s)
  BY DEF TradeInv, StoreTradeOK, SameRows
<1>2. UNCHANGED wire /\ UNCHANGED book /\ UNCHANGED sent
  BY DEF SameBooks
<1>3. BookOK(s)'
  BY <1>1, <1>2 DEF BookOK, SameRow, OnWire
<1>. QED
  BY <1>1, <1>2, <1>3 DEF RowOK, SameRow

LEMMA CompletedKept ==
    ASSUME TradeInv, SameRows, attempts \subseteq attempts', applied \subseteq applied',
           exits'["completed"] = exits["completed"]
    PROVE  CompletedOK'
<1>1. \A s \in Signal : SameRow(s) /\ EntryDay(s)' = EntryDay(s)
  BY DEF SameRows, SameRow, EntryDay, Day
<1>. QED
  BY <1>1 DEF TradeInv, StoreTradeOK, CompletedOK, SameRow

\* The transactions that leave the pending marker and never lower the halt.
LEMMA StoreKept ==
    ASSUME TradeInv, SameBooks, SameRows, attempts \subseteq attempts',
           applied \subseteq applied', exits'["completed"] = exits["completed"],
           exits' = [m \in Marker |-> exits'[m]], view' \in ViewType, halt' \in BOOLEAN,
           "console" \notin Faults => (halt => halt'), pending' = pending
    PROVE  StoreTradeOK'
<1>1. TradeShape'
  <2>1. UNCHANGED wire /\ UNCHANGED book /\ UNCHANGED sent
    BY DEF SameBooks
  <2>2. TradeShape /\ \A s \in Signal : SameRow(s)
    BY DEF TradeInv, StoreTradeOK, SameRows
  <2>3. \A w \in wire : w.sig \in Signal
    BY <2>2 DEF TradeShape
  <2>. QED
    BY <2>1, <2>2, <2>3 DEF TradeShape, SameRow
<1>2. "slow" \notin Faults => WireIsMarked'
  BY DEF TradeInv, StoreTradeOK, WireIsMarked, SameBooks
<1>3. "console" \notin Faults => Remembered'
  BY DEF TradeInv, StoreTradeOK, Remembered, Exposed, SameBooks
<1>. QED
  BY <1>1, <1>2, <1>3, BooksKept, CompletedKept DEF StoreTradeOK

\* A step of the holder: nobody else has the lock.
LEMMA HolderStepTrade ==
    ASSUME PathInv, PathInv', NEW p \in Proc, pc[p] \notin Unlocked, NEW l,
           pc' = [pc EXCEPT ![p] = l], StoreTradeOK',
           l \notin Unlocked => HolderTradeOK(p)'
    PROVE  TradeInv'
<1>1. ASSUME NEW q \in Proc, pc'[q] \notin Unlocked PROVE HolderTradeOK(q)'
  <2>1. pc \in [Proc -> Label] /\ pc'[p] = l
    BY DEF PathInv, Shape
  <2>2. CASE q # p
    <3>1. pc[q] \notin Unlocked
      BY <1>1, <2>1, <2>2
    <3>2. lock = p /\ lock = q
      BY <3>1, HolderFacts
    <3>. QED
      BY <2>2, <3>2
  <2>. QED
    BY <1>1, <2>1, <2>2
<1>. QED
  BY <1>1 DEF TradeInv

\* A step beside the holder keeps what it knows.
LEMMA HolderKept ==
    ASSUME NEW p \in Proc, HolderTradeOK(p), SameBooks, SameRow(sig[p]),
           pc'[p] = pc[p], sig'[p] = sig[p],
           UNCHANGED <<act, view, attempts, applied>>,
           "console" \notin Faults => (halt => halt')
    PROVE  HolderTradeOK(p)'
<1>1. UNCHANGED wire /\ UNCHANGED book /\ act' = act /\ view' = view
      /\ attempts' = attempts /\ applied' = applied
  BY DEF SameBooks
<1>2. LookOK(p)' /\ StageOK(p)'
  BY <1>1 DEF HolderTradeOK, LookOK, StageOK, SameRow
<1>3. "slow" \notin Faults => QuietOK(p)'
  BY <1>1 DEF HolderTradeOK, QuietOK
<1>4. "slow" \notin Faults /\ "operator" \notin Faults => ExactOK(p)'
  BY <1>1 DEF HolderTradeOK, ExactOK, SameRow
<1>5. "console" \notin Faults => LatchedOK(p)'
  BY <1>1 DEF HolderTradeOK, LatchedOK
<1>. QED
  BY <1>2, <1>3, <1>4, <1>5 DEF HolderTradeOK


\* Every order on the wire is the holder's.
LEMMA WireOwned ==
    ASSUME PathInv, TradeInv, NEW p \in Proc, pc[p] \notin Unlocked
    PROVE  \A w \in wire : w.sig = sig[p]
<1> SUFFICES ASSUME NEW w \in wire PROVE w.sig = sig[p]
  OBVIOUS
<1>1. sent[<<w.sig, w.act>>] = 1 /\ <<w.sig, w.act>> \in Signal \X Action
  BY DEF TradeInv, StoreTradeOK, TradeShape
<1>2. <<w.sig, w.act>> \in attempts
  BY <1>1 DEF PathInv, AttemptsOK
<1>. QED
  BY <1>2, HolderFacts DEF HolderOK

\* Past the preflight the holder's row was attempted.
LEMMA HolderAttempted ==
    ASSUME PathInv, NEW p \in Proc, pc[p] \notin Unlocked, pc[p] \notin Preflighting,
           pc[p] # "attempt" \/ act # Market
    PROVE  <<sig[p], Market>> \in attempts /\ cycles[sig[p]].at # NoTime /\ sig[p] \in Signal
<1>1. <<sig[p], Market>> \in attempts /\ sig[p] \in Signal
  BY HolderFacts DEF HolderOK
<1>. QED
  BY <1>1 DEF PathInv, AttemptsOK

LEMMA LetsGoTrade ==
    ASSUME PathInv, PathInv', TradeInv, NEW p \in Proc, pc[p] \notin Unlocked,
           StoreTradeOK', Goto(p, "release") \/ Goto(p, "idle")
    PROVE  TradeInv'
<1>1. PICK l \in {"release", "idle"} : pc' = [pc EXCEPT ![p] = l]
  BY DEF Goto
<1>2. l \in Unlocked
  BY DEF Unlocked
<1>. QED
  BY <1>1, <1>2, HolderStepTrade

LEMMA RaiseTrade ==
    ASSUME PathInv, PathInv', TradeInv, NEW p \in Proc, pc[p] \notin Unlocked, Raise(p),
           StoreTradeOK', SameBooks, SameRows, UNCHANGED attempts,
           "console" \notin Faults => (halt => halt')
    PROVE  TradeInv'
<1>1. CASE act \in ExitStages
  <2>1. pc' = [pc EXCEPT ![p] = "fail"] /\ sig' = sig /\ act' = act /\ view' = view
    BY <1>1 DEF Raise, Goto
  <2>2. pc'[p] = "fail" /\ SameRow(sig[p]) /\ HolderTradeOK(p)
    BY <2>1, HolderFacts DEF PathInv, Shape, SameRows, TradeInv
  <2>3. book' = book
    BY DEF SameBooks
  <2>4. LookOK(p)' /\ StageOK(p)'
    BY <2>1, <2>2, <2>3
       DEF HolderTradeOK, LookOK, StageOK, SameRow, Seen, Looking, Reply
  <2>5. QuietOK(p)' /\ ExactOK(p)'
    BY <2>1, <2>2 DEF QuietOK, ExactOK, QuietStages
  <2>6. "console" \notin Faults => LatchedOK(p)'
    BY <1>1, <2>1, <2>2
       DEF HolderTradeOK, LatchedOK, ExitStages, Action, Market, CancelProtection, TimeExit
  <2>. QED
    BY <2>1, <2>4, <2>5, <2>6, HolderStepTrade DEF HolderTradeOK
<1>2. CASE act \notin ExitStages
  BY <1>2, LetsGoTrade DEF Raise
<1>. QED
  BY <1>1, <1>2

LEMMA NoViewTyped == NoView \in ViewType
  BY DEF NoView, ViewType

\* Whoever gives up, the store keeps its order.
LEMMA RaiseView ==
    ASSUME TradeInv, NEW p \in Proc, Raise(p) \/ Leave(p)
    PROVE  view' \in ViewType
  BY NoViewTyped DEF TradeInv, StoreTradeOK, TradeShape, Raise, Leave, Unlock

LEMMA RaiseKept ==
    ASSUME PathInv, PathInv', TradeInv, NEW p \in Proc, pc[p] \notin Unlocked,
           Raise(p) \/ Leave(p), SameBooks,
           UNCHANGED <<cycles, attempts, pending, applied, exits>>,
           halt' \in BOOLEAN, "console" \notin Faults => (halt => halt')
    PROVE  TradeInv'
<1>1. SameRows /\ attempts' = attempts /\ pending' = pending /\ applied' = applied
      /\ exits' = exits
  BY DEF SameRows, SameRow
<1>2. exits' = [m \in Marker |-> exits'[m]]
  BY <1>1 DEF TradeInv, StoreTradeOK, TradeShape
<1>3. StoreTradeOK'
  BY <1>1, <1>2, RaiseView, StoreKept
<1>4. CASE Raise(p)
  BY <1>1, <1>3, <1>4, RaiseTrade
<1>5. CASE Leave(p)
  BY <1>3, <1>5, LetsGoTrade DEF Leave
<1>. QED
  BY <1>4, <1>5

LEMMA RaisesTrade ==
    ASSUME PathInv, PathInv', TradeInv, NEW p \in Proc, pc[p] \notin Unlocked,
           RaiseHalted(p) \/ RaiseUnhalted(p), SameBooks, UNCHANGED <<applied, exits>>
    PROVE  TradeInv'
<1>1. Raise(p) /\ UNCHANGED <<cycles, attempts, pending>> /\ (halt' = halt \/ halt' = TRUE)
  BY DEF RaiseHalted, RaiseUnhalted, EngageHalt, storeVars
<1>2. halt \in BOOLEAN
  BY DEF TradeInv, StoreTradeOK, TradeShape
<1>3. halt' \in BOOLEAN /\ (halt => halt')
  <2>1. CASE halt' = halt
    BY <1>2, <2>1
  <2>2. CASE halt' = TRUE
    BY <2>2
  <2>. QED
    BY <1>1, <2>1, <2>2
<1>4. UNCHANGED <<cycles, attempts, pending, applied, exits>>
  BY <1>1
<1>. QED
  BY <1>1, <1>3, <1>4, RaiseKept


\* What a transaction on one row leaves alone.
OtherRows(s) == \A t \in Signal \ {s} : SameRow(t)

LEMMA FieldWritten ==
    ASSUME PathInv, NEW s \in Signal, NEW v
    PROVE  /\ cycles' = [cycles EXCEPT ![s].preflight = v] => SameRows
           /\ cycles' = [cycles EXCEPT ![s].plan = v] =>
                 /\ OtherRows(s)
                 /\ cycles'[s].plan = v
                 /\ cycles'[s].at = cycles[s].at
                 /\ cycles'[s].settle = cycles[s].settle
                 /\ cycles'[s].confirmed = cycles[s].confirmed
                 /\ cycles'[s].loss = cycles[s].loss
           /\ cycles' = [cycles EXCEPT ![s].confirmed = v] =>
                 /\ OtherRows(s)
                 /\ cycles'[s].confirmed = v
                 /\ cycles'[s].at = cycles[s].at
                 /\ cycles'[s].plan = cycles[s].plan
                 /\ cycles'[s].settle = cycles[s].settle
                 /\ cycles'[s].loss = cycles[s].loss
<1> DEFINE c == cycles[s]
<1>1. /\ cycles = [t \in Signal |-> cycles[t]]
      /\ c = [born |-> c.born, day |-> c.day, preflight |-> c.preflight, at |-> c.at,
              plan |-> c.plan, confirmed |-> c.confirmed, settle |-> c.settle,
              loss |-> c.loss]
  BY DEF PathInv, Shape, RowShape
<1>2. ASSUME NEW r, cycles' = [cycles EXCEPT ![s] = r]
      PROVE  OtherRows(s) /\ cycles'[s] = r
  BY <1>1, <1>2 DEF OtherRows, SameRow
<1> HIDE DEF c
<1>3. ASSUME cycles' = [cycles EXCEPT ![s].preflight = v] PROVE SameRows
  <2>1. OtherRows(s) /\ cycles'[s] = [c EXCEPT !.preflight = v]
    BY <1>2, <1>3 DEF c
  <2>2. SameRow(s)
    BY <1>1, <2>1 DEF SameRow, c
  <2>. QED
    BY <2>1, <2>2 DEF OtherRows, SameRows
<1>4. ASSUME cycles' = [cycles EXCEPT ![s].plan = v]
      PROVE  OtherRows(s) /\ cycles'[s] = [c EXCEPT !.plan = v]
  BY <1>2, <1>4 DEF c
<1>5. ASSUME cycles' = [cycles EXCEPT ![s].confirmed = v]
      PROVE  OtherRows(s) /\ cycles'[s] = [c EXCEPT !.confirmed = v]
  BY <1>2, <1>5 DEF c
<1>6. c = cycles[s]
  BY DEF c
<1>. QED
  BY <1>1, <1>3, <1>4, <1>5, <1>6

LEMMA LossWritten ==
    ASSUME PathInv, NEW s \in Signal, NEW v, cycles' = [cycles EXCEPT ![s].loss = v]
    PROVE  /\ OtherRows(s)
           /\ cycles'[s].loss = v
           /\ cycles'[s].at = cycles[s].at
           /\ cycles'[s].plan = cycles[s].plan
           /\ cycles'[s].settle = cycles[s].settle
           /\ cycles'[s].confirmed = cycles[s].confirmed
<1>1. /\ cycles = [t \in Signal |-> cycles[t]]
      /\ cycles[s] = [born |-> cycles[s].born, day |-> cycles[s].day,
                      preflight |-> cycles[s].preflight, at |-> cycles[s].at,
                      plan |-> cycles[s].plan, confirmed |-> cycles[s].confirmed,
                      settle |-> cycles[s].settle, loss |-> cycles[s].loss]
  BY DEF PathInv, Shape, RowShape
<1>2. cycles'[s] = [cycles[s] EXCEPT !.loss = v] /\ OtherRows(s)
  BY <1>1 DEF OtherRows, SameRow
<1>. QED
  BY <1>1, <1>2

(***************************************************************************)
(* The three GETs.                                                         *)
(***************************************************************************)

\* The holder moves on without touching the database.
LEMMA GoesOnTrade ==
    ASSUME PathInv, PathInv', TradeInv, NEW p \in Proc, pc[p] \notin Unlocked, NEW l,
           Goto(p, l), UNCHANGED storeVars, SameBooks,
           applied \subseteq applied', exits'["completed"] = exits["completed"],
           exits' = [m \in Marker |-> exits'[m]], view' \in ViewType,
           l \notin Unlocked => HolderTradeOK(p)'
    PROVE  TradeInv'
<1>1. SameRows /\ attempts' = attempts /\ pending' = pending /\ halt' = halt
  BY DEF SameRows, SameRow, storeVars
<1>2. halt' \in BOOLEAN
  BY <1>1 DEF TradeInv, StoreTradeOK, TradeShape
<1>3. StoreTradeOK'
  BY <1>1, <1>2, StoreKept
<1>. QED
  BY <1>3, HolderStepTrade DEF Goto

LEMMA ReadExecutionsTrade ==
    ASSUME PathInv, PathInv', TradeInv, NEW p \in Proc, ReadExecutions(p)
    PROVE  TradeInv'
<1>1. /\ pc[p] = "executions" /\ pc[p] \notin Unlocked
      /\ Goto(p, "positions") /\ SameBooks /\ UNCHANGED storeVars
      /\ UNCHANGED <<sig, act, cycles, attempts, halt, applied, exits, wire, book>>
  BY DEF ReadExecutions, Unlocked, storeVars, brokerVars, SameBooks, fileVars
<1>2. pc'[p] = "positions" /\ sig[p] \in Signal /\ HolderTradeOK(p)
  BY <1>1, HolderFacts DEF PathInv, Shape, Goto, TradeInv
<1>3. book[sig[p]] \in BookType
  BY <1>2 DEF TradeInv, StoreTradeOK, TradeShape
<1>4. PICK k \in BOOLEAN :
        view' = [known |-> k, opened |-> book[sig[p]].opened, closed |-> book[sig[p]].closed,
                 filled |-> 0, active |-> FALSE, oco |-> 0, at |-> NoTime]
  BY DEF ReadExecutions, WithExecutions, NoView
<1>5. view' \in ViewType /\ view'.filled = 0
  BY <1>3, <1>4 DEF ViewType, BookType
<1>6. LookOK(p)' /\ StageOK(p)'
  BY <1>1, <1>2, <1>5 DEF HolderTradeOK, LookOK, StageOK, Seen, Looking, Reply
<1>7. "slow" \notin Faults => wire = {}
  BY <1>1, WireOwned DEF ReadExecutions, Prompt
<1>8. "slow" \notin Faults => QuietOK(p)'
  BY <1>1, <1>7 DEF QuietOK
<1>9. "slow" \notin Faults /\ "operator" \notin Faults => ExactOK(p)'
  BY <1>1, <1>2, <1>7 DEF HolderTradeOK, ExactOK, CancelProtection, TimeExit
<1>10. "console" \notin Faults => LatchedOK(p)'
  BY <1>1, <1>2 DEF HolderTradeOK, LatchedOK
<1>11. exits' = [m \in Marker |-> exits'[m]]
  BY <1>1 DEF TradeInv, StoreTradeOK, TradeShape
<1>. QED
  BY <1>1, <1>5, <1>6, <1>8, <1>9, <1>10, <1>11, GoesOnTrade DEF HolderTradeOK

LEMMA ReadPositionsTrade ==
    ASSUME PathInv, PathInv', TradeInv, NEW p \in Proc, ReadPositions(p)
    PROVE  TradeInv'
<1>1. /\ pc[p] = "positions" /\ pc[p] \notin Unlocked
      /\ Goto(p, "orders") /\ SameBooks /\ UNCHANGED storeVars
      /\ UNCHANGED <<sig, act, cycles, attempts, halt, applied, exits, wire, book>>
  BY DEF ReadPositions, Unlocked, storeVars, brokerVars, SameBooks, fileVars
<1>2. pc'[p] = "orders" /\ sig[p] \in Signal /\ HolderTradeOK(p)
  BY <1>1, HolderFacts DEF PathInv, Shape, Goto, TradeInv
<1>3. book[sig[p]] \in BookType /\ view \in ViewType /\ BookOK(sig[p])
  BY <1>2 DEF TradeInv, StoreTradeOK, TradeShape
<1>4. PICK k \in BOOLEAN : view' = [view EXCEPT !.filled = book[sig[p]].pos, !.known = k]
  BY DEF ReadPositions, WithPositions
<1>5. view' \in ViewType /\ view'.filled = book[sig[p]].pos
  BY <1>3, <1>4 DEF ViewType, BookType
<1>6. book[sig[p]].pos <= book[sig[p]].opened
  BY <1>3 DEF BookOK, BookType
<1>7. LookOK(p)' /\ StageOK(p)'
  BY <1>1, <1>2, <1>3, <1>5, <1>6
     DEF HolderTradeOK, LookOK, StageOK, Seen, Looking, Reply, BookType
<1>8. "slow" \notin Faults => QuietOK(p)'
  BY <1>1, <1>2 DEF HolderTradeOK, QuietOK, QuietStages
<1>9. "slow" \notin Faults /\ "operator" \notin Faults => ExactOK(p)'
  BY <1>1, <1>2, <1>5 DEF HolderTradeOK, ExactOK
<1>10. "console" \notin Faults => LatchedOK(p)'
  BY <1>1, <1>2 DEF HolderTradeOK, LatchedOK
<1>11. exits' = [m \in Marker |-> exits'[m]]
  BY <1>1 DEF TradeInv, StoreTradeOK, TradeShape
<1>. QED
  BY <1>1, <1>5, <1>7, <1>8, <1>9, <1>10, <1>11, GoesOnTrade DEF HolderTradeOK

LEMMA ReadOrdersTrade ==
    ASSUME PathInv, PathInv', TradeInv, NEW p \in Proc, ReadOrders(p)
    PROVE  TradeInv'
<1>1. pc[p] = "orders" /\ pc[p] \notin Unlocked /\ SameBooks /\ UNCHANGED <<applied, exits>>
  BY DEF ReadOrders, Unlocked, brokerVars, SameBooks, fileVars
<1>2. CASE /\ view' = WithOrders(view, sig[p]) /\ Goto(p, Observed)
           /\ UNCHANGED <<storeVars, sig, act, lock>>
  <2> DEFINE s == sig[p]
  <2>1. UNCHANGED storeVars
        /\ UNCHANGED <<sig, act, cycles, attempts, halt, applied, exits, wire, book>>
    BY <1>1, <1>2 DEF storeVars, SameBooks
  <2>2. PICK l \in {"preflight", "exit", "recover"} :
            Goto(p, l) /\ (l = "exit" => act = "EXIT") /\ l = Observed
    BY <1>2 DEF Observed
  <2>3. pc'[p] = l /\ s \in Signal /\ HolderTradeOK(p)
    BY <1>1, <2>2, HolderFacts DEF PathInv, Shape, Goto, TradeInv
  <2>4. book[s] \in BookType /\ view \in ViewType /\ BookOK(s) /\ cycles[s].plan \in Nat
    BY <2>3 DEF TradeInv, StoreTradeOK, TradeShape
  <2>5. PICK a \in BOOLEAN :
            /\ view' = [view EXCEPT !.active = a, !.oco = book[s].oco, !.at = now]
            /\ ~a => book[s].pend = 0
    <3>1. view' = [view EXCEPT !.active = book[s].pend > 0, !.oco = book[s].oco, !.at = now]
      BY <1>2 DEF WithOrders
    <3>2. CASE book[s].pend > 0
      <4>1. (book[s].pend > 0) = TRUE
        BY <3>2
      <4>2. view' = [view EXCEPT !.active = TRUE, !.oco = book[s].oco, !.at = now]
        BY <3>1, <4>1
      <4>. QED
        BY <4>2
    <3>3. CASE ~(book[s].pend > 0)
      <4>1. (book[s].pend > 0) = FALSE /\ book[s].pend = 0
        BY <2>4, <3>3 DEF BookType
      <4>2. view' = [view EXCEPT !.active = FALSE, !.oco = book[s].oco, !.at = now]
        BY <3>1, <4>1
      <4>. QED
        BY <4>1, <4>2
    <3>. QED
      BY <3>2, <3>3
  <2>6. /\ view' \in ViewType /\ view'.filled = view.filled
        /\ view'.active = a /\ view'.oco = book[s].oco
    <3>1. now \in Nat
      BY DEF PathInv, Shape
    <3>. QED
      BY <2>4, <2>5, <3>1 DEF ViewType, BookType
  <2>7. /\ view.filled > 0 => book[s].opened > 0
        /\ cycles[s].plan > 0 => book[s].pos <= view.filled /\ view.filled <= book[s].opened
    BY <1>1, <2>3 DEF HolderTradeOK, LookOK, Looking
  <2>8. ~view'.active => book[s].pend = 0
    BY <2>5, <2>6
  <2>9. ~cycles[s].confirmed /\ cycles[s].plan > 0 /\ book[s].oco = cycles[s].plan =>
            view.filled = book[s].opened
    BY <2>4, <2>7 DEF BookOK, BookType, ViewType
  <2>10. LookOK(p)'
    BY <2>1, <2>6, <2>7, <2>8, <2>9 DEF LookOK
  <2>11. StageOK(p)'
    BY <2>1, <2>2, <2>3 DEF HolderTradeOK, StageOK, Reply, ExitStages
  <2>12. "slow" \notin Faults => QuietOK(p)'
    BY <1>1, <2>1, <2>3 DEF HolderTradeOK, QuietOK, QuietStages
  <2>13. "slow" \notin Faults /\ "operator" \notin Faults => ExactOK(p)'
    BY <1>1, <2>1, <2>3, <2>6 DEF HolderTradeOK, ExactOK
  <2>14. "console" \notin Faults => LatchedOK(p)'
    BY <1>1, <2>1, <2>3 DEF HolderTradeOK, LatchedOK
  <2>15. exits' = [m \in Marker |-> exits'[m]]
    BY <2>1 DEF TradeInv, StoreTradeOK, TradeShape
  <2>. QED
    BY <1>1, <2>1, <2>2, <2>6, <2>10, <2>11, <2>12, <2>13, <2>14, <2>15, GoesOnTrade
       DEF HolderTradeOK
<1>3. CASE RaiseHalted(p)
  BY <1>1, <1>3, RaisesTrade
<1>. QED
  BY <1>2, <1>3 DEF ReadOrders


(***************************************************************************)
(* The entry.                                                              *)
(***************************************************************************)

LEMMA PreflightTrade ==
    ASSUME PathInv, PathInv', TradeInv, NEW p \in Proc, Preflight(p)
    PROVE  TradeInv'
<1>1. pc[p] = "preflight" /\ pc[p] \notin Unlocked /\ SameBooks /\ UNCHANGED <<applied, exits>>
  BY DEF Preflight, Unlocked, brokerVars, SameBooks, fileVars
<1>2. CASE /\ cycles[sig[p]].at = NoTime
           /\ cycles' = [cycles EXCEPT ![sig[p]].preflight = TRUE]
           /\ Goto(p, "attempt") /\ act' = Market
           /\ UNCHANGED <<attempts, halt, pending, resolution, flatMarker, sig, view, lock>>
  <2>1. pc'[p] = "attempt" /\ sig[p] \in Signal /\ HolderTradeOK(p) /\ HolderOK(p)
    BY <1>1, <1>2, HolderFacts DEF PathInv, Shape, Goto, TradeInv
  <2>2. SameRows /\ SameRow(sig[p])
    BY <1>2, <2>1, FieldWritten DEF SameRows
  <2>3. attempts = {}
    <3>1. \A j \in attempts : j[1] = sig[p] /\ cycles[j[1]].at # NoTime
      BY <2>1 DEF HolderOK, PathInv, AttemptsOK
    <3>. QED
      BY <1>2, <3>1
  <2>4. UNCHANGED wire /\ UNCHANGED book /\ exits' = exits /\ applied' = applied
        /\ halt' = halt /\ pending' = pending /\ attempts' = attempts /\ view' = view
        /\ sig' = sig
    BY <1>1, <1>2 DEF SameBooks
  <2>5. StoreTradeOK'
    <3>1. halt \in BOOLEAN /\ view \in ViewType /\ exits = [m \in Marker |-> exits[m]]
      BY DEF TradeInv, StoreTradeOK, TradeShape
    <3>. QED
      BY <1>1, <2>2, <2>4, <3>1, StoreKept
  <2>6. LookOK(p)' /\ StageOK(p)'
    BY <1>2, <2>1, <2>2, <2>3, <2>4
       DEF HolderTradeOK, LookOK, StageOK, SameRow, Seen, Looking, Reply, ExitStages,
           Market, Protect, CancelProtection, TimeExit
  <2>7. "slow" \notin Faults => QuietOK(p)'
    BY <1>1, <2>1, <2>4 DEF HolderTradeOK, QuietOK, QuietStages
  <2>8. ExactOK(p)' /\ LatchedOK(p)'
    BY <1>2, <2>1 DEF ExactOK, LatchedOK, Action, Market, CancelRemainder, Protect,
       CancelProtection, TimeExit
  <2>. QED
    BY <1>1, <1>2, <2>5, <2>6, <2>7, <2>8, HolderStepTrade DEF HolderTradeOK, Goto
<1>3. CASE RaiseUnhalted(p)
  BY <1>1, <1>3, RaisesTrade
<1>. QED
  BY <1>2, <1>3 DEF Preflight

\* What the attempt's transaction writes to its row.
LEMMA AttemptRow ==
    ASSUME PathInv, NEW s \in Signal, NEW a, NEW size, RecordAttempt(s, a, size)
    PROVE  /\ OtherRows(s)
           /\ cycles'[s].at = IF a = Market THEN now ELSE cycles[s].at
           /\ cycles'[s].settle = IF a = TimeExit THEN size ELSE cycles[s].settle
           /\ cycles'[s].plan = cycles[s].plan
           /\ cycles'[s].confirmed = cycles[s].confirmed
           /\ cycles'[s].loss = cycles[s].loss
<1> DEFINE c == cycles[s]
           m == [c EXCEPT !.at = IF a = Market THEN now ELSE @]
           n == [m EXCEPT !.settle = IF a = TimeExit THEN size ELSE @]
<1>1. /\ cycles = [t \in Signal |-> cycles[t]]
      /\ c = [born |-> c.born, day |-> c.day, preflight |-> c.preflight, at |-> c.at,
              plan |-> c.plan, confirmed |-> c.confirmed, settle |-> c.settle,
              loss |-> c.loss]
  BY DEF PathInv, Shape, RowShape
<1>2. cycles' = [cycles EXCEPT ![s] = n]
  BY <1>1 DEF RecordAttempt
<1>3. m = [born |-> c.born, day |-> c.day, preflight |-> c.preflight,
           at |-> IF a = Market THEN now ELSE c.at, plan |-> c.plan,
           confirmed |-> c.confirmed, settle |-> c.settle, loss |-> c.loss]
  BY <1>1
<1> HIDE DEF m
<1>4. n = [born |-> c.born, day |-> c.day, preflight |-> c.preflight,
           at |-> IF a = Market THEN now ELSE c.at, plan |-> c.plan,
           confirmed |-> c.confirmed,
           settle |-> IF a = TimeExit THEN size ELSE c.settle, loss |-> c.loss]
  BY <1>3
<1> HIDE DEF n
<1>5. cycles'[s] = n /\ \A t \in Signal \ {s} : cycles'[t] = cycles[t]
  BY <1>1, <1>2
<1>6. OtherRows(s)
  BY <1>5 DEF OtherRows, SameRow
<1>. QED
  BY <1>4, <1>5, <1>6

LEMMA AttemptStore ==
    ASSUME PathInv, PathInv', TradeInv, NEW s \in Signal, NEW a \in Action, NEW size \in Nat,
           RecordAttempt(s, a, size), AttemptFree(s, a), SameBooks,
           UNCHANGED <<applied, exits, view>>,
           a = Market => attempts = {},
           a # Market => <<s, Market>> \in attempts /\ cycles[s].at # NoTime,
           "slow" \notin Faults => wire = {},
           "console" \notin Faults =>
               halt \/ (wire = {} /\ \A t \in Signal : book[t] = EmptyBook)
    PROVE  StoreTradeOK'
<1>1. /\ wire' = wire /\ book' = book /\ sent' = sent /\ halt' = halt /\ view' = view
      /\ applied' = applied /\ exits' = exits
      /\ attempts' = attempts \cup {<<s, a>>} /\ pending = {} /\ pending' = {<<s, a>>}
  BY DEF SameBooks, RecordAttempt, AttemptFree
<1>2. /\ OtherRows(s)
      /\ cycles'[s].at = IF a = Market THEN now ELSE cycles[s].at
      /\ cycles'[s].settle = IF a = TimeExit THEN size ELSE cycles[s].settle
      /\ cycles'[s].plan = cycles[s].plan
      /\ cycles'[s].confirmed = cycles[s].confirmed
      /\ cycles'[s].loss = cycles[s].loss
  BY AttemptRow
<1>3. ASSUME NEW t \in Signal
      PROVE  /\ cycles'[t].plan = cycles[t].plan
             /\ cycles'[t].confirmed = cycles[t].confirmed
             /\ cycles'[t].loss = cycles[t].loss
             /\ t # s \/ a # Market => cycles'[t].at = cycles[t].at
             /\ t # s => cycles'[t].settle = cycles[t].settle
             /\ cycles'[t].settle \in Nat
  <2>1. cycles[t].settle \in Nat
    BY DEF TradeInv, StoreTradeOK, TradeShape
  <2>2. CASE t = s
    BY <1>2, <2>1, <2>2
  <2>3. CASE t # s
    BY <1>2, <2>1, <2>3 DEF OtherRows, SameRow
  <2>. QED
    BY <2>2, <2>3
<1>4. TradeShape'
  <2>1. TradeShape /\ \A w \in wire : w.sig \in Signal
    BY DEF TradeInv, StoreTradeOK, TradeShape
  <2>. QED
    BY <1>1, <1>3, <2>1 DEF TradeShape
<1>5. ASSUME NEW t \in Signal PROVE BookOK(t)' /\ RowOK(t)'
  <2>1. BookOK(t) /\ RowOK(t)
    BY DEF TradeInv, StoreTradeOK
  <2>2. BookOK(t)'
    BY <1>1, <1>3, <2>1 DEF BookOK, OnWire
  <2>3. CASE t # s
    BY <1>1, <1>3, <2>1, <2>2, <2>3 DEF RowOK
  <2>4. CASE t = s
    <3>1. cycles'[s].at # NoTime /\ <<s, Market>> \in attempts'
      BY <1>1, <1>2 DEF PathInv, Shape, NoTime
    <3>. QED
      BY <1>1, <1>3, <2>1, <2>2, <2>4, <3>1 DEF RowOK
  <2>. QED
    BY <2>2, <2>3, <2>4
<1>6. CompletedOK'
  <2>1. CompletedOK
    BY DEF TradeInv, StoreTradeOK
  <2>2. CASE a = Market
    BY <1>1, <2>1, <2>2 DEF CompletedOK
  <2>3. CASE a # Market
    <3>1. \A t \in Signal : EntryDay(t)' = EntryDay(t)
      BY <1>3, <2>3 DEF EntryDay, Day
    <3>. QED
      BY <1>1, <1>3, <2>1, <2>3, <3>1 DEF CompletedOK
  <2>. QED
    BY <2>2, <2>3
<1>7. "slow" \notin Faults => WireIsMarked'
  BY <1>1 DEF WireIsMarked
<1>8. ASSUME "console" \notin Faults PROVE Remembered'
  <2>1. CASE halt
    BY <1>1, <2>1 DEF Remembered
  <2>2. CASE wire = {} /\ \A t \in Signal : book[t] = EmptyBook
    BY <1>1, <2>2 DEF Remembered, Exposed, EmptyBook
  <2>. QED
    BY <1>8, <2>1, <2>2
<1>. QED
  BY <1>4, <1>5, <1>6, <1>7, <1>8 DEF StoreTradeOK

\* Before the first attempt nothing has been sent and every book is empty.
LEMMA NothingAttempted ==
    ASSUME PathInv, TradeInv, attempts = {}
    PROVE  wire = {} /\ \A t \in Signal : book[t] = EmptyBook
<1>1. \A j \in Signal \X Action : sent[j] = 0
  BY DEF PathInv, AttemptsOK
<1>2. wire = {}
  <2>1. \A w \in wire : FALSE
    <3> SUFFICES ASSUME NEW w \in wire PROVE FALSE
      OBVIOUS
    <3>1. <<w.sig, w.act>> \in Signal \X Action /\ sent[<<w.sig, w.act>>] = 1
      BY DEF TradeInv, StoreTradeOK, TradeShape
    <3>. QED
      BY <1>1, <3>1
  <2>. QED
    BY <2>1
<1>3. \A t \in Signal : sent[<<t, Market>>] = 0
  BY <1>1 DEF Action
<1>. QED
  BY <1>2, <1>3 DEF TradeInv, StoreTradeOK, BookOK

LEMMA AttemptMarketTrade ==
    ASSUME PathInv, PathInv', TradeInv, NEW p \in Proc, AttemptMarket(p)
    PROVE  TradeInv'
<1>1. /\ pc[p] = "attempt" /\ pc[p] \notin Unlocked /\ act = Market
      /\ SameBooks /\ UNCHANGED <<applied, exits>>
  BY DEF AttemptMarket, Unlocked, brokerVars, SameBooks, fileVars
<1>2. CASE /\ EntryAllowed(sig[p]) /\ RecordAttempt(sig[p], Market, RequestedSize)
           /\ Goto(p, "charge") /\ UNCHANGED <<sig, act, view, lock>>
  <2>1. pc'[p] = "charge" /\ sig[p] \in Signal /\ HolderTradeOK(p)
    BY <1>1, <1>2, HolderFacts DEF PathInv, Shape, Goto, TradeInv
  <2>2. attempts = {}
    BY <1>1, <2>1 DEF HolderTradeOK, StageOK
  <2>3. wire = {} /\ \A t \in Signal : book[t] = EmptyBook
    BY <2>2, NothingAttempted
  <2>4. /\ wire' = wire /\ book' = book /\ view' = view /\ sig' = sig /\ act' = Market
        /\ attempts' = {<<sig[p], Market>>}
    BY <1>1, <1>2, <2>2 DEF SameBooks, RecordAttempt
  <2>5. StoreTradeOK'
    <3>1. RequestedSize \in Nat /\ Market \in Action /\ AttemptFree(sig[p], Market)
      BY <1>2, ActualStoreAssumption DEF Action, EntryAllowed
    <3>2. UNCHANGED <<applied, exits, view>>
      BY <1>1, <2>4
    <3>. QED
      BY <1>1, <1>2, <2>1, <2>2, <2>3, <3>1, <3>2, AttemptStore
  <2>6. LookOK(p)' /\ StageOK(p)'
    BY <2>1, <2>4
       DEF HolderTradeOK, LookOK, StageOK, Seen, Looking, Reply, ExitStages,
           Market, Protect, CancelProtection, TimeExit
  <2>7. QuietOK(p)'
    BY <2>3, <2>4 DEF QuietOK
  <2>8. ExactOK(p)' /\ LatchedOK(p)'
    BY <2>1, <2>3, <2>4 DEF ExactOK, LatchedOK, Action, Market, CancelRemainder, Protect,
       CancelProtection, TimeExit
  <2>. QED
    BY <1>1, <1>2, <2>5, <2>6, <2>7, <2>8, HolderStepTrade DEF HolderTradeOK, Goto
<1>3. CASE RaiseHalted(p) \/ RaiseUnhalted(p)
  BY <1>1, <1>3, RaisesTrade
<1>. QED
  BY <1>2, <1>3 DEF AttemptMarket

LEMMA ChargeEntryTrade ==
    ASSUME PathInv, PathInv', TradeInv, NEW p \in Proc, ChargeEntry(p)
    PROVE  TradeInv'
<1>1. /\ pc[p] = "charge" /\ pc[p] \notin Unlocked /\ UNCHANGED storeVars
      /\ UNCHANGED <<cycles, attempts, halt, pending, applied, exits, wire, book>>
      /\ SameBooks
  BY DEF ChargeEntry, Unlocked, storeVars, brokerVars, SameBooks
<1>2. halt \in BOOLEAN /\ view \in ViewType /\ exits' = [m \in Marker |-> exits'[m]]
  BY <1>1 DEF TradeInv, StoreTradeOK, TradeShape
<1>3. CASE Goto(p, "post") /\ UNCHANGED <<sig, act, view, lock>>
  <2>1. pc'[p] = "post" /\ HolderTradeOK(p) /\ act = Market
    BY <1>1, <1>3, HolderFacts DEF PathInv, Shape, Goto, TradeInv, HolderOK
  <2>2. LookOK(p)' /\ StageOK(p)'
    BY <1>1, <1>3, <2>1
       DEF HolderTradeOK, LookOK, StageOK, Seen, Looking, Reply, ExitStages, Market, Protect,
           CancelProtection, TimeExit
  <2>3. "slow" \notin Faults => QuietOK(p)'
    BY <1>1, <2>1 DEF HolderTradeOK, QuietOK, QuietStages
  <2>4. ExactOK(p)'
    BY <1>3, <2>1 DEF ExactOK, Market, CancelProtection, TimeExit
  <2>5. "console" \notin Faults => LatchedOK(p)'
    BY <1>1, <1>3, <2>1 DEF HolderTradeOK, LatchedOK, Action, Market, CancelRemainder,
       Protect, CancelProtection, TimeExit
  <2>. QED
    BY <1>1, <1>2, <1>3, <2>2, <2>3, <2>4, <2>5, GoesOnTrade DEF HolderTradeOK
<1>4. CASE Raise(p)
  <2>1. halt' \in BOOLEAN /\ (halt => halt')
    BY <1>1, <1>2
  <2>2. UNCHANGED <<cycles, attempts, pending, applied, exits>>
    BY <1>1
  <2>. QED
    BY <1>1, <1>4, <2>1, <2>2, RaiseKept
<1>. QED
  BY <1>3, <1>4 DEF ChargeEntry


(***************************************************************************)
(* The transport.                                                          *)
(***************************************************************************)

LEMMA SizeTyped ==
    ASSUME TradeInv, NEW s \in Signal, act \in Action
    PROVE  /\ OrderSize(s) \in Int
           /\ act = Market => OrderSize(s) = RequestedSize
           /\ act = Protect => OrderSize(s) = cycles[s].plan
           /\ act = TimeExit => OrderSize(s) \in Nat /\ OrderSize(s) = ExpectedClosed(s)
<1>1. cycles[s].plan \in Nat /\ cycles[s].settle \in Nat /\ view \in ViewType
  BY DEF TradeInv, StoreTradeOK, TradeShape
<1>2. RequestedSize \in Nat
  BY ActualStoreAssumption
<1>3. ExpectedClosed(s) \in Nat
  BY <1>1 DEF ExpectedClosed
<1>4. PendingSize(view, RequestedSize) \in Int
  BY <1>1, <1>2 DEF PendingSize, ViewType
<1>. QED
  BY <1>1, <1>2, <1>3, <1>4 DEF OrderSize, Action, Market, CancelRemainder, Protect,
     CancelProtection, TimeExit

\* An attempt is counted and may have gone on the wire.
Counted(s, a, w) ==
    /\ sent' = [sent EXCEPT ![<<s, a>>] = @ + 1]
    /\ wire' \in {wire, wire \cup {w}}
    /\ w = [sig |-> s, act |-> a, size |-> OrderSize(s)]

LEMMA PostStore ==
    ASSUME PathInv, PathInv', TradeInv, NEW p \in Proc, pc[p] = "post",
           NEW w, Counted(sig[p], act, w), MayPost(sig[p]), book' = book,
           UNCHANGED <<cycles, attempts, pending, view, applied, exits>>,
           halt' \in BOOLEAN, halt => halt'
    PROVE  StoreTradeOK'
<1>0. PICK s : s = sig[p]
  OBVIOUS
<1>1. pc[p] \notin Unlocked
  BY DEF Unlocked
<1>2. /\ s \in Signal /\ act \in Action /\ <<s, act>> \in attempts /\ sent[<<s, act>>] = 0
      /\ HolderTradeOK(p)
  BY <1>0, <1>1, HolderFacts DEF HolderOK, PathInv, Shape, TradeInv
<1>3. /\ sent'[<<s, act>>] = 1
      /\ \A j \in Signal \X Action : j # <<s, act>> => sent'[j] = sent[j]
  BY <1>0, <1>2 DEF PathInv, Shape, Counted
<1>4. /\ w.sig = s /\ w.act = act /\ w.size = OrderSize(s)
      /\ OrderSize(s) \in Int
      /\ act = Market => OrderSize(s) = RequestedSize
      /\ act = Protect => OrderSize(s) = cycles[s].plan
  BY <1>0, <1>2, SizeTyped DEF Counted
<1>5. w \in [sig : Signal, act : Action, size : Int]
  BY <1>2, <1>4 DEF Counted
<1>6. book' = book /\ cycles' = cycles /\ attempts' = attempts /\ pending' = pending
      /\ view' = view /\ applied' = applied /\ exits' = exits /\ pending = {<<s, act>>}
  BY <1>0 DEF MayPost, Committed
<1>7. TradeShape'
  <2>1. TradeShape
    BY DEF TradeInv, StoreTradeOK
  <2>2. ASSUME NEW v \in wire'
        PROVE  /\ v \in [sig : Signal, act : Action, size : Int]
               /\ sent'[<<v.sig, v.act>>] = 1
               /\ v.act = Market => v.size = RequestedSize
               /\ v.act = Protect => v.size = cycles'[v.sig].plan
    <3>1. CASE v \in wire
      <4>1. /\ v \in [sig : Signal, act : Action, size : Int]
            /\ sent[<<v.sig, v.act>>] = 1
            /\ v.act = Market => v.size = RequestedSize
            /\ v.act = Protect => v.size = cycles[v.sig].plan
        BY <2>1, <3>1 DEF TradeShape
      <4>2. <<v.sig, v.act>> # <<s, act>>
        BY <1>2, <4>1
      <4>. QED
        BY <1>3, <1>6, <4>1, <4>2
    <3>2. CASE v = w
      BY <1>3, <1>4, <1>5, <1>6, <3>2
    <3>. QED
      BY <3>1, <3>2 DEF Counted
  <2>3. wire' \subseteq [sig : Signal, act : Action, size : Int]
    BY <2>2
  <2>. QED
    BY <1>6, <2>1, <2>2, <2>3 DEF TradeShape
<1>8. ASSUME NEW t \in Signal PROVE BookOK(t)' /\ RowOK(t)'
  <2>1. BookOK(t) /\ RowOK(t)
    BY DEF TradeInv, StoreTradeOK
  <2>2. \A a \in Action : t # s \/ a # act =>
            (OnWire(t, a)' <=> OnWire(t, a)) /\ sent'[<<t, a>>] = sent[<<t, a>>]
    BY <1>3, <1>4 DEF OnWire, Counted
  <2>3. CASE t # s
    <3>1. {Market, Protect, TimeExit} \subseteq Action
      BY DEF Action
    <3>2. BookOK(t)'
      BY <1>6, <2>1, <2>2, <2>3, <3>1 DEF BookOK
    <3>. QED
      BY <1>6, <2>1, <2>2, <2>3, <3>1, <3>2 DEF RowOK
  <2>4. CASE t = s
    <3>1. {Market, Protect, TimeExit} \subseteq Action
      BY DEF Action
    <3>2. /\ act = TimeExit => cycles[s].confirmed
          /\ act = Protect => cycles[s].plan > 0
      BY <1>0, <1>2 DEF HolderTradeOK, StageOK, ExitStages
    <3>3. /\ sent'[<<s, Market>>] = 0 \/ OnWire(s, Market)' => book[s] = EmptyBook
      BY <1>2, <1>3, <2>1, <2>2, <2>4, <3>1 DEF BookOK
    <3>4. ~cycles[s].confirmed =>
             /\ sent'[<<s, Protect>>] = 0 \/ OnWire(s, Protect)' =>
                   book[s].oco = 0 /\ book[s].closed = 0
             /\ sent'[<<s, TimeExit>>] = 0
      BY <1>2, <1>3, <2>1, <2>2, <2>4, <3>1, <3>2 DEF BookOK
    <3>5. BookOK(t)'
      BY <1>6, <2>1, <2>4, <3>3, <3>4 DEF BookOK
    <3>6. RowOK(t)'
      BY <1>3, <1>6, <2>1, <2>2, <2>4, <3>1, <3>2 DEF RowOK
    <3>. QED
      BY <3>5, <3>6
  <2>. QED
    BY <2>3, <2>4
<1>9. CompletedOK'
  <2>1. \A t \in Signal : EntryDay(t)' = EntryDay(t)
    BY <1>6 DEF EntryDay, Day
  <2>. QED
    BY <1>6, <2>1 DEF TradeInv, StoreTradeOK, CompletedOK
<1>10. "slow" \notin Faults => WireIsMarked'
  <2>1. "slow" \notin Faults => wire = {}
    BY <1>2 DEF HolderTradeOK, QuietOK, QuietStages
  <2>. QED
    BY <1>4, <1>6, <2>1 DEF WireIsMarked, Counted
<1>11. "console" \notin Faults => Remembered'
  <2>1. SUFFICES ASSUME "console" \notin Faults, NEW t \in Signal,
                        Exposed(t)' \/ (\E v \in wire' : v.sig = t)
                 PROVE  halt' \/ \E a \in Action : pending' = {<<t, a>>}
    BY DEF Remembered
  <2>2. CASE t = s
    BY <1>2, <1>6, <2>2
  <2>3. CASE t # s
    <3>1. Exposed(t) \/ \E v \in wire : v.sig = t
      BY <1>4, <1>6, <2>1, <2>3 DEF Exposed, Counted
    <3>2. halt \/ \E a \in Action : pending = {<<t, a>>}
      BY <2>1, <3>1 DEF TradeInv, StoreTradeOK, Remembered
    <3>. QED
      BY <1>6, <3>2
  <2>. QED
    BY <2>2, <2>3
<1>. QED
  BY <1>7, <1>8, <1>9, <1>10, <1>11 DEF StoreTradeOK

LEMMA PostTrade ==
    ASSUME PathInv, PathInv', TradeInv, NEW p \in Proc, Post(p)
    PROVE  TradeInv'
<1> DEFINE s == sig[p]
<1>1. pc[p] = "post" /\ pc[p] \notin Unlocked /\ book' = book /\ UNCHANGED <<applied, exits>>
  BY DEF Post, Unlocked, fileVars
<1>2. /\ s \in Signal /\ act \in Action /\ <<s, act>> \in attempts
      /\ HolderTradeOK(p) /\ halt \in BOOLEAN
  <2>1. s \in Signal /\ <<s, act>> \in attempts /\ HolderTradeOK(p)
    BY <1>1, HolderFacts DEF HolderOK, TradeInv
  <2>2. attempts \subseteq Signal \X Action /\ halt \in BOOLEAN
    BY DEF PathInv, Shape, TradeInv, StoreTradeOK, TradeShape
  <2>. QED
    BY <2>1, <2>2
<1>3. CASE (RaiseHalted(p) \/ RaiseUnhalted(p)) /\ UNCHANGED <<wire, sent>>
  BY <1>1, <1>3, RaisesTrade DEF SameBooks
<1>4. ASSUME MayPost(s), NEW l \in Reply, Goto(p, l), NEW w,
             \/ Counted(s, act, w)
             \/ UNCHANGED <<wire, sent>>,
             l = "REJECTED_SANITIZED" => wire' = wire,
             l = "ACCEPTED_SANITIZED" => Counted(s, act, w) /\ wire' = wire \cup {w},
             halt' = halt \/ halt' = TRUE,
             UNCHANGED <<cycles, attempts, pending, resolution, flatMarker, sig, act, view,
                         lock>>
      PROVE  TradeInv'
  <2>1. pc'[p] = l /\ cycles' = cycles /\ attempts' = attempts /\ pending' = pending
        /\ sig' = sig /\ act' = act /\ view' = view /\ applied' = applied /\ exits' = exits
    BY <1>1, <1>4 DEF PathInv, Shape, Goto
  <2>2. halt' \in BOOLEAN /\ (halt => halt')
    <3>1. CASE halt' = halt
      BY <1>2, <3>1
    <3>2. CASE halt' = TRUE
      BY <3>2
    <3>. QED
      BY <1>4, <3>1, <3>2
  <2>3. UNCHANGED <<cycles, attempts, pending, view, applied, exits>>
    BY <2>1
  <2>4. StoreTradeOK'
    <3>1. CASE Counted(s, act, w)
      BY <1>1, <1>4, <2>2, <2>3, <3>1, PostStore
    <3>2. CASE UNCHANGED <<wire, sent>>
      <4>1. SameBooks /\ SameRows
        BY <1>1, <2>1, <3>2 DEF SameBooks, SameRows, SameRow
      <4>2. view \in ViewType /\ exits = [m \in Marker |-> exits[m]]
        BY DEF TradeInv, StoreTradeOK, TradeShape
      <4>. QED
        BY <2>1, <2>2, <4>1, <4>2, StoreKept
    <3>. QED
      BY <1>4, <3>1, <3>2
  <2>5. LookOK(p)' /\ StageOK(p)'
    BY <1>1, <1>2, <1>4, <2>1
       DEF HolderTradeOK, LookOK, StageOK, Seen, Looking, Reply
  <2>6. "slow" \notin Faults => wire = {}
    BY <1>1, <1>2 DEF HolderTradeOK, QuietOK, QuietStages
  <2>7. "slow" \notin Faults => QuietOK(p)'
    BY <1>4, <2>1, <2>6 DEF QuietOK, QuietStages, Reply
  <2>8. "slow" \notin Faults /\ "operator" \notin Faults => ExactOK(p)'
    BY <1>4, <2>1, <2>6 DEF ExactOK, Counted, Reply
  <2>9. "console" \notin Faults => LatchedOK(p)'
    BY <1>1, <1>2, <1>4, <2>1, <2>2 DEF HolderTradeOK, LatchedOK, Reply
  <2>10. l \notin Unlocked
    BY DEF Reply, Unlocked
  <2>. QED
    BY <1>1, <1>4, <2>4, <2>5, <2>7, <2>8, <2>9, HolderStepTrade DEF HolderTradeOK, Goto
<1>5. CASE /\ MayPost(s)
           /\ \/ /\ Goto(p, "ACCEPTED_SANITIZED")
                 /\ Submit(s, act, OrderSize(s))
                 /\ Count(s, act)
                 /\ UNCHANGED halt
              \/ /\ Goto(p, "REJECTED_SANITIZED")
                 /\ Count(s, act)
                 /\ UNCHANGED <<wire, halt>>
              \/ /\ Goto(p, "UNKNOWN_SANITIZED")
                 /\ Count(s, act)
                 /\ EngageHalt
                 /\ Submit(s, act, OrderSize(s)) \/ UNCHANGED wire
              \/ /\ Goto(p, "UNKNOWN_SANITIZED")
                 /\ UNCHANGED <<wire, sent, halt>>
           /\ UNCHANGED <<cycles, attempts, pending, resolution, flatMarker, sig, act,
                          view, lock>>
  <2>1. PICK l \in Reply : /\ Goto(p, l)
                           /\ l = "REJECTED_SANITIZED" => wire' = wire /\ Count(s, act)
                           /\ l = "ACCEPTED_SANITIZED" =>
                                 Submit(s, act, OrderSize(s)) /\ Count(s, act)
                           /\ \/ Count(s, act) /\ (Submit(s, act, OrderSize(s)) \/ wire' = wire)
                              \/ UNCHANGED <<wire, sent>>
                           /\ halt' = halt \/ halt' = TRUE
    BY <1>5 DEF Reply, EngageHalt
  <2>2. PICK w : w = [sig |-> s, act |-> act, size |-> OrderSize(s)]
    OBVIOUS
  <2>3. /\ Count(s, act) /\ (Submit(s, act, OrderSize(s)) \/ wire' = wire) => Counted(s, act, w)
        /\ Submit(s, act, OrderSize(s)) => wire' = wire \cup {w}
    BY <2>2 DEF Counted, Count, Submit
  <2>. QED
    BY <1>4, <1>5, <2>1, <2>3
<1>. QED
  BY <1>3, <1>5 DEF Post


\* The marker goes only when nothing is open or on its way, or under the halt.
LEMMA MarkerCleared ==
    ASSUME PathInv, TradeInv, SameBooks, SameRows, UNCHANGED <<attempts, applied, exits>>,
           view' \in ViewType, halt' \in BOOLEAN,
           pending' = pending \/ ("slow" \notin Faults => wire = {}),
           "console" \notin Faults =>
               halt' \/ (wire = {} /\ \A s \in Signal : book[s] = EmptyBook)
    PROVE  StoreTradeOK'
<1>1. /\ wire' = wire /\ book' = book /\ sent' = sent
      /\ attempts' = attempts /\ applied' = applied /\ exits' = exits
  BY DEF SameBooks
<1>2. TradeShape'
  <2>1. TradeShape /\ \A s \in Signal : SameRow(s)
    BY DEF TradeInv, StoreTradeOK, SameRows
  <2>2. \A w \in wire : w.sig \in Signal
    BY <2>1 DEF TradeShape
  <2>. QED
    BY <1>1, <2>1, <2>2 DEF TradeShape, SameRow
<1>3. "slow" \notin Faults => WireIsMarked'
  BY <1>1 DEF TradeInv, StoreTradeOK, WireIsMarked
<1>4. ASSUME "console" \notin Faults PROVE Remembered'
  <2>1. CASE halt'
    BY <2>1 DEF Remembered
  <2>2. CASE wire = {} /\ \A s \in Signal : book[s] = EmptyBook
    BY <1>1, <2>2 DEF Remembered, Exposed, EmptyBook
  <2>. QED
    BY <1>4, <2>1, <2>2
<1>. QED
  BY <1>1, <1>2, <1>3, <1>4, BooksKept, CompletedKept DEF StoreTradeOK

LEMMA OutcomeTrade ==
    ASSUME PathInv, PathInv', TradeInv, NEW p \in Proc, Outcome(p)
    PROVE  TradeInv'
<1>1. /\ pc[p] \in Reply /\ pc[p] \notin Unlocked /\ SameBooks
      /\ UNCHANGED <<cycles, attempts, applied, exits>>
      /\ RecordOutcome(sig[p], act, pc[p])
  BY DEF Outcome, Reply, Unlocked, brokerVars, SameBooks, fileVars
<1>2. HolderTradeOK(p) /\ act \in Action
  BY <1>1 DEF TradeInv, HolderTradeOK, StageOK
<1>3. SameRows /\ UNCHANGED attempts /\ UNCHANGED book /\ UNCHANGED wire
  BY <1>1 DEF SameRows, SameRow, SameBooks
<1>4. halt' \in BOOLEAN /\ (halt => halt') /\ (pc[p] # "REJECTED_SANITIZED" => halt')
  BY <1>1 DEF RecordOutcome
<1>5. CASE \/ /\ pc[p] = "ACCEPTED_SANITIZED" /\ Goto(p, "executions") /\ view' = NoView
              /\ UNCHANGED <<sig, act, lock>>
           \/ NotAccepted(p)
  <2>1. view' \in ViewType
    BY <1>5, NoViewTyped, RaiseView DEF NotAccepted
  <2>2. StoreTradeOK'
    <3>1. pending' = pending \/ ("slow" \notin Faults => wire = {})
      BY <1>1, <1>2 DEF RecordOutcome, HolderTradeOK, QuietOK, QuietStages
    <3>2. ASSUME "console" \notin Faults
          PROVE  halt' \/ (wire = {} /\ \A s \in Signal : book[s] = EmptyBook)
      <4>1. CASE pc[p] # "REJECTED_SANITIZED"
        BY <1>4, <4>1
      <4>2. CASE pc[p] = "REJECTED_SANITIZED" /\ act = Market
        BY <1>2, <3>2, <4>2 DEF HolderTradeOK, LatchedOK
      <4>3. CASE act # Market
        BY <1>2, <1>4, <3>2, <4>3 DEF HolderTradeOK, LatchedOK
      <4>. QED
        BY <4>1, <4>2, <4>3
    <3>. QED
      BY <1>1, <1>3, <1>4, <2>1, <3>1, <3>2, MarkerCleared
  <2>3. CASE NotAccepted(p) /\ Raise(p)
    BY <1>1, <1>3, <1>4, <2>2, <2>3, RaiseTrade
  <2>4. CASE NotAccepted(p) /\ Leave(p)
    BY <1>1, <2>2, <2>4, LetsGoTrade DEF Leave
  <2>5. CASE /\ pc[p] = "ACCEPTED_SANITIZED" /\ Goto(p, "executions") /\ view' = NoView
             /\ UNCHANGED <<sig, act, lock>>
    <3>1. pc'[p] = "executions" /\ SameRow(sig[p]) /\ view'.filled = 0
      BY <1>1, <1>3, <2>5, HolderFacts DEF PathInv, Shape, Goto, SameRows, NoView
    <3>2. LookOK(p)' /\ StageOK(p)'
      BY <1>2, <2>5, <3>1
         DEF HolderTradeOK, LookOK, StageOK, SameRow, Seen, Looking, Reply
    <3>3. QuietOK(p)'
      BY <3>1 DEF QuietOK, QuietStages
    <3>4. "slow" \notin Faults /\ "operator" \notin Faults => ExactOK(p)'
      BY <1>2, <1>3, <2>5, <3>1 DEF HolderTradeOK, ExactOK
    <3>5. LatchedOK(p)'
      BY <1>4, <2>5, <3>1 DEF LatchedOK
    <3>. QED
      BY <1>1, <2>2, <2>5, <3>2, <3>3, <3>4, <3>5, HolderStepTrade DEF HolderTradeOK, Goto
  <2>. QED
    BY <1>5, <2>3, <2>4, <2>5 DEF NotAccepted
<1>. QED
  BY <1>5 DEF Outcome

(***************************************************************************)
(* The reconciliation that follows, and what it leads to.                  *)
(***************************************************************************)

\* What a classification says of the view.
LEMMA ClassFacts ==
    ASSUME NEW r, view.active \in BOOLEAN
    PROVE  Classify(view, act, r) = "FILLED_UNPROTECTED" => view.filled > 0 /\ ~view.active
<1>1. CASE EntryFilled(view)
  BY <1>1 DEF EntryFilled
<1>2. CASE ~EntryFilled(view)
  BY <1>2 DEF Classify
<1>. QED
  BY <1>1, <1>2

LEMMA StageFacts ==
    ASSUME NEW class
    PROVE  \/ NextStage(class) = <<"attempt", CancelRemainder>>
           \/ /\ NextStage(class) = <<"plan", act>> /\ class = "FILLED_UNPROTECTED"
              /\ act \in {Market, CancelRemainder}
           \/ NextStage(class) = <<"confirm", act>> /\ act = Protect
           \/ NextStage(class) = <<"attempt", TimeExit>> /\ act = CancelProtection
           \/ NextStage(class) = <<"metrics", act>> /\ act = TimeExit
           \/ NextStage(class) = <<"fail", act>> /\ act \in ExitStages
           \/ NextStage(class) = <<"idle", "NONE">>
  BY DEF NextStage

LEMMA RecoverTrade ==
    ASSUME PathInv, PathInv', TradeInv, NEW p \in Proc, Recover(p)
    PROVE  TradeInv'
<1>1. /\ pc[p] = "recover" /\ pc[p] \notin Unlocked /\ SameBooks /\ UNCHANGED <<applied, exits>>
  BY DEF Recover, Unlocked, brokerVars, SameBooks, fileVars
<1>2. HolderTradeOK(p) /\ view \in ViewType /\ sig[p] \in Signal
  BY <1>1, HolderFacts DEF TradeInv, StoreTradeOK, TradeShape
<1>3. CASE RaiseHalted(p) \/ RaiseUnhalted(p)
  BY <1>1, <1>3, RaisesTrade
<1>4. ASSUME NEW class, class = Classify(view, act, Requested(sig[p])),
             ResolveAllowed(sig[p], class), Resolve(sig[p], class),
             \/ Leave(p)
             \/ /\ NextStage(class)[1] # "idle"
                /\ Goto(p, NextStage(class)[1])
                /\ act' = NextStage(class)[2]
                /\ UNCHANGED <<sig, view, lock>>
      PROVE  TradeInv'
  <2>1. /\ cycles' = cycles /\ attempts' = attempts /\ halt /\ halt' /\ halt' = halt
        /\ UNCHANGED <<attempts, applied, exits>>
    BY <1>1, <1>4 DEF ResolveAllowed, Resolve
  <2>2. SameRows /\ SameRow(sig[p]) /\ UNCHANGED wire /\ UNCHANGED book
    BY <1>1, <1>2, <2>1 DEF SameRows, SameRow, SameBooks
  <2>3. "slow" \notin Faults => wire = {}
    BY <1>1, <1>2 DEF HolderTradeOK, QuietOK, QuietStages
  <2>4. StoreTradeOK'
    <3>1. view' \in ViewType
      BY <1>2, <1>4, RaiseView
    <3>2. halt' \in BOOLEAN
      BY <2>1 DEF TradeInv, StoreTradeOK, TradeShape
    <3>. QED
      BY <1>1, <2>1, <2>2, <2>3, <3>1, <3>2, MarkerCleared
  <2>5. CASE Leave(p)
    BY <1>1, <2>4, <2>5, LetsGoTrade DEF Leave
  <2>6. ASSUME NEW l, NEW a, pc' = [pc EXCEPT ![p] = l], act' = a, UNCHANGED <<sig, view, lock>>,
               \/ l = "attempt" /\ a = CancelRemainder
               \/ l = "plan" /\ view.filled > 0 /\ ~view.active /\ a \in {Market, CancelRemainder}
               \/ l = "confirm" /\ a = Protect
               \/ l = "attempt" /\ a = TimeExit /\ act = CancelProtection
               \/ l = "metrics" /\ a = TimeExit /\ act = TimeExit
               \/ l = "fail" /\ a = act /\ act \in ExitStages
        PROVE  TradeInv'
    <3>1. pc'[p] = l /\ sig' = sig /\ view' = view
      BY <2>6 DEF PathInv, Shape
    <3>2. LookOK(p)'
      BY <1>1, <1>2, <2>2, <2>6, <3>1
         DEF HolderTradeOK, LookOK, SameRow, Seen, Looking
    <3>3. a \in ExitStages => act \in ExitStages
      BY <2>6 DEF ExitStages, Market, CancelRemainder, Protect, CancelProtection, TimeExit
    <3>4. StageOK(p)'
      BY <1>2, <2>2, <2>6, <3>1, <3>3
         DEF HolderTradeOK, StageOK, SameRow, Reply, Market, CancelRemainder, Protect,
             CancelProtection, TimeExit, ExitStages
    <3>5. "slow" \notin Faults => QuietOK(p)'
      BY <2>2, <2>3 DEF QuietOK
    <3>6. "slow" \notin Faults /\ "operator" \notin Faults => ExactOK(p)'
      BY <1>1, <1>2, <2>2, <2>6, <3>1
         DEF HolderTradeOK, ExactOK, Market, CancelRemainder, Protect, CancelProtection,
             TimeExit
    <3>7. LatchedOK(p)'
      BY <2>1, <2>6, <3>1 DEF LatchedOK
    <3>. QED
      BY <1>1, <2>4, <2>6, <3>2, <3>4, <3>5, <3>6, <3>7, HolderStepTrade DEF HolderTradeOK
  <2>7. CASE /\ NextStage(class)[1] # "idle"
             /\ Goto(p, NextStage(class)[1])
             /\ act' = NextStage(class)[2]
             /\ UNCHANGED <<sig, view, lock>>
    <3>1. PICK n : n = NextStage(class)
      OBVIOUS
    <3>2. class = "FILLED_UNPROTECTED" => view.filled > 0 /\ ~view.active
      <4>1. view.active \in BOOLEAN
        BY <1>2 DEF ViewType
      <4>2. PICK r : r = Requested(sig[p])
        OBVIOUS
      <4>3. class = Classify(view, act, r)
        BY <1>4, <4>2
      <4>4. Classify(view, act, r) = "FILLED_UNPROTECTED" => view.filled > 0 /\ ~view.active
        BY <4>1, ClassFacts
      <4>. QED
        BY <4>3, <4>4
    <3>3. \/ n[1] = "attempt" /\ n[2] = CancelRemainder
          \/ /\ n[1] = "plan" /\ view.filled > 0 /\ ~view.active
             /\ n[2] \in {Market, CancelRemainder}
          \/ n[1] = "confirm" /\ n[2] = Protect
          \/ n[1] = "attempt" /\ n[2] = TimeExit /\ act = CancelProtection
          \/ n[1] = "metrics" /\ n[2] = TimeExit /\ act = TimeExit
          \/ n[1] = "fail" /\ n[2] = act /\ act \in ExitStages
      BY <2>7, <3>1, <3>2, StageFacts
    <3>4. pc' = [pc EXCEPT ![p] = n[1]] /\ act' = n[2]
      BY <2>7, <3>1 DEF Goto
    <3>. QED
      BY <2>6, <2>7, <3>3, <3>4
  <2>. QED
    BY <1>4, <2>5, <2>7
<1>5. CASE \E class : /\ class = Classify(view, act, Requested(sig[p]))
                      /\ ResolveAllowed(sig[p], class) /\ Resolve(sig[p], class)
                      /\ \/ Leave(p)
                         \/ /\ NextStage(class)[1] # "idle"
                            /\ Goto(p, NextStage(class)[1])
                            /\ act' = NextStage(class)[2]
                            /\ UNCHANGED <<sig, view, lock>>
  BY <1>4, <1>5
<1>. QED
  BY <1>3, <1>5 DEF Recover


\* A transaction on the holder's row alone.
LEMMA RowTrade ==
    ASSUME PathInv, PathInv', TradeInv, NEW p \in Proc, pc[p] \notin Unlocked,
           NEW s \in Signal, OtherRows(s), SameBooks,
           cycles'[s].at = cycles[s].at, cycles[s].at # NoTime,
           cycles'[s].settle = cycles[s].settle,
           cycles'[s].plan \in Nat, cycles'[s].confirmed \in BOOLEAN,
           BookOK(s)',
           cycles'[s].plan = cycles[s].plan \/ (sent[<<s, Protect>>] = 0 /\ cycles'[s].plan > 0),
           cycles[s].loss # NoLoss => cycles'[s].loss # NoLoss,
           UNCHANGED <<attempts, halt, pending, applied, exits>>, view' \in ViewType
    PROVE  StoreTradeOK'
<1>1. /\ wire' = wire /\ book' = book /\ sent' = sent /\ attempts' = attempts
      /\ halt' = halt /\ pending' = pending /\ applied' = applied /\ exits' = exits
  BY DEF SameBooks
<1>2. \A t \in Signal : t # s => SameRow(t)
  BY DEF OtherRows
<1>3. TradeShape'
  <2>1. TradeShape
    BY DEF TradeInv, StoreTradeOK
  <2>2. \A t \in Signal : /\ cycles'[t].plan \in Nat
                          /\ cycles'[t].settle \in Nat
                          /\ cycles'[t].confirmed \in BOOLEAN
    BY <1>2, <2>1 DEF TradeShape, SameRow
  <2>3. ASSUME NEW w \in wire, w.act = Protect PROVE w.size = cycles'[w.sig].plan
    <3>1. w.sig \in Signal /\ w.size = cycles[w.sig].plan /\ sent[<<w.sig, Protect>>] = 1
      BY <2>1, <2>3 DEF TradeShape
    <3>2. CASE w.sig = s
      BY <3>1, <3>2
    <3>3. CASE w.sig # s
      BY <1>2, <3>1, <3>3 DEF SameRow
    <3>. QED
      BY <3>2, <3>3
  <2>. QED
    BY <1>1, <2>1, <2>2, <2>3 DEF TradeShape
<1>4. ASSUME NEW t \in Signal PROVE BookOK(t)' /\ RowOK(t)'
  <2>1. BookOK(t) /\ RowOK(t)
    BY DEF TradeInv, StoreTradeOK
  <2>2. CASE t = s
    <3>1. RowOK(t)'
      BY <1>1, <2>1, <2>2 DEF RowOK
    <3>. QED
      BY <2>2, <3>1
  <2>3. CASE t # s
    <3>1. BookOK(t)'
      BY <1>1, <1>2, <2>1, <2>3 DEF BookOK, OnWire, SameRow
    <3>2. RowOK(t)'
      BY <1>1, <1>2, <2>1, <2>3 DEF RowOK, SameRow
    <3>. QED
      BY <3>1, <3>2
  <2>. QED
    BY <2>2, <2>3
<1>5. CompletedOK'
  <2>1. ASSUME NEW t \in Signal
        PROVE  /\ cycles'[t].at = cycles[t].at /\ EntryDay(t)' = EntryDay(t)
               /\ cycles[t].loss # NoLoss => cycles'[t].loss # NoLoss
    <3>1. cycles'[t].at = cycles[t].at /\ (cycles[t].loss # NoLoss => cycles'[t].loss # NoLoss)
      BY <1>2 DEF SameRow
    <3>. QED
      BY <3>1 DEF EntryDay, Day
  <2>. QED
    BY <1>1, <2>1 DEF TradeInv, StoreTradeOK, CompletedOK
<1>6. "slow" \notin Faults => WireIsMarked'
  BY <1>1 DEF TradeInv, StoreTradeOK, WireIsMarked
<1>7. "console" \notin Faults => Remembered'
  BY <1>1 DEF TradeInv, StoreTradeOK, Remembered, Exposed
<1>. QED
  BY <1>3, <1>4, <1>5, <1>6, <1>7 DEF StoreTradeOK

LEMMA PersistPlanTrade ==
    ASSUME PathInv, PathInv', TradeInv, NEW p \in Proc, PersistPlan(p)
    PROVE  TradeInv'
<1>1. pc[p] = "plan" /\ pc[p] \notin Unlocked /\ SameBooks /\ UNCHANGED <<applied, exits>>
  BY DEF PersistPlan, Unlocked, brokerVars, SameBooks, fileVars
<1>2. CASE /\ cycles[sig[p]].plan = 0
           /\ cycles' = [cycles EXCEPT ![sig[p]].plan = view.filled]
           /\ Goto(p, "attempt") /\ act' = Protect
           /\ UNCHANGED <<attempts, halt, pending, resolution, flatMarker, sig, view, lock>>
  <2>1. PICK s \in Signal : s = sig[p]
    BY <1>1, HolderFacts
  <2>2. /\ pc'[p] = "attempt" /\ HolderTradeOK(p) /\ cycles[s].at # NoTime
        /\ BookOK(s) /\ RowOK(s) /\ view \in ViewType /\ book[s] \in BookType
    <3>1. cycles[s].at # NoTime
      BY <1>1, <2>1, HolderAttempted DEF Preflighting
    <3>. QED
      BY <1>1, <1>2, <2>1, <3>1
         DEF PathInv, Shape, Goto, TradeInv, StoreTradeOK, TradeShape
  <2>3. /\ OtherRows(s) /\ cycles'[s].plan = view.filled
        /\ cycles'[s].at = cycles[s].at /\ cycles'[s].settle = cycles[s].settle
        /\ cycles'[s].confirmed = cycles[s].confirmed /\ cycles'[s].loss = cycles[s].loss
    BY <1>2, <2>1, FieldWritten
  <2>4. /\ wire' = wire /\ book' = book /\ sent' = sent /\ view' = view /\ halt' = halt
        /\ sig' = sig /\ attempts' = attempts /\ applied' = applied
    BY <1>1, <1>2 DEF SameBooks
  <2>5. /\ view.filled > 0 /\ book[s].opened > 0 /\ book[s].pend = 0
        /\ ~cycles[s].confirmed /\ cycles[s].loss = NoLoss
        /\ sent[<<s, Protect>>] = 0
    <3>1. view.filled > 0 /\ book[s].opened > 0 /\ book[s].pend = 0
      BY <1>1, <2>1, <2>2 DEF HolderTradeOK, StageOK, LookOK, Seen
    <3>2. ~cycles[s].confirmed /\ cycles[s].loss = NoLoss
      BY <1>2, <2>1, <2>2 DEF BookOK
    <3>3. sent[<<s, Protect>>] \in {0, 1}
      BY DEF PathInv, AttemptsOK, Action
    <3>4. sent[<<s, Protect>>] = 0
      BY <1>2, <2>1, <2>2, <3>3 DEF RowOK
    <3>. QED
      BY <3>1, <3>2, <3>4
  <2>6. BookOK(s)'
    BY <2>2, <2>3, <2>4, <2>5 DEF BookOK, OnWire, BookType, ViewType
  <2>7. StoreTradeOK'
    <3>1. cycles[s].confirmed \in BOOLEAN
      BY DEF TradeInv, StoreTradeOK, TradeShape
    <3>2. UNCHANGED <<attempts, halt, pending, applied, exits>>
      BY <1>1, <1>2
    <3>3. cycles'[s].plan \in Nat /\ cycles'[s].confirmed \in BOOLEAN /\ view' \in ViewType
      BY <2>2, <2>3, <2>4, <3>1 DEF ViewType
    <3>. QED
      BY <1>1, <2>2, <2>3, <2>5, <2>6, <3>2, <3>3, RowTrade
  <2>8. LookOK(p)' /\ StageOK(p)'
    BY <1>2, <2>1, <2>2, <2>3, <2>4, <2>5
       DEF HolderTradeOK, LookOK, StageOK, Seen, Looking, Reply, ExitStages, Market, Protect,
           CancelProtection, TimeExit
  <2>9. "slow" \notin Faults => QuietOK(p)'
    BY <1>1, <2>2, <2>4 DEF HolderTradeOK, QuietOK, QuietStages
  <2>10. ExactOK(p)'
    BY <1>2 DEF ExactOK, Protect, CancelProtection, TimeExit
  <2>11. "console" \notin Faults => LatchedOK(p)'
    BY <1>1, <1>2, <2>2, <2>4 DEF HolderTradeOK, LatchedOK, Market, Protect
  <2>. QED
    BY <1>1, <1>2, <2>7, <2>8, <2>9, <2>10, <2>11, HolderStepTrade DEF HolderTradeOK, Goto
<1>3. CASE RaiseUnhalted(p)
  BY <1>1, <1>3, RaisesTrade
<1>. QED
  BY <1>2, <1>3 DEF PersistPlan

LEMMA AttemptTrade ==
    ASSUME PathInv, PathInv', TradeInv, NEW p \in Proc, Attempt(p)
    PROVE  TradeInv'
<1>1. /\ pc[p] = "attempt" /\ pc[p] \notin Unlocked /\ act # Market
      /\ SameBooks /\ UNCHANGED <<applied, exits>>
  BY DEF Attempt, Unlocked, brokerVars, SameBooks, fileVars
<1>2. CASE /\ ViewPermits(sig[p]) /\ AttemptFree(sig[p], act)
           /\ RecordAttempt(sig[p], act, OrderSize(sig[p]))
           /\ Goto(p, "post")
           /\ UNCHANGED <<sig, act, view, lock>>
  <2>1. PICK s \in Signal : s = sig[p]
    BY <1>1, HolderFacts
  <2>2. /\ pc'[p] = "post" /\ HolderTradeOK(p) /\ act \in Action
        /\ <<s, Market>> \in attempts /\ cycles[s].at # NoTime
    BY <1>1, <1>2, <2>1, HolderFacts, HolderAttempted
       DEF PathInv, Shape, Goto, TradeInv, HolderOK, Preflighting
  <2>3. /\ wire' = wire /\ book' = book /\ sent' = sent /\ view' = view /\ halt' = halt
        /\ sig' = sig /\ act' = act
    BY <1>1, <1>2 DEF SameBooks, RecordAttempt
  <2>4. PICK size : size = OrderSize(s)
    OBVIOUS
  <2>5. /\ OtherRows(s)
        /\ cycles'[s].settle = IF act = TimeExit THEN size ELSE cycles[s].settle
        /\ cycles'[s].plan = cycles[s].plan
        /\ cycles'[s].confirmed = cycles[s].confirmed
        /\ cycles'[s].loss = cycles[s].loss
    <3>1. PICK a : a = act
      OBVIOUS
    <3>2. RecordAttempt(s, a, size)
      BY <1>2, <2>1, <2>4, <3>1
    <3>. QED
      BY <3>1, <3>2, AttemptRow
  <2>6. act = TimeExit => view.filled = size /\ size > 0
    <3>1. CASE act = TimeExit
      <4>1. EntryFilled(view) /\ view.filled = OrderSize(sig[p])
        BY <1>2, <3>1 DEF ViewPermits, CancelRemainder, Protect, CancelProtection, TimeExit
      <4>. QED
        BY <2>1, <2>4, <4>1 DEF EntryFilled
    <3>. QED
      BY <3>1
  <2>7. "slow" \notin Faults => wire = {}
    BY <1>1, <2>2 DEF HolderTradeOK, QuietOK, QuietStages
  <2>8. StoreTradeOK'
    <3>1. PICK n \in Nat : act = TimeExit => n = size
      <4>1. act = TimeExit => size \in Nat
        BY <2>2, <2>4, SizeTyped
      <4>. QED
        BY <4>1
    <3>2. RecordAttempt(s, act, n)
      BY <1>2, <2>1, <2>4, <3>1 DEF RecordAttempt
    <3>3. PICK a \in Action : a = act
      BY <2>2
    <3>4. RecordAttempt(s, a, n) /\ AttemptFree(s, a) /\ a # Market
      BY <1>1, <1>2, <2>1, <3>2, <3>3
    <3>5. "console" \notin Faults => halt
      BY <1>1, <2>2 DEF HolderTradeOK, LatchedOK
    <3>6. UNCHANGED <<applied, exits, view>>
      BY <1>1, <2>3
    <3>. QED
      BY <1>1, <2>2, <2>7, <3>4, <3>5, <3>6, AttemptStore
  <2>9. LookOK(p)' /\ StageOK(p)'
    BY <1>1, <2>1, <2>2, <2>3, <2>5
       DEF HolderTradeOK, LookOK, StageOK, Seen, Looking, Reply
  <2>10. QuietOK(p)' \/ "slow" \in Faults
    BY <2>3, <2>7 DEF QuietOK
  <2>11. "slow" \notin Faults /\ "operator" \notin Faults => ExactOK(p)'
    BY <1>1, <2>1, <2>2, <2>3, <2>5, <2>6
       DEF HolderTradeOK, ExactOK, CancelProtection, TimeExit
  <2>12. "console" \notin Faults => LatchedOK(p)'
    BY <1>1, <2>2, <2>3 DEF HolderTradeOK, LatchedOK
  <2>. QED
    BY <1>1, <1>2, <2>8, <2>9, <2>10, <2>11, <2>12, HolderStepTrade DEF HolderTradeOK, Goto
<1>3. CASE RaiseHalted(p) \/ RaiseUnhalted(p)
  BY <1>1, <1>3, RaisesTrade
<1>. QED
  BY <1>2, <1>3 DEF Attempt

LEMMA ConfirmTrade ==
    ASSUME PathInv, PathInv', TradeInv, NEW p \in Proc, Confirm(p)
    PROVE  TradeInv'
<1>1. pc[p] = "confirm" /\ pc[p] \notin Unlocked /\ SameBooks /\ UNCHANGED <<applied, exits>>
  BY DEF Confirm, Unlocked, brokerVars, SameBooks, fileVars
<1>2. CASE /\ ExactlyProtected(view) /\ view.oco = cycles[sig[p]].plan
           /\ cycles' = [cycles EXCEPT ![sig[p]].confirmed = TRUE]
           /\ Goto(p, "drive") /\ view' = NoView
           /\ UNCHANGED <<attempts, halt, pending, resolution, flatMarker, sig, act, lock>>
  <2>1. PICK s \in Signal : s = sig[p]
    BY <1>1, HolderFacts
  <2>2. /\ pc'[p] = "drive" /\ HolderTradeOK(p) /\ cycles[s].at # NoTime
        /\ BookOK(s) /\ RowOK(s) /\ view \in ViewType /\ book[s] \in BookType
        /\ cycles[s].plan \in Nat
    <3>1. cycles[s].at # NoTime
      BY <1>1, <2>1, HolderAttempted DEF Preflighting
    <3>. QED
      BY <1>1, <1>2, <2>1, <3>1
         DEF PathInv, Shape, Goto, TradeInv, StoreTradeOK, TradeShape
  <2>3. /\ OtherRows(s) /\ cycles'[s].confirmed = TRUE
        /\ cycles'[s].at = cycles[s].at /\ cycles'[s].settle = cycles[s].settle
        /\ cycles'[s].plan = cycles[s].plan /\ cycles'[s].loss = cycles[s].loss
    BY <1>2, <2>1, FieldWritten
  <2>4. /\ wire' = wire /\ book' = book /\ sent' = sent /\ halt' = halt
        /\ sig' = sig /\ act' = act /\ attempts' = attempts /\ applied' = applied
    BY <1>1, <1>2 DEF SameBooks
  <2>5. cycles[s].plan > 0 /\ book[s].opened = cycles[s].plan
    <3>1. view.filled > 0 /\ view.filled = cycles[s].plan /\ view.oco = cycles[s].plan
      BY <1>2, <2>1 DEF ExactlyProtected
    <3>2. CASE cycles[s].confirmed
      BY <2>2, <3>2 DEF BookOK
    <3>3. CASE ~cycles[s].confirmed
      BY <1>1, <2>1, <2>2, <3>1, <3>3 DEF HolderTradeOK, LookOK
    <3>. QED
      BY <3>2, <3>3
  <2>6. BookOK(s)'
    BY <2>2, <2>3, <2>4, <2>5 DEF BookOK, OnWire
  <2>7. StoreTradeOK'
    <3>1. UNCHANGED <<attempts, halt, pending, applied, exits>>
      BY <1>1, <1>2
    <3>. QED
      BY <1>1, <1>2, <2>2, <2>3, <2>6, <3>1, NoViewTyped, RowTrade
  <2>8. LookOK(p)' /\ StageOK(p)'
    BY <1>2, <2>1, <2>2, <2>3, <2>4
       DEF HolderTradeOK, LookOK, StageOK, Seen, Looking, Reply, NoView
  <2>9. QuietOK(p)' /\ ExactOK(p)'
    BY <2>2 DEF QuietOK, QuietStages, ExactOK
  <2>10. "console" \notin Faults => LatchedOK(p)'
    BY <1>1, <2>2, <2>4 DEF HolderTradeOK, LatchedOK
  <2>. QED
    BY <1>1, <1>2, <2>7, <2>8, <2>9, <2>10, HolderStepTrade DEF HolderTradeOK, Goto
<1>3. CASE RaiseHalted(p) \/ RaiseUnhalted(p)
  BY <1>1, <1>3, RaisesTrade
<1>. QED
  BY <1>2, <1>3 DEF Confirm


(***************************************************************************)
(* The driver and the exit.                                                *)
(***************************************************************************)

LEMMA DriveTrade ==
    ASSUME PathInv, PathInv', TradeInv, NEW p \in Proc, Drive(p)
    PROVE  TradeInv'
<1>1. /\ pc[p] = "drive" /\ pc[p] \notin Unlocked /\ SameBooks /\ UNCHANGED storeVars
      /\ UNCHANGED <<cycles, attempts, halt, pending, applied, exits>>
  BY DEF Drive, Unlocked, storeVars, brokerVars, SameBooks, fileVars
<1>2. halt \in BOOLEAN /\ view \in ViewType /\ exits = [m \in Marker |-> exits[m]]
  BY DEF TradeInv, StoreTradeOK, TradeShape
<1>3. CASE Goto(p, "claim") /\ UNCHANGED <<sig, act, view, lock>>
  <2>1. pc'[p] = "claim" /\ HolderTradeOK(p) /\ SameRow(sig[p])
    BY <1>1, <1>3 DEF PathInv, Shape, Goto, TradeInv, SameRow
  <2>2. LookOK(p)' /\ StageOK(p)'
    BY <1>1, <1>3, <2>1
       DEF HolderTradeOK, LookOK, StageOK, SameRow, Seen, Looking, Reply, SameBooks
  <2>3. QuietOK(p)' /\ ExactOK(p)'
    BY <2>1 DEF QuietOK, QuietStages, ExactOK
  <2>4. "console" \notin Faults => LatchedOK(p)'
    BY <1>1, <1>3, <2>1 DEF HolderTradeOK, LatchedOK
  <2>5. view' \in ViewType /\ exits' = [m \in Marker |-> exits'[m]]
        /\ applied' = applied /\ exits' = exits
    BY <1>1, <1>2, <1>3
  <2>. QED
    BY <1>1, <1>3, <2>2, <2>3, <2>4, <2>5, GoesOnTrade DEF HolderTradeOK
<1>4. CASE Raise(p) \/ Leave(p)
  <2>1. halt' \in BOOLEAN /\ (halt => halt')
    BY <1>1, <1>2
  <2>2. UNCHANGED <<cycles, attempts, pending, applied, exits>>
    BY <1>1
  <2>. QED
    BY <1>1, <1>4, <2>1, <2>2, RaiseKept
<1>. QED
  BY <1>3, <1>4 DEF Drive

LEMMA MarkFacts ==
    ASSUME TradeInv, NEW m \in Marker, NEW d, Mark(m, d)
    PROVE  /\ exits' = [n \in Marker |-> exits'[n]]
           /\ exits'[m] = exits[m] \cup {d}
           /\ \A n \in Marker : n # m => exits'[n] = exits[n]
<1>1. exits = [n \in Marker |-> exits[n]]
  BY DEF TradeInv, StoreTradeOK, TradeShape
<1>. QED
  BY <1>1 DEF Mark

LEMMA ClaimTrade ==
    ASSUME PathInv, PathInv', TradeInv, NEW p \in Proc, Claim(p)
    PROVE  TradeInv'
<1>1. /\ pc[p] = "claim" /\ pc[p] \notin Unlocked /\ SameBooks /\ UNCHANGED storeVars
      /\ UNCHANGED <<cycles, attempts, halt, pending, applied>>
  BY DEF Claim, Unlocked, storeVars, brokerVars, SameBooks
<1>2. CASE /\ Mark("claimed", EntryDay(sig[p]))
           /\ Goto(p, IF OnlyRow(sig[p]) THEN "executions" ELSE "fail")
           /\ act' = "EXIT" /\ UNCHANGED <<sig, view, lock>>
  <2>1. PICK l \in {"executions", "fail"} : Goto(p, l)
    BY <1>2
  <2>2. pc'[p] = l /\ HolderTradeOK(p) /\ SameRow(sig[p])
    BY <1>1, <2>1 DEF PathInv, Shape, Goto, TradeInv, SameRow
  <2>3. LookOK(p)' /\ StageOK(p)'
    BY <1>1, <1>2, <2>2
       DEF HolderTradeOK, LookOK, StageOK, SameRow, Seen, Looking, Reply, SameBooks, Market,
           Protect
  <2>4. QuietOK(p)' /\ ExactOK(p)'
    BY <1>2, <2>2 DEF QuietOK, QuietStages, ExactOK, CancelProtection, TimeExit
  <2>5. "console" \notin Faults => LatchedOK(p)'
    BY <1>1, <1>2, <2>2 DEF HolderTradeOK, LatchedOK, Market
  <2>6. /\ exits' = [m \in Marker |-> exits'[m]]
        /\ exits'["completed"] = exits["completed"]
    <3>1. "claimed" \in Marker /\ "completed" \in Marker
      BY DEF Marker
    <3>2. PICK d : Mark("claimed", d)
      BY <1>2
    <3>. QED
      BY <3>1, <3>2, MarkFacts
  <2>7. view' \in ViewType
    BY <1>2 DEF TradeInv, StoreTradeOK, TradeShape
  <2>. QED
    BY <1>1, <2>1, <2>3, <2>4, <2>5, <2>6, <2>7, GoesOnTrade DEF HolderTradeOK
<1>3. CASE Raise(p) /\ UNCHANGED exits
  <2>1. halt' \in BOOLEAN /\ (halt => halt')
    BY <1>1 DEF TradeInv, StoreTradeOK, TradeShape
  <2>2. UNCHANGED <<cycles, attempts, pending, applied, exits>>
    BY <1>1, <1>3
  <2>. QED
    BY <1>1, <1>3, <2>1, <2>2, RaiseKept
<1>. QED
  BY <1>2, <1>3 DEF Claim

LEMMA ExitTrade ==
    ASSUME PathInv, PathInv', TradeInv, NEW p \in Proc, Exit(p)
    PROVE  TradeInv'
<1>1. /\ pc[p] = "exit" /\ pc[p] \notin Unlocked /\ SameBooks /\ UNCHANGED storeVars
      /\ UNCHANGED <<cycles, attempts, halt, pending, applied, exits, sig, view, wire, book>>
  BY DEF Exit, Unlocked, storeVars, brokerVars, SameBooks, fileVars
<1>2. HolderTradeOK(p) /\ act \in ExitStages
  BY <1>1 DEF TradeInv, HolderTradeOK, StageOK
<1>3. PICK l \in {"metrics", "attempt"} :
        /\ Goto(p, l)
        /\ l = "metrics" => act' = act
        /\ l = "attempt" => act' = CancelProtection
  BY DEF Exit
<1>4. pc'[p] = l
  BY <1>3 DEF PathInv, Shape, Goto
<1>5. act' \in ExitStages
  BY <1>2, <1>3 DEF ExitStages
<1>6. LookOK(p)'
  BY <1>1, <1>2, <1>4 DEF HolderTradeOK, LookOK, Seen, Looking
<1>7. StageOK(p)'
  BY <1>1, <1>2, <1>3, <1>4, <1>5
     DEF HolderTradeOK, StageOK, Reply, ExitStages, Market, Protect, CancelProtection, TimeExit
<1>8. "slow" \notin Faults => QuietOK(p)'
  BY <1>1, <1>2 DEF HolderTradeOK, QuietOK, QuietStages
<1>9. ExactOK(p)'
  BY <1>3, <1>4 DEF ExactOK, CancelProtection, TimeExit
<1>10. "console" \notin Faults => LatchedOK(p)'
  BY <1>1, <1>2, <1>5, <1>4
     DEF HolderTradeOK, LatchedOK, ExitStages, Action, Market, CancelProtection, TimeExit
<1>11. view' \in ViewType /\ exits' = [m \in Marker |-> exits'[m]]
       /\ applied' = applied /\ exits' = exits
  BY <1>1 DEF TradeInv, StoreTradeOK, TradeShape
<1>. QED
  BY <1>1, <1>3, <1>6, <1>7, <1>8, <1>9, <1>10, <1>11, GoesOnTrade DEF HolderTradeOK

LEMMA RecordMetricsTrade ==
    ASSUME PathInv, PathInv', TradeInv, NEW p \in Proc, RecordMetrics(p)
    PROVE  TradeInv'
<1>1. pc[p] = "metrics" /\ pc[p] \notin Unlocked /\ SameBooks /\ UNCHANGED <<applied, exits>>
  BY DEF RecordMetrics, Unlocked, brokerVars, SameBooks, fileVars
<1>2. ASSUME NEW loss \in Nat, FlatClosed(sig[p]),
             cycles' = [cycles EXCEPT ![sig[p]].loss = loss], Goto(p, "result"),
             UNCHANGED <<attempts, halt, pending, resolution, flatMarker, sig, act, view, lock>>
      PROVE  TradeInv'
  <2>1. PICK s \in Signal : s = sig[p]
    BY <1>1, HolderFacts
  <2>2. /\ pc'[p] = "result" /\ HolderTradeOK(p) /\ cycles[s].at # NoTime
        /\ BookOK(s) /\ RowOK(s) /\ view \in ViewType /\ book[s] \in BookType
        /\ cycles[s].plan \in Nat /\ cycles[s].confirmed \in BOOLEAN
    <3>1. cycles[s].at # NoTime
      BY <1>1, <2>1, HolderAttempted DEF Preflighting
    <3>2. pc'[p] = "result"
      BY <1>2 DEF PathInv, Shape, Goto
    <3>3. /\ HolderTradeOK(p) /\ BookOK(s) /\ RowOK(s)
      BY <1>1, <2>1, <3>1 DEF TradeInv, StoreTradeOK
    <3>4. /\ view \in ViewType /\ book[s] \in BookType
          /\ cycles[s].plan \in Nat /\ cycles[s].confirmed \in BOOLEAN
      BY DEF TradeInv, StoreTradeOK, TradeShape
    <3>. QED
      BY <3>1, <3>2, <3>3, <3>4
  <2>3. /\ OtherRows(s) /\ cycles'[s].loss = loss /\ loss # NoLoss
        /\ cycles'[s].at = cycles[s].at /\ cycles'[s].settle = cycles[s].settle
        /\ cycles'[s].plan = cycles[s].plan /\ cycles'[s].confirmed = cycles[s].confirmed
    <3>1. loss # NoLoss
      BY DEF NoLoss
    <3>2. cycles' = [cycles EXCEPT ![s].loss = loss]
      BY <1>2, <2>1
    <3>. QED
      BY <3>1, <3>2, LossWritten
  <2>4. /\ wire' = wire /\ book' = book /\ sent' = sent /\ halt' = halt /\ view' = view
        /\ sig' = sig /\ act' = act /\ attempts' = attempts /\ applied' = applied
    BY <1>1, <1>2 DEF SameBooks
  <2>5. cycles[s].confirmed /\ book[s].pos = 0 /\ book[s].oco = 0
    <3>1. view.filled = 0 /\ view.oco = 0
      BY <1>2 DEF FlatClosed, NothingLeft
    <3>2. cycles[s].confirmed
      BY <1>1, <2>1, <2>2 DEF HolderTradeOK, StageOK
    <3>3. cycles[s].plan > 0
      BY <2>2, <3>2 DEF BookOK
    <3>4. book[s].pos <= view.filled /\ book[s].oco = 0
      BY <1>1, <2>1, <2>2, <3>1, <3>3 DEF HolderTradeOK, LookOK, Looking
    <3>5. book[s].pos = 0
      BY <2>2, <3>1, <3>4 DEF BookType
    <3>. QED
      BY <3>2, <3>4, <3>5
  <2>6. BookOK(s)'
    BY <2>2, <2>3, <2>4, <2>5 DEF BookOK, OnWire
  <2>7. StoreTradeOK'
    <3>1. UNCHANGED <<attempts, halt, pending, applied, exits>>
      BY <1>1, <1>2
    <3>. QED
      BY <1>1, <1>2, <2>2, <2>3, <2>4, <2>6, <3>1, RowTrade
  <2>8. LookOK(p)' /\ StageOK(p)'
    BY <1>1, <1>2, <2>1, <2>2, <2>3, <2>4
       DEF HolderTradeOK, LookOK, StageOK, Seen, Looking, Reply
  <2>9. QuietOK(p)' /\ ExactOK(p)'
    BY <2>2 DEF QuietOK, QuietStages, ExactOK
  <2>10. "console" \notin Faults => LatchedOK(p)'
    BY <1>1, <2>2, <2>4 DEF HolderTradeOK, LatchedOK
  <2>. QED
    BY <1>1, <1>2, <2>7, <2>8, <2>9, <2>10, HolderStepTrade DEF HolderTradeOK, Goto
<1>3. CASE RaiseHalted(p) \/ RaiseUnhalted(p)
  BY <1>1, <1>3, RaisesTrade
<1>4. \A loss \in 0..PerTradeLossBound : loss \in Nat
  BY PolicyFacts
<1>. QED
  BY <1>2, <1>3, <1>4 DEF RecordMetrics

LEMMA ApplyResultTrade ==
    ASSUME PathInv, PathInv', TradeInv, NEW p \in Proc, ApplyResult(p)
    PROVE  TradeInv'
<1>1. /\ pc[p] = "result" /\ pc[p] \notin Unlocked /\ SameBooks /\ UNCHANGED storeVars
      /\ UNCHANGED <<cycles, attempts, halt, pending, exits>>
  BY DEF ApplyResult, Unlocked, storeVars, brokerVars, SameBooks
<1>2. halt \in BOOLEAN /\ view \in ViewType /\ exits = [m \in Marker |-> exits[m]]
  BY DEF TradeInv, StoreTradeOK, TradeShape
<1>3. CASE /\ applied' = applied \cup {sig[p]} /\ Goto(p, "complete")
           /\ UNCHANGED <<sig, act, view, lock>>
  <2>1. pc'[p] = "complete" /\ HolderTradeOK(p) /\ SameRow(sig[p])
    BY <1>1, <1>3 DEF PathInv, Shape, Goto, TradeInv, SameRow
  <2>2. LookOK(p)' /\ StageOK(p)'
    BY <1>1, <1>3, <2>1
       DEF HolderTradeOK, LookOK, StageOK, SameRow, Seen, Looking, Reply, SameBooks
  <2>3. QuietOK(p)' /\ ExactOK(p)'
    BY <2>1 DEF QuietOK, QuietStages, ExactOK
  <2>4. "console" \notin Faults => LatchedOK(p)'
    BY <1>1, <1>3, <2>1 DEF HolderTradeOK, LatchedOK
  <2>5. view' \in ViewType /\ exits' = [m \in Marker |-> exits'[m]]
        /\ applied \subseteq applied' /\ exits' = exits
    BY <1>1, <1>2, <1>3
  <2>. QED
    BY <1>1, <1>3, <2>2, <2>3, <2>4, <2>5, GoesOnTrade DEF HolderTradeOK
<1>4. CASE Raise(p) /\ UNCHANGED <<risk, applied>>
  <2>1. halt' \in BOOLEAN /\ (halt => halt')
    BY <1>1, <1>2
  <2>2. UNCHANGED <<cycles, attempts, pending, applied, exits>>
    BY <1>1, <1>4
  <2>. QED
    BY <1>1, <1>4, <2>1, <2>2, RaiseKept
<1>. QED
  BY <1>3, <1>4 DEF ApplyResult

\* Every attempt is the holder's, so the day it completes is its own.
LEMMA CompleteExitTrade ==
    ASSUME PathInv, PathInv', TradeInv, NEW p \in Proc, CompleteExit(p)
    PROVE  TradeInv'
<1>1. /\ pc[p] = "complete" /\ pc[p] \notin Unlocked /\ SameBooks /\ Leave(p)
      /\ UNCHANGED <<cycles, attempts, halt, pending, applied>>
      /\ Mark("completed", EntryDay(sig[p]))
  BY DEF CompleteExit, Unlocked, storeVars, brokerVars, SameBooks
<1>2. /\ HolderTradeOK(p) /\ \A j \in attempts : j[1] = sig[p]
      /\ <<sig[p], Market>> \in attempts
  BY <1>1, HolderFacts, HolderAttempted DEF TradeInv, HolderOK, Preflighting
<1>3. exits' = [m \in Marker |-> exits'[m]]
  <2>1. PICK d : Mark("completed", d)
    BY <1>1
  <2>2. "completed" \in Marker
    BY DEF Marker
  <2>. QED
    BY <2>1, <2>2, MarkFacts
<1>4. /\ wire' = wire /\ book' = book /\ sent' = sent /\ cycles' = cycles
      /\ attempts' = attempts /\ halt' = halt /\ pending' = pending /\ applied' = applied
  BY <1>1 DEF SameBooks
<1>5. SameRows
  BY <1>4 DEF SameRows, SameRow
<1>6. CompletedOK'
  <2>1. ASSUME NEW t \in Signal, cycles[t].at # NoTime
        PROVE  cycles[t].loss # NoLoss /\ t \in applied
    <3>1. <<t, Market>> \in attempts
      BY <2>1 DEF TradeInv, StoreTradeOK, RowOK
    <3>2. t = sig[p]
      BY <1>2, <3>1
    <3>. QED
      BY <1>1, <1>2, <3>2 DEF HolderTradeOK, StageOK
  <2>. QED
    BY <1>2, <1>4, <2>1 DEF CompletedOK
<1>7. StoreTradeOK'
  <2>1. TradeShape'
    <3>1. view' \in ViewType
      BY <1>1, RaiseView
    <3>2. TradeShape /\ \A w \in wire : w.sig \in Signal
      BY DEF TradeInv, StoreTradeOK, TradeShape
    <3>. QED
      BY <1>3, <1>4, <3>1, <3>2 DEF TradeShape
  <2>2. "slow" \notin Faults => WireIsMarked'
    BY <1>4 DEF TradeInv, StoreTradeOK, WireIsMarked
  <2>3. "console" \notin Faults => Remembered'
    BY <1>4 DEF TradeInv, StoreTradeOK, Remembered, Exposed
  <2>. QED
    BY <1>1, <1>4, <1>5, <1>6, <2>1, <2>2, <2>3, BooksKept DEF StoreTradeOK
<1>. QED
  BY <1>1, <1>7, LetsGoTrade DEF Leave

LEMMA FailExitTrade ==
    ASSUME PathInv, PathInv', TradeInv, NEW p \in Proc, FailExit(p)
    PROVE  TradeInv'
<1>1. /\ pc[p] = "fail" /\ pc[p] \notin Unlocked /\ SameBooks /\ Goto(p, "release")
      /\ UNCHANGED <<cycles, attempts, pending, applied>> /\ halt' = TRUE /\ view' = NoView
  BY DEF FailExit, Unlock, EngageHalt, Unlocked, brokerVars, SameBooks
<1>2. exits' = [m \in Marker |-> exits'[m]] /\ exits'["completed"] = exits["completed"]
  <2>1. PICK d : Mark("failed", d)
    BY DEF FailExit
  <2>2. "completed" \in Marker /\ "failed" \in Marker
    BY DEF Marker
  <2>. QED
    BY <2>1, <2>2, MarkFacts
<1>3. SameRows /\ attempts' = attempts /\ pending' = pending /\ applied' = applied
  BY <1>1 DEF SameRows, SameRow
<1>4. StoreTradeOK'
  BY <1>1, <1>2, <1>3, NoViewTyped, StoreKept
<1>. QED
  BY <1>1, <1>4, LetsGoTrade


(***************************************************************************)
(* The steps beside the holder.                                            *)
(***************************************************************************)

\* A session without the lock: the holder's world stays.
LEMMA OutsiderTrade ==
    ASSUME PathInv, PathInv', TradeInv, NEW p \in Proc, pc[p] \in Unlocked,
           NEW l \in Unlocked, pc' = [pc EXCEPT ![p] = l],
           \A q \in Proc : q # p => sig'[q] = sig[q],
           SameBooks, SameRows, UNCHANGED <<act, view, attempts, pending, applied, exits>>,
           halt' \in BOOLEAN, halt => halt'
    PROVE  TradeInv'
<1>1. attempts' = attempts /\ pending' = pending /\ applied' = applied /\ exits' = exits
      /\ view' = view
  OBVIOUS
<1>2. StoreTradeOK'
  <2>1. view' \in ViewType /\ exits' = [m \in Marker |-> exits'[m]]
    BY <1>1 DEF TradeInv, StoreTradeOK, TradeShape
  <2>. QED
    BY <1>1, <2>1, StoreKept
<1>3. ASSUME NEW q \in Proc, pc'[q] \notin Unlocked PROVE HolderTradeOK(q)'
  <2>1. q # p /\ pc'[q] = pc[q] /\ sig'[q] = sig[q]
    BY <1>3 DEF PathInv, Shape
  <2>2. HolderTradeOK(q) /\ sig[q] \in Signal
    BY <1>3, <2>1, HolderFacts DEF TradeInv
  <2>3. SameRow(sig[q])
    BY <2>2 DEF SameRows
  <2>4. UNCHANGED <<act, view, attempts, applied>>
    OBVIOUS
  <2>. QED
    BY <2>1, <2>2, <2>3, <2>4, HolderKept
<1>. QED
  BY <1>2, <1>3 DEF TradeInv

\* A row that is made or deleted is blank.
LEMMA BlankRow ==
    ASSUME PathInv, TradeInv, NEW s \in Signal, cycles[s].at = NoTime
    PROVE  /\ cycles[s].plan = 0 /\ cycles[s].settle = 0 /\ cycles[s].confirmed = FALSE
           /\ cycles[s].loss = NoLoss
  BY DEF TradeInv, StoreTradeOK, TradeShape, RowOK

LEMMA BlankRowFields ==
    /\ NoRow.at = NoTime /\ NoRow.plan = 0 /\ NoRow.settle = 0
    /\ NoRow.confirmed = FALSE /\ NoRow.loss = NoLoss
  BY DEF NoRow

LEMMA ReserveRows ==
    ASSUME PathInv, TradeInv, NEW s \in Signal, ReserveAllowed(s), Reserve(s)
    PROVE  SameRows
<1>1. cycles = [t \in Signal |-> cycles[t]] /\ cycles[s].at = NoTime
  BY DEF PathInv, Shape, RowShape, ReserveAllowed
<1>2. ASSUME NEW t \in Signal, t # s PROVE SameRow(t)
  <2>1. cycles'[t] = cycles[t]
    BY <1>1, <1>2 DEF Reserve
  <2>. QED
    BY <2>1 DEF SameRow
<1>3. cycles'[s] = [born |-> Cardinality(Rows) + 1, day |-> Day(now), preflight |-> FALSE,
                    at |-> NoTime, plan |-> 0, confirmed |-> FALSE, settle |-> 0,
                    loss |-> NoLoss]
  BY <1>1 DEF Reserve, NoRow
<1>4. SameRow(s)
  <2>1. /\ cycles'[s].at = NoTime /\ cycles'[s].plan = 0 /\ cycles'[s].settle = 0
        /\ cycles'[s].confirmed = FALSE /\ cycles'[s].loss = NoLoss
    BY <1>3
  <2>2. /\ cycles[s].plan = 0 /\ cycles[s].settle = 0 /\ cycles[s].confirmed = FALSE
        /\ cycles[s].loss = NoLoss
    BY <1>1, BlankRow
  <2>. QED
    BY <1>1, <2>1, <2>2 DEF SameRow
<1>. QED
  BY <1>2, <1>4 DEF SameRows

LEMMA ReleaseRows ==
    ASSUME PathInv, TradeInv, NEW s \in Signal, Release(s)
    PROVE  SameRows
<1>1. CASE cycles' = cycles
  BY <1>1 DEF SameRows, SameRow
<1>2. CASE ReleaseAllowed(s) /\ cycles' = WithoutRow(s)
  <2>1. cycles'[s] = NoRow /\ cycles[s].at = NoTime
    BY <1>2 DEF WithoutRow, ReleaseAllowed
  <2>2. SameRow(s)
    BY <2>1, BlankRow, BlankRowFields DEF SameRow
  <2>3. ASSUME NEW t \in Signal, t # s PROVE SameRow(t)
    <3>1. PICK c : c = cycles[t]
      OBVIOUS
    <3>2. c = [born |-> c.born, day |-> c.day, preflight |-> c.preflight, at |-> c.at,
               plan |-> c.plan, confirmed |-> c.confirmed, settle |-> c.settle,
               loss |-> c.loss]
      BY <3>1 DEF PathInv, Shape, RowShape
    <3>3. PICK n : cycles'[t] = [c EXCEPT !.born = n]
      BY <1>2, <2>3, <3>1 DEF WithoutRow
    <3>4. cycles'[t] = [born |-> n, day |-> c.day, preflight |-> c.preflight, at |-> c.at,
                        plan |-> c.plan, confirmed |-> c.confirmed, settle |-> c.settle,
                        loss |-> c.loss]
      BY <3>2, <3>3
    <3>. QED
      BY <3>1, <3>4 DEF SameRow
  <2>. QED
    BY <2>2, <2>3 DEF SameRows
<1>. QED
  BY <1>1, <1>2 DEF Release

\* A step beside the sessions.
LEMMA BesideTrade ==
    ASSUME PathInv, PathInv', TradeInv, UNCHANGED <<pc, sig, act, view>>,
           SameBooks, SameRows, UNCHANGED <<attempts, pending, applied>>,
           exits' = [m \in Marker |-> exits'[m]], exits'["completed"] = exits["completed"],
           halt' \in BOOLEAN, "console" \notin Faults => (halt => halt')
    PROVE  TradeInv'
<1>1. /\ attempts' = attempts /\ pending' = pending /\ applied' = applied
      /\ pc' = pc /\ sig' = sig /\ view' = view
  OBVIOUS
<1>2. StoreTradeOK'
  <2>1. view' \in ViewType
    BY <1>1 DEF TradeInv, StoreTradeOK, TradeShape
  <2>. QED
    BY <1>1, <2>1, StoreKept
<1>3. ASSUME NEW q \in Proc, pc'[q] \notin Unlocked PROVE HolderTradeOK(q)'
  <2>1. pc'[q] = pc[q] /\ sig'[q] = sig[q]
    BY <1>1
  <2>2. HolderTradeOK(q) /\ sig[q] \in Signal
    BY <1>3, <2>1, HolderFacts DEF TradeInv
  <2>3. SameRow(sig[q])
    BY <2>2 DEF SameRows
  <2>4. UNCHANGED <<act, view, attempts, applied>>
    OBVIOUS
  <2>. QED
    BY <2>1, <2>2, <2>3, <2>4, HolderKept
<1>. QED
  BY <1>2, <1>3 DEF TradeInv

LEMMA HaltTyped == ASSUME TradeInv PROVE halt \in BOOLEAN
  BY DEF TradeInv, StoreTradeOK, TradeShape

LEMMA PrepareTrade ==
    ASSUME PathInv, PathInv', TradeInv, NEW p \in Proc, NEW s \in Signal, Prepare(p, s)
    PROVE  TradeInv'
<1>1. /\ pc[p] = "idle" /\ pc[p] \in Unlocked /\ SameBooks /\ act' = act /\ view' = view
      /\ UNCHANGED <<cycles, attempts, pending, applied, exits>>
      /\ halt' = (halt \/ pending # {})
  BY DEF Prepare, OwnerOpen, Unlocked, brokerVars, SameBooks, fileVars
<1>2. halt' \in BOOLEAN /\ (halt => halt')
  BY <1>1
<1>3. SameRows
  BY <1>1 DEF SameRows, SameRow
<1>4. CASE Goto(p, "prepared") /\ sig' = [sig EXCEPT ![p] = s]
  <2>1. \A q \in Proc : q # p => sig'[q] = sig[q]
    BY <1>4 DEF PathInv, Shape
  <2>2. UNCHANGED <<act, view, attempts, pending, applied, exits>> /\ "prepared" \in Unlocked
    BY <1>1 DEF Unlocked
  <2>. QED
    BY <1>1, <1>2, <1>3, <1>4, <2>1, <2>2, OutsiderTrade DEF Goto
<1>5. CASE UNCHANGED <<pc, sig>>
  <2>1. /\ exits' = [m \in Marker |-> exits'[m]] /\ exits'["completed"] = exits["completed"]
        /\ UNCHANGED <<pc, sig, act, view>> /\ UNCHANGED <<attempts, pending, applied>>
    BY <1>1, <1>5 DEF TradeInv, StoreTradeOK, TradeShape
  <2>. QED
    BY <1>1, <1>2, <1>3, <2>1, BesideTrade
<1>. QED
  BY <1>4, <1>5 DEF Prepare

LEMMA ReserveCycleTrade ==
    ASSUME PathInv, PathInv', TradeInv, NEW p \in Proc, ReserveCycle(p)
    PROVE  TradeInv'
<1>1. /\ pc[p] = "prepared" /\ pc[p] \in Unlocked /\ SameBooks /\ sig[p] \in Signal
      /\ UNCHANGED <<act, view, attempts, pending, applied, exits>> /\ halt' = halt
  BY DEF ReserveCycle, Reserve, Unlocked, storeVars, brokerVars, SameBooks, fileVars, PathInv,
     SessionOK
<1>2. halt' \in BOOLEAN /\ (halt => halt')
  BY <1>1, HaltTyped
<1>3. CASE ReserveAllowed(sig[p]) /\ Reserve(sig[p]) /\ Goto(p, "reserved") /\ UNCHANGED sig
  <2>1. SameRows /\ "reserved" \in Unlocked
    BY <1>1, <1>3, ReserveRows DEF Unlocked
  <2>. QED
    BY <1>1, <1>2, <1>3, <2>1, OutsiderTrade DEF Goto
<1>4. CASE Goto(p, "idle") /\ sig' = [sig EXCEPT ![p] = NoSignal] /\ UNCHANGED storeVars
  <2>1. SameRows /\ "idle" \in Unlocked /\ \A q \in Proc : q # p => sig'[q] = sig[q]
    BY <1>4 DEF SameRows, SameRow, storeVars, Unlocked, PathInv, Shape
  <2>. QED
    BY <1>1, <1>2, <1>4, <2>1, OutsiderTrade DEF Goto
<1>. QED
  BY <1>3, <1>4 DEF ReserveCycle

LEMMA IssuePermitTrade ==
    ASSUME PathInv, PathInv', TradeInv, NEW p \in Proc, IssuePermit(p)
    PROVE  TradeInv'
<1>1. /\ pc[p] = "reserved" /\ pc[p] \in Unlocked /\ SameBooks /\ sig' = sig
      /\ UNCHANGED <<act, view, attempts, pending, applied, exits>> /\ halt' = halt /\ SameRows
  BY DEF IssuePermit, Unlocked, storeVars, brokerVars, SameBooks, fileVars, SameRows, SameRow
<1>2. halt' \in BOOLEAN /\ (halt => halt')
  BY <1>1, HaltTyped
<1>3. PICK l \in {"permitted", "release"} : pc' = [pc EXCEPT ![p] = l]
  BY DEF IssuePermit, Goto
<1>4. l \in Unlocked
  BY DEF Unlocked
<1>. QED
  BY <1>1, <1>2, <1>3, <1>4, OutsiderTrade

LEMMA BindTrade ==
    ASSUME PathInv, PathInv', TradeInv, NEW p \in Proc, Bind(p)
    PROVE  TradeInv'
<1>1. /\ pc[p] = "permitted" /\ pc[p] \in Unlocked /\ SameBooks /\ sig' = sig
      /\ UNCHANGED <<attempts, pending, applied, exits>>
      /\ halt' = (halt \/ pending # {}) /\ SameRows
  BY DEF Bind, OwnerOpen, Unlocked, brokerVars, SameBooks, fileVars, SameRows, SameRow
<1>2. halt' \in BOOLEAN /\ (halt => halt')
  BY <1>1
<1>3. CASE Goto(p, "release") /\ UNCHANGED <<lock, act, view>>
  <2>1. "release" \in Unlocked /\ UNCHANGED <<act, view, attempts, pending, applied, exits>>
    BY <1>1, <1>3 DEF Unlocked
  <2>. QED
    BY <1>1, <1>2, <1>3, <2>1, OutsiderTrade DEF Goto
<1>4. CASE /\ lock = NoProc /\ Goto(p, "executions") /\ act' = "PREFLIGHT" /\ view' = NoView
  <2>1. StoreTradeOK'
    <3>1. /\ attempts' = attempts /\ pending' = pending /\ applied' = applied
          /\ exits' = exits /\ exits' = [m \in Marker |-> exits'[m]]
      BY <1>1 DEF TradeInv, StoreTradeOK, TradeShape
    <3>. QED
      BY <1>1, <1>2, <1>4, <3>1, NoViewTyped, StoreKept
  <2>2. ASSUME NEW q \in Proc, q # p PROVE pc'[q] \in Unlocked
    <3>1. pc'[q] = pc[q]
      BY <1>4, <2>2 DEF PathInv, Shape, Goto
    <3>2. ASSUME pc[q] \notin Unlocked PROVE FALSE
      BY <1>4, <3>2, HolderFacts, ActualPathAssumption
    <3>. QED
      BY <3>1, <3>2
  <2>3. pc'[p] = "executions"
    BY <1>4 DEF PathInv, Shape, Goto
  <2>4. LookOK(p)' /\ StageOK(p)'
    BY <1>4, <2>3
       DEF LookOK, StageOK, NoView, Seen, Looking, Reply, ExitStages, Market, Protect,
           CancelProtection, TimeExit
  <2>5. QuietOK(p)' /\ ExactOK(p)' /\ LatchedOK(p)'
    BY <1>4, <2>3
       DEF QuietOK, QuietStages, ExactOK, LatchedOK, Action, Market, CancelRemainder, Protect,
           CancelProtection, TimeExit
  <2>6. HolderTradeOK(p)'
    BY <2>4, <2>5 DEF HolderTradeOK
  <2>. QED
    BY <2>1, <2>2, <2>6 DEF TradeInv
<1>. QED
  BY <1>3, <1>4 DEF Bind

LEMMA ReleaseReservationTrade ==
    ASSUME PathInv, PathInv', TradeInv, NEW p \in Proc, ReleaseReservation(p)
    PROVE  TradeInv'
<1>1. /\ pc[p] = "release" /\ pc[p] \in Unlocked /\ SameBooks /\ sig[p] \in Signal
      /\ UNCHANGED <<act, view, attempts, pending, applied, exits>> /\ halt' = halt
      /\ Release(sig[p]) /\ Goto(p, "idle") /\ sig' = [sig EXCEPT ![p] = NoSignal]
  BY DEF ReleaseReservation, Release, Unlocked, brokerVars, SameBooks, fileVars, PathInv,
     SessionOK
<1>2. halt' \in BOOLEAN /\ (halt => halt')
  BY <1>1, HaltTyped
<1>3. SameRows
  BY <1>1, ReleaseRows
<1>4. "idle" \in Unlocked /\ \A q \in Proc : q # p => sig'[q] = sig[q]
  BY <1>1 DEF Unlocked, PathInv, Shape
<1>. QED
  BY <1>1, <1>2, <1>3, <1>4, OutsiderTrade DEF Goto

LEMMA CrashTrade ==
    ASSUME PathInv, PathInv', TradeInv, NEW p \in Proc, Crash(p)
    PROVE  TradeInv'
<1>1. /\ SameBooks /\ SameRows /\ UNCHANGED <<attempts, pending, applied, exits>>
      /\ halt' = halt /\ Goto(p, "idle") /\ sig' = [sig EXCEPT ![p] = NoSignal]
  BY DEF Crash, storeVars, brokerVars, SameBooks, fileVars, SameRows, SameRow
<1>2. halt' \in BOOLEAN /\ (halt => halt')
  BY <1>1, HaltTyped
<1>3. \A q \in Proc : q # p => sig'[q] = sig[q]
  BY <1>1 DEF PathInv, Shape
<1>4. CASE pc[p] \in Unlocked /\ UNCHANGED <<lock, act, view>>
  <2>1. UNCHANGED <<act, view, attempts, pending, applied, exits>> /\ "idle" \in Unlocked
    BY <1>1, <1>4 DEF Unlocked
  <2>. QED
    BY <1>1, <1>2, <1>3, <1>4, <2>1, OutsiderTrade DEF Goto
<1>5. CASE lock = p /\ Unlock
  <2>1. StoreTradeOK'
    <3>1. /\ attempts' = attempts /\ pending' = pending /\ applied' = applied
          /\ exits' = exits /\ exits' = [m \in Marker |-> exits'[m]] /\ view' = NoView
      BY <1>1, <1>5 DEF TradeInv, StoreTradeOK, TradeShape, Unlock
    <3>. QED
      BY <1>1, <1>2, <3>1, NoViewTyped, StoreKept
  <2>2. ASSUME NEW q \in Proc PROVE pc'[q] \in Unlocked
    <3>1. CASE q = p
      BY <1>1, <3>1 DEF PathInv, Shape, Goto, Unlocked
    <3>2. CASE q # p
      <4>1. pc'[q] = pc[q]
        BY <1>1, <3>2 DEF PathInv, Shape, Goto
      <4>2. ASSUME pc[q] \notin Unlocked PROVE FALSE
        BY <1>5, <3>2, <4>2, HolderFacts
      <4>. QED
        BY <4>1, <4>2
    <3>. QED
      BY <3>1, <3>2
  <2>. QED
    BY <2>1, <2>2 DEF TradeInv
<1>6. pc[p] \notin Unlocked => lock = p
  BY HolderFacts
<1>. QED
  BY <1>4, <1>5, <1>6 DEF Crash

LEMMA MonitorsTrade ==
    ASSUME PathInv, PathInv', TradeInv,
           \/ SupervisorTick \/ WeekendTargetMissed \/ ObserveAccount \/ ConsoleReconciles
           \/ Clock \/ UNCHANGED pathVars
    PROVE  TradeInv'
<1>1. /\ SameBooks /\ SameRows /\ UNCHANGED <<pc, sig, act, view>>
      /\ UNCHANGED <<attempts, pending, applied>>
  BY DEF SupervisorTick, WeekendTargetMissed, ObserveAccount, ConsoleReconciles,
     ReconcileExternalFlat, Clock, pathVars, storeVars, brokerVars, sessionVars, fileVars,
     SameBooks, SameRows, SameRow
<1>2. exits' = [m \in Marker |-> exits'[m]] /\ exits'["completed"] = exits["completed"]
  <2>1. CASE UNCHANGED exits
    BY <2>1 DEF TradeInv, StoreTradeOK, TradeShape
  <2>2. CASE \E d : Mark("required", d)
    <3>1. "required" \in Marker /\ "completed" \in Marker
      BY DEF Marker
    <3>. QED
      BY <2>2, <3>1, MarkFacts
  <2>. QED
    BY <2>1, <2>2 DEF SupervisorTick, WeekendTargetMissed, ObserveAccount, ConsoleReconciles,
       Clock, pathVars, fileVars
<1>3. halt' \in BOOLEAN /\ ("console" \notin Faults => (halt => halt'))
  <2>1. CASE SupervisorTick \/ WeekendTargetMissed
    BY <2>1 DEF SupervisorTick, WeekendTargetMissed, EngageHalt
  <2>2. CASE ConsoleReconciles
    BY <2>2 DEF ConsoleReconciles, ReconcileExternalFlat
  <2>3. CASE ObserveAccount \/ Clock \/ UNCHANGED pathVars
    <3>1. halt' = halt
      BY <2>3 DEF ObserveAccount, Clock, pathVars, storeVars
    <3>. QED
      BY <3>1, HaltTyped
  <2>. QED
    BY <2>1, <2>2, <2>3
<1>. QED
  BY <1>1, <1>2, <1>3, BesideTrade

(***************************************************************************)
(* What the account does on its own.                                       *)
(***************************************************************************)

\* One book moves, from book[s] to b, and what it never does then: hand back
\* what was opened, open more once there is a plan, or stir while nothing
\* works on it.
Moved(s, b) ==
    LET old == book[s]
        plan == cycles[s].plan
    IN
    /\ b \in BookType
    /\ book' = [book EXCEPT ![s] = b]
    /\ wire' \subseteq wire
    /\ wire' = wire \/ \E w \in wire : w.sig = s
    /\ b.opened >= old.opened
    /\ old.opened > 0 /\ old.pend = 0 => b.pend = 0
    /\ plan > 0 =>
          /\ b.opened = old.opened /\ b.pos <= old.pos
          /\ old.pos = 0 /\ old.oco = 0 => b.oco = 0
    /\ b.pos + b.pend > 0 => Exposed(s) \/ \E w \in wire : w.sig = s
    /\ wire = {} /\ old = EmptyBook => b = old
    /\ "slow" \notin Faults /\ "operator" \notin Faults /\ plan > 0 =>
          /\ wire = {} /\ old.oco = 0 => b = old
          /\ (\A w \in wire : w.act = CancelProtection) /\ (old.oco = 0 \/ wire # {}) =>
                b.oco = 0 \/ wire' # {}

\* At most one market order and one protection of a cycle are on the wire.
LEMMA OneOnWire ==
    ASSUME TradeInv, NEW v \in wire, NEW w \in wire, v.sig = w.sig, v.act = w.act,
           w.act \in {Market, Protect}
    PROVE  v = w
<1>1. v \in [sig : Signal, act : Action, size : Int] /\ w \in [sig : Signal, act : Action, size : Int]
  BY DEF TradeInv, StoreTradeOK, TradeShape
<1>2. v.size = w.size
  BY DEF TradeInv, StoreTradeOK, TradeShape
<1>. QED
  BY <1>1, <1>2

\* The book of a cycle and what its row says about it.
BookKnown(s) ==
    LET b == book[s]
    IN
    /\ BookOK(s) /\ RowOK(s)
    /\ cycles[s].plan \in Nat /\ cycles[s].confirmed \in BOOLEAN
    /\ b.pend \in Nat /\ b.opened \in Nat /\ b.pos \in Nat
    /\ b.oco \in Nat /\ b.closed \in Nat
    /\ b = [pend |-> b.pend, opened |-> b.opened, pos |-> b.pos, oco |-> b.oco,
             closed |-> b.closed]

LEMMA BookFacts ==
    ASSUME TradeInv, NEW s \in Signal
    PROVE  BookKnown(s) /\ book \in [Signal -> BookType]
<1>1. BookOK(s) /\ RowOK(s) /\ TradeShape
  BY DEF TradeInv, StoreTradeOK
<1>2. book[s] \in BookType
  BY <1>1 DEF TradeShape
<1>. QED
  BY <1>1, <1>2 DEF TradeShape, BookType, BookKnown

LEMMA BookMoved ==
    ASSUME TradeInv, NEW s \in Signal, NEW b, book' = [book EXCEPT ![s] = b]
    PROVE  book'[s] = b
  BY BookFacts

\* An order of this cycle leaves the wire.
OrderGone(w, s) ==
    /\ w \in wire /\ w.sig = s /\ wire' = wire \ {w} /\ UNCHANGED <<sent, cycles>>

Gone(w, s) ==
    /\ w.act \in Action /\ w.size \in Int
    /\ OnWire(s, w.act) /\ sent[<<s, w.act>>] = 1
    /\ w.act = Market => w.size = RequestedSize /\ ~OnWire(s, Market)'
    /\ w.act = Protect => w.size = cycles[s].plan /\ ~OnWire(s, Protect)'
    /\ OnWire(s, Market)' => OnWire(s, Market)
    /\ OnWire(s, Protect)' => OnWire(s, Protect)
    /\ wire # {} /\ (\E v \in wire : v.sig = s) /\ wire' \subseteq wire
    /\ w.act # CancelProtection => ~\A v \in wire : v.act = CancelProtection
    /\ sent' = sent /\ cycles' = cycles

LEMMA GoneFacts ==
    ASSUME TradeInv, NEW w, NEW s \in Signal, OrderGone(w, s)
    PROVE  Gone(w, s)
<1>1. /\ w \in wire /\ w.sig = s /\ wire' = wire \ {w} /\ sent' = sent /\ cycles' = cycles
      /\ w \in [sig : Signal, act : Action, size : Int]
  BY DEF OrderGone, TradeInv, StoreTradeOK, TradeShape
<1>2. /\ w.act = Market => ~OnWire(s, Market)'
      /\ w.act = Protect => ~OnWire(s, Protect)'
  BY <1>1, OneOnWire DEF OnWire
<1>3. /\ OnWire(s, Market)' => OnWire(s, Market)
      /\ OnWire(s, Protect)' => OnWire(s, Protect)
  BY <1>1 DEF OnWire
<1>4. OnWire(s, w.act) /\ \E v \in wire : v.sig = s
  BY <1>1 DEF OnWire
<1>5. /\ sent[<<s, w.act>>] = 1
      /\ w.act = Market => w.size = RequestedSize
      /\ w.act = Protect => w.size = cycles[s].plan
  BY <1>1 DEF TradeInv, StoreTradeOK, TradeShape
<1>. QED
  BY <1>1, <1>2, <1>3, <1>4, <1>5 DEF Gone

LEMMA LateOrderMoves ==
    ASSUME TradeInv, NEW w, NEW s \in Signal, OrderGone(w, s), "slow" \in Faults,
           NEW b, b = book[s], book' = [book EXCEPT ![s] = b]
    PROVE  Moved(s, b) /\ BookOK(s)'
<1>0. BookKnown(s) /\ Gone(w, s) /\ book'[s] = b
  BY BookFacts, GoneFacts, BookMoved
<1>1. b \in BookType /\ book'[s] = b /\ wire' \subseteq wire
  BY <1>0, BookFacts DEF Gone
<1>2. Moved(s, b)
  BY <1>0, <1>1 DEF BookKnown, Gone, Moved, Exposed
<1>. QED
  BY <1>0, <1>1, <1>2 DEF BookKnown, Gone, BookOK

LEMMA MarketMoves ==
    ASSUME TradeInv, NEW w, NEW s \in Signal, OrderGone(w, s), w.act = Market,
           NEW f \in 0..w.size, NEW rest \in {0, w.size - f}, NEW b,
           b = [pend |-> rest, opened |-> f, pos |-> f, oco |-> book[s].oco,
                closed |-> book[s].closed],
           book' = [book EXCEPT ![s] = b]
    PROVE  Moved(s, b) /\ BookOK(s)'
<1>0. BookKnown(s) /\ Gone(w, s) /\ book'[s] = b
  BY BookFacts, GoneFacts, BookMoved
<1>1. book[s] = EmptyBook /\ ~OnWire(s, Market)' /\ sent[<<s, Market>>] = 1
  BY <1>0 DEF BookKnown, Gone, BookOK
<1>2. b = [pend |-> rest, opened |-> f, pos |-> f, oco |-> 0, closed |-> 0]
  BY <1>0, <1>1 DEF BookKnown, Gone, EmptyBook
<1>3. f \in Nat /\ rest \in Nat
  BY <1>0, ActualStoreAssumption DEF Gone
<1>4. b \in BookType /\ book'[s] = b /\ wire' \subseteq wire
  BY <1>0, <1>2, <1>3 DEF BookKnown, Gone, BookType
<1>5. /\ cycles[s].plan = 0 /\ cycles[s].confirmed = FALSE /\ cycles[s].loss = NoLoss
      /\ sent[<<s, TimeExit>>] = 0
  BY <1>0, <1>1 DEF BookKnown, Gone, BookOK, EmptyBook
<1>6. Moved(s, b)
  BY <1>0, <1>1, <1>2, <1>3, <1>4, <1>5 DEF BookKnown, Gone, Moved, EmptyBook
<1>7. BookOK(s)'
  BY <1>0, <1>1, <1>2, <1>3, <1>4, <1>5 DEF BookKnown, Gone, BookOK
<1>. QED
  BY <1>6, <1>7

LEMMA CancelRemainderMoves ==
    ASSUME TradeInv, NEW w, NEW s \in Signal, OrderGone(w, s), w.act = CancelRemainder,
           NEW b, b = [pend |-> 0, opened |-> book[s].opened,
                    pos |-> book[s].pos, oco |-> book[s].oco,
                    closed |-> book[s].closed],
           book' = [book EXCEPT ![s] = b]
    PROVE  Moved(s, b) /\ BookOK(s)'
<1>0. BookKnown(s) /\ Gone(w, s) /\ book'[s] = b
  BY BookFacts, GoneFacts, BookMoved
<1>1. /\ b.pend = 0 /\ b.opened = book[s].opened /\ b.pos = book[s].pos
      /\ b.oco = book[s].oco /\ b.closed = book[s].closed
  OBVIOUS
<1>2. b \in BookType /\ book'[s] = b /\ wire' \subseteq wire
  BY <1>0, <1>1 DEF BookKnown, Gone, BookType
<1>3. Moved(s, b)
  <2>1. \E v \in wire : v.act # CancelProtection
    BY <1>0 DEF BookKnown, Gone, CancelRemainder, CancelProtection
  <2>. QED
    BY <1>0, <1>1, <1>2, <2>1 DEF BookKnown, Gone, Moved
<1>4. BookOK(s)'
  BY <1>0, <1>1, <1>2 DEF BookKnown, Gone, BookOK, EmptyBook
<1>. QED
  BY <1>3, <1>4

LEMMA ProtectMoves ==
    ASSUME TradeInv, NEW w, NEW s \in Signal, OrderGone(w, s), w.act = Protect,
           NEW n \in 0..Smaller(w.size, book[s].pos),
           NEW b, b = [pend |-> book[s].pend, opened |-> book[s].opened,
                    pos |-> book[s].pos, oco |-> n,
                    closed |-> book[s].closed],
           book' = [book EXCEPT ![s] = b]
    PROVE  Moved(s, b) /\ BookOK(s)'
<1>0. BookKnown(s) /\ Gone(w, s) /\ book'[s] = b
  BY BookFacts, GoneFacts, BookMoved
<1>1. /\ b.pend = book[s].pend /\ b.opened = book[s].opened /\ b.pos = book[s].pos
      /\ b.oco = n /\ b.closed = book[s].closed
  OBVIOUS
<1>2. n \in Nat /\ n <= cycles[s].plan /\ n <= book[s].pos
  BY <1>0 DEF BookKnown, Gone, Smaller
<1>3. b \in BookType /\ book'[s] = b /\ wire' \subseteq wire
  BY <1>0, <1>1, <1>2 DEF BookKnown, Gone, BookType
<1>4. Moved(s, b)
  <2>1. \E v \in wire : v.act # CancelProtection
    BY <1>0 DEF BookKnown, Gone, Protect, CancelProtection
  <2>. QED
    BY <1>0, <1>1, <1>2, <1>3, <2>1 DEF BookKnown, Gone, Moved
<1>5. ~OnWire(s, Protect)' /\ OnWire(s, Protect) /\ sent[<<s, Protect>>] = 1
  BY <1>0 DEF Gone
<1>6. BookOK(s)'
  BY <1>0, <1>1, <1>2, <1>3, <1>5 DEF BookKnown, Gone, BookOK, EmptyBook
<1>. QED
  BY <1>4, <1>6

LEMMA CancelProtectionMoves ==
    ASSUME TradeInv, NEW w, NEW s \in Signal, OrderGone(w, s), w.act = CancelProtection,
           NEW b, b = [pend |-> book[s].pend, opened |-> book[s].opened,
                    pos |-> book[s].pos, oco |-> 0,
                    closed |-> book[s].closed],
           book' = [book EXCEPT ![s] = b]
    PROVE  Moved(s, b) /\ BookOK(s)'
<1>0. BookKnown(s) /\ Gone(w, s) /\ book'[s] = b
  BY BookFacts, GoneFacts, BookMoved
<1>1. /\ b.pend = book[s].pend /\ b.opened = book[s].opened /\ b.pos = book[s].pos
      /\ b.oco = 0 /\ b.closed = book[s].closed
  OBVIOUS
<1>2. b \in BookType /\ book'[s] = b /\ wire' \subseteq wire
  BY <1>0, <1>1 DEF BookKnown, Gone, BookType
<1>3. Moved(s, b)
  BY <1>0, <1>1, <1>2 DEF BookKnown, Gone, Moved
<1>4. BookOK(s)'
  BY <1>0, <1>1, <1>2 DEF BookKnown, Gone, BookOK, EmptyBook
<1>. QED
  BY <1>3, <1>4

LEMMA TimeExitMoves ==
    ASSUME TradeInv, NEW w, NEW s \in Signal, OrderGone(w, s), w.act = TimeExit,
           NEW n \in 0..Smaller(w.size, book[s].pos),
           NEW b, b = [pend |-> book[s].pend, opened |-> book[s].opened,
                    pos |-> book[s].pos - n, oco |-> book[s].oco,
                    closed |-> book[s].closed + n],
           book' = [book EXCEPT ![s] = b]
    PROVE  Moved(s, b) /\ BookOK(s)'
<1>0. BookKnown(s) /\ Gone(w, s) /\ book'[s] = b
  BY BookFacts, GoneFacts, BookMoved
<1>1. /\ b.pend = book[s].pend /\ b.opened = book[s].opened /\ b.pos = book[s].pos - n
      /\ b.oco = book[s].oco /\ b.closed = book[s].closed + n
  OBVIOUS
<1>2. n \in Nat /\ n <= book[s].pos
  BY <1>0 DEF BookKnown, Gone, Smaller
<1>3. b \in BookType /\ book'[s] = b /\ wire' \subseteq wire
  BY <1>0, <1>1, <1>2 DEF BookKnown, Gone, BookType
<1>4. /\ cycles[s].confirmed /\ cycles[s].plan > 0 /\ book[s] # EmptyBook
      /\ sent[<<s, Market>>] # 0 /\ ~OnWire(s, Market)
  BY <1>0 DEF BookKnown, Gone, BookOK, EmptyBook
<1>5. Moved(s, b)
  <2>1. \E v \in wire : v.act # CancelProtection
    BY <1>0 DEF BookKnown, Gone, TimeExit, CancelProtection
  <2>. QED
    BY <1>0, <1>1, <1>2, <1>3, <2>1 DEF BookKnown, Gone, Moved
<1>6. BookOK(s)'
  BY <1>0, <1>1, <1>2, <1>3, <1>4 DEF BookKnown, Gone, BookOK
<1>. QED
  BY <1>5, <1>6

LEMMA EffectFacts ==
    ASSUME NEW p, NEW o, NEW x, NEW k, NEW d, NEW w, NEW b,
           b \in Effects([pend |-> p, opened |-> o, pos |-> x, oco |-> k, closed |-> d], w),
           ~("slow" \in Faults
               /\ b = [pend |-> p, opened |-> o, pos |-> x, oco |-> k, closed |-> d])
    PROVE  /\ w.act = Market =>
                 \E f \in 0..w.size : \E rest \in {0, w.size - f} :
                    b = [pend |-> rest, opened |-> f, pos |-> f, oco |-> k, closed |-> d]
           /\ w.act = CancelRemainder =>
                 b = [pend |-> 0, opened |-> o, pos |-> x, oco |-> k, closed |-> d]
           /\ w.act = Protect =>
                 \E n \in 0..Smaller(w.size, x) :
                    b = [pend |-> p, opened |-> o, pos |-> x, oco |-> n, closed |-> d]
           /\ w.act = CancelProtection =>
                 b = [pend |-> p, opened |-> o, pos |-> x, oco |-> 0, closed |-> d]
           /\ w.act = TimeExit =>
                 \E n \in 0..Smaller(w.size, x) :
                    b = [pend |-> p, opened |-> o, pos |-> x - n, oco |-> k, closed |-> d + n]
<1>1. CASE w.act = Market
  <2>1. b \in UNION {{[[pend |-> p, opened |-> o, pos |-> x, oco |-> k, closed |-> d]
                          EXCEPT !.opened = f, !.pos = f, !.pend = rest] :
                            rest \in {0, w.size - f}} : f \in 0..w.size}
    BY <1>1 DEF Effects, CancelRemainder, Market, Protect, CancelProtection, TimeExit
  <2>2. PICK f \in 0..w.size : \E rest \in {0, w.size - f} :
          b = [[pend |-> p, opened |-> o, pos |-> x, oco |-> k, closed |-> d]
                  EXCEPT !.opened = f, !.pos = f, !.pend = rest]
    BY <2>1, Zenon
  <2>3. PICK rest \in {0, w.size - f} :
          b = [[pend |-> p, opened |-> o, pos |-> x, oco |-> k, closed |-> d]
                  EXCEPT !.opened = f, !.pos = f, !.pend = rest]
    BY <2>2
  <2>4. b = [pend |-> rest, opened |-> f, pos |-> f, oco |-> k, closed |-> d]
    BY <2>3
  <2>. QED
    BY <1>1, <2>4 DEF CancelRemainder, Market, Protect, CancelProtection, TimeExit
<1>2. CASE w.act = CancelRemainder
  BY <1>2 DEF Effects, CancelRemainder, Market, Protect, CancelProtection, TimeExit
<1>3. CASE w.act = Protect
  BY <1>3 DEF Effects, CancelRemainder, Market, Protect, CancelProtection, TimeExit
<1>4. CASE w.act = CancelProtection
  BY <1>4 DEF Effects, CancelRemainder, Market, Protect, CancelProtection, TimeExit
<1>5. CASE w.act = TimeExit
  BY <1>5 DEF Effects, CancelRemainder, Market, Protect, CancelProtection, TimeExit
<1>. QED
  BY <1>1, <1>2, <1>3, <1>4, <1>5

LEMMA OrderMoves ==
    ASSUME TradeInv, OrderTakesEffect, UNCHANGED cycles
    PROVE  \E s \in Signal : \E b : Moved(s, b) /\ BookOK(s)'
<1>1. PICK w \in wire : \E b \in Effects(book[w.sig], w) :
          wire' = wire \ {w} /\ book' = [book EXCEPT ![w.sig] = b]
  BY DEF OrderTakesEffect
<1>2. PICK s \in Signal : s = w.sig
  BY DEF TradeInv, StoreTradeOK, TradeShape
<1>3. PICK b \in Effects(book[s], w) : wire' = wire \ {w} /\ book' = [book EXCEPT ![s] = b]
  BY <1>1, <1>2
<1>4. OrderGone(w, s)
  BY <1>2, <1>3 DEF OrderGone, OrderTakesEffect
<1>5. w.act \in Action
  BY <1>4, GoneFacts DEF Gone
<1>6. PICK p, o, x, k, d :
        /\ p = book[s].pend /\ o = book[s].opened /\ x = book[s].pos
        /\ k = book[s].oco /\ d = book[s].closed
  OBVIOUS
<1>7. book[s] = [pend |-> p, opened |-> o, pos |-> x, oco |-> k, closed |-> d]
  BY <1>6, BookFacts DEF BookKnown
<1>8. CASE "slow" \in Faults /\ b = book[s]
  BY <1>3, <1>4, <1>8, LateOrderMoves
<1>9. ASSUME ~("slow" \in Faults /\ b = book[s]) PROVE Moved(s, b) /\ BookOK(s)'
  <2>0. /\ b \in Effects([pend |-> p, opened |-> o, pos |-> x, oco |-> k, closed |-> d], w)
        /\ ~("slow" \in Faults
                /\ b = [pend |-> p, opened |-> o, pos |-> x, oco |-> k, closed |-> d])
    BY <1>3, <1>7, <1>9
  <2>1. CASE w.act = Market
    <3>1. PICK f \in 0..w.size : \E rest \in {0, w.size - f} :
            b = [pend |-> rest, opened |-> f, pos |-> f, oco |-> k, closed |-> d]
      BY <2>0, <2>1, EffectFacts
    <3>2. PICK rest \in {0, w.size - f} :
            b = [pend |-> rest, opened |-> f, pos |-> f, oco |-> k, closed |-> d]
      BY <3>1
    <3>. QED
      BY <1>3, <1>4, <1>6, <2>1, <3>2, MarketMoves
  <2>2. CASE w.act = CancelRemainder
    <3>1. b = [pend |-> 0, opened |-> o, pos |-> x, oco |-> k, closed |-> d]
      BY <2>0, <2>2, EffectFacts
    <3>. QED
      BY <1>3, <1>4, <1>6, <2>2, <3>1, CancelRemainderMoves
  <2>3. CASE w.act = Protect
    <3>1. PICK n \in 0..Smaller(w.size, x) :
            b = [pend |-> p, opened |-> o, pos |-> x, oco |-> n, closed |-> d]
      BY <2>0, <2>3, EffectFacts
    <3>. QED
      BY <1>3, <1>4, <1>6, <2>3, <3>1, ProtectMoves
  <2>4. CASE w.act = CancelProtection
    <3>1. b = [pend |-> p, opened |-> o, pos |-> x, oco |-> 0, closed |-> d]
      BY <2>0, <2>4, EffectFacts
    <3>. QED
      BY <1>3, <1>4, <1>6, <2>4, <3>1, CancelProtectionMoves
  <2>5. CASE w.act = TimeExit
    <3>1. PICK n \in 0..Smaller(w.size, x) :
            b = [pend |-> p, opened |-> o, pos |-> x - n, oco |-> k, closed |-> d + n]
      BY <2>0, <2>5, EffectFacts
    <3>. QED
      BY <1>3, <1>4, <1>6, <2>5, <3>1, TimeExitMoves
  <2>. QED
    BY <1>5, <2>1, <2>2, <2>3, <2>4, <2>5 DEF Action
<1>. QED
  BY <1>8, <1>9

\* Nothing leaves the wire.
LEMMA RemainderMoves ==
    ASSUME TradeInv, RemainderFills, UNCHANGED cycles
    PROVE  \E s \in Signal : \E b : Moved(s, b) /\ BookOK(s)'
<1>1. PICK s \in Signal : \E n \in 1..book[s].pend :
        book' = [book EXCEPT ![s].pend = @ - n, ![s].opened = @ + n, ![s].pos = @ + n]
  BY DEF RemainderFills
<1>2. PICK n \in 1..book[s].pend :
        book' = [book EXCEPT ![s].pend = @ - n, ![s].opened = @ + n, ![s].pos = @ + n]
  BY <1>1
<1>3. PICK b : b = [pend |-> book[s].pend - n, opened |-> book[s].opened + n,
                    pos |-> book[s].pos + n, oco |-> book[s].oco, closed |-> book[s].closed]
  OBVIOUS
<1>4. book' = [book EXCEPT ![s] = b]
  <2>1. PICK p, o, x, k, d :
          /\ p = book[s].pend /\ o = book[s].opened /\ x = book[s].pos
          /\ k = book[s].oco /\ d = book[s].closed
    OBVIOUS
  <2>2. /\ book[s] = [pend |-> p, opened |-> o, pos |-> x, oco |-> k, closed |-> d]
        /\ book = [t \in Signal |-> book[t]]
    BY <2>1, BookFacts DEF BookKnown
  <2>3. PICK c : c = [[[book[s]
                EXCEPT !.pend = @ - n] EXCEPT !.opened = @ + n] EXCEPT !.pos = @ + n]
    OBVIOUS
  <2>4. book' = [book EXCEPT ![s] = c]
    BY <1>2, <2>2, <2>3
  <2>5. c = [[[[pend |-> p, opened |-> o, pos |-> x, oco |-> k, closed |-> d]
                EXCEPT !.pend = @ - n] EXCEPT !.opened = @ + n] EXCEPT !.pos = @ + n]
    BY <2>2, <2>3
  <2>6. c = [pend |-> p - n, opened |-> o + n, pos |-> x + n, oco |-> k, closed |-> d]
    BY <2>5
  <2>. QED
    BY <1>3, <2>1, <2>4, <2>6
<1>5. BookKnown(s) /\ book'[s] = b /\ wire' = wire /\ sent' = sent /\ cycles' = cycles
  BY <1>4, BookFacts, BookMoved DEF RemainderFills
<1>6. /\ b.pend = book[s].pend - n /\ b.opened = book[s].opened + n
      /\ b.pos = book[s].pos + n /\ b.oco = book[s].oco /\ b.closed = book[s].closed
  BY <1>3
<1>7. n \in Nat /\ n > 0 /\ n <= book[s].pend
  BY <1>5 DEF BookKnown
<1>8. b \in BookType
  BY <1>3, <1>5, <1>7 DEF BookKnown, BookType
<1>9. cycles[s].plan = 0 /\ book[s] # EmptyBook /\ ~cycles[s].confirmed
  BY <1>5, <1>7 DEF BookKnown, BookOK, EmptyBook
<1>10. Moved(s, b)
  BY <1>4, <1>5, <1>6, <1>7, <1>8, <1>9 DEF BookKnown, Moved, Exposed
<1>11. BookOK(s)'
  BY <1>5, <1>6, <1>7, <1>9 DEF BookKnown, BookOK, OnWire
<1>. QED
  BY <1>10, <1>11

LEMMA OcoMoves ==
    ASSUME TradeInv, OcoFires, UNCHANGED cycles
    PROVE  \E s \in Signal : \E b : Moved(s, b) /\ BookOK(s)'
<1>1. PICK s \in Signal : \E n \in 1..Smaller(book[s].oco, book[s].pos) :
        book' = [book EXCEPT ![s].oco = @ - n, ![s].pos = @ - n, ![s].closed = @ + n]
  BY DEF OcoFires
<1>2. PICK n \in 1..Smaller(book[s].oco, book[s].pos) :
        book' = [book EXCEPT ![s].oco = @ - n, ![s].pos = @ - n, ![s].closed = @ + n]
  BY <1>1
<1>3. PICK b : b = [pend |-> book[s].pend, opened |-> book[s].opened,
                    pos |-> book[s].pos - n, oco |-> book[s].oco - n,
                    closed |-> book[s].closed + n]
  OBVIOUS
<1>4. book' = [book EXCEPT ![s] = b]
  <2>1. PICK p, o, x, k, d :
          /\ p = book[s].pend /\ o = book[s].opened /\ x = book[s].pos
          /\ k = book[s].oco /\ d = book[s].closed
    OBVIOUS
  <2>2. /\ book[s] = [pend |-> p, opened |-> o, pos |-> x, oco |-> k, closed |-> d]
        /\ book = [t \in Signal |-> book[t]]
    BY <2>1, BookFacts DEF BookKnown
  <2>3. PICK c : c = [[[book[s]
                EXCEPT !.oco = @ - n] EXCEPT !.pos = @ - n] EXCEPT !.closed = @ + n]
    OBVIOUS
  <2>4. book' = [book EXCEPT ![s] = c]
    BY <1>2, <2>2, <2>3
  <2>5. c = [[[[pend |-> p, opened |-> o, pos |-> x, oco |-> k, closed |-> d]
                EXCEPT !.oco = @ - n] EXCEPT !.pos = @ - n] EXCEPT !.closed = @ + n]
    BY <2>2, <2>3
  <2>6. c = [pend |-> p, opened |-> o, pos |-> x - n, oco |-> k - n, closed |-> d + n]
    BY <2>5
  <2>. QED
    BY <1>3, <2>1, <2>4, <2>6
<1>5. BookKnown(s) /\ book'[s] = b /\ wire' = wire /\ sent' = sent /\ cycles' = cycles
  BY <1>4, BookFacts, BookMoved DEF OcoFires
<1>6. /\ b.pend = book[s].pend /\ b.opened = book[s].opened /\ b.pos = book[s].pos - n
      /\ b.oco = book[s].oco - n /\ b.closed = book[s].closed + n
  BY <1>3
<1>7. n \in Nat /\ n > 0 /\ n <= book[s].oco /\ n <= book[s].pos
  BY <1>5 DEF BookKnown, Smaller
<1>8. b \in BookType
  BY <1>3, <1>5, <1>7 DEF BookKnown, BookType
<1>9. cycles[s].plan > 0 /\ book[s] # EmptyBook /\ book[s].oco > 0
  BY <1>5, <1>7 DEF BookKnown, BookOK, EmptyBook
<1>10. Moved(s, b)
  BY <1>4, <1>5, <1>6, <1>7, <1>8, <1>9 DEF BookKnown, Moved, Exposed
<1>11. BookOK(s)'
  BY <1>5, <1>6, <1>7, <1>9 DEF BookKnown, BookOK, OnWire
<1>. QED
  BY <1>10, <1>11

LEMMA OperatorMoves ==
    ASSUME TradeInv, "operator" \in Faults, OperatorFlattens, UNCHANGED cycles
    PROVE  \E s \in Signal : \E b : Moved(s, b) /\ BookOK(s)'
<1>1. PICK s \in Signal :
        /\ book[s].pos + book[s].pend > 0
        /\ book' = [book EXCEPT ![s].pos = 0, ![s].pend = 0, ![s].oco = 0]
  BY DEF OperatorFlattens
<1>2. PICK b : b = [pend |-> 0, opened |-> book[s].opened, pos |-> 0, oco |-> 0,
                    closed |-> book[s].closed]
  OBVIOUS
<1>3. book' = [book EXCEPT ![s] = b]
  <2>1. PICK p, o, x, k, d :
          /\ p = book[s].pend /\ o = book[s].opened /\ x = book[s].pos
          /\ k = book[s].oco /\ d = book[s].closed
    OBVIOUS
  <2>2. /\ book[s] = [pend |-> p, opened |-> o, pos |-> x, oco |-> k, closed |-> d]
        /\ book = [t \in Signal |-> book[t]]
    BY <2>1, BookFacts DEF BookKnown
  <2>3. PICK c : c = [[[book[s]
                EXCEPT !.pos = 0] EXCEPT !.pend = 0] EXCEPT !.oco = 0]
    OBVIOUS
  <2>4. book' = [book EXCEPT ![s] = c]
    BY <1>1, <2>2, <2>3
  <2>5. c = [[[[pend |-> p, opened |-> o, pos |-> x, oco |-> k, closed |-> d]
                EXCEPT !.pos = 0] EXCEPT !.pend = 0] EXCEPT !.oco = 0]
    BY <2>2, <2>3
  <2>6. c = [pend |-> 0, opened |-> o, pos |-> 0, oco |-> 0, closed |-> d]
    BY <2>5
  <2>. QED
    BY <1>2, <2>1, <2>4, <2>6
<1>4. BookKnown(s) /\ book'[s] = b /\ wire' = wire /\ sent' = sent /\ cycles' = cycles
  BY <1>3, BookFacts, BookMoved DEF OperatorFlattens
<1>5. /\ b.pend = 0 /\ b.opened = book[s].opened /\ b.pos = 0
      /\ b.oco = 0 /\ b.closed = book[s].closed
  BY <1>2
<1>6. b \in BookType
  BY <1>2, <1>4 DEF BookKnown, BookType
<1>7. book[s] # EmptyBook
  BY <1>1 DEF EmptyBook
<1>8. Moved(s, b)
  BY <1>3, <1>4, <1>5, <1>6, <1>7 DEF BookKnown, Moved, Exposed
<1>9. BookOK(s)'
  BY <1>4, <1>5, <1>7 DEF BookKnown, BookOK, OnWire
<1>. QED
  BY <1>8, <1>9

LEMMA BrokerMoves ==
    ASSUME TradeInv, BrokerStep
    PROVE  \E s \in Signal : \E b : Moved(s, b) /\ BookOK(s)'
<1>1. UNCHANGED cycles
  BY DEF BrokerStep, storeVars
<1>. QED
  BY <1>1, OrderMoves, RemainderMoves, OcoMoves, OperatorMoves DEF BrokerStep

\* Everything but the wire and the books stays.
OnlyAccount ==
    /\ cycles' = cycles /\ attempts' = attempts /\ halt' = halt /\ pending' = pending
    /\ pc' = pc /\ sig' = sig /\ act' = act /\ view' = view
    /\ applied' = applied /\ exits' = exits /\ sent' = sent

LEMMA BrokerLeaves == ASSUME BrokerStep PROVE OnlyAccount
  BY DEF BrokerStep, OnlyAccount, storeVars, sessionVars, fileVars, OrderTakesEffect,
     RemainderFills, OcoFires, OperatorFlattens

LEMMA MovedStore ==
    ASSUME PathInv, TradeInv, OnlyAccount, NEW s \in Signal, NEW b, Moved(s, b), BookOK(s)'
    PROVE  StoreTradeOK'
<1>1. /\ book' = [book EXCEPT ![s] = b] /\ wire' \subseteq wire /\ b \in BookType
      /\ b.pos + b.pend > 0 => Exposed(s) \/ \E w \in wire : w.sig = s
  BY DEF Moved
<1>2. TradeShape /\ CompletedOK /\ (\A t \in Signal : BookOK(t) /\ RowOK(t))
      /\ ("slow" \notin Faults => WireIsMarked) /\ ("console" \notin Faults => Remembered)
  BY DEF TradeInv, StoreTradeOK
<1>3. book'[s] = b /\ \A t \in Signal : t # s => book'[t] = book[t]
  BY <1>1, <1>2 DEF TradeShape
<1>4. TradeShape'
  BY <1>1, <1>2 DEF TradeShape, OnlyAccount
<1>5. ASSUME NEW t \in Signal PROVE BookOK(t)' /\ RowOK(t)'
  <2>1. RowOK(t)'
    BY <1>2 DEF RowOK, OnlyAccount
  <2>2. CASE t # s
    <3>1. /\ BookOK(t) /\ book'[t] = book[t]
          /\ OnWire(t, Market)' => OnWire(t, Market)
          /\ OnWire(t, Protect)' => OnWire(t, Protect)
      BY <1>1, <1>2, <1>3, <2>2 DEF OnWire
    <3>2. BookOK(t)'
      BY <3>1 DEF BookOK, OnlyAccount
    <3>. QED
      BY <2>1, <3>2
  <2>. QED
    BY <2>1, <2>2
<1>6. CompletedOK'
  <2>1. \A t \in Signal : EntryDay(t)' = EntryDay(t)
    BY DEF OnlyAccount, EntryDay, Day
  <2>. QED
    BY <1>2, <2>1 DEF CompletedOK, OnlyAccount
<1>7. "slow" \notin Faults => WireIsMarked'
  BY <1>1, <1>2 DEF WireIsMarked, OnlyAccount
<1>8. "console" \notin Faults => Remembered'
  <2> SUFFICES ASSUME "console" \notin Faults, NEW t \in Signal,
                      Exposed(t)' \/ \E w \in wire' : w.sig = t
               PROVE  halt' \/ \E a \in Action : pending' = {<<t, a>>}
    BY DEF Remembered
  <2>1. Exposed(t) \/ \E w \in wire : w.sig = t
    BY <1>1, <1>3 DEF Exposed
  <2>. QED
    BY <1>2, <2>1 DEF Remembered, OnlyAccount
<1>. QED
  BY <1>4, <1>5, <1>6, <1>7, <1>8 DEF StoreTradeOK

\* A book moves that is not the holder's: then no order was on the wire that
\* took effect, and the holder's own book is as it was.
LEMMA OtherMoved ==
    ASSUME PathInv, TradeInv, OnlyAccount, NEW s \in Signal, NEW b, Moved(s, b),
           NEW p \in Proc, pc[p] \notin Unlocked, sig[p] # s
    PROVE  wire' = wire /\ book'[sig[p]] = book[sig[p]]
<1>1. wire' = wire \/ \E w \in wire : w.sig = s
  BY DEF Moved
<1>2. sig[p] \in Signal /\ book \in [Signal -> BookType] /\ book' = [book EXCEPT ![s] = b]
  BY HolderFacts, BookFacts DEF Moved
<1>. QED
  BY <1>1, <1>2, WireOwned

LEMMA MovedHolder ==
    ASSUME PathInv, TradeInv, OnlyAccount, NEW s \in Signal, NEW b, Moved(s, b),
           NEW p \in Proc, pc[p] \notin Unlocked
    PROVE  HolderTradeOK(p)'
<1>1. HolderTradeOK(p) /\ book'[s] = b /\ wire' \subseteq wire
  BY BookMoved DEF TradeInv, Moved
<1>2. PICK t \in Signal : t = sig[p]
  BY HolderFacts
<1>3. BookKnown(t) /\ b \in BookType
  BY BookFacts DEF Moved
<1>4. pc'[p] = pc[p] /\ sig'[p] = t /\ act' = act /\ view' = view /\ halt' = halt
      /\ cycles' = cycles /\ attempts' = attempts /\ applied' = applied
  BY <1>2 DEF OnlyAccount
<1>5. StageOK(p)' /\ ("slow" \notin Faults => QuietOK(p)')
  BY <1>1, <1>2, <1>4 DEF HolderTradeOK, StageOK, QuietOK
<1>6. view.filled \in Nat /\ view.oco \in Nat /\ view.active \in BOOLEAN
  BY DEF TradeInv, StoreTradeOK, TradeShape, ViewType
<1>7. LookOK(p)'
  <2>1. CASE t # s
    <3>1. book'[t] = book[t]
      BY <1>2, <2>1, OtherMoved
    <3>. QED
      BY <1>1, <1>2, <1>4, <3>1 DEF HolderTradeOK, LookOK
  <2>2. CASE t = s
    <3>1. /\ book'[t] = b /\ b.opened >= book[t].opened
          /\ book[t].opened > 0 /\ book[t].pend = 0 => b.pend = 0
          /\ cycles[t].plan > 0 =>
                /\ b.opened = book[t].opened /\ b.pos <= book[t].pos
                /\ book[t].pos = 0 /\ book[t].oco = 0 => b.oco = 0
      BY <1>1, <2>2 DEF Moved
    <3>2. b.pend \in Nat /\ b.opened \in Nat /\ b.pos \in Nat /\ b.oco \in Nat
      BY <1>3 DEF BookType
    <3>. QED
      BY <1>1, <1>2, <1>3, <1>4, <1>6, <3>1, <3>2
         DEF HolderTradeOK, LookOK, BookKnown, Seen, Looking
  <2>. QED
    BY <2>1, <2>2
<1>8. ASSUME "slow" \notin Faults, "operator" \notin Faults PROVE ExactOK(p)'
  <2>1. CASE t # s
    <3>1. book'[t] = book[t] /\ wire' = wire
      BY <1>2, <2>1, OtherMoved
    <3>. QED
      BY <1>1, <1>2, <1>4, <1>8, <3>1 DEF HolderTradeOK, ExactOK
  <2>2. CASE t = s
    <3>1. cycles[t].plan > 0 =>
            /\ wire = {} /\ book[t].oco = 0 => b = book[t]
            /\ (\A w \in wire : w.act = CancelProtection)
                 /\ (book[t].oco = 0 \/ wire # {}) => b.oco = 0 \/ wire' # {}
      BY <1>8, <2>2 DEF Moved
    <3>2. book'[t] = b
      BY <1>1, <2>2
    <3>3. act \in {CancelProtection, TimeExit} => cycles[t].plan > 0
      BY <1>1, <1>2, <1>3
         DEF HolderTradeOK, StageOK, ExitStages, BookKnown, BookOK
    <3>4. pc[p] \in QuietStages => wire = {}
      BY <1>1, <1>8 DEF HolderTradeOK, QuietOK
    <3>5. ExactOK(p)
      BY <1>1, <1>8 DEF HolderTradeOK
    <3>6. act = CancelProtection /\ pc[p] \in {"ACCEPTED_SANITIZED", "executions"} =>
            /\ \A w \in wire' : w.sig = t /\ w.act = CancelProtection
            /\ b.oco = 0 \/ wire' # {}
      BY <1>1, <1>2, <3>1, <3>3, <3>5 DEF ExactOK
    <3>7. /\ act = CancelProtection /\ pc[p] \in {"positions", "orders", "recover"} => b.oco = 0
          /\ act = CancelProtection /\ pc[p] \in {"orders", "recover"} => b.pos = view.filled
          /\ act = TimeExit /\ pc[p] = "attempt" => b.oco = 0 /\ b.pos = view.filled
          /\ act = TimeExit /\ pc[p] = "post" =>
                b.oco = 0 /\ b.pos = cycles[t].settle /\ cycles[t].settle > 0
      BY <1>2, <3>1, <3>3, <3>4, <3>5 DEF ExactOK, QuietStages
    <3>. QED
      BY <1>4, <3>2, <3>6, <3>7 DEF ExactOK
  <2>. QED
    BY <2>1, <2>2
<1>9. ASSUME "console" \notin Faults PROVE LatchedOK(p)'
  <2>1. /\ act \in (Action \ {Market}) \cup {"EXIT"} => halt
        /\ pc[p] \in {"plan", "confirm", "drive", "claim"} => halt
        /\ act = Market /\ pc[p] \in {"charge", "post", "REJECTED_SANITIZED"} =>
             wire = {} /\ \A u \in Signal : book[u] = EmptyBook
    BY <1>1, <1>9 DEF HolderTradeOK, LatchedOK
  <2>2. act = Market /\ pc[p] \in {"charge", "post", "REJECTED_SANITIZED"} =>
          wire' = {} /\ \A u \in Signal : book'[u] = EmptyBook
    <3>1. /\ wire = {} /\ book[s] = EmptyBook => b = book[s]
          /\ book' = [book EXCEPT ![s] = b] /\ book \in [Signal -> BookType]
      BY BookFacts DEF Moved
    <3>. QED
      BY <1>1, <2>1, <3>1
  <2>. QED
    BY <1>4, <2>1, <2>2 DEF LatchedOK
<1>. QED
  BY <1>5, <1>7, <1>8, <1>9 DEF HolderTradeOK

LEMMA BrokerTrade ==
    ASSUME PathInv, TradeInv, BrokerStep
    PROVE  TradeInv'
<1>1. OnlyAccount
  BY BrokerLeaves
<1>2. PICK s \in Signal : \E b : Moved(s, b) /\ BookOK(s)'
  BY BrokerMoves
<1>3. PICK b : Moved(s, b) /\ BookOK(s)'
  BY <1>2
<1>4. StoreTradeOK'
  BY <1>1, <1>3, MovedStore
<1>5. ASSUME NEW p \in Proc, pc'[p] \notin Unlocked PROVE HolderTradeOK(p)'
  <2>1. pc[p] \notin Unlocked
    BY <1>1, <1>5 DEF OnlyAccount
  <2>. QED
    BY <1>1, <1>3, <2>1, MovedHolder
<1>. QED
  BY <1>4, <1>5 DEF TradeInv

(***************************************************************************)
(* The invariant holds.                                                    *)
(***************************************************************************)

LEMMA PathInitTrade ==
    ASSUME PathInit
    PROVE  TradeInv
<1>1. /\ cycles = [s \in Signal |-> NoRow] /\ attempts = {} /\ halt = FALSE /\ pending = {}
      /\ wire = {} /\ book = [s \in Signal |-> EmptyBook]
      /\ sent = [j \in Signal \X Action |-> 0]
      /\ pc = [p \in Proc |-> "idle"] /\ view = NoView
      /\ exits = [m \in Marker |-> {}]
  BY DEF PathInit, StoreInit, BrokerInit
<1>2. ASSUME NEW s \in Signal
      PROVE  cycles[s] = NoRow /\ book[s] = EmptyBook /\ \A a \in Action : sent[<<s, a>>] = 0
  BY <1>1
<1>3. EmptyBook \in BookType /\ Market \in Action /\ Protect \in Action /\ TimeExit \in Action
  BY DEF EmptyBook, BookType, Action
<1>4. TradeShape
  <2>1. book \in [Signal -> BookType] /\ exits = [m \in Marker |-> exits[m]]
    BY <1>1, <1>3
  <2>2. ASSUME NEW s \in Signal
        PROVE  cycles[s].plan \in Nat /\ cycles[s].settle \in Nat
               /\ cycles[s].confirmed \in BOOLEAN
    <3>1. cycles[s] = NoRow
      BY <1>2
    <3>. QED
      BY <3>1 DEF NoRow
  <2>. QED
    BY <1>1, <2>1, <2>2, NoViewTyped DEF TradeShape
<1>5. ASSUME NEW s \in Signal PROVE BookOK(s) /\ RowOK(s)
  BY <1>2, <1>3, <1>5, BlankRowFields DEF BookOK, RowOK, EmptyBook
<1>6. CompletedOK
  BY <1>1, <1>2, BlankRowFields DEF CompletedOK, Marker
<1>7. WireIsMarked /\ Remembered
  BY <1>1, <1>2 DEF WireIsMarked, Remembered, Exposed, EmptyBook
<1>8. \A p \in Proc : pc[p] \in Unlocked
  BY <1>1 DEF Unlocked
<1>. QED
  BY <1>4, <1>5, <1>6, <1>7, <1>8 DEF TradeInv, StoreTradeOK

LEMMA SessionStepTrade ==
    ASSUME PathInv, PathInv', TradeInv, NEW p \in Proc, SessionStep(p)
    PROVE  TradeInv'
<1>1. ASSUME NEW s \in Signal, Prepare(p, s) PROVE TradeInv'
  BY <1>1, PrepareTrade
<1>2. CASE ReserveCycle(p) \/ IssuePermit(p) \/ Bind(p) \/ ReleaseReservation(p)
  BY <1>2, ReserveCycleTrade, IssuePermitTrade, BindTrade, ReleaseReservationTrade
<1>3. CASE ReadExecutions(p) \/ ReadPositions(p) \/ ReadOrders(p) \/ Preflight(p)
  BY <1>3, ReadExecutionsTrade, ReadPositionsTrade, ReadOrdersTrade, PreflightTrade
<1>4. CASE AttemptMarket(p) \/ ChargeEntry(p) \/ Post(p) \/ Outcome(p) \/ Recover(p)
  BY <1>4, AttemptMarketTrade, ChargeEntryTrade, PostTrade, OutcomeTrade, RecoverTrade
<1>5. CASE PersistPlan(p) \/ Attempt(p) \/ Confirm(p) \/ Drive(p) \/ Claim(p)
  BY <1>5, PersistPlanTrade, AttemptTrade, ConfirmTrade, DriveTrade, ClaimTrade
<1>6. CASE Exit(p) \/ RecordMetrics(p) \/ ApplyResult(p) \/ CompleteExit(p) \/ FailExit(p)
  BY <1>6, ExitTrade, RecordMetricsTrade, ApplyResultTrade, CompleteExitTrade, FailExitTrade
<1>. QED
  BY <1>1, <1>2, <1>3, <1>4, <1>5, <1>6 DEF SessionStep

LEMMA PathStepTrade ==
    ASSUME PathInv, TradeInv, [PathNext]_pathVars
    PROVE  TradeInv'
<1>1. PathInv'
  BY PathStepKeeps
<1>2. ASSUME NEW p \in Proc, SessionStep(p) PROVE TradeInv'
  BY <1>1, <1>2, SessionStepTrade
<1>3. ASSUME NEW p \in Proc, Crash(p) PROVE TradeInv'
  BY <1>1, <1>3, CrashTrade
<1>4. CASE BrokerStep
  BY <1>4, BrokerTrade
<1>5. CASE \/ SupervisorTick \/ WeekendTargetMissed \/ ObserveAccount \/ ConsoleReconciles
           \/ Clock \/ UNCHANGED pathVars
  BY <1>1, <1>5, MonitorsTrade
<1>. QED
  BY <1>2, <1>3, <1>4, <1>5 DEF PathNext

LEMMA TradeInvHolds == PathSpec => []TradeInv
<1>1. PathInit => TradeInv
  BY PathInitTrade
<1>2. PathInv /\ TradeInv /\ [PathNext]_pathVars => TradeInv'
  BY PathStepTrade
<1>. QED
  BY <1>1, <1>2, PathInvHolds, PTL DEF PathSpec

(***************************************************************************)
(* The theorems.                                                           *)
(***************************************************************************)

\* Three GETs that fills may fall between are enough to confirm: the OCO that
\* the last one shows has the size of the plan, the plan is the position of
\* the first look, and what was ever opened cannot be more.  Whatever goes
\* wrong, a confirmed protection covers the whole entry
\* (confirm_exact_protection_once).
THEOREM ConfirmationIsComplete == PathSpec => []ConfirmedIsAll
<1>1. TradeInv => ConfirmedIsAll
  <2>1. SUFFICES ASSUME TradeInv, NEW s \in Signal, cycles[s].confirmed
                 PROVE  book[s].opened = cycles[s].plan /\ book[s].pend = 0
    BY DEF ConfirmedIsAll
  <2>. QED
    BY <2>1, BookFacts DEF BookKnown, BookOK
<1>. QED
  BY <1>1, TradeInvHolds, PTL

\* Whatever goes wrong, the completed marker of an exit is only written over
\* a flat account, with the result in the database and in the risk file
\* (dispatch_once, record_flat_closed_result_once).
THEOREM CompletionIsFlat == PathSpec => []CompletedIsFlat
<1>1. TradeInv => CompletedIsFlat
  <2>1. SUFFICES ASSUME TradeInv, NEW s \in Rows, cycles[s].at # NoTime,
                        EntryDay(s) \in exits["completed"]
                 PROVE  ~Exposed(s) /\ book[s].oco = 0 /\ cycles[s].loss # NoLoss /\ s \in applied
    BY DEF CompletedIsFlat
  <2>2. s \in Signal
    BY DEF Rows
  <2>3. cycles[s].loss # NoLoss /\ s \in applied
    BY <2>1, <2>2 DEF TradeInv, StoreTradeOK, CompletedOK
  <2>4. book[s].pos = 0 /\ book[s].oco = 0 /\ book[s].pend = 0
    BY <2>1, <2>2, <2>3, BookFacts DEF BookKnown, BookOK
  <2>. QED
    BY <2>3, <2>4 DEF Exposed
<1>. QED
  BY <1>1, TradeInvHolds, PTL

\* Where accepted orders take effect before the next GET, an order on the
\* wire is the one the database has pending: the marker is cleared only by a
\* recovery, and no recovery looks while something is on its way
\* (_record_transport_outcome_from_coordinated_path).
THEOREM OrdersOnTheWireAreMarked ==
    ASSUME "slow" \notin Faults
    PROVE  PathSpec => []WireIsMarked
<1>1. TradeInv => WireIsMarked
  BY DEF TradeInv, StoreTradeOK
<1>. QED
  BY <1>1, TradeInvHolds, PTL

\* Without a console that lifts the halt, exposure keeps its unresolved row
\* and the halt, or the pending marker that latches it: through crashes,
\* unknown replies, late orders and an operator who trades by hand.
THEOREM ExposureIsNeverForgotten ==
    ASSUME "console" \notin Faults
    PROVE  PathSpec => []ExposureIsRemembered
<1>1. PathInv /\ TradeInv => ExposureIsRemembered
  <2>1. SUFFICES ASSUME PathInv, TradeInv, NEW s \in Signal, Exposed(s)
                 PROVE  /\ cycles[s].at # NoTime
                        /\ cycles[s].loss = NoLoss
                        /\ halt \/ \E a \in Action : pending = {<<s, a>>}
    BY DEF ExposureIsRemembered
  <2>2. BookKnown(s) /\ book[s] # EmptyBook
    BY <2>1, BookFacts DEF Exposed, EmptyBook
  <2>3. sent[<<s, Market>>] = 1 /\ <<s, Market>> \in Signal \X Action
    BY <2>1, <2>2 DEF BookKnown, BookOK, PathInv, AttemptsOK, Action
  <2>4. cycles[s].at # NoTime
    BY <2>1, <2>3 DEF PathInv, AttemptsOK
  <2>5. cycles[s].loss = NoLoss
    BY <2>1, <2>2 DEF BookKnown, BookOK, Exposed
  <2>6. halt \/ \E a \in Action : pending = {<<s, a>>}
    BY <2>1 DEF TradeInv, StoreTradeOK, Remembered
  <2>. QED
    BY <2>4, <2>5, <2>6
<1>. QED
  BY <1>1, PathInvHolds, TradeInvHolds, PTL

\* At most one position is ever open or on its way, for any number of sessions
\* that reserve, release and crash beside it, and whatever orders arrive late:
\* an attempted row is never deleted, so a second signal is refused at the bind.
THEOREM PositionsAreSingle == PathSpec => []OnePositionAtATime
<1>1. ASSUME PathInv, TradeInv, NEW s \in Signal, MayHold(s)
      PROVE  <<s, Market>> \in attempts
  <2>1. <<s, Market>> \in Signal \X Action
    BY DEF Action
  <2>2. CASE Exposed(s)
    <3>1. BookKnown(s) /\ book[s] # EmptyBook
      BY <1>1, <2>2, BookFacts DEF Exposed, EmptyBook
    <3>. QED
      BY <1>1, <2>1, <3>1 DEF BookKnown, BookOK, PathInv, AttemptsOK
  <2>3. CASE \E w \in wire : w.sig = s /\ w.act = Market
    <3>1. PICK w \in wire : w.sig = s /\ w.act = Market
      BY <2>3
    <3>2. sent[<<w.sig, w.act>>] = 1
      BY <1>1, <3>1 DEF TradeInv, TradeShape, StoreTradeOK
    <3>. QED
      BY <1>1, <2>1, <3>1, <3>2 DEF PathInv, AttemptsOK
  <2>. QED
    BY <1>1, <2>2, <2>3 DEF MayHold
<1>2. PathInv /\ TradeInv => OnePositionAtATime
  <2>1. SUFFICES ASSUME PathInv, TradeInv, NEW s \in Signal, NEW t \in Signal,
                        MayHold(s), MayHold(t)
                 PROVE  s = t
    BY DEF OnePositionAtATime
  <2>2. <<s, Market>> \in attempts /\ <<t, Market>> \in attempts
    BY <2>1, <1>1
  <2>. QED
    BY <2>1, <2>2 DEF PathInv, AttemptsOK
<1>. QED
  BY <1>2, PathInvHolds, TradeInvHolds, PTL

\* Only a POST puts an order on the wire.
LEMMA OthersSubmitNothing ==
    ASSUME [PathNext]_pathVars, \A p \in Proc : ~Post(p)
    PROVE  wire' \subseteq wire
<1>1. ASSUME NEW p \in Proc, SessionStep(p) PROVE wire' = wire
  <2>1. \/ \E s \in Signal : Prepare(p, s)
        \/ ReserveCycle(p) \/ IssuePermit(p) \/ Bind(p) \/ ReadExecutions(p)
        \/ ReadPositions(p) \/ ReadOrders(p) \/ Preflight(p) \/ AttemptMarket(p)
        \/ ChargeEntry(p) \/ Outcome(p) \/ Recover(p) \/ PersistPlan(p) \/ Attempt(p)
        \/ Confirm(p) \/ Drive(p) \/ Claim(p) \/ Exit(p) \/ RecordMetrics(p)
        \/ ApplyResult(p) \/ CompleteExit(p) \/ FailExit(p) \/ ReleaseReservation(p)
    BY <1>1 DEF SessionStep
  <2>2. UNCHANGED brokerVars
    BY <2>1
       DEF Prepare, ReserveCycle, IssuePermit, Bind, ReadExecutions, ReadPositions,
           ReadOrders, Preflight, AttemptMarket, ChargeEntry, Outcome, Recover, PersistPlan,
           Attempt, Confirm, Drive, Claim, Exit, RecordMetrics, ApplyResult, CompleteExit,
           FailExit, ReleaseReservation
  <2>. QED
    BY <2>2 DEF brokerVars
<1>2. ASSUME NEW p \in Proc, Crash(p) PROVE wire' = wire
  BY <1>2 DEF Crash, brokerVars
<1>3. CASE SupervisorTick \/ WeekendTargetMissed \/ ObserveAccount \/ ConsoleReconciles
           \/ Clock \/ UNCHANGED pathVars
  BY <1>3 DEF SupervisorTick, WeekendTargetMissed, ObserveAccount, ConsoleReconciles, Clock,
     pathVars, brokerVars
<1>4. CASE BrokerStep
  BY <1>4 DEF BrokerStep, OrderTakesEffect, RemainderFills, OcoFires, OperatorFlattens
<1>. QED
  BY <1>1, <1>2, <1>3, <1>4 DEF PathNext

LEMMA PostedExitIsExact ==
    ASSUME "slow" \notin Faults, "operator" \notin Faults, PathInv, TradeInv,
           NEW p \in Proc, Post(p), NEW w \in wire' \ wire, w.act = TimeExit
    PROVE  w.size = book[w.sig].pos /\ book[w.sig].oco = 0
<1>1. pc[p] = "post" /\ pc[p] \notin Unlocked
  BY DEF Post, Unlocked
<1>2. wire' = wire \/ Submit(sig[p], act, OrderSize(sig[p]))
  BY DEF Post
<1>3. w = [sig |-> sig[p], act |-> act, size |-> OrderSize(sig[p])]
  BY <1>2 DEF Submit
<1>4. PICK s \in Signal : s = sig[p]
  BY <1>1, HolderFacts
<1>5. w.sig = s /\ act = TimeExit /\ w.size = OrderSize(s)
  BY <1>3, <1>4
<1>6. book[s].oco = 0 /\ book[s].pos = cycles[s].settle /\ cycles[s].settle > 0
  BY <1>1, <1>4, <1>5 DEF TradeInv, HolderTradeOK, ExactOK
<1>7. OrderSize(s) = cycles[s].settle
  BY <1>5, <1>6
     DEF OrderSize, ExpectedClosed, Market, CancelRemainder, Protect, TimeExit
<1>. QED
  BY <1>5, <1>6, <1>7

\* Where orders are not late and nobody trades by hand, the time exit goes out
\* for exactly the open position and over no working OCO, although the OCO may
\* fire until its cancellation takes effect: the dispatcher reads the position
\* after the cancellation and records that size with the attempt
\* (_record_risk_reducing_attempt_from_coordinated_path).
THEOREM TimeExitIsExact ==
    ASSUME "slow" \notin Faults, "operator" \notin Faults
    PROVE  PathSpec => ExitIsExact
<1>1. ASSUME PathInv, TradeInv, [PathNext]_pathVars, NEW w \in wire' \ wire,
             w.act = TimeExit
      PROVE  w.size = book[w.sig].pos /\ book[w.sig].oco = 0
  <2>1. PICK p \in Proc : Post(p)
    BY <1>1, OthersSubmitNothing
  <2>. QED
    BY <1>1, <2>1, PostedExitIsExact
<1>2. PathInv /\ TradeInv /\ [PathNext]_pathVars =>
        [\A w \in wire' \ wire : w.act = TimeExit =>
            w.size = book[w.sig].pos /\ book[w.sig].oco = 0]_pathVars
  BY <1>1
<1>. QED
  BY <1>2, PathInvHolds, TradeInvHolds, PTL DEF PathSpec, ExitIsExact

=============================================================================
