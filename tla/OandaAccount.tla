----------------------------- MODULE OandaAccount ---------------------------
(***************************************************************************)
(* The order log of the OANDA practice bot                                 *)
(* (backend/app/services/broker_service.py, automation_service.py) and the *)
(* practice account behind backend/app/brokers/oanda_broker.py.  An order  *)
(* names the trade it opens.  All orders are of one size and one symbol,   *)
(* so an order against an open trade closes that trade and opens none.     *)
(***************************************************************************)
EXTENDS Integers, Sequences, FiniteSets

CONSTANTS
    Order,              \* client order ids, and the trades they open
    MaxPositions,       \* risk.max_positions
    MaxDailyLosses,     \* losses that fit into risk.max_daily_loss
    MaxConsecutive      \* risk.max_consecutive_losses

ASSUME AccountAssumption ==
    /\ IsFiniteSet(Order)
    /\ {MaxPositions, MaxDailyLosses, MaxConsecutive} \subseteq Nat \ {0}

VARIABLES
    row,        \* per order: its OrderLog status and whether a trade id is stored
    results,    \* the rows with a realized_pnl, oldest first
    trade       \* the account: what became of the trade of an order

accountVars == <<row, results, trade>>

\* Rows of refused orders and of closes that failed are never read again and
\* are left out.
RowStatus ==
    {"none", "pending", "filled", "emergency_stopped", "closed", "close_unconfirmed"}
Row == [status : RowStatus, traded : BOOLEAN]
Result == [trades : SUBSET Order, lost : BOOLEAN]
Trade == {"none", "open", "won", "lost"}

AccountTypeOK ==
    /\ row \in [Order -> Row]
    /\ results \in Seq(Result)
    /\ trade \in [Order -> Trade]

AccountInit ==
    /\ row = [o \in Order |-> [status |-> "none", traded |-> FALSE]]
    /\ results = <<>>
    /\ trade = [o \in Order |-> "none"]

OpenTrades == {o \in Order : trade[o] = "open"}
LostTrades == {o \in Order : trade[o] = "lost"}
Filled == {o \in Order : row[o].status = "filled"}
Unused == {o \in Order : row[o].status = "none"}

SetStatus(o, status) == row' = [row EXCEPT ![o].status = status]

(***************************************************************************)
(* evaluate_order_risk over what place_order collects: every row with a    *)
(* result of the last day, whichever trade it is about.                    *)
(***************************************************************************)
LosingRows == {i \in DOMAIN results : results[i].lost}
ConsecutiveLosses ==
    Cardinality({i \in DOMAIN results : \A j \in i..Len(results) : results[j].lost})

RiskAllows(positions) ==
    /\ Cardinality(LosingRows) + 1 <= MaxDailyLosses
    /\ positions < MaxPositions
    /\ ConsecutiveLosses < MaxConsecutive

(***************************************************************************)
(* The account.                                                            *)
(***************************************************************************)
Outcome(lost) == IF lost THEN "lost" ELSE "won"

\* A market order, filled or killed: it opens its trade, or closes a trade of
\* the other side.
OrderFills(o) ==
    \/ trade' = [trade EXCEPT ![o] = "open"]
    \/ \E p \in OpenTrades \ {o}, lost \in BOOLEAN :
          trade' = [trade EXCEPT ![p] = Outcome(lost)]

\* The whole position is closed at once; each trade has its outcome, and the
\* close has that of their sum.
PositionCloses(outcome) ==
    trade' = [o \in Order |-> IF o \in OpenTrades THEN Outcome(outcome[o]) ELSE trade[o]]
SumMayBe(outcome, lost) == \E o \in OpenTrades : outcome[o] = lost

\* Stop loss, take profit, or the account's owner.
TradeCloses(o) ==
    /\ trade[o] = "open"
    /\ \E lost \in BOOLEAN : trade' = [trade EXCEPT ![o] = Outcome(lost)]
    /\ UNCHANGED <<row, results>>

(***************************************************************************)
(* Booking results.                                                        *)
(***************************************************************************)

\* closed_trade_summary answers for a closed trade only.
SummarisedOpen(o) == row[o].traded
Summarised(o) == row[o].traded /\ trade[o] \in {"won", "lost"}

\* One row per order, in some order.
ResultsOf(done) ==
    {s \in [1..Cardinality(done) -> {[trades |-> {o}, lost |-> trade[o] = "lost"] : o \in done}] :
        \A o \in done : \E i \in DOMAIN s : s[i].trades = {o}}

\* _reconcile_closed_positions over the orders it could summarise.
Book(done) ==
    /\ \E s \in ResultsOf(done) : results' = results \o s
    /\ row' = [o \in Order |-> IF o \in done THEN [row[o] EXCEPT !.status = "closed"]
                               ELSE row[o]]

\* The end of _close_position: the close's own row and the row of every filled
\* order whose trade it closed carry the result of the whole close.
BookClose(closing) ==
    LET entries == {o \in Filled : row[o].traded /\ o \in closing.trades} IN
    /\ results' =
          results \o <<closing>>
                  \o [i \in 1..Cardinality(entries) |-> closing]
    /\ row' = [o \in Order |-> IF o \in entries THEN [row[o] EXCEPT !.status = "closed"]
                               ELSE row[o]]

=============================================================================
