-------------------------- MODULE V4GmoActualBroker -------------------------
(***************************************************************************)
(* The account behind the private API, as the actual path of               *)
(* backend/app/services/h11_v4_gmo_actual_adapter.py uses it: orders on    *)
(* the wire take effect at a time of their own, working orders fill        *)
(* between any two reads, and a reconciliation is three GETs whose rows    *)
(* _reconcile_rows puts together.                                          *)
(***************************************************************************)
EXTENDS V4GmoActualStore

CONSTANT Faults     \* what may go wrong in this instance

\* "slow": accepted orders take effect late or not at all; "operator": the
\* operator trades by hand; "reply", "read", "gate", "crash", "console": see
\* V4GmoActualPath.
ASSUME FaultsAssumption ==
    Faults \subseteq {"slow", "operator", "reply", "read", "gate", "crash", "console"}

VARIABLES
    wire,   \* accepted orders that have not taken effect
    book,   \* per cycle: its entry remainder, what it opened and closed,
            \* its open position and its working OCO
    sent    \* history: POSTs dispatched per cycle and action

brokerVars == <<wire, book, sent>>

EmptyBook == [pend |-> 0, opened |-> 0, pos |-> 0, oco |-> 0, closed |-> 0]

BrokerInit ==
    /\ wire = {}
    /\ book = [s \in Signal |-> EmptyBook]
    /\ sent = [j \in Signal \X Action |-> 0]

Smaller(m, n) == IF m <= n THEN m ELSE n

Count(s, a) == sent' = [sent EXCEPT ![<<s, a>>] = @ + 1]
Submit(s, a, size) == wire' = wire \cup {[sig |-> s, act |-> a, size |-> size]}

(***************************************************************************)
(* What the account does on its own.                                       *)
(***************************************************************************)

\* What an order may make of its cycle's book.  A market order fills in part
\* or in full, and its remainder works on or is dropped.
Effects(b, w) ==
    (IF "slow" \in Faults THEN {b} ELSE {}) \cup
    CASE w.act = Market ->
            UNION {{[b EXCEPT !.opened = f, !.pos = f, !.pend = rest] :
                        rest \in {0, w.size - f}} : f \in 0..w.size}
      [] w.act = CancelRemainder -> {[b EXCEPT !.pend = 0]}
      [] w.act = Protect -> {[b EXCEPT !.oco = n] : n \in 0..Smaller(w.size, b.pos)}
      [] w.act = CancelProtection -> {[b EXCEPT !.oco = 0]}
      [] w.act = TimeExit ->
            {[b EXCEPT !.pos = @ - n, !.closed = @ + n] : n \in 0..Smaller(w.size, b.pos)}

\* An instance without slow orders has none on the wire when a GET is made.
Prompt(s) == "slow" \in Faults \/ \A w \in wire : w.sig # s

OrderTakesEffect ==
    /\ \E w \in wire : \E b \in Effects(book[w.sig], w) :
        /\ wire' = wire \ {w}
        /\ book' = [book EXCEPT ![w.sig] = b]
    /\ UNCHANGED sent

RemainderFills ==
    /\ \E s \in Signal : \E n \in 1..book[s].pend :
        book' = [book EXCEPT ![s].pend = @ - n, ![s].opened = @ + n, ![s].pos = @ + n]
    /\ UNCHANGED <<wire, sent>>

OcoFires ==
    /\ \E s \in Signal : \E n \in 1..Smaller(book[s].oco, book[s].pos) :
        book' = [book EXCEPT ![s].oco = @ - n, ![s].pos = @ - n, ![s].closed = @ + n]
    /\ UNCHANGED <<wire, sent>>

\* The operator closes everything by hand; those executions do not carry the
\* cycle's client order ids.
OperatorFlattens ==
    /\ \E s \in Signal :
        /\ book[s].pos + book[s].pend > 0
        /\ book' = [book EXCEPT ![s].pos = 0, ![s].pend = 0, ![s].oco = 0]
    /\ UNCHANGED <<wire, sent>>

Exposed(s) == book[s].pos + book[s].pend > 0

(***************************************************************************)
(* reconcile_at_fixed_cadence and _reconcile_rows.  A view collects the    *)
(* rows of latestExecutions (opened, closed), openPositions (filled) and   *)
(* activeOrders (entry still active, OCO size).                            *)
(***************************************************************************)
NoView ==
    [known |-> FALSE, opened |-> 0, closed |-> 0, filled |-> 0,
     active |-> FALSE, oco |-> 0, at |-> NoTime]

WithExecutions(s, requested) ==
    [NoView EXCEPT !.opened = book[s].opened, !.closed = book[s].closed,
                   !.known = book[s].opened <= requested /\ book[s].closed <= requested]

\* A position whose opening is not among the executions read before is not
\* owned; fills since that read may or may not carry a new position id.
WithPositions(v, s, requested) ==
    {[v EXCEPT !.filled = book[s].pos, !.known = ok] : ok \in
        IF ~v.known \/ book[s].pos > requested \/ (v.opened = 0 /\ book[s].pos > 0)
        THEN {FALSE}
        ELSE IF v.opened # book[s].opened THEN BOOLEAN ELSE {TRUE}}

WithOrders(v, s) ==
    [v EXCEPT !.active = book[s].pend > 0, !.oco = book[s].oco, !.at = now]

PendingSize(v, requested) == IF v.active THEN requested - v.filled ELSE 0

EntryFilledSoFar(v) == v.filled > 0
EntryFilled(v) == v.filled > 0 /\ ~v.active

Unprotected(v) == v.oco = 0
ExactlyProtected(v) == v.oco = v.filled /\ v.filled > 0
NothingLeft(v) == v.filled = 0 /\ ~v.active /\ v.oco = 0

\* _classify_pending_transport_recovery
Classify(v, a, requested) ==
    CASE NothingLeft(v) -> "FLAT_OR_REJECTED"
      [] a = Market /\ PendingSize(v, requested) > 0 /\ v.oco = 0 -> "MARKET_PARTIAL_PENDING"
      [] EntryFilled(v) /\ Unprotected(v) -> "FILLED_UNPROTECTED"
      [] EntryFilled(v) /\ ~Unprotected(v) /\ ExactlyProtected(v) -> "FILLED_PROTECTED"
      [] EntryFilled(v) /\ ~Unprotected(v) /\ ~ExactlyProtected(v) ->
            "FILLED_PROTECTION_MISMATCHED"
      [] OTHER -> "UNKNOWN"

=============================================================================
