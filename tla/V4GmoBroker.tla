----------------------------- MODULE V4GmoBroker ----------------------------
(***************************************************************************)
(* The broker account behind the boundary of v4_gmo_boundary.py.  It is    *)
(* not part of the repository: this module is what the engine assumes of   *)
(* it.  A request that was sent stays on the wire until the broker settles *)
(* it, with any effect the engine is prepared to find: nothing at all      *)
(* (rejected or lost), a partial fill with or without a working remainder, *)
(* a protection order of the wrong size, a partial close.  Between         *)
(* requests a remainder fills, a protection order fires or disappears, and *)
(* the position is liquidated.                                             *)
(***************************************************************************)
EXTENDS V4GmoContracts

CONSTANT
    ReadMode    \* what a snapshot shows, see Views

ASSUME ReadModeAssumption == ReadMode \in {"settled", "early", "scripted"}

VARIABLES
    wire,   \* requests sent and not yet settled
    pos,    \* size of the open position
    side,   \* its side
    pend,   \* working remainder of the entry order
    oco     \* size of the working protection order

brokerVars == <<wire, pos, side, pend, oco>>

Request == [cycle : Cycle, action : Action, size : Nat, side : Sides]

BrokerTypeOK ==
    /\ wire \subseteq Request
    /\ pos \in Nat
    /\ side \in Sides \cup {NoSide}
    /\ pend \in Nat
    /\ oco \in 0..OcoMax

BrokerInit ==
    /\ wire = {}
    /\ pos = 0
    /\ side = NoSide
    /\ pend = 0
    /\ oco = 0

BookEmpty == pos = 0 /\ pend = 0 /\ oco = 0

\* The scripted fake only records the call.
Send(r) ==
    /\ wire' = IF ReadMode = "scripted" THEN wire ELSE wire \cup {r}
    /\ UNCHANGED <<pos, side, pend, oco>>

\* Rejected, lost on the way, or accepted without effect.
SettleWithoutEffect(r) == UNCHANGED <<pos, side, pend, oco>>

SettleMarketEntry(r) ==
    /\ r.action = "MARKET_ENTRY"
    /\ \E f \in 0..r.size, rest \in BOOLEAN :
          /\ pos' = pos + f
          /\ pend' = IF rest THEN pend + (r.size - f) ELSE pend
          /\ side' = IF f > 0 THEN r.side ELSE side
    /\ UNCHANGED oco

SettleCancelRemainder(r) ==
    /\ r.action = "CANCEL_ENTRY_REMAINDER"
    /\ pend' = 0
    /\ UNCHANGED <<pos, side, oco>>

SettleProtection(r) ==
    /\ r.action = "EXACT_SIZE_OCO_PROTECTION"
    /\ pos > 0
    /\ oco' \in 1..OcoMax
    /\ UNCHANGED <<pos, side, pend>>

SettleCancelProtection(r) ==
    /\ r.action = "CANCEL_MISMATCHED_PROTECTION"
    /\ oco' = 0
    /\ UNCHANGED <<pos, side, pend>>

SettleExit(r) ==
    /\ r.action = "POSITION_SPECIFIC_EMERGENCY_EXIT"
    /\ \E n \in 1..r.size : n <= pos /\ pos' = pos - n
    /\ UNCHANGED <<side, pend, oco>>

SettleRequest ==
    \E r \in wire :
        /\ wire' = wire \ {r}
        /\ \/ SettleWithoutEffect(r)
           \/ SettleMarketEntry(r)
           \/ SettleCancelRemainder(r)
           \/ SettleProtection(r)
           \/ SettleCancelProtection(r)
           \/ SettleExit(r)

RemainderFills ==
    /\ pend > 0
    /\ \E n \in 1..pend : pend' = pend - n /\ pos' = pos + n
    /\ UNCHANGED <<wire, side, oco>>

ProtectionFires ==
    /\ oco > 0
    /\ pos > 0
    /\ pos' = IF oco < pos THEN pos - oco ELSE 0
    /\ oco' = 0
    /\ UNCHANGED <<wire, side, pend>>

ProtectionDisappears ==
    /\ oco > 0
    /\ oco' = 0
    /\ UNCHANGED <<wire, pos, side, pend>>

PositionLiquidated ==
    /\ pos > 0
    /\ pos' = 0
    /\ UNCHANGED <<wire, side, pend, oco>>

\* The operator flattens the account by hand at the broker.
OperatorFlattens ==
    /\ ~BookEmpty
    /\ pos' = 0 /\ pend' = 0 /\ oco' = 0
    /\ UNCHANGED <<wire, side>>

BrokerStep ==
    \/ SettleRequest
    \/ RemainderFills
    \/ ProtectionFires
    \/ ProtectionDisappears
    \/ PositionLiquidated
    \/ OperatorFlattens

StatusOf(size, protection) ==
    IF protection = 0 THEN "NONE"
    ELSE IF protection = size THEN "EXACT_MATCH"
    ELSE IF protection < size THEN "UNDERSIZED" ELSE "OVERSIZED"

Truth ==
    [known |-> TRUE, count |-> IF pos > 0 THEN 1 ELSE 0,
     side |-> IF pos > 0 THEN side ELSE NoSide, filled |-> pos, pending |-> pend,
     protection |-> oco, status |-> StatusOf(pos, oco)]

\* settled: a read is known only once every request sent before it has been
\* settled.  early: a read may come before that.  scripted: FakeV4GmoBroker,
\* which hands out whatever snapshot it was given.
Views ==
    CASE ReadMode = "settled" -> IF wire = {} THEN {Truth, UnknownSnapshot} ELSE {UnknownSnapshot}
      [] ReadMode = "early" -> {Truth, UnknownSnapshot}
      [] ReadMode = "scripted" -> ScriptedSnapshot \cup {UnknownSnapshot}

=============================================================================
