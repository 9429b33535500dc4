------------------------ MODULE V4GmoActualPathProofs -----------------------
(***************************************************************************)
(* For any number of signals and sessions, any window and any fault, the   *)
(* actual path charges an entry before it posts it, serves one entry per   *)
(* store, and implements PersistentTransport.                              *)
(*                                                                         *)
(* The inductive invariant says what these rest on.  What is attempted     *)
(* keeps its row (AttemptsOK), so the session that holds the lock, which   *)
(* found its row alone, owns every attempt (HolderOK); and only the holder *)
(* writes attempts and the risk file, so what it checked before an attempt *)
(* still holds when it charges and posts (ChargeOK).  The account, the     *)
(* views and the supervisor may do whatever they like.                     *)
(* Every session takes a bounded number of its own steps.                  *)
(***************************************************************************)
EXTENDS V4GmoActualProgress, PhaseBRiskRulesProofs, FiniteSetTheorems

Unlocked == {"idle", "prepared", "reserved", "permitted", "release"}
Preflighting == {"executions", "positions", "orders", "preflight"}

\* A row has its fields, of which two matter; there are finitely many rows.
RowShape ==
    /\ cycles = [s \in Signal |-> cycles[s]]
    /\ IsFiniteSet(Rows)
    /\ \A s \in Signal :
          /\ cycles[s] =
                [born |-> cycles[s].born, day |-> cycles[s].day,
                 preflight |-> cycles[s].preflight, at |-> cycles[s].at,
                 plan |-> cycles[s].plan, confirmed |-> cycles[s].confirmed,
                 settle |-> cycles[s].settle, loss |-> cycles[s].loss]
          /\ cycles[s].born \in Nat
          /\ cycles[s].at \in Nat \cup {NoTime}
          /\ cycles[s].at <= now
          /\ cycles[s].at # NoTime => s \in Rows

Shape ==
    /\ now \in Nat
    /\ lock \in Proc \cup {NoProc}
    /\ pc \in [Proc -> Label]
    /\ sig \in [Proc -> Signal \cup {NoSignal}]
    /\ attempts \subseteq Signal \X Action
    /\ sent \in [Signal \X Action -> Nat]
    /\ risk \in RiskState
    /\ RowShape

AttemptsOK ==
    /\ \A j \in attempts : j[1] \in Rows /\ cycles[j[1]].at # NoTime
    /\ \A j, k \in attempts : j[1] = k[1]
    /\ \A j \in Signal \X Action : sent[j] \in {0, 1} /\ (sent[j] = 1 => j \in attempts)

Charged(s) ==
    /\ risk.day >= EntryDay(s)
    /\ risk.day = EntryDay(s) => risk.entries > 0

ChargeOK ==
    /\ risk.day <= Day(now)
    /\ \A s \in Signal : sent[<<s, Market>>] = 1 => Charged(s)

HolderOK(p) ==
    /\ lock = p
    /\ \A j \in attempts : j[1] = sig[p]
    /\ \/ act = "PREFLIGHT" /\ pc[p] \in Preflighting
       \/ act = Market /\ pc[p] = "attempt"
       \/ <<sig[p], Market>> \in attempts
    /\ pc[p] = "attempt" => act \in Action
    /\ pc[p] \in {"charge", "post"} =>
          /\ <<sig[p], act>> \in attempts
          /\ sent[<<sig[p], act>>] = 0
    /\ pc[p] = "charge" => act = Market /\ risk.day <= EntryDay(sig[p])
    /\ pc[p] = "post" /\ act = Market => Charged(sig[p])
    /\ pc[p] = "result" => cycles[sig[p]].loss \in Nat

SessionOK(p) ==
    pc[p] # "idle" =>
        /\ sig[p] \in Signal
        /\ pc[p] \notin Unlocked => HolderOK(p)

PathInv ==
    /\ Shape
    /\ AttemptsOK
    /\ ChargeOK
    /\ \A p \in Proc : SessionOK(p)

(***************************************************************************)
(* Days.                                                                   *)
(***************************************************************************)

LEMMA DayFacts ==
    /\ \A t \in Nat : Day(t) \in Nat
    /\ \A t, u \in Nat : t <= u => Day(t) <= Day(u)
<1>1. DayLength \in Nat \ {0}
  BY ActualStoreAssumption
<1>2. QED
  BY <1>1 DEF Day

(***************************************************************************)
(* What the steps have in common.                                          *)
(***************************************************************************)

\* The fields of the rows that the invariant is about.
RowsKept ==
    \A s \in Signal : cycles'[s].born = cycles[s].born /\ cycles'[s].at = cycles[s].at

\* A step that leaves attempts, history, risk file and clock alone.
Frame == /\ UNCHANGED <<attempts, sent, risk, now>>
         /\ RowShape' /\ RowsKept

LEMMA FrameStore ==
    ASSUME PathInv, UNCHANGED <<attempts, sent, risk, now, cycles>>
    PROVE  Frame
<1>1. Rows' = Rows
  BY DEF Rows
<1>2. QED
  BY <1>1 DEF PathInv, Shape, RowShape, Frame, RowsKept

LEMMA FrameKeeps ==
    ASSUME PathInv, Frame
    PROVE  /\ AttemptsOK' /\ ChargeOK'
           /\ attempts' \subseteq Signal \X Action
           /\ sent' \in [Signal \X Action -> Nat]
           /\ risk' \in RiskState /\ RowShape' /\ now' \in Nat
           /\ \A s \in Signal : EntryDay(s)' = EntryDay(s) /\ (Charged(s) => Charged(s)')
<1>1. \A s \in Signal : EntryDay(s)' = EntryDay(s)
  BY DEF Frame, RowsKept, EntryDay, Day
<1>2. \A s \in Signal : Charged(s) => Charged(s)'
  BY <1>1 DEF Charged, Frame
<1>3. ChargeOK'
  BY <1>2 DEF PathInv, ChargeOK, Frame, Day
<1>4. \A s \in Signal : s \in Rows => s \in Rows'
  BY DEF Frame, RowsKept, Rows
<1>5. AttemptsOK'
  BY <1>4 DEF PathInv, Shape, AttemptsOK, Frame, RowsKept
<1>6. QED
  BY <1>1, <1>2, <1>3, <1>5 DEF PathInv, Shape, Frame

\* The holder of the lock is alone: whatever it does, the others only keep
\* their signals.
LEMMA HolderStep ==
    ASSUME PathInv, NEW p \in Proc, lock = p, NEW l \in Label,
           pc' = [pc EXCEPT ![p] = l],
           sig' \in [Proc -> Signal \cup {NoSignal}],
           \A q \in Proc : q # p => sig'[q] = sig[q],
           lock' \in Proc \cup {NoProc},
           Shape' /\ AttemptsOK' /\ ChargeOK' /\ SessionOK(p)'
    PROVE  PathInv'
<1>1. ASSUME NEW q \in Proc, q # p
      PROVE  SessionOK(q)'
  <2>1. pc'[q] = pc[q] /\ sig'[q] = sig[q]
    BY <1>1 DEF PathInv, Shape
  <2>2. pc[q] \in Unlocked
    BY <1>1 DEF PathInv, SessionOK, HolderOK, Unlocked
  <2>3. SessionOK(q)
    BY DEF PathInv
  <2>4. QED
    BY <2>1, <2>2, <2>3 DEF SessionOK
<1>2. QED
  BY <1>1 DEF PathInv

LEMMA HolderFacts ==
    ASSUME PathInv, NEW p \in Proc, pc[p] \notin Unlocked
    PROVE  HolderOK(p) /\ lock = p /\ sig[p] \in Signal /\ pc[p] # "idle"
  BY DEF PathInv, SessionOK, HolderOK, Unlocked

\* It moves on, its store in order.
LEMMA HolderMoves ==
    ASSUME PathInv, NEW p \in Proc, pc[p] \notin Unlocked, Frame, NEW l \in Label,
           pc' = [pc EXCEPT ![p] = l], sig' = sig, lock' = lock, HolderOK(p)'
    PROVE  PathInv'
<1>1. Shape' /\ AttemptsOK' /\ ChargeOK'
  BY FrameKeeps DEF PathInv, Shape
<1>2. SessionOK(p)'
  BY DEF PathInv, Shape, SessionOK, Unlocked
<1>3. QED
  BY <1>1, <1>2, HolderStep, HolderFacts DEF PathInv, Shape

\* It lets go of the lock.
LEMMA HolderLetsGo ==
    ASSUME PathInv, NEW p \in Proc, lock = p, pc[p] # "idle", Frame,
           \/ pc' = [pc EXCEPT ![p] = "release"] /\ sig' = sig
           \/ pc' = [pc EXCEPT ![p] = "idle"] /\ sig' = [sig EXCEPT ![p] = NoSignal],
           Unlock
    PROVE  PathInv'
<1>1. /\ sig' \in [Proc -> Signal \cup {NoSignal}]
      /\ \A q \in Proc : q # p => sig'[q] = sig[q]
  BY DEF PathInv, Shape
<1>2. pc'[p] \in {"release", "idle"} /\ (pc'[p] = "release" => sig'[p] = sig[p])
  BY DEF PathInv, Shape
<1>3. pc' \in [Proc -> Label] /\ lock' \in Proc \cup {NoProc}
  BY DEF PathInv, Shape, Label, Unlock
<1>4. Shape' /\ AttemptsOK' /\ ChargeOK'
  BY <1>1, <1>3, FrameKeeps DEF Shape
<1>5. SessionOK(p)'
  BY <1>2 DEF PathInv, SessionOK, Unlocked
<1>6. QED
  BY <1>1, <1>3, <1>4, <1>5, HolderStep DEF Label

LEMMA RaiseKeeps ==
    ASSUME PathInv, NEW p \in Proc, pc[p] \notin Unlocked, Frame, Raise(p)
    PROVE  PathInv'
<1>1. CASE act \in ExitStages
  <2>1. pc' = [pc EXCEPT ![p] = "fail"] /\ UNCHANGED <<sig, act, lock>>
    BY <1>1 DEF Raise, Goto
  <2>2. HolderOK(p) /\ pc[p] # "idle"
    BY DEF PathInv, SessionOK, Unlocked
  <2>3. <<sig[p], Market>> \in attempts
    BY <1>1, <2>2 DEF HolderOK, ExitStages, Market, CancelProtection, TimeExit
  <2>4. pc'[p] = "fail"
    BY <2>1 DEF PathInv, Shape
  <2>5. HolderOK(p)'
    BY <2>1, <2>2, <2>3, <2>4 DEF HolderOK, Frame
  <2>6. QED
    BY <2>1, <2>5, HolderMoves DEF Label
<1>2. CASE act \notin ExitStages
  BY <1>2, HolderFacts, HolderLetsGo DEF Raise, Goto
<1>3. QED
  BY <1>1, <1>2

LEMMA LeaveKeeps ==
    ASSUME PathInv, NEW p \in Proc, pc[p] \notin Unlocked, Frame, Leave(p)
    PROVE  PathInv'
  BY HolderFacts, HolderLetsGo DEF Leave, Goto

\* A session without the lock leaves the holder's world alone.
LEMMA OutsiderStep ==
    ASSUME PathInv, NEW p \in Proc, pc[p] \in Unlocked, NEW l \in Unlocked,
           pc' = [pc EXCEPT ![p] = l],
           sig' \in [Proc -> Signal \cup {NoSignal}],
           \A q \in Proc : q # p => sig'[q] = sig[q],
           l # "idle" => sig'[p] \in Signal,
           UNCHANGED <<attempts, sent, risk, now, lock, act>>,
           RowShape',
           \A s \in Signal : cycles[s].at # NoTime =>
               /\ cycles'[s].at = cycles[s].at
               /\ cycles'[s].loss = cycles[s].loss
               /\ s \in Rows => s \in Rows'
    PROVE  PathInv'
<1>1. \A j \in attempts : j[1] \in Signal /\ j[1] \in Rows /\ cycles[j[1]].at # NoTime
  BY DEF PathInv, Shape, AttemptsOK
<1>2. \A s \in Signal : <<s, Market>> \in attempts =>
          /\ EntryDay(s)' = EntryDay(s)
          /\ cycles'[s].loss = cycles[s].loss
  BY <1>1 DEF EntryDay, Day
<1>3. AttemptsOK'
  BY <1>1 DEF PathInv, AttemptsOK
<1>4. ChargeOK'
  <2>1. \A s \in Signal : sent[<<s, Market>>] = 1 => <<s, Market>> \in attempts
    BY DEF PathInv, AttemptsOK, Action, Market
  <2>2. QED
    BY <1>2, <2>1 DEF PathInv, ChargeOK, Charged, Day
<1>5. Shape'
  BY DEF PathInv, Shape, Unlocked, Label
<1>6. ASSUME NEW q \in Proc
      PROVE  SessionOK(q)'
  <2>1. CASE q = p
    BY <2>1 DEF PathInv, Shape, SessionOK
  <2>2. CASE q # p
    <3>1. pc'[q] = pc[q] /\ sig'[q] = sig[q] /\ SessionOK(q)
      BY <2>2 DEF PathInv, Shape
    <3>2. CASE pc[q] \in Unlocked
      BY <3>1, <3>2 DEF SessionOK
    <3>3. CASE pc[q] \notin Unlocked
      <4>1. HolderOK(q) /\ sig[q] \in Signal /\ pc[q] # "idle"
        BY <3>1, <3>3 DEF SessionOK, Unlocked
      <4>2. pc[q] \in {"charge", "result"} \/ (pc[q] = "post" /\ act = Market)
              => <<sig[q], Market>> \in attempts
        BY <4>1 DEF HolderOK, Preflighting
      <4>3. HolderOK(q)'
        BY <1>2, <3>1, <4>1, <4>2 DEF HolderOK, Charged
      <4>4. QED
        BY <3>1, <4>1, <4>3 DEF SessionOK
    <3>4. QED
      BY <3>2, <3>3
  <2>3. QED
    BY <2>1, <2>2
<1>7. QED
  BY <1>3, <1>4, <1>5, <1>6 DEF PathInv

(***************************************************************************)
(* Transactions on the rows.                                               *)
(***************************************************************************)

\* A row that is written without its rank and its time.
LEMMA RowWritten ==
    ASSUME PathInv, NEW s \in Signal, NEW r, cycles' = [cycles EXCEPT ![s] = r], now' = now,
           r = [born |-> r.born, day |-> r.day, preflight |-> r.preflight, at |-> r.at,
                plan |-> r.plan, confirmed |-> r.confirmed, settle |-> r.settle,
                loss |-> r.loss],
           r.born = cycles[s].born, r.at = cycles[s].at
    PROVE  RowShape' /\ RowsKept
<1>1. RowsKept
  BY DEF PathInv, Shape, RowShape, RowsKept
<1>2. Rows' = Rows
  BY <1>1 DEF RowsKept, Rows
<1>3. QED
  BY <1>1, <1>2 DEF PathInv, Shape, RowShape, RowsKept

LEMMA RowFieldWritten ==
    ASSUME PathInv, NEW s \in Signal, NEW v, now' = now,
           \/ cycles' = [cycles EXCEPT ![s].preflight = v]
           \/ cycles' = [cycles EXCEPT ![s].plan = v]
           \/ cycles' = [cycles EXCEPT ![s].confirmed = v]
           \/ cycles' = [cycles EXCEPT ![s].settle = v]
           \/ cycles' = [cycles EXCEPT ![s].loss = v]
    PROVE  /\ RowShape' /\ RowsKept
           /\ cycles' = [cycles EXCEPT ![s].loss = v] => cycles'[s].loss = v
<1> DEFINE c == cycles[s]
<1>1. c = [born |-> c.born, day |-> c.day, preflight |-> c.preflight, at |-> c.at,
           plan |-> c.plan, confirmed |-> c.confirmed, settle |-> c.settle,
           loss |-> c.loss]
  BY DEF PathInv, Shape, RowShape
<1> HIDE DEF c
<1>2. PICK r : /\ r \in {[c EXCEPT !.preflight = v], [c EXCEPT !.plan = v],
                         [c EXCEPT !.confirmed = v], [c EXCEPT !.settle = v],
                         [c EXCEPT !.loss = v]}
               /\ cycles' = [cycles EXCEPT ![s] = r]
  BY DEF c
<1>3. /\ r = [born |-> r.born, day |-> r.day, preflight |-> r.preflight, at |-> r.at,
              plan |-> r.plan, confirmed |-> r.confirmed, settle |-> r.settle,
              loss |-> r.loss]
      /\ r.born = c.born /\ r.at = c.at
  BY <1>1, <1>2
<1>4. RowShape' /\ RowsKept
  BY <1>2, <1>3, RowWritten DEF c
<1>5. cycles' = [cycles EXCEPT ![s].loss = v] => cycles'[s].loss = v
  BY <1>1 DEF c, PathInv, Shape, RowShape
<1>6. QED
  BY <1>4, <1>5

\* A new row; the others stay.
LEMMA ReserveKeepsRows ==
    ASSUME PathInv, NEW s \in Signal, ReserveAllowed(s), Reserve(s), now' = now
    PROVE  /\ RowShape'
           /\ \A t \in Signal : cycles[t].at # NoTime =>
                 /\ cycles'[t].at = cycles[t].at
                 /\ cycles'[t].loss = cycles[t].loss
                 /\ t \in Rows => t \in Rows'
<1>1. /\ cycles = [t \in Signal |-> cycles[t]]
      /\ IsFiniteSet(Rows)
      /\ cycles[s].at = NoTime
  BY DEF PathInv, Shape, RowShape, ReserveAllowed
<1>2. Cardinality(Rows) + 1 \in Nat
  BY <1>1, FS_CardinalityType
<1>3. \A t \in Signal : t # s => cycles'[t] = cycles[t]
  BY <1>1 DEF Reserve
<1>4. cycles'[s] = [born |-> Cardinality(Rows) + 1, day |-> Day(now), preflight |-> FALSE,
                    at |-> NoTime, plan |-> 0, confirmed |-> FALSE, settle |-> 0,
                    loss |-> NoLoss]
  BY <1>1 DEF Reserve, NoRow
<1>5. Cardinality(Rows) + 1 > 0
  BY <1>1, FS_CardinalityType
<1>6. Rows' = Rows \cup {s}
  BY <1>3, <1>4, <1>5 DEF Rows
<1>7. IsFiniteSet(Rows')
  BY <1>1, <1>6, FS_AddElement
<1>8. cycles' = [t \in Signal |-> cycles'[t]]
  BY <1>1 DEF Reserve
<1>9. RowShape'
  <2>1. ASSUME NEW t \in Signal
        PROVE  /\ cycles'[t] =
                    [born |-> cycles'[t].born, day |-> cycles'[t].day,
                     preflight |-> cycles'[t].preflight, at |-> cycles'[t].at,
                     plan |-> cycles'[t].plan, confirmed |-> cycles'[t].confirmed,
                     settle |-> cycles'[t].settle, loss |-> cycles'[t].loss]
               /\ cycles'[t].born \in Nat
               /\ cycles'[t].at \in Nat \cup {NoTime}
               /\ cycles'[t].at <= now'
               /\ cycles'[t].at # NoTime => t \in Rows'
    <3>1. CASE t = s
      BY <1>2, <1>4, <1>6, <3>1 DEF PathInv, Shape, NoTime
    <3>2. CASE t # s
      BY <1>3, <1>6, <3>2 DEF PathInv, Shape, RowShape
    <3>3. QED
      BY <3>1, <3>2
  <2>2. QED
    BY <1>7, <1>8, <2>1 DEF RowShape
<1>10. QED
  BY <1>1, <1>3, <1>6, <1>9

\* Only a row that was never attempted is deleted.
LEMMA ReleaseKeepsRows ==
    ASSUME PathInv, NEW s \in Signal, Release(s), now' = now
    PROVE  /\ RowShape'
           /\ \A t \in Signal : cycles[t].at # NoTime =>
                 /\ cycles'[t].at = cycles[t].at
                 /\ cycles'[t].loss = cycles[t].loss
                 /\ t \in Rows => t \in Rows'
<1>1. /\ cycles = [t \in Signal |-> cycles[t]]
      /\ IsFiniteSet(Rows)
  BY DEF PathInv, Shape, RowShape
<1>2. CASE cycles' = cycles
  BY <1>1, <1>2 DEF PathInv, Shape, RowShape, Rows
<1>3. CASE ReleaseAllowed(s) /\ cycles' = WithoutRow(s)
  <2>1. cycles[s].at = NoTime /\ cycles[s].born > 0 /\ cycles[s].born \in Nat
    BY <1>3 DEF ReleaseAllowed, PathInv, Shape, RowShape, Rows
  <2>2. cycles'[s] = [born |-> 0, day |-> 0, preflight |-> FALSE, at |-> NoTime, plan |-> 0,
                      confirmed |-> FALSE, settle |-> 0, loss |-> NoLoss]
    BY <1>3 DEF WithoutRow, NoRow
  <2>3. ASSUME NEW t \in Signal, t # s
        PROVE  /\ cycles'[t] =
                    [born |-> cycles'[t].born, day |-> cycles'[t].day,
                     preflight |-> cycles'[t].preflight, at |-> cycles'[t].at,
                     plan |-> cycles'[t].plan, confirmed |-> cycles'[t].confirmed,
                     settle |-> cycles'[t].settle, loss |-> cycles'[t].loss]
               /\ cycles'[t].at = cycles[t].at
               /\ cycles'[t].loss = cycles[t].loss
               /\ cycles'[t].born \in Nat
               /\ (cycles'[t].born > 0) <=> (cycles[t].born > 0)
    <3> DEFINE c == cycles[t]
               n == IF c.born > cycles[s].born THEN c.born - 1 ELSE c.born
    <3>1. /\ c = [born |-> c.born, day |-> c.day, preflight |-> c.preflight, at |-> c.at,
                  plan |-> c.plan, confirmed |-> c.confirmed, settle |-> c.settle,
                  loss |-> c.loss]
          /\ c.born \in Nat
      BY DEF PathInv, Shape, RowShape
    <3>2. cycles'[t] = [c EXCEPT !.born = n]
      BY <1>3, <2>3 DEF WithoutRow
    <3>3. n \in Nat /\ ((n > 0) <=> (c.born > 0))
      BY <2>1, <3>1
    <3> HIDE DEF n
    <3>4. cycles'[t] = [born |-> n, day |-> c.day, preflight |-> c.preflight, at |-> c.at,
                        plan |-> c.plan, confirmed |-> c.confirmed, settle |-> c.settle,
                        loss |-> c.loss]
      BY <3>1, <3>2
    <3>5. QED
      BY <3>3, <3>4
  <2>4. Rows' = Rows \ {s}
    <3>1. ASSUME NEW t \in Signal
          PROVE  (cycles'[t].born > 0) <=> (cycles[t].born > 0 /\ t # s)
      <4>1. CASE t = s
        <5>1. cycles'[s].born = 0
          BY <2>2
        <5>2. QED
          BY <4>1, <5>1
      <4>2. CASE t # s
        BY <2>3, <4>2
      <4>3. QED
        BY <4>1, <4>2
    <3>2. QED
      BY <3>1 DEF Rows
  <2>5. IsFiniteSet(Rows')
    BY <1>1, <2>4, FS_Subset
  <2>6. cycles' = [t \in Signal |-> cycles'[t]]
    BY <1>3 DEF WithoutRow
  <2>7. ASSUME NEW t \in Signal
        PROVE  /\ cycles'[t] =
                    [born |-> cycles'[t].born, day |-> cycles'[t].day,
                     preflight |-> cycles'[t].preflight, at |-> cycles'[t].at,
                     plan |-> cycles'[t].plan, confirmed |-> cycles'[t].confirmed,
                     settle |-> cycles'[t].settle, loss |-> cycles'[t].loss]
               /\ cycles'[t].born \in Nat
               /\ cycles'[t].at \in Nat \cup {NoTime}
               /\ cycles'[t].at <= now'
               /\ cycles'[t].at # NoTime => t \in Rows'
               /\ cycles[t].at # NoTime =>
                     /\ cycles'[t].at = cycles[t].at
                     /\ cycles'[t].loss = cycles[t].loss
    <3>1. CASE t = s
      BY <2>1, <2>2, <3>1 DEF PathInv, Shape, NoTime
    <3>2. CASE t # s
      <4>1. /\ cycles[t].at \in Nat \cup {NoTime}
            /\ cycles[t].at <= now
            /\ cycles[t].at # NoTime => t \in Rows
        BY DEF PathInv, Shape, RowShape
      <4>2. QED
        BY <2>3, <2>4, <3>2, <4>1
    <3>3. QED
      BY <3>1, <3>2
  <2>8. RowShape'
    BY <2>5, <2>6, <2>7 DEF RowShape
  <2>9. QED
    BY <2>1, <2>4, <2>7, <2>8
<1>4. QED
  BY <1>2, <1>3 DEF Release

(***************************************************************************)
(* The steps of a session without the lock.                                *)
(***************************************************************************)

LEMMA OutsiderMoves ==
    ASSUME PathInv, NEW p \in Proc, pc[p] \in Unlocked, NEW l \in Unlocked,
           pc' = [pc EXCEPT ![p] = l],
           NEW s \in Signal \cup {NoSignal}, sig' = [sig EXCEPT ![p] = s],
           l # "idle" => s \in Signal,
           UNCHANGED <<attempts, sent, risk, now, lock, act, cycles>>
    PROVE  PathInv'
<1>1. RowShape' /\ Rows' = Rows
  BY FrameStore DEF Frame, Rows
<1>2. /\ sig' \in [Proc -> Signal \cup {NoSignal}]
      /\ \A q \in Proc : q # p => sig'[q] = sig[q]
      /\ l # "idle" => sig'[p] \in Signal
  BY DEF PathInv, Shape
<1>3. QED
  BY <1>1, <1>2, OutsiderStep

LEMMA SurroundingsStep ==
    ASSUME PathInv, UNCHANGED <<attempts, sent, risk, now, lock, act, cycles, pc, sig>>
    PROVE  PathInv'
<1>1. Rows' = Rows
  BY DEF Rows
<1>2. Shape' /\ AttemptsOK'
  BY <1>1 DEF PathInv, Shape, RowShape, AttemptsOK
<1>3. /\ \A s \in Signal : EntryDay(s)' = EntryDay(s)
      /\ \A s \in Signal : Charged(s)' = Charged(s)
  BY DEF EntryDay, Day, Charged
<1>4. ChargeOK'
  BY <1>3 DEF PathInv, ChargeOK, Day
<1>5. ASSUME NEW p \in Proc
      PROVE  SessionOK(p)'
  BY <1>3 DEF PathInv, SessionOK, HolderOK
<1>6. QED
  BY <1>2, <1>4, <1>5 DEF PathInv

LEMMA PrepareKeeps ==
    ASSUME PathInv, NEW p \in Proc, NEW s \in Signal, Prepare(p, s)
    PROVE  PathInv'
<1>1. UNCHANGED <<attempts, sent, risk, now, lock, act, cycles>>
  BY DEF Prepare, brokerVars, fileVars
<1>2. CASE Goto(p, "prepared") /\ sig' = [sig EXCEPT ![p] = s]
  BY <1>1, <1>2, OutsiderMoves DEF Prepare, Goto, Unlocked
<1>3. CASE UNCHANGED <<pc, sig>>
  BY <1>1, <1>3, SurroundingsStep
<1>4. QED
  BY <1>2, <1>3 DEF Prepare

LEMMA ReserveCycleKeeps ==
    ASSUME PathInv, NEW p \in Proc, ReserveCycle(p)
    PROVE  PathInv'
<1>1. /\ UNCHANGED <<sent, risk, now, lock, act>>
      /\ pc[p] = "prepared" /\ sig[p] \in Signal
  BY DEF PathInv, SessionOK, ReserveCycle, brokerVars, fileVars
<1>2. CASE /\ ReserveAllowed(sig[p]) /\ Reserve(sig[p])
           /\ Goto(p, "reserved") /\ UNCHANGED sig
  <2>1. /\ RowShape' /\ UNCHANGED attempts
        /\ \A t \in Signal : cycles[t].at # NoTime =>
              /\ cycles'[t].at = cycles[t].at
              /\ cycles'[t].loss = cycles[t].loss
              /\ t \in Rows => t \in Rows'
    BY <1>1, <1>2, ReserveKeepsRows DEF Reserve
  <2>2. QED
    BY <1>1, <1>2, <2>1, OutsiderStep DEF PathInv, Shape, Goto, Unlocked
<1>3. CASE Goto(p, "idle") /\ sig' = [sig EXCEPT ![p] = NoSignal] /\ UNCHANGED storeVars
  BY <1>1, <1>3, OutsiderMoves DEF Goto, Unlocked, storeVars
<1>4. QED
  BY <1>2, <1>3 DEF ReserveCycle

LEMMA IssuePermitKeeps ==
    ASSUME PathInv, NEW p \in Proc, IssuePermit(p)
    PROVE  PathInv'
<1>1. /\ UNCHANGED <<attempts, sent, risk, now, lock, act, cycles, sig>>
      /\ pc[p] = "reserved" /\ sig[p] \in Signal
  BY DEF PathInv, SessionOK, IssuePermit, brokerVars, storeVars
<1>2. sig' = [sig EXCEPT ![p] = sig[p]]
  BY <1>1 DEF PathInv, Shape
<1>3. PICK l \in {"permitted", "release"} : pc' = [pc EXCEPT ![p] = l]
  BY DEF IssuePermit, Goto
<1>4. QED
  BY <1>1, <1>2, <1>3, OutsiderMoves DEF Unlocked

LEMMA BindKeeps ==
    ASSUME PathInv, NEW p \in Proc, Bind(p)
    PROVE  PathInv'
<1>1. /\ UNCHANGED <<attempts, sent, risk, now, cycles, sig>>
      /\ pc[p] = "permitted" /\ sig[p] \in Signal
  BY DEF PathInv, SessionOK, Bind, brokerVars, fileVars
<1>2. CASE /\ OnlyRow(sig[p]) /\ lock = NoProc
           /\ Goto(p, "executions") /\ lock' = p /\ act' = "PREFLIGHT"
  <2>1. \A j \in attempts : j[1] = sig[p]
    BY <1>2 DEF PathInv, AttemptsOK, OnlyRow
  <2>2. Shape' /\ AttemptsOK' /\ ChargeOK'
    BY <1>1, <1>2, FrameStore, FrameKeeps DEF PathInv, Shape, Goto, Label
  <2>3. pc'[p] = "executions"
    BY <1>2 DEF PathInv, Shape, Goto
  <2>4. SessionOK(p)'
    BY <1>1, <1>2, <2>1, <2>3 DEF SessionOK, HolderOK, Preflighting
  <2>5. ASSUME NEW q \in Proc, q # p
        PROVE  SessionOK(q)'
    <3>1. pc'[q] = pc[q]
      BY <1>2, <2>5 DEF PathInv, Shape, Goto
    <3>2. pc[q] # "idle" => sig[q] \in Signal /\ pc[q] \in Unlocked
      BY <1>2, ActualPathAssumption DEF PathInv, SessionOK, HolderOK
    <3>3. QED
      BY <1>1, <3>1, <3>2 DEF SessionOK
  <2>6. QED
    BY <2>2, <2>4, <2>5 DEF PathInv
<1>3. CASE Goto(p, "release") /\ UNCHANGED <<lock, act>>
  <2>1. sig' = [sig EXCEPT ![p] = sig[p]]
    BY <1>1 DEF PathInv, Shape
  <2>2. QED
    BY <1>1, <1>3, <2>1, OutsiderMoves DEF Goto, Unlocked
<1>4. QED
  BY <1>2, <1>3 DEF Bind

LEMMA ReleaseReservationKeeps ==
    ASSUME PathInv, NEW p \in Proc, ReleaseReservation(p)
    PROVE  PathInv'
<1>1. /\ UNCHANGED <<attempts, sent, risk, now, lock, act>>
      /\ pc[p] = "release" /\ sig[p] \in Signal
      /\ Release(sig[p]) /\ Goto(p, "idle") /\ sig' = [sig EXCEPT ![p] = NoSignal]
  BY DEF PathInv, SessionOK, ReleaseReservation, Release, brokerVars, fileVars
<1>2. /\ RowShape'
      /\ \A t \in Signal : cycles[t].at # NoTime =>
            /\ cycles'[t].at = cycles[t].at
            /\ cycles'[t].loss = cycles[t].loss
            /\ t \in Rows => t \in Rows'
  BY <1>1, ReleaseKeepsRows
<1>3. /\ sig' \in [Proc -> Signal \cup {NoSignal}]
      /\ \A q \in Proc : q # p => sig'[q] = sig[q]
  BY <1>1 DEF PathInv, Shape
<1>4. QED
  BY <1>1, <1>2, <1>3, OutsiderStep DEF Goto, Unlocked

(***************************************************************************)
(* The steps of the holder that leave attempts, history and risk file      *)
(* alone.                                                                  *)
(***************************************************************************)

\* A holder that has its entry behind it moves on.
LEMMA HolderGoesOn ==
    ASSUME PathInv, NEW p \in Proc, pc[p] \notin Unlocked, Frame,
           <<sig[p], Market>> \in attempts,
           NEW l \in Label, l \notin {"charge", "post"},
           pc' = [pc EXCEPT ![p] = l], sig' = sig, lock' = lock,
           l = "attempt" => act' \in Action,
           l = "result" => cycles'[sig[p]].loss \in Nat
    PROVE  PathInv'
<1>1. HolderOK(p) /\ lock = p
  BY HolderFacts
<1>2. pc'[p] = l
  BY DEF PathInv, Shape
<1>3. HolderOK(p)'
  BY <1>1, <1>2 DEF HolderOK, Frame
<1>4. QED
  BY <1>3, HolderMoves

LEMMA ReadingsKeep ==
    ASSUME PathInv, NEW p \in Proc,
           ReadExecutions(p) \/ ReadPositions(p) \/ ReadOrders(p)
    PROVE  PathInv'
<1>1. /\ UNCHANGED <<attempts, sent, risk, now, cycles>>
      /\ pc[p] \in {"executions", "positions", "orders"}
  BY DEF ReadExecutions, ReadPositions, ReadOrders, RaiseHalted, storeVars, brokerVars,
         fileVars
<1>2. Frame /\ pc[p] \notin Unlocked
  BY <1>1, FrameStore DEF Unlocked
<1>3. ASSUME NEW l \in {"positions", "orders", "preflight", "exit", "recover"},
             l = "preflight" => act = "PREFLIGHT",
             l \in {"exit", "recover"} => act # "PREFLIGHT",
             pc' = [pc EXCEPT ![p] = l], UNCHANGED <<sig, act, lock>>
      PROVE  PathInv'
  <2>1. HolderOK(p) /\ lock = p
    BY <1>2, HolderFacts
  <2>2. pc'[p] = l
    BY <1>3 DEF PathInv, Shape
  <2>3. HolderOK(p)'
    BY <1>1, <1>3, <2>1, <2>2 DEF HolderOK, Preflighting
  <2>4. QED
    BY <1>2, <1>3, <2>3, HolderMoves DEF Label
<1>4. CASE ReadExecutions(p)
  BY <1>3, <1>4 DEF ReadExecutions, Goto
<1>5. CASE ReadPositions(p)
  BY <1>3, <1>5 DEF ReadPositions, Goto
<1>6. CASE Goto(p, Observed) /\ UNCHANGED <<sig, act, lock>>
  BY <1>3, <1>6 DEF Observed, Goto
<1>7. CASE Raise(p)
  BY <1>2, <1>7, RaiseKeeps
<1>8. QED
  BY <1>4, <1>5, <1>6, <1>7 DEF ReadOrders, RaiseHalted

LEMMA RaisesKeep ==
    ASSUME PathInv, NEW p \in Proc, pc[p] \notin Unlocked,
           RaiseHalted(p) \/ RaiseUnhalted(p), UNCHANGED <<sent, risk, now>>
    PROVE  PathInv'
<1>1. UNCHANGED <<attempts, cycles>> /\ Raise(p)
  BY DEF RaiseHalted, RaiseUnhalted, storeVars
<1>2. QED
  BY <1>1, FrameStore, RaiseKeeps

LEMMA PreflightKeeps ==
    ASSUME PathInv, NEW p \in Proc, Preflight(p)
    PROVE  PathInv'
<1>1. UNCHANGED <<sent, risk, now>> /\ pc[p] = "preflight" /\ pc[p] \notin Unlocked
  BY DEF Preflight, brokerVars, fileVars, Unlocked
<1>2. HolderOK(p) /\ lock = p /\ sig[p] \in Signal
  BY <1>1, HolderFacts
<1>3. CASE /\ cycles' = [cycles EXCEPT ![sig[p]].preflight = TRUE]
           /\ Goto(p, "attempt") /\ act' = Market /\ UNCHANGED <<attempts, sig, lock>>
  <2>1. Frame
    BY <1>1, <1>2, <1>3, RowFieldWritten DEF Frame
  <2>2. pc'[p] = "attempt"
    BY <1>3 DEF PathInv, Shape, Goto
  <2>3. HolderOK(p)'
    BY <1>1, <1>2, <1>3, <2>2 DEF HolderOK, Action
  <2>4. QED
    BY <1>1, <1>3, <2>1, <2>3, HolderMoves DEF Goto, Label
<1>4. CASE RaiseUnhalted(p)
  BY <1>1, <1>4, RaisesKeep
<1>5. QED
  BY <1>3, <1>4 DEF Preflight

LEMMA OutcomeKeeps ==
    ASSUME PathInv, NEW p \in Proc, Outcome(p)
    PROVE  PathInv'
<1>1. UNCHANGED <<attempts, sent, risk, now, cycles>> /\ pc[p] \in Reply
  BY DEF Outcome, brokerVars, fileVars
<1>2. Frame /\ pc[p] \notin Unlocked
  BY <1>1, FrameStore DEF Unlocked, Reply
<1>3. CASE Goto(p, "executions") /\ UNCHANGED <<sig, act, lock>>
  <2>1. <<sig[p], Market>> \in attempts
    BY <1>1, <1>2, HolderFacts DEF HolderOK, Preflighting, Reply
  <2>2. QED
    BY <1>2, <1>3, <2>1, HolderGoesOn DEF Goto, Label
<1>4. CASE NotAccepted(p)
  BY <1>2, <1>4, RaiseKeeps, LeaveKeeps DEF NotAccepted
<1>5. QED
  BY <1>3, <1>4 DEF Outcome

LEMMA RecoverKeeps ==
    ASSUME PathInv, NEW p \in Proc, Recover(p)
    PROVE  PathInv'
<1>1. UNCHANGED <<attempts, sent, risk, now, cycles>> /\ pc[p] = "recover"
  BY DEF Recover, Resolve, RaiseHalted, RaiseUnhalted, storeVars, brokerVars, fileVars
<1>2. Frame /\ pc[p] \notin Unlocked /\ <<sig[p], Market>> \in attempts
  BY <1>1, FrameStore, HolderFacts DEF HolderOK, Preflighting, Unlocked
<1>3. CASE Leave(p)
  BY <1>2, <1>3, LeaveKeeps
<1>4. CASE Raise(p)
  BY <1>2, <1>4, RaiseKeeps
<1>5. ASSUME NEW class, NextStage(class)[1] # "idle",
             Goto(p, NextStage(class)[1]), act' = NextStage(class)[2],
             UNCHANGED <<sig, lock>>
      PROVE  PathInv'
  <2>1. NextStage(class) \in
            {<<"attempt", CancelRemainder>>, <<"plan", act>>, <<"confirm", act>>,
             <<"attempt", TimeExit>>, <<"metrics", act>>, <<"fail", act>>,
             <<"idle", "NONE">>}
    BY DEF NextStage
  <2>2. PICK l \in {"attempt", "plan", "confirm", "metrics", "fail"} :
            /\ l = NextStage(class)[1]
            /\ l = "attempt" => NextStage(class)[2] \in Action
    BY <1>5, <2>1 DEF Action
  <2>3. QED
    BY <1>2, <1>5, <2>2, HolderGoesOn DEF Goto, Label
<1>6. QED
  BY <1>3, <1>4, <1>5 DEF Recover, RaiseHalted, RaiseUnhalted

LEMMA PersistPlanKeeps ==
    ASSUME PathInv, NEW p \in Proc, PersistPlan(p)
    PROVE  PathInv'
<1>1. UNCHANGED <<sent, risk, now>> /\ pc[p] = "plan" /\ pc[p] \notin Unlocked
  BY DEF PersistPlan, brokerVars, fileVars, Unlocked
<1>2. <<sig[p], Market>> \in attempts /\ sig[p] \in Signal
  BY <1>1, HolderFacts DEF HolderOK, Preflighting
<1>3. CASE /\ cycles' = [cycles EXCEPT ![sig[p]].plan = view.filled]
           /\ Goto(p, "attempt") /\ act' = Protect /\ UNCHANGED <<attempts, sig, lock>>
  <2>1. Frame
    BY <1>1, <1>2, <1>3, RowFieldWritten DEF Frame
  <2>2. QED
    BY <1>1, <1>2, <1>3, <2>1, HolderGoesOn DEF Goto, Label, Action
<1>4. CASE RaiseUnhalted(p)
  BY <1>1, <1>4, RaisesKeep
<1>5. QED
  BY <1>3, <1>4 DEF PersistPlan

LEMMA ConfirmKeeps ==
    ASSUME PathInv, NEW p \in Proc, Confirm(p)
    PROVE  PathInv'
<1>1. UNCHANGED <<sent, risk, now>> /\ pc[p] = "confirm" /\ pc[p] \notin Unlocked
  BY DEF Confirm, brokerVars, fileVars, Unlocked
<1>2. <<sig[p], Market>> \in attempts /\ sig[p] \in Signal
  BY <1>1, HolderFacts DEF HolderOK, Preflighting
<1>3. CASE /\ cycles' = [cycles EXCEPT ![sig[p]].confirmed = TRUE]
           /\ Goto(p, "drive") /\ UNCHANGED <<attempts, sig, act, lock>>
  <2>1. Frame
    BY <1>1, <1>2, <1>3, RowFieldWritten DEF Frame
  <2>2. QED
    BY <1>1, <1>2, <1>3, <2>1, HolderGoesOn DEF Goto, Label
<1>4. CASE RaiseHalted(p) \/ RaiseUnhalted(p)
  BY <1>1, <1>4, RaisesKeep
<1>5. QED
  BY <1>3, <1>4 DEF Confirm

LEMMA DriveKeeps ==
    ASSUME PathInv, NEW p \in Proc, Drive(p)
    PROVE  PathInv'
<1>1. UNCHANGED <<attempts, sent, risk, now, cycles>> /\ pc[p] = "drive"
  BY DEF Drive, storeVars, brokerVars, fileVars
<1>2. Frame /\ pc[p] \notin Unlocked /\ <<sig[p], Market>> \in attempts
  BY <1>1, FrameStore, HolderFacts DEF HolderOK, Preflighting, Unlocked
<1>3. CASE Goto(p, "claim") /\ UNCHANGED <<sig, act, lock>>
  BY <1>2, <1>3, HolderGoesOn DEF Goto, Label
<1>4. CASE Raise(p) \/ Leave(p)
  BY <1>2, <1>4, RaiseKeeps, LeaveKeeps
<1>5. QED
  BY <1>3, <1>4 DEF Drive

LEMMA ClaimKeeps ==
    ASSUME PathInv, NEW p \in Proc, Claim(p)
    PROVE  PathInv'
<1>1. UNCHANGED <<attempts, sent, risk, now, cycles>> /\ pc[p] = "claim"
  BY DEF Claim, storeVars, brokerVars
<1>2. Frame /\ pc[p] \notin Unlocked /\ <<sig[p], Market>> \in attempts
  BY <1>1, FrameStore, HolderFacts DEF HolderOK, Preflighting, Unlocked
<1>3. ASSUME NEW l \in {"executions", "fail"}, Goto(p, l), UNCHANGED <<sig, lock>>
      PROVE  PathInv'
  BY <1>2, <1>3, HolderGoesOn DEF Goto, Label
<1>4. CASE Raise(p)
  BY <1>2, <1>4, RaiseKeeps
<1>5. QED
  BY <1>3, <1>4 DEF Claim

LEMMA ExitKeeps ==
    ASSUME PathInv, NEW p \in Proc, Exit(p)
    PROVE  PathInv'
<1>1. UNCHANGED <<attempts, sent, risk, now, cycles>> /\ pc[p] = "exit"
  BY DEF Exit, storeVars, brokerVars, fileVars
<1>2. Frame /\ pc[p] \notin Unlocked /\ <<sig[p], Market>> \in attempts
  BY <1>1, FrameStore, HolderFacts DEF HolderOK, Preflighting, Unlocked
<1>3. ASSUME NEW l \in {"metrics", "attempt"}, Goto(p, l), UNCHANGED <<sig, lock>>,
             l = "attempt" => act' = CancelProtection
      PROVE  PathInv'
  BY <1>2, <1>3, HolderGoesOn DEF Goto, Label, Action
<1>4. QED
  BY <1>3 DEF Exit

LEMMA RecordMetricsKeeps ==
    ASSUME PathInv, NEW p \in Proc, RecordMetrics(p)
    PROVE  PathInv'
<1>1. UNCHANGED <<sent, risk, now>> /\ pc[p] = "metrics" /\ pc[p] \notin Unlocked
  BY DEF RecordMetrics, brokerVars, fileVars, Unlocked
<1>2. <<sig[p], Market>> \in attempts /\ sig[p] \in Signal
  BY <1>1, HolderFacts DEF HolderOK, Preflighting
<1>3. ASSUME NEW loss \in Nat, cycles' = [cycles EXCEPT ![sig[p]].loss = loss],
             Goto(p, "result"), UNCHANGED <<attempts, sig, lock>>
      PROVE  PathInv'
  <2>1. Frame /\ cycles'[sig[p]].loss = loss
    BY <1>1, <1>2, <1>3, RowFieldWritten DEF Frame
  <2>2. QED
    BY <1>1, <1>2, <1>3, <2>1, HolderGoesOn DEF Goto, Label
<1>4. CASE RaiseHalted(p) \/ RaiseUnhalted(p)
  BY <1>1, <1>4, RaisesKeep
<1>5. PerTradeLossBound \in Nat
  BY PolicyFacts
<1>6. \A loss \in 0..PerTradeLossBound : loss \in Nat
  BY <1>5
<1>7. QED
  BY <1>3, <1>4, <1>6 DEF RecordMetrics

LEMMA CompleteExitKeeps ==
    ASSUME PathInv, NEW p \in Proc, CompleteExit(p)
    PROVE  PathInv'
<1>1. UNCHANGED <<attempts, sent, risk, now, cycles>> /\ pc[p] = "complete" /\ Leave(p)
  BY DEF CompleteExit, storeVars, brokerVars
<1>2. QED
  BY <1>1, FrameStore, LeaveKeeps DEF Unlocked

LEMMA FailExitKeeps ==
    ASSUME PathInv, NEW p \in Proc, FailExit(p)
    PROVE  PathInv'
<1>1. UNCHANGED <<attempts, sent, risk, now, cycles, sig>> /\ pc[p] = "fail"
      /\ Goto(p, "release") /\ Unlock
  BY DEF FailExit, brokerVars
<1>2. QED
  BY <1>1, FrameStore, HolderFacts, HolderLetsGo DEF Goto, Unlocked

(***************************************************************************)
(* The steps of the holder that write attempts, history or risk file.      *)
(***************************************************************************)

\* What an attempt of the holder writes.
LEMMA AttemptWritten ==
    ASSUME PathInv, NEW s \in Signal, NEW a \in Action, NEW size,
           s \in Rows, \A j \in attempts : j[1] = s,
           a # Market => <<s, Market>> \in attempts,
           AttemptFree(s, a), RecordAttempt(s, a, size), UNCHANGED <<sent, now>>
    PROVE  /\ RowShape' /\ AttemptsOK'
           /\ attempts' \subseteq Signal \X Action
           /\ \A j \in attempts' : j[1] = s
           /\ <<s, a>> \in attempts' /\ sent[<<s, a>>] = 0
           /\ IF a = Market THEN cycles'[s].at = now ELSE RowsKept
<1> DEFINE c == cycles[s]
<1>1. /\ c = [born |-> c.born, day |-> c.day, preflight |-> c.preflight, at |-> c.at,
              plan |-> c.plan, confirmed |-> c.confirmed, settle |-> c.settle,
              loss |-> c.loss]
      /\ c.born \in Nat /\ c.at \in Nat \cup {NoTime} /\ c.at <= now
      /\ now \in Nat /\ now # NoTime
      /\ cycles = [t \in Signal |-> cycles[t]]
  BY DEF PathInv, Shape, RowShape, NoTime
<1>2. PICK r : /\ cycles' = [cycles EXCEPT ![s] = r]
               /\ r = [born |-> c.born, day |-> c.day, preflight |-> c.preflight,
                       at |-> IF a = Market THEN now ELSE c.at, plan |-> c.plan,
                       confirmed |-> c.confirmed, settle |-> r.settle, loss |-> c.loss]
  <2> DEFINE m == [c EXCEPT !.at = IF a = Market THEN now ELSE @]
             n == [m EXCEPT !.settle = IF a = TimeExit THEN size ELSE @]
  <2>1. cycles' = [cycles EXCEPT ![s] = n]
    BY <1>1 DEF RecordAttempt
  <2>2. m = [born |-> c.born, day |-> c.day, preflight |-> c.preflight,
             at |-> IF a = Market THEN now ELSE c.at, plan |-> c.plan,
             confirmed |-> c.confirmed, settle |-> c.settle, loss |-> c.loss]
    BY <1>1
  <2> HIDE DEF m
  <2>3. n = [born |-> c.born, day |-> c.day, preflight |-> c.preflight,
             at |-> IF a = Market THEN now ELSE c.at, plan |-> c.plan,
             confirmed |-> c.confirmed, settle |-> n.settle, loss |-> c.loss]
    BY <2>2
  <2> HIDE DEF n
  <2>4. QED
    BY <2>1, <2>3
<1>3. cycles'[s] = r /\ \A t \in Signal : t # s => cycles'[t] = cycles[t]
  BY <1>1, <1>2
<1>4. r.born = c.born /\ r.at = IF a = Market THEN now ELSE c.at
  BY <1>2
<1>5. Rows' = Rows
  BY <1>3, <1>4 DEF Rows
<1>6. RowShape'
  <2>1. cycles' = [t \in Signal |-> cycles'[t]]
    BY <1>1, <1>2
  <2>2. ASSUME NEW t \in Signal
        PROVE  /\ cycles'[t] =
                    [born |-> cycles'[t].born, day |-> cycles'[t].day,
                     preflight |-> cycles'[t].preflight, at |-> cycles'[t].at,
                     plan |-> cycles'[t].plan, confirmed |-> cycles'[t].confirmed,
                     settle |-> cycles'[t].settle, loss |-> cycles'[t].loss]
               /\ cycles'[t].born \in Nat
               /\ cycles'[t].at \in Nat \cup {NoTime}
               /\ cycles'[t].at <= now'
               /\ cycles'[t].at # NoTime => t \in Rows'
    <3>1. CASE t = s
      <4>1. r = [born |-> r.born, day |-> r.day, preflight |-> r.preflight, at |-> r.at,
                 plan |-> r.plan, confirmed |-> r.confirmed, settle |-> r.settle,
                 loss |-> r.loss]
        BY <1>2
      <4>2. QED
        BY <1>1, <1>3, <1>4, <1>5, <3>1, <4>1
    <3>2. CASE t # s
      BY <1>3, <1>5, <3>2 DEF PathInv, Shape, RowShape
    <3>3. QED
      BY <3>1, <3>2
  <2>3. QED
    BY <1>5, <2>1, <2>2 DEF PathInv, Shape, RowShape
<1>7. attempts' = attempts \cup {<<s, a>>} /\ <<s, a>> \notin attempts
  BY DEF RecordAttempt, AttemptFree
<1>8. cycles'[s].at # NoTime
  <2>1. CASE a = Market
    BY <1>1, <1>3, <1>4, <2>1
  <2>2. CASE a # Market
    BY <1>3, <1>4, <2>2 DEF PathInv, AttemptsOK
  <2>3. QED
    BY <2>1, <2>2
<1>9. \A j \in attempts' : j[1] = s
  BY <1>7
<1>10. AttemptsOK' /\ sent[<<s, a>>] = 0
  <2>1. \A j \in Signal \X Action : sent[j] \in {0, 1} /\ (sent[j] = 1 => j \in attempts)
    BY DEF PathInv, AttemptsOK
  <2>2. sent[<<s, a>>] = 0
    BY <1>7, <2>1
  <2>3. QED
    BY <1>5, <1>7, <1>8, <1>9, <2>1, <2>2 DEF AttemptsOK
<1>11. IF a = Market THEN cycles'[s].at = now ELSE RowsKept
  BY <1>3, <1>4 DEF RowsKept
<1>12. QED
  BY <1>6, <1>7, <1>9, <1>10, <1>11 DEF PathInv, Shape

LEMMA AttemptMarketKeeps ==
    ASSUME PathInv, NEW p \in Proc, AttemptMarket(p)
    PROVE  PathInv'
<1> DEFINE s == sig[p]
<1>1. /\ UNCHANGED <<sent, risk, now>>
      /\ pc[p] = "attempt" /\ act = Market /\ pc[p] \notin Unlocked
  BY DEF AttemptMarket, brokerVars, fileVars, Unlocked
<1>2. HolderOK(p) /\ lock = p /\ s \in Signal
  BY <1>1, HolderFacts
<1>3. CASE /\ EntryAllowed(s) /\ RecordAttempt(s, Market, RequestedSize)
           /\ Goto(p, "charge") /\ UNCHANGED <<sig, act, lock>>
  <2>1. /\ RowShape' /\ AttemptsOK'
        /\ attempts' \subseteq Signal \X Action
        /\ \A j \in attempts' : j[1] = s
        /\ <<s, Market>> \in attempts' /\ sent[<<s, Market>>] = 0
        /\ cycles'[s].at = now
    BY <1>1, <1>2, <1>3, AttemptWritten DEF HolderOK, EntryAllowed, Action
  <2>2. Shape'
    BY <1>1, <1>3, <2>1 DEF PathInv, Shape, Goto, Label
  <2>3. ChargeOK'
    <3>1. \A t \in Signal : sent[<<t, Market>>] # 1
      <4>1. ASSUME NEW t \in Signal, sent[<<t, Market>>] = 1
            PROVE  FALSE
        <5>1. <<t, Market>> \in attempts
          BY <4>1 DEF PathInv, AttemptsOK, Action
        <5>2. t = s
          BY <1>2, <5>1 DEF HolderOK
        <5>3. QED
          BY <2>1, <4>1, <5>2
      <4>2. QED
        BY <4>1
    <3>2. QED
      BY <1>1, <3>1 DEF PathInv, ChargeOK, Day
  <2>4. pc'[p] = "charge"
    BY <1>3 DEF PathInv, Shape, Goto
  <2>5. risk.day <= EntryDay(s)'
    BY <1>3, <2>1 DEF PathInv, ChargeOK, EntryDay, Day
  <2>6. HolderOK(p)'
    BY <1>1, <1>2, <1>3, <2>1, <2>4, <2>5 DEF HolderOK, EntryDay
  <2>7. SessionOK(p)'
    BY <1>2, <1>3, <2>6 DEF SessionOK
  <2>8. QED
    BY <1>2, <1>3, <2>1, <2>2, <2>3, <2>7, HolderStep DEF PathInv, Shape, Goto, Label
<1>4. CASE RaiseHalted(p) \/ RaiseUnhalted(p)
  BY <1>1, <1>4, RaisesKeep
<1>5. QED
  BY <1>3, <1>4 DEF AttemptMarket

LEMMA AttemptKeeps ==
    ASSUME PathInv, NEW p \in Proc, Attempt(p)
    PROVE  PathInv'
<1> DEFINE s == sig[p]
<1>1. /\ UNCHANGED <<sent, risk, now>>
      /\ pc[p] = "attempt" /\ act # Market /\ pc[p] \notin Unlocked
  BY DEF Attempt, brokerVars, fileVars, Unlocked
<1>2. /\ HolderOK(p) /\ lock = p /\ s \in Signal
      /\ act \in Action /\ <<s, Market>> \in attempts
  BY <1>1, HolderFacts DEF HolderOK, Preflighting
<1>3. ASSUME NEW size, AttemptFree(s, act), RecordAttempt(s, act, size),
             Goto(p, "post"), UNCHANGED <<sig, act, lock>>
      PROVE  PathInv'
  <2>1. s \in Rows
    BY <1>2 DEF PathInv, AttemptsOK
  <2>2. /\ RowShape' /\ AttemptsOK'
        /\ attempts' \subseteq Signal \X Action
        /\ \A j \in attempts' : j[1] = s
        /\ <<s, act>> \in attempts' /\ sent[<<s, act>>] = 0
        /\ RowsKept
    BY <1>1, <1>2, <1>3, <2>1, AttemptWritten DEF HolderOK
  <2>3. Shape'
    BY <1>1, <1>3, <2>2 DEF PathInv, Shape, Goto, Label
  <2>4. \A t \in Signal : EntryDay(t)' = EntryDay(t)
    BY <2>2 DEF RowsKept, EntryDay, Day
  <2>5. ChargeOK'
    BY <1>1, <2>4 DEF PathInv, ChargeOK, Charged, Day
  <2>6. pc'[p] = "post"
    BY <1>3 DEF PathInv, Shape, Goto
  <2>7. HolderOK(p)'
    <3>1. <<s, Market>> \in attempts'
      BY <1>2, <1>3 DEF RecordAttempt
    <3>2. QED
      BY <1>1, <1>2, <1>3, <2>2, <2>6, <3>1 DEF HolderOK
  <2>8. SessionOK(p)'
    BY <1>2, <1>3, <2>7 DEF SessionOK
  <2>9. QED
    BY <1>2, <1>3, <2>2, <2>3, <2>5, <2>8, HolderStep DEF PathInv, Shape, Goto, Label
<1>4. CASE RaiseHalted(p) \/ RaiseUnhalted(p)
  BY <1>1, <1>4, RaisesKeep
<1>5. QED
  BY <1>3, <1>4 DEF Attempt

LEMMA ChargeEntryKeeps ==
    ASSUME PathInv, NEW p \in Proc, ChargeEntry(p)
    PROVE  PathInv'
<1>1. /\ UNCHANGED <<attempts, sent, now, cycles>>
      /\ pc[p] = "charge" /\ pc[p] \notin Unlocked
      /\ risk' = RecordEntry(risk, EntryDay(sig[p]))
  BY DEF ChargeEntry, ChargeDay, EntryDay, storeVars, brokerVars, Unlocked
<1> PICK s \in Signal : s = sig[p]
  BY <1>1, HolderFacts
<1> PICK d : d = EntryDay(s)
  OBVIOUS
<1>2. /\ HolderOK(p) /\ lock = p /\ act = Market /\ <<s, Market>> \in attempts
  BY <1>1, HolderFacts DEF HolderOK
<1>3. /\ d \in Nat /\ d <= Day(now)
  <2>1. cycles[s].at \in Nat /\ cycles[s].at <= now /\ now \in Nat
    BY <1>2 DEF PathInv, Shape, RowShape, AttemptsOK
  <2>2. QED
    BY <2>1, DayFacts DEF EntryDay
<1>4. /\ risk' \in RiskState /\ risk'.day = d /\ risk'.entries > 0
  BY <1>1, <1>3, RecordEntryFacts DEF PathInv, Shape
<1>5. RowShape' /\ Rows' = Rows /\ AttemptsOK'
  <2>1. RowShape' /\ Rows' = Rows
    BY <1>1 DEF Rows, PathInv, Shape, RowShape
  <2>2. QED
    BY <1>1, <2>1 DEF PathInv, AttemptsOK
<1>6. \A t \in Signal : EntryDay(t)' = EntryDay(t)
  BY <1>1 DEF EntryDay, Day
<1>7. Charged(s)'
  BY <1>2, <1>3, <1>4, <1>6 DEF Charged
<1>8. ChargeOK'
  <2>1. ASSUME NEW t \in Signal, sent[<<t, Market>>] = 1
        PROVE  Charged(t)'
    <3>1. <<t, Market>> \in attempts
      BY <2>1 DEF PathInv, AttemptsOK, Action
    <3>2. t = s
      BY <1>2, <3>1 DEF HolderOK
    <3>3. QED
      BY <1>7, <3>2
  <2>2. risk'.day <= Day(now)'
    BY <1>1, <1>3, <1>4 DEF Day
  <2>3. QED
    BY <1>1, <2>1, <2>2 DEF ChargeOK
<1>9. CASE Goto(p, "post") /\ UNCHANGED <<sig, act, lock>>
  <2>1. pc'[p] = "post"
    BY <1>9 DEF PathInv, Shape, Goto
  <2>2. HolderOK(p)'
    BY <1>1, <1>2, <1>7, <1>9, <2>1 DEF HolderOK
  <2>3. Shape' /\ SessionOK(p)'
    BY <1>1, <1>2, <1>4, <1>5, <1>9, <2>2 DEF PathInv, Shape, SessionOK, Goto, Label
  <2>4. QED
    BY <1>2, <1>5, <1>8, <1>9, <2>3, HolderStep DEF PathInv, Shape, Goto, Label
<1>10. CASE Raise(p)
  <2>1. Goto(p, "release") /\ UNCHANGED sig /\ Unlock
    BY <1>2, <1>10 DEF Raise, ExitStages, Market, CancelProtection, TimeExit
  <2>2. pc'[p] = "release"
    BY <2>1 DEF PathInv, Shape, Goto
  <2>3. Shape' /\ SessionOK(p)'
    BY <1>1, <1>2, <1>4, <1>5, <2>1, <2>2
       DEF PathInv, Shape, SessionOK, Goto, Label, Unlock, Unlocked
  <2>4. QED
    BY <1>2, <1>5, <1>8, <2>1, <2>3, HolderStep DEF PathInv, Shape, Goto, Label, Unlock
<1>11. QED
  BY <1>9, <1>10 DEF ChargeEntry

\* A POST is dispatched once at most, and the entry's is charged before.
LEMMA PostKeeps ==
    ASSUME PathInv, NEW p \in Proc, Post(p)
    PROVE  PathInv'
<1> DEFINE s == sig[p]
<1>1. /\ UNCHANGED <<risk, now>>
      /\ pc[p] = "post" /\ pc[p] \notin Unlocked
  BY DEF Post, fileVars, Unlocked
<1>2. /\ HolderOK(p) /\ lock = p /\ s \in Signal
      /\ <<s, act>> \in attempts /\ <<s, Market>> \in attempts
      /\ sent[<<s, act>>] = 0
      /\ act = Market => Charged(s)
  BY <1>1, HolderFacts DEF HolderOK, Preflighting
<1>3. ASSUME NEW l \in Reply, Goto(p, l), UNCHANGED <<cycles, attempts, sig, act, lock>>,
             Count(s, act) \/ UNCHANGED sent
      PROVE  PathInv'
  <2>1. RowShape' /\ Rows' = Rows
    BY <1>1, <1>3 DEF Rows, PathInv, Shape, RowShape
  <2>2. /\ sent' \in [Signal \X Action -> Nat]
        /\ \A j \in Signal \X Action : sent'[j] = sent[j] \/ (j = <<s, act>> /\ sent'[j] = 1)
    BY <1>2, <1>3 DEF PathInv, Shape, Count
  <2>3. AttemptsOK'
    BY <1>2, <1>3, <2>1, <2>2 DEF PathInv, AttemptsOK
  <2>4. \A t \in Signal : Charged(t)' = Charged(t)
    BY <1>1, <1>3 DEF Charged, EntryDay, Day
  <2>5. ChargeOK'
    <3>1. ASSUME NEW t \in Signal, sent'[<<t, Market>>] = 1
          PROVE  Charged(t)
      <4>1. <<t, Market>> \in Signal \X Action
        BY DEF Action
      <4>2. CASE sent[<<t, Market>>] = 1
        BY <4>2 DEF PathInv, ChargeOK
      <4>3. CASE <<t, Market>> = <<s, act>>
        BY <1>2, <4>3
      <4>4. QED
        BY <2>2, <3>1, <4>1, <4>2, <4>3
    <3>2. QED
      BY <1>1, <2>4, <3>1 DEF PathInv, ChargeOK, Day
  <2>6. pc'[p] = l
    BY <1>3 DEF PathInv, Shape, Goto
  <2>7. l \in Label /\ l \notin {"attempt", "charge", "post", "result", "idle"}
    BY DEF Label, Reply
  <2>8. HolderOK(p)'
    BY <1>2, <1>3, <2>6, <2>7 DEF HolderOK
  <2>9. Shape' /\ SessionOK(p)'
    BY <1>1, <1>2, <1>3, <2>1, <2>2, <2>7, <2>8 DEF PathInv, Shape, SessionOK, Goto
  <2>10. QED
    BY <1>2, <1>3, <2>3, <2>5, <2>7, <2>9, HolderStep DEF PathInv, Shape, Goto
<1>4. CASE (RaiseHalted(p) \/ RaiseUnhalted(p)) /\ UNCHANGED sent
  BY <1>1, <1>4, RaisesKeep
<1>5. QED
  BY <1>3, <1>4 DEF Post, Reply

LEMMA ApplyResultKeeps ==
    ASSUME PathInv, NEW p \in Proc, ApplyResult(p)
    PROVE  PathInv'
<1> DEFINE s == sig[p]
<1>1. /\ UNCHANGED <<attempts, sent, now, cycles>>
      /\ pc[p] = "result" /\ pc[p] \notin Unlocked
  BY DEF ApplyResult, storeVars, brokerVars, Unlocked
<1>2. /\ HolderOK(p) /\ lock = p /\ s \in Signal
      /\ <<s, Market>> \in attempts /\ cycles[s].loss \in Nat
  BY <1>1, HolderFacts DEF HolderOK, Preflighting
<1>3. CASE Raise(p) /\ UNCHANGED risk
  BY <1>1, <1>3, FrameStore, RaiseKeeps
<1>4. CASE /\ risk' = RecordClosed(risk, Day(now), cycles[s].loss)
           /\ Goto(p, "complete") /\ UNCHANGED <<sig, act, lock>>
  <2>1. Day(now) \in Nat /\ now \in Nat
    BY DayFacts DEF PathInv, Shape
  <2>2. /\ risk' \in RiskState /\ risk'.day = Day(now)
        /\ risk.day = Day(now) => risk'.entries = risk.entries
    BY <1>2, <1>4, <2>1, RecordClosedKeepsEntries DEF PathInv, Shape
  <2>3. RowShape' /\ Rows' = Rows
    BY <1>1 DEF Rows, PathInv, Shape, RowShape
  <2>4. AttemptsOK'
    BY <1>1, <2>3 DEF PathInv, AttemptsOK
  <2>5. ChargeOK'
    <3>1. ASSUME NEW t \in Signal, sent[<<t, Market>>] = 1
          PROVE  Charged(t)'
      <4>1. Charged(t) /\ <<t, Market>> \in attempts
        BY <3>1 DEF PathInv, ChargeOK, AttemptsOK, Action
      <4>2. cycles[t].at \in Nat /\ cycles[t].at <= now
        BY <4>1 DEF PathInv, AttemptsOK, Shape, RowShape
      <4>3. EntryDay(t) \in Nat /\ EntryDay(t) <= Day(now) /\ EntryDay(t)' = EntryDay(t)
        BY <1>1, <2>1, <4>2, DayFacts DEF EntryDay, Day
      <4>4. risk.day <= Day(now) /\ risk.day \in Nat \cup {None}
        BY DEF PathInv, ChargeOK, Shape, RiskState
      <4>5. QED
        BY <2>1, <2>2, <4>1, <4>3, <4>4 DEF Charged, None
    <3>2. risk'.day <= Day(now)'
      BY <1>1, <2>1, <2>2 DEF Day
    <3>3. QED
      BY <1>1, <3>1, <3>2 DEF ChargeOK
  <2>6. pc'[p] = "complete"
    BY <1>4 DEF PathInv, Shape, Goto
  <2>7. HolderOK(p)'
    BY <1>1, <1>2, <1>4, <2>6 DEF HolderOK
  <2>8. Shape' /\ SessionOK(p)'
    BY <1>1, <1>2, <1>4, <2>2, <2>3, <2>7 DEF PathInv, Shape, SessionOK, Goto, Label
  <2>9. QED
    BY <1>2, <1>4, <2>4, <2>5, <2>8, HolderStep DEF PathInv, Shape, Goto, Label
<1>5. QED
  BY <1>3, <1>4 DEF ApplyResult

(***************************************************************************)
(* Crashes and the surroundings.                                           *)
(***************************************************************************)

LEMMA CrashKeeps ==
    ASSUME PathInv, NEW p \in Proc, Crash(p)
    PROVE  PathInv'
<1>1. /\ UNCHANGED <<attempts, sent, risk, now, cycles>>
      /\ pc[p] # "idle"
      /\ pc' = [pc EXCEPT ![p] = "idle"] /\ sig' = [sig EXCEPT ![p] = NoSignal]
  BY DEF Crash, Goto, storeVars, brokerVars, fileVars
<1>2. CASE lock = p
  BY <1>1, <1>2, FrameStore, HolderLetsGo DEF Crash
<1>3. CASE lock # p
  <2>1. pc[p] \in Unlocked
    BY <1>3, HolderFacts
  <2>2. QED
    BY <1>1, <1>3, <2>1, OutsiderMoves DEF Crash, Unlocked
<1>4. QED
  BY <1>2, <1>3

LEMMA ClockKeeps ==
    ASSUME PathInv, Clock
    PROVE  PathInv'
<1>1. /\ UNCHANGED <<attempts, sent, risk, lock, act, cycles, pc, sig>>
      /\ now \in Nat /\ now' = now + 1 /\ now' \in Nat
  BY DEF PathInv, Shape, Clock, storeVars, brokerVars, sessionVars, fileVars
<1>2. Rows' = Rows
  BY <1>1 DEF Rows
<1>3. \A s \in Signal : cycles[s].at <= now => cycles[s].at <= now'
  <2>1. \A s \in Signal : cycles[s].at \in Nat \cup {NoTime}
    BY DEF PathInv, Shape, RowShape
  <2>2. QED
    BY <1>1, <2>1 DEF NoTime
<1>4. Shape' /\ AttemptsOK'
  BY <1>1, <1>2, <1>3 DEF PathInv, Shape, RowShape, AttemptsOK
<1>5. /\ \A s \in Signal : EntryDay(s)' = EntryDay(s)
      /\ \A s \in Signal : Charged(s)' = Charged(s)
  BY <1>1 DEF EntryDay, Day, Charged
<1>6. Day(now) \in Nat /\ Day(now') \in Nat /\ Day(now) <= Day(now')
  BY <1>1, DayFacts
<1>7. risk.day \in Int /\ risk.day <= Day(now)
  BY DEF PathInv, ChargeOK, Shape, RiskState, None
<1>8. ChargeOK'
  BY <1>1, <1>5, <1>6, <1>7 DEF PathInv, ChargeOK, Day
<1>9. ASSUME NEW p \in Proc
      PROVE  SessionOK(p)'
  BY <1>1, <1>5 DEF PathInv, SessionOK, HolderOK
<1>10. QED
  BY <1>4, <1>8, <1>9 DEF PathInv

LEMMA PathInitKeeps ==
    ASSUME PathInit
    PROVE  PathInv
<1>1. Rows = {} /\ IsFiniteSet({})
  BY FS_EmptySet DEF PathInit, StoreInit, NoRow, Rows
<1>2. RowShape
  <2>1. cycles = [s \in Signal |-> NoRow] /\ now = 0
    BY DEF PathInit, StoreInit
  <2>2. \A s \in Signal : cycles[s] = NoRow
    BY <2>1
  <2>3. /\ NoRow = [born |-> NoRow.born, day |-> NoRow.day, preflight |-> NoRow.preflight,
                    at |-> NoRow.at, plan |-> NoRow.plan, confirmed |-> NoRow.confirmed,
                    settle |-> NoRow.settle, loss |-> NoRow.loss]
        /\ NoRow.born \in Nat /\ NoRow.at = NoTime /\ NoTime <= 0
    BY DEF NoRow, NoTime
  <2>4. cycles = [s \in Signal |-> cycles[s]]
    BY <2>1
  <2>5. QED
    BY <1>1, <2>1, <2>2, <2>3, <2>4 DEF RowShape
<1>3. InitialRisk \in RiskState
  BY DEF InitialRisk, RiskState, StopState
<1>4. Shape
  BY <1>2, <1>3 DEF PathInit, StoreInit, BrokerInit, Shape, Label
<1>5. AttemptsOK
  BY DEF PathInit, StoreInit, BrokerInit, AttemptsOK
<1>6. ChargeOK
  <2>1. risk.day = None /\ Day(now) \in Nat
    BY DayFacts DEF PathInit, InitialRisk
  <2>2. \A s \in Signal : sent[<<s, Market>>] = 0
    BY DEF PathInit, BrokerInit, Action
  <2>3. QED
    BY <2>1, <2>2 DEF ChargeOK, None
<1>7. QED
  BY <1>4, <1>5, <1>6 DEF PathInit, PathInv, SessionOK

LEMMA SessionStepKeeps ==
    ASSUME PathInv, NEW p \in Proc, SessionStep(p)
    PROVE  PathInv'
  BY PrepareKeeps, ReserveCycleKeeps, IssuePermitKeeps, BindKeeps, ReadingsKeep,
     PreflightKeeps, AttemptMarketKeeps, ChargeEntryKeeps, PostKeeps, OutcomeKeeps,
     RecoverKeeps, PersistPlanKeeps, AttemptKeeps, ConfirmKeeps, DriveKeeps, ClaimKeeps,
     ExitKeeps, RecordMetricsKeeps, ApplyResultKeeps, CompleteExitKeeps, FailExitKeeps,
     ReleaseReservationKeeps
     DEF SessionStep

LEMMA PathStepKeeps ==
    ASSUME PathInv, [PathNext]_pathVars
    PROVE  PathInv'
<1>1. ASSUME NEW p \in Proc, SessionStep(p) \/ Crash(p)
      PROVE  PathInv'
  BY <1>1, SessionStepKeeps, CrashKeeps
<1>2. CASE SupervisorTick \/ WeekendTargetMissed \/ ObserveAccount \/ ConsoleReconciles
  BY <1>2, SurroundingsStep
     DEF SupervisorTick, WeekendTargetMissed, ObserveAccount, ConsoleReconciles,
         ReconcileExternalFlat, storeVars, brokerVars, sessionVars, fileVars
<1>3. CASE BrokerStep
  BY <1>3, SurroundingsStep
     DEF BrokerStep, OrderTakesEffect, RemainderFills, OcoFires, OperatorFlattens,
         storeVars, sessionVars, fileVars
<1>4. CASE Clock
  BY <1>4, ClockKeeps
<1>5. CASE UNCHANGED pathVars
  BY <1>5, SurroundingsStep DEF pathVars, storeVars, brokerVars, sessionVars, fileVars
<1>6. QED
  BY <1>1, <1>2, <1>3, <1>4, <1>5 DEF PathNext

LEMMA PathInvHolds == PathSpec => []PathInv
  BY PathInitKeeps, PathStepKeeps, PTL DEF PathSpec

(***************************************************************************)
(* The theorems.                                                           *)
(***************************************************************************)

\* Whatever crashes, and whenever midnight falls, an entry that was sent is
\* charged in the risk file to the day of its attempt.
THEOREM EntriesAreCharged == PathSpec => []PostIsCharged
<1>1. PathInv => PostIsCharged
  <2>1. SUFFICES ASSUME PathInv, NEW s \in Signal, sent[<<s, Market>>] > 0
                 PROVE  Charged(s)
    BY DEF PostIsCharged, Charged
  <2>2. sent[<<s, Market>>] = 1
    BY <2>1 DEF PathInv, AttemptsOK, Action
  <2>3. QED
    BY <2>1, <2>2 DEF PathInv, ChargeOK
<1>2. QED
  BY <1>1, PathInvHolds, PTL

(***************************************************************************)
(* The refinement.  A step either leaves the attempts and the history      *)
(* alone and at most clears the marker, or records an attempt while there  *)
(* is no marker, or dispatches the attempt that the marker names.          *)
(***************************************************************************)

Quiet == attempts' = attempts /\ sent' = sent /\ pending' \in {pending, {}}

Records(j) ==
    /\ j \notin attempts /\ pending = {}
    /\ attempts' = attempts \cup {j} /\ pending' = {j} /\ sent' = sent

Dispatches(j) ==
    /\ j \in attempts /\ pending = {j} /\ sent[j] = 0
    /\ attempts' = attempts /\ pending' = pending /\ sent' = [sent EXCEPT ![j] = @ + 1]

Job == Signal \X Action

\* Under the invariant two of the statuses do not occur.
StatusOf(j, was, known, marker) ==
    IF was = 1 THEN IF marker = {j} THEN "sent" ELSE "done"
    ELSE IF j \notin known THEN "new"
    ELSE IF marker = {j} THEN "persisted" ELSE "abandoned"

LEMMA StatusFacts ==
    ASSUME PathInv, PathInv'
    PROVE  /\ requestStatus = [j \in Job |-> StatusOf(j, sent[j], attempts, pending)]
           /\ requestStatus' = [j \in Job |-> StatusOf(j, sent'[j], attempts', pending')]
<1>1. ASSUME NEW j \in Job
      PROVE  /\ RequestStatus(j) = StatusOf(j, sent[j], attempts, pending)
             /\ RequestStatus(j)' = StatusOf(j, sent'[j], attempts', pending')
  <2>1. /\ sent[j] \in {0, 1} /\ (sent[j] = 1 => j \in attempts)
        /\ sent'[j] \in {0, 1} /\ (sent'[j] = 1 => j \in attempts')
    BY DEF PathInv, AttemptsOK, Job
  <2>2. QED
    BY <2>1 DEF RequestStatus, StatusOf
<1>2. QED
  BY <1>1 DEF requestStatus, Job

LEMMA QuietRefines ==
    ASSUME PathInv, PathInv', Quiet
    PROVE  [Transport!TransportNext]_requestStatus
<1>1. CASE pending' = pending \/ ~\E j \in Job : pending = {j}
  <2>1. \A j \in Job : StatusOf(j, sent'[j], attempts', pending')
                          = StatusOf(j, sent[j], attempts, pending)
    BY <1>1 DEF Quiet, StatusOf
  <2>2. requestStatus' = requestStatus
    BY <2>1, StatusFacts
  <2>3. QED
    BY <2>2
<1>2. ASSUME NEW j \in Job, pending = {j}, pending' = {}
      PROVE  [Transport!TransportNext]_requestStatus
  <2>1. \A k \in Job : k # j => StatusOf(k, sent'[k], attempts', pending')
                                    = StatusOf(k, sent[k], attempts, pending)
    BY <1>2 DEF Quiet, StatusOf
  <2>2. CASE sent[j] = 1
    <3>1. requestStatus[j] = "sent"
      BY <1>2, <2>2, StatusFacts DEF StatusOf
    <3>2. StatusOf(j, sent'[j], attempts', pending') = "done"
      BY <1>2, <2>2 DEF Quiet, StatusOf
    <3>3. requestStatus' = [requestStatus EXCEPT ![j] = "done"]
      BY <2>1, <3>2, StatusFacts
    <3>4. QED
      BY <3>1, <3>3 DEF Transport!TransportNext, Transport!Settle, Job
  <2>3. CASE sent[j] # 1 /\ j \in attempts
    <3>1. requestStatus[j] = "persisted"
      BY <1>2, <2>3, StatusFacts DEF StatusOf
    <3>2. StatusOf(j, sent'[j], attempts', pending') = "abandoned"
      BY <1>2, <2>3 DEF Quiet, StatusOf
    <3>3. requestStatus' = [requestStatus EXCEPT ![j] = "abandoned"]
      BY <2>1, <3>2, StatusFacts
    <3>4. QED
      BY <3>1, <3>3 DEF Transport!TransportNext, Transport!Abandon, Job
  <2>4. CASE sent[j] # 1 /\ j \notin attempts
    <3>1. StatusOf(j, sent'[j], attempts', pending') = StatusOf(j, sent[j], attempts, pending)
      BY <2>4 DEF Quiet, StatusOf
    <3>2. requestStatus' = requestStatus
      BY <2>1, <3>1, StatusFacts
    <3>3. QED
      BY <3>2
  <2>5. QED
    BY <2>2, <2>3, <2>4
<1>3. QED
  BY <1>1, <1>2 DEF Quiet

LEMMA RecordsRefines ==
    ASSUME PathInv, PathInv', NEW j \in Job, Records(j)
    PROVE  [Transport!TransportNext]_requestStatus
<1>1. sent[j] # 1
  BY DEF PathInv, AttemptsOK, Records, Job
<1>2. \A k \in Job : StatusOf(k, sent[k], attempts, pending) \notin {"persisted", "sent"}
  BY DEF Records, StatusOf
<1>3. \A k \in Job : k # j => StatusOf(k, sent'[k], attempts', pending')
                                  = StatusOf(k, sent[k], attempts, pending)
  BY DEF Records, StatusOf
<1>4. /\ StatusOf(j, sent[j], attempts, pending) = "new"
      /\ StatusOf(j, sent'[j], attempts', pending') = "persisted"
  BY <1>1 DEF Records, StatusOf
<1>5. requestStatus[j] = "new" /\ Transport!InFlight = {}
  BY <1>2, <1>4, StatusFacts DEF Transport!InFlight, Job
<1>6. requestStatus' = [requestStatus EXCEPT ![j] = "persisted"]
  BY <1>3, <1>4, StatusFacts
<1>7. QED
  BY <1>5, <1>6 DEF Transport!TransportNext, Transport!Persist, Job

LEMMA DispatchesRefines ==
    ASSUME PathInv, PathInv', NEW j \in Job, Dispatches(j)
    PROVE  [Transport!TransportNext]_requestStatus
<1>1. sent'[j] = 1 /\ \A k \in Job : k # j => sent'[k] = sent[k]
  BY DEF PathInv, Shape, Dispatches, Job
<1>2. \A k \in Job : k # j => StatusOf(k, sent'[k], attempts', pending')
                                  = StatusOf(k, sent[k], attempts, pending)
  BY <1>1 DEF Dispatches, StatusOf
<1>3. /\ StatusOf(j, sent[j], attempts, pending) = "persisted"
      /\ StatusOf(j, sent'[j], attempts', pending') = "sent"
  BY <1>1 DEF Dispatches, StatusOf
<1>4. requestStatus[j] = "persisted" /\ requestStatus' = [requestStatus EXCEPT ![j] = "sent"]
  BY <1>2, <1>3, StatusFacts
<1>5. QED
  BY <1>4 DEF Transport!TransportNext, Transport!Send, Job

\* Only the two attempt steps record, and only Post dispatches.
LEMMA AttemptsRecord ==
    ASSUME PathInv, NEW p \in Proc, AttemptMarket(p) \/ Attempt(p)
    PROVE  Quiet \/ \E j \in Job : Records(j)
<1>1. sent' = sent /\ pc[p] = "attempt" /\ pc[p] \notin Unlocked
  BY DEF AttemptMarket, Attempt, brokerVars, Unlocked
<1>2. sig[p] \in Signal /\ act \in Action
  BY <1>1, HolderFacts DEF HolderOK
<1>3. ASSUME NEW size, AttemptFree(sig[p], act), RecordAttempt(sig[p], act, size)
      PROVE  Records(<<sig[p], act>>) /\ <<sig[p], act>> \in Job
  BY <1>1, <1>2, <1>3 DEF AttemptFree, RecordAttempt, Records, Job
<1>4. CASE RaiseHalted(p) \/ RaiseUnhalted(p)
  BY <1>1, <1>4 DEF RaiseHalted, RaiseUnhalted, Quiet, storeVars
<1>5. CASE AttemptMarket(p)
  BY <1>3, <1>4, <1>5 DEF AttemptMarket, EntryAllowed
<1>6. CASE Attempt(p)
  BY <1>3, <1>4, <1>6 DEF Attempt
<1>7. QED
  BY <1>5, <1>6

LEMMA PostDispatches ==
    ASSUME PathInv, NEW p \in Proc, Post(p)
    PROVE  Quiet \/ \E j \in Job : Dispatches(j)
<1>1. attempts' = attempts /\ pending' = pending /\ pc[p] = "post" /\ pc[p] \notin Unlocked
  BY DEF Post, RaiseHalted, RaiseUnhalted, storeVars, Unlocked
<1>2. /\ sig[p] \in Signal /\ <<sig[p], act>> \in attempts
      /\ sent[<<sig[p], act>>] = 0 /\ <<sig[p], act>> \in Job
  BY <1>1, HolderFacts DEF HolderOK, PathInv, Shape, Job
<1>3. CASE sent' = sent
  BY <1>1, <1>3 DEF Quiet
<1>4. CASE MayPost(sig[p]) /\ Count(sig[p], act)
  BY <1>1, <1>2, <1>4 DEF MayPost, Committed, Count, Dispatches
<1>5. QED
  BY <1>3, <1>4 DEF Post

LEMMA OthersQuiet ==
    ASSUME NEW p \in Proc,
           \/ \E s \in Signal : Prepare(p, s)
           \/ ReserveCycle(p) \/ IssuePermit(p) \/ Bind(p) \/ ReadExecutions(p)
           \/ ReadPositions(p) \/ ReadOrders(p) \/ Preflight(p) \/ ChargeEntry(p)
           \/ Outcome(p) \/ Recover(p) \/ PersistPlan(p) \/ Confirm(p) \/ Drive(p)
           \/ Claim(p) \/ Exit(p) \/ RecordMetrics(p) \/ ApplyResult(p)
           \/ CompleteExit(p) \/ FailExit(p) \/ ReleaseReservation(p) \/ Crash(p)
    PROVE  Quiet
<1>1. CASE \E s \in Signal : Prepare(p, s)
  BY <1>1 DEF Prepare, Quiet, brokerVars
<1>2. CASE ReserveCycle(p) \/ ReleaseReservation(p)
  BY <1>2 DEF ReserveCycle, ReleaseReservation, Reserve, Release, Quiet, storeVars, brokerVars
<1>3. CASE IssuePermit(p) \/ Bind(p) \/ ReadExecutions(p) \/ ReadPositions(p)
  BY <1>3 DEF IssuePermit, Bind, ReadExecutions, ReadPositions, Quiet, storeVars, brokerVars
<1>4. CASE ReadOrders(p) \/ Preflight(p) \/ ChargeEntry(p) \/ PersistPlan(p) \/ Confirm(p)
  BY <1>4 DEF ReadOrders, Preflight, ChargeEntry, PersistPlan, Confirm, RaiseHalted,
     RaiseUnhalted, Quiet, storeVars, brokerVars
<1>5. CASE Outcome(p)
  BY <1>5 DEF Outcome, RecordOutcome, Quiet, brokerVars
<1>6. CASE Recover(p)
  BY <1>6 DEF Recover, Resolve, RaiseHalted, RaiseUnhalted, Quiet, storeVars, brokerVars
<1>7. CASE Drive(p) \/ Claim(p) \/ Exit(p) \/ RecordMetrics(p) \/ ApplyResult(p)
  BY <1>7 DEF Drive, Claim, Exit, RecordMetrics, ApplyResult, RaiseHalted, RaiseUnhalted,
     Quiet, storeVars, brokerVars
<1>8. CASE CompleteExit(p) \/ FailExit(p) \/ Crash(p)
  BY <1>8 DEF CompleteExit, FailExit, Crash, Quiet, storeVars, brokerVars
<1>9. QED
  BY <1>1, <1>2, <1>3, <1>4, <1>5, <1>6, <1>7, <1>8

LEMMA StepRefines ==
    ASSUME PathInv, PathInv', [PathNext]_pathVars
    PROVE  [Transport!TransportNext]_requestStatus
<1>1. ASSUME NEW p \in Proc, SessionStep(p) \/ Crash(p)
      PROVE  Quiet \/ \E j \in Job : Records(j) \/ Dispatches(j)
  BY <1>1, AttemptsRecord, PostDispatches, OthersQuiet DEF SessionStep
<1>2. ASSUME SupervisorTick \/ WeekendTargetMissed \/ ObserveAccount \/ ConsoleReconciles
      PROVE  Quiet
  BY <1>2 DEF SupervisorTick, WeekendTargetMissed, ObserveAccount, ConsoleReconciles,
     ReconcileExternalFlat, Quiet, storeVars, brokerVars
<1>3. ASSUME BrokerStep PROVE Quiet
  BY <1>3 DEF BrokerStep, OrderTakesEffect, RemainderFills, OcoFires, OperatorFlattens,
     Quiet, storeVars
<1>4. ASSUME Clock \/ UNCHANGED pathVars PROVE Quiet
  BY <1>4 DEF Clock, Quiet, pathVars, storeVars, brokerVars
<1>5. Quiet \/ \E j \in Job : Records(j) \/ Dispatches(j)
  BY <1>1, <1>2, <1>3, <1>4 DEF PathNext
<1>6. QED
  BY <1>5, QuietRefines, RecordsRefines, DispatchesRefines

\* Over any crashes, unknown replies and interference of console and
\* supervisor, every action of the actual path is persisted before it is sent,
\* is sent at most once, and none is persisted over another one's marker
\* (_mark_transport_pending, _committed_attempt_verifier).
THEOREM ActualTransportRefinement == PathSpec => ImplementsTransport
<1>1. PathInit => Transport!TransportInit
  <2>1. SUFFICES ASSUME PathInit PROVE requestStatus = [j \in Job |-> "new"]
    BY DEF Transport!TransportInit, Job
  <2>2. ASSUME NEW j \in Job PROVE RequestStatus(j) = "new"
    <3>1. sent[j] = 0 /\ j \notin attempts
      BY <2>1 DEF PathInit, StoreInit, BrokerInit, Job
    <3>2. QED
      BY <3>1 DEF RequestStatus
  <2>3. QED
    BY <2>2 DEF requestStatus, Job
<1>2. PathInv /\ PathInv' /\ [PathNext]_pathVars => [Transport!TransportNext]_requestStatus
  BY StepRefines
<1>3. QED
  BY <1>1, <1>2, PathInvHolds, PTL DEF PathSpec, ImplementsTransport, Transport!TransportSpec

(***************************************************************************)
(* Every session ends.  Each place of a session has a number of steps that *)
(* are left from there; inside a round of preflight, attempt, POST and     *)
(* three GETs it depends on the stage, which only the holder of the lock   *)
(* changes.                                                                *)
(***************************************************************************)

LEMMA StageRange ==
    ASSUME NEW stage
    PROVE  AfterStage(stage) \in 5..53
  BY DEF AfterStage

\* From one place of a stage to the next.
LEMMA SameStage ==
    ASSUME NEW stage
    PROVE  /\ SessionStepsAt("recover", stage) = AfterStage(stage) + 1
           /\ SessionStepsAt("orders", stage) = AfterStage(stage) + 2
           /\ SessionStepsAt("positions", stage) = AfterStage(stage) + 3
           /\ SessionStepsAt("executions", stage) = AfterStage(stage) + 4
           /\ \A r \in Reply : SessionStepsAt(r, stage) = AfterStage(stage) + 5
           /\ SessionStepsAt("post", stage) = AfterStage(stage) + 6
           /\ SessionStepsAt("charge", stage) = AfterStage(stage) + 7
           /\ SessionStepsAt("attempt", stage) = AfterStage(stage) + 8
           /\ AfterStage(stage) \in 5..53
  BY StageRange DEF SessionStepsAt, Reply

\* The places whose stage does not count.
LEMMA FixedPlaces ==
    ASSUME NEW stage
    PROVE  /\ SessionStepsAt("complete", stage) = 3 /\ SessionStepsAt("result", stage) = 4
           /\ SessionStepsAt("metrics", stage) = 5 /\ SessionStepsAt("exit", stage) = 22
           /\ SessionStepsAt("claim", stage) = 26 /\ SessionStepsAt("drive", stage) = 27
           /\ SessionStepsAt("confirm", stage) = 28 /\ SessionStepsAt("plan", stage) = 37
           /\ SessionStepsAt("preflight", stage) = 54
           /\ SessionStepsAt("permitted", stage) = 58
           /\ SessionStepsAt("reserved", stage) = 59
           /\ SessionStepsAt("prepared", stage) = 60
           /\ SessionStepsAt("fail", stage) = 2 /\ SessionStepsAt("release", stage) = 1
           /\ SessionStepsAt("idle", stage) = 0
  BY DEF SessionStepsAt, Reply

\* A session has none left exactly when it is idle, and few only at its end.
LEMMA SessionRange ==
    ASSUME NEW label \in Label, NEW stage
    PROVE  /\ SessionStepsAt(label, stage) \in 0..MaxSessionSteps
           /\ SessionStepsAt(label, stage) = 0 <=> label = "idle"
           /\ label \notin {"idle", "release", "fail"} => SessionStepsAt(label, stage) > 2
<1>1. CASE label \in {"recover", "orders", "positions", "executions", "post", "charge", "attempt"}
                      \cup Reply
  <2>1. label # "idle" /\ SessionStepsAt(label, stage) \in 3..61
    BY <1>1, SameStage DEF Reply
  <2>2. QED
    BY <2>1 DEF MaxSessionSteps
<1>2. CASE label \in {"complete", "result", "metrics", "exit", "claim", "drive", "confirm",
                      "plan", "preflight", "permitted", "reserved", "prepared"}
  <2>1. label # "idle" /\ SessionStepsAt(label, stage) \in 3..61
    BY <1>2, FixedPlaces
  <2>2. QED
    BY <2>1 DEF MaxSessionSteps
<1>3. CASE label \in {"idle", "release", "fail"}
  BY <1>3, FixedPlaces DEF MaxSessionSteps
<1>4. QED
  BY <1>1, <1>2, <1>3 DEF Label

LEMMA MoveLowers ==
    ASSUME PathInv, NEW p \in Proc, NEW l, pc' = [pc EXCEPT ![p] = l],
           SessionStepsAt(l, act') < SessionStepsAt(pc[p], act)
    PROVE  SessionStepsLeft(p)' < SessionStepsLeft(p)
<1>1. pc'[p] = l
  BY DEF PathInv, Shape
<1>2. QED
  BY <1>1 DEF SessionStepsLeft

LEMMA FixedSteps ==
    ASSUME PathInv, NEW p \in Proc, NEW l, pc' = [pc EXCEPT ![p] = l],
           \/ pc[p] = "prepared" /\ l = "reserved"
           \/ pc[p] = "reserved" /\ l \in {"permitted", "release"}
           \/ pc[p] = "permitted" /\ l = "release"
           \/ pc[p] = "fail" /\ l = "release"
    PROVE  SessionStepsLeft(p)' < SessionStepsLeft(p)
<1>1. PICK a, b : a = act /\ b = act'
  OBVIOUS
<1>2. SessionStepsAt(l, b) < SessionStepsAt(pc[p], a)
  BY FixedPlaces
<1>3. QED
  BY <1>1, <1>2, MoveLowers

LEMMA RaiseLowers ==
    ASSUME PathInv, NEW p \in Proc, pc[p] \notin {"idle", "release", "fail"}, Raise(p)
    PROVE  SessionStepsLeft(p)' < SessionStepsLeft(p)
<1>1. SessionStepsAt(pc[p], act) \in 3..MaxSessionSteps
  <2>1. PICK a : a = act
    OBVIOUS
  <2>2. pc[p] \in Label
    BY DEF PathInv, Shape
  <2>3. SessionStepsAt(pc[p], a) \in 0..MaxSessionSteps /\ SessionStepsAt(pc[p], a) > 2
    BY <2>2, SessionRange
  <2>4. QED
    BY <2>1, <2>3
<1>2. PICK l \in {"fail", "release"} : pc' = [pc EXCEPT ![p] = l]
  BY DEF Raise, Goto
<1>3. PICK b : b = act'
  OBVIOUS
<1>4. SessionStepsAt(l, b) \in {1, 2}
  BY FixedPlaces
<1>5. SessionStepsAt(l, b) < SessionStepsAt(pc[p], act)
  BY <1>1, <1>4
<1>6. QED
  BY <1>2, <1>3, <1>5, MoveLowers

LEMMA LeaveLowers ==
    ASSUME PathInv, NEW p \in Proc, pc[p] # "idle", Goto(p, "idle")
    PROVE  SessionStepsLeft(p)' < SessionStepsLeft(p)
<1>1. SessionStepsAt(pc[p], act) > 0
  <2>1. PICK a : a = act
    OBVIOUS
  <2>2. pc[p] \in Label
    BY DEF PathInv, Shape
  <2>3. SessionStepsAt(pc[p], a) \in 0..MaxSessionSteps /\ SessionStepsAt(pc[p], a) # 0
    BY <2>2, SessionRange
  <2>4. QED
    BY <2>1, <2>3 DEF MaxSessionSteps
<1>2. SessionStepsAt("idle", act') = 0
  BY FixedPlaces
<1>3. QED
  BY <1>1, <1>2, MoveLowers DEF Goto

LEMMA StageSteps ==
    ASSUME PathInv, NEW p \in Proc, NEW l,
           pc' = [pc EXCEPT ![p] = l], act' = act,
           \/ pc[p] = "attempt" /\ l \in {"charge", "post"}
           \/ pc[p] = "charge" /\ l = "post"
           \/ pc[p] = "post" /\ l \in Reply
           \/ pc[p] \in Reply /\ l = "executions"
           \/ pc[p] = "executions" /\ l = "positions"
           \/ pc[p] = "positions" /\ l = "orders"
    PROVE  SessionStepsLeft(p)' < SessionStepsLeft(p)
<1>1. PICK a : a = act
  OBVIOUS
<1>2. SessionStepsAt(l, a) < SessionStepsAt(pc[p], a)
  BY SameStage
<1>3. QED
  BY <1>1, <1>2, MoveLowers

LEMMA ReadOrdersLowers ==
    ASSUME PathInv, NEW p \in Proc, ReadOrders(p)
    PROVE  SessionStepsLeft(p)' < SessionStepsLeft(p)
<1>1. CASE Raise(p)
  BY <1>1, RaiseLowers DEF ReadOrders
<1>2. CASE Goto(p, Observed) /\ act' = act
  <2>1. PICK a : a = act
    OBVIOUS
  <2>2. pc[p] = "orders" /\ AfterStage(a) \in 5..53
    BY StageRange DEF ReadOrders
  <2>3. SessionStepsAt("orders", a) = AfterStage(a) + 2
    BY SameStage
  <2>4. SessionStepsAt("preflight", a) = 54 /\ SessionStepsAt("exit", a) = 22
        /\ SessionStepsAt("recover", a) = AfterStage(a) + 1
    BY DEF SessionStepsAt, Reply
  <2>5. a = "PREFLIGHT" => AfterStage(a) = 53
    BY DEF AfterStage, TimeExit, CancelProtection, Protect, CancelRemainder, Market
  <2>6. a = "EXIT" => AfterStage(a) = 21
    BY DEF AfterStage, TimeExit, CancelProtection, Protect, CancelRemainder, Market
  <2>7. Observed = CASE a = "PREFLIGHT" -> "preflight" [] a = "EXIT" -> "exit"
                     [] OTHER -> "recover"
    BY <2>1 DEF Observed
  <2>8. SessionStepsAt(Observed, a) < SessionStepsAt("orders", a)
    BY <2>2, <2>3, <2>4, <2>5, <2>6, <2>7
  <2>9. QED
    BY <1>2, <2>1, <2>2, <2>8, MoveLowers DEF Goto
<1>3. QED
  BY <1>1, <1>2 DEF ReadOrders, RaiseHalted

\* From one stage to the next.
LEMMA StageOrder ==
    /\ AfterStage(TimeExit) = 5
    /\ AfterStage(CancelProtection) = 13
    /\ AfterStage("EXIT") = 21
    /\ AfterStage(Protect) = 28
    /\ AfterStage(CancelRemainder) = 37
    /\ AfterStage(Market) = 45
  BY DEF AfterStage, TimeExit, CancelProtection, Protect, CancelRemainder, Market

LEMMA NextStageLowers ==
    ASSUME NEW class, NEW t, t = NextStage(class), t[1] # "idle"
    PROVE  SessionStepsAt(t[1], t[2]) < AfterStage(act) + 1
<1>1. SessionStepsAt("plan", t[2]) = 37 /\ SessionStepsAt("confirm", t[2]) = 28
      /\ SessionStepsAt("metrics", t[2]) = 5 /\ SessionStepsAt("fail", t[2]) = 2
  BY DEF SessionStepsAt, Reply
<1>2. SessionStepsAt("attempt", t[2]) = AfterStage(t[2]) + 8
  BY SameStage
<1>3. \/ act = Market /\ t = <<"attempt", CancelRemainder>>
      \/ act \in {Market, CancelRemainder} /\ t = <<"plan", act>>
      \/ act = Protect /\ t = <<"confirm", act>>
      \/ act = CancelProtection /\ t = <<"attempt", TimeExit>>
      \/ act = TimeExit /\ t = <<"metrics", act>>
      \/ act \in ExitStages /\ t = <<"fail", act>>
  BY DEF NextStage
<1>4. QED
  BY <1>1, <1>2, <1>3, StageOrder DEF ExitStages

LEMMA RecoverLowers ==
    ASSUME PathInv, NEW p \in Proc, Recover(p)
    PROVE  SessionStepsLeft(p)' < SessionStepsLeft(p)
<1>1. pc[p] = "recover"
  BY DEF Recover
<1>2. CASE Raise(p)
  BY <1>1, <1>2, RaiseLowers
<1>3. CASE Leave(p)
  BY <1>1, <1>3, LeaveLowers DEF Leave
<1>4. ASSUME NEW class, NextStage(class)[1] # "idle", Goto(p, NextStage(class)[1]),
             act' = NextStage(class)[2]
      PROVE  SessionStepsLeft(p)' < SessionStepsLeft(p)
  <2>1. PICK t : t = NextStage(class)
    OBVIOUS
  <2>2. SessionStepsAt(t[1], t[2]) < AfterStage(act) + 1
    BY <1>4, <2>1, NextStageLowers
  <2>3. SessionStepsAt("recover", act) = AfterStage(act) + 1
    BY DEF SessionStepsAt, Reply
  <2>4. QED
    BY <1>1, <1>4, <2>1, <2>2, <2>3, MoveLowers DEF Goto
<1>5. QED
  BY <1>2, <1>3, <1>4 DEF Recover, RaiseHalted, RaiseUnhalted

LEMMA EntryLowers ==
    ASSUME PathInv, NEW p \in Proc,
           \/ ReserveCycle(p) \/ IssuePermit(p) \/ Bind(p) \/ Preflight(p) \/ PersistPlan(p)
    PROVE  SessionStepsLeft(p)' < SessionStepsLeft(p)
<1>1. CASE ReserveCycle(p)
  <2>1. pc[p] = "prepared"
    BY <1>1 DEF ReserveCycle
  <2>2. CASE Goto(p, "idle")
    BY <2>1, <2>2, LeaveLowers
  <2>3. CASE Goto(p, "reserved")
    BY <2>1, <2>3, FixedSteps DEF Goto
  <2>4. QED
    BY <1>1, <2>2, <2>3 DEF ReserveCycle
<1>2. CASE IssuePermit(p)
  <2>1. /\ pc[p] = "reserved"
        /\ \E l \in {"permitted", "release"} : pc' = [pc EXCEPT ![p] = l]
    BY <1>2 DEF IssuePermit, Goto
  <2>2. QED
    BY <2>1, FixedSteps
<1>3. CASE Bind(p)
  <2>1. pc[p] = "permitted"
    BY <1>3 DEF Bind
  <2>2. CASE Goto(p, "executions") /\ act' = "PREFLIGHT"
    <3>1. SessionStepsAt("executions", "PREFLIGHT") = 57
      BY DEF SessionStepsAt, AfterStage, Reply, TimeExit, CancelProtection, Protect,
         CancelRemainder, Market
    <3>2. SessionStepsAt(pc[p], act) = 58
      BY <2>1, FixedPlaces
    <3>3. SessionStepsAt("executions", act') < SessionStepsAt(pc[p], act)
      BY <2>2, <3>1, <3>2
    <3>4. pc' = [pc EXCEPT ![p] = "executions"]
      BY <2>2 DEF Goto
    <3>5. QED
      BY <3>3, <3>4, MoveLowers
  <2>3. CASE Goto(p, "release")
    BY <2>1, <2>3, FixedSteps DEF Goto
  <2>4. QED
    BY <1>3, <2>2, <2>3 DEF Bind
<1>4. CASE Preflight(p)
  <2>1. pc[p] = "preflight"
    BY <1>4 DEF Preflight
  <2>2. CASE Raise(p)
    BY <2>1, <2>2, RaiseLowers
  <2>3. CASE Goto(p, "attempt") /\ act' = Market
    <3>1. SessionStepsAt("attempt", Market) = 53
      BY SameStage, StageOrder
    <3>2. SessionStepsAt(pc[p], act) = 54
      BY <2>1, FixedPlaces
    <3>3. SessionStepsAt("attempt", act') < SessionStepsAt(pc[p], act)
      BY <2>3, <3>1, <3>2
    <3>4. pc' = [pc EXCEPT ![p] = "attempt"]
      BY <2>3 DEF Goto
    <3>5. QED
      BY <3>3, <3>4, MoveLowers
  <2>4. QED
    BY <1>4, <2>2, <2>3 DEF Preflight, RaiseUnhalted
<1>5. CASE PersistPlan(p)
  <2>1. pc[p] = "plan"
    BY <1>5 DEF PersistPlan
  <2>2. CASE Raise(p)
    BY <2>1, <2>2, RaiseLowers
  <2>3. CASE Goto(p, "attempt") /\ act' = Protect
    <3>1. SessionStepsAt("attempt", Protect) = 36
      BY SameStage, StageOrder
    <3>2. SessionStepsAt(pc[p], act) = 37
      BY <2>1, FixedPlaces
    <3>3. SessionStepsAt("attempt", act') < SessionStepsAt(pc[p], act)
      BY <2>3, <3>1, <3>2
    <3>4. pc' = [pc EXCEPT ![p] = "attempt"]
      BY <2>3 DEF Goto
    <3>5. QED
      BY <3>3, <3>4, MoveLowers
  <2>4. QED
    BY <1>5, <2>2, <2>3 DEF PersistPlan, RaiseUnhalted
<1>6. QED
  BY <1>1, <1>2, <1>3, <1>4, <1>5

LEMMA TransportLowers ==
    ASSUME PathInv, NEW p \in Proc,
           \/ ReadExecutions(p) \/ ReadPositions(p) \/ AttemptMarket(p) \/ ChargeEntry(p)
           \/ Post(p) \/ Outcome(p) \/ Attempt(p)
    PROVE  SessionStepsLeft(p)' < SessionStepsLeft(p)
<1>1. CASE ReadExecutions(p) \/ ReadPositions(p)
  BY <1>1, StageSteps DEF ReadExecutions, ReadPositions, Goto
<1>2. CASE Raise(p)
  <2>1. pc[p] \in {"attempt", "charge", "post"} \cup Reply \cup {"executions", "positions"}
    BY DEF ReadExecutions, ReadPositions, AttemptMarket, ChargeEntry, Post, Outcome, Attempt
  <2>2. QED
    BY <1>2, <2>1, RaiseLowers DEF Reply
<1>3. CASE AttemptMarket(p)
  <2>1. Raise(p) \/ (pc[p] = "attempt" /\ pc' = [pc EXCEPT ![p] = "charge"] /\ act' = act)
    BY <1>3 DEF AttemptMarket, RaiseHalted, RaiseUnhalted, Goto
  <2>2. QED
    BY <1>2, <2>1, StageSteps
<1>4. CASE Attempt(p)
  <2>1. Raise(p) \/ (pc[p] = "attempt" /\ pc' = [pc EXCEPT ![p] = "post"] /\ act' = act)
    BY <1>4 DEF Attempt, RaiseHalted, RaiseUnhalted, Goto
  <2>2. QED
    BY <1>2, <2>1, StageSteps
<1>5. CASE ChargeEntry(p)
  <2>1. Raise(p) \/ (pc[p] = "charge" /\ pc' = [pc EXCEPT ![p] = "post"] /\ act' = act)
    BY <1>5 DEF ChargeEntry, Goto
  <2>2. QED
    BY <1>2, <2>1, StageSteps
<1>6. CASE Post(p)
  <2>1. \/ Raise(p)
        \/ /\ pc[p] = "post" /\ act' = act
           /\ \E l \in Reply : pc' = [pc EXCEPT ![p] = l]
    BY <1>6 DEF Post, RaiseHalted, RaiseUnhalted, Goto, Reply
  <2>2. QED
    BY <1>2, <2>1, StageSteps
<1>7. CASE Outcome(p)
  <2>1. pc[p] \in Reply
    BY <1>7 DEF Outcome
  <2>2. CASE Leave(p)
    BY <2>1, <2>2, LeaveLowers DEF Leave, Reply
  <2>3. CASE Goto(p, "executions") /\ act' = act
    BY <2>1, <2>3, StageSteps DEF Goto
  <2>4. QED
    BY <1>2, <1>7, <2>2, <2>3 DEF Outcome, NotAccepted
<1>8. QED
  BY <1>1, <1>3, <1>4, <1>5, <1>6, <1>7

LEMMA ExitLowers ==
    ASSUME PathInv, NEW p \in Proc,
           \/ Confirm(p) \/ Drive(p) \/ Claim(p) \/ Exit(p) \/ RecordMetrics(p)
           \/ ApplyResult(p) \/ CompleteExit(p) \/ FailExit(p) \/ ReleaseReservation(p)
    PROVE  SessionStepsLeft(p)' < SessionStepsLeft(p)
<1>1. pc[p] \in {"confirm", "drive", "claim", "exit", "metrics", "result", "complete",
                 "fail", "release"}
  BY DEF Confirm, Drive, Claim, Exit, RecordMetrics, ApplyResult, CompleteExit, FailExit,
     ReleaseReservation
<1>2. CASE Raise(p) /\ pc[p] \notin {"fail", "release"}
  BY <1>1, <1>2, RaiseLowers
<1>3. CASE Goto(p, "idle")
  BY <1>1, <1>3, LeaveLowers
<1>4. CASE Confirm(p)
  <2>1. Raise(p) \/ Goto(p, "drive")
    BY <1>4 DEF Confirm, RaiseHalted, RaiseUnhalted
  <2>2. QED
    BY <1>2, <1>4, <2>1, FixedPlaces, MoveLowers DEF Confirm, Goto
<1>5. CASE Drive(p)
  <2>1. Raise(p) \/ Goto(p, "idle") \/ Goto(p, "claim")
    BY <1>5 DEF Drive, Leave
  <2>2. QED
    BY <1>2, <1>3, <1>5, <2>1, FixedPlaces, MoveLowers DEF Drive, Goto
<1>6. CASE Claim(p)
  <2>1. \/ Raise(p)
        \/ act' = "EXIT" /\ \E l \in {"executions", "fail"} : pc' = [pc EXCEPT ![p] = l]
    BY <1>6 DEF Claim, Goto
  <2>2. SessionStepsAt("executions", "EXIT") = 25
    BY SameStage, StageOrder
  <2>3. QED
    BY <1>2, <1>6, <2>1, <2>2, FixedPlaces, MoveLowers DEF Claim
<1>7. CASE Exit(p)
  <2>1. \/ Goto(p, "metrics")
        \/ Goto(p, "attempt") /\ act' = CancelProtection
    BY <1>7 DEF Exit
  <2>2. SessionStepsAt("attempt", CancelProtection) = 21
    BY SameStage, StageOrder
  <2>3. QED
    BY <1>7, <2>1, <2>2, FixedPlaces, MoveLowers DEF Exit, Goto
<1>8. CASE RecordMetrics(p)
  <2>1. Raise(p) \/ Goto(p, "result")
    BY <1>8 DEF RecordMetrics, RaiseHalted, RaiseUnhalted
  <2>2. QED
    BY <1>2, <1>8, <2>1, FixedPlaces, MoveLowers DEF RecordMetrics, Goto
<1>9. CASE ApplyResult(p)
  <2>1. Raise(p) \/ Goto(p, "complete")
    BY <1>9 DEF ApplyResult
  <2>2. QED
    BY <1>2, <1>9, <2>1, FixedPlaces, MoveLowers DEF ApplyResult, Goto
<1>10. CASE FailExit(p)
  BY <1>10, FixedSteps DEF FailExit, Goto
<1>11. CASE CompleteExit(p) \/ ReleaseReservation(p)
  BY <1>3, <1>11 DEF CompleteExit, ReleaseReservation, Leave
<1>12. QED
  BY <1>4, <1>5, <1>6, <1>7, <1>8, <1>9, <1>10, <1>11

LEMMA SessionStepLowers ==
    ASSUME PathInv, NEW p \in Proc, pc[p] # "idle", SessionStep(p)
    PROVE  SessionStepsLeft(p)' < SessionStepsLeft(p)
<1>1. ~\E s \in Signal : Prepare(p, s)
  BY DEF Prepare
<1>2. QED
  BY <1>1, EntryLowers, TransportLowers, ReadOrdersLowers, RecoverLowers, ExitLowers
     DEF SessionStep

\* Before it has the lock, and after, the stage of a session does not count.
LEMMA UnlockedSteps ==
    ASSUME NEW label \in Unlocked, NEW a, NEW b
    PROVE  SessionStepsAt(label, a) = SessionStepsAt(label, b)
  BY FixedPlaces DEF Unlocked

\* What the others do leaves a session that stands somewhere as it is.
LEMMA OthersDoNotLower ==
    ASSUME PathInv, NEW p \in Proc, pc[p] # "idle", [PathNext]_pathVars,
           ~SessionStep(p), ~Crash(p)
    PROVE  SessionStepsLeft(p)' = SessionStepsLeft(p)
<1>1. ASSUME pc'[p] = pc[p], lock = p => act' = act
      PROVE  SessionStepsLeft(p)' = SessionStepsLeft(p)
  <2>1. CASE lock = p
    BY <1>1, <2>1 DEF SessionStepsLeft
  <2>2. CASE lock # p
    <3>1. pc[p] \in Unlocked
      BY <2>2, HolderFacts
    <3>2. PICK a, b : a = act /\ b = act'
      OBVIOUS
    <3>3. SessionStepsAt(pc[p], a) = SessionStepsAt(pc[p], b)
      BY <3>1, UnlockedSteps
    <3>4. QED
      BY <1>1, <3>2, <3>3 DEF SessionStepsLeft
  <2>3. QED
    BY <2>1, <2>2
<1>2. ASSUME NEW q \in Proc, q # p, SessionStep(q) \/ Crash(q)
      PROVE  pc'[p] = pc[p] /\ (lock = p => act' = act)
  <2>1. \E l : pc' = [pc EXCEPT ![q] = l] \/ pc' = pc
    <3>1. CASE Crash(q)
      BY <3>1 DEF Crash, Goto
    <3>2. CASE \/ \E s \in Signal : Prepare(q, s)
               \/ ReserveCycle(q) \/ IssuePermit(q) \/ Bind(q) \/ ReleaseReservation(q)
      BY <3>2 DEF Prepare, ReserveCycle, IssuePermit, Bind, ReleaseReservation, Goto
    <3>3. CASE ReadExecutions(q) \/ ReadPositions(q) \/ ReadOrders(q) \/ Preflight(q)
               \/ AttemptMarket(q) \/ ChargeEntry(q) \/ PersistPlan(q) \/ Attempt(q)
      BY <3>3 DEF ReadExecutions, ReadPositions, ReadOrders, Preflight, AttemptMarket,
         ChargeEntry, PersistPlan, Attempt, RaiseHalted, RaiseUnhalted, Raise, Goto
    <3>4. CASE Post(q)
      BY <3>4 DEF Post, RaiseHalted, RaiseUnhalted, Raise, Goto
    <3>5. CASE Outcome(q) \/ Recover(q)
      BY <3>5 DEF Outcome, NotAccepted, Recover, RaiseHalted, RaiseUnhalted, Raise, Leave, Goto
    <3>6. CASE Confirm(q) \/ Drive(q) \/ Claim(q) \/ Exit(q) \/ RecordMetrics(q)
               \/ ApplyResult(q) \/ CompleteExit(q) \/ FailExit(q)
      BY <3>6 DEF Confirm, Drive, Claim, Exit, RecordMetrics, ApplyResult, CompleteExit,
         FailExit, RaiseHalted, RaiseUnhalted, Raise, Leave, Goto
    <3>7. QED
      BY <1>2, <3>1, <3>2, <3>3, <3>4, <3>5, <3>6 DEF SessionStep
  <2>2. pc'[p] = pc[p]
    BY <1>2, <2>1 DEF PathInv, Shape
  <2>3. ASSUME lock = p
        PROVE  act' = act
    <3>1. pc[q] \in Unlocked
      BY <1>2, <2>3, HolderFacts
    <3>2. CASE Crash(q)
      BY <1>2, <2>3, <3>2 DEF Crash
    <3>3. CASE SessionStep(q)
      <4>1. \/ \E s \in Signal : Prepare(q, s)
            \/ ReserveCycle(q) \/ IssuePermit(q) \/ Bind(q) \/ ReleaseReservation(q)
        BY <3>1, <3>3 DEF SessionStep, Unlocked, Reply, ReadExecutions, ReadPositions, ReadOrders,
           Preflight, AttemptMarket, ChargeEntry, Post, Outcome, Recover, PersistPlan, Attempt,
           Confirm, Drive, Claim, Exit, RecordMetrics, ApplyResult, CompleteExit, FailExit
      <4>2. lock # NoProc
        BY <2>3, ActualPathAssumption
      <4>3. QED
        BY <4>1, <4>2
           DEF Prepare, ReserveCycle, IssuePermit, Bind, ReleaseReservation
    <3>4. QED
      BY <1>2, <3>2, <3>3
  <2>4. QED
    BY <2>2, <2>3
<1>3. ASSUME UNCHANGED sessionVars
      PROVE  pc'[p] = pc[p] /\ (lock = p => act' = act)
  BY <1>3 DEF sessionVars
<1>4. CASE SupervisorTick \/ WeekendTargetMissed \/ ObserveAccount \/ ConsoleReconciles
           \/ BrokerStep \/ Clock \/ UNCHANGED pathVars
  BY <1>1, <1>3, <1>4 DEF SupervisorTick, WeekendTargetMissed, ObserveAccount,
     ConsoleReconciles, BrokerStep, Clock, pathVars
<1>5. CASE \E q \in Proc : SessionStep(q) \/ Crash(q)
  BY <1>1, <1>2, <1>5
<1>6. QED
  BY <1>4, <1>5 DEF PathNext

LEMMA SessionCounted ==
    ASSUME PathInv, NEW p \in Proc
    PROVE  /\ SessionStepsLeft(p) \in 0..MaxSessionSteps
           /\ SessionStepsLeft(p) = 0 <=> pc[p] = "idle"
<1>1. PICK a : a = act
  OBVIOUS
<1>2. pc[p] \in Label
  BY DEF PathInv, Shape
<1>3. QED
  BY <1>1, <1>2, SessionRange DEF SessionStepsLeft

\* A session never turns back: each of its steps lowers the number of steps
\* it has left, and nothing that the supervisor, the console, another session
\* or the broker does raises it.
THEOREM SessionsEnd == PathSpec => SessionsAreBounded
<1>1. ASSUME PathInv, PathInv', [PathNext]_pathVars, NEW p \in Proc, pc[p] # "idle"
      PROVE  /\ SessionStep(p) => SessionStepsLeft(p)' < SessionStepsLeft(p)
             /\ SessionStepsLeft(p)' <= SessionStepsLeft(p)
  <2>1. SessionStepsLeft(p) \in Nat
    BY <1>1, SessionCounted DEF MaxSessionSteps
  <2>2. SessionStepsLeft(p)' \in Nat
    <3>1. PICK b : b = act'
      OBVIOUS
    <3>2. pc'[p] \in Label
      BY <1>1 DEF PathInv, Shape
    <3>3. SessionStepsAt(pc'[p], b) \in 0..MaxSessionSteps
      BY <3>2, SessionRange
    <3>4. QED
      BY <3>1, <3>3 DEF SessionStepsLeft, MaxSessionSteps
  <2>3. SessionStep(p) => SessionStepsLeft(p)' < SessionStepsLeft(p)
    BY <1>1, SessionStepLowers
  <2>4. Crash(p) => SessionStepsLeft(p)' < SessionStepsLeft(p)
    BY <1>1, LeaveLowers DEF Crash
  <2>5. ~SessionStep(p) /\ ~Crash(p) => SessionStepsLeft(p)' = SessionStepsLeft(p)
    BY <1>1, OthersDoNotLower
  <2>6. QED
    BY <2>1, <2>2, <2>3, <2>4, <2>5
<1>2. PathInv /\ PathInv' /\ [PathNext]_pathVars =>
          [\A p \in Proc :
              pc[p] # "idle" =>
                  /\ SessionStep(p) => SessionStepsLeft(p)' < SessionStepsLeft(p)
                  /\ SessionStepsLeft(p)' <= SessionStepsLeft(p)]_pathVars
  BY <1>1
<1>3. QED
  BY <1>2, PathInvHolds, PTL DEF PathSpec, SessionsAreBounded

\* The number is one a session can count on: none exactly when it is idle,
\* and never more than MaxSessionSteps.
THEOREM SessionsAreCounted ==
    PathSpec => [](\A p \in Proc : /\ SessionStepsLeft(p) \in 0..MaxSessionSteps
                                   /\ SessionStepsLeft(p) = 0 <=> pc[p] = "idle")
<1>1. PathInv => \A p \in Proc : /\ SessionStepsLeft(p) \in 0..MaxSessionSteps
                                 /\ SessionStepsLeft(p) = 0 <=> pc[p] = "idle"
  BY SessionCounted
<1>2. QED
  BY <1>1, PathInvHolds, PTL

=============================================================================
