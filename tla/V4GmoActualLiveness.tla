------------------------- MODULE V4GmoActualLiveness ------------------------
(***************************************************************************)
(* What the actual path eventually does.                                   *)
(*                                                                         *)
(* Fairness.  The supervisor ticks every 15 seconds (run_forever), the     *)
(* clock runs, the account executes what it accepted.  A session that has  *)
(* come as far as the foreground driver goes on: run_until_flat polls      *)
(* every 5 seconds until it has a terminal marker.  Before that nothing is *)
(* assumed of a session: it may stop for good anywhere, which is a death   *)
(* that nothing restarts.                                                  *)
(***************************************************************************)
EXTENDS V4GmoActualPath

DriverGoesOn(p) == pc[p] # "idle" /\ cycles[sig[p]].confirmed /\ SessionStep(p)
OrdersTakeEffect ==
    OrderTakesEffect /\ UNCHANGED <<storeVars, sessionVars, fileVars, monitorVars, now>>

SurroundingsFair ==
    /\ WF_pathVars(SupervisorTick)
    /\ WF_pathVars(Clock)
    /\ WF_pathVars(OrdersTakeEffect)

DriversFair == \A p \in Proc : WF_pathVars(DriverGoesOn(p))

ActualLiveSpec == PathSpec /\ SurroundingsFair /\ DriversFair

(***************************************************************************)
(* What is promised.                                                       *)
(***************************************************************************)

DueInTime(s) == cycles[s].at + HoldTime <= MaxTime

\* A protected entry whose driver runs ends in one of the two terminal
\* markers: the supervisor's marker and the one the driver waits for are the
\* same, on whichever side of midnight the exit falls, and a failure anywhere
\* in the dispatch still leaves its marker (run_until_flat, dispatch_once).
ExitConcludes ==
    \A s \in Signal :
        cycles[s].confirmed /\ DueInTime(s)
            ~> EntryDay(s) \in exits["completed"] \cup exits["failed"]

\* Whatever becomes of its session, an entry is confirmed as protected, closed
\* or halted: the supervisor needs no session to notice an entry that nobody
\* looks after (run_tick).
NoEntryIsForgotten ==
    \A s \in Signal :
        s \in Rows /\ cycles[s].at # NoTime /\ cycles[s].at + ProtectionWindow < MaxTime
            ~> halt \/ cycles[s].confirmed \/ cycles[s].loss # NoLoss

=============================================================================
