---------------------------- MODULE V4GmoLiveness ---------------------------
(***************************************************************************)
(* What V4GmoRuntime eventually does.  Processes may crash finitely often: *)
(* from the moment calm holds no process crashes any more.                 *)
(*                                                                         *)
(* Fairness.  A command line that has started keeps going.  The operator   *)
(* follows the runbook: an active cycle is resumed again and again (H11 v4 *)
(* runbook, section 3), a halt is reloaded again and again with a flat     *)
(* snapshot when the broker shows one (section 5), and the account is      *)
(* flattened by hand while a halt is latched.  The broker settles what was *)
(* sent.  Nothing makes a snapshot known or a notification succeed.        *)
(***************************************************************************)
EXTENDS V4GmoRuntime

VARIABLE calm

liveVars == <<vars, calm>>

Unshaken(A) == A /\ UNCHANGED calm

LiveInit == Init /\ calm = FALSE

LiveNext ==
    \/ \E p \in Proc : Unshaken(StartStep(p) \/ ProcessStep(p))
    \/ \E p \in Proc : ~calm /\ Unshaken(Crash(p))
    \/ Unshaken(BrokerMoves)
    \/ Unshaken(ClockStep)
    \/ ~calm /\ calm' = TRUE /\ UNCHANGED vars

ResumeStarts(p) == ActiveCycles # {} /\ Start(p, "resume")
ReloadStarts(p) == HaltLatched /\ Start(p, "reload")
ReloadFindsFlat(p) == ReloadGate(p) /\ pc'[p] \in {"clear", "clearGlobal"}
Others == <<storeVars, procVars, histVars, now, risk, lastBeat>>

Fairness ==
    /\ WF_liveVars(~calm /\ calm' = TRUE /\ UNCHANGED vars)
    /\ \A p \in Proc :
          /\ WF_liveVars(Unshaken(ProcessStep(p)))
          /\ SF_liveVars(Unshaken(ResumeStarts(p)))
          /\ SF_liveVars(Unshaken(ReloadStarts(p)))
          /\ SF_liveVars(Unshaken(ReloadFindsFlat(p)))
    /\ WF_liveVars(Unshaken(SettleRequest /\ UNCHANGED Others))
    /\ WF_liveVars(Unshaken(HaltLatched /\ OperatorFlattens /\ UNCHANGED Others))

LiveSpec == LiveInit /\ [][LiveNext]_liveVars /\ Fairness

(***************************************************************************)
(* What is promised.                                                       *)
(***************************************************************************)

Settled(c) == state[c] \in {"POSITION_PROTECTED", Halted, Flat, Cleared}

\* A cycle that was created does not stay in between: it reaches exact
\* protection, a flat book or the operator, or the global halt is latched
\* (the one way a resume is refused).
CycleSettles == \A c \in Cycle : Unfinished(c) ~> Settled(c) \/ globalHalt

\* A protected position whose protection order is gone does not go unnoticed:
\* some resume finds it out and leaves POSITION_PROTECTED, unless the global
\* halt refuses the resume.
LostProtectionIsNoticed ==
    \A c \in Cycle :
        state[c] = "POSITION_PROTECTED" /\ pos > 0 /\ oco = 0
            ~> state[c] # "POSITION_PROTECTED" \/ globalHalt

\* A cycle latched for review is released by the operator's reload.
HaltedCycleIsReleased == \A c \in Cycle : state[c] = Halted ~> state[c] = Cleared

\* The global halt is released too, once no cycle is active: "Clear a v4 HALT
\* only after an exact phrase and a fresh fake flat snapshot"
\* (v4_gmo_runtime.py:449).  Over an active cycle nothing releases it.
GlobalHaltIsReleased == globalHalt /\ ActiveCycles = {} ~> ~globalHalt

=============================================================================
