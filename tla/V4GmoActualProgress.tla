------------------------- MODULE V4GmoActualProgress ------------------------
(***************************************************************************)
(* Why an operator session of V4GmoActualPath ends: the steps it has left  *)
(* are counted down by each of its own steps, and no supervisor, console,  *)
(* other session or broker gives it more to do.  It may wait, at the       *)
(* driver's poll for the exit marker, but it never goes round: no GET or   *)
(* POST is repeated until its answer pleases.                              *)
(***************************************************************************)
EXTENDS V4GmoActualRefinement

\* The steps that are left once the stage's last view has been dealt with.
AfterStage(stage) ==
    CASE stage = TimeExit -> 5
      [] stage = CancelProtection -> 13
      [] stage = "EXIT" -> 21
      [] stage = Protect -> 28
      [] stage = CancelRemainder -> 37
      [] stage = Market -> 45
      [] OTHER -> 53

SessionStepsAt(label, stage) ==
    CASE label = "idle" -> 0
      [] label = "release" -> 1
      [] label = "fail" -> 2
      [] label = "complete" -> 3
      [] label = "result" -> 4
      [] label = "metrics" -> 5
      [] label = "exit" -> 22
      [] label = "claim" -> 26
      [] label = "drive" -> 27
      [] label = "confirm" -> 28
      [] label = "plan" -> 37
      [] label = "preflight" -> 54
      [] label = "permitted" -> 58
      [] label = "reserved" -> 59
      [] label = "prepared" -> 60
      [] label = "recover" -> AfterStage(stage) + 1
      [] label = "orders" -> AfterStage(stage) + 2
      [] label = "positions" -> AfterStage(stage) + 3
      [] label = "executions" -> AfterStage(stage) + 4
      [] label \in Reply -> AfterStage(stage) + 5
      [] label = "post" -> AfterStage(stage) + 6
      [] label = "charge" -> AfterStage(stage) + 7
      [] label = "attempt" -> AfterStage(stage) + 8

MaxSessionSteps == 61

SessionStepsLeft(p) == SessionStepsAt(pc[p], act)

\* A session takes at most MaxSessionSteps steps of its own: whatever a reply,
\* a reading or a classification says, it goes forward or it stops
\* (_run_g013_actual_canary_from_refreshed_session, the coordinated path, the
\* driver and the exit dispatcher, none of which sends or reads again).  A poll
\* of the driver that finds no marker is no step.
SessionsAreBounded ==
    [][\A p \in Proc :
          pc[p] # "idle" =>
              /\ SessionStep(p) => SessionStepsLeft(p)' < SessionStepsLeft(p)
              /\ SessionStepsLeft(p)' <= SessionStepsLeft(p)]_pathVars

=============================================================================
