------------------------- MODULE PersistentTransport ------------------------
(***************************************************************************)
(* What the state machines that act on an account promise of what they     *)
(* send, without a word on how: an action is persisted before it is sent,  *)
(* sent at most once and never after it was given up, and the next action  *)
(* is persisted only when nothing is in flight.  V4GmoRefinement,          *)
(* V4GmoActualRefinement and E1ShadowRefinement show that the v4 engine,   *)
(* its actual path and the E1 shadow engine implement it.                  *)
(***************************************************************************)
CONSTANT Job        \* the actions of all cycles

VARIABLE status

InFlight == {j \in Job : status[j] \in {"persisted", "sent"}}

TransportInit == status = [j \in Job |-> "new"]

Persist(j) ==
    /\ status[j] = "new"
    /\ InFlight = {}
    /\ status' = [status EXCEPT ![j] = "persisted"]

Send(j) ==
    /\ status[j] = "persisted"
    /\ status' = [status EXCEPT ![j] = "sent"]

\* The effect of the request is known, or its cycle is given up.
Settle(j) ==
    /\ status[j] = "sent"
    /\ status' = [status EXCEPT ![j] = "done"]

\* The process stopped before it sent the request.
Abandon(j) ==
    /\ status[j] = "persisted"
    /\ status' = [status EXCEPT ![j] = "abandoned"]

TransportNext == \E j \in Job : Persist(j) \/ Send(j) \/ Settle(j) \/ Abandon(j)

TransportSpec == TransportInit /\ [][TransportNext]_status

=============================================================================
