--------------------------- MODULE V4GmoRefinement --------------------------
(***************************************************************************)
(* The engine and its command lines implement PersistentTransport.  An     *)
(* attempt is in flight while its cycle is in the state that records it;   *)
(* a request sent twice, or sent without a record, maps outside the        *)
(* abstract states.                                                        *)
(***************************************************************************)
EXTENDS V4GmoRuntime

RequestStatus(c, a) ==
    CASE sent[c][a] > 1 -> "sentTwice"
      [] sent[c][a] = 1 /\ ~Attempted(c, a) -> "unrecorded"
      [] sent[c][a] = 1 /\ Attempted(c, a) ->
            IF state[c] = AttemptTarget(a) THEN "sent" ELSE "done"
      [] OTHER ->
            IF ~Attempted(c, a) THEN "new"
            ELSE IF state[c] = AttemptTarget(a) THEN "persisted" ELSE "abandoned"

requestStatus == [j \in Cycle \X Action |-> RequestStatus(j[1], j[2])]

Transport == INSTANCE PersistentTransport WITH Job <- Cycle \X Action, status <- requestStatus

\* However processes crash and resume, an action is persisted before it is
\* sent, is sent at most once, is never sent once its cycle has moved on, and
\* no action starts while another is in flight (record_action_attempt before
\* perform_once_synthetic).
ImplementsTransport == Transport!TransportSpec

=============================================================================
