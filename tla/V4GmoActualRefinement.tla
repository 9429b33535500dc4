------------------------ MODULE V4GmoActualRefinement -----------------------
(***************************************************************************)
(* The actual path implements PersistentTransport.  An attempt is in       *)
(* flight while it is the database's pending marker; a request sent twice, *)
(* or sent without a record, maps outside the abstract states.             *)
(***************************************************************************)
EXTENDS V4GmoActualPath

RequestStatus(j) ==
    CASE sent[j] > 1 -> "sentTwice"
      [] sent[j] = 1 /\ j \notin attempts -> "unrecorded"
      [] sent[j] = 1 /\ j \in attempts -> IF pending = {j} THEN "sent" ELSE "done"
      [] OTHER ->
            IF j \notin attempts THEN "new"
            ELSE IF pending = {j} THEN "persisted" ELSE "abandoned"

requestStatus == [j \in Signal \X Action |-> RequestStatus(j)]

Transport == INSTANCE PersistentTransport WITH Job <- Signal \X Action, status <- requestStatus

\* However sessions crash and the console and the supervisor interfere, an
\* action is persisted before it is sent, is sent at most once, and none is
\* persisted while the marker of another is pending
\* (_mark_transport_pending, _committed_attempt_verifier).
ImplementsTransport == Transport!TransportSpec

=============================================================================
