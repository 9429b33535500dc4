------------------------- MODULE E1ShadowRefinement -------------------------
(***************************************************************************)
(* The E1 engine implements PersistentTransport: its jobs are its intents, *)
(* numbered as they are prepared.                                          *)
(***************************************************************************)
EXTENDS E1Shadow

Job == 1..MaxIntents

\* What an intent has come to, from the journal file and the executions.  One
\* that is executed twice is in no state of a transport: it is "new" again.
Executed(id) == \E k \in DOMAIN sent : sent[k].trade.id = id
ExecutedTwice(id) ==
    \E k, n \in DOMAIN sent : k # n /\ sent[k].trade.id = id /\ sent[n].trade.id = id

StatusOf(id) ==
    IF id > journal.prepared \/ ExecutedTwice(id) THEN "new"
    ELSE IF \E i \in journal.open : i.id = id
    THEN (IF Executed(id) THEN "sent" ELSE "persisted")
    ELSE (IF Executed(id) THEN "done" ELSE "abandoned")

intentStatus == [id \in Job |-> StatusOf(id)]

Transport == INSTANCE PersistentTransport WITH Job <- Job, status <- intentStatus

\* The engine implements PersistentTransport: an intent is in the journal before
\* it is executed, executed at most once, also across restarts, and the next one
\* is prepared only when none is unresolved.
ImplementsTransport == Transport!TransportSpec

=============================================================================
