--------------------------- MODULE OandaBotLiveness -------------------------
(***************************************************************************)
(* What the OANDA practice bot eventually does.  A runner thread's wait    *)
(* times out again and again (AutomationRunner._run), a thread that has    *)
(* begun goes on, since every call to the broker has a timeout             *)
(* (OandaBroker's client), and a server that restarts recovers.  Nobody    *)
(* has to ask for anything, and trades need not close.                     *)
(***************************************************************************)
EXTENDS OandaBot

Fairness ==
    /\ \A t \in Thread : WF_botVars(ThreadStep(t))
    /\ \A t \in Loop : WF_botVars(t \in runner /\ BeginCycle(t))
    /\ WF_botVars(Recover)
    /\ WF_botVars(RecoverBot)

LiveBotSpec == BotSpec /\ Fairness

\* A start that is asked for again and again may cut every wait short.
RequestsEnd == <>[](\A c \in Client : pc[c] \notin RequestLabel)

\* The result of a trade that is recorded as filled is booked once the trade
\* is closed, unless the automation stops: whatever race of starts, stops and
\* restarts leaves the automation on also leaves a runner thread that looks
\* (AutomationRunner, _reconcile_closed_positions).  A start of the bot alone
\* starts no runner: after it the automation may be on with nobody looking.
TradeIsBooked ==
    RequestsEnd =>
        \A o \in Order :
            row[o].status = "filled" /\ trade[o] \in {"won", "lost"}
                ~> row[o].status # "filled" \/ ~enabled \/ ~Practising \/ word = "bot"

=============================================================================
