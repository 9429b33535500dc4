--------------------------- MODULE OandaBotOverlap --------------------------
(***************************************************************************)
(* OandaBot with a history of what its starts do to each other.            *)
(* initialize_automation and _fatal_stop write the automation's row as     *)
(* their own session read it, so a start that is asked for while another   *)
(* still holds the row it read may have its writes undone by that one.     *)
(***************************************************************************)
EXTENDS OandaBot

VARIABLE overlapped     \* starts have overlapped

overlapVars == <<botVars, overlapped>>

\* The request still holds the automation as off.
HoldsOff(c) == \E state \in loaded[c] : ~state.on

StartsOverlap ==
    /\ \E c \in Client : HoldsOff(c)
    /\ \E c \in Client : StartRequested(c)

OverlapInit == BotInit /\ overlapped = FALSE
OverlapNext == BotNext /\ overlapped' = (overlapped \/ StartsOverlap)
OverlapSpec == OverlapInit /\ [][OverlapNext]_overlapVars

\* A third close in a row is only tried after starts that overlapped: one was
\* asked for while another still held the automation as off, and may yet write
\* the count it read (initialize_automation, _fatal_stop).  Nothing else loses
\* a count: not the reads of the market in between, not stops, restarts, manual
\* cycles or a failing start alone.
ThirdCloseNeedsOverlap == closeFails > 2 => overlapped

=============================================================================
