--------------------------- MODULE MCPaneOutput ---------------------------
(* Small instances of PaneOutput.  A long read is two bytes: with a limit  *)
(* of three, a queue fills with its second chunk and overshoots.           *)
EXTENDS PaneOutput

CONSTANTS p1, p2

OnePane == {p1}
TwoPanes == {p1, p2}
FirstPane == {p1}
SecondPane == {p2}

TwoSlots == 1 .. 2
ThreeSlots == 1 .. 3

UnitReads == {1}
LongReads == {2}

AllRequests == {"closePane", "killSession", "restart"}
NoRequests == {}
=============================================================================
