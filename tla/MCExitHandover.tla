--------------------------- MODULE MCExitHandover ---------------------------
(* Values of the constants of ExitHandover for TLC. *)
EXTENDS ExitHandover

AllKinds == {"owned", "blocking", "console"}
=============================================================================
