-------------------------- MODULE MCSupervisorLink --------------------------
(* A small instance of SupervisorLink: one pane, opened over the first link, *)
(* that prints chunks longer than the window.                               *)
EXTENDS SupervisorLink

CONSTANT p1

OnePane == {p1}
Chunks == {3}
WindowOnly == {"window"}
=============================================================================
