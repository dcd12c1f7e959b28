--------------------------- MODULE MCRouterGate ---------------------------
(* Small instances of RouterGate. *)
EXTENDS RouterGate

AllKinds == {"query", "wait", "restart"}
=============================================================================
