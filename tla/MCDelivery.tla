----------------------------- MODULE MCDelivery -----------------------------
(* Small instances of Delivery. *)
EXTENDS Delivery, TLC

CatchUpInputs == {"view", "event", "hostWrite", "unsentReport"}
QueueInputs == {"view", "event", "answer", "pong", "breakLink", "reject"}
EndingInputs == {"view", "request", "closeLastTab", "quit", "restart",
                 "leave", "detach"}
StreamInputs == CatchUpInputs \cup EndingInputs

\* No definition tells two rejected actions apart.
QueueSymmetry == Permutations(RejectedActions)
=============================================================================
