---------------------------- MODULE OutputStream ----------------------------
(***************************************************************************)
(* What the consumer of a session's panes is promised, whichever way the   *)
(* output takes: `PtySink` (koshi-pty/src/backend/state.rs), implemented   *)
(* by the session's inbox (module PaneOutput) and by the link of the       *)
(* process that holds the panes (module SupervisorLink).                   *)
(*                                                                         *)
(* A pane's output is a stream of numbered units.  The units reach the     *)
(* consumer once each and in order; the pane's exit reaches it once, after *)
(* the last unit.  A pane may leave, by a close, at the session's end, or  *)
(* with the link that carried it: what it had on the way is then given up  *)
(* and no exit of it is promised.                                          *)
(***************************************************************************)
EXTENDS Integers, Sequences

CONSTANTS
  Panes,     \* the panes
  Modulus    \* units are numbered modulo this

VARIABLES
  phase,     \* "open", "exited" or "left"
  next,      \* number of the unit the terminal gives next
  fed,       \* number of the unit the consumer takes next
  unfed      \* numbers of the units on their way, oldest first

vars == <<phase, next, fed, unfed>>

Init ==
  /\ phase = [p \in Panes |-> "open"]
  /\ next = [p \in Panes |-> 0]
  /\ fed = [p \in Panes |-> 0]
  /\ unfed = [p \in Panes |-> <<>>]

\* The terminal gives n units.
Take(p, n) ==
  /\ phase[p] = "open"
  /\ next' = [next EXCEPT ![p] = (@ + n) % Modulus]
  /\ unfed' = [unfed EXCEPT ![p] = @ \o [i \in 1 .. n |-> (next[p] + i - 1) % Modulus]]
  /\ UNCHANGED <<phase, fed>>

\* The consumer takes the n oldest units, which are the ones it expects.
FeedUnits(p, n) ==
  /\ phase[p] = "open"
  /\ \A i \in 1 .. n : unfed[p][i] = (fed[p] + i - 1) % Modulus
  /\ fed' = [fed EXCEPT ![p] = (@ + n) % Modulus]
  /\ unfed' = [unfed EXCEPT ![p] = SubSeq(@, n + 1, Len(@))]
  /\ UNCHANGED next

Feed(p, n) == FeedUnits(p, n) /\ UNCHANGED phase

\* The consumer takes what is left and the exit.
Exit(p) ==
  /\ FeedUnits(p, Len(unfed[p]))
  /\ phase' = [phase EXCEPT ![p] = "exited"]

\* Panes leave: what they had on the way is given up, and nothing is promised
\* of them any more.
Leave(left) ==
  /\ left # {}
  /\ \A p \in left : phase[p] = "open"
  /\ phase' = [p \in Panes |-> IF p \in left THEN "left" ELSE phase[p]]
  /\ next' = [p \in Panes |-> IF p \in left THEN 0 ELSE next[p]]
  /\ fed' = [p \in Panes |-> IF p \in left THEN 0 ELSE fed[p]]
  /\ unfed' = [p \in Panes |-> IF p \in left THEN <<>> ELSE unfed[p]]

Next ==
  \/ \E p \in Panes :
       \/ \E n \in 1 .. Modulus : Take(p, n)
       \/ \E n \in 1 .. Len(unfed[p]) : Feed(p, n)
       \/ Exit(p)
  \/ \E left \in SUBSET Panes : Leave(left)

Spec == Init /\ [][Next]_vars
=============================================================================
