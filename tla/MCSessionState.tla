--------------------------- MODULE MCSessionState ---------------------------
(* Small instances of SessionState for TLC. *)
EXTENDS SessionState, TLC

\* Ids are interchangeable: no definition orders clients, panes or tabs.
PaneAndTabIds == Permutations(Panes) \cup Permutations(Tabs)
AllIds == PaneAndTabIds \cup Permutations(Clients)

\* All that fits is kept, and either of two panes shown is the nearest; or
\* only the first pane is kept, which leaves one to be the nearest.
SmallGeometries ==
  {[kept |-> Cardinality(Panes), near |-> n] : n \in {1, 2}} \cup {[kept |-> 1, near |-> 1]}

\* Where no tab has room for three panes there is nothing to choose.
OneGeometry == [kept: {Cardinality(Panes)}, near: {1}]

NoClients == {}

\* No room to count, no room for any pane, and room for two or for three.
EveryArea == {Starving, 0, 2, 3}

=============================================================================
