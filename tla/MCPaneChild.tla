----------------------------- MODULE MCPaneChild -----------------------------
(* Small instances of PaneChild: two panes, the first carried over from an  *)
(* image that had reaped its child, or none.                                *)
EXTENDS PaneChild

CONSTANTS p1, p2

TwoPanes == {p1, p2}
FirstPane == {p1}
SecondPane == {p2}
\* A close signals the leader or the whole group.
OnePolicyEach(p) == IF p = p1 THEN {"graceful"} ELSE {"gracefulTree"}
=============================================================================
