SPECIFICATION Spec
CONSTANTS
    Clients = {c1, c2}
    Panes = {p1, p2, p3}
    Tabs = {t1}
    Areas <- EveryArea
    Geometries <- SmallGeometries
    Drawn = {c1}
    NoPane = NoPane
    NoClient = NoClient
SYMMETRY PaneAndTabIds
INVARIANTS FocusHasRoom KeptSolveIsFresh
CHECK_DEADLOCK FALSE
