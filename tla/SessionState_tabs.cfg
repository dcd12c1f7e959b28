SPECIFICATION Spec
CONSTANTS
    Clients = {c1, c2}
    Panes = {p1, p2, p3}
    Tabs = {t1, t2, t3}
    Areas = {1, 2}
    Geometries <- OneGeometry
    Drawn <- NoClients
    NoPane = NoPane
    NoClient = NoClient
SYMMETRY AllIds
INVARIANTS TabsAreWellFormed ViewsAreWhole SolveFitsViewers
 
CHECK_DEADLOCK FALSE
