---------------------------- MODULE SessionState ----------------------------
(***************************************************************************)
(* The session model of crates/koshi-session, driven by the handlers of    *)
(* koshi-runtime/src/runtime/command: tabs, the pane registry, and for     *)
(* every attached client the tab it views, its focus history and zoom in   *)
(* each tab, and the solve it keeps of its own view.                       *)
(*                                                                         *)
(* One dispatcher applies the commands, so every handler is one action;    *)
(* what is hard is inside them.  A handler edits the session through a     *)
(* dozen helpers, each of which may solve a tab again, hand focus on,      *)
(* or close a tab, and the next helper works on what that one left.  The   *)
(* helpers are operators from session states to session states here, and   *)
(* an action applies them in the order the code does.                      *)
(*                                                                         *)
(* Geometry is abstracted to what focus can see of it.  A pane area is a   *)
(* number: how many panes fit.  A tab of more panes than its solved size   *)
(* suppresses trailing ones: how many is a choice (`kept`), as a nested    *)
(* split that does not fit is dropped whole; a zoomed pane needs room for  *)
(* one.  Which of the panes shown is the spatial neighbour that inherits a *)
(* focus is a choice as well (`near`).                                     *)
(*                                                                         *)
(* Left out: floating panes, stacks, docking, the preview a client expects *)
(* of a placement, a tab's own focus_mru, a profile's start tab, and the   *)
(* views saved at a detach.                                                *)
(***************************************************************************)
EXTENDS Naturals, Integers, Sequences, FiniteSets, FiniteSetsExt, SequencesExt

CONSTANTS
    Clients,    \* client ids
    Panes,      \* pane ids
    Tabs,       \* tab ids
    Areas,      \* the pane areas clients report
    Geometries, \* what the geometry may decide within one handler
    Drawn,      \* the clients whose frames are drawn
    NoPane,     \* "no pane", not a pane id
    NoClient    \* "no client", not a client id

\* PaneArea::Starving: a client with no room for panes, left out of every
\* minimum, unlike an area of 0, which leaves no room to the others either.
Starving == -1

\* The sizes a tab is solved at.
Sizes == (Areas \ {Starving}) \cup {0}

ASSUME SessionConstants ==
    /\ NoPane \notin Panes
    /\ NoClient \notin Clients
    /\ IsFiniteSet(Panes) /\ IsFiniteSet(Tabs)
    /\ \A area \in Areas : area \in Nat \cup {Starving}
    /\ Geometries # {}
    /\ \A g \in Geometries : g.kept \in Nat /\ g.near \in Nat \ {0}
    /\ Drawn \subseteq Clients

VARIABLES
    tabs,       \* the session's tabs: live tab id -> Tab
    panes,      \* the pane registry: the panes that hold a record
    clients,    \* the attached clients: client id -> Client
    lifecycle   \* SessionLifecycle

vars == <<tabs, panes, clients, lifecycle>>

Session == [tabs |-> tabs, panes |-> panes, clients |-> clients,
            lifecycle |-> lifecycle]

----------------------------------------------------------------------------
\* Reading a session.

Leaves(s, t) == Range(s.tabs[t].leaves)

TabOf(s, p) == CHOOSE t \in DOMAIN s.tabs : p \in Leaves(s, t)

Viewers(s, t) == {c \in DOMAIN s.clients : s.clients[c].active = t}

Focused(s, c, t) ==
    LET hist == s.clients[c].hist[t]
    IN  IF hist = <<>> THEN NoPane ELSE Head(hist)

\* SessionLifecycle::transition; an event a state does not accept changes
\* nothing.
Transition(state, event) ==
    IF event = "StopRequested" THEN "Stopping"
    ELSE IF event = "LastClientDetached" /\ state = "Running" THEN "Detaching"
    ELSE IF event = "ClientAttached" /\ state = "Detaching" THEN "Running"
    ELSE state

\* The clients that focus a pane in a tab, viewed or not, and the others than
\* c that type in it: list_following_client_ids.
Focusing(s, t, p) ==
    {c \in DOMAIN s.clients : p # NoPane /\ Focused(s, c, t) = p}

\* Mutant: every viewer of the pane's tab follows it.
FollowingViewers(s, p, c) ==
    {d \in DOMAIN s.clients \ {c} :
        /\ s.clients[d].active \in DOMAIN s.tabs
        /\ p \in Leaves(s, s.clients[d].active)}

FollowingClients(s, p, c) ==
    {d \in DOMAIN s.clients \ {c} : d \in Focusing(s, s.clients[d].active, p)}

\* The members of a sequence that are in a set, in their order, and the ones
\* other than p.
Keeping(seq, S) ==
    LET upTo[n \in 0..Len(seq)] ==
            IF n = 0 THEN <<>>
            ELSE IF seq[n] \in S THEN Append(upTo[n - 1], seq[n]) ELSE upTo[n - 1]
    IN  upTo[Len(seq)]

Without(seq, p) == Keeping(seq, Range(seq) \ {p})

\* A function that gives v at x.
With(f, x, v) == [y \in DOMAIN f \cup {x} |-> IF y = x THEN v ELSE f[y]]

\* The first pane of a sequence that is in a set.
FirstIn(seq, S) ==
    LET at == {i \in DOMAIN seq : seq[i] \in S}
    IN  IF at = {} THEN NoPane ELSE seq[Min(at)]

\* Session::get_tab_size: the smallest area of the viewers that report one.
GetTabSize(s, t) ==
    LET areas == {s.clients[c].area : c \in Viewers(s, t)} \ {Starving}
    IN  IF areas = {} THEN Starving ELSE Min(areas)

\* The size a tab is solved at: its viewers' minimum, 0 when all of them
\* starve, and the size it holds while nobody views it.
ResolveTabSolveSize(s, t) ==
    IF Viewers(s, t) = {} THEN s.tabs[t].size
    ELSE IF GetTabSize(s, t) = Starving THEN 0
    ELSE GetTabSize(s, t)

\* The panes a tiled solve suppresses: none when all fit, else the trailing
\* ones.
Suppressed(leaves, size, g) ==
    IF Len(leaves) <= size THEN {}
    ELSE {leaves[i] : i \in {j \in DOMAIN leaves : j > Min({size, g.kept})}}

\* The solve a client draws a tab with when it is not the tab's own: the
\* zoomed pane and the size it is solved at; NoPane for the tab's own solve.
BuildOwnSolve(s, c, t) ==
    LET zoomed == s.clients[c].zoom[t]
    IN  IF zoomed \in Leaves(s, t) THEN <<zoomed, s.tabs[t].size>>
                                   ELSE <<NoPane, 0>>

\* Session::compute_client_solve: the active tab is drawn with the kept solve.
ClientSolve(s, c, t) ==
    LET kept == s.clients[c].own
    IN  IF t = s.clients[c].active /\ kept # <<>> THEN kept
                                                  ELSE BuildOwnSolve(s, c, t)

\* The panes of a tab that a client's solve gives an area.
ShownPanes(s, c, t) ==
    LET solve == ClientSolve(s, c, t)
    IN  IF solve[1] = NoPane THEN Leaves(s, t) \ s.tabs[t].hidden
        ELSE IF solve[2] >= 1 THEN {solve[1]}
        ELSE {}

\* find_landing_pane: the newest pane of the history, else the first leaf,
\* that is a leaf with a record.
LandingPane(s, c, t) ==
    IF t \notin DOMAIN s.tabs THEN NoPane
    ELSE FirstIn(s.clients[c].hist[t] \o s.tabs[t].leaves,
                 Leaves(s, t) \cap s.panes)

----------------------------------------------------------------------------
\* Client records.  Every change of a view empties the kept solve.

FromAttachment(t, area) ==
    [active |-> t, area |-> area,
     hist |-> [u \in Tabs |-> <<>>], zoom |-> [u \in Tabs |-> NoPane],
     own |-> <<>>]

\* Mutant: the kept solve outlives a move of the zoom.
UpdateFocusKeepsSolve(client, t, p) ==
    [client EXCEPT
        !.zoom[t] = IF @ = NoPane THEN NoPane ELSE p,
        !.hist[t] = <<p>> \o Without(@, p)]

UpdateFocusedPane(client, t, p) ==
    [client EXCEPT
        !.zoom[t] = IF @ = NoPane THEN NoPane ELSE p,
        !.hist[t] = <<p>> \o Without(@, p),
        !.own = <<>>]

ClearFocusHistory(client, t) ==
    [client EXCEPT !.hist[t] = <<>>, !.zoom[t] = NoPane, !.own = <<>>]

\* Mutant: only the clients that focused the pane forget it.
RemoveOnlyFocused(client, t, p) ==
    IF client.hist[t] # <<>> /\ Head(client.hist[t]) = p
    THEN [client EXCEPT !.hist[t] = Tail(@), !.own = <<>>] ELSE client

RemovePaneFromFocusHistory(client, t, p) ==
    [client EXCEPT !.hist[t] = Without(@, p), !.own = <<>>]

ZoomPane(client, t, p) == [client EXCEPT !.zoom[t] = p, !.own = <<>>]

ClearZoom(client, t) == [client EXCEPT !.zoom[t] = NoPane, !.own = <<>>]

ClearZoomOfPane(client, p) ==
    [client EXCEPT
        !.zoom = [t \in Tabs |-> IF @[t] = p THEN NoPane ELSE @[t]],
        !.own = <<>>]

UpdateActiveTab(client, t) == [client EXCEPT !.active = t, !.own = <<>>]

\* The session state with the records of some clients changed, each to what
\* Change gives for that client in the state as it was.
ForClients(s, S, Change(_, _)) ==
    [s EXCEPT !.clients = [c \in DOMAIN s.clients |->
        IF c \in S THEN Change(s, c) ELSE s.clients[c]]]

DropKeptSolves(s, S) ==
    ForClients(s, S, LAMBDA r, c : [r.clients[c] EXCEPT !.own = <<>>])

ShowTab(s, S, t) ==
    ForClients(s, S, LAMBDA r, c : UpdateActiveTab(r.clients[c], t))

ForgetTab(s, t) ==
    ForClients(s, DOMAIN s.clients, LAMBDA r, c : ClearFocusHistory(r.clients[c], t))

ForgetPane(s, t, p) ==
    ForClients(s, DOMAIN s.clients,
               LAMBDA r, c : RemovePaneFromFocusHistory(r.clients[c], t, p))

LeaveZoom(s, S, t) == ForClients(s, S, LAMBDA r, c : ClearZoom(r.clients[c], t))

LeaveZoomsOf(s, p) ==
    ForClients(s, DOMAIN s.clients, LAMBDA r, c : ClearZoomOfPane(r.clients[c], p))

EnterZoom(s, c, t, p) ==
    ForClients(s, {c}, LAMBDA r, d : ZoomPane(r.clients[d], t, p))

----------------------------------------------------------------------------
\* Handing focus on.

\* repair_client_focus: the newest pane of the history the client's solve
\* shows, else the spatial neighbour among the panes it shows, else the
\* landing pane; with no pane at all the client's view of the tab is dropped.
FocusHeir(s, t, c, g) ==
    LET hist == s.clients[c].hist[t]
        Nearest(ranked) == IF ranked = <<>> THEN LandingPane(s, c, t)
                           ELSE ranked[Min({g.near, Len(ranked)})]
        Among(shown) ==
            IF Range(hist) \cap shown # {} THEN FirstIn(hist, shown)
            ELSE Nearest(Keeping(s.tabs[t].leaves, shown))
    IN  Among(ShownPanes(s, c, t) \cap s.panes)

RepairClientFocus(s, t, c, g) ==
    LET HandTo(heir) == IF heir = NoPane THEN ClearFocusHistory(s.clients[c], t)
                        ELSE UpdateFocusedPane(s.clients[c], t, heir)
    IN  HandTo(FocusHeir(s, t, c, g))

\* land_focus: a client without a focus in the tab takes its landing pane.
LandFocus(s, c, t) ==
    IF Focused(s, c, t) # NoPane \/ LandingPane(s, c, t) = NoPane
    THEN s.clients[c]
    ELSE UpdateFocusedPane(s.clients[c], t, LandingPane(s, c, t))

LandClients(s, S, t) == ForClients(s, S, LAMBDA r, c : LandFocus(r, c, t))

RepairFocus(s, S, t, g) ==
    ForClients(s, S, LAMBDA r, c : RepairClientFocus(r, t, c, g))

\* The clients that view a tab tiled and focus a pane its solve suppresses.
SuppressedFocus(s, t) ==
    {c \in Viewers(s, t) : /\ s.clients[c].zoom[t] = NoPane
                           /\ Focused(s, c, t) \in s.tabs[t].hidden}

HandOffSuppressedFocus(s, t, g) ==
    IF s.tabs[t].hidden = Leaves(s, t) THEN s
    ELSE RepairFocus(s, SuppressedFocus(s, t), t, g)

\* apply_tiled_pane_focus: one client focuses a pane of a tab.
FocusTiled(s, c, t, p) ==
    ForClients(s, {c}, LAMBDA r, d : UpdateFocusedPane(r.clients[d], t, p))

----------------------------------------------------------------------------
\* Solving tabs.

\* Hold a new tree and size with their solve; the viewers' kept solves of the
\* tab are emptied.
SolveTab(s, t, leaves, size, g) ==
    DropKeptSolves([s EXCEPT !.tabs[t].leaves = leaves,
                             !.tabs[t].size = size,
                             !.tabs[t].hidden = Suppressed(leaves, size, g)],
                   Viewers(s, t))

\* Replace the tree and solve it at the size the tab holds.
UpdateTabLayout(s, t, leaves, g) ==
    HandOffSuppressedFocus(SolveTab(s, t, leaves, s.tabs[t].size, g), t, g)

\* Mutant: focus is handed on only when the size changed.
UpdateTabSolveIfResized(s, t, g) ==
    IF t \notin DOMAIN s.tabs \/ ResolveTabSolveSize(s, t) = s.tabs[t].size THEN s
    ELSE HandOffSuppressedFocus(
             SolveTab(s, t, s.tabs[t].leaves, ResolveTabSolveSize(s, t), g), t, g)

\* Solve the tab again when its size changed, and hand focus on either way.
\* A tab the session does not hold is left alone.
UpdateTabSolve(s, t, g) ==
    IF t \notin DOMAIN s.tabs THEN s
    ELSE LET Solved(size) == IF size = s.tabs[t].size THEN s
                             ELSE SolveTab(s, t, s.tabs[t].leaves, size, g)
         IN  HandOffSuppressedFocus(Solved(ResolveTabSolveSize(s, t)), t, g)

\* Mutant: the tab a client left keeps the size it had with it.
UpdateEnteredTabSolve(s, t, left, g) == UpdateTabSolve(s, t, g)

\* The same for the tab a client came to and the tab it left.
UpdateTabSolves(s, t, left, g) ==
    UpdateTabSolve(UpdateTabSolve(s, t, g), left, g)

----------------------------------------------------------------------------
\* Closing tabs and removing panes.

\* The tab before the closed one in display order, else the one after it.
NearestSurvivingTab(s, index) ==
    LET before == {t \in DOMAIN s.tabs : s.tabs[t].index < index}
        after  == {t \in DOMAIN s.tabs : s.tabs[t].index > index}
        at(i)  == CHOOSE t \in DOMAIN s.tabs : s.tabs[t].index = i
    IN  IF before # {} THEN at(Max({s.tabs[t].index : t \in before}))
                       ELSE at(Min({s.tabs[t].index : t \in after}))

\* Number the tabs densely in display order.
ReindexTabs(s) ==
    [s EXCEPT !.tabs = [t \in DOMAIN s.tabs |->
        [s.tabs[t] EXCEPT !.index =
            Cardinality({u \in DOMAIN s.tabs : s.tabs[u].index < @})]]]

\* Take the tab out; its viewers go to the nearest surviving tab and land
\* there.  The last tab's close stops the session.
CloseAndRefocusTab(s, t, g) ==
    LET viewers == Viewers(s, t)
        removed == [s EXCEPT !.tabs =
                        [u \in DOMAIN s.tabs \ {t} |-> s.tabs[u]]]
        Land(r, next) ==
            ReindexTabs(UpdateTabSolve(
                LandClients(ShowTab(r, viewers, next), viewers, next), next, g))
        Settle(r) ==
            IF DOMAIN r.tabs = {}
            THEN [r EXCEPT !.lifecycle = Transition(@, "StopRequested")]
            ELSE Land(r, NearestSurvivingTab(r, s.tabs[t].index))
    IN  Settle(ForgetTab(removed, t))

\* compute_client_solve keeps the solve of a client's active tab.
KeepSolves(s, S, t) ==
    ForClients(s, {c \in S : s.clients[c].active = t},
               LAMBDA r, c : [r.clients[c] EXCEPT !.own = ClientSolve(r, c, t)])

\* repair_focus_after_pane_left: hand on the focus of the clients that focused
\* the pane, then take it out of every history.
RepairAfterPaneLeft(s, t, p, focusing, g) ==
    ForgetPane(RepairFocus(s, focusing, t, g), t, p)

\* Take a pane's leaf out of its tab: the layout, the zooms on the pane, the
\* focus of the clients that focused it, and every history, in this order.
RemovePaneFromTab(s, t, p, g) ==
    LET focusing == Focusing(s, t, p)
        ranked   == KeepSolves(s, focusing, t)
        leaves   == Without(s.tabs[t].leaves, p)
    IN  IF leaves = <<>> THEN CloseAndRefocusTab(LeaveZoomsOf(ranked, p), t, g)
        ELSE RepairAfterPaneLeft(
                 LeaveZoomsOf(UpdateTabLayout(ranked, t, leaves, g), p),
                 t, p, focusing, g)

\* Mutant: the record of a closed pane stays.
RemovePaneKeepsRecord(s, t, p, g) == RemovePaneFromTab(s, t, p, g)

\* The reflow of a tab, or when it closed of the tab its viewers landed on.
ReflowLanding(s, t, viewers, g) ==
    LET reflow == IF t \in DOMAIN s.tabs THEN {t}
                  ELSE {s.clients[c].active : c \in viewers}
    IN  IF reflow = {} THEN s
        ELSE UpdateTabSolve(s, CHOOSE u \in reflow : TRUE, g)

\* remove_pane_cascade, then the reflow.
RemovePaneAndReflow(s, t, p, g) ==
    LET gone == [s EXCEPT !.panes = @ \ {p}]
    IN  ReflowLanding(RemovePaneFromTab(gone, t, p, g), t, Viewers(s, t), g)

----------------------------------------------------------------------------
\* Placing a pane in another tab.  Its clients go with it: the client that
\* acts, and every other client that types in it.

\* The size a tab takes once some clients arrived and others left; Starving
\* when none of its viewers reports an area.  Viewers of `merging`, a tab that
\* closes into this one, count as its own.
SizeAfterMove(s, t, merging, arriving, leaving) ==
    LET staying == {d \in DOMAIN s.clients \ leaving :
                        s.clients[d].active \in {t} \cup merging}
        areas == {s.clients[d].area : d \in arriving \cup staying} \ {Starving}
    IN  IF areas = {} THEN Starving ELSE Min(areas)

\* move_client_onto_tiled_pane.
MoveOntoTiledPane(client, t, p) ==
    UpdateFocusedPane(UpdateActiveTab(ClearZoom(client, t), t), t, p)

MoveOntoPane(s, S, t, p) ==
    ForClients(s, S, LAMBDA r, c : MoveOntoTiledPane(r.clients[c], t, p))

\* update_tab_solves, one tab after another: a solve reads and changes its own
\* tab and the clients that view it, and a client views one tab.
SolveEachTab(s, S, g) ==
    [s EXCEPT
        !.tabs = [t \in DOMAIN s.tabs |->
                     IF t \in S THEN UpdateTabSolve(s, t, g).tabs[t] ELSE s.tabs[t]],
        !.clients = [c \in DOMAIN s.clients |->
                        IF s.clients[c].active \in S
                        THEN UpdateTabSolve(s, s.clients[c].active, g).clients[c]
                        ELSE s.clients[c]]]

\* commit_cross_tab_placement: pane p of tab t goes into tab u, for client c;
\* a swap sends q back with the clients that type in it.  `rest` and `placed`
\* are the leaves the two tabs are left with; a tab left with none closes.
CommitCrossTabPlacement(s, c, p, t, u, q, rest, placed, g) ==
    LET moving    == {c} \cup FollowingClients(s, p, c)
        returning == FollowingClients(s, q, c)
        isClosing == rest = <<>>
        left   == {s.clients[d].active : d \in moving \cup returning}
        ranked == KeepSolves(KeepSolves(s, Focusing(s, t, p), t),
                             Focusing(s, u, q), u)
        Laid(r) == IF isClosing THEN r ELSE UpdateTabLayout(r, t, rest, g)
        tiled  == LeaveZoomsOf(LeaveZoomsOf(
                      Laid(UpdateTabLayout(ranked, u, placed, g)), p), q)
        moved  == MoveOntoPane(MoveOntoPane(tiled, moving, u, p),
                               returning \ moving, t, q)
        solved == SolveEachTab(moved,
                      ({t, u} \cup left) \ (IF isClosing THEN {t} ELSE {}), g)
        LeftSource(r) == IF isClosing THEN CloseAndRefocusTab(r, t, g)
                         ELSE RepairAfterPaneLeft(r, t, p,
                                  Focusing(s, t, p) \ returning, g)
        LeftDestination(r) == IF q = NoPane THEN r
                              ELSE RepairAfterPaneLeft(r, u, q,
                                       Focusing(s, u, q) \ moving, g)
    IN  LeftDestination(LeftSource(solved))

----------------------------------------------------------------------------
\* Initial states: bootstrap's first tab, before any client attached.

Init ==
    \E t \in Tabs, p \in Panes, size \in Sizes :
        /\ tabs = [u \in {t} |-> [leaves |-> <<p>>, index |-> 0, size |-> size,
                                  hidden |-> IF size = 0 THEN {p} ELSE {}]]
        /\ panes = {p}
        /\ clients = <<>>
        /\ lifecycle = "Running"

Commit(s) ==
    /\ tabs' = s.tabs
    /\ panes' = s.panes
    /\ clients' = s.clients
    /\ lifecycle' = s.lifecycle

\* A session that winds down rejects every command.
AcceptsCommands == lifecycle # "Stopping"

----------------------------------------------------------------------------
\* Clients come, change size, and go.

\* handle_client_attach: a new record, or in place for an id that is still
\* attached; then a landing pane and the reflow of the tabs concerned.
AttachClient(c, t, area, g) ==
    /\ t \in DOMAIN tabs
    /\ LET s == Session
           isAttached == c \in DOMAIN clients
           record == IF isAttached
                     THEN [UpdateActiveTab(clients[c], t) EXCEPT !.area = area]
                     ELSE FromAttachment(t, area)
           attached == [s EXCEPT
                           !.clients = With(@, c, record),
                           !.lifecycle = IF isAttached THEN @
                                         ELSE Transition(@, "ClientAttached")]
           left == IF isAttached THEN clients[c].active ELSE t
       IN  Commit(UpdateTabSolves(LandClients(attached, {c}, t), t, left, g))

ResizeClient(c, area, g) ==
    /\ c \in DOMAIN clients
    /\ LET s == [Session EXCEPT !.clients[c].area = area]
       IN  Commit(UpdateTabSolve(s, clients[c].active, g))

\* remove_client_record; the last client to leave leaves the session detached.
DetachClient(c, g) ==
    /\ c \in DOMAIN clients
    /\ LET others == DOMAIN clients \ {c}
           s == [Session EXCEPT
                    !.clients = [d \in others |-> clients[d]],
                    !.lifecycle = IF others # {} THEN @
                                  ELSE Transition(@, "LastClientDetached")]
       IN  Commit(UpdateTabSolve(s, clients[c].active, g))

\* A frame is drawn for a client, which keeps the solve of its active tab.
DrawClient(c) ==
    /\ c \in DOMAIN clients
    /\ clients[c].active \in DOMAIN tabs
    /\ Commit(KeepSolves(Session, {c}, clients[c].active))

----------------------------------------------------------------------------
\* Commands.

\* handle_new_tab, commit_new_tab: a tab of one pane at the client's area.
NewTab(c, t, p, g) ==
    /\ AcceptsCommands
    /\ c \in DOMAIN clients /\ t \notin DOMAIN tabs /\ p \notin panes
    /\ clients[c].area >= 1
    /\ LET s == Session
           tab == [leaves |-> <<p>>, index |-> Cardinality(DOMAIN tabs),
                   size |-> clients[c].area, hidden |-> {}]
           added == [s EXCEPT !.panes = @ \cup {p}, !.tabs = With(@, t, tab)]
           focused == FocusTiled(ShowTab(added, {c}, t), c, t, p)
       IN  Commit(UpdateTabSolve(
                      UpdateTabSolves(focused, t, clients[c].active, g),
                      clients[c].active, g))

\* resolve_new_pane_tab_size: the client that will view the new pane, and the
\* size the tab is going to have; a size of Starving is a rejection.
NewPaneClient(t, d) ==
    IF d = NoClient /\ GetTabSize(Session, t) = Starving
                    /\ Cardinality(DOMAIN clients) = 1
    THEN CHOOSE c \in DOMAIN clients : TRUE
    ELSE d

NewPaneTabSize(t, d) ==
    LET existing == GetTabSize(Session, t)
        own == IF NewPaneClient(t, d) = NoClient THEN Starving
               ELSE clients[NewPaneClient(t, d)].area
        sizes == {existing, own} \ {Starving}
    IN  IF sizes = {} THEN Starving ELSE Min(sizes)

\* split_leaf: the new pane before or after its source.
SplitLeaf(leaves, source, p, isBefore) ==
    LET at == Min({i \in DOMAIN leaves : leaves[i] = source})
    IN  InsertAt(leaves, IF isBefore THEN at ELSE at + 1, p)

\* commit_new_pane.
CommitNewPane(s, p, t, leaves, d, g) ==
    LET viewing == IF d = NoClient THEN {} ELSE {d}
        left    == IF d = NoClient THEN t ELSE s.clients[d].active
        moved   == ShowTab(s, {c \in viewing : left # t}, t)
        laid    == UpdateTabLayout([moved EXCEPT !.panes = @ \cup {p}],
                                   t, leaves, g)
        tiled   == LeaveZoom(laid, IF d = NoClient THEN DOMAIN s.clients ELSE viewing, t)
        Focus(r)  == IF d = NoClient THEN r ELSE FocusTiled(r, d, t, p)
        Settle(r) == IF left = t THEN r ELSE UpdateTabSolves(r, t, left, g)
    IN  Settle(Focus(tiled))

\* handle_new_pane.
NewPane(d, source, p, isBefore, g) ==
    /\ AcceptsCommands
    /\ d \in DOMAIN clients \cup {NoClient}
    /\ source \in panes /\ p \notin panes
    /\ LET s == Session
           t == TabOf(s, source)
           client == NewPaneClient(t, d)
           left == IF client = NoClient THEN t ELSE clients[client].active
           leaves == SplitLeaf(tabs[t].leaves, source, p, isBefore)
       IN  /\ Len(leaves) <= NewPaneTabSize(t, d)
           /\ Commit(UpdateTabSolves(CommitNewPane(s, p, t, leaves, client, g),
                                     t, left, g))

\* handle_close_pane: the closing client leaves its zoom of the tab first.
ClosePane(d, p, g) ==
    /\ AcceptsCommands
    /\ d \in DOMAIN clients \cup {NoClient}
    /\ p \in panes
    /\ LET t == TabOf(Session, p)
       IN  Commit(RemovePaneAndReflow(LeaveZoom(Session, {d}, t), t, p, g))

\* handle_child_exit: the same cascade, for a shell that ended.
ChildExit(p, g) ==
    /\ p \in panes
    /\ Commit(RemovePaneAndReflow(Session, TabOf(Session, p), p, g))

\* handle_close_tab, close_tab.
CloseTab(t, g) ==
    /\ AcceptsCommands
    /\ t \in DOMAIN tabs
    /\ LET s == [Session EXCEPT !.panes = @ \ Leaves(Session, t)]
       IN  Commit(ReflowLanding(CloseAndRefocusTab(s, t, g), t, Viewers(s, t), g))

\* handle_focus_tab, focus_tab.  By id, index, next or previous: in a densely
\* numbered session each resolves to one of its tabs.
FocusTab(c, t, g) ==
    /\ AcceptsCommands
    /\ c \in DOMAIN clients /\ t \in DOMAIN tabs
    /\ t # clients[c].active
    /\ LET s == Session
           left == clients[c].active
           landed == LandClients(ShowTab(s, {c}, t), {c}, t)
       IN  Commit(UpdateTabSolves(UpdateTabSolves(landed, t, left, g), t, left, g))

\* move_tab: the others keep their order around the freed slot.
MoveTab(t, index) ==
    /\ AcceptsCommands
    /\ t \in DOMAIN tabs
    /\ index < Cardinality(DOMAIN tabs) /\ index # tabs[t].index
    /\ LET position(u) == Cardinality({v \in DOMAIN tabs \ {t} :
                                           tabs[v].index < tabs[u].index})
           settled(u) == IF u = t THEN index
                         ELSE IF position(u) >= index THEN position(u) + 1
                         ELSE position(u)
       IN  Commit([Session EXCEPT !.tabs = [u \in DOMAIN tabs |->
               [tabs[u] EXCEPT !.index = settled(u)]]])

\* handle_focus_pane: a pane of the client's active tab that its view can
\* show.  The zoom follows the focus, and then the tab is reflowed.
FocusPane(c, p, g) ==
    /\ AcceptsCommands
    /\ c \in DOMAIN clients
    /\ LET s == Session
           t == clients[c].active
           zoomed == clients[c].zoom[t]
           focused == FocusTiled(s, c, t, p)
       IN  /\ p \in Leaves(s, t) \cap panes
           /\ GetTabSize(s, t) # Starving
           /\ IF zoomed # NoPane THEN tabs[t].size >= 1 ELSE p \notin tabs[t].hidden
           /\ Focused(s, c, t) # p \/ zoomed \notin {NoPane, p}
           /\ Commit(IF zoomed \in {NoPane, p} THEN focused
                     ELSE UpdateTabSolve(focused, t, g))

\* handle_toggle_pane_fullscreen: the focused pane, or from a pane's own
\* command line that pane, in whichever tab holds it.
ToggleFullscreen(c, p, g) ==
    /\ AcceptsCommands
    /\ c \in DOMAIN clients /\ p \in panes
    /\ LET s == Session
           t == TabOf(s, p)
           isEntered == clients[c].zoom[t] = NoPane
           toggled == IF isEntered
                      THEN FocusTiled(EnterZoom(s, c, t, p), c, t, p)
                      ELSE LeaveZoom(s, {c}, t)
       IN  /\ GetTabSize(s, t) # Starving
           /\ isEntered => tabs[t].size >= 1
           /\ Commit(UpdateTabSolve(toggled, t, g))

\* apply_place_pane_within_tab: the acting client leaves its zoom of the tab,
\* which is laid out again and reflowed; nobody's focus moves.
PlacePaneWithinTab(c, t, leaves, g) ==
    LET s == LeaveZoom(Session, {c}, t)
        size == GetTabSize(Session, t)
    IN  /\ size # Starving
        /\ Len(leaves) <= size \/ Len(leaves) = 1
        /\ Commit(UpdateTabSolve(UpdateTabLayout(s, t, leaves, g), t, g))

\* compute_placement_tab_sizes: the sizes the two tabs of a placement are going
\* to have.  Viewers of a source tab that closes land on the destination when
\* that is its nearest survivor.
PlacementTabSizes(c, p, t, u, q, isClosing) ==
    LET moving    == {c} \cup FollowingClients(Session, p, c)
        returning == FollowingClients(Session, q, c)
        isLanding == isClosing /\ NearestSurvivingTab(Session, tabs[t].index) = u
    IN  [placed |-> SizeAfterMove(Session, u, IF isLanding THEN {t} ELSE {},
                                  moving, returning),
         rest   |-> IF isClosing THEN Starving
                    ELSE SizeAfterMove(Session, t, {}, returning, moving)]

\* apply_place_pane_across_tabs: both tabs have to fit the clients they are
\* about to have; a tab nobody is going to view is not checked.  Then the
\* placement commits and the tabs concerned are reflowed.
PlacePaneAcrossTabs(c, p, t, u, q, rest, placed, g) ==
    LET s == Session
        isClosing == rest = <<>>
        Fit(sizes) == /\ sizes.placed # Starving
                      /\ Len(placed) <= sizes.placed
                      /\ sizes.rest # Starving => Len(rest) <= sizes.rest
        landing == IF isClosing THEN {NearestSurvivingTab(s, tabs[t].index)} ELSE {t}
        left == {clients[d].active : d \in {c} \cup FollowingClients(s, p, c)
                                             \cup FollowingClients(s, q, c)}
    IN  /\ Fit(PlacementTabSizes(c, p, t, u, q, isClosing))
        /\ Commit(SolveEachTab(
                      CommitCrossTabPlacement(s, c, p, t, u, q, rest, placed, g),
                      {u} \cup landing \cup (left \ {t}), g))

\* Two panes exchange their places in a sequence of leaves.
ExchangePanes(leaves, p, q) ==
    [i \in DOMAIN leaves |-> CASE leaves[i] = p -> q
                               [] leaves[i] = q -> p
                               [] OTHER -> leaves[i]]

\* apply_place_pane and handle_move_pane with a swap: two panes exchange their
\* leaves, in one tab or across two.
SwapPanes(c, p, q, g) ==
    /\ AcceptsCommands
    /\ c \in DOMAIN clients /\ {p, q} \subseteq panes /\ p # q
    /\ LET t == TabOf(Session, p)
           u == TabOf(Session, q)
           exchanged(v) == ExchangePanes(tabs[v].leaves, p, q)
       IN  IF t = u THEN PlacePaneWithinTab(c, t, exchanged(t), g)
           ELSE PlacePaneAcrossTabs(c, p, t, u, q, exchanged(t), exchanged(u), g)

\* apply_place_pane with an insertion: the pane leaves its place and splits
\* one of the destination, beside a pane, a group or the whole tab.
InsertPane(c, p, u, at, g) ==
    /\ AcceptsCommands
    /\ c \in DOMAIN clients /\ p \in panes /\ u \in DOMAIN tabs
    /\ LET t == TabOf(Session, p)
           rest == Without(tabs[t].leaves, p)
           others == IF t = u THEN rest ELSE tabs[u].leaves
       IN  /\ at <= Len(others) + 1
           /\ IF t = u THEN PlacePaneWithinTab(c, t, InsertAt(others, at, p), g)
              ELSE PlacePaneAcrossTabs(c, p, t, u, NoPane, rest,
                                       InsertAt(others, at, p), g)

----------------------------------------------------------------------------

\* There is something to choose only in a tab that holds several panes.
OpenChoices ==
    IF \E t \in DOMAIN tabs : Len(tabs[t].leaves) > 1
    THEN Geometries ELSE {CHOOSE g \in Geometries : TRUE}

Next ==
    \/ \E c \in Drawn : DrawClient(c)
    \/ \E t \in Tabs, index \in 0..(Cardinality(Tabs) - 1) : MoveTab(t, index)
    \/ \E g \in OpenChoices :
        \/ \E c \in Clients, t \in Tabs, area \in Areas : AttachClient(c, t, area, g)
        \/ \E c \in Clients, area \in Areas : ResizeClient(c, area, g)
        \/ \E c \in Clients : DetachClient(c, g)
        \/ \E c \in Clients, t \in Tabs, p \in Panes : NewTab(c, t, p, g)
        \/ \E d \in Clients \cup {NoClient}, source, p \in Panes, isBefore \in BOOLEAN :
               NewPane(d, source, p, isBefore, g)
        \/ \E d \in Clients \cup {NoClient}, p \in Panes : ClosePane(d, p, g)
        \/ \E p \in Panes : ChildExit(p, g)
        \/ \E t \in Tabs : CloseTab(t, g)
        \/ \E c \in Clients, t \in Tabs : FocusTab(c, t, g)
        \/ \E c \in Clients, p \in Panes : FocusPane(c, p, g)
        \/ \E c \in Clients, p \in Panes : ToggleFullscreen(c, p, g)
        \/ \E c \in Clients, p, q \in Panes : SwapPanes(c, p, q, g)
        \/ \E c \in Clients, p \in Panes, u \in Tabs, at \in 1..Cardinality(Panes) :
               InsertPane(c, p, u, at, g)

Spec == Init /\ [][Next]_vars

----------------------------------------------------------------------------
\* Types.

Tab == [leaves: Seq(Panes), index: Nat, size: Sizes, hidden: SUBSET Panes]

Client == [active: Tabs, area: Areas, hist: [Tabs -> Seq(Panes)],
           zoom: [Tabs -> Panes \cup {NoPane}],
           own: {<<>>} \cup ((Panes \cup {NoPane}) \X Sizes)]

\* The four parts of the session have their types.
TypeOK ==
    /\ DOMAIN tabs \subseteq Tabs /\ \A t \in DOMAIN tabs : tabs[t] \in Tab
    /\ panes \subseteq Panes
    /\ DOMAIN clients \subseteq Clients
    /\ \A c \in DOMAIN clients : clients[c] \in Client
    /\ lifecycle \in {"Running", "Detaching", "Stopping"}

----------------------------------------------------------------------------
\* Safety.

\* Every pane with a record is exactly one leaf of exactly one tab, and every
\* leaf has a record: a pane nobody can reach keeps its shell running, and a
\* leaf without a record takes focus and shows nothing.  No close, exit,
\* split or tab close leaves one behind.
EveryPaneIsOneLeaf ==
    /\ UNION {Leaves(Session, t) : t \in DOMAIN tabs} = panes
    /\ \A t, u \in DOMAIN tabs :
           \A i \in DOMAIN tabs[t].leaves, j \in DOMAIN tabs[u].leaves :
               tabs[t].leaves[i] = tabs[u].leaves[j] => t = u /\ i = j
    /\ \A t \in DOMAIN tabs : tabs[t].leaves # <<>>

\* Tab positions are 0, 1, .., n - 1: `next` and `previous` look a tab up by
\* position and find none where there is a gap.
TabOrderIsDense ==
    {tabs[t].index : t \in DOMAIN tabs} = 0..(Cardinality(DOMAIN tabs) - 1)

\* A view names only what exists: the tab a client views, and in every tab
\* the panes of its history, once each, and its zoom.  Only a session that
\* lost its last tab leaves clients on a tab that is gone.
ViewsAreLive ==
    \A c \in DOMAIN clients :
        /\ clients[c].active \in DOMAIN tabs \/ lifecycle = "Stopping"
        /\ \A t \in Tabs :
            LET hist == clients[c].hist[t]
                leaves == IF t \in DOMAIN tabs THEN Leaves(Session, t) ELSE {}
            IN  /\ Range(hist) \cup {clients[c].zoom[t]} \subseteq leaves \cup {NoPane}
                /\ \A i, j \in DOMAIN hist : hist[i] = hist[j] => i = j

\* A client always has a focused pane in the tab it views, and a zoom is on
\* the focused pane of its tab: keys never go nowhere, and never to a pane
\* the zoom hides.
ViewHasFocus ==
    \A c \in DOMAIN clients :
        /\ clients[c].active \in DOMAIN tabs =>
               Focused(Session, c, clients[c].active) # NoPane
        /\ \A t \in Tabs : clients[c].zoom[t] \in {NoPane, Focused(Session, c, t)}

\* Tabs, leaves and pane records agree after every cascade of a close or exit.
TabsAreWellFormed == TypeOK /\ EveryPaneIsOneLeaf /\ TabOrderIsDense

\* A client's view names live tabs and panes only, and has a focus.
ViewsAreWhole == ViewsAreLive /\ ViewHasFocus

\* A tab on some client's screen is solved at the size its present viewers
\* share, whoever attached, resized, left or switched last.
SolveFitsViewers ==
    \A t \in DOMAIN tabs : tabs[t].size = ResolveTabSolveSize(Session, t)

\* A client that views a tab tiled never focuses a pane the tab has no room
\* to show, unless it can show none.  A zoom that ends gives back a tiled
\* view solved while the zoom hid it.
FocusIsShown ==
    \A c \in DOMAIN clients :
        LET t == clients[c].active
        IN  /\ t \in DOMAIN tabs
            /\ clients[c].zoom[t] = NoPane
            /\ tabs[t].hidden # Leaves(Session, t)
            => Focused(Session, c, t) \notin tabs[t].hidden

\* The same where every viewer of a tab may lack room: the tab keeps a size a
\* layout can be solved at, and focus stays on what that size shows.
FocusHasRoom == TypeOK /\ FocusIsShown

\* The solve a client keeps of its active tab is the one it would build now:
\* no change of the tab, of the zoom or of the view leaves it stale.
KeptSolveIsFresh ==
    \A c \in DOMAIN clients :
        /\ clients[c].own # <<>>
        /\ clients[c].active \in DOMAIN tabs
        => clients[c].own = BuildOwnSolve(Session, c, clients[c].active)

----------------------------------------------------------------------------
\* Action properties.

\* A client whose focus in a tab moved in this step although the pane is
\* still there and its view still shows it, in a tab that got no more room.
MovedFreely(c) ==
    /\ c \in DOMAIN clients \cap DOMAIN clients'
    /\ \E t \in DOMAIN tabs \cap DOMAIN tabs' :
        LET p == Focused(Session, c, t)
        IN  /\ tabs'[t].size <= tabs[t].size
            /\ p \in Range(tabs'[t].leaves)
            /\ p \notin tabs'[t].hidden
            /\ clients'[c].hist[t] = <<>> \/ Head(clients'[c].hist[t]) # p

\* A client that was brought to another tab while its own still stands.
Switched(c) ==
    /\ c \in DOMAIN clients \cap DOMAIN clients'
    /\ clients'[c].active # clients[c].active
    /\ clients[c].active \in DOMAIN tabs'

\* A client that went to another tab with the pane it types in.
FollowsItsPane(c) ==
    /\ c \in DOMAIN clients \cap DOMAIN clients'
    /\ clients'[c].active # clients[c].active
    /\ clients'[c].hist[clients'[c].active] # <<>>
    /\ Head(clients'[c].hist[clients'[c].active]) =
           Focused(Session, c, clients[c].active)

\* A client that a step moves off a pane it can still see, or off a tab that
\* still stands, otherwise than with the pane it types in.
Displaced(c) == ~FollowsItsPane(c) /\ (MovedFreely(c) \/ Switched(c))

\* Clients do not steal each other's focus: a step displaces at most one
\* client, the one its command acts for; a placement that brings others to
\* another tab brings them with the pane they type in.  A tab the step gives
\* more room is left out: commit_cross_tab_placement lays a tab out at the
\* size it has before the clients that go with the pane leave it, and hands
\* on a focus that the size after it has room for.
NoFocusTheft == [][Cardinality({c \in Clients : Displaced(c)}) <= 1]_vars

=============================================================================
