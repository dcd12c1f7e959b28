----------------------------- MODULE RouterGate -----------------------------
(***************************************************************************)
(* The gate between the router's connections and its dispatcher            *)
(* (koshi-daemon/src/router/request_gate.rs), with the two sides that use  *)
(* it in koshi-daemon/src/router.rs: the serving thread of each connection *)
(* and the dispatch loop with its idle end and its restart.                *)
(*                                                                         *)
(* The gate's lock orders every change of the intake against every handing *)
(* over of a request, so each locked section is one action.  What a        *)
(* request asks is abstracted to how it is answered: at once ("query"), by *)
(* a later turn of the loop ("wait": a session creation or an attach       *)
(* lookup), or by a restart ("restart").                                   *)
(***************************************************************************)
EXTENDS Integers, Sequences, FiniteSets

CONSTANTS
  Conns,            \* the connections that may be open at once
  NoConn,           \* no connection
  RequestKinds,     \* what they ask: "query", "wait", "restart"
  MaxRestartsDue    \* bound: reports of a due restart that wait at once

ASSUME ConnsAssumption == IsFiniteSet(Conns) /\ NoConn \notin Conns
ASSUME KindsAssumption == RequestKinds \subseteq {"query", "wait", "restart"}
ASSUME BoundAssumption == MaxRestartsDue \in Nat \ {0}

VARIABLES
  connPc,           \* where the serving thread of each connection is
  connAnswer,       \* the answer it is to write
  intake,           \* `RouterGateState::intake`
  openCount,        \* `RouterGateState::open_connection_count`
  events,           \* the dispatcher's queue
  waiting,          \* connections whose request waits in `RouterSessions`
  isRestartPending, \* `RouterSessions::is_restart_pending`
  hasSession,       \* a session is listed in the registry
  routerPc          \* where the dispatcher is

connVars == <<connPc, connAnswer>>
gateVars == <<intake, openCount>>
loopVars == <<waiting, isRestartPending, hasSession, routerPc>>
vars == <<connVars, gateVars, events, loopVars>>

-----------------------------------------------------------------------------
(* State *)

\* "asked" waits for the dispatcher's answer; "told" has written a Restarting
\* answer and is about to report it; "leaving" is done serving.
ConnPcs == {"none", "reading", "asked", "answered", "told", "leaving"}
Answers == {"none", "done", "refused", "restarting"}
Intakes == {"Open", "Restarting", "Closed"}
LoopPcs == {"turn", "decide", "receive", "idle", "refuse", "drain", "exec"}
EndPcs == {"replaced", "ended", "failed"}

AskEvent(c, k) == [kind |-> "request", conn |-> c, asks |-> k]
RestartDue == [kind |-> "restartDue", conn |-> NoConn, asks |-> "none"]
SessionEnd == [kind |-> "sessionEnd", conn |-> NoConn, asks |-> "none"]

RouterEvents ==
  {AskEvent(c, k) : c \in Conns, k \in RequestKinds} \cup {RestartDue, SessionEnd}

Init ==
  /\ connPc = [c \in Conns |-> "none"]
  /\ connAnswer = [c \in Conns |-> "none"]
  /\ intake = "Open"
  /\ openCount = 0
  /\ events = <<>>
  /\ waiting = {}
  /\ isRestartPending = FALSE
  /\ hasSession \in BOOLEAN
  /\ routerPc = "turn"

IsQueued(e) == \E i \in DOMAIN events : events[i] = e
IsRunning == routerPc \notin EndPcs

\* The reports of a due restart in the queue are bounded.
HasRoomForRestart ==
  Cardinality({i \in DOMAIN events : events[i] = RestartDue}) < MaxRestartsDue

-----------------------------------------------------------------------------
(* The connections *)

\* `admit_connection`: a closed gate admits none.
AdmitConnection(c) ==
  /\ IsRunning
  /\ connPc[c] = "none"
  /\ intake # "Closed"
  /\ connPc' = [connPc EXCEPT ![c] = "reading"]
  /\ openCount' = openCount + 1
  /\ UNCHANGED <<connAnswer, intake, events, loopVars>>

\* The peer hangs up, or a fault on the connection ends it.
HangUp(c) ==
  /\ IsRunning
  /\ connPc[c] = "reading"
  /\ connPc' = [connPc EXCEPT ![c] = "leaving"]
  /\ UNCHANGED <<connAnswer, gateVars, events, loopVars>>

\* `ask_dispatcher`, under the gate's lock.
AskDispatcher(c, k) ==
  /\ IsRunning
  /\ connPc[c] = "reading"
  /\ \/ /\ intake = "Open"
        /\ connPc' = [connPc EXCEPT ![c] = "asked"]
        /\ events' = Append(events, AskEvent(c, k))
        /\ UNCHANGED connAnswer
     \/ /\ intake = "Restarting"
        /\ k = "restart" => HasRoomForRestart
        /\ connPc' = [connPc EXCEPT ![c] = "answered"]
        /\ connAnswer' = [connAnswer EXCEPT ![c] =
                            IF k = "restart" THEN "restarting" ELSE "refused"]
        /\ UNCHANGED events
     \/ /\ intake = "Closed"
        /\ connPc' = [connPc EXCEPT ![c] = "leaving"]
        /\ UNCHANGED <<connAnswer, events>>
  /\ UNCHANGED <<gateVars, loopVars>>

\* The answer is written, or the write fails and the connection ends.
WriteAnswer(c) ==
  /\ IsRunning
  /\ connPc[c] = "answered"
  /\ \E pc \in {IF connAnswer[c] = "restarting" THEN "told" ELSE "reading", "leaving"} :
       connPc' = [connPc EXCEPT ![c] = pc]
  /\ connAnswer' = [connAnswer EXCEPT ![c] = "none"]
  /\ UNCHANGED <<gateVars, events, loopVars>>

\* A written Restarting answer is reported to the dispatcher.
ReportRestart(c) ==
  /\ IsRunning
  /\ connPc[c] = "told"
  /\ connPc' = [connPc EXCEPT ![c] = "reading"]
  /\ events' = Append(events, RestartDue)
  /\ UNCHANGED <<connAnswer, gateVars, loopVars>>

\* Mutant of EndConnection: a connection that ends stays counted as open.
EndConnectionUncounted(c) ==
  /\ IsRunning
  /\ connPc[c] = "leaving"
  /\ connPc' = [connPc EXCEPT ![c] = "none"]
  /\ UNCHANGED <<connAnswer, openCount, intake, events, loopVars>>

\* Dropping the admitted connection counts it as ended.
EndConnection(c) ==
  /\ IsRunning
  /\ connPc[c] = "leaving"
  /\ connPc' = [connPc EXCEPT ![c] = "none"]
  /\ openCount' = openCount - 1
  /\ UNCHANGED <<connAnswer, intake, events, loopVars>>

Serving(c) == WriteAnswer(c) \/ ReportRestart(c) \/ EndConnection(c)

-----------------------------------------------------------------------------
(* The dispatcher *)

\* The connection blocked on the answer gets it.
Answer(c, a) ==
  /\ connPc' = [connPc EXCEPT ![c] = "answered"]
  /\ connAnswer' = [connAnswer EXCEPT ![c] = a]

\* Mutant of JoinsWaiting: a lookup joins the waiting requests while a restart
\* is pending.
AlwaysJoinsWaiting(k) == k = "wait"

\* A creation or a lookup waits, unless a restart is pending: it is refused.
JoinsWaiting(k) == k = "wait" /\ ~isRestartPending

\* What a request that does not wait may be answered: a restart is refused
\* when its program file cannot run (`check_restart_binary`).
AnswersTo(k) ==
  {a \in Answers : \/ a = "restarting" /\ k = "restart"
                   \/ a = "refused" /\ k # "query"
                   \/ a = "done" /\ k = "query"}

\* `serve_router_request`.
ServeRequest(c, k) ==
  \/ /\ JoinsWaiting(k)
     /\ waiting' = waiting \cup {c}
     /\ UNCHANGED connVars
  \/ /\ ~JoinsWaiting(k)
     /\ \E a \in AnswersTo(k) : Answer(c, a)
     /\ UNCHANGED waiting

\* `serve_router_event`.
ServeEvent(e) ==
  /\ \/ /\ e.kind = "request"
        /\ ServeRequest(e.conn, e.asks)
        /\ UNCHANGED <<isRestartPending, hasSession>>
     \/ /\ e = RestartDue
        /\ isRestartPending' = TRUE
        /\ UNCHANGED <<connVars, waiting, hasSession>>
     \/ /\ e = SessionEnd
        /\ hasSession' = FALSE
        /\ UNCHANGED <<connVars, waiting, isRestartPending>>

\* `advance_waiting_requests`: answers the requests that wait for nothing
\* more.  A creation that is done lists a session.
AdvanceWaiting ==
  /\ routerPc = "turn"
  /\ \E answered \in SUBSET waiting, a \in {"done", "refused"} :
       /\ waiting' = waiting \ answered
       /\ connPc' = [c \in Conns |-> IF c \in answered THEN "answered" ELSE connPc[c]]
       /\ connAnswer' = [c \in Conns |-> IF c \in answered THEN a ELSE connAnswer[c]]
       /\ \/ UNCHANGED hasSession
          \/ answered # {} /\ a = "done" /\ hasSession' = TRUE
  /\ routerPc' = "decide"
  /\ UNCHANGED <<gateVars, events, isRestartPending>>

\* `start_refusing_requests`, once a restart is pending and nothing waits.
StartRefusing ==
  /\ routerPc = "decide"
  /\ isRestartPending /\ waiting = {}
  /\ intake' = "Restarting"
  /\ routerPc' = "refuse"
  /\ UNCHANGED <<connVars, openCount, events, waiting, isRestartPending, hasSession>>

GoOnServing ==
  /\ routerPc = "decide"
  /\ ~(isRestartPending /\ waiting = {})
  /\ routerPc' = "receive"
  /\ UNCHANGED <<connVars, gateVars, events, waiting, isRestartPending, hasSession>>

\* The loop takes the next event, and after the refusal every event that is
\* already queued.
ReceiveEvent ==
  /\ routerPc \in {"receive", "refuse"}
  /\ events # <<>>
  /\ events' = Tail(events)
  /\ ServeEvent(Head(events))
  /\ routerPc' = IF routerPc = "receive" THEN "turn" ELSE "refuse"
  /\ UNCHANGED gateVars

\* A timed wait of the loop passes: the idle window, or the moment at which a
\* waiting request or the next liveness round is due.
ReceiveTimeout ==
  /\ routerPc = "receive"
  /\ events = <<>>
  /\ routerPc' = IF ~hasSession /\ waiting = {} THEN "idle" ELSE "turn"
  /\ UNCHANGED <<connVars, gateVars, events, waiting, isRestartPending, hasSession>>

\* Mutant of CloseIfUnused: the idle window ends the router whatever is open.
CloseAnyway ==
  /\ routerPc = "idle"
  /\ intake' = "Closed" /\ routerPc' = "ended"
  /\ UNCHANGED <<connVars, openCount, events, waiting, isRestartPending, hasSession>>

\* `close_if_no_connection_is_open`, after the idle window passed.
CloseIfUnused ==
  /\ routerPc = "idle"
  /\ IF openCount > 0
     THEN routerPc' = "turn" /\ UNCHANGED intake
     ELSE intake' = "Closed" /\ routerPc' = "ended"
  /\ UNCHANGED <<connVars, openCount, events, waiting, isRestartPending, hasSession>>

\* Every queued event is served: the loop ends with `RouterExit::Restart`.
LeaveLoop ==
  /\ routerPc = "refuse"
  /\ events = <<>>
  /\ isRestartPending' = FALSE
  /\ routerPc' = "drain"
  /\ UNCHANGED <<connVars, gateVars, events, waiting, hasSession>>

\* `close_once_connections_end`: no connection is open, or the drain deadline
\* passed.
CloseOnceConnectionsEnd ==
  /\ routerPc = "drain"
  /\ intake' = "Closed"
  /\ routerPc' = "exec"
  /\ UNCHANGED <<connVars, openCount, events, waiting, isRestartPending, hasSession>>

\* The next image, or the next process, takes over.
ExecSucceeds ==
  /\ routerPc = "exec"
  /\ routerPc' = "replaced"
  /\ UNCHANGED <<connVars, gateVars, events, waiting, isRestartPending, hasSession>>

\* `reopen_intake`, after a restart that failed.
ReopenIntake ==
  /\ routerPc = "exec"
  /\ intake' = "Open"
  /\ routerPc' = "turn"
  /\ UNCHANGED <<connVars, openCount, events, waiting, isRestartPending, hasSession>>

\* A failed reap ends the loop and closes the gate at once.
ChildReaperFails ==
  /\ routerPc = "turn"
  /\ intake' = "Closed"
  /\ routerPc' = "failed"
  /\ UNCHANGED <<connVars, openCount, events, waiting, isRestartPending, hasSession>>

\* The program file holds another version: the watch reports a due restart.
ProgramChanges ==
  /\ IsRunning
  /\ HasRoomForRestart
  /\ events' = Append(events, RestartDue)
  /\ UNCHANGED <<connVars, gateVars, loopVars>>

\* A listed session ended.
SessionEnds ==
  /\ IsRunning
  /\ hasSession
  /\ ~IsQueued(SessionEnd)
  /\ events' = Append(events, SessionEnd)
  /\ UNCHANGED <<connVars, gateVars, loopVars>>

Dispatcher ==
  \/ AdvanceWaiting \/ StartRefusing \/ GoOnServing \/ ReceiveEvent \/ ReceiveTimeout
  \/ CloseIfUnused \/ LeaveLoop \/ CloseOnceConnectionsEnd \/ ExecSucceeds \/ ReopenIntake

Next ==
  \/ \E c \in Conns : \/ AdmitConnection(c) \/ HangUp(c) \/ Serving(c)
                      \/ \E k \in RequestKinds : AskDispatcher(c, k)
  \/ Dispatcher \/ ChildReaperFails \/ ProgramChanges \/ SessionEnds

Spec == Init /\ [][Next]_vars

\* The dispatcher and the serving threads run, every wait has a deadline, and
\* a request that waits is answered by its own deadline at the latest.  The
\* drain before a restart finds the queue empty in the end: refused clients
\* add nothing to it but reports of a due restart, one round trip each.  No
\* client is obliged to connect, to ask or to hang up.
Fairness ==
  /\ WF_vars(Dispatcher)
  /\ SF_vars(LeaveLoop)
  /\ \A c \in Conns : WF_vars(Serving(c)) /\ SF_vars(AdvanceWaiting /\ c \notin waiting')

FairSpec == Spec /\ Fairness

-----------------------------------------------------------------------------
(* Properties *)

TypeOK ==
  /\ connPc \in [Conns -> ConnPcs]
  /\ connAnswer \in [Conns -> Answers]
  /\ intake \in Intakes
  /\ openCount \in Nat
  /\ events \in Seq(RouterEvents)
  /\ waiting \subseteq Conns
  /\ isRestartPending \in BOOLEAN
  /\ hasSession \in BOOLEAN
  /\ routerPc \in LoopPcs \cup EndPcs

\* A serving thread waits for an answer exactly while its one request is in the
\* dispatcher's queue or among the waiting ones, and the count of open
\* connections is exact: what the two ways to close the gate rely on.
IsAsking(c, i) == events[i].kind = "request" /\ events[i].conn = c

RequestsAreHeld ==
  /\ openCount = Cardinality({c \in Conns : connPc[c] # "none"})
  /\ \A c \in Conns :
       connPc[c] = "asked" <=> c \in waiting \/ \E i \in DOMAIN events : IsAsking(c, i)
  /\ \A c \in Conns : \A i, j \in DOMAIN events :
       IsAsking(c, i) => c \notin waiting /\ (IsAsking(c, j) => i = j)

\* The dispatcher never goes away under a request: when the router is about to
\* restart, was replaced, or ended idle, no serving thread waits for an answer
\* (`start_refusing_requests` before the last drain of the queue, and
\* `close_if_no_connection_is_open` at the end of an idle window).
NoRequestIsDropped ==
  routerPc \in {"drain", "exec", "replaced", "ended"} => \A c \in Conns : connPc[c] # "asked"

\* A request that was handed over is answered, unless the reaper failed.
EveryAskIsAnswered ==
  \A c \in Conns : connPc[c] = "asked" ~> (connPc[c] # "asked" \/ routerPc = "failed")

\* A restart that is due is tried: requests that keep coming do not hold it up
\* forever, because none joins the waiting ones from then on.
RestartIsTried ==
  isRestartPending ~> (routerPc = "drain" \/ ~IsRunning)

\* Neither side starves the other: clients are answered while restarts are due,
\* and a due restart is tried while clients ask.
AsksAndRestartsEnd == EveryAskIsAnswered /\ RestartIsTried
=============================================================================
