------------------------------- MODULE Rejoin -------------------------------
(***************************************************************************)
(* How a viewer keeps its place in a session: the client records, resume   *)
(* tokens and saved views of the session                                   *)
(* (koshi-runtime/src/runtime/command/client.rs, runtime/saved_view.rs),   *)
(* the connection threads that report a client gone                        *)
(* (koshi-runtime/src/ipc_server.rs), the image swap that takes every      *)
(* connection away and the grace window that waits for the clients to      *)
(* come back (koshi-daemon/src/session_server.rs), and the viewer that     *)
(* dials again (koshi-client/src/attach.rs).                               *)
(*                                                                         *)
(* A connection is a number.  The client an attach mints, and the token it *)
(* mints, carry the number of its connection: every accepted attach mints  *)
(* one token, and at most one client.  A view is `Fresh` or the viewer     *)
(* that set it.                                                            *)
(***************************************************************************)
EXTENDS Integers, Sequences, FiniteSets, SequencesExt

CONSTANTS
  Viewers,         \* the viewers
  Remote,          \* those on another machine
  AutoClose,       \* `auto-close-session`
  RecordLimit,     \* MAX_SAVED_VIEW_RECORD_COUNT
  Outcomes,        \* how a swap may go: "exec", "keep", "rebuild"
  Commands,        \* bound: the commands given, each with the phase it comes in
  MaxConnections,  \* bound: connections dialed
  MaxSwaps,        \* bound: swaps that reach the carried state
  Fresh,           \* the view of a client nobody has used yet
  None

ASSUME RejoinAssumption ==
  /\ Remote \subseteq Viewers /\ IsFiniteSet(Viewers)
  /\ AutoClose \in BOOLEAN
  /\ RecordLimit \in Nat \ {0}
  /\ Outcomes \subseteq {"exec", "keep", "rebuild"}
  /\ Commands \subseteq {"detach", "kill"} \X {"serving", "told"}
  /\ MaxConnections \in Nat /\ MaxSwaps \in Nat
  /\ Fresh \notin Viewers /\ None \notin Viewers \cup Nat

VARIABLES
  clients,     \* `session.clients`: [view, stream] of each client held
  awaiting,    \* `client_ids_awaiting_reconnect`
  hashes,      \* `connection_token_hash_by_client_id`
  filed,       \* `saved_view_records`, oldest first
  inbox,       \* the runtime inbox, its events about clients
  window,      \* `grace_window_id`
  nextWindow,  \* NEXT_GRACE_WINDOW_ID
  timers,      \* the running "koshi-session-reconnect" threads
  phase,       \* where the dispatcher is: in the serve loop or in the swap
  isQuit,      \* `is_quit_requested`
  conns,       \* the connections dialed so far
  viewers,     \* what each viewer is doing
  opening,     \* the swaps so far that opened a grace window
  hasRunOut    \* the timer of the last opening has fired

storeVars == <<hashes, filed>>
windowVars == <<window, nextWindow, timers, opening, hasRunOut>>
vars == <<clients, awaiting, storeVars, inbox, windowVars, phase, isQuit,
          conns, viewers>>

Numbers == 1 .. MaxConnections
Views == Viewers \cup {Fresh}
Phases == {"serving", "told", "refusing", "ended"}
ViewerStates == {"new", "joining", "on", "rejoin", "redial", "gone"}
ConnStates == {"asking", "accepted", "streaming", "done"}
Links == {"up", "returning", "leaving", "broken"}

\* What is left of a viewer that ended.
NoViewer == [state |-> "gone", client |-> None, token |-> None, conn |-> None,
             isTokenNew |-> FALSE, looked |-> FALSE]

NoConnection == [viewer |-> None, state |-> "done", link |-> "broken", claim |-> None,
                 token |-> None, client |-> None, isOfOldSocket |-> FALSE, told |-> FALSE]

\* A session nobody is attached to, just started or put back after a swap
\* that did not start, whose timer still runs.
Init ==
  /\ clients = <<>> /\ awaiting = {} /\ hashes = <<>> /\ filed = <<>>
  /\ inbox = <<>>
  /\ \E hasKeptSocket \in BOOLEAN :
       /\ window = IF hasKeptSocket THEN 1 ELSE 0
       /\ timers = IF hasKeptSocket THEN {[id |-> 1, opening |-> 0]} ELSE {}
  /\ nextWindow = window + 1
  /\ phase = "serving" /\ isQuit = FALSE
  /\ conns = <<>>
  /\ viewers = [v \in Viewers |-> [NoViewer EXCEPT !.state = "new"]]
  /\ opening = 0 /\ hasRunOut = FALSE

-----------------------------------------------------------------------------
(* The saved-view store.                                                   *)

Drop(f, S) == [x \in DOMAIN f \ S |-> f[x]]
Put(f, x, y) == [z \in DOMAIN f \cup {x} |-> IF z = x THEN y ELSE f[z]]

\* find_client_id_by_resume_token
FindByToken(t) == {c \in DOMAIN hashes : hashes[c] = t}

\* The clients of S whose views can be filed, the ones held that have a hash,
\* and numbers in ascending order: clients are numbered as they are minted.
Filers(S) == S \cap DOMAIN clients \cap DOMAIN hashes
InOrder(S) ==
  CHOOSE seq \in [1 .. Cardinality(S) -> S] :
    Range(seq) = S /\ \A i, j \in DOMAIN seq : i < j => seq[i] < seq[j]

\* SavedViewStore::save_client_view for clients one after the other: the view of
\* each is filed under its hash, and the oldest make room.  A view whose time
\* is over is gone at once (ViewExpires): every use of the store drops it first.
File(records, cs) ==
  LET all == records \o [i \in DOMAIN cs |-> [token |-> hashes[cs[i]], view |-> clients[cs[i]].view]]
  IN  IF Len(all) > RecordLimit
      THEN SubSeq(all, Len(all) - RecordLimit + 1, Len(all)) ELSE all

TokensOf(records) == {records[i].token : i \in DOMAIN records}

\* Mutant of FileAll: the views are filed while the clients still count as
\* awaited.
FileUnlessAwaited(S) == File(filed, InOrder(Filers(S \ awaiting)))

\* Server::save_client_view for each of a set of clients no longer awaited: a
\* client that is not held, or has no hash, files nothing.
FileAll(S) == File(filed, InOrder(Filers(S)))

PushedOut(S) ==
  (TokensOf(filed) \cup {hashes[c] : c \in S \cap DOMAIN hashes}) \ TokensOf(FileAll(S))

\* The views behind some tokens are gone: whoever holds one, or is about to
\* read one, has lost its view.
Lose(tokens) ==
  viewers' = [v \in Viewers |-> [viewers[v] EXCEPT !.looked =
                @ /\ {viewers[v].token, viewers[v].conn} \cap tokens = {}]]

\* take_saved_view: what is left, and the view a token takes.
Under(records, t) == {i \in DOMAIN records : records[i].token = t}
TakenFrom(records, t) ==
  IF Under(records, t) = {} THEN records ELSE RemoveAt(records, Max(Under(records, t)))
ViewUnder(records, t) ==
  IF Under(records, t) = {} THEN Fresh ELSE records[Max(Under(records, t))].view

\* Twenty-four hours have passed over the oldest filed view.
ViewExpires ==
  /\ filed # <<>>
  /\ filed' = Tail(filed)
  /\ Lose({filed[1].token})
  /\ UNCHANGED <<clients, awaiting, hashes, inbox, windowVars, phase, isQuit,
                 conns>>

-----------------------------------------------------------------------------
(* The dispatcher.                                                         *)

\* Claiming is proven by the token, and open while nothing streams for the
\* record.
IsClaimed(k) ==
  /\ conns[k].claim \in DOMAIN clients
  /\ clients[conns[k].claim].stream = None
  /\ conns[k].claim \in FindByToken(conns[k].token)

NoLongerAwaited(previous, client) == awaiting \ (previous \cup {client})

\* handle_ipc_attach: claim the record, or take the token's client over and
\* its view with it, or take a filed view back, or start afresh.
HandleAttach(k) ==
  LET t == conns[k].token
      previous == IF IsClaimed(k) THEN {} ELSE FindByToken(t)
      records == FileAll(previous)
      client == IF IsClaimed(k) THEN conns[k].claim ELSE k
      view == IF IsClaimed(k) THEN clients[client].view ELSE ViewUnder(records, t)
  IN  /\ clients' = Put(Drop(clients, previous), client, [view |-> view, stream |-> k])
      /\ awaiting' = NoLongerAwaited(previous, client)
      /\ filed' = TakenFrom(records, t)
      /\ Lose(PushedOut(previous) \ {t})
      /\ hashes' = Put(Drop(hashes, previous), client, k)
      /\ conns' = [conns EXCEPT ![k].state = "accepted", ![k].client = client,
                                ![k].told = phase # "serving"]
      /\ UNCHANGED <<isQuit, windowVars>>

\* remove_client_record, and the quit of `auto-close-session` when the last
\* client left for good.
RemoveRecord(c, leavesForGood) ==
  /\ clients' = Drop(clients, {c})
  /\ isQuit' = (isQuit \/ (/\ leavesForGood /\ AutoClose /\ c \in DOMAIN clients
                           /\ DOMAIN clients = {c}))

IsPassedOver == phase # "serving"

\* Mutant of HashGone: the hash is read and stays.
HashStays(c) == hashes

\* The hash of a client that files its view, or that is forgotten, is removed.
HashGone(c) == Drop(hashes, {c})

\* ClientDetached: the view is filed, or forgotten when the client never got
\* its token, and the record goes.  A client that is awaited keeps both.
HandleDetached(e) ==
  IF IsPassedOver THEN UNCHANGED <<clients, awaiting, storeVars, isQuit, windowVars, conns, viewers>>
  ELSE
  /\ IF ~e.streamed
     THEN hashes' = HashGone(e.client) /\ UNCHANGED <<filed, viewers>>
     ELSE IF e.client \in awaiting THEN UNCHANGED <<storeVars, viewers>>
     ELSE /\ filed' = FileAll({e.client})
          /\ IF e.client \in DOMAIN clients THEN Lose(PushedOut({e.client}))
             ELSE UNCHANGED viewers
          /\ hashes' = HashGone(e.client)
  /\ IF e.client \in awaiting THEN UNCHANGED <<clients, isQuit>>
     ELSE RemoveRecord(e.client, ~e.returning)
  /\ UNCHANGED <<awaiting, windowVars, conns>>

\* Mutant of IsOwnWindow: any timer closes the window.
IsAnyWindow(e) == TRUE

\* DropUnclaimedClients, of this window only: every client still awaited
\* files its view and goes, in client order, and requests no quit.
IsOwnWindow(e) == e.id = window

HandleDrop(e) ==
  IF ~IsOwnWindow(e)
  THEN UNCHANGED <<clients, awaiting, storeVars, isQuit, windowVars, conns, viewers>>
  ELSE /\ awaiting' = {}
       /\ filed' = FileAll(awaiting)
       /\ Lose(PushedOut(awaiting))
       /\ hashes' = Drop(hashes, awaiting)
       /\ clients' = Drop(clients, awaiting)
       /\ UNCHANGED <<isQuit, windowVars, conns>>

\* One event of the inbox, in the serve loop or in a pass of the swap.
HandleEvent ==
  /\ inbox # <<>>
  /\ inbox' = Tail(inbox)
  /\ LET e == Head(inbox) IN
       CASE e.kind = "attach"   -> HandleAttach(e.conn)
         [] e.kind = "detached" -> HandleDetached(e)
         [] e.kind = "drop"     -> HandleDrop(e)
  /\ UNCHANGED phase

\* A detach or quit command: the record goes at once, no view is filed, and
\* the hash stays.
DetachCommand(c) ==
  /\ <<"detach", phase>> \in Commands
  /\ c \in DOMAIN clients \ awaiting
  /\ RemoveRecord(c, TRUE)
  /\ Lose({hashes[d] : d \in DOMAIN hashes \cap {c}})
  /\ UNCHANGED <<awaiting, hashes, filed, inbox, windowVars, phase, conns>>

\* A kill-session command.
KillCommand ==
  /\ <<"kill", phase>> \in Commands /\ ~isQuit
  /\ isQuit' = TRUE
  /\ UNCHANGED <<clients, awaiting, storeVars, inbox, windowVars, phase,
                 conns, viewers>>

\* run_session_serve_loop ends on a quit once no client is awaited.
IsAwaitingClient == awaiting # {}

SessionEnds ==
  /\ phase = "serving" /\ isQuit /\ ~IsAwaitingClient
  /\ phase' = "ended"
  /\ UNCHANGED <<clients, awaiting, storeVars, inbox, windowVars, isQuit,
                 conns, viewers>>

-----------------------------------------------------------------------------
(* The image swap.                                                         *)

\* The inbox is applied, no quit stands, and every client is told.
AnnounceRestarting ==
  /\ phase = "serving" /\ inbox = <<>> /\ ~isQuit /\ opening < MaxSwaps
  /\ phase' = "told"
  /\ conns' = [k \in DOMAIN conns |->
                 [conns[k] EXCEPT !.told = conns[k].state \in {"accepted", "streaming"}]]
  /\ UNCHANGED <<clients, awaiting, storeVars, inbox, windowVars, isQuit,
                 viewers>>

\* Every told client has left, or CLIENTS_LEFT_WAIT_DURATION is over.
StartRefusingRequests ==
  /\ phase = "told"
  /\ phase' = "refusing"
  /\ UNCHANGED <<clients, awaiting, storeVars, inbox, windowVars, isQuit,
                 conns, viewers>>

\* Server::resume on the carried body: no connection came across, so every
\* client is awaited, in a window of its own.
Resume(id) ==
  /\ clients' = [c \in DOMAIN clients |-> [clients[c] EXCEPT !.stream = None]]
  /\ awaiting' = DOMAIN clients
  /\ window' = id
  /\ opening' = opening + 1

\* start_reconnect_deadline: one timer for the window just opened.
ArmTimer(running, id) == timers' = running \cup {[id |-> id, opening |-> opening + 1]}

\* The thread is gone, and with it what it knew; its viewer may still read the
\* last frame.
Closed(k) ==
  [NoConnection EXCEPT !.viewer = conns[k].viewer,
     !.told = LET v == conns[k].viewer IN
               conns[k].told /\ viewers[v].conn = k /\ viewers[v].state = "on"]

\* `execvp`: the threads and the inbox of this image are gone, and the ids
\* start over.
SwapByExec ==
  /\ Resume(0) /\ ArmTimer({}, 0)
  /\ nextWindow' = 1
  /\ conns' = [k \in DOMAIN conns |-> Closed(k)]

\* resume_readers_and_rebuild: the socket was withdrawn and is bound anew.
\* The connections of the old socket go on refusing.
SwapRebuilds ==
  /\ Resume(nextWindow) /\ ArmTimer(timers, nextWindow)
  /\ nextWindow' = nextWindow + 1
  /\ conns' = [k \in DOMAIN conns |-> [conns[k] EXCEPT !.isOfOldSocket = TRUE]]

\* resume_readers_and_keep_socket: the socket stays, its token is rotated and
\* its connections are heard again.
SwapKeepsSocket ==
  /\ Resume(nextWindow) /\ ArmTimer(timers, nextWindow)
  /\ nextWindow' = nextWindow + 1
  /\ UNCHANGED conns

\* Mutant of CarriedQuit: the next image starts without the quit.
CarriesNoQuit == FALSE

\* `ResumeBody::carried_quit`
CarriedQuit == isQuit

Swap(how) ==
  /\ phase = "refusing" /\ inbox = <<>>
  /\ CASE how = "exec"    -> SwapByExec
       [] how = "rebuild" -> SwapRebuilds
       [] how = "keep"    -> SwapKeepsSocket
  /\ phase' = "serving"
  /\ viewers' = [v \in Viewers |->
       [viewers[v] EXCEPT !.isTokenNew = viewers[v].state \notin {"new", "gone"}]]
  /\ hasRunOut' = FALSE
  /\ isQuit' = CarriedQuit
  /\ UNCHANGED <<storeVars, inbox>>

\* The timer thread waits for the update lock, sleeps the grace window and
\* sends the event.
TimerFires(t) ==
  /\ timers' = timers \ {t}
  /\ hasRunOut' = (hasRunOut \/ t.opening = opening)
  /\ inbox' = Append(inbox, [kind |-> "drop", id |-> t.id])
  /\ UNCHANGED <<clients, awaiting, storeVars, window, nextWindow, opening,
                 phase, isQuit, conns, viewers>>

-----------------------------------------------------------------------------
(* The thread that serves one connection.                                  *)

\* hand_over_event
IsHeard(k) == ~conns[k].isOfOldSocket /\ phase # "refusing"
HandedOver(k, e) == IF IsHeard(k) THEN Append(inbox, e) ELSE inbox

ViewerOf(k) == conns[k].viewer
IsRemoteConn(k) == ViewerOf(k) \in Remote

\* The connection is counted as attached and the answer is written: the
\* viewer that still reads learns its client and its token.
AnswerAttach(k) ==
  /\ conns[k].state = "accepted"
  /\ conns' = [conns EXCEPT ![k].state = "streaming"]
  /\ viewers' =
       [v \in Viewers |->
         IF v = ViewerOf(k) /\ viewers[v].state = "joining" /\ viewers[v].conn = k
         THEN [viewers[v] EXCEPT !.state = "on", !.client = conns[k].client, !.token = k]
         ELSE viewers[v]]
  /\ UNCHANGED <<clients, awaiting, storeVars, inbox, windowVars, phase, isQuit>>

\* The connection leaves the attached count, its detach is handed over unless
\* the intake refuses it, and the thread ends.
HandOverDetach(k, isStreamed, isReturning) ==
  /\ inbox' = HandedOver(k, [kind |-> "detached", client |-> conns[k].client,
                             streamed |-> isStreamed, returning |-> isReturning])
  /\ conns' = [conns EXCEPT ![k] = Closed(k)]
  /\ UNCHANGED <<clients, awaiting, storeVars, windowVars, phase, isQuit, viewers>>

\* The write fails on a link that is gone: the client never got its token.
AnswerFails(k) ==
  /\ conns[k].state = "accepted" /\ conns[k].link = "broken"
  /\ HandOverDetach(k, FALSE, IsRemoteConn(k) \/ conns[k].claim # None)

\* stream_events' reading loop ends, on Leaving or on a failed read.
StreamEnds(k) ==
  /\ conns[k].state = "streaming" /\ conns[k].link # "up"
  /\ \E hasSpoken \in BOOLEAN :
       HandOverDetach(k, TRUE,
         CASE conns[k].link = "returning" -> TRUE
           [] conns[k].link = "leaving"   -> FALSE
           [] OTHER -> IsRemoteConn(k) \/ (~hasSpoken /\ conns[k].claim # None))

-----------------------------------------------------------------------------
(* The viewers.                                                            *)

\* join_session: the attach reaches the session while it is heard.
Join(v, claim) ==
  /\ phase \in {"serving", "told"}
  /\ Len(conns) < MaxConnections
  /\ LET k == Len(conns) + 1 IN
       /\ conns' = Append(conns, [NoConnection EXCEPT !.viewer = v, !.state = "asking",
                     !.link = "up", !.claim = claim, !.token = viewers[v].token])
       /\ inbox' = Append(inbox, [kind |-> "attach", conn |-> k])
       /\ viewers' = [viewers EXCEPT ![v].state = "joining", ![v].conn = k, ![v].isTokenNew = FALSE]
  /\ UNCHANGED <<clients, awaiting, storeVars, windowVars, phase, isQuit>>

Dial(v) == viewers[v].state = "new" /\ Join(v, None)

\* reconnect_after_restart: a viewer on this machine waits for an endpoint
\* file with another token, one elsewhere dials on.
RejoinSession(v) ==
  /\ viewers[v].state = "rejoin"
  /\ v \in Remote \/ viewers[v].isTokenNew
  /\ Join(v, viewers[v].client)

\* dial_remote again after the link broke: the token and no client.
Redial(v) == viewers[v].state = "redial" /\ Join(v, None)

ViewerStep(v, state, link) ==
  /\ viewers' = [viewers EXCEPT ![v] =
       IF state = "gone" THEN NoViewer
       ELSE [viewers[v] EXCEPT !.state = state,
                               !.looked = viewers[v].looked /\ viewers[v].state # "joining"]]
  /\ conns' = [conns EXCEPT ![viewers[v].conn].link = IF @ = "up" THEN link ELSE @]
  /\ UNCHANGED <<clients, awaiting, storeVars, inbox, windowVars, phase, isQuit>>

\* The viewer reads Restarting, sends Leaving and comes back.
ReadRestarting(v) ==
  /\ viewers[v].state = "on" /\ conns[viewers[v].conn].told
  /\ ViewerStep(v, "rejoin", "returning")

\* The link to another machine breaks, or the process behind it is gone.
LinkDies(v) ==
  /\ viewers[v].state = "on"
  /\ v \in Remote \/ conns[viewers[v].conn].link = "broken"
  /\ ViewerStep(v, IF v \in Remote THEN "redial" ELSE "gone", "broken")

\* The join gets no answer.  On another machine the viewer dials again, with
\* its claim when it comes back after a restart.
JoinBreaks(v) ==
  /\ viewers[v].state = "joining"
  /\ ViewerStep(v, IF v \notin Remote \/ viewers[v].token = None THEN "gone"
                   ELSE IF conns[viewers[v].conn].claim # None THEN "rejoin"
                   ELSE "redial", "broken")

\* The viewer leaves for good: it says so, or its terminal goes away.
Leave(v) ==
  /\ viewers[v].state = "on"
  /\ \E link \in {"leaving", "broken"} : ViewerStep(v, "gone", link)

\* The session let the client go: the viewer reads Detached and ends.
ReadGoodbye(v) ==
  /\ viewers[v].state = "on" /\ ~conns[viewers[v].conn].told
  /\ viewers[v].client \notin DOMAIN clients
  /\ ViewerStep(v, "gone", "broken")

\* The restart window or the redial window is over.
GiveUp(v) ==
  /\ viewers[v].state \in {"rejoin", "redial"}
  /\ ViewerStep(v, "gone", "broken")

\* A command of the viewer moves its view.
IsStreaming(v) ==
  /\ viewers[v].state = "on"
  /\ viewers[v].client \in DOMAIN clients
  /\ clients[viewers[v].client].stream = viewers[v].conn

Look(v) ==
  /\ IsStreaming(v) /\ phase = "serving" /\ ~viewers[v].looked
  /\ conns[viewers[v].conn].link = "up"
  /\ clients' = [clients EXCEPT ![viewers[v].client].view = v]
  /\ viewers' = [viewers EXCEPT ![v].looked = TRUE]
  /\ UNCHANGED <<awaiting, storeVars, inbox, windowVars, phase, isQuit, conns>>

-----------------------------------------------------------------------------

ThreadStep(k) ==
  AnswerAttach(k) \/ AnswerFails(k) \/ StreamEnds(k)

SwapStep == StartRefusingRequests \/ \E how \in Outcomes : Swap(how)

ViewerMoves(v) ==
  \/ Dial(v) \/ RejoinSession(v) \/ Redial(v)
  \/ ReadRestarting(v) \/ LinkDies(v) \/ JoinBreaks(v)
  \/ Leave(v) \/ ReadGoodbye(v) \/ GiveUp(v) \/ Look(v)

Running == phase # "ended"

\* The session is over once its process has ended.
Next ==
  /\ Running
  /\ \/ HandleEvent
     \/ ViewExpires
     \/ \E c \in DOMAIN clients : DetachCommand(c)
     \/ KillCommand
     \/ SessionEnds
     \/ AnnounceRestarting
     \/ SwapStep
     \/ \E t \in timers : TimerFires(t)
     \/ \E k \in DOMAIN conns : ThreadStep(k)
     \/ \E v \in Viewers : ViewerMoves(v)

Spec == Init /\ [][Next]_vars

\* The dispatcher and the timer threads run: the update lock a timer waits for
\* is given back.  Nothing is asked of the viewers or of their connections.
FairSpec ==
  /\ Spec
  /\ WF_vars(Running /\ HandleEvent)
  /\ WF_vars(SessionEnds)
  /\ WF_vars(SwapStep)
  /\ WF_vars(Running /\ \E t \in timers : TimerFires(t))

-----------------------------------------------------------------------------
(* What is to hold.                                                        *)

Streams == {clients[c].stream : c \in DOMAIN clients} \ {None}

\* The components have the shape the code gives them.
TypeOK ==
  /\ DOMAIN clients \subseteq Numbers
  /\ \A c \in DOMAIN clients :
       /\ clients[c].view \in Views
       /\ clients[c].stream \in DOMAIN conns \cup {None}
  /\ awaiting \subseteq DOMAIN clients
  /\ DOMAIN hashes \subseteq Numbers /\ \A c \in DOMAIN hashes : hashes[c] \in DOMAIN conns
  /\ Len(filed) <= RecordLimit
  /\ \A i \in DOMAIN filed :
       filed[i] \in [token : DOMAIN conns, view : Views]
  /\ window < nextWindow /\ nextWindow \in 1 .. MaxSwaps + 2
  /\ timers \subseteq [id : 0 .. MaxSwaps + 1, opening : 0 .. MaxSwaps]
  /\ phase \in Phases /\ {isQuit, hasRunOut} \subseteq BOOLEAN
  /\ \A k \in DOMAIN conns : conns[k].state \in ConnStates /\ conns[k].link \in Links
  /\ \A v \in Viewers : viewers[v].state \in ViewerStates

\* A client the grace window would drop is one nobody streams for: a viewer
\* that came back (handle_ipc_attach) has left `client_ids_awaiting_reconnect`,
\* so the window cannot take its record away and its detach is not ignored.
AwaitedAreAway == \A c \in awaiting : clients[c].stream = None

\* A resume token opens one thing: the record of one client, or one filed
\* view.  Whatever order attaches, detaches, drops and swaps come in, no two
\* viewers come back to the same place, and a view is handed back once.
TokenOpensOnePlace ==
  /\ \A c, d \in DOMAIN hashes : hashes[c] = hashes[d] => c = d
  /\ \A c \in DOMAIN hashes : hashes[c] \notin TokensOf(filed)
  /\ IsInjective([i \in DOMAIN filed |-> filed[i].token])

\* A viewer that set up its view finds it again, on every way back the code
\* has: claiming its record, taking its client over, or taking the filed view.
\* It may lose it only to a detach command, to 24 hours, to the limit of filed
\* views, or to a join whose answer, with the next token, it never read.
ViewComesBack ==
  \A v \in Viewers :
    /\ IsStreaming(v) => clients[viewers[v].client].view \in {v, Fresh}
    /\ IsStreaming(v) /\ viewers[v].looked => clients[viewers[v].client].view = v

\* A client is dropped as unclaimed only once the window its own swap opened
\* has run out: a timer left over from an earlier swap of the same process,
\* whose event is still on its way, drops nobody (driver.rs, the arm of
\* DropUnclaimedClients).
WindowRunsItsTime ==
  [][awaiting # {} /\ awaiting' = {} /\ opening' = opening
       /\ Cardinality(DOMAIN clients') < Cardinality(DOMAIN clients)
       /\ Head(inbox).kind = "drop"
     => hasRunOut]_vars

\* The session stops waiting: every client carried across a swap comes back or
\* is dropped when its window closes.
AwaitingEnds == IsAwaitingClient ~> ~IsAwaitingClient

\* A quit ends the session, also one that arrived while the swap had begun and
\* was carried to the next image, where it waits for the carried clients.
QuitEnds == isQuit ~> phase = "ended"

\* Records, tokens, filed views and the set of awaited clients agree.
StoreIsConsistent == TypeOK /\ AwaitedAreAway /\ TokenOpensOnePlace

\* A swap leaves nothing waiting: neither the awaited clients nor a carried quit.
SwapSettles == AwaitingEnds /\ QuitEnds
=============================================================================
