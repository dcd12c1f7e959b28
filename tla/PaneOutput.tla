----------------------------- MODULE PaneOutput -----------------------------
(***************************************************************************)
(* How a pane's child output and exit reach the session's dispatcher       *)
(* (koshi-runtime/src/runtime/pty_inbox.rs), together with the two sides   *)
(* that meet there: the pane's reader thread with its park                 *)
(* (koshi-pty/src/portable.rs, `pump_waited`, `ReaderGate`) and the        *)
(* dispatcher's passes and image swap (koshi-runtime/src/runtime/driver.rs *)
(* and koshi-daemon/src/session_server.rs).                                *)
(*                                                                         *)
(* A queue is identified by its pane and a slot, the place in memory of    *)
(* one `Arc<PaneOutputQueue>`: a slot is free while nothing holds it.      *)
(* Each critical section of the code is one action.  A chunk is a record   *)
(* of its number in the pane's byte stream, modulo SerialModulus, and of   *)
(* its length.                                                             *)
(***************************************************************************)
EXTENDS Integers, Sequences, SequencesExt, FiniteSets

CONSTANTS
  Panes,            \* the panes of the session
  Slots,            \* places for the queues of one pane
  ByteLimit,        \* PANE_OUTPUT_QUEUE_BYTE_LIMIT
  TurnLimit,        \* PANE_OUTPUT_TURN_BYTE_LIMIT
  ChunkSizes,       \* the lengths a read of a terminal may return
  SerialModulus,    \* chunks are numbered modulo this
  EndingPanes,      \* the panes whose child or terminal may end on its own
  RequestKinds,     \* what clients ask for: "closePane", "killSession", "restart"
  NoSlot,           \* no queue
  NoPane            \* no pane

ASSUME LimitAssumption ==
  /\ ByteLimit \in Nat \ {0}
  /\ TurnLimit \in Nat \ {0}
  /\ ChunkSizes \subseteq Nat \ {0}
  /\ SerialModulus \in Nat \ {0}

ASSUME NoneAssumption == NoSlot \notin Slots /\ NoPane \notin Panes

VARIABLES
  readerPc,         \* where each pane's reader thread is
  readerSlot,       \* the queue a push holds (`pane_output_queue`)
  readerLen,        \* length of the chunk the reader holds
  serial,           \* number of the next chunk the terminal gives the reader
  isRung,           \* the reader's doorbell (`Waker`)
  isSettled,        \* `ExitHandover::is_settled`
  hasExited,        \* `ChildExit::has_exited`
  isPaused,         \* `GateState::is_paused`
  queue,            \* each queue's `PaneOutputQueueState`
  registry,         \* `output_queue_by_pane_id`, weakly held
  inbox,            \* the runtime inbox
  live,             \* `live_pane_ids`
  heldSlot,         \* `pane_output_queue_by_pane_id`
  rotation,         \* `ready_output_pane_ids`
  fedSerial,        \* number of the next chunk the pane's engine expects
  exitCount,        \* exits the dispatcher handled for the pane
  dispatcherPc,     \* where the dispatcher is
  servedPane,       \* `served_pane_id`
  closing,          \* queue the dispatcher is inside `close_output_queue` of
  isQuit,           \* `is_quit_requested`
  isRestart         \* `is_restart_requested`

readerVars == <<readerPc, readerSlot, readerLen, serial, isSettled>>
paneVars == <<isRung, hasExited>>
sharedVars == <<queue, registry, inbox>>
serverVars == <<live, heldSlot, rotation, fedSerial, exitCount>>
loopVars == <<dispatcherPc, servedPane, closing, isQuit, isRestart, isPaused>>
vars == <<readerVars, paneVars, sharedVars, serverVars, loopVars>>

-----------------------------------------------------------------------------
(* State *)

Chunk == [serial : 0 .. SerialModulus - 1, len : ChunkSizes]

QueueState ==
  [chunks : Seq(Chunk), bytes : Nat, exit : BOOLEAN, wakeSent : BOOLEAN,
   closed : BOOLEAN]

EmptyQueue ==
  [chunks |-> <<>>, bytes |-> 0, exit |-> FALSE, wakeSent |-> FALSE,
   closed |-> FALSE]

\* A closed queue: every chunk and the exit dropped.
ClosedQueue(q) ==
  [q EXCEPT !.closed = TRUE, !.chunks = <<>>, !.bytes = 0, !.exit = FALSE]

NoQueue == <<NoPane, NoSlot>>

Wake(p, s) == [kind |-> "readable", pane |-> p, slot |-> s]
ClosePane(p) == [kind |-> "closePane", pane |-> p, slot |-> NoSlot]
KillSession == [kind |-> "killSession", pane |-> NoPane, slot |-> NoSlot]
Restart == [kind |-> "restart", pane |-> NoPane, slot |-> NoSlot]

RuntimeEvents ==
  [kind : {"readable"}, pane : Panes, slot : Slots]
    \cup [kind : {"closePane"}, pane : Panes, slot : {NoSlot}]
    \cup {KillSession, Restart}

\* Reader inside `pump_waited`, counted in the gate.
PumpPcs == {"top", "parked", "poll", "deliver", "find", "push", "wake", "unregister"}
\* Reader past its pump, in `Delivery::publish_exit_status`.
ExitPcs == {"end", "exitFind", "exitPush", "exitWake", "exitUnregister"}
ReaderPcs == PumpPcs \cup ExitPcs \cup {"done"}
\* Points at which the reader holds a queue's `Arc`.
HoldingPcs == {"push", "wake", "unregister", "exitPush", "exitWake", "exitUnregister"}

PassPcs == {"wait", "drain", "turn", "drainAgain"}
HoldPcs == {"apply", "pause", "hold", "serveHeld", "await", "holdAgain", "serveAgain"}
SwapPcs == {"held", "rebuild"}
EndPcs == {"ended", "killed", "gone"}
DispatcherPcs == PassPcs \cup HoldPcs \cup SwapPcs \cup EndPcs

Init ==
  /\ readerPc = [p \in Panes |-> "top"]
  /\ readerSlot = [p \in Panes |-> NoSlot]
  /\ readerLen = [p \in Panes |-> 0]
  /\ serial = [p \in Panes |-> 0]
  /\ isRung = [p \in Panes |-> FALSE]
  /\ isSettled = [p \in Panes |-> FALSE]
  /\ hasExited = [p \in Panes |-> FALSE]
  /\ isPaused = FALSE
  /\ queue = [q \in Panes \X Slots |-> EmptyQueue]
  /\ registry = [p \in Panes |-> NoSlot]
  /\ inbox = <<>>
  /\ live = Panes
  /\ heldSlot = [p \in Panes |-> NoSlot]
  /\ rotation = <<>>
  /\ fedSerial = [p \in Panes |-> 0]
  /\ exitCount = [p \in Panes |-> 0]
  /\ dispatcherPc = "wait"
  /\ servedPane = NoPane
  /\ closing = NoQueue
  /\ isQuit = FALSE
  /\ isRestart = FALSE

-----------------------------------------------------------------------------
(* The reader thread *)

GoTo(p, pc) == readerPc' = [readerPc EXCEPT ![p] = pc]

\* The reader leaves a push, and with it the queue it held.
LeavePush(p, pc) ==
  /\ GoTo(p, pc)
  /\ readerSlot' = IF pc \in HoldingPcs THEN readerSlot
                   ELSE [readerSlot EXCEPT ![p] = NoSlot]

\* The queue is held by a push, a wake in the inbox, or the server: a `Weak`
\* to it upgrades.
IsHeld(p, s) ==
  \/ readerPc[p] \in HoldingPcs /\ readerSlot[p] = s
  \/ \E i \in DOMAIN inbox : inbox[i] = Wake(p, s)
  \/ heldSlot[p] = s
  \/ closing = <<p, s>>

\* The chunk numbered after chunk n.
After(n) == (n + 1) % SerialModulus

\* `park_if_paused`: at the top of a round the reader parks while the gate is
\* paused.
ReaderTop(p) ==
  /\ readerPc[p] = "top"
  /\ GoTo(p, IF isPaused THEN "parked" ELSE "poll")
  /\ UNCHANGED <<readerSlot, readerLen, serial, isSettled, paneVars, sharedVars,
                 serverVars, loopVars>>

ReaderUnpark(p) ==
  /\ readerPc[p] = "parked"
  /\ ~isPaused
  /\ GoTo(p, "poll")
  /\ UNCHANGED <<readerSlot, readerLen, serial, isSettled, paneVars, sharedVars,
                 serverVars, loopVars>>

\* The wait reports the terminal readable: the reader reads one chunk, and
\* takes a pending ring off on the way.  A ring that finds the pane settled
\* ends the pump before the read.
ReaderRead(p) ==
  /\ readerPc[p] = "poll"
  /\ ~(isRung[p] /\ isSettled[p])
  /\ \E n \in ChunkSizes : readerLen' = [readerLen EXCEPT ![p] = n]
  /\ isRung' = [isRung EXCEPT ![p] = FALSE]
  /\ serial' = [serial EXCEPT ![p] = After(@)]
  /\ GoTo(p, "deliver")
  /\ UNCHANGED <<readerSlot, isSettled, hasExited, sharedVars, serverVars, loopVars>>

\* The doorbell rings with the terminal quiet: the reader drains it, stops
\* when the pane is settled, and otherwise opens its next round.
ReaderRung(p) ==
  /\ readerPc[p] = "poll"
  /\ isRung[p]
  /\ isRung' = [isRung EXCEPT ![p] = FALSE]
  /\ GoTo(p, IF isSettled[p] THEN "end" ELSE "top")
  /\ UNCHANGED <<readerSlot, readerLen, serial, isSettled, hasExited, sharedVars,
                 serverVars, loopVars>>

\* A grace round of an ended child stays quiet, or the rounds reach their
\* limit: the pump ends and the reader leaves the gate.
ReaderDrained(p) ==
  /\ readerPc[p] = "poll"
  /\ hasExited[p]
  /\ GoTo(p, "end")
  /\ UNCHANGED <<readerSlot, readerLen, serial, isSettled, paneVars, sharedVars,
                 serverVars, loopVars>>

\* The terminal reports its end, or the read or the wait fails, while the
\* child still runs.
ReaderTerminalEnd(p) ==
  /\ p \in EndingPanes
  /\ readerPc[p] = "poll"
  /\ ~hasExited[p]
  /\ GoTo(p, "end")
  /\ UNCHANGED <<readerSlot, readerLen, serial, isSettled, paneVars, sharedVars,
                 serverVars, loopVars>>

\* `Delivery::deliver_output`: a settled pane's chunk is dropped.
ReaderDeliver(p) ==
  /\ readerPc[p] = "deliver"
  /\ GoTo(p, IF isSettled[p] THEN "end" ELSE "find")
  /\ UNCHANGED <<readerSlot, readerLen, serial, isSettled, paneVars, sharedVars,
                 serverVars, loopVars>>

\* `find_or_start_output_queue`, under the registry's lock.
FindOrStart(p) ==
  IF registry[p] # NoSlot /\ IsHeld(p, registry[p])
  THEN /\ readerSlot' = [readerSlot EXCEPT ![p] = registry[p]]
       /\ UNCHANGED <<queue, registry>>
  ELSE LET s == CHOOSE s \in Slots : ~IsHeld(p, s)
       IN /\ \E t \in Slots : ~IsHeld(p, t)
          /\ readerSlot' = [readerSlot EXCEPT ![p] = s]
          /\ queue' = [queue EXCEPT ![<<p, s>>] = EmptyQueue]
          /\ registry' = [registry EXCEPT ![p] = s]

ReaderFind(p) ==
  /\ readerPc[p] \in {"find", "exitFind"}
  /\ FindOrStart(p)
  /\ GoTo(p, IF readerPc[p] = "find" THEN "push" ELSE "exitPush")
  /\ UNCHANGED <<readerLen, serial, isSettled, paneVars, inbox, serverVars, loopVars>>

\* `accept_output_bytes` under the queue's lock: a push into a full queue
\* waits, and a closed queue refuses the chunk and settles the pane.
ReaderPush(p) ==
  LET q == queue[<<p, readerSlot[p]>>]
      chunk == [serial |-> (serial[p] + SerialModulus - 1) % SerialModulus,
                len |-> readerLen[p]]
  IN /\ readerPc[p] = "push"
     /\ q.closed \/ q.bytes < ByteLimit
     /\ IF q.closed
        THEN /\ isSettled' = [isSettled EXCEPT ![p] = TRUE]
             /\ LeavePush(p, "end")
             /\ UNCHANGED queue
        ELSE /\ queue' = [queue EXCEPT ![<<p, readerSlot[p]>>] =
                            [q EXCEPT !.chunks = Append(@, chunk),
                                      !.bytes = @ + chunk.len,
                                      !.wakeSent = TRUE]]
             /\ LeavePush(p, IF q.wakeSent THEN "top" ELSE "wake")
             /\ UNCHANGED isSettled
     /\ readerLen' = [readerLen EXCEPT ![p] = 0]
     /\ UNCHANGED <<serial, paneVars, registry, inbox, serverVars, loopVars>>

\* `accept_exit_status` under the queue's lock: it never waits.
ReaderPushExit(p) ==
  LET q == queue[<<p, readerSlot[p]>>]
  IN /\ readerPc[p] = "exitPush"
     /\ IF q.closed
        THEN LeavePush(p, "done") /\ UNCHANGED queue
        ELSE /\ queue' = [queue EXCEPT ![<<p, readerSlot[p]>>] =
                            [q EXCEPT !.exit = TRUE, !.wakeSent = TRUE]]
             /\ LeavePush(p, IF q.wakeSent THEN "done" ELSE "exitWake")
     /\ UNCHANGED <<readerLen, serial, isSettled, paneVars, registry,
                    inbox, serverVars, loopVars>>

\* `send_readable_wake`, after the queue's lock is released.  A closed inbox
\* closes the queue.
ReaderSendWake(p) ==
  /\ readerPc[p] \in {"wake", "exitWake"}
  /\ IF dispatcherPc # "gone"
     THEN /\ inbox' = Append(inbox, Wake(p, readerSlot[p]))
          /\ LeavePush(p, IF readerPc[p] = "wake" THEN "top" ELSE "done")
          /\ UNCHANGED queue
     ELSE /\ queue' = [queue EXCEPT ![<<p, readerSlot[p]>>] = ClosedQueue(@)]
          /\ LeavePush(p, IF readerPc[p] = "wake" THEN "unregister" ELSE "exitUnregister")
          /\ UNCHANGED inbox
  /\ UNCHANGED <<readerLen, serial, isSettled, paneVars, registry,
                 serverVars, loopVars>>

\* The second lock of `close_output_queue`: the registry forgets this queue,
\* and only this queue.
Unregister(p, s) ==
  registry' = IF registry[p] = s THEN [registry EXCEPT ![p] = NoSlot] ELSE registry

ReaderUnregister(p) ==
  /\ readerPc[p] \in {"unregister", "exitUnregister"}
  /\ Unregister(p, readerSlot[p])
  /\ IF readerPc[p] = "unregister"
     THEN isSettled' = [isSettled EXCEPT ![p] = TRUE] /\ LeavePush(p, "end")
     ELSE LeavePush(p, "done") /\ UNCHANGED isSettled
  /\ UNCHANGED <<readerLen, serial, paneVars, queue, inbox, serverVars,
                 loopVars>>

\* `Delivery::publish_exit_status`: a settled pane is told no exit; otherwise
\* the reader waits for the watcher's status and settles the pane with it.
ReaderPublishExit(p) ==
  /\ readerPc[p] = "end"
  /\ isSettled[p] \/ hasExited[p]
  /\ isSettled' = [isSettled EXCEPT ![p] = TRUE]
  /\ GoTo(p, IF isSettled[p] THEN "done" ELSE "exitFind")
  /\ UNCHANGED <<readerSlot, readerLen, serial, paneVars, sharedVars, serverVars,
                 loopVars>>

Reader(p) ==
  \/ ReaderTop(p) \/ ReaderUnpark(p) \/ ReaderRung(p) \/ ReaderDrained(p)
  \/ ReaderDeliver(p) \/ ReaderFind(p) \/ ReaderPush(p) \/ ReaderPushExit(p)
  \/ ReaderSendWake(p) \/ ReaderUnregister(p) \/ ReaderPublishExit(p)

\* The child ends on its own: the watcher records it, then rings.
ChildEnds(p) ==
  /\ p \in EndingPanes
  /\ ~hasExited[p]
  /\ hasExited' = [hasExited EXCEPT ![p] = TRUE]
  /\ isRung' = [isRung EXCEPT ![p] = TRUE]
  /\ UNCHANGED <<readerVars, sharedVars, serverVars, loopVars>>

\* `kill_pane` for a pane that left the session: it settles the pane, ends
\* the child and rings.
KillRemovedPane(p) ==
  /\ p \notin live
  /\ ~(isSettled[p] /\ hasExited[p])
  /\ isSettled' = [isSettled EXCEPT ![p] = TRUE]
  /\ hasExited' = [hasExited EXCEPT ![p] = TRUE]
  /\ isRung' = [isRung EXCEPT ![p] = TRUE]
  /\ UNCHANGED <<readerPc, readerSlot, readerLen, serial, sharedVars, serverVars,
                 loopVars>>

-----------------------------------------------------------------------------
(* The dispatcher *)

DispatcherAt(pc) == dispatcherPc = pc /\ closing = NoQueue

\* Mutant of RemovePane: the queue is let go and stays open.
RemovePaneUnclosed(p, queues) ==
  /\ live' = live \ {p}
  /\ heldSlot' = [heldSlot EXCEPT ![p] = NoSlot]
  /\ queue' = queues
  /\ closing' = NoQueue

\* `release_pane_bookkeeping`: the pane leaves the server, and its queue is
\* closed, of which this is the first lock.
RemovePane(p, queues) ==
  /\ live' = live \ {p}
  /\ heldSlot' = [heldSlot EXCEPT ![p] = NoSlot]
  /\ IF heldSlot[p] = NoSlot
     THEN queue' = queues /\ closing' = NoQueue
     ELSE /\ queue' = [queues EXCEPT ![<<p, heldSlot[p]>>] = ClosedQueue(@)]
          /\ closing' = <<p, heldSlot[p]>>

\* `handle_pty_readable`: a live pane's queue is held and joins the rotation;
\* the queue of a pane that is gone is closed.
HandleReadable(p, s) ==
  IF p \in live
  THEN /\ heldSlot' = [heldSlot EXCEPT ![p] = s]
       /\ rotation' = Append(rotation, p)
       /\ UNCHANGED <<live, queue, closing>>
  ELSE /\ queue' = [queue EXCEPT ![<<p, s>>] = ClosedQueue(@)]
       /\ closing' = <<p, s>>
       /\ UNCHANGED <<live, heldSlot, rotation>>

\* `handle_runtime_event`, for the events that touch a pane or end a loop.
HandleEvent(e) ==
  /\ CASE e.kind = "readable" -> HandleReadable(e.pane, e.slot)
       [] e.kind = "closePane" /\ e.pane \in live ->
            RemovePane(e.pane, queue) /\ UNCHANGED rotation
       [] OTHER -> UNCHANGED <<live, heldSlot, rotation, queue, closing>>
  /\ isQuit' = (isQuit \/ e.kind = "killSession")
  /\ isRestart' = (isRestart \/ e.kind = "restart")

\* The points of the dispatcher that read the inbox until it is empty, each
\* with the point it goes to then.
AfterDrain(pc) ==
  CASE pc = "drain" -> "turn"
    [] pc = "apply" -> "pause"
    [] pc = "hold" -> IF rotation = <<>> THEN "await" ELSE "serveHeld"
    [] pc = "holdAgain" -> IF rotation = <<>> THEN "held" ELSE "serveAgain"

DrainPcs == {"drain", "drainAgain", "apply", "hold", "holdAgain"}

DispatchEvent ==
  /\ dispatcherPc \in DrainPcs
  /\ closing = NoQueue
  /\ inbox # <<>>
  /\ inbox' = Tail(inbox)
  /\ HandleEvent(Head(inbox))
  /\ UNCHANGED <<readerVars, paneVars, registry, fedSerial, exitCount, dispatcherPc,
                 servedPane, isPaused>>

DispatchDrained ==
  /\ dispatcherPc \in DrainPcs \ {"drainAgain"}
  /\ closing = NoQueue
  /\ inbox = <<>>
  /\ dispatcherPc' = AfterDrain(dispatcherPc)
  /\ UNCHANGED <<readerVars, paneVars, sharedVars, serverVars, servedPane, closing,
                 isQuit, isRestart, isPaused>>

\* The second lock of `close_output_queue`.
DispatchUnregister ==
  /\ closing # NoQueue
  /\ Unregister(closing[1], closing[2])
  /\ closing' = NoQueue
  /\ UNCHANGED <<readerVars, paneVars, queue, inbox, serverVars, dispatcherPc,
                 servedPane, isQuit, isRestart, isPaused>>

\* A dispatch pass opens: with no pane in the rotation it waits for an event,
\* or until a timed render is due.
DispatchWake ==
  /\ DispatcherAt("wait")
  /\ rotation # <<>> \/ inbox # <<>>
  /\ dispatcherPc' = "drain"
  /\ UNCHANGED <<readerVars, paneVars, sharedVars, serverVars, servedPane, closing,
                 isQuit, isRestart, isPaused>>

DispatchTimeout ==
  /\ DispatcherAt("wait")
  /\ rotation = <<>> /\ inbox = <<>>
  /\ dispatcherPc' = "drain"
  /\ UNCHANGED <<readerVars, paneVars, sharedVars, serverVars, servedPane, closing,
                 isQuit, isRestart, isPaused>>

\* The bytes of the first n chunks, for each n.
BytesUpTo(chunks) ==
  LET total[n \in 0 .. Len(chunks)] ==
        IF n = 0 THEN 0 ELSE total[n - 1] + chunks[n].len
  IN total

SumLen(chunks) == BytesUpTo(chunks)[Len(chunks)]

\* How many chunks a turn takes: as many as fit the turn's limit, and at least
\* one.
TakeCount(chunks) ==
  IF chunks = <<>> THEN 0
  ELSE CHOOSE n \in 1 .. Len(chunks) :
         /\ n = 1 \/ BytesUpTo(chunks)[n] <= TurnLimit
         /\ n = Len(chunks) \/ BytesUpTo(chunks)[n + 1] > TurnLimit

\* Mutant of LeftAfterTurn: an emptied queue keeps its wake flag.
LeftAfterTurnFlagKept(q) ==
  LET n == TakeCount(q.chunks)
      left == SubSeq(q.chunks, n + 1, Len(q.chunks))
  IN [q EXCEPT !.chunks = left,
               !.bytes = @ - BytesUpTo(q.chunks)[n],
               !.exit = @ /\ left # <<>>]

\* `take_output_turn`: what stays in the queue.
LeftAfterTurn(q) ==
  LET n == TakeCount(q.chunks)
      left == SubSeq(q.chunks, n + 1, Len(q.chunks))
  IN [q EXCEPT !.chunks = left,
               !.bytes = @ - BytesUpTo(q.chunks)[n],
               !.exit = @ /\ left # <<>>,
               !.wakeSent = @ /\ left # <<>>]

HasTakenExit(q) == q.exit /\ ~LeftAfterTurn(q).exit

\* `serve_output_turn`: the first pane of the rotation takes one turn.  Its
\* chunks reach the engine, then its exit, if the turn took it, removes the
\* pane.  A pane whose queue the server no longer holds gets no turn.
ServeTurn ==
  LET p == Head(rotation)
      q == queue[<<p, heldSlot[p]>>]
      left == LeftAfterTurn(q)
      taken == TakeCount(q.chunks)
  IN /\ rotation' = Tail(rotation)
     /\ IF heldSlot[p] = NoSlot
        THEN servedPane' = NoPane /\ UNCHANGED <<live, heldSlot, queue, closing,
                                                 fedSerial, exitCount>>
        ELSE /\ fedSerial' = IF taken = 0 THEN fedSerial
                             ELSE [fedSerial EXCEPT ![p] = After(q.chunks[taken].serial)]
             /\ servedPane' = IF left.chunks # <<>> THEN p ELSE NoPane
             /\ IF HasTakenExit(q)
                THEN /\ exitCount' = [exitCount EXCEPT ![p] = @ + 1]
                     /\ RemovePane(p, [queue EXCEPT ![<<p, heldSlot[p]>>] = left])
                ELSE /\ queue' = [queue EXCEPT ![<<p, heldSlot[p]>>] = left]
                     /\ UNCHANGED <<live, heldSlot, closing, exitCount>>

DispatchTurn ==
  /\ DispatcherAt("turn")
  /\ IF rotation = <<>>
     THEN servedPane' = NoPane /\ UNCHANGED <<serverVars, queue, closing>>
     ELSE ServeTurn
  /\ dispatcherPc' = "drainAgain"
  /\ UNCHANGED <<readerVars, paneVars, registry, inbox, isQuit, isRestart, isPaused>>

\* Mutant of DispatchPassEnd: the served pane goes back to the front.
DispatchPassEndInFront ==
  /\ DispatcherAt("drainAgain")
  /\ inbox = <<>>
  /\ rotation' = IF servedPane = NoPane THEN rotation ELSE <<servedPane>> \o rotation
  /\ servedPane' = NoPane
  /\ dispatcherPc' = IF isQuit \/ live = {} THEN "ended"
                     ELSE IF isRestart THEN "apply" ELSE "wait"
  /\ UNCHANGED <<readerVars, paneVars, sharedVars, live, heldSlot, fedSerial, exitCount,
                 closing, isQuit, isRestart, isPaused>>

\* The pass ends: the served pane goes back behind every pane whose wake was
\* handled during its turn, and the serve loop decides what follows.
DispatchPassEnd ==
  /\ DispatcherAt("drainAgain")
  /\ inbox = <<>>
  /\ rotation' = IF servedPane = NoPane THEN rotation ELSE Append(rotation, servedPane)
  /\ servedPane' = NoPane
  /\ dispatcherPc' = IF isQuit \/ live = {} THEN "ended"
                     ELSE IF isRestart THEN "apply" ELSE "wait"
  /\ UNCHANGED <<readerVars, paneVars, sharedVars, live, heldSlot, fedSerial, exitCount,
                 closing, isQuit, isRestart, isPaused>>

-----------------------------------------------------------------------------
(* The image swap: `hold_pane_readers` and the ways out of                 *)
(* `swap_session_image`                                                    *)

\* `pause_readers`: the gate is paused before any doorbell rings.
PauseReaders ==
  /\ DispatcherAt("pause")
  /\ isPaused' = TRUE
  /\ isRung' = [p \in Panes |-> TRUE]
  /\ dispatcherPc' = "hold"
  /\ UNCHANGED <<readerVars, hasExited, sharedVars, serverVars, servedPane, closing,
                 isQuit, isRestart>>

\* `drain_pane_output_queues`: turns until the rotation is empty, each pane
\* with more output going straight to its end; then the inbox again.
ServeHeldTurn ==
  /\ dispatcherPc \in {"serveHeld", "serveAgain"}
  /\ closing = NoQueue
  /\ servedPane = NoPane /\ rotation # <<>>
  /\ ServeTurn
  /\ UNCHANGED <<readerVars, paneVars, registry, inbox, dispatcherPc, isQuit, isRestart,
                 isPaused>>

RequeueHeld ==
  /\ dispatcherPc \in {"serveHeld", "serveAgain"}
  /\ closing = NoQueue
  /\ servedPane # NoPane
  /\ rotation' = Append(rotation, servedPane)
  /\ servedPane' = NoPane
  /\ UNCHANGED <<readerVars, paneVars, sharedVars, live, heldSlot, fedSerial, exitCount,
                 dispatcherPc, closing, isQuit, isRestart, isPaused>>

HeldServed ==
  /\ dispatcherPc \in {"serveHeld", "serveAgain"}
  /\ closing = NoQueue
  /\ servedPane = NoPane /\ rotation = <<>>
  /\ dispatcherPc' = IF dispatcherPc = "serveHeld" THEN "hold" ELSE "holdAgain"
  /\ UNCHANGED <<readerVars, paneVars, sharedVars, serverVars, servedPane, closing,
                 isQuit, isRestart, isPaused>>

\* Mutant of IsEveryReaderParked: a reader with a chunk in its hands counts.
IsNoReaderPolling == \A p \in Panes : readerPc[p] # "poll"

\* `wait_until_readers_parked`: every reader still in its pump has parked.
IsEveryReaderParked == \A p \in Panes : readerPc[p] \in PumpPcs => readerPc[p] = "parked"

AwaitParked ==
  /\ DispatcherAt("await")
  /\ IsEveryReaderParked
  /\ dispatcherPc' = "holdAgain"
  /\ UNCHANGED <<readerVars, paneVars, sharedVars, serverVars, servedPane, closing,
                 isQuit, isRestart, isPaused>>

\* The passes of the swap after the readers are held.
HeldMore ==
  /\ DispatcherAt("held")
  /\ inbox # <<>>
  /\ dispatcherPc' = "holdAgain"
  /\ UNCHANGED <<readerVars, paneVars, sharedVars, serverVars, servedPane, closing,
                 isQuit, isRestart, isPaused>>

\* `restore_session_serving`: the swap is abandoned before any state moved.
AbandonSwap ==
  /\ DispatcherAt("held")
  /\ isPaused' = FALSE
  /\ isRestart' = FALSE
  /\ dispatcherPc' = IF isQuit THEN "ended" ELSE "wait"
  /\ UNCHANGED <<readerVars, paneVars, sharedVars, serverVars, servedPane, closing,
                 isQuit>>

\* `resume_session_readers` after the state was carried out: the readers go
\* back to work, then a new server takes the old one's inbox, holding no queue
\* and with an empty rotation.
ResumeReaders ==
  /\ DispatcherAt("held")
  /\ isPaused' = FALSE
  /\ dispatcherPc' = "rebuild"
  /\ UNCHANGED <<readerVars, paneVars, sharedVars, serverVars, servedPane, closing,
                 isQuit, isRestart>>

RebuildServer ==
  /\ DispatcherAt("rebuild")
  /\ heldSlot' = [p \in Panes |-> NoSlot]
  /\ rotation' = <<>>
  /\ isRestart' = FALSE
  /\ dispatcherPc' = IF isQuit THEN "ended" ELSE "wait"
  /\ UNCHANGED <<readerVars, paneVars, sharedVars, live, fedSerial, exitCount,
                 servedPane, closing, isQuit, isPaused>>

\* The new image: every thread, queue and event of the old one is gone, and
\* each carried pane gets a fresh reader on its terminal.
ExecImage ==
  /\ DispatcherAt("held")
  /\ \A p \in Panes \ live : isSettled[p] /\ hasExited[p]
  /\ readerPc' = [p \in Panes |-> IF p \in live THEN "top" ELSE "done"]
  /\ readerSlot' = [p \in Panes |-> NoSlot]
  /\ readerLen' = [p \in Panes |-> 0]
  /\ isSettled' = [p \in Panes |-> p \notin live]
  /\ isRung' = hasExited
  /\ isPaused' = FALSE
  /\ queue' = [q \in Panes \X Slots |-> EmptyQueue]
  /\ registry' = [p \in Panes |-> NoSlot]
  /\ inbox' = <<>>
  /\ heldSlot' = [p \in Panes |-> NoSlot]
  /\ rotation' = <<>>
  /\ isRestart' = FALSE
  /\ dispatcherPc' = IF isQuit THEN "ended" ELSE "wait"
  /\ UNCHANGED <<serial, hasExited, live, fedSerial, exitCount, servedPane, closing,
                 isQuit>>

-----------------------------------------------------------------------------
(* The session's end *)

\* `Server::shutdown` kills every live pane.
KillAllPanes ==
  /\ dispatcherPc = "ended"
  /\ isSettled' = [p \in Panes |-> isSettled[p] \/ p \in live]
  /\ hasExited' = [p \in Panes |-> hasExited[p] \/ p \in live]
  /\ isRung' = [p \in Panes |-> isRung[p] \/ p \in live]
  /\ dispatcherPc' = "killed"
  /\ UNCHANGED <<readerPc, readerSlot, readerLen, serial, sharedVars, serverVars,
                 servedPane, closing, isQuit, isRestart, isPaused>>

\* The server is dropped, and the inbox loses its receiver.
DropServer ==
  /\ dispatcherPc = "killed"
  /\ inbox' = <<>>
  /\ heldSlot' = [p \in Panes |-> NoSlot]
  /\ rotation' = <<>>
  /\ dispatcherPc' = "gone"
  /\ UNCHANGED <<readerVars, paneVars, queue, registry, live, fedSerial, exitCount,
                 servedPane, closing, isQuit, isRestart, isPaused>>

-----------------------------------------------------------------------------
(* Requests of the clients.  Each kind waits in the inbox at most once (a    *)
(* bound), and a session asked to end or to restart is not asked again.      *)
(* None is handed over once the readers are held: the intake refuses them.   *)

Request(e) ==
  /\ e.kind \in RequestKinds
  /\ dispatcherPc \notin SwapPcs \cup EndPcs
  /\ \A i \in DOMAIN inbox : inbox[i] # e
  /\ inbox' = Append(inbox, e)
  /\ UNCHANGED <<readerVars, paneVars, queue, registry, serverVars, loopVars>>

Requests ==
  \/ \E p \in live : Request(ClosePane(p))
  \/ ~isQuit /\ Request(KillSession)
  \/ ~isRestart /\ Request(Restart)

Dispatcher ==
  \/ DispatchEvent \/ DispatchDrained \/ DispatchUnregister \/ DispatchWake
  \/ DispatchTurn \/ DispatchPassEnd
  \/ PauseReaders \/ ServeHeldTurn \/ RequeueHeld \/ HeldServed \/ AwaitParked

SwapEnd == HeldMore \/ AbandonSwap \/ ResumeReaders \/ RebuildServer \/ ExecImage

SessionEnd == KillAllPanes \/ DropServer

Next ==
  \/ \E p \in Panes : Reader(p) \/ ReaderRead(p) \/ ReaderTerminalEnd(p)
                        \/ ChildEnds(p) \/ KillRemovedPane(p)
  \/ Dispatcher \/ DispatchTimeout \/ SwapEnd \/ SessionEnd
  \/ Requests

Spec == Init /\ [][Next]_vars

\* The threads run: each reader and the dispatcher take a step they can take,
\* the swap ends one way or another, and a kill that was started runs.  The
\* grace rounds of an ended child end, because they have a limit.  Nothing
\* obliges a child to print or to end, or a client to ask for anything.
Fairness ==
  /\ \A p \in Panes : /\ WF_vars(Reader(p))
                      /\ SF_vars(ReaderDrained(p))
                      /\ WF_vars(KillRemovedPane(p))
  /\ WF_vars(Dispatcher)
  /\ WF_vars(SwapEnd)

FairSpec == Spec /\ Fairness

-----------------------------------------------------------------------------
(* Properties *)

\* Every variable has its type; a queue's byte count is the length of what it
\* holds, and a push adds at most one chunk beyond the limit
\* (`accept_output_bytes`).
TypeOK ==
  /\ readerPc \in [Panes -> ReaderPcs]
  /\ readerSlot \in [Panes -> Slots \cup {NoSlot}]
  /\ readerLen \in [Panes -> ChunkSizes \cup {0}]
  /\ serial \in [Panes -> 0 .. SerialModulus - 1]
  /\ isRung \in [Panes -> BOOLEAN]
  /\ isSettled \in [Panes -> BOOLEAN]
  /\ hasExited \in [Panes -> BOOLEAN]
  /\ isPaused \in BOOLEAN
  /\ queue \in [Panes \X Slots -> QueueState]
  /\ \A q \in Panes \X Slots :
       /\ queue[q].bytes = SumLen(queue[q].chunks)
       /\ queue[q].bytes > ByteLimit =>
            queue[q].bytes - Last(queue[q].chunks).len < ByteLimit
  /\ registry \in [Panes -> Slots \cup {NoSlot}]
  /\ inbox \in Seq(RuntimeEvents)
  /\ live \subseteq Panes
  /\ heldSlot \in [Panes -> Slots \cup {NoSlot}]
  /\ rotation \in Seq(Panes)
  /\ fedSerial \in [Panes -> 0 .. SerialModulus - 1]
  /\ exitCount \in [Panes -> Nat]
  /\ dispatcherPc \in DispatcherPcs
  /\ servedPane \in Panes \cup {NoPane}
  /\ closing \in (Panes \X Slots) \cup {NoQueue}
  /\ isQuit \in BOOLEAN
  /\ isRestart \in BOOLEAN

\* The dispatcher is bound to look at the queue: its wake is about to be sent
\* or is in the inbox, or its pane is in the rotation or in its turn.
IsWakeOnItsWay(p, s) ==
  \/ readerPc[p] \in {"wake", "exitWake"} /\ readerSlot[p] = s
  \/ \E i \in DOMAIN inbox : inbox[i] = Wake(p, s)
  \/ heldSlot[p] = s /\ (servedPane = p \/ \E i \in DOMAIN rotation : rotation[i] = p)

\* While the session runs, output or an exit in a live pane's queue is never
\* left there unseen: the wake flag is set exactly while the dispatcher is
\* still going to look, although the wake is sent after the queue's lock is
\* released and the flag is cleared by the dispatcher's turn.
NoLostWake ==
  dispatcherPc \notin EndPcs =>
    \A p \in live, s \in Slots :
      LET q == queue[<<p, s>>]
      IN /\ q.chunks # <<>> \/ q.exit => q.wakeSent
         /\ q.wakeSent => IsWakeOnItsWay(p, s)

\* The queue the server serves for a pane is open, belongs to a live pane, and
\* is the one the pane's reader finds: a wake that outlives its pane, and a
\* push that starts a queue after the close, never make the dispatcher serve a
\* queue nobody fills or hold one nobody closes.
ServedQueueIsRegistered ==
  dispatcherPc # "gone" =>
    \A p \in Panes : heldSlot[p] # NoSlot =>
      /\ p \in live
      /\ ~queue[<<p, heldSlot[p]>>].closed
      /\ registry[p] = heldSlot[p]

\* Chunks of p read from its terminal and not yet fed to its engine, oldest
\* first: those in its queue, then the one in the reader's hands.
UnfedSerials(p) ==
  LET queued == IF registry[p] = NoSlot THEN <<>> ELSE queue[<<p, registry[p]>>].chunks
      before == (serial[p] + SerialModulus - 1) % SerialModulus
  IN [i \in DOMAIN queued |-> queued[i].serial]
       \o (IF readerPc[p] \in {"deliver", "find", "push"} THEN <<before>> ELSE <<>>)

\* The stream a pane's consumer sees: open while the pane is live in a running
\* session.
StreamPhase(p) ==
  CASE exitCount[p] > 0 -> "exited"
    [] p \in live /\ dispatcherPc \notin EndPcs -> "open"
    [] OTHER -> "left"

Stream == INSTANCE OutputStream WITH
  Modulus <- SerialModulus,
  phase <- [p \in Panes |-> StreamPhase(p)],
  next <- [p \in Panes |-> CASE StreamPhase(p) = "open" -> serial[p]
                             [] StreamPhase(p) = "exited" -> fedSerial[p]
                             [] OTHER -> 0],
  fed <- [p \in Panes |-> IF StreamPhase(p) = "left" THEN 0 ELSE fedSerial[p]],
  unfed <- [p \in Panes |-> IF StreamPhase(p) = "open" THEN UnfedSerials(p) ELSE <<>>]

\* Every chunk a live pane's reader took off its terminal is fed to the pane's
\* engine once and in order, and the pane's exit is handled once and after all
\* of them, across image swaps, abandoned swaps and rebuilt servers, also when
\* the next image observes the same exit again.
ImplementsOutputStream == Stream!Spec

\* Output in a live pane's queue is taken in the end, whatever the other panes
\* print.
OutputIsServed ==
  \A p \in Panes, n \in 0 .. SerialModulus - 1 :
    (p \in live /\ fedSerial[p] = n /\ UnfedSerials(p) # <<>>)
      ~> (fedSerial[p] # n \/ p \notin live \/ dispatcherPc \in EndPcs)

\* A reader that waits for room goes on while the session runs, also when the
\* pane it reads has left the session.
FullQueueGetsRoom ==
  \A p \in Panes : readerPc[p] = "push" ~> (readerPc[p] # "push" \/ dispatcherPc \in EndPcs)

\* Holding the readers for an image swap ends: no reader waits for room while
\* the dispatcher waits for that reader to park.
HoldEnds == dispatcherPc = "await" ~> dispatcherPc # "await"

\* A live pane whose child ended leaves the session.
ExitIsHandled ==
  \A p \in Panes : (p \in live /\ hasExited[p]) ~> (p \notin live \/ dispatcherPc \in EndPcs)

\* The queues, the wakes and the server's view of them agree at every step.
QueuesAreConsistent == TypeOK /\ NoLostWake /\ ServedQueueIsRegistered

\* Nobody waits for good on a queue: neither a reader for room nor a swap for
\* the readers.
WaitsEnd == HoldEnds /\ FullQueueGetsRoom

\* The dispatcher gets to every pane: its output and its exit are handled while
\* another pane prints without end.
QueuesAreServed == OutputIsServed /\ ExitIsHandled
=============================================================================
