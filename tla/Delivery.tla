------------------------------ MODULE Delivery ------------------------------
(***************************************************************************)
(* What a session sends its attached clients: the event bus, one bounded   *)
(* delivery queue per client, the frame pushing of the dispatcher, and the *)
(* thread that writes each client's connection                             *)
(* (koshi-runtime/src/runtime/bus.rs, runtime/delivery_queue.rs,           *)
(* runtime/render_schedule.rs, runtime/event.rs, server.rs, and            *)
(* `stream_events` of ipc_server.rs with ipc_server/paint_window.rs).      *)
(*                                                                         *)
(* A client that reads slowly fills its queue.  The delivery that does not *)
(* fit pauses the client ("Desynced"), and a snapshot of the whole state   *)
(* resumes it.  A frame is abstracted to the number of the view it shows,  *)
(* an event for every client to its number, and a command rejection to the *)
(* action that was rejected.  Time is abstracted to what it lets happen.   *)
(***************************************************************************)
EXTENDS Integers, Sequences, FiniteSets

CONSTANTS
  Clients,            \* the clients that may attach
  Capacity,           \* `SUBSCRIBER_QUEUE_CAPACITY`
  Targets,            \* clipboard targets a host write can set
  MaxHostWrites,      \* `MAX_HOST_WRITE_BYTE_COUNT`, every write one byte
  RejectedActions,    \* actions whose commands the session rejects
  MaxHeldRejections,  \* `MAX_HELD_COMMAND_REJECTION_COUNT`
  Inputs,             \* the inputs of the dispatcher that this instance has
  MaxInputs           \* bound: how many of them arrive

ASSUME CapacityAssumption == Capacity \in Nat \ {0}
ASSUME HeldAssumption == MaxHeldRejections \in Nat \ {0}
ASSUME BoundsAssumption == MaxHostWrites \in Nat /\ MaxInputs \in Nat

VARIABLES
  view,        \* the number of the state a frame shows
  revision,    \* the number of the last event for every client
  inputCount,  \* inputs that arrived
  dispatcher,  \* where the dispatcher is, and the ending it was asked for
  inbox,       \* events handed to the dispatcher by the connections' threads
  notice,      \* `EndingNotice::session_ending`
  pace,        \* `FramePace` of each client's subscription
  link,        \* each client's `Subscriber`, queue and `WriterHandoff`
  writer,      \* each client's writing thread
  reader,      \* where each client's reading thread is
  isLinkLost,  \* the flag the reading thread leaves for the writing thread
  isLinkUp,    \* whether the connection carries bytes
  client,      \* what each client has read
  sent         \* history: what the session accepted for each client

sessionVars == <<view, revision, inputCount>>
threadVars == <<writer, reader, isLinkLost, isLinkUp, client>>
vars == <<sessionVars, dispatcher, inbox, notice, pace, link, threadVars, sent>>

-----------------------------------------------------------------------------
(* State *)

Endings == {"Quit", "Restarting"}
InputKinds == {"view", "event", "answer", "request", "reject", "hostWrite",
              "detach", "closeLastTab", "quit", "restart", "pong", "breakLink",
              "leave", "unsentReport"}

ASSUME InputsAssumption == Inputs \subseteq InputKinds

Frame(v) == [kind |-> "Frame", view |-> v]
Snapshot(v, b, r) ==
  [kind |-> "Snapshot", view |-> v, event |-> r, held |-> b.held,
   droppedRuns |-> b.droppedRuns]
EventDelivery(r) == [kind |-> "Event", event |-> r]
Rejection(a) == [kind |-> "Rejection", action |-> a]
Plain(k) == [kind |-> k]
Deliveries ==
  LET n == 0 .. MaxInputs + 1 IN
  {Frame(v) : v \in n} \cup {EventDelivery(r) : r \in n}
    \cup {Rejection(a) : a \in RejectedActions}
    \cup {Plain(k) : k \in {"Answer", "Request", "HostWrite", "Ending", "None"}}

IsSnapshot(d) ==
  /\ DOMAIN d = {"kind", "view", "event", "held", "droppedRuns"}
  /\ d.kind = "Snapshot"

IsFrameDelivery(d) == d.kind \in {"Frame", "Snapshot"}

\* The sums of the first numbers of a sequence, and of all of them.
SumUpTo(f) ==
  LET upTo[n \in 0 .. Len(f)] == IF n = 0 THEN 0 ELSE upTo[n - 1] + f[n] IN upTo
Total(f) == SumUpTo(f)[Len(f)]

\* The rejections that runs of them stand for.
RepeatCount(held) == Total([i \in DOMAIN held |-> held[i].repeats])

RequestCount(q) == Total([i \in DOMAIN q |-> IF q[i].kind = "Request" THEN 1 ELSE 0])

NoLink ==
  [state |-> "none", dropped |-> 0, held |-> <<>>, droppedRuns |-> 0,
   queue |-> <<>>, isReceiverClosed |-> FALSE, isWaiting |-> FALSE,
   report |-> 0, isFrameOwed |-> FALSE, hostWrites |-> <<>>,
   isWakeQueued |-> FALSE]

NoWriter ==
  [pc |-> "none", isFrameAllowed |-> TRUE, taken |-> Plain("None"),
   requests |-> 0, lastView |-> 0, lastSent |-> 0, lastPainted |-> 0, hasPaintReport |-> FALSE,
   shouldCloseReader |-> FALSE]

NoClient ==
  [shown |-> 0, seen |-> 0, hasGap |-> FALSE, hasGoneBack |-> FALSE,
   rejections |-> 0, droppedRuns |-> 0, requests |-> 0, ending |-> "none"]

Init ==
  /\ view = 1
  /\ revision = 0
  /\ inputCount = 0
  /\ dispatcher = [pc |-> "wait", asked |-> "none", hostClient |-> {}]
  /\ inbox = {}
  /\ notice = "none"
  /\ pace = [c \in Clients |-> [hasViewChange |-> TRUE, isOpen |-> TRUE]]
  /\ link = [c \in Clients |-> NoLink]
  /\ writer = [c \in Clients |-> NoWriter]
  /\ reader = [c \in Clients |-> "none"]
  /\ isLinkLost = [c \in Clients |-> FALSE]
  /\ isLinkUp = [c \in Clients |-> TRUE]
  /\ client = [c \in Clients |-> NoClient]
  /\ sent = [c \in Clients |-> [rejections |-> 0, requests |-> 0]]

IsSubscribed(b) == b.state \in {"Live", "Desynced"}
IsUp == dispatcher.pc \notin {"told", "gaveUp"}

-----------------------------------------------------------------------------
(* The delivery queue and the bus: each operator gives the link after it *)

\* Dropping the sender closes the queue and wakes the receiver.
Unsubscribed(b) ==
  IF IsSubscribed(b) THEN [b EXCEPT !.state = "gone", !.isWaiting = FALSE] ELSE b

IsFull(b) == Len(b.queue) >= Capacity

Queued(b, d) == [b EXCEPT !.queue = Append(@, d), !.isWaiting = FALSE]

\* `DeliverySender::try_send`, then what its caller does: `full` is the link
\* after a full queue refused `d`, and a receiver that is gone ends the
\* subscription.
TrySend(b, d, full) ==
  IF b.isReceiverClosed THEN Unsubscribed(b)
  ELSE IF IsFull(b) THEN full
  ELSE Queued(b, d)

\* Mutant of DeliverToSubscriber: a full queue wakes nobody.
DeliverWithoutWake(b, d, isStreamEnding) ==
  IF ~IsSubscribed(b) THEN b
  ELSE IF b.state = "Desynced" /\ ~isStreamEnding
    THEN [b EXCEPT !.dropped = @ + 1]
  ELSE TrySend(b, d, [b EXCEPT !.state = "Desynced", !.dropped = @ + 1])

\* Mutant of DeliverToSubscriber: an event a full queue refuses pauses nobody.
DeliverOrForget(b, d, isStreamEnding) ==
  IF ~IsSubscribed(b) THEN b ELSE TrySend(b, d, b)

\* One subscriber's part of `deliver_to_every_subscriber`.
DeliverToSubscriber(b, d, isStreamEnding) ==
  IF ~IsSubscribed(b) THEN b
  ELSE IF b.state = "Desynced" /\ ~isStreamEnding
    THEN [b EXCEPT !.dropped = @ + 1]
  ELSE TrySend(b, d, [b EXCEPT !.state = "Desynced",
                               !.dropped = @ + 1,
                               !.isWaiting = @ /\ ~isStreamEnding])

IsTakenNow(b) == b.state = "Live" /\ ~b.isReceiverClosed /\ ~IsFull(b)

TrySendDelivery(b, d) ==
  IF b.state # "Live" THEN b
  ELSE TrySend(b, d, [b EXCEPT !.state = "Desynced", !.dropped = 1])

\* Runs of equal rejections: the newest run takes an equal one, and a new
\* run at the limit drops the oldest.
HoldCommandRejection(b, a) ==
  LET n == Len(b.held) IN
  IF n > 0 /\ b.held[n].action = a
    THEN [b EXCEPT !.held[n].repeats = @ + 1]
  ELSE IF n = MaxHeldRejections
    THEN [b EXCEPT !.held = Append(Tail(@), [action |-> a, repeats |-> 1]),
                   !.droppedRuns = @ + 1]
  ELSE [b EXCEPT !.held = Append(@, [action |-> a, repeats |-> 1])]

\* Mutant of SendCommandRejection: the rejection that found the queue full is
\* not held.
SendRejectionUnheld(b, a) ==
  IF b.state = "Desynced" THEN HoldCommandRejection(b, a)
  ELSE IF b.state # "Live" THEN b
  ELSE TrySend(b, Rejection(a), [b EXCEPT !.state = "Desynced"])

SendCommandRejection(b, a) ==
  IF b.state = "Desynced" THEN HoldCommandRejection(b, a)
  ELSE IF b.state # "Live" THEN b
  ELSE TrySend(b, Rejection(a),
               [b EXCEPT !.state = "Desynced",
                         !.held = <<[action |-> a, repeats |-> 1]>>])

\* A frame takes the place of a frame at the tail, and finds room there on a
\* full queue; the writing thread is not woken for it.
TrySendFrame(b, v) ==
  LET n == Len(b.queue) IN
  IF b.state # "Live" THEN b
  ELSE IF ~b.isReceiverClosed /\ n > 0 /\ b.queue[n].kind = "Frame"
    THEN [b EXCEPT !.queue[n] = Frame(v)]
  ELSE TrySend(b, Frame(v), [b EXCEPT !.isFrameOwed = TRUE])

\* A snapshot that fits returns the subscriber to live delivery and carries
\* what it held.
TryResync(b, v, r) ==
  LET d == Snapshot(v, b, r) IN
  IF b.state # "Desynced" THEN b
  ELSE IF ~b.isReceiverClosed /\ ~IsFull(b)
    THEN [Queued(b, d) EXCEPT !.state = "Live", !.dropped = 0,
                              !.held = <<>>, !.droppedRuns = 0]
  ELSE TrySend(b, d, [b EXCEPT !.isFrameOwed = TRUE])

CanTakeFrame(b) == b.state = "Live" /\ ~b.isFrameOwed

-----------------------------------------------------------------------------
(* The dispatcher: one pass handles what the inbox holds, resyncs the      *)
(* paused clients and pushes the frames that are due                       *)

\* An input that reaches no client changes nothing here and is left out.
CanHandle(input) ==
  /\ dispatcher.pc \in {"wait", "handle"}
  /\ \E c \in Clients : IsSubscribed(link[c])
  /\ input \in Inputs
  /\ inputCount < MaxInputs
  /\ inputCount' = inputCount + 1

Handling == dispatcher' = [dispatcher EXCEPT !.pc = "handle"]

\* An attach is accepted: `EventBus::subscribe`, with the notification queue
\* as it stands for the answer.
AcceptAttach(c) ==
  /\ dispatcher.pc \in {"wait", "handle"}
  /\ link[c].state = "none"
  /\ link' = [link EXCEPT ![c].state = "Live"]
  /\ writer' = [writer EXCEPT ![c].pc = "accepted"]
  /\ client' = [client EXCEPT ![c].seen = revision]
  /\ Handling
  /\ UNCHANGED <<sessionVars, inbox, notice, pace, reader, isLinkLost,
                 isLinkUp, sent>>

\* The state a frame shows changes; `mark_changed_views` at the end of this
\* pass marks every subscription that shows it.
ChangeView ==
  /\ CanHandle("view")
  /\ view' = view + 1
  /\ pace' = [c \in Clients |-> [pace[c] EXCEPT !.hasViewChange = TRUE]]
  /\ Handling
  /\ UNCHANGED <<revision, inbox, notice, link, threadVars, sent>>

\* A notification post or a placement commit, for every subscriber.
PublishEvent ==
  /\ CanHandle("event")
  /\ revision' = revision + 1
  /\ link' = [c \in Clients |->
                DeliverToSubscriber(link[c], EventDelivery(revision + 1), FALSE)]
  /\ Handling
  /\ UNCHANGED <<view, inbox, notice, pace, threadVars, sent>>

\* A mouse answer or a session switch.
SendAnswer(c) ==
  /\ CanHandle("answer")
  /\ IsSubscribed(link[c])
  /\ link' = [link EXCEPT ![c] = TrySendDelivery(@, Plain("Answer"))]
  /\ Handling
  /\ UNCHANGED <<view, revision, inbox, notice, pace, threadVars, sent>>

\* A viewer action request: accepted once it is on the queue.
SendClientActionRequest(c) ==
  /\ CanHandle("request")
  /\ IsSubscribed(link[c])
  /\ link' = [link EXCEPT ![c] = TrySendDelivery(@, Plain("Request"))]
  /\ sent' = [sent EXCEPT ![c].requests =
                IF IsTakenNow(link[c]) /\ notice = "none" THEN @ + 1 ELSE @]
  /\ Handling
  /\ UNCHANGED <<view, revision, inbox, notice, pace, threadVars>>

RejectCommand(c, a) ==
  /\ CanHandle("reject")
  /\ IsSubscribed(link[c])
  /\ link' = [link EXCEPT ![c] = SendCommandRejection(@, a)]
  /\ sent' = [sent EXCEPT ![c].rejections = @ + 1]
  /\ Handling
  /\ UNCHANGED <<view, revision, inbox, notice, pace, threadVars>>

WritesOfOthers(writes, t) == SelectSeq(writes, LAMBDA w : w # t)

\* `queue_host_write`, first lock: a waiting write of the same targets is
\* replaced, and one that does not fit beside the others is refused.
AddHostWrite(c, t) ==
  LET kept == WritesOfOthers(link[c].hostWrites, t)
      isRefused == Len(kept) > 0 /\ Len(kept) + 1 > MaxHostWrites IN
  /\ CanHandle("hostWrite")
  /\ IsSubscribed(link[c])
  /\ link' = [link EXCEPT ![c].hostWrites = IF isRefused THEN @ ELSE Append(kept, t)]
  /\ dispatcher' = IF isRefused THEN [dispatcher EXCEPT !.pc = "handle"]
                   ELSE [dispatcher EXCEPT !.pc = "hostSwap", !.hostClient = {c}]
  /\ UNCHANGED <<view, revision, inbox, notice, pace, threadVars, sent>>

\* The wake flag is swapped: a wake already queued is enough.
SwapHostWake(c) ==
  /\ dispatcher.pc = "hostSwap" /\ c \in dispatcher.hostClient
  /\ link' = [link EXCEPT ![c].isWakeQueued = TRUE]
  /\ dispatcher' = IF link[c].isWakeQueued
                   THEN [dispatcher EXCEPT !.pc = "handle", !.hostClient = {}]
                   ELSE [dispatcher EXCEPT !.pc = "hostSend"]
  /\ UNCHANGED <<sessionVars, inbox, notice, pace, threadVars, sent>>

\* The wake goes on the queue; a full queue drops it.
SendHostWake(c) ==
  /\ dispatcher.pc = "hostSend" /\ c \in dispatcher.hostClient
  /\ link' = [link EXCEPT ![c] = TrySend(@, Plain("HostWrite"), @)]
  /\ dispatcher' = IF ~link[c].isReceiverClosed /\ IsFull(link[c])
                   THEN [dispatcher EXCEPT !.pc = "hostClear"]
                   ELSE [dispatcher EXCEPT !.pc = "handle", !.hostClient = {}]
  /\ UNCHANGED <<sessionVars, inbox, notice, pace, threadVars, sent>>

ClearHostWake(c) ==
  /\ dispatcher.pc = "hostClear" /\ c \in dispatcher.hostClient
  /\ link' = [link EXCEPT ![c].isWakeQueued = FALSE]
  /\ dispatcher' = [dispatcher EXCEPT !.pc = "handle", !.hostClient = {}]
  /\ UNCHANGED <<sessionVars, inbox, notice, pace, threadVars, sent>>

\* A command detaches the client while its connection is still read.
DetachClient(c) ==
  /\ CanHandle("detach")
  /\ IsSubscribed(link[c])
  /\ link' = [link EXCEPT ![c] = Unsubscribed(@)]
  /\ Handling
  /\ UNCHANGED <<view, revision, inbox, notice, pace, threadVars, sent>>

\* An event a connection's thread handed over: `QueueRoomFreed` changes
\* nothing by itself, and `ClientDetached` drops the subscription.
HandleInbox(e) ==
  /\ dispatcher.pc \in {"wait", "handle"}
  /\ e \in inbox
  /\ inbox' = inbox \ {e}
  /\ link' = [c \in Clients |->
                IF e = <<"detached", c>> THEN Unsubscribed(link[c]) ELSE link[c]]
  /\ Handling
  /\ UNCHANGED <<sessionVars, notice, pace, threadVars, sent>>

\* Publishing an event that ends the stream raises the notice first; the
\* notice keeps the ending it was raised with.
PublishEnding(e) ==
  /\ notice' = IF notice = "none" THEN e ELSE notice
  /\ link' = [c \in Clients |-> DeliverToSubscriber(link[c], Plain("Ending"), TRUE)]

\* The session closes its last tab: the quit goes out inside the pass.
CloseLastTab ==
  /\ CanHandle("closeLastTab")
  /\ PublishEnding("Quit")
  /\ dispatcher' = [dispatcher EXCEPT !.pc = "handle", !.asked = "Quit"]
  /\ UNCHANGED <<view, revision, inbox, pace, threadVars, sent>>

\* A quit or a restart is asked for; the loop ends after this pass.
AskEnding(e) ==
  /\ CanHandle(IF e = "Quit" THEN "quit" ELSE "restart")
  /\ dispatcher.asked = "none"
  /\ dispatcher' = [dispatcher EXCEPT !.pc = "handle", !.asked = e]
  /\ UNCHANGED <<view, revision, inbox, notice, pace, link, threadVars, sent>>

\* The time of a frame comes, or the client's own key lets the next go now.
PaceOpens(c) ==
  /\ IsUp
  /\ ~pace[c].isOpen
  /\ pace' = [pace EXCEPT ![c].isOpen = TRUE]
  /\ UNCHANGED <<sessionVars, dispatcher, inbox, notice, link, threadVars, sent>>

IsFrameDue(c) ==
  CanTakeFrame(link[c]) /\ pace[c].hasViewChange /\ pace[c].isOpen

\* `compute_next_render_wakeup`: a frame that is due ends the wait.
WakeForFrame ==
  /\ dispatcher.pc = "wait"
  /\ \E c \in Clients : IsFrameDue(c)
  /\ Handling
  /\ UNCHANGED <<sessionVars, inbox, notice, pace, link, threadVars, sent>>

\* The inbox is empty: the pass goes on to `push_due_frames`.
FinishHandling ==
  /\ dispatcher.pc = "handle"
  /\ inbox = {}
  /\ dispatcher' = [dispatcher EXCEPT !.pc = "resync"]
  /\ UNCHANGED <<sessionVars, inbox, notice, pace, link, threadVars, sent>>

RecordFrameSent == [hasViewChange |-> FALSE, isOpen |-> FALSE]

\* Mutant of ResyncLagged: a full queue is tried and the snapshot forgotten.
ResyncOnce ==
  LET isDue(c) == link[c].state = "Desynced" /\ ~link[c].isFrameOwed IN
  /\ dispatcher.pc = "resync"
  /\ link' = [c \in Clients |->
                IF ~isDue(c) THEN link[c]
                ELSE IF IsFull(link[c]) THEN [link[c] EXCEPT !.state = "Live"]
                ELSE TryResync(link[c], view, revision)]
  /\ dispatcher' = [dispatcher EXCEPT !.pc = "push"]
  /\ UNCHANGED <<sessionVars, inbox, notice, pace, threadVars, sent>>

\* A paused client that is owed a frame is skipped.  A client's threads touch
\* its own link alone, so one step serves every client.
ResyncLagged ==
  LET isDue(c) == link[c].state = "Desynced" /\ ~link[c].isFrameOwed
      after(c) == IF isDue(c) THEN TryResync(link[c], view, revision) ELSE link[c]
  IN
  /\ dispatcher.pc = "resync"
  /\ link' = [c \in Clients |-> after(c)]
  /\ pace' = [c \in Clients |->
                IF isDue(c) /\ after(c).state = "Live" THEN RecordFrameSent ELSE pace[c]]
  /\ dispatcher' = [dispatcher EXCEPT !.pc = "push"]
  /\ UNCHANGED <<sessionVars, inbox, notice, threadVars, sent>>

\* The frame that finds the queue full leaves the view change in place.
PushFrames ==
  LET after(c) == IF IsFrameDue(c) THEN TrySendFrame(link[c], view) ELSE link[c]
      isSent(c) == IsFrameDue(c) /\ CanTakeFrame(after(c)) IN
  /\ dispatcher.pc = "push"
  /\ link' = [c \in Clients |-> after(c)]
  /\ pace' = [c \in Clients |-> IF isSent(c) THEN RecordFrameSent ELSE pace[c]]
  /\ dispatcher' = [dispatcher EXCEPT !.pc =
                      IF dispatcher.asked = "none" THEN "wait" ELSE "announce"]
  /\ UNCHANGED <<sessionVars, inbox, notice, threadVars, sent>>

\* `announce_restarting` publishes; `announce_quit` publishes unless the
\* session did.
Announce ==
  /\ dispatcher.pc = "announce"
  /\ IF dispatcher.asked = "Quit" /\ notice # "none"
     THEN UNCHANGED <<notice, link>>
     ELSE PublishEnding(dispatcher.asked)
  /\ dispatcher' = [dispatcher EXCEPT !.pc = "await"]
  /\ UNCHANGED <<sessionVars, inbox, pace, threadVars, sent>>

\* `EndingNotice::running_writers`: from `record_writer_started` to
\* `record_writer_ended`.
RunningWriters ==
  {c \in Clients : writer[c].pc \notin {"none", "accepted", "greeted", "ended"}}

\* `wait_for_clients_told`: every writing thread ended.
EndAwait ==
  /\ dispatcher.pc = "await"
  /\ RunningWriters = {}
  /\ dispatcher' = [dispatcher EXCEPT !.pc = "told"]
  /\ UNCHANGED <<sessionVars, inbox, notice, pace, link, threadVars, sent>>

\* A second passed while one still runs.
GiveUpAwait ==
  /\ dispatcher.pc = "await"
  /\ RunningWriters # {}
  /\ dispatcher' = [dispatcher EXCEPT !.pc = "gaveUp"]
  /\ UNCHANGED <<sessionVars, inbox, notice, pace, link, threadVars, sent>>

-----------------------------------------------------------------------------
(* The connection: the client, the reading thread and the writing thread *)

dispatcherVars == <<sessionVars, dispatcher, notice, pace, sent>>

GoTo(c, pc) == writer' = [writer EXCEPT ![c].pc = pc]

\* The serving thread writes the `Attached` answer.
WriteAttached(c) ==
  /\ IsUp
  /\ writer[c].pc = "accepted"
  /\ GoTo(c, "greeted")
  /\ UNCHANGED <<dispatcherVars, inbox, link, reader, isLinkLost, isLinkUp, client>>

\* `stream_events`: the writing thread is counted and starts, and this thread
\* reads.
StartStream(c) ==
  /\ IsUp
  /\ writer[c].pc = "greeted"
  /\ GoTo(c, "top")
  /\ reader' = [reader EXCEPT ![c] = "reading"]
  /\ UNCHANGED <<dispatcherVars, inbox, link, isLinkLost, isLinkUp, client>>

\* The network or the client's process fails.
LinkBreaks(c) ==
  /\ IsUp
  /\ "breakLink" \in Inputs
  /\ isLinkUp[c]
  /\ isLinkUp' = [isLinkUp EXCEPT ![c] = FALSE]
  /\ UNCHANGED <<dispatcherVars, inbox, link, writer, reader, isLinkLost, client>>

\* A failed read: the flag is set before the detach is handed over.
ReadFails(c) ==
  /\ IsUp
  /\ reader[c] \in {"reading", "closed"}
  /\ reader[c] = "reading" => ~isLinkUp[c]
  /\ isLinkLost' = [isLinkLost EXCEPT ![c] = TRUE]
  /\ reader' = [reader EXCEPT ![c] = "left"]
  /\ UNCHANGED <<dispatcherVars, inbox, link, writer, isLinkUp, client>>

\* The client sends `Leaving`: it reads nothing more.
ReadLeaving(c) ==
  /\ IsUp
  /\ "leave" \in Inputs
  /\ reader[c] = "reading" /\ isLinkUp[c]
  /\ reader' = [reader EXCEPT ![c] = "left"]
  /\ UNCHANGED <<dispatcherVars, inbox, link, writer, isLinkLost, isLinkUp, client>>

\* The end of the reading loop hands over `ClientDetached`.
HandOverDetach(c) ==
  /\ IsUp
  /\ reader[c] = "left"
  /\ reader' = [reader EXCEPT ![c] = "ended"]
  /\ inbox' = inbox \cup {<<"detached", c>>}
  /\ UNCHANGED <<dispatcherVars, link, writer, isLinkLost, isLinkUp, client>>

\* The client painted update n, or reports one that was not sent; the newest
\* report waits for the writing thread and wakes it.
ReportPainted(c, n) ==
  /\ IsUp
  /\ reader[c] = "reading" /\ isLinkUp[c]
  /\ \/ n \in writer[c].lastPainted + 1 .. writer[c].lastSent /\ n > link[c].report
     \/ n = writer[c].lastSent + 1 /\ "unsentReport" \in Inputs /\ n > link[c].report
  /\ link' = [link EXCEPT ![c].report = n, ![c].isWaiting = FALSE]
  /\ UNCHANGED <<dispatcherVars, inbox, writer, reader, isLinkLost, isLinkUp, client>>

\* A write reaches the client on a link that is up.  On one that is down it
\* fails, or its bytes are lost.
Write(c, after, next) ==
  \/ /\ client' = IF isLinkUp[c] THEN [client EXCEPT ![c] = after] ELSE client
     /\ writer' = [writer EXCEPT ![c] = next]
  \/ /\ ~isLinkUp[c]
     /\ writer' = [writer EXCEPT ![c].pc = "closing", ![c].shouldCloseReader = TRUE]
     /\ UNCHANGED client

\* The top of a turn while the session serves: the waiting host writes go out,
\* and the paint window decides whether the next frame may.
\* `can_send_update`: with updates in flight and one report read, the bytes in
\* flight decide, either way.
StartTurn(c) ==
  /\ IsUp
  /\ writer[c].pc = "top"
  /\ notice = "none"
  /\ \E isAllowed \in BOOLEAN :
       /\ writer[c].lastPainted = writer[c].lastSent => isAllowed
       /\ writer[c].lastPainted # writer[c].lastSent /\ ~writer[c].hasPaintReport
            => ~isAllowed
       /\ LET next == [writer[c] EXCEPT !.pc = "receive", !.isFrameAllowed = isAllowed]
          IN IF link[c].hostWrites = <<>>
             THEN writer' = [writer EXCEPT ![c] = next] /\ UNCHANGED client
             ELSE Write(c, client[c], next)
  /\ link' = [link EXCEPT ![c].hostWrites = <<>>]
  /\ UNCHANGED <<dispatcherVars, inbox, reader, isLinkLost, isLinkUp>>

\* Mutant of DrainForEnding: the requests on the queue go with the rest.
DrainEverything(c) ==
  /\ IsUp
  /\ writer[c].pc = "top"
  /\ notice # "none"
  /\ link' = [link EXCEPT ![c].queue = <<>>]
  /\ writer' = [writer EXCEPT ![c].requests = 0,
                  ![c].pc = IF link[c].state = "gone" THEN "goodbye" ELSE "farewell"]
  /\ UNCHANGED <<dispatcherVars, inbox, reader, isLinkLost, isLinkUp, client>>

\* The top of a turn once the notice is raised: the queue is drained, and the
\* requests on it are kept.
DrainForEnding(c) ==
  /\ IsUp
  /\ writer[c].pc = "top"
  /\ notice # "none"
  /\ link' = [link EXCEPT ![c].queue = <<>>]
  /\ writer' = [writer EXCEPT ![c].requests = RequestCount(link[c].queue),
                  ![c].pc = IF link[c].state = "gone" THEN "goodbye" ELSE "farewell"]
  /\ UNCHANGED <<dispatcherVars, inbox, reader, isLinkLost, isLinkUp, client>>

\* The waiting host writes, the requests, then the frame the notice names.
\* A failed write ends the loop without closing the read direction.
WriteFarewell(c) ==
  /\ IsUp
  /\ writer[c].pc = "farewell"
  /\ link' = [link EXCEPT ![c].hostWrites = <<>>]
  /\ client' = IF isLinkUp[c]
               THEN [client EXCEPT ![c].ending = notice,
                                   ![c].requests = @ + writer[c].requests]
               ELSE client
  /\ GoTo(c, "closing")
  /\ UNCHANGED <<dispatcherVars, inbox, reader, isLinkLost, isLinkUp>>

\* The server closed the queue: `Detached`, or nothing after a failed read.
WriteGoodbye(c) ==
  /\ IsUp
  /\ writer[c].pc = "goodbye"
  /\ link' = [link EXCEPT ![c].hostWrites = IF isLinkLost[c] THEN @ ELSE <<>>]
  /\ client' = IF isLinkUp[c] /\ ~isLinkLost[c]
               THEN [client EXCEPT ![c].ending = "Detached",
                                   ![c].requests = @ + writer[c].requests]
               ELSE client
  /\ GoTo(c, "closing")
  /\ UNCHANGED <<dispatcherVars, inbox, reader, isLinkLost, isLinkUp>>

\* `recv_paced`, first: a paint report is taken.  Updates up to it leave the
\* flight; a report of an update that was not sent ends the connection.
ReceiveReport(c) ==
  LET n == link[c].report
      w == writer[c] IN
  /\ IsUp
  /\ w.pc = "receive" /\ ~link[c].isWaiting
  /\ n > 0
  /\ link' = [link EXCEPT ![c].report = 0]
  /\ writer' = [writer EXCEPT ![c] =
                  IF n > w.lastSent
                  THEN [w EXCEPT !.pc = "closing", !.shouldCloseReader = TRUE]
                  ELSE [w EXCEPT !.pc = "top", !.isFrameAllowed = TRUE,
                                 !.lastPainted = IF n > @ THEN n ELSE @,
                                 !.hasPaintReport = @ \/ n > w.lastPainted]]
  /\ UNCHANGED <<dispatcherVars, inbox, reader, isLinkLost, isLinkUp, client>>

IsHeadHeld(c) ==
  /\ link[c].queue # <<>>
  /\ IsFrameDelivery(Head(link[c].queue))
  /\ ~writer[c].isFrameAllowed
  /\ link[c].state # "gone"

\* Then the rest of `recv_paced`, in its order: the raised notice, the head of
\* the queue unless it is held, an empty queue that is closed, or the wait.
ReceiveDelivery(c) ==
  LET b == link[c] IN
  /\ IsUp
  /\ writer[c].pc = "receive" /\ ~b.isWaiting
  /\ b.report = 0
  /\ IF notice # "none"
     THEN GoTo(c, "top") /\ UNCHANGED link
     ELSE IF b.queue # <<>> /\ ~IsHeadHeld(c)
     THEN /\ writer' = [writer EXCEPT ![c].pc = "took", ![c].taken = Head(b.queue),
                                      ![c].isFrameAllowed = TRUE]
          /\ link' = [link EXCEPT ![c].queue = Tail(@)]
     ELSE IF b.queue = <<>> /\ b.state = "gone"
     THEN /\ writer' = [writer EXCEPT ![c].pc = "goodbye", ![c].requests = 0,
                                      ![c].isFrameAllowed = TRUE]
          /\ UNCHANGED link
     ELSE /\ link' = [link EXCEPT ![c].isWaiting = TRUE]
          /\ UNCHANGED writer
  /\ UNCHANGED <<dispatcherVars, inbox, reader, isLinkLost, isLinkUp, client>>

\* No frame went out for the heartbeat interval: the wait ends, and the
\* `Pong` is written.
WritePong(c) ==
  /\ IsUp
  /\ "pong" \in Inputs
  /\ writer[c].pc = "receive"
  /\ Write(c, client[c], [writer[c] EXCEPT !.pc = "top"])
  /\ link' = [link EXCEPT ![c].isWaiting = FALSE]
  /\ UNCHANGED <<dispatcherVars, inbox, reader, isLinkLost, isLinkUp>>

\* Mutant of TakeOwedMark: the mark is taken and nobody is told.
TakeOwedMarkSilently(c) ==
  /\ IsUp
  /\ writer[c].pc = "took"
  /\ link' = [link EXCEPT ![c].isFrameOwed = FALSE]
  /\ GoTo(c, IF writer[c].taken.kind = "HostWrite" THEN "woken" ELSE "write")
  /\ UNCHANGED <<dispatcherVars, inbox, reader, isLinkLost, isLinkUp, client>>

\* After each delivery it reads, the writing thread takes the owed-frame mark
\* and hands over `QueueRoomFreed` for it.
TakeOwedMark(c) ==
  /\ IsUp
  /\ writer[c].pc = "took"
  /\ link' = [link EXCEPT ![c].isFrameOwed = FALSE]
  /\ inbox' = IF link[c].isFrameOwed THEN inbox \cup {<<"roomFreed", c>>} ELSE inbox
  /\ GoTo(c, IF writer[c].taken.kind = "HostWrite" THEN "woken" ELSE "write")
  /\ UNCHANGED <<dispatcherVars, reader, isLinkLost, isLinkUp, client>>

\* The wake is read: the next host write queues a new one, and the next turn
\* writes what waits.
ClearQueuedWake(c) ==
  /\ IsUp
  /\ writer[c].pc = "woken"
  /\ link' = [link EXCEPT ![c].isWakeQueued = FALSE]
  /\ writer' = [writer EXCEPT ![c].pc = "top", ![c].taken = Plain("None")]
  /\ UNCHANGED <<dispatcherVars, inbox, reader, isLinkLost, isLinkUp, client>>

\* What the client holds once it read the delivery `d`.
AfterFrame(k, v) ==
  [k EXCEPT !.shown = v, !.hasGoneBack = @ \/ v < k.shown]

AfterDelivery(k, d) ==
  CASE d.kind = "Frame" -> AfterFrame(k, d.view)
    [] d.kind = "Snapshot" ->
         [AfterFrame(k, d.view) EXCEPT
            !.seen = d.event,
            !.hasGap = @ \/ d.event < k.seen,
            !.rejections = @ + RepeatCount(d.held),
            !.droppedRuns = @ + d.droppedRuns]
    [] d.kind = "Event" ->
         [k EXCEPT !.seen = d.event, !.hasGap = @ \/ d.event # k.seen + 1]
    [] d.kind = "Rejection" -> [k EXCEPT !.rejections = @ + 1]
    [] d.kind = "Request" -> [k EXCEPT !.requests = @ + 1]
    [] OTHER -> k

\* The delivery goes out.  A frame or a snapshot of the view that was sent
\* last sends no update; every other one is an update in flight.
WriteDelivery(c) ==
  LET d == writer[c].taken
      isUpdate == IsFrameDelivery(d) /\ d.view # writer[c].lastView
      next == [writer[c] EXCEPT !.pc = "top", !.taken = Plain("None"),
                                !.lastView = IF isUpdate THEN d.view ELSE @,
                                !.lastSent = IF isUpdate THEN @ + 1 ELSE @] IN
  /\ IsUp
  /\ writer[c].pc = "write"
  /\ Write(c, AfterDelivery(client[c], d), next)
  /\ UNCHANGED <<dispatcherVars, inbox, link, reader, isLinkLost, isLinkUp>>

\* The end of the thread: its receiver goes first, with what is still queued.
DropReceiver(c) ==
  /\ IsUp
  /\ writer[c].pc = "closing"
  /\ link' = [link EXCEPT ![c].isReceiverClosed = TRUE, ![c].queue = <<>>]
  /\ GoTo(c, "dropped")
  /\ UNCHANGED <<dispatcherVars, inbox, reader, isLinkLost, isLinkUp, client>>

\* Then the wake flag is cleared, the read direction is closed after a failed
\* write, and the thread is counted as ended.
EndWriter(c) ==
  /\ IsUp
  /\ writer[c].pc = "dropped"
  /\ link' = [link EXCEPT ![c].isWakeQueued = FALSE]
  /\ reader' = [reader EXCEPT ![c] =
                  IF writer[c].shouldCloseReader /\ @ = "reading" THEN "closed" ELSE @]
  /\ GoTo(c, "ended")
  /\ UNCHANGED <<dispatcherVars, inbox, isLinkLost, isLinkUp, client>>
-----------------------------------------------------------------------------
(* Specification *)

DispatcherStep ==
  \/ WakeForFrame \/ FinishHandling \/ ResyncLagged \/ PushFrames \/ Announce
  \/ \E e \in inbox : HandleInbox(e)
  \/ \E c \in Clients : SwapHostWake(c) \/ SendHostWake(c) \/ ClearHostWake(c)

SessionInput ==
  \/ ChangeView \/ PublishEvent \/ CloseLastTab
  \/ \E e \in Endings : AskEnding(e)
  \/ \E c \in Clients :
       \/ AcceptAttach(c) \/ SendAnswer(c) \/ SendClientActionRequest(c)
       \/ DetachClient(c)
       \/ \E a \in RejectedActions : RejectCommand(c, a)
       \/ \E t \in Targets : AddHostWrite(c, t)

WriterStep(c) ==
  \/ WriteAttached(c) \/ StartStream(c) \/ StartTurn(c) \/ DrainForEnding(c)
  \/ WriteFarewell(c) \/ WriteGoodbye(c) \/ ReceiveReport(c)
  \/ ReceiveDelivery(c) \/ TakeOwedMark(c) \/ ClearQueuedWake(c)
  \/ WriteDelivery(c) \/ DropReceiver(c) \/ EndWriter(c)

ReaderStep(c) == ReadFails(c) \/ HandOverDetach(c)

Next ==
  \/ DispatcherStep \/ SessionInput \/ EndAwait \/ GiveUpAwait
  \/ \E c \in Clients :
       \/ WriterStep(c) \/ ReaderStep(c) \/ WritePong(c) \/ PaceOpens(c)
       \/ LinkBreaks(c) \/ ReadLeaving(c)
       \/ \E n \in 1 .. writer[c].lastSent + 1 : ReportPainted(c, n)

Spec == Init /\ [][Next]_vars

\* The dispatcher and the threads of a connection keep running, time passes,
\* and a client that stays reads what is written to it.
ReadingFairness ==
  /\ WF_vars(DispatcherStep)
  /\ WF_vars(EndAwait)
  /\ \A c \in Clients :
       /\ WF_vars(WriterStep(c))
       /\ WF_vars(ReaderStep(c))
       /\ WF_vars(PaceOpens(c))

ReadingSpec == Spec /\ ReadingFairness

\* What a client that also paints, and reports what it painted, adds.
PaintingFairness ==
  \A c \in Clients : WF_vars(ReportPainted(c, writer[c].lastSent))

-----------------------------------------------------------------------------
(* Properties *)

WriterPcs ==
  {"none", "accepted", "greeted", "top", "receive", "took", "woken", "write",
   "farewell", "goodbye", "closing", "dropped", "ended"}

IsStreaming(c) ==
  /\ IsSubscribed(link[c])
  /\ notice = "none"
  /\ writer[c].pc \in {"top", "receive", "took", "woken", "write"}

\* Every variable has its type, the queue holds its capacity at most
\* (delivery_queue.rs `capacity`), and at most the limit of rejection runs is
\* held (bus.rs `MAX_HELD_COMMAND_REJECTION_COUNT`).
TypeOK ==
  /\ view \in 1 .. MaxInputs + 1
  /\ revision \in 0 .. MaxInputs
  /\ inputCount \in 0 .. MaxInputs
  /\ dispatcher.asked \in Endings \cup {"none"}
  /\ dispatcher.hostClient \subseteq Clients
  /\ inbox \subseteq {"roomFreed", "detached"} \X Clients
  /\ notice \in Endings \cup {"none"}
  /\ pace \in [Clients -> [hasViewChange : BOOLEAN, isOpen : BOOLEAN]]
  /\ reader \in [Clients -> {"none", "reading", "closed", "left", "ended"}]
  /\ isLinkLost \in [Clients -> BOOLEAN]
  /\ isLinkUp \in [Clients -> BOOLEAN]
  /\ \A c \in Clients :
       /\ link[c].state \in {"none", "Live", "Desynced", "gone"}
       /\ Len(link[c].queue) <= Capacity
       /\ \A i \in DOMAIN link[c].queue :
            link[c].queue[i] \in Deliveries \/ IsSnapshot(link[c].queue[i])
       /\ Len(link[c].held) <= MaxHeldRejections
       /\ link[c].state = "Live" => link[c].held = <<>> /\ link[c].dropped = 0
       /\ writer[c].pc \in WriterPcs
       /\ writer[c].lastPainted <= writer[c].lastSent
       /\ client[c].ending \in Endings \cup {"none", "Detached"}

\* The deliveries on their way to the client, oldest first: the one its
\* writing thread took off the queue, and the queue.
Taken(c) == IF writer[c].pc \in {"took", "write"} THEN writer[c].taken ELSE Plain("None")
OnWay(c) == <<Taken(c)>> \o link[c].queue

\* The view the client holds once everything on its way was written.
NewestView(c) ==
  LET frames == {i \in DOMAIN OnWay(c) : IsFrameDelivery(OnWay(c)[i])} IN
  IF frames = {} THEN writer[c].lastView
  ELSE OnWay(c)[CHOOSE i \in frames : \A j \in frames : j <= i].view

\* While the dispatcher sleeps, no client is forgotten (server.rs
\* `resync_lagged` and `push_frames`): a client owed a frame has a delivery left
\* to read, whose reading wakes the dispatcher; a paused client is owed a
\* frame or its wake is in the inbox; and a client with no view change is on
\* its way to the current view.
NoFrameIsForgotten ==
  dispatcher.pc = "wait" =>
    \A c \in Clients : IsStreaming(c) =>
      /\ link[c].isFrameOwed => link[c].queue # <<>> \/ writer[c].pc = "took"
      /\ link[c].state = "Desynced" =>
           link[c].isFrameOwed \/ <<"roomFreed", c>> \in inbox
      /\ link[c].state = "Live" /\ ~pace[c].hasViewChange => NewestView(c) = view

\* A client reads the events for every client without a gap, except that a
\* resync replaces the ones it missed, and no frame takes it back to an older
\* view (bus.rs `deliver_to_every_subscriber`, `try_resync`,
\* delivery_queue.rs `try_send_frame`).
StreamIsContinuous ==
  \A c \in Clients : ~client[c].hasGap /\ ~client[c].hasGoneBack

\* The rejections a delivery tells the client of, and the runs of them it
\* says were dropped.
RejectionsIn(d) ==
  CASE d.kind = "Rejection" -> 1
    [] d.kind = "Snapshot" -> RepeatCount(d.held)
    [] OTHER -> 0
RunsDroppedIn(d) == IF d.kind = "Snapshot" THEN d.droppedRuns ELSE 0

RejectionsOnWay(c) == Total([i \in DOMAIN OnWay(c) |-> RejectionsIn(OnWay(c)[i])])
RunsDroppedOnWay(c) == Total([i \in DOMAIN OnWay(c) |-> RunsDroppedIn(OnWay(c)[i])])

\* No rejection of a client's command is lost without being counted: what was
\* rejected is what the client read, what is on its way and what is held,
\* and whatever is missing belongs to runs that are counted as dropped
\* (bus.rs `send_command_rejection`, `hold_command_rejection`).
RejectionsAreAccounted ==
  \A c \in Clients : IsStreaming(c) /\ isLinkUp[c] =>
    LET missing == sent[c].rejections - client[c].rejections - RejectionsOnWay(c)
                     - RepeatCount(link[c].held)
        runs == client[c].droppedRuns + RunsDroppedOnWay(c) + link[c].droppedRuns
    IN missing >= runs /\ (runs = 0 => missing = 0)

\* Every viewer action request the session accepted before the end is read by
\* a client ahead of its last frame (ipc_server.rs `stream_events`, server.rs
\* `announce_restarting`).
RequestsPrecedeEnding ==
  \A c \in Clients :
    client[c].ending # "none" => client[c].requests >= sent[c].requests

HasLeft(c) ==
  ~IsSubscribed(link[c]) \/ ~isLinkUp[c] \/ reader[c] \in {"left", "ended"}
    \/ writer[c].shouldCloseReader

\* A client that stays and paints is shown the current view and every event
\* again and again, however often its queue was full (server.rs
\* `resync_lagged`, `push_frames`; ipc_server/paint_window.rs `can_send_update`).
ClientCatchesUp ==
  \A c \in Clients :
    []<>((client[c].shown = view /\ client[c].seen = revision) \/ HasLeft(c)
           \/ notice # "none" \/ ~IsUp)

\* A host write that waits goes out (bus.rs `queue_host_write`).
HostWritesGoOut ==
  \A c \in Clients : []<>(link[c].hostWrites = <<>> \/ HasLeft(c) \/ ~IsUp)

\* A connection whose writing thread gave up is detached from the session
\* (ipc_server.rs: the read direction is closed, and the reading loop hands
\* over the detach).
BrokenClientIsDetached ==
  \A c \in Clients :
    writer[c].shouldCloseReader ~> (link[c].state = "gone" \/ ~IsUp)

\* Once the session's end is announced, every client whose stream started and
\* that keeps reading is told, unless the wait gave up (event.rs
\* `EndingNotice`, delivery_queue.rs `wake_receiver`).
EveryClientIsTold ==
  \A c \in Clients :
    (notice # "none" /\ writer[c].pc \in {"top", "receive"})
      ~> (client[c].ending # "none" \/ HasLeft(c) \/ ~IsUp)

\* A stream whose queue the server closed ends, although the client paints
\* nothing more and frames are held for its reports (delivery_queue.rs
\* `recv_paced`: a held frame goes once the sender is gone).
ClosedStreamEnds ==
  \A c \in Clients :
    link[c].state = "gone" ~> (writer[c].pc = "ended" \/ ~IsUp)

\* The queue, the held rejections and what the client has read add up.
QueueIsConsistent == TypeOK /\ RejectionsAreAccounted

\* A client that reads and paints gets what the session has for it, and one
\* whose connection its writer gave up is let go, whether it paints or not.
ClientsAreServed ==
  /\ PaintingFairness => ClientCatchesUp /\ HostWritesGoOut
  /\ BrokenClientIsDetached

\* Every stream comes to its end, by the session's end or by its own, although
\* the client paints nothing more.
EndingsComplete == EveryClientIsTold /\ ClosedStreamEnds
=============================================================================
