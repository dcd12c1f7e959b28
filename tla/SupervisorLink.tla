--------------------------- MODULE SupervisorLink ---------------------------
(***************************************************************************)
(* The panes of a session on Windows live in a process of their own, the   *)
(* supervisor (koshi-daemon/src/pty_supervisor.rs), which outlives the     *)
(* images of the session server.  Each image links to it                   *)
(* (koshi-pty/src/supervisor.rs, `SupervisorPtyBackend`), drives the panes *)
(* with requests and gets their output and exits back on the same link.    *)
(*                                                                         *)
(* A link is numbered by its generation.  It carries two FIFO queues of    *)
(* frames.  Each critical section of the code is one action; a send that   *)
(* waits on `link_state_changed` is "parked" until something notifies it.  *)
(* Output is counted in units; one frame carries up to a window of them.   *)
(***************************************************************************)
EXTENDS Integers, Sequences, SequencesExt, FiniteSets

CONSTANTS
  Panes,         \* the pane ids of the session
  Window,        \* PANE_OUTPUT_WINDOW_BYTE_COUNT
  MinGrant,      \* MINIMUM_OUTPUT_GRANT_BYTE_COUNT
  ChunkSizes,    \* the lengths of the chunks a pane's reader brings
  PrintLimit,    \* bound: the units one pane's child prints
  LinkLimit,     \* bound: the links opened
  BreakLimit,    \* bound: the links that break on their own
  SwapLimit,     \* bound: the image swaps started
  Versions,      \* what a Hello may settle on: "whole", "window"
  RecordsAtOnce, \* whether an exit is recorded before the next link is taken
  NoPane         \* no pane

ASSUME WindowAssumption ==
  /\ Window \in Nat \ {0}
  /\ MinGrant \in 1 .. Window
  /\ ChunkSizes \subseteq Nat \ {0}
  /\ PrintLimit \in Nat
  /\ LinkLimit \in Nat \ {0}

ASSUME PaneAssumption == NoPane \notin Panes

VARIABLES
  supPc,         \* where the supervisor's loop is
  hasWriter,     \* `LinkState::frame_writer` is Some
  generation,    \* `LinkState::link_generation`
  version,       \* `LinkState::link_protocol_version`, or "none"
  credit,        \* `LinkState::output_credit_by_pane_id`
  isPaused,      \* `LinkState::is_paused`
  closingPanes,  \* `LinkState::closing_pane_ids`
  endedPanes,    \* `LinkState::ended_pane_ids`
  isClosing,     \* `LinkState::is_closing`
  held,          \* the panes the supervisor's backend holds
  running,       \* the panes whose child runs
  readerPc,      \* where each pane's reader is in the supervisor
  unsent,        \* units of the chunk a reader's send still carries
  taken,         \* units read off each pane's terminal
  exitPc,        \* where each pane's exit is in the supervisor
  kills,         \* the kill threads of the supervisor
  link,          \* each link's state and the frames on it, both ways
  imagePc,       \* where the session server's image is
  live,          \* the panes of the session
  driven,        \* `LinkBook::live_pane_by_id`
  ungranted,     \* `LivePane::ungranted_output_byte_count`
  unparsed,      \* units handed to the sink and not parsed yet
  listed,        \* the panes the answer to ListPanes named
  toKill,        \* the panes the reconciliation still kills
  exitsAtConnect,\* `exit_status_by_pane_id_during_connect`
  isReconciled,  \* the exits were taken: that book is None
  rejected,      \* `output_rejected_pane_ids` of the link reader
  exited,        \* `exited_pane_ids` of the link reader
  isClosed,      \* `link_close_cause` is Some
  answered,      \* the answer to the image's request has arrived
  killWaits,     \* panes whose `kill_pane` waits for its answer
  killDone,      \* panes whose `kill_pane` returned Done
  spawning,      \* the pane `spawn_pane` is opening
  fed,           \* units of each pane the session took
  told,          \* the exit the session was told of: "none", "real", "lost"
  torn,          \* panes that lost frames with a link that broke
  breaks,        \* links that broke so far
  swaps          \* image swaps started so far

sinkVars == <<hasWriter, generation, version, credit, isPaused, closingPanes,
              endedPanes, isClosing>>
paneVars == <<held, running, readerPc, unsent, taken, exitPc>>
bookVars == <<driven, ungranted, exitsAtConnect, isReconciled, rejected, exited, isClosed>>
imageVars == <<imagePc, listed, toKill, answered, killWaits, killDone>>

sessionVars == <<live, spawning, unparsed, fed, told, torn>>
faultVars == <<breaks, swaps>>
vars == <<supPc, sinkVars, paneVars, kills, link, bookVars, imageVars, sessionVars,
          faultVars>>

-----------------------------------------------------------------------------
(* State *)

Request(kind, p, n) == [kind |-> kind, pane |-> p, count |-> n]
Output(p, from, n) == [kind |-> "output", pane |-> p, from |-> from, count |-> n]
Exited(p) == [kind |-> "exited", pane |-> p]
Answer(of, p, g, panes) ==
  [kind |-> "answer", of |-> of, pane |-> p, gen |-> g, panes |-> panes,
   version |-> version]

Unopened == [state |-> "none", version |-> "none", toSup |-> <<>>, toImage |-> <<>>]

\* The link of the current image is the newest one.
Links == {g \in 1 .. LinkLimit : link[g].state # "none"}
Newest == CHOOSE g \in Links : \A h \in Links : h <= g

Least(a, b) == IF a <= b THEN a ELSE b

\* The frame `frame` goes out towards the image on the supervisor's link.
Sent(frame) == [link EXCEPT ![generation].toImage = Append(@, frame)]
\* The image writes `frame` on its link; a link that is down takes nothing.
Asked(frame) ==
  IF link[Newest].state = "down" THEN link
  ELSE [link EXCEPT ![Newest].toSup = Append(@, frame)]

Init ==
  /\ supPc = "serve"
  /\ hasWriter = TRUE
  /\ generation = 1
  /\ version \in Versions
  /\ credit = [p \in Panes |-> Window]
  /\ isPaused = FALSE
  /\ closingPanes = {}
  /\ endedPanes = {}
  /\ isClosing = FALSE
  /\ held = {}
  /\ running = {}
  /\ readerPc = [p \in Panes |-> "none"]
  /\ unsent = [p \in Panes |-> 0]
  /\ taken = [p \in Panes |-> 0]
  /\ exitPc = [p \in Panes |-> "none"]
  /\ kills = {}
  /\ link = [g \in 1 .. LinkLimit |-> IF g = 1
                                      THEN [Unopened EXCEPT !.state = "up",
                                                            !.version = version]
                                      ELSE Unopened]
  /\ imagePc = "run"
  /\ live = {}
  /\ driven = {}
  /\ ungranted = [p \in Panes |-> 0]
  /\ unparsed = [p \in Panes |-> 0]
  /\ listed = {}
  /\ toKill = {}
  /\ exitsAtConnect = {}
  /\ isReconciled = TRUE
  /\ rejected = {}
  /\ exited = {}
  /\ isClosed = FALSE
  /\ answered = FALSE
  /\ killWaits = {}
  /\ killDone = {}
  /\ spawning = NoPane
  /\ fed = [p \in Panes |-> 0]
  /\ told = [p \in Panes |-> "none"]
  /\ torn = {}
  /\ breaks = 0
  /\ swaps = 0

-----------------------------------------------------------------------------
(* The panes in the supervisor *)

\* `link_state_changed.notify_all`: every parked send tries again.
Woken(pcs) == [p \in Panes |-> IF pcs[p] = "parked" THEN "send" ELSE pcs[p]]
NotifyAll == readerPc' = Woken(readerPc) /\ exitPc' = Woken(exitPc)

\* The reader brings a chunk and enters `send_output`.
ReaderReads(p) ==
  /\ readerPc[p] = "read"
  /\ \E n \in ChunkSizes :
       /\ taken[p] + n <= PrintLimit
       /\ taken' = [taken EXCEPT ![p] = @ + n]
       /\ unsent' = [unsent EXCEPT ![p] = n]
  /\ readerPc' = [readerPc EXCEPT ![p] = "send"]
  /\ UNCHANGED <<supPc, sinkVars, held, running, exitPc, kills, link, bookVars, imageVars,
                 sessionVars, faultVars>>

\* The child ends, on its own.
ChildEnds(p) ==
  /\ p \in running
  /\ running' = running \ {p}
  /\ UNCHANGED <<supPc, sinkVars, held, readerPc, unsent, taken, exitPc, kills, link,
                 bookVars, imageVars, sessionVars, faultVars>>

\* The terminal of an ended child is at its end; the pane's exit goes out.
ReaderEnds(p) ==
  /\ readerPc[p] \in {"read", "drain"}
  /\ p \notin running
  /\ readerPc' = [readerPc EXCEPT ![p] = "ended"]
  /\ exitPc' = [exitPc EXCEPT ![p] = "send"]
  /\ UNCHANGED <<supPc, sinkVars, held, running, unsent, taken, kills, link, bookVars,
                 imageVars, sessionVars, faultVars>>

GivesUp(p) == isClosing \/ p \in closingPanes

\* What `write_output_part` and `send_event` ask of the link before a write.
IsLinkOpen == version # "none" /\ ~isPaused /\ hasWriter

\* The units the next part of p's chunk carries.
PartCount(p) ==
  IF version = "whole" THEN unsent[p] ELSE Least(unsent[p], credit[p])

\* `send_output` gives a chunk up.
OutputGivesUp(p) ==
  /\ readerPc[p] = "send"
  /\ GivesUp(p)
  /\ unsent' = [unsent EXCEPT ![p] = 0]
  /\ readerPc' = [readerPc EXCEPT ![p] = "drain"]
  /\ UNCHANGED <<supPc, sinkVars, held, running, taken, exitPc, kills, link, bookVars,
                 imageVars, sessionVars, faultVars>>

\* `write_output_part` writes the next part.
WriteOutputPart(p) ==
  LET n == PartCount(p)
  IN /\ readerPc[p] = "send"
     /\ ~GivesUp(p)
     /\ IsLinkOpen
     /\ n > 0
     /\ link[generation].state = "up"
     /\ link' = Sent(Output(p, taken[p] - unsent[p], n))
     /\ credit' = IF version = "whole" THEN credit ELSE [credit EXCEPT ![p] = @ - n]
     /\ unsent' = [unsent EXCEPT ![p] = @ - n]
     /\ readerPc' = [readerPc EXCEPT ![p] = IF unsent[p] = n THEN "read" ELSE "send"]
     /\ UNCHANGED <<supPc, hasWriter, generation, version, isPaused, closingPanes,
                    endedPanes, isClosing, held, running, taken, exitPc, kills, bookVars,
                    imageVars, sessionVars, faultVars>>

\* `write_output_part` finds nothing to write to, or its write fails and drops
\* the link: the send waits.
OutputParks(p) ==
  /\ readerPc[p] = "send"
  /\ ~GivesUp(p)
  /\ \/ ~IsLinkOpen
     \/ PartCount(p) = 0
     \/ link[generation].state = "down"
  /\ hasWriter' = (hasWriter /\ ~(IsLinkOpen /\ PartCount(p) > 0))
  /\ readerPc' = [readerPc EXCEPT ![p] = "parked"]
  /\ UNCHANGED <<supPc, generation, version, credit, isPaused, closingPanes, endedPanes,
                 isClosing, held, running, unsent, taken, exitPc, kills, link, bookVars,
                 imageVars, sessionVars, faultVars>>

\* `send_event` with the pane's exit: it gives up, writes or waits.
SendExit(p) ==
  /\ exitPc[p] = "send"
  /\ CASE GivesUp(p) ->
            /\ exitPc' = [exitPc EXCEPT ![p] = "done"]
            /\ UNCHANGED <<hasWriter, link>>
       [] ~GivesUp(p) /\ IsLinkOpen /\ link[generation].state = "up" ->
            /\ link' = Sent(Exited(p))
            /\ exitPc' = [exitPc EXCEPT ![p] = "record"]
            /\ UNCHANGED hasWriter
       [] OTHER ->
            /\ hasWriter' = (hasWriter /\ ~IsLinkOpen)
            /\ exitPc' = [exitPc EXCEPT ![p] = "parked"]
            /\ UNCHANGED link
  /\ UNCHANGED <<supPc, generation, version, credit, isPaused, closingPanes, endedPanes,
                 isClosing, held, running, readerPc, unsent, taken, kills, bookVars,
                 imageVars, sessionVars, faultVars>>

\* `accept_exit_status` records the pane under a second lock.
RecordExit(p) ==
  /\ exitPc[p] = "record"
  /\ exitPc' = [exitPc EXCEPT ![p] = "done"]
  /\ endedPanes' = endedPanes \cup {p}
  /\ UNCHANGED <<supPc, hasWriter, generation, version, credit, isPaused, closingPanes,
                 isClosing, held, running, readerPc, unsent, taken, kills, link, bookVars,
                 imageVars, sessionVars, faultVars>>

PaneStep(p) ==
  \/ ReaderReads(p) \/ ReaderEnds(p)
  \/ OutputGivesUp(p) \/ WriteOutputPart(p) \/ OutputParks(p)
  \/ SendExit(p) \/ RecordExit(p)

-----------------------------------------------------------------------------
(* The supervisor's loop *)

\* `clear_link`, after `serve_supervisor_link` ended.
ClearLink == hasWriter' = FALSE /\ version' = "none"

\* The loop takes the next connection: `set_link_writer`.  `accept_exit_status`
\* locks twice, to write and to record; with RecordsAtOnce its second lock is
\* not put off until the next link is served.
AcceptLink ==
  /\ supPc = "accept"
  /\ generation + 1 \in Links
  /\ RecordsAtOnce => \A p \in Panes : exitPc[p] # "record"
  /\ hasWriter' = TRUE
  /\ generation' = generation + 1
  /\ version' = "none"
  /\ isPaused' = FALSE
  /\ credit' = [p \in Panes |-> Window]
  /\ link' = [link EXCEPT ![generation + 1].state = IF @ = "queued" THEN "up" ELSE @]
  /\ supPc' = "serve"
  /\ UNCHANGED <<closingPanes, endedPanes, isClosing, paneVars, kills, bookVars, imageVars,
                 sessionVars, faultVars>>

IsLinking ==
  imagePc \in {"connect", "hello", "list", "killUnknown", "killing", "killEnded", "killingEnded"}

\* No link came for SUPERVISOR_IDLE_EXIT_DURATION, which is longer than an
\* image tries to link and than a reader takes to see the end of its link.
IdleExit ==
  /\ supPc = "accept"
  /\ generation + 1 \notin Links
  /\ imagePc = "gone" \/ (isClosed /\ ~IsLinking /\ spawning = NoPane)
  /\ supPc' = "closing"
  /\ UNCHANGED <<sinkVars, paneVars, kills, link, bookVars, imageVars, sessionVars, faultVars>>

Asks(kind) ==
  /\ supPc = "serve"
  /\ link[generation].toSup # <<>>
  /\ Head(link[generation].toSup).kind = kind
AskedPane == Head(link[generation].toSup).pane
Consumed == [link EXCEPT ![generation].toSup = Tail(@)]

\* The response to the request just served, and what follows a link that did
\* not take it.
RespondWith(frame, then) ==
  IF link[generation].state = "up" /\ hasWriter
  THEN /\ link' = [Consumed EXCEPT ![generation].toImage = Append(@, frame)]
       /\ supPc' = then
  ELSE link' = Consumed /\ supPc' = "broken"

\* An accepted Hello: `mark_link_open`, then the response.
ServeHello ==
  /\ Asks("hello")
  /\ version' \in Versions
  /\ NotifyAll
  /\ RespondWith([Answer("hello", NoPane, generation, {}) EXCEPT !.version = version'],
                 "serve")
  /\ UNCHANGED <<hasWriter, generation, credit, isPaused, closingPanes, endedPanes, isClosing,
                 held, running, unsent, taken, kills, bookVars, imageVars, sessionVars,
                 faultVars>>

\* Mutant of ServeListPanes: a pane that ended is listed with the others.
ServeListPanesAll ==
  /\ Asks("list")
  /\ RespondWith(Answer("list", NoPane, generation, held), "serve")
  /\ UNCHANGED <<sinkVars, paneVars, kills, bookVars, imageVars, sessionVars, faultVars>>

\* ListPanes closes the panes whose exit was written, then names the others.
ServeListPanes ==
  /\ Asks("list")
  /\ closingPanes' = closingPanes \cup endedPanes
  /\ held' = held \ endedPanes
  /\ endedPanes' = {}
  /\ credit' = [p \in Panes |-> IF p \in endedPanes THEN Window ELSE credit[p]]
  /\ IF endedPanes = {} THEN UNCHANGED <<readerPc, exitPc>> ELSE NotifyAll
  /\ RespondWith(Answer("list", NoPane, generation, held'), "serve")
  /\ UNCHANGED <<hasWriter, generation, version, isPaused, isClosing, running, unsent, taken,
                 kills, bookVars, imageVars, sessionVars, faultVars>>

\* Spawn opens a pane.
ServeSpawn ==
  /\ Asks("spawn")
  /\ held' = held \cup {AskedPane}
  /\ running' = running \cup {AskedPane}
  /\ readerPc' = [readerPc EXCEPT ![AskedPane] = "read"]
  /\ RespondWith(Answer("spawn", AskedPane, generation, {}), "serve")
  /\ UNCHANGED <<sinkVars, unsent, taken, exitPc, kills, bookVars, imageVars, sessionVars,
                 faultVars>>

\* `grant_pane_output`.  Nothing answers it.
ServeGrant ==
  LET p == AskedPane
      n == Head(link[generation].toSup).count
  IN /\ Asks("grant")
     /\ IF p \in closingPanes THEN UNCHANGED <<credit, readerPc, exitPc>>
        ELSE /\ credit' = [credit EXCEPT ![p] = Least(@ + n, Window)]
             /\ NotifyAll
     /\ link' = Consumed
     /\ UNCHANGED <<supPc, hasWriter, generation, version, isPaused, closingPanes, endedPanes,
                    isClosing, held, running, unsent, taken, kills, bookVars, imageVars,
                    sessionVars, faultVars>>

\* Mutant of ServePause: the answer goes out and the output does too.
ServePauseUnheld ==
  /\ Asks("pause")
  /\ RespondWith(Answer("pause", NoPane, generation, {}), "serve")
  /\ UNCHANGED <<sinkVars, paneVars, kills, bookVars, imageVars, sessionVars, faultVars>>

\* PauseOutput and ResumeOutput.
ServePause ==
  /\ Asks("pause")
  /\ isPaused' = TRUE
  /\ RespondWith(Answer("pause", NoPane, generation, {}), "serve")
  /\ UNCHANGED <<hasWriter, generation, version, credit, closingPanes, endedPanes, isClosing,
                 paneVars, kills, bookVars, imageVars, sessionVars, faultVars>>

ServeResume ==
  /\ Asks("resume")
  /\ isPaused' = FALSE
  /\ NotifyAll
  /\ RespondWith(Answer("resume", NoPane, generation, {}), "serve")
  /\ UNCHANGED <<hasWriter, generation, version, credit, closingPanes, endedPanes, isClosing,
                 held, running, unsent, taken, kills, bookVars, imageVars, sessionVars,
                 faultVars>>

\* `start_pane_kill`: a thread of its own closes the pane and answers.
ServeKill ==
  /\ Asks("kill")
  /\ kills' = kills \cup {[pane |-> AskedPane, gen |-> generation, pc |-> "mark"]}
  /\ link' = Consumed
  /\ UNCHANGED <<supPc, sinkVars, paneVars, bookVars, imageVars, sessionVars, faultVars>>

ServeShutdown ==
  /\ Asks("shutdown")
  /\ RespondWith(Answer("shutdown", NoPane, generation, {}), "stop")
  /\ UNCHANGED <<sinkVars, paneVars, kills, bookVars, imageVars, sessionVars, faultVars>>

\* The peer hung up and every request it wrote was read, or a response found
\* no link.
LinkEnds ==
  /\ \/ supPc = "serve" /\ link[generation].state = "down" /\ link[generation].toSup = <<>>
     \/ supPc \in {"broken", "stop"}
  /\ ClearLink
  /\ link' = [link EXCEPT ![generation].state = "down"]
  /\ supPc' = IF supPc = "stop" THEN "closing" ELSE "accept"
  /\ UNCHANGED <<generation, credit, isPaused, closingPanes, endedPanes, isClosing, paneVars,
                 kills, bookVars, imageVars, sessionVars, faultVars>>

\* `close_pane` on a kill thread: the pane's sends are let go, its child is
\* ended, and its reader and its exit are waited for.
KillMark(k) ==
  /\ k.pc = "mark"
  /\ closingPanes' = closingPanes \cup {k.pane}
  /\ credit' = [credit EXCEPT ![k.pane] = Window]
  /\ NotifyAll
  /\ running' = running \ {k.pane}
  /\ kills' = (kills \ {k}) \cup {[k EXCEPT !.pc = "join"]}
  /\ UNCHANGED <<supPc, hasWriter, generation, version, isPaused, endedPanes, isClosing, held,
                 unsent, taken, link, bookVars, imageVars, sessionVars, faultVars>>

IsPaneOver(p) == p \notin held \/ (readerPc[p] = "ended" /\ exitPc[p] = "done")

KillJoin(k) ==
  /\ k.pc = "join"
  /\ IsPaneOver(k.pane)
  /\ held' = held \ {k.pane}
  /\ endedPanes' = endedPanes \ {k.pane}
  /\ kills' = (kills \ {k}) \cup {[k EXCEPT !.pc = "answer"]}
  /\ UNCHANGED <<supPc, hasWriter, generation, version, credit, isPaused, closingPanes,
                 isClosing, running, readerPc, unsent, taken, exitPc, link, bookVars, imageVars,
                 sessionVars, faultVars>>

\* Mutant of KillAnswer: the answer goes to whichever link is up.
KillAnswerAnyLink(k) ==
  /\ k.pc = "answer"
  /\ kills' = kills \ {k}
  /\ IF hasWriter /\ link[generation].state = "up"
     THEN link' = Sent(Answer("kill", k.pane, k.gen, {}))
     ELSE UNCHANGED link
  /\ UNCHANGED <<supPc, sinkVars, paneVars, bookVars, imageVars, sessionVars, faultVars>>

\* `send_response` of a kill thread, on the link its request arrived on.
KillAnswer(k) ==
  /\ k.pc = "answer"
  /\ kills' = kills \ {k}
  /\ IF k.gen = generation /\ hasWriter
     THEN IF link[generation].state = "up"
          THEN link' = Sent(Answer("kill", k.pane, k.gen, {})) /\ UNCHANGED hasWriter
          ELSE hasWriter' = FALSE /\ UNCHANGED link
     ELSE UNCHANGED <<hasWriter, link>>
  /\ UNCHANGED <<supPc, generation, version, credit, isPaused, closingPanes, endedPanes,
                 isClosing, paneVars, bookVars, imageVars, sessionVars, faultVars>>

\* Mutant of CloseSends: the sends stay parked while the panes are waited for.
CloseSendsParked ==
  /\ supPc = "closing"
  /\ supPc' = "joining"
  /\ UNCHANGED <<sinkVars, paneVars, kills, link, bookVars, imageVars, sessionVars, faultVars>>

\* `close_every_pane`: every send is ended, the kill threads are waited for,
\* and the panes left are closed.
CloseSends ==
  /\ supPc = "closing"
  /\ isClosing' = TRUE
  /\ NotifyAll
  /\ supPc' = "joining"
  /\ UNCHANGED <<hasWriter, generation, version, credit, isPaused, closingPanes, endedPanes,
                 held, running, unsent, taken, kills, link, bookVars, imageVars, sessionVars,
                 faultVars>>

CloseChildren ==
  /\ supPc = "joining"
  /\ kills = {}
  /\ running' = {}
  /\ supPc' = "ending"
  /\ UNCHANGED <<sinkVars, held, readerPc, unsent, taken, exitPc, kills, link, bookVars,
                 imageVars, sessionVars, faultVars>>

CloseDone ==
  /\ supPc = "ending"
  /\ \A p \in held : IsPaneOver(p)
  /\ held' = {}
  /\ supPc' = "gone"
  /\ link' = [g \in DOMAIN link |-> IF link[g].state = "none" THEN link[g]
                                    ELSE [link[g] EXCEPT !.state = "down"]]
  /\ UNCHANGED <<sinkVars, running, readerPc, unsent, taken, exitPc, kills, bookVars, imageVars,
                 sessionVars, faultVars>>

SupervisorStep ==
  \/ AcceptLink \/ IdleExit \/ LinkEnds
  \/ ServeHello \/ ServeListPanes \/ ServeSpawn \/ ServeGrant \/ ServePause \/ ServeResume
  \/ ServeKill \/ ServeShutdown
  \/ \E k \in kills : KillMark(k) \/ KillJoin(k) \/ KillAnswer(k)
  \/ CloseSends \/ CloseChildren \/ CloseDone

-----------------------------------------------------------------------------
(* The link reader of the session server's image *)

Frame == Head(link[Newest].toImage)
Read == [link EXCEPT ![Newest].toImage = Tail(@)]

HasFrame(kind) ==
  /\ imagePc \notin {"connect", "gone"}
  /\ ~isClosed
  /\ link[Newest].toImage # <<>>
  /\ Frame.kind = kind

\* The panes the session takes output and exits of: its own, and the one its
\* dispatcher is opening.
Wanted == live \cup {p \in Panes : p = spawning}

\* The session is told of an exit of p, `how`.
Told(panes, how) ==
  [p \in Panes |-> IF p \in panes \cap Wanted /\ told[p] = "none" THEN how ELSE told[p]]

\* The open panes with output on the image's link: a link that goes down with
\* its frames tears their streams.
PanesOnLink ==
  {p \in Wanted : told[p] = "none" /\
     \E i \in DOMAIN link[Newest].toImage :
       link[Newest].toImage[i].kind = "output" /\ link[Newest].toImage[i].pane = p}

\* A chunk goes to the sink, which refuses it for a pane that is gone.
ReadOutput ==
  LET p == Frame.pane
  IN /\ HasFrame("output")
     /\ link' = Read
     /\ IF p \in rejected \/ p \notin Wanted
        THEN rejected' = rejected \cup {p} /\ UNCHANGED <<fed, unparsed>>
        ELSE /\ fed' = [fed EXCEPT ![p] = Frame.from + Frame.count]
             /\ unparsed' = [unparsed EXCEPT ![p] = @ + Frame.count]
             /\ UNCHANGED rejected
     /\ UNCHANGED <<supPc, sinkVars, paneVars, kills, driven, ungranted, exitsAtConnect,
                    isReconciled, exited, isClosed, imageVars, live, spawning, told, torn, faultVars>>

\* An exit goes to the sink once, and into the book while the panes are not
\* reconciled.
ReadExited ==
  LET p == Frame.pane
  IN /\ HasFrame("exited")
     /\ link' = Read
     /\ exitsAtConnect' = IF isReconciled THEN exitsAtConnect ELSE exitsAtConnect \cup {p}
     /\ IF p \in rejected THEN UNCHANGED <<exited, told>>
        ELSE exited' = exited \cup {p} /\ told' = Told({p} \ exited, "real")
     /\ UNCHANGED <<supPc, sinkVars, paneVars, kills, driven, ungranted, isReconciled, rejected,
                    isClosed, imageVars, live, spawning, unparsed, fed, torn, faultVars>>

\* `deliver_supervisor_response`: the answer goes to the caller that waits for
\* it; one nobody waits for is passed over.
Awaited ==
  CASE imagePc = "hello" -> "hello"
    [] imagePc = "list" -> "list"
    [] imagePc \in {"killing", "killingEnded", "endKilling"} -> "kill"
    [] imagePc = "spawning" -> "spawn"
    [] imagePc = "pausing" -> "pause"
    [] imagePc = "resuming" -> "resume"
    [] imagePc = "ending" -> "shutdown"
    [] OTHER -> "none"

ReadAnswer ==
  /\ HasFrame("answer")
  /\ link' = IF Frame.of = "hello" THEN [Read EXCEPT ![Newest].version = Frame.version]
             ELSE Read
  /\ IF Frame.of = "kill" /\ Frame.pane \in killWaits
     THEN /\ killWaits' = killWaits \ {Frame.pane}
          /\ killDone' = killDone \cup {Frame.pane}
          /\ UNCHANGED answered
     ELSE /\ answered' = (answered \/ Frame.of = Awaited)
          /\ UNCHANGED <<killWaits, killDone>>
  /\ listed' = IF Frame.of = "list" THEN Frame.panes ELSE listed
  /\ UNCHANGED <<supPc, sinkVars, paneVars, kills, bookVars, imagePc, toKill, sessionVars,
                 faultVars>>

\* The link is at its end: every caller fails, and every pane still driven is
\* reported as ended.
ReaderCloses ==
  /\ imagePc \notin {"connect", "gone"}
  /\ ~isClosed
  /\ link[Newest].state = "down"
  /\ link[Newest].toImage = <<>>
  /\ isClosed' = TRUE
  /\ driven' = {}
  /\ told' = Told(driven \ (rejected \cup exited), "lost")
  /\ killWaits' = {}
  /\ UNCHANGED <<supPc, sinkVars, paneVars, kills, link, ungranted, exitsAtConnect,
                 isReconciled, rejected, exited, imagePc, listed, toKill, answered, killDone,
                 live, spawning, unparsed, fed, torn, faultVars>>

ReaderStep == ReadOutput \/ ReadExited \/ ReadAnswer \/ ReaderCloses

-----------------------------------------------------------------------------
(* The calls of the image *)

CanAsk == ~isClosed

\* The image asks for something and waits.
Ask(kind, p, pc) ==
  /\ link' = Asked(Request(kind, p, 0))
  /\ imagePc' = pc
  /\ answered' = FALSE

\* What one link's book and one image's calls kept is over.
BookIsOver ==
  /\ driven' = {}
  /\ ungranted' = [p \in Panes |-> 0]
  /\ exitsAtConnect' = {}
  /\ isReconciled' = FALSE
  /\ rejected' = {}
  /\ exited' = {}
  /\ isClosed' = FALSE
  /\ answered' = FALSE
  /\ killWaits' = {}
  /\ listed' = {}
  /\ toKill' = {}

\* `open_link`: a new link with a book of its own, and the Hello.
Connect ==
  /\ imagePc = "connect"
  /\ supPc # "gone"
  /\ Newest < LinkLimit
  /\ link' = [link EXCEPT ![Newest + 1] =
                [Unopened EXCEPT !.state = "queued",
                                 !.toSup = <<Request("hello", NoPane, 0)>>]]
  /\ imagePc' = "hello"
  /\ UNCHANGED <<supPc, sinkVars, paneVars, kills, bookVars, listed, toKill, answered, killWaits,
                 killDone, sessionVars, faultVars>>

\* The supervisor is not reached before SUPERVISOR_LINK_WAIT_DURATION ran out.
GiveUpLinking ==
  /\ imagePc = "connect"
  /\ Newest = LinkLimit \/ supPc = "gone"
  /\ imagePc' = "gone"
  /\ UNCHANGED <<supPc, sinkVars, paneVars, kills, link, bookVars, listed, toKill, answered,
                 killWaits, killDone, sessionVars, faultVars>>

HelloAnswered ==
  /\ imagePc = "hello"
  /\ answered
  /\ Ask("list", NoPane, "list")
  /\ UNCHANGED <<supPc, sinkVars, paneVars, kills, bookVars, listed, toKill, killWaits, killDone,
                 sessionVars, faultVars>>

\* `reconcile_panes`.  The panes the image claims are those of the session.
PanesListed ==
  /\ imagePc = "list"
  /\ answered
  /\ toKill' = listed \ live
  /\ imagePc' = "killUnknown"
  /\ UNCHANGED <<supPc, sinkVars, paneVars, kills, link, bookVars, listed, answered, killWaits,
                 killDone, sessionVars, faultVars>>

KillNext(from, pc) ==
  /\ imagePc = from
  /\ \E p \in toKill : toKill' = toKill \ {p} /\ Ask("kill", p, pc)
  /\ UNCHANGED <<supPc, sinkVars, paneVars, kills, bookVars, listed, killWaits, killDone,
                 sessionVars, faultVars>>

\* The answer to the kill of a pane the image does not claim is not checked.
UnknownKilled ==
  /\ imagePc = "killing"
  /\ answered \/ isClosed
  /\ imagePc' = "killUnknown"
  /\ UNCHANGED <<supPc, sinkVars, paneVars, kills, link, bookVars, listed, toKill, answered,
                 killWaits, killDone, sessionVars, faultVars>>

TakeExits ==
  /\ imagePc = "killUnknown"
  /\ toKill = {}
  /\ isReconciled' = TRUE
  /\ listed' = (listed \cap live) \ exitsAtConnect
  /\ toKill' = listed \cap live \cap exitsAtConnect
  /\ imagePc' = "killEnded"
  /\ UNCHANGED <<supPc, sinkVars, paneVars, kills, link, driven, ungranted, exitsAtConnect,
                 rejected, exited, isClosed, answered, killWaits, killDone, sessionVars,
                 faultVars>>

EndedKilled ==
  /\ imagePc = "killingEnded"
  /\ answered
  /\ imagePc' = "killEnded"
  /\ UNCHANGED <<supPc, sinkVars, paneVars, kills, link, bookVars, listed, toKill, answered,
                 killWaits, killDone, sessionVars, faultVars>>

\* Panes that are neither listed nor known to have ended are reported, and the
\* listed ones are driven.
Reconciled ==
  /\ imagePc = "killEnded"
  /\ toKill = {}
  /\ told' = Told(live \ (listed \cup exitsAtConnect), "lost")
  /\ IF isClosed
     THEN imagePc' = "connect" /\ BookIsOver
     ELSE /\ imagePc' = "run"
          /\ driven' = listed
          /\ listed' = {}
          /\ exitsAtConnect' = {}
          /\ UNCHANGED <<ungranted, isReconciled, rejected, exited, isClosed, toKill, answered,
                         killWaits>>
  /\ UNCHANGED <<supPc, sinkVars, paneVars, kills, link, killDone, live, spawning, unparsed,
                 fed, torn, faultVars>>

\* A step of `connect` fails: the link is closed, or the answer wait ran out.
\* The link is closed from this side, and the next attempt opens another.
ConnectFails ==
  /\ imagePc \in {"hello", "list", "killingEnded"}
  /\ ~answered
  /\ isClosed \/ Newest < LinkLimit
  /\ link' = [link EXCEPT ![Newest].state = "down", ![Newest].toImage = <<>>]
  /\ torn' = torn \cup PanesOnLink
  /\ imagePc' = "connect"
  /\ BookIsOver
  /\ UNCHANGED <<supPc, sinkVars, paneVars, kills, killDone, live, spawning, unparsed, fed,
                 told, faultVars>>

-----------------------------------------------------------------------------
(* The session served by the image *)

\* `kill_pane`: the pane leaves the book, then the Kill goes out and a thread
\* of its own waits for the answer.
KillPane(p) ==
  /\ driven' = driven \ {p}
  /\ IF p \in driven /\ CanAsk
     THEN link' = Asked(Request("kill", p, 0)) /\ killWaits' = killWaits \cup {p}
     ELSE UNCHANGED <<link, killWaits>>

\* The session applies the exit it was told of, or closes a pane.
PaneLeaves(p) ==
  /\ imagePc = "run"
  /\ p \in live
  /\ live' = live \ {p}
  /\ unparsed' = [unparsed EXCEPT ![p] = 0]
  /\ KillPane(p)
  /\ UNCHANGED <<supPc, sinkVars, paneVars, kills, ungranted, exitsAtConnect, isReconciled,
                 rejected, exited, isClosed, imagePc, listed, toKill, answered, killDone, spawning,
                 fed, told, torn, faultVars>>

ApplyExit(p) == told[p] # "none" /\ PaneLeaves(p)
ClosePane(p) == told[p] = "none" /\ p \in driven /\ PaneLeaves(p)

\* `spawn_pane` waits for its answer.
SpawnPane(p) ==
  /\ imagePc = "run"
  /\ CanAsk
  /\ readerPc[p] = "none"
  /\ Ask("spawn", p, "spawning")
  /\ spawning' = p
  /\ UNCHANGED <<supPc, sinkVars, paneVars, kills, bookVars, listed, toKill, killWaits, killDone,
                 live, unparsed, fed, told, torn, faultVars>>

Spawned ==
  /\ imagePc = "spawning"
  /\ answered
  /\ imagePc' = "run"
  /\ spawning' = NoPane
  /\ IF isClosed THEN UNCHANGED <<driven, live>>
     ELSE driven' = driven \cup {spawning} /\ live' = live \cup {spawning}
  /\ UNCHANGED <<supPc, sinkVars, paneVars, kills, link, ungranted, exitsAtConnect, isReconciled,
                 rejected, exited, isClosed, listed, toKill, answered, killWaits, killDone,
                 unparsed, fed, told, torn, faultVars>>

SpawnFails ==
  /\ imagePc = "spawning"
  /\ ~answered
  /\ isClosed
  /\ imagePc' = "run"
  /\ spawning' = NoPane
  /\ UNCHANGED <<supPc, sinkVars, paneVars, kills, link, bookVars, listed, toKill, answered,
                 killWaits, killDone, live, unparsed, fed, told, torn, faultVars>>

\* The units the book holds back after n more were parsed, and the grant they
\* make.
Grantable(p, n) == ungranted[p] + n >= MinGrant

\* The session parses what a pane printed; `grant_pane_output` grants it back
\* once MinGrant units are parsed.
Parse(p) ==
  /\ imagePc \in {"run", "pausing", "held"}
  /\ unparsed[p] > 0
  /\ unparsed' = [unparsed EXCEPT ![p] = 0]
  /\ IF link[Newest].version = "window" /\ p \in driven
     THEN IF Grantable(p, unparsed[p])
          THEN /\ ungranted' = [ungranted EXCEPT ![p] = 0]
               /\ link' = IF CanAsk
                          THEN Asked(Request("grant", p, ungranted[p] + unparsed[p]))
                          ELSE link
          ELSE /\ ungranted' = [ungranted EXCEPT ![p] = @ + unparsed[p]]
               /\ UNCHANGED link
     ELSE UNCHANGED <<ungranted, link>>
  /\ UNCHANGED <<supPc, sinkVars, paneVars, kills, driven, exitsAtConnect, isReconciled,
                 rejected, exited, isClosed, imageVars, live, spawning, fed, told, torn, faultVars>>

\* The image swap holds the output, and goes on or is abandoned.
PauseOutput ==
  /\ imagePc = "run"
  /\ CanAsk
  /\ swaps < SwapLimit
  /\ swaps' = swaps + 1
  /\ Ask("pause", NoPane, "pausing")
  /\ UNCHANGED <<supPc, sinkVars, paneVars, kills, bookVars, listed, toKill, killWaits, killDone,
                 sessionVars, breaks>>

OutputHeld ==
  /\ imagePc = "pausing"
  /\ answered
  /\ imagePc' = "held"
  /\ UNCHANGED <<supPc, sinkVars, paneVars, kills, link, bookVars, listed, toKill, answered,
                 killWaits, killDone, sessionVars, faultVars>>

\* The hold failed, or something after it did: `resume_readers`.
AbandonSwap ==
  /\ imagePc \in {"pausing", "held"}
  /\ IF CanAsk
     THEN Ask("resume", NoPane, "resuming")
     ELSE imagePc' = "run" /\ UNCHANGED <<link, answered>>
  /\ UNCHANGED <<supPc, sinkVars, paneVars, kills, bookVars, listed, toKill, killWaits, killDone,
                 sessionVars, faultVars>>

ResumeAnswered ==
  /\ imagePc = "resuming"
  /\ answered \/ isClosed
  /\ imagePc' = "run"
  /\ UNCHANGED <<supPc, sinkVars, paneVars, kills, link, bookVars, listed, toKill, answered,
                 killWaits, killDone, sessionVars, faultVars>>

\* The next image starts: everything that was queued is applied, and the link
\* of this image closes with it.
ExecImage ==
  /\ imagePc = "held"
  /\ ~isClosed
  /\ \A p \in live : told[p] = "none" /\ unparsed[p] = 0
  /\ link' = [link EXCEPT ![Newest].state = "down", ![Newest].toImage = <<>>]
  /\ imagePc' = "connect"
  /\ BookIsOver
  /\ UNCHANGED <<supPc, sinkVars, paneVars, kills, killDone, live, spawning, unparsed, fed,
                 told, torn, faultVars>>

\* The session ends: every pane is killed, then the supervisor is told to end.
EndSession ==
  /\ imagePc = "run"
  /\ live' = {}
  /\ unparsed' = [p \in Panes |-> 0]
  /\ toKill' = driven
  /\ driven' = {}
  /\ imagePc' = "endKill"
  /\ UNCHANGED <<supPc, sinkVars, paneVars, kills, link, ungranted, exitsAtConnect, isReconciled,
                 rejected, exited, isClosed, listed, answered, killWaits, killDone, spawning,
                 fed, told, torn, faultVars>>

EndKilled ==
  /\ imagePc = "endKilling"
  /\ answered \/ isClosed
  /\ imagePc' = "endKill"
  /\ UNCHANGED <<supPc, sinkVars, paneVars, kills, link, bookVars, listed, toKill, answered,
                 killWaits, killDone, sessionVars, faultVars>>

AskShutdown ==
  /\ imagePc = "endKill"
  /\ toKill = {}
  /\ Ask("shutdown", NoPane, "ending")
  /\ UNCHANGED <<supPc, sinkVars, paneVars, kills, bookVars, listed, toKill, killWaits, killDone,
                 sessionVars, faultVars>>

\* The session server's process is over: it ended, or it died.
ImageGoes ==
  /\ imagePc' = "gone"
  /\ link' = [link EXCEPT ![Newest].state = "down", ![Newest].toImage = <<>>]
  /\ BookIsOver
  /\ live' = {}
  /\ unparsed' = [p \in Panes |-> 0]
  /\ killDone' = {}
  /\ spawning' = NoPane
  /\ UNCHANGED <<supPc, sinkVars, paneVars, kills, fed, told, torn, faultVars>>

SessionEnded == imagePc = "ending" /\ (answered \/ isClosed) /\ ImageGoes
ImageDies == imagePc # "gone" /\ ImageGoes

\* A link breaks under both ends, with the frames on it or after them.
LinkBreaks ==
  /\ breaks < BreakLimit
  /\ link[Newest].state = "up"
  /\ imagePc # "gone"
  /\ breaks' = breaks + 1
  /\ \/ /\ link' = [link EXCEPT ![Newest].state = "down", ![Newest].toImage = <<>>,
                                ![Newest].toSup = <<>>]
        /\ torn' = torn \cup PanesOnLink
     \/ link' = [link EXCEPT ![Newest].state = "down"] /\ UNCHANGED torn
  /\ UNCHANGED <<supPc, sinkVars, paneVars, kills, bookVars, imageVars, live, spawning, unparsed,
                 fed, told, swaps>>

ImageStep ==
  \/ Connect \/ GiveUpLinking \/ HelloAnswered \/ PanesListed
  \/ KillNext("killUnknown", "killing") \/ UnknownKilled \/ TakeExits
  \/ KillNext("killEnded", "killingEnded") \/ EndedKilled \/ Reconciled
  \/ \E p \in Panes : Parse(p) \/ ApplyExit(p)
  \/ Spawned \/ SpawnFails \/ OutputHeld \/ ResumeAnswered
  \/ KillNext("endKill", "endKilling") \/ EndKilled \/ AskShutdown \/ SessionEnded

\* What a step of `connect` or of a swap does when it has failed.
ImageFails ==
  \/ ConnectFails /\ isClosed
  \/ AbandonSwap /\ (isClosed \/ imagePc = "held")

\* What may happen or not: clients, updates, timeouts and faults.
Outside ==
  \/ \E p \in Panes : ChildEnds(p) \/ ClosePane(p) \/ SpawnPane(p)
  \/ PauseOutput \/ ExecImage \/ EndSession
  \/ AbandonSwap \/ ConnectFails \/ ImageDies \/ LinkBreaks

Next ==
  \/ \E p \in Panes : PaneStep(p)
  \/ SupervisorStep \/ ReaderStep \/ ImageStep \/ Outside

Spec == Init /\ [][Next]_vars

\* Every thread runs when it can; nothing outside has to happen, but a swap
\* that was started goes on or is abandoned.
Fairness ==
  /\ \A p \in Panes : WF_vars(PaneStep(p))
  /\ WF_vars(SupervisorStep)
  /\ WF_vars(ReaderStep)
  /\ WF_vars(ImageStep)
  /\ WF_vars(ImageFails)

FairSpec == Spec /\ Fairness

-----------------------------------------------------------------------------
(* Properties *)

ReaderPcs == {"none", "read", "send", "parked", "drain", "ended"}
ExitPcs == {"none", "send", "parked", "record", "done"}

TypeOK ==
  /\ supPc \in {"accept", "serve", "broken", "stop", "closing", "joining", "ending", "gone"}
  /\ hasWriter \in BOOLEAN /\ isPaused \in BOOLEAN /\ isClosing \in BOOLEAN
  /\ generation \in 1 .. LinkLimit
  /\ version \in Versions \cup {"none"}
  /\ credit \in [Panes -> 0 .. Window]
  /\ closingPanes \subseteq Panes /\ endedPanes \subseteq Panes
  /\ held \subseteq Panes /\ running \subseteq held
  /\ readerPc \in [Panes -> ReaderPcs]
  /\ exitPc \in [Panes -> ExitPcs]
  /\ unsent \in [Panes -> 0 .. PrintLimit]
  /\ taken \in [Panes -> 0 .. PrintLimit]
  /\ fed \in [Panes -> 0 .. PrintLimit]
  /\ driven \subseteq Panes /\ live \subseteq Panes

\* The units of p that a frame carries, and those on the link of the current
\* image, oldest first.
UnitsOf(f, p) ==
  IF f.kind = "output" /\ f.pane = p THEN [j \in 1 .. f.count |-> f.from + j - 1] ELSE <<>>

OnLink(p) ==
  LET frames == link[Newest].toImage
  IN FlattenSeq([i \in DOMAIN frames |-> UnitsOf(frames[i], p)])

\* The stream the session sees of a pane: open until the pane leaves, until
\* its exit is told, or until frames of it go down with a link.
StreamPhase(p) ==
  CASE p \in torn -> "left"
    [] p \notin torn /\ told[p] = "real" -> "exited"
    [] p \notin torn /\ told[p] = "none" /\ imagePc # "gone"
         /\ (p \in Wanted \/ readerPc[p] = "none") -> "open"
    [] OTHER -> "left"

UnfedUnits(p) ==
  OnLink(p) \o [i \in 1 .. unsent[p] |-> taken[p] - unsent[p] + i - 1]

Stream == INSTANCE OutputStream WITH
  Modulus <- PrintLimit + 1,
  phase <- [p \in Panes |-> StreamPhase(p)],
  next <- [p \in Panes |-> CASE StreamPhase(p) = "open" -> taken[p]
                             [] StreamPhase(p) = "exited" -> fed[p]
                             [] OTHER -> 0],
  fed <- [p \in Panes |-> IF StreamPhase(p) = "left" THEN 0 ELSE fed[p]],
  unfed <- [p \in Panes |-> IF StreamPhase(p) = "open" THEN UnfedUnits(p) ELSE <<>>]

\* What a pane prints reaches the session once and in order, and its exit after
\* it and once, over every link and every image swap, until frames go down with
\* a link that breaks.
ImplementsOutputStream == Stream!Spec

\* A link carries only answers to requests made on it, also when a kill asked
\* for on an earlier link ends late; and once `kill_pane` returned Done,
\* nothing of that pane reaches the session any more.
LinkCarriesItsOwn ==
  \A g \in Links : link[g].state # "down" =>
    \A i \in DOMAIN link[g].toImage :
      LET f == link[g].toImage[i]
      IN /\ f.kind = "answer" => f.gen = g
         /\ f.kind \in {"output", "exited"} => f.pane \notin killDone

\* A chunk a reader holds for a live pane goes out, whatever the window: no
\* send waits for credit that nothing will grant.
OutputGoesOut ==
  \A p \in Panes : unsent[p] > 0 ~> (unsent[p] = 0 \/ supPc = "gone")

\* A pane of the session whose child ended leaves the session, also when its
\* exit was written to a link that broke or to an image that was replaced.
EndedPaneIsReported ==
  \A p \in Panes : (p \in live /\ p \notin running) ~> (p \notin live \/ imagePc = "gone")

\* Once no session server is left, the supervisor closes every pane and ends.
SupervisorEnds == imagePc = "gone" ~> (supPc = "gone" /\ held = {} /\ running = {})

\* Both ends of a link are in a state their protocol has, and read nothing that
\* belongs to another link or to a closed pane.
LinkIsConsistent == TypeOK /\ LinkCarriesItsOwn

\* What a pane does gets through to the session: its output and its end.
OutputAndEndsGoOut == OutputGoesOut /\ EndedPaneIsReported
=============================================================================
