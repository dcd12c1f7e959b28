---------------------------- MODULE ExitHandover ----------------------------
(***************************************************************************)
(* Who tells the consumer that a pane's child ended                        *)
(* (koshi-pty/src/portable.rs): the pane's reader thread once it has       *)
(* handed over the last of the output, or the watcher thread standing by   *)
(* behind it, against a `kill_pane` that closes the pane.  The two threads *)
(* and the close meet in `ExitHandover`, one lock over the chunks in the   *)
(* consumer's hands and over whether the exit is settled; each locked      *)
(* section and each call of the consumer is one action.                    *)
(*                                                                         *)
(* The three kinds of terminal differ in how the reader reaches the end:   *)
(*  "owned"     a Unix terminal with a descriptor: the reader waits on it  *)
(*              beside a doorbell, and the watcher only rings;             *)
(*  "blocking"  a Unix terminal without one: the reader blocks in `read`,  *)
(*              and the watcher stands by on a deadline;                   *)
(*  "console"   Windows: the watcher also closes the console, on a thread  *)
(*              of its own, which ends the reader's pipe.                  *)
(*                                                                         *)
(* The signals `kill_pane` sends and the reaping of the child are left     *)
(* out; the queue behind the consumer is in PaneOutput.                    *)
(***************************************************************************)
EXTENDS Integers

CONSTANTS
  Kinds,            \* the kinds of terminal the pane may have
  MaxPending        \* bound: chunks a terminal holds before its writers block

ASSUME KindsAssumption == Kinds \subseteq {"owned", "blocking", "console"}
ASSUME PendingAssumption == MaxPending \in Nat \ {0}

VARIABLES
  kind,             \* the pane's kind of terminal
  isRunning,        \* the child runs
  isShared,         \* a descendant holds the terminal open
  pending,          \* chunks printed and not read yet
  inFlight,         \* `started_chunk_count` - `finished_chunk_count`
  isSettled,        \* `ExitHandover::is_settled`
  isRecorded,       \* `ChildExit` holds an observed exit
  isSent,           \* the status is on the exit channel
  isRung,           \* the reader's doorbell
  hasGrace,         \* `exit_deadline` of `pump_waited` is set
  isPastLimit,      \* EXIT_PUBLISH_LIMIT_DURATION has passed
  readerPc,
  watcherPc,
  closePc,          \* the thread that closes a console
  killPc,
  killer,           \* the thread that runs `kill_pane`
  isCancelSent,     \* a value on the watcher's cancel channel
  isRefused,        \* the consumer refused a chunk
  told              \* calls of `accept_exit_status`

childVars == <<kind, isRunning, isShared, pending>>
handoverVars == <<inFlight, isSettled, isRefused, told>>
signalVars == <<isRecorded, isSent, isRung, isCancelSent>>
timeVars == <<hasGrace, isPastLimit>>
killVars == <<killPc, killer>>
vars == <<childVars, handoverVars, signalVars, timeVars, readerPc, watcherPc, closePc,
          killVars>>

-----------------------------------------------------------------------------
(* State *)

\* "claim" holds a chunk it has read; "consume" is inside the consumer;
\* "end" is past its pump; "tell" has settled the exit and is about to call
\* the consumer, "telling" is inside that call.
ReaderPcs == {"read", "claim", "consume", "accepted", "refused", "letGo", "discard",
              "end", "recv", "settle", "tell", "telling", "done"}
WatcherPcs == {"wait", "record", "send", "ring", "readAgain", "close", "standby",
               "settleAndTell", "settleOnly", "tell", "telling", "done"}
KillPcs == {"none", "settle", "release", "cancel", "await", "join", "returned"}

Init ==
  /\ kind \in Kinds
  /\ isRunning = TRUE
  /\ isShared = FALSE
  /\ pending = 0
  /\ inFlight = 0
  /\ isSettled = FALSE
  /\ isRecorded = FALSE
  /\ isSent = FALSE
  /\ isRung = FALSE
  /\ hasGrace = FALSE
  /\ isPastLimit = FALSE
  /\ readerPc = "read"
  /\ watcherPc = "wait"
  /\ closePc = "open"
  /\ killPc = "none"
  /\ killer = "none"
  /\ isCancelSent = FALSE
  /\ isRefused = FALSE
  /\ told = 0

\* The reader's `read` reports the end: nothing is left to read and nobody
\* holds the terminal; a console ends its pipe only when it is being closed.
IsAtEnd ==
  /\ ~isRunning
  /\ ~isShared
  /\ pending = 0
  /\ kind = "console" => closePc # "open"

-----------------------------------------------------------------------------
(* The child and its descendants *)

ChildForks ==
  /\ isRunning
  /\ ~isShared
  /\ isShared' = TRUE
  /\ UNCHANGED <<kind, isRunning, pending, handoverVars, signalVars, timeVars,
                 readerPc, watcherPc, closePc, killVars>>

ChildPrints ==
  /\ isRunning \/ isShared
  /\ pending < MaxPending
  /\ pending' = pending + 1
  /\ UNCHANGED <<kind, isRunning, isShared, handoverVars, signalVars, timeVars,
                 readerPc, watcherPc, closePc, killVars>>

ChildEnds ==
  /\ isRunning
  /\ isRunning' = FALSE
  /\ UNCHANGED <<kind, isShared, pending, handoverVars, signalVars, timeVars,
                 readerPc, watcherPc, closePc, killVars>>

DescendantsEnd ==
  /\ ~isRunning
  /\ isShared
  /\ isShared' = FALSE
  /\ UNCHANGED <<kind, isRunning, pending, handoverVars, signalVars, timeVars,
                 readerPc, watcherPc, closePc, killVars>>

\* The deadline of the reader's rounds, or of the watcher's standby, passes.
LimitPasses ==
  /\ hasGrace \/ watcherPc = "standby"
  /\ ~isPastLimit
  /\ isPastLimit' = TRUE
  /\ UNCHANGED <<childVars, handoverVars, signalVars, hasGrace, readerPc,
                 watcherPc, closePc, killVars>>

-----------------------------------------------------------------------------
(* The reader thread *)

\* A round of `pump_waited` finds the terminal readable.  The round takes a
\* ring off first: one that finds the pane settled ends the pump, one that
\* finds the child ended starts the grace rounds.
PumpReads ==
  /\ kind = "owned"
  /\ readerPc = "read"
  /\ pending > 0
  /\ ~(hasGrace /\ isPastLimit)
  /\ ~(isRung /\ ~hasGrace /\ isSettled)
  /\ pending' = pending - 1
  /\ isRung' = (isRung /\ hasGrace)
  /\ hasGrace' = (hasGrace \/ (isRung /\ isRecorded))
  /\ readerPc' = "claim"
  /\ UNCHANGED <<kind, isRunning, isShared, handoverVars, isRecorded, isSent,
                 isCancelSent, isPastLimit, watcherPc, closePc, killVars>>

\* The round ends on the doorbell alone.
PumpRung ==
  /\ kind = "owned"
  /\ readerPc = "read"
  /\ isRung
  /\ ~hasGrace
  /\ isRung' = FALSE
  /\ \/ /\ isSettled
        /\ readerPc' = "end"
        /\ UNCHANGED hasGrace
     \/ /\ ~isSettled
        /\ hasGrace' = isRecorded
        /\ UNCHANGED readerPc
  /\ UNCHANGED <<childVars, handoverVars, isRecorded, isSent, isCancelSent,
                 isPastLimit, watcherPc, closePc, killVars>>

\* A grace round stayed quiet, or the rounds reached their limit.
PumpRoundsEnd ==
  /\ readerPc = "read"
  /\ hasGrace
  /\ pending = 0 \/ isPastLimit
  /\ readerPc' = "end"
  /\ UNCHANGED <<childVars, handoverVars, signalVars, timeVars, watcherPc,
                 closePc, killVars>>

\* `pump_blocking`: a `read` returns a chunk.
BlockingReads ==
  /\ kind # "owned"
  /\ readerPc = "read"
  /\ pending > 0
  /\ pending' = pending - 1
  /\ readerPc' = "claim"
  /\ UNCHANGED <<kind, isRunning, isShared, handoverVars, signalVars, timeVars,
                 watcherPc, closePc, killVars>>

\* Either pump: the terminal reports its end.
ReadsEnd ==
  /\ readerPc = "read"
  /\ IsAtEnd
  /\ readerPc' = "end"
  /\ UNCHANGED <<childVars, handoverVars, signalVars, timeVars, watcherPc,
                 closePc, killVars>>

\* What a pump does when `deliver_output` answers false: `pump_waited` goes on
\* to the exit, `pump_blocking` lets the consumer go.
AfterRefusal == IF kind = "owned" THEN "end" ELSE "letGo"

\* Mutant: a chunk is claimed without a look at the settled exit.
ClaimChunkUnchecked ==
  /\ readerPc = "claim"
  /\ inFlight' = inFlight + 1
  /\ readerPc' = "consume"
  /\ UNCHANGED <<childVars, isSettled, isRefused, told, signalVars, timeVars, watcherPc,
                 closePc, killVars>>

\* `deliver_output`, first lock: checked and claimed in one step.
ClaimChunk ==
  /\ readerPc = "claim"
  /\ \/ /\ isSettled
        /\ readerPc' = AfterRefusal
        /\ UNCHANGED inFlight
     \/ /\ ~isSettled
        /\ inFlight' = inFlight + 1
        /\ readerPc' = "consume"
  /\ UNCHANGED <<childVars, isSettled, isRefused, told, signalVars, timeVars,
                 watcherPc, closePc, killVars>>

\* The consumer's `accept_output_bytes` returns.
ConsumerAnswers ==
  /\ readerPc = "consume"
  /\ readerPc' \in {"accepted", "refused"}
  /\ UNCHANGED <<childVars, handoverVars, signalVars, timeVars, watcherPc,
                 closePc, killVars>>

\* `deliver_output`, second lock: the chunk is released, and a refusal
\* settles the exit in the same step.
FinishChunk ==
  /\ inFlight' = inFlight - 1
  /\ \/ /\ readerPc = "accepted"
        /\ readerPc' = "read"
        /\ UNCHANGED <<isSettled, isRefused>>
     \/ /\ readerPc = "refused"
        /\ readerPc' = AfterRefusal
        /\ isSettled' = TRUE
        /\ isRefused' = TRUE
  /\ UNCHANGED <<childVars, told, signalVars, timeVars, watcherPc, closePc,
                 killVars>>

\* The consumer is let go; a console is then read to its end.
LetGo ==
  /\ readerPc = "letGo"
  /\ readerPc' = IF kind = "console" THEN "discard" ELSE "done"
  /\ UNCHANGED <<childVars, handoverVars, signalVars, timeVars, watcherPc,
                 closePc, killVars>>

\* `drain_terminal`
Discard ==
  /\ readerPc = "discard"
  /\ \/ /\ pending > 0
        /\ pending' = pending - 1
        /\ UNCHANGED readerPc
     \/ /\ IsAtEnd
        /\ readerPc' = "done"
        /\ UNCHANGED pending
  /\ UNCHANGED <<kind, isRunning, isShared, handoverVars, signalVars, timeVars,
                 watcherPc, closePc, killVars>>

\* `Delivery::publish_exit_status`, which returns at once when the exit is
\* settled already.
ReaderEnds ==
  /\ readerPc = "end"
  /\ readerPc' = IF isSettled THEN "done" ELSE "recv"
  /\ UNCHANGED <<childVars, handoverVars, signalVars, timeVars, watcherPc,
                 closePc, killVars>>

ReaderReceives ==
  /\ readerPc = "recv"
  /\ isSent
  /\ readerPc' = "settle"
  /\ UNCHANGED <<childVars, handoverVars, signalVars, timeVars, watcherPc,
                 closePc, killVars>>

ReaderSettles ==
  /\ readerPc = "settle"
  /\ readerPc' = IF isSettled THEN "done" ELSE "tell"
  /\ isSettled' = TRUE
  /\ UNCHANGED <<childVars, inFlight, isRefused, told, signalVars, timeVars,
                 watcherPc, closePc, killVars>>

\* The call of `accept_exit_status` starts; the consumer may close the pane
\* from inside it.
ReaderTells ==
  /\ readerPc = "tell"
  /\ told' = told + 1
  /\ readerPc' = "telling"
  /\ UNCHANGED <<childVars, inFlight, isSettled, isRefused, signalVars,
                 timeVars, watcherPc, closePc, killVars>>

ReaderTold ==
  /\ readerPc = "telling"
  /\ killer = "reader" => killPc = "returned"
  /\ readerPc' = "done"
  /\ UNCHANGED <<childVars, handoverVars, signalVars, timeVars, watcherPc,
                 closePc, killVars>>

-----------------------------------------------------------------------------
(* The watcher thread *)

\* `wait_for_child_exit` returns.
WatchChild ==
  /\ watcherPc = "wait"
  /\ ~isRunning
  /\ watcherPc' = "record"
  /\ UNCHANGED <<childVars, handoverVars, signalVars, timeVars, readerPc,
                 closePc, killVars>>

\* `WatchRelease::publish_exit_status`: record the exit, send the status on,
\* ring the reader.
WatchRecord ==
  /\ watcherPc = "record"
  /\ isRecorded' = TRUE
  /\ watcherPc' = "send"
  /\ UNCHANGED <<childVars, handoverVars, isSent, isRung, isCancelSent,
                 timeVars, readerPc, closePc, killVars>>

WatchSend ==
  /\ watcherPc = "send"
  /\ isSent' = TRUE
  /\ watcherPc' = "ring"
  /\ UNCHANGED <<childVars, handoverVars, isRecorded, isRung, isCancelSent,
                 timeVars, readerPc, closePc, killVars>>

\* `WatcherTail`: what follows the release.
WatcherTail ==
  [owned |-> "done", blocking |-> "standby", console |-> "readAgain"][kind]

WatchRing ==
  /\ watcherPc = "ring"
  /\ isRung' = (kind = "owned")
  /\ watcherPc' = WatcherTail
  /\ UNCHANGED <<childVars, handoverVars, isRecorded, isSent, isCancelSent,
                 timeVars, readerPc, closePc, killVars>>

\* The cancel channel carries a value, or `kill_pane` dropped its sender.
IsCancelled == isCancelSent \/ killPc = "returned"

\* `wait_for_reader_to_read_again`
WatchReadAgain ==
  /\ watcherPc = "readAgain"
  /\ \/ /\ inFlight = 0
        /\ UNCHANGED isCancelSent
     \/ /\ inFlight # 0
        /\ IsCancelled
        /\ isCancelSent' = FALSE
  /\ watcherPc' = "close"
  /\ UNCHANGED <<childVars, handoverVars, isRecorded, isSent, isRung, timeVars,
                 readerPc, closePc, killVars>>

\* The console is taken out of its slot and dropped on a thread of its own.
WatchClose ==
  /\ watcherPc = "close"
  /\ closePc' = "closing"
  /\ watcherPc' = "standby"
  /\ UNCHANGED <<childVars, handoverVars, signalVars, timeVars, readerPc,
                 killVars>>

\* `ClosePseudoConsole` returns once the output is read out and every process
\* of the console has let it go.
ConsoleCloses ==
  /\ closePc = "closing"
  /\ ~isShared
  /\ pending = 0
  /\ closePc' = "closed"
  /\ UNCHANGED <<childVars, handoverVars, signalVars, timeVars, readerPc,
                 watcherPc, killVars>>

\* `should_publish_exit` answers false on a cancel,
StandbyCancelled ==
  /\ watcherPc = "standby"
  /\ IsCancelled
  /\ isCancelSent' = FALSE
  /\ watcherPc' = "settleOnly"
  /\ UNCHANGED <<childVars, handoverVars, isRecorded, isSent, isRung, timeVars,
                 readerPc, closePc, killVars>>

\* Mutant: a chunk in flight at the deadline makes the standby give up.
StandbyGivesUp ==
  /\ watcherPc = "standby"
  /\ ~IsCancelled
  /\ \/ isSettled /\ watcherPc' = "settleOnly"
     \/ /\ ~isSettled
        /\ isPastLimit
        /\ watcherPc' = IF inFlight = 0 THEN "settleAndTell" ELSE "settleOnly"
  /\ UNCHANGED <<childVars, handoverVars, signalVars, timeVars, readerPc, closePc,
                 killVars>>

\* and otherwise by what the hand-over says at a check-in.
StandbyChecks ==
  /\ watcherPc = "standby"
  /\ ~IsCancelled
  /\ \/ isSettled /\ watcherPc' = "settleOnly"
     \/ /\ ~isSettled
        /\ isPastLimit
        /\ inFlight = 0
        /\ watcherPc' = "settleAndTell"
  /\ UNCHANGED <<childVars, handoverVars, signalVars, timeVars, readerPc,
                 closePc, killVars>>

\* Mutant: the watcher tells although the reader settled first.
WatchSettlesUnchecked ==
  /\ watcherPc \in {"settleAndTell", "settleOnly"}
  /\ watcherPc' = IF watcherPc = "settleAndTell" THEN "tell" ELSE "done"
  /\ isSettled' = TRUE
  /\ UNCHANGED <<childVars, inFlight, isRefused, told, signalVars, timeVars, readerPc,
                 closePc, killVars>>

\* `settle_exit_and_publish_status`: settles in a lock of its own.
WatchSettles ==
  /\ watcherPc \in {"settleAndTell", "settleOnly"}
  /\ watcherPc' = IF watcherPc = "settleAndTell" /\ ~isSettled THEN "tell" ELSE "done"
  /\ isSettled' = TRUE
  /\ UNCHANGED <<childVars, inFlight, isRefused, told, signalVars, timeVars,
                 readerPc, closePc, killVars>>

WatchTells ==
  /\ watcherPc = "tell"
  /\ told' = told + 1
  /\ watcherPc' = "telling"
  /\ UNCHANGED <<childVars, inFlight, isSettled, isRefused, signalVars,
                 timeVars, readerPc, closePc, killVars>>

WatchTold ==
  /\ watcherPc = "telling"
  /\ killer = "watcher" => killPc = "returned"
  /\ watcherPc' = "done"
  /\ UNCHANGED <<childVars, handoverVars, signalVars, timeVars, readerPc,
                 closePc, killVars>>

-----------------------------------------------------------------------------
(* `kill_pane` *)

\* The pane leaves the backend's map, so at most one call gets past this
\* point: a caller's own thread, or a thread inside `accept_exit_status`.
KillStarts ==
  /\ killPc = "none"
  /\ \/ killer' = "caller"
     \/ readerPc = "telling" /\ killer' = "reader"
     \/ watcherPc = "telling" /\ killer' = "watcher"
  /\ killPc' = "settle"
  /\ UNCHANGED <<childVars, handoverVars, signalVars, timeVars, readerPc, watcherPc,
                 closePc>>

\* The exit is settled before anything dies.
KillSettles ==
  /\ killPc = "settle"
  /\ isSettled' = TRUE
  /\ killPc' = "release"
  /\ UNCHANGED <<childVars, inFlight, isRefused, told, signalVars, timeVars, readerPc,
                 watcherPc, closePc, killer>>

\* After its signals the call lets go of the terminal and rings the reader.
KillReleases ==
  /\ killPc = "release"
  /\ isRung' = (isRung \/ kind = "owned")
  /\ killPc' = "cancel"
  /\ UNCHANGED <<childVars, handoverVars, isRecorded, isSent, isCancelSent, timeVars,
                 readerPc, watcherPc, closePc, killer>>

\* The watcher of an owned terminal listens to no cancel.
KillCancels ==
  /\ killPc = "cancel"
  /\ isCancelSent' = (kind # "owned")
  /\ killPc' = "await"
  /\ UNCHANGED <<childVars, handoverVars, isRecorded, isSent, isRung, timeVars, readerPc,
                 watcherPc, closePc, killer>>

\* The wait for the child ends with its exit recorded, or with the child left
\* running: `leave_child_running` decides under the record's lock.
KillWaits ==
  /\ killPc = "await"
  /\ killPc' = IF isRecorded THEN "join" ELSE "returned"
  /\ UNCHANGED <<childVars, handoverVars, signalVars, timeVars, readerPc, watcherPc,
                 closePc, killer>>

\* Mutant: a call that runs on the watcher joins it all the same.
KillJoinsItself ==
  /\ killPc = "join"
  /\ watcherPc = "done"
  /\ killPc' = "returned"
  /\ UNCHANGED <<childVars, handoverVars, signalVars, timeVars, readerPc, watcherPc,
                 closePc, killer>>

\* The watcher is joined, unless the call runs on it.
KillJoins ==
  /\ killPc = "join"
  /\ killer = "watcher" \/ watcherPc = "done"
  /\ killPc' = "returned"
  /\ UNCHANGED <<childVars, handoverVars, signalVars, timeVars, readerPc, watcherPc,
                 closePc, killer>>

-----------------------------------------------------------------------------
(* Specification *)

WorldStep == ChildForks \/ ChildPrints \/ ChildEnds \/ DescendantsEnd

ReaderStep ==
  \/ PumpReads \/ PumpRung \/ PumpRoundsEnd \/ BlockingReads \/ ReadsEnd
  \/ ClaimChunk \/ ConsumerAnswers \/ FinishChunk \/ LetGo \/ Discard
  \/ ReaderEnds \/ ReaderReceives \/ ReaderSettles \/ ReaderTells \/ ReaderTold

WatcherStep ==
  \/ WatchChild \/ WatchRecord \/ WatchSend \/ WatchRing \/ WatchReadAgain
  \/ WatchClose \/ StandbyCancelled \/ StandbyChecks \/ WatchSettles \/ WatchTells
  \/ WatchTold

KillStep ==
  \/ KillSettles \/ KillReleases \/ KillCancels \/ KillWaits \/ KillJoins

Next ==
  WorldStep \/ LimitPasses \/ ReaderStep \/ WatcherStep \/ ConsoleCloses \/ KillStarts
  \/ KillStep

Spec == Init /\ [][Next]_vars

\* Threads are scheduled and timers fire; the child, its descendants and the
\* callers of `kill_pane` owe nothing.  A consumer's call returns: the queue
\* behind it gets room, which PaneOutput shows.
Fairness ==
  /\ WF_vars(LimitPasses)
  /\ WF_vars(ReaderStep)
  /\ WF_vars(WatcherStep)
  /\ WF_vars(ConsoleCloses)
  /\ WF_vars(KillStep)

FairSpec == Spec /\ Fairness

-----------------------------------------------------------------------------
(* Properties *)

\* The types of the state; at most one chunk is in the consumer's hands.
TypeOK ==
  /\ kind \in Kinds
  /\ isRunning \in BOOLEAN /\ isShared \in BOOLEAN
  /\ pending \in 0 .. MaxPending
  /\ inFlight \in 0 .. 1
  /\ isSettled \in BOOLEAN /\ isRefused \in BOOLEAN
  /\ told \in Nat
  /\ isRecorded \in BOOLEAN /\ isSent \in BOOLEAN /\ isRung \in BOOLEAN
  /\ isCancelSent \in BOOLEAN
  /\ hasGrace \in BOOLEAN /\ isPastLimit \in BOOLEAN
  /\ readerPc \in ReaderPcs
  /\ watcherPc \in WatcherPcs
  /\ closePc \in {"open", "closing", "closed"}
  /\ killPc \in KillPcs
  /\ killer \in {"none", "caller", "reader", "watcher"}

\* "delivered at most once" (PtySink::accept_exit_status): reader and watcher
\* never both tell the consumer the exit, whichever order they settle in.
ExitToldOnce == told <= 1

\* A settled exit was told, is about to be told, or is owed to nobody: the
\* pane is being closed, or the consumer refused a chunk.  In particular the
\* watcher, which settles whether or not it tells, never settles the exit
\* away from a reader that would have told it.
ExitIsNotSwallowed ==
  isSettled =>
    \/ told = 1
    \/ readerPc = "tell" \/ watcherPc = "tell"
    \/ killPc # "none"
    \/ isRefused

\* Once `kill_pane` has returned, the watcher has no exit left to tell.
ClosedWatcherIsSilent == killPc = "returned" => watcherPc # "tell"

\* No chunk is claimed for the consumer after it was told the exit.
NoChunkAfterExit == [][told > 0 => inFlight' <= inFlight]_vars

\* Once the child's end is recorded the exit is settled: always where the
\* reader can be rung, although a descendant holds the terminal and prints on;
\* elsewhere if the output stops, although the reader never gets out of `read`.
EndIsSettled ==
  (kind = "owned" \/ <>[](pending = 0)) => (isRecorded ~> isSettled)

\* Closing a pane returns, also from inside the consumer's exit call.
KillReturns == killPc # "none" ~> killPc = "returned"

\* A console's close returns once its processes are gone: somebody reads the
\* output out to its end, also after the consumer has let the pane go.
ConsoleCloseEnds == closePc = "closing" /\ ~isShared ~> closePc = "closed"

\* Every thread that waits for the end of a pane gets it: the exit is settled,
\* the caller of `kill_pane` returns, and the console's close ends.
WaitersReturn == EndIsSettled /\ KillReturns /\ ConsoleCloseEnds
=============================================================================
