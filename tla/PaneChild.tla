----------------------------- MODULE PaneChild -----------------------------
(***************************************************************************)
(* The process side of a pane on Unix: the child, the thread that watches  *)
(* it, the thread that writes its input, and the thread that closes the    *)
(* pane (koshi-pty/src/portable.rs, kill.rs), across the swaps in which    *)
(* the session server replaces its own image                               *)
(* (koshi-daemon/src/session_server.rs).                                   *)
(*                                                                         *)
(* A process id stays with an ended child until the child is reaped.  From *)
(* then on the system may give it to any process: a signal sent or a wait  *)
(* made under the old id reaches a stranger.  The threads of an image end  *)
(* with it; the children, the ids written down for the next image and the  *)
(* terminals stay.  Input is counted in writes of one unit.                *)
(***************************************************************************)
EXTENDS Integers, Sequences, FiniteSets, SequencesExt

CONSTANTS
  Panes,          \* the panes, each opened at most once
  Pids,           \* the process ids
  Inherited,      \* panes an image may start with whose child was reaped
  Policies(_),    \* the kill policies a close of a pane may use
  TypedInto,      \* bound: the panes that get input
  MaxQueued,      \* MAX_QUEUED_PANE_INPUT_BYTE_COUNT, in writes
  SwapLimit,      \* bound: the image swaps started
  Foreign,        \* a process that is no child of the session server
  NoOne,          \* nobody: the owner of a free process id
  NoPid           \* no process id

AllPolicies == {"force", "tree", "graceful", "gracefulTree"}

ASSUME ChildAssumption ==
  /\ Inherited \subseteq Panes
  /\ \A p \in Panes : Policies(p) \subseteq AllPolicies
  /\ MaxQueued \in Nat \ {0}
  /\ SwapLimit \in Nat
  /\ Foreign \notin Panes /\ NoOne \notin Panes /\ Foreign # NoOne
  /\ NoPid \notin Pids

VARIABLES
  proc,       \* state of the process under each id: "free", "running", "ended"
  owner,      \* whose process it is
  paneState,  \* "new", "open" (in `pane_by_id`) or "closed"
  pid,        \* `kill_control`: the pane's process id
  exit,       \* `observed_exit`: "none", "kept" (its zombie is) or "lost"
  isLeft,     \* `is_left_running`
  watcher,    \* where the pane's watcher is
  saw,        \* the watcher's `observed_exit`
  killer,     \* where the thread that closes the pane is
  policy,     \* its `kill_policy`
  isReserved, \* its `is_process_group_reserved`
  leftIds,    \* `left_running_child_process_ids`
  reaper,     \* where the thread of a left-running id of an earlier image is
  ending,     \* ids the thread of `reap_ended_children` waits for
  writer,     \* "idle", "writing" or "gone"
  queue,      \* the writer's channel: "bytes", "barrier", "stale", "stop"
  queued,     \* `queued_input_byte_count`
  barriers,   \* panes whose writer has not answered the flush
  swapPc,     \* where the dispatcher is in `swap_session_image`
  carried,    \* each pane in the resume header: "no", "live" or "lost"
  conflicting,\* panes whose process id the header names twice
  carriedIds, \* `left_running_child_process_ids` of the resume body
  forgotten,  \* ids no image reaps any more, by a failure the code reports
  astray,     \* a signal or a reap reached a process that was not its pane's
  swaps       \* image swaps started so far

kernelVars == <<proc, owner>>
paneVars == <<paneState, pid, exit, isLeft>>
watchVars == <<watcher, saw>>
killVars == <<killer, policy, isReserved>>
reapVars == <<leftIds, reaper, ending, forgotten>>
inputVars == <<writer, queue, queued, barriers>>
swapVars == <<swapPc, carried, conflicting, carriedIds, swaps>>
vars == <<kernelVars, paneVars, watchVars, killVars, reapVars, inputVars,
          swapVars, astray>>

Exits == {"none", "kept", "lost"}
WatcherStates == {"none", "waiting", "saw", "reaping", "leaving", "releasing", "done"}
KillerStates == {"none", "removing", "checking", "asking", "grace", "killing",
                 "killingTree", "releasing", "waiting", "inserting", "leaving",
                 "removingId", "joining", "reaping", "done"}
SwapStates == {"serving", "flushing", "told", "carrying", "flushingAgain",
               "writing", "reading", "takingBack", "watching"}
Messages == {"bytes", "barrier", "stale", "stop"}

Init ==
  /\ proc = [i \in Pids |-> "free"]
  /\ owner = [i \in Pids |-> NoOne]
  /\ pid \in [Panes -> Pids \cup {NoPid}]
  /\ \A p \in Panes \ Inherited : pid[p] = NoPid
  /\ paneState = [p \in Panes |-> IF pid[p] = NoPid THEN "new" ELSE "open"]
  /\ exit = [p \in Panes |-> IF pid[p] = NoPid THEN "none" ELSE "lost"]
  /\ isLeft = [p \in Panes |-> FALSE]
  /\ watcher = [p \in Panes |-> IF pid[p] = NoPid THEN "none" ELSE "saw"]
  /\ saw = exit
  /\ killer = [p \in Panes |-> "none"]
  /\ policy = [p \in Panes |-> "force"]
  /\ isReserved = [p \in Panes |-> FALSE]
  /\ leftIds = {} /\ ending = {} /\ forgotten = {}
  /\ reaper = [i \in Pids |-> "none"]
  /\ writer = [p \in Panes |-> IF pid[p] = NoPid THEN "gone" ELSE "idle"]
  /\ queue = [p \in Panes |-> <<>>]
  /\ queued = [p \in Panes |-> 0]
  /\ barriers = {}
  /\ swapPc = "serving"
  /\ carried = [p \in Panes |-> "no"]
  /\ carriedIds = {} /\ conflicting = {}
  /\ astray = FALSE
  /\ swaps = 0

-----------------------------------------------------------------------------
(* The kernel.                                                             *)

IsChild(i) == owner[i] \in Panes

\* A child ends by itself, by a signal or by the hangup, and stays a zombie.
ChildEnds(i) ==
  /\ proc[i] = "running" /\ IsChild(i)
  /\ proc' = [proc EXCEPT ![i] = "ended"]
  /\ UNCHANGED <<owner, paneVars, watchVars, killVars, reapVars, inputVars,
                 swapVars, astray>>

\* A process of somebody else starts under a free id, or ends.
ForeignStarts(i) ==
  /\ proc[i] = "free"
  /\ proc' = [proc EXCEPT ![i] = "running"]
  /\ owner' = [owner EXCEPT ![i] = Foreign]
  /\ UNCHANGED <<paneVars, watchVars, killVars, reapVars, inputVars, swapVars,
                 astray>>

ForeignEnds(i) ==
  /\ owner[i] = Foreign
  /\ proc' = [proc EXCEPT ![i] = "free"]
  /\ owner' = [owner EXCEPT ![i] = NoOne]
  /\ UNCHANGED <<paneVars, watchVars, killVars, reapVars, inputVars, swapVars,
                 astray>>

\* reap_child: `waitpid` with WNOHANG under id i, meant for pane p's child.
\* It takes an ended child and passes over everything else.
ReapChild(i, meant) ==
  IF proc[i] = "ended" /\ IsChild(i)
  THEN /\ proc' = [proc EXCEPT ![i] = "free"]
       /\ owner' = [owner EXCEPT ![i] = NoOne]
       /\ astray' = (astray \/ owner[i] \notin meant)
  ELSE UNCHANGED <<kernelVars, astray>>

\* send_signal to the process or the group under id i.
SendSignal(i, meant) ==
  astray' = (astray \/ (proc[i] # "free" /\ owner[i] \notin meant))

Signal(p) == SendSignal(pid[p], {p})

-----------------------------------------------------------------------------
(* Opening a pane and writing to it, on the dispatcher.                    *)

\* The dispatcher applies commands while it serves, and while it waits for
\* the clients it told of the restart to leave.
Applying == swapPc \in {"serving", "told"}

\* `left_running_child_process_ids` and the list of `reap_ended_children` name
\* processes by id alone, and a thread takes an id off them right after the
\* reap.  The system hands ids out in a cycle: one still listed is not given to
\* a new child.
Reusable(i) == proc[i] = "free" /\ i \notin leftIds \cup ending

SpawnPane(p, i) ==
  /\ Applying /\ paneState[p] = "new"
  /\ Reusable(i)
  /\ proc' = [proc EXCEPT ![i] = "running"]
  /\ owner' = [owner EXCEPT ![i] = p]
  /\ paneState' = [paneState EXCEPT ![p] = "open"]
  /\ pid' = [pid EXCEPT ![p] = i]
  /\ watcher' = [watcher EXCEPT ![p] = "waiting"]
  /\ writer' = [writer EXCEPT ![p] = "idle"]
  /\ UNCHANGED <<exit, isLeft, saw, killVars, reapVars, queue, queued,
                 barriers, swapVars, astray>>

\* queue_pane_input: refused when the budget is spent; the count is taken
\* back when the writer has ended.
QueueInput(p) ==
  /\ paneState[p] = "open" /\ p \in TypedInto
  /\ queued[p] + 1 <= MaxQueued
  /\ writer[p] # "gone"
  /\ queued' = [queued EXCEPT ![p] = @ + 1]
  /\ queue' = [queue EXCEPT ![p] = Append(@, "bytes")]
  /\ UNCHANGED <<writer, barriers>>

WritePaneInput(p) ==
  /\ Applying
  /\ QueueInput(p)
  /\ UNCHANGED <<kernelVars, paneVars, watchVars, killVars, reapVars,
                 swapVars, astray>>

\* kill_pane_off_thread: the kill of a pane that left the session.
KillOffThread(p, k) ==
  /\ Applying
  /\ paneState[p] = "open" /\ killer[p] = "none"
  /\ killer' = [killer EXCEPT ![p] = "removing"]
  /\ policy' = [policy EXCEPT ![p] = k]
  /\ UNCHANGED <<kernelVars, paneVars, watchVars, isReserved, reapVars,
                 inputVars, swapVars, astray>>

-----------------------------------------------------------------------------
(* The writer thread.                                                      *)

\* `Stop`: the channel goes with the thread, and the barriers in it.
WriterStops(p) ==
  /\ writer' = [writer EXCEPT ![p] = "gone"]
  /\ queue' = [queue EXCEPT ![p] = <<>>]
  /\ barriers' = barriers \ {p}
  /\ UNCHANGED queued

WriterAnswers(p) ==
  /\ queue' = [queue EXCEPT ![p] = Tail(@)]
  /\ barriers' = IF Head(queue[p]) = "barrier" THEN barriers \ {p} ELSE barriers
  /\ UNCHANGED <<writer, queued>>

WriterTakes(p) ==
  /\ writer[p] = "idle" /\ queue[p] # <<>>
  /\ \/ /\ Head(queue[p]) = "bytes"
        /\ writer' = [writer EXCEPT ![p] = "writing"]
        /\ queue' = [queue EXCEPT ![p] = Tail(@)]
        /\ UNCHANGED <<queued, barriers>>
     \/ Head(queue[p]) \in {"barrier", "stale"} /\ WriterAnswers(p)
     \/ Head(queue[p]) = "stop" /\ WriterStops(p)
  /\ UNCHANGED <<kernelVars, paneVars, watchVars, killVars, reapVars,
                 swapVars, astray>>

\* Mutant of WriteEnds: a write that failed keeps its bytes counted.
WriteEndsCounted(p) ==
  /\ writer[p] = "writing"
  /\ writer' = [writer EXCEPT ![p] = "idle"]
  /\ \/ queued' = [queued EXCEPT ![p] = @ - 1]
     \/ UNCHANGED queued
  /\ UNCHANGED <<kernelVars, paneVars, watchVars, killVars, reapVars, queue,
                 barriers, swapVars, astray>>

\* The write ends, or fails: the bytes leave the count either way.
WriteEnds(p) ==
  /\ writer[p] = "writing"
  /\ writer' = [writer EXCEPT ![p] = "idle"]
  /\ queued' = [queued EXCEPT ![p] = @ - 1]
  /\ UNCHANGED <<kernelVars, paneVars, watchVars, killVars, reapVars, queue,
                 barriers, swapVars, astray>>

QueueStop(p) ==
  queue' = IF writer[p] = "gone" THEN queue
           ELSE [queue EXCEPT ![p] = Append(@, "stop")]

-----------------------------------------------------------------------------
(* The watcher thread.                                                     *)

\* wait_for_child_exit: an ended child answers and stays; an id that names no
\* child of this process answers at once.
WaitResult(i) ==
  CASE IsChild(i) /\ proc[i] = "ended" -> "kept"
    [] ~IsChild(i) -> "lost"
    [] OTHER -> "none"

WatcherSees(p) ==
  /\ watcher[p] = "waiting"
  /\ WaitResult(pid[p]) # "none"
  /\ saw' = [saw EXCEPT ![p] = WaitResult(pid[p])]
  /\ watcher' = [watcher EXCEPT ![p] = "saw"]
  /\ UNCHANGED <<kernelVars, paneVars, killVars, reapVars, inputVars,
                 swapVars, astray>>

\* Mutant of WatcherRecords: the reap is always left to the close.
WatcherRecordsOnly(p) ==
  /\ watcher[p] = "saw"
  /\ exit' = [exit EXCEPT ![p] = IF @ = "none" THEN saw[p] ELSE @]
  /\ watcher' = [watcher EXCEPT ![p] = "releasing"]
  /\ UNCHANGED <<kernelVars, paneState, pid, isLeft, saw, killVars, reapVars,
                 inputVars, swapVars, astray>>

\* publish_observed_exit: the first exit stays; a pane whose close stopped
\* waiting leaves the reap to the watcher.
WatcherRecords(p) ==
  /\ watcher[p] = "saw"
  /\ exit' = [exit EXCEPT ![p] = IF @ = "none" THEN saw[p] ELSE @]
  /\ watcher' = [watcher EXCEPT ![p] =
       CASE ~isLeft[p] -> "releasing"
         [] isLeft[p] /\ saw[p] = "kept" -> "reaping"
         [] OTHER -> "leaving"]
  /\ UNCHANGED <<kernelVars, paneState, pid, isLeft, saw, killVars, reapVars,
                 inputVars, swapVars, astray>>

WatcherReaps(p) ==
  /\ watcher[p] = "reaping"
  /\ ReapChild(pid[p], {p})
  /\ watcher' = [watcher EXCEPT ![p] = "leaving"]
  /\ UNCHANGED <<paneVars, saw, killVars, reapVars, inputVars, swapVars>>

WatcherLeaves(p) ==
  /\ watcher[p] = "leaving"
  /\ leftIds' = leftIds \ {pid[p]}
  /\ watcher' = [watcher EXCEPT ![p] = "releasing"]
  /\ UNCHANGED <<kernelVars, paneVars, saw, killVars, reaper, ending,
                 forgotten, inputVars, swapVars, astray>>

\* The status is handed on, the writer is stopped, the doorbell rung.
WatcherReleases(p) ==
  /\ watcher[p] = "releasing"
  /\ QueueStop(p)
  /\ watcher' = [watcher EXCEPT ![p] = "done"]
  /\ UNCHANGED <<kernelVars, paneVars, saw, killVars, reapVars, writer,
                 queued, barriers, swapVars, astray>>

WatcherSteps(p) ==
  \/ WatcherSees(p)
  \/ WatcherRecords(p)
  \/ WatcherReaps(p)
  \/ WatcherLeaves(p)
  \/ WatcherReleases(p)

-----------------------------------------------------------------------------
(* kill_pane, on a thread of its own.                                      *)

\* A step of the closing thread that touches nothing but its own place.
KillerGoes(p, from, to) ==
  /\ killer[p] = from
  /\ killer' = [killer EXCEPT ![p] = to]
  /\ UNCHANGED <<policy, watchVars, swapVars>>

HasExited(p) == exit[p] # "none"

\* Mutant of KillRemoves: an ended leader's ids are taken as reserved.
KillRemovesReserving(p) ==
  /\ killer[p] = "removing"
  /\ killer' = [killer EXCEPT ![p] = "checking"]
  /\ paneState' = [paneState EXCEPT ![p] = "closed"]
  /\ isReserved' = [isReserved EXCEPT ![p] = TRUE]
  /\ UNCHANGED <<kernelVars, pid, exit, isLeft, watchVars, policy, reapVars,
                 inputVars, swapVars, astray>>

\* The pane leaves `pane_by_id`; whether its ids are reserved is read once.
KillRemoves(p) ==
  /\ killer[p] = "removing"
  /\ killer' = [killer EXCEPT ![p] = "checking"]
  /\ paneState' = [paneState EXCEPT ![p] = "closed"]
  /\ isReserved' = [isReserved EXCEPT ![p] = exit[p] # "lost"]
  /\ UNCHANGED <<kernelVars, pid, exit, isLeft, watchVars, policy, reapVars,
                 inputVars, swapVars, astray>>

AfterCheck(p) ==
  CASE policy[p] = "force" -> IF HasExited(p) THEN "releasing" ELSE "killing"
    [] policy[p] = "tree" -> "killingTree"
    [] policy[p] = "graceful" -> IF HasExited(p) THEN "releasing" ELSE "asking"
    [] OTHER -> IF HasExited(p) THEN "killingTree" ELSE "asking"

KillChecks(p) ==
  /\ KillerGoes(p, "checking", AfterCheck(p))
  /\ UNCHANGED <<kernelVars, paneVars, isReserved, reapVars, inputVars, astray>>

AfterGrace(p) == IF policy[p] = "gracefulTree" THEN "killingTree" ELSE "killing"

\* request_child_stop or request_process_tree_stop; a request nothing
\* received spends no grace window.
KillAsks(p) ==
  /\ \/ KillerGoes(p, "asking", "grace")
     \/ KillerGoes(p, "asking", AfterGrace(p))
  /\ Signal(p)
  /\ UNCHANGED <<kernelVars, paneVars, isReserved, reapVars, inputVars>>

\* is_child_stopped_within_grace: the leader ended, or the window ran out.
KillGraceEnds(p) ==
  /\ \/ /\ HasExited(p)
        /\ KillerGoes(p, "grace",
             IF policy[p] = "graceful" THEN "releasing" ELSE AfterGrace(p))
     \/ /\ ~HasExited(p)
        /\ KillerGoes(p, "grace", AfterGrace(p))
  /\ UNCHANGED <<kernelVars, paneVars, isReserved, reapVars, inputVars, astray>>

ForceKillChild(p) ==
  /\ KillerGoes(p, "killing", "releasing")
  /\ Signal(p)
  /\ UNCHANGED <<kernelVars, paneVars, isReserved, reapVars, inputVars>>

ForceKillTree(p) ==
  /\ KillerGoes(p, "killingTree", "releasing")
  /\ IF isReserved[p] THEN Signal(p) ELSE UNCHANGED astray
  /\ UNCHANGED <<kernelVars, paneVars, isReserved, reapVars, inputVars>>

\* The writer is stopped and the terminal let go.
KillReleases(p) ==
  /\ KillerGoes(p, "releasing", "waiting")
  /\ QueueStop(p)
  /\ UNCHANGED <<kernelVars, paneVars, isReserved, reapVars, writer, queued,
                 barriers, astray>>

\* wait_for_exit, for GRACEFUL_TIMEOUT_DURATION.
KillWaits(p) ==
  /\ KillerGoes(p, "waiting", IF HasExited(p) THEN "joining" ELSE "inserting")
  /\ UNCHANGED <<kernelVars, paneVars, isReserved, reapVars, inputVars, astray>>

KillInserts(p) ==
  /\ KillerGoes(p, "inserting", "leaving")
  /\ leftIds' = leftIds \cup {pid[p]}
  /\ UNCHANGED <<kernelVars, paneVars, isReserved, reaper, ending, forgotten,
                 inputVars, astray>>

\* leave_child_running: the child is left to its watcher, unless its exit was
\* recorded first.
KillLeaves(p) ==
  /\ KillerGoes(p, "leaving", IF HasExited(p) THEN "removingId" ELSE "done")
  /\ isLeft' = [isLeft EXCEPT ![p] = ~HasExited(p)]
  /\ UNCHANGED <<kernelVars, paneState, pid, exit, isReserved, reapVars,
                 inputVars, astray>>

KillRemovesId(p) ==
  /\ KillerGoes(p, "removingId", "joining")
  /\ leftIds' = leftIds \ {pid[p]}
  /\ UNCHANGED <<kernelVars, paneVars, isReserved, reaper, ending, forgotten,
                 inputVars, astray>>

KillJoins(p) ==
  /\ watcher[p] = "done"
  /\ KillerGoes(p, "joining", IF exit[p] = "kept" THEN "reaping" ELSE "done")
  /\ UNCHANGED <<kernelVars, paneVars, isReserved, reapVars, inputVars, astray>>

KillReaps(p) ==
  /\ KillerGoes(p, "reaping", "done")
  /\ ReapChild(pid[p], {p})
  /\ UNCHANGED <<paneVars, isReserved, reapVars, inputVars>>

KillerSteps(p) ==
  \/ KillRemoves(p) \/ KillChecks(p) \/ KillAsks(p) \/ KillGraceEnds(p)
  \/ ForceKillChild(p) \/ ForceKillTree(p) \/ KillReleases(p)
  \/ KillWaits(p) \/ KillInserts(p) \/ KillLeaves(p) \/ KillRemovesId(p)
  \/ KillJoins(p) \/ KillReaps(p)

-----------------------------------------------------------------------------
(* The swap of the image, on the dispatcher.                               *)

\* Writers a flush asks: those whose channel is still open.
Asked == {p \in Panes : paneState[p] = "open" /\ writer[p] # "gone"}

\* flush_writers sends a barrier down each writer's channel.
SendBarriers ==
  /\ barriers' = Asked
  /\ queue' = [p \in Panes |->
       IF p \in Asked THEN Append(queue[p], "barrier") ELSE queue[p]]
  /\ UNCHANGED <<writer, queued>>

\* A flush that gave up answers nobody: its barriers are left in the channels.
DropBarriers ==
  /\ barriers' = {}
  /\ queue' = [p \in Panes |->
       [k \in 1 .. Len(queue[p]) |->
          IF queue[p][k] = "barrier" THEN "stale" ELSE queue[p][k]]]
  /\ UNCHANGED <<writer, queued>>

\* The readers are held and the writers waited on for the first time.
SwapStarts ==
  /\ swapPc = "serving" /\ swaps < SwapLimit
  /\ swapPc' = "flushing"
  /\ swaps' = swaps + 1
  /\ SendBarriers
  /\ UNCHANGED <<kernelVars, paneVars, watchVars, killVars, reapVars, carried,
                 conflicting, carriedIds, astray>>

\* Every writer answered: the clients are told, or the state is written.
FlushSettles ==
  /\ swapPc \in {"flushing", "flushingAgain"}
  /\ barriers = {}
  /\ swapPc' = IF swapPc = "flushing" THEN "told" ELSE "writing"
  /\ UNCHANGED <<kernelVars, paneVars, watchVars, killVars, reapVars,
                 inputVars, carried, conflicting, carriedIds, swaps, astray>>

\* A writer did not answer within a second: the session keeps serving.
FlushFails ==
  /\ swapPc \in {"flushing", "flushingAgain"}
  /\ barriers # {}
  /\ swapPc' = "serving"
  /\ DropBarriers
  /\ UNCHANGED <<kernelVars, paneVars, watchVars, killVars, reapVars, carried,
                 conflicting, carriedIds, swaps, astray>>

KillsHaveEnded == \A p \in Panes : killer[p] \in {"none", "done"}

\* list_carried_panes: an exit goes along only when no image can wait for the
\* child any more.
CarriedPane(p) ==
  CASE paneState[p] # "open" -> "no"
    [] paneState[p] = "open" /\ exit[p] = "lost" -> "lost"
    [] OTHER -> "live"

\* Requests are refused from here on; every kill is waited for.
CarryPanes ==
  /\ swapPc = "told"
  /\ KillsHaveEnded
  /\ swapPc' = "carrying"
  /\ carried' = [p \in Panes |-> CarriedPane(p)]
  /\ UNCHANGED <<kernelVars, paneVars, watchVars, killVars, reapVars,
                 inputVars, conflicting, carriedIds, swaps, astray>>

\* carry_out writes a release for each mouse button a client still holds.
WriteRelease(p) ==
  /\ swapPc = "carrying"
  /\ QueueInput(p)
  /\ UNCHANGED <<kernelVars, paneVars, watchVars, killVars, reapVars,
                 swapVars, astray>>

\* Mutant of FlushAgain: the writers are not waited on a second time.
FlushOnce ==
  /\ swapPc = "carrying"
  /\ swapPc' = "flushingAgain"
  /\ carriedIds' = leftIds
  /\ UNCHANGED <<kernelVars, paneVars, watchVars, killVars, reapVars, inputVars,
                 carried, conflicting, swaps, astray>>

\* The ids left running are listed and the writers waited on again.
FlushAgain ==
  /\ swapPc = "carrying"
  /\ swapPc' = "flushingAgain"
  /\ carriedIds' = leftIds
  /\ SendBarriers
  /\ UNCHANGED <<kernelVars, paneVars, watchVars, killVars, reapVars, carried,
                 conflicting, swaps, astray>>

\* The resume file cannot be written, or the new image does not start.
SwapFails ==
  /\ swapPc = "writing"
  /\ swapPc' = "serving"
  /\ UNCHANGED <<kernelVars, paneVars, watchVars, killVars, reapVars,
                 inputVars, carried, conflicting, carriedIds, swaps, astray>>

\* The new image starts; the threads of the old one are gone, with the waits
\* of `reap_ended_children`.
Exec ==
  /\ swapPc = "writing"
  /\ swapPc' = "reading"
  /\ paneState' = [p \in Panes |-> IF paneState[p] = "open" THEN "closed" ELSE paneState[p]]
  /\ exit' = [p \in Panes |-> "none"]
  /\ isLeft' = [p \in Panes |-> FALSE]
  /\ watcher' = [p \in Panes |-> "none"]
  /\ saw' = [p \in Panes |-> "none"]
  /\ leftIds' = {} /\ ending' = {}
  /\ reaper' = [i \in Pids |-> "none"]
  /\ forgotten' = forgotten \cup ending
  /\ writer' = [p \in Panes |-> "gone"]
  /\ queue' = [p \in Panes |-> <<>>]
  /\ queued' = [p \in Panes |-> 0]
  /\ UNCHANGED <<kernelVars, pid, killVars, barriers, carried, conflicting, carriedIds,
                 swaps, astray>>

\* find_conflicting_carried_pane_indexes: two panes carry one process id.
Conflicting ==
  {p \in Panes : carried[p] # "no"
     /\ \E q \in Panes \ {p} : carried[q] # "no" /\ pid[q] = pid[p]}

\* The header reads; a body that does not leaves the ids in it unknown.
ReadResumeFile ==
  /\ swapPc = "reading"
  /\ swapPc' = "takingBack"
  /\ conflicting' = Conflicting
  /\ \/ UNCHANGED <<carriedIds, forgotten>>
     \/ carriedIds' = {} /\ forgotten' = forgotten \cup carriedIds
  /\ UNCHANGED <<kernelVars, paneVars, watchVars, killVars, leftIds, reaper,
                 ending, inputVars, carried, swaps, astray>>

EndedChildren == {i \in Pids : IsChild(i) /\ proc[i] = "ended"}
RunningChildren == {i \in Pids : IsChild(i) /\ proc[i] = "running"}

\* release_panes_without_header: every child of this process is ended.
ReadNothing ==
  /\ swapPc = "reading"
  /\ swapPc' = "serving"
  /\ proc' = [i \in Pids |-> IF i \in EndedChildren THEN "free" ELSE proc[i]]
  /\ owner' = [i \in Pids |-> IF i \in EndedChildren THEN NoOne ELSE owner[i]]
  /\ ending' = RunningChildren
  /\ carried' = [p \in Panes |-> "no"]
  /\ carriedIds' = {}
  /\ UNCHANGED <<paneVars, watchVars, killVars, leftIds, reaper, forgotten,
                 inputVars, conflicting, swaps, astray>>

\* adopt: the pane is built around the terminal and the id it came with.
TakeOneBack(p) ==
  /\ swapPc = "takingBack" /\ carried[p] # "no" /\ p \notin conflicting
  /\ paneState' = [paneState EXCEPT ![p] = "open"]
  /\ exit' = [exit EXCEPT ![p] = IF carried[p] = "lost" THEN "lost" ELSE "none"]
  /\ saw' = [saw EXCEPT ![p] = exit'[p]]
  /\ watcher' = [watcher EXCEPT ![p] =
       IF carried[p] = "lost" THEN "saw" ELSE "waiting"]
  /\ writer' = [writer EXCEPT ![p] = "idle"]
  /\ carried' = [carried EXCEPT ![p] = "no"]
  /\ UNCHANGED <<kernelVars, pid, isLeft, killVars, reapVars, queue, queued,
                 barriers, swapPc, conflicting, carriedIds, swaps, astray>>

ClosedPanes == {p \in Panes : paneState[p] = "closed"}

\* end_carried_child: a pane in conflict with another, or one that cannot be
\* taken back, has the child under its id ended, if this process has one.
TakeOneFails(p) ==
  /\ swapPc = "takingBack" /\ carried[p] # "no"
  /\ IF pid[p] \in RunningChildren
     THEN /\ SendSignal(pid[p], ClosedPanes)
          /\ ending' = ending \cup {pid[p]}
          /\ UNCHANGED kernelVars
     ELSE ReapChild(pid[p], ClosedPanes) /\ UNCHANGED ending
  /\ carried' = [carried EXCEPT ![p] = "no"]
  /\ UNCHANGED <<paneVars, watchVars, killVars, leftIds, reaper, forgotten,
                 inputVars, swapPc, conflicting, carriedIds, swaps>>

\* watch_left_running_children: one thread for each id the body named.
WatchLeftRunning ==
  /\ swapPc = "takingBack"
  /\ \A p \in Panes : carried[p] = "no"
  /\ swapPc' = "serving"
  /\ leftIds' = carriedIds
  /\ reaper' = [i \in Pids |-> IF i \in carriedIds THEN "waiting" ELSE "none"]
  /\ carriedIds' = {} /\ conflicting' = {}
  /\ UNCHANGED <<kernelVars, paneVars, watchVars, killVars, ending, forgotten,
                 inputVars, carried, swaps, astray>>

-----------------------------------------------------------------------------
(* The threads that reap what an earlier image left.                       *)

ReaperSees(i) ==
  /\ reaper[i] = "waiting" /\ WaitResult(i) # "none"
  /\ reaper' = [reaper EXCEPT ![i] =
       IF WaitResult(i) = "kept" THEN "reaping" ELSE "leaving"]
  /\ UNCHANGED <<kernelVars, paneVars, watchVars, killVars, leftIds, ending,
                 forgotten, inputVars, swapVars, astray>>

ReaperReaps(i) ==
  /\ reaper[i] = "reaping"
  /\ ReapChild(i, ClosedPanes)
  /\ reaper' = [reaper EXCEPT ![i] = "leaving"]
  /\ UNCHANGED <<paneVars, watchVars, killVars, leftIds, ending, forgotten,
                 inputVars, swapVars>>

ReaperLeaves(i) ==
  /\ reaper[i] = "leaving"
  /\ leftIds' = leftIds \ {i}
  /\ reaper' = [reaper EXCEPT ![i] = "none"]
  /\ UNCHANGED <<kernelVars, paneVars, watchVars, killVars, ending, forgotten,
                 inputVars, swapVars, astray>>

\* reap_ended_children waits for a child until it has ended.
EndedIsTaken(i) ==
  /\ i \in ending /\ WaitResult(i) # "none"
  /\ ReapChild(i, ClosedPanes)
  /\ ending' = ending \ {i}
  /\ UNCHANGED <<paneVars, watchVars, killVars, leftIds, reaper, forgotten,
                 inputVars, swapVars>>

ReaperSteps(i) ==
  \/ ReaperSees(i) \/ ReaperReaps(i) \/ ReaperLeaves(i) \/ EndedIsTaken(i)

SwapSteps ==
  \/ FlushSettles \/ FlushFails \/ CarryPanes \/ FlushAgain
  \/ SwapFails \/ Exec \/ ReadResumeFile \/ ReadNothing \/ WatchLeftRunning
  \/ \E p \in Panes : TakeOneBack(p) \/ TakeOneFails(p)

Next ==
  \/ \E i \in Pids : ChildEnds(i) \/ ForeignStarts(i) \/ ForeignEnds(i)
  \/ \E p \in Panes, i \in Pids : SpawnPane(p, i)
  \/ \E p \in Panes : WritePaneInput(p) \/ WriteRelease(p)
  \/ \E p \in Panes : \E k \in Policies(p) : KillOffThread(p, k)
  \/ \E p \in Panes : WriterTakes(p) \/ WriteEnds(p)
  \/ \E p \in Panes : WatcherSteps(p) \/ KillerSteps(p)
  \/ \E i \in Pids : ReaperSteps(i)
  \/ SwapStarts \/ SwapSteps

Spec == Init /\ [][Next]_vars

\* Every thread of the process is scheduled; a child takes its input.
Fairness ==
  /\ \A p \in Panes : WF_vars(WatcherSteps(p)) /\ WF_vars(KillerSteps(p))
  /\ \A p \in Panes : WF_vars(WriterTakes(p)) /\ WF_vars(WriteEnds(p))
  /\ \A i \in Pids : WF_vars(ReaperSteps(i))
  /\ WF_vars(SwapSteps)

FairSpec == Spec /\ Fairness

-----------------------------------------------------------------------------

\* Every variable has its type; input that waits for a pane stays within the
\* budget of `queue_pane_input` and its count never falls below zero.
TypeOK ==
  /\ proc \in [Pids -> {"free", "running", "ended"}]
  /\ owner \in [Pids -> Panes \cup {Foreign, NoOne}]
  /\ paneState \in [Panes -> {"new", "open", "closed"}]
  /\ pid \in [Panes -> Pids \cup {NoPid}]
  /\ exit \in [Panes -> Exits] /\ saw \in [Panes -> Exits]
  /\ isLeft \in [Panes -> BOOLEAN] /\ isReserved \in [Panes -> BOOLEAN]
  /\ watcher \in [Panes -> WatcherStates]
  /\ killer \in [Panes -> KillerStates] /\ policy \in [Panes -> AllPolicies]
  /\ leftIds \subseteq Pids /\ ending \subseteq Pids /\ forgotten \subseteq Pids
  /\ reaper \in [Pids -> {"none", "waiting", "reaping", "leaving"}]
  /\ writer \in [Panes -> {"idle", "writing", "gone"}]
  /\ \A p \in Panes : queue[p] \in Seq(Messages)
  /\ queued \in [Panes -> 0 .. MaxQueued]
  /\ barriers \subseteq Panes
  /\ swapPc \in SwapStates
  /\ carried \in [Panes -> {"no", "live", "lost"}]
  /\ carriedIds \subseteq Pids /\ conflicting \subseteq Panes
  /\ astray \in BOOLEAN
  /\ swaps \in 0 .. SwapLimit

\* No signal of `kill_pane` or of a failed take-back, and no reap by the
\* closing thread, the watcher or a later image, reaches a process other than
\* the pane's own, although ids are given out again once reaped.
OnlyOwnProcesses == ~astray

\* A child that is not reaped is always somebody's to reap: its pane is open
\* or being closed, or it is written down as left running or as ended, in this
\* image or on its way to the next.
NoChildIsForgotten ==
  \A i \in Pids : IsChild(i) =>
    \/ paneState[owner[i]] = "open"
    \/ killer[owner[i]] \notin {"none", "done"}
    \/ i \in leftIds \cup ending \cup forgotten
    \/ swapPc \in {"reading", "takingBack"}
         /\ (carried[owner[i]] # "no" \/ i \in carriedIds)

\* An ended child of a closed pane is reaped, whichever of the closing thread,
\* the watcher and a later image has it to do.
EndedIsReaped ==
  \A i \in Pids :
    (IsChild(i) /\ proc[i] = "ended" /\ paneState[owner[i]] = "closed")
      ~> \/ proc[i] # "ended"
         \/ i \in forgotten
         \/ paneState[owner[i]] = "open"

\* The image is replaced only once every write taken for a child that runs is
\* on its terminal: the queues of the old image die with it.
NoInputIsLostToSwap ==
  [][(swapPc = "writing" /\ swapPc' = "reading") =>
       \A p \in Panes : carried[p] = "live" /\ exit[p] = "none" =>
         writer[p] # "writing" /\ ~Contains(queue[p], "bytes")]_vars

\* A pane whose input budget is spent takes input again, as long as its child
\* runs and the pane is not closed.
FullInputGetsRoom ==
  \A p \in Panes :
    queued[p] = MaxQueued
      ~> (queued[p] < MaxQueued \/ exit[p] # "none" \/ paneState[p] = "closed")

\* The threads that signal and reap deal with every child of the session and
\* with no other process.
ProcessesAreOurs == TypeOK /\ OnlyOwnProcesses /\ NoChildIsForgotten
=============================================================================
