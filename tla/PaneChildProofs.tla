--------------------------- MODULE PaneChildProofs ---------------------------
(***************************************************************************)
(* Proofs about PaneChild, for any panes, process ids, policies and bounds *)
(* and any number of image swaps: no signal and no reap reaches a process  *)
(* that is not the pane's own, no child is forgotten, and no input taken   *)
(* for a running child is lost to a swap.                                  *)
(***************************************************************************)
EXTENDS PaneChild, FiniteSetTheorems, TLAPS

-----------------------------------------------------------------------------
(* The inductive invariant                                                 *)

\* The writes waiting in a channel.
ByteIndexes(s) == {k \in 1 .. Len(s) : s[k] = "bytes"}

\* The closing thread of the pane is at work.
Active(p) == killer[p] \notin {"none", "done"}

\* The pane's process id still names the pane's own child, alive or a zombie.
Owns(p) == pid[p] \in Pids /\ owner[pid[p]] = p

\* A child under this id is one of a pane no thread of this image has in hand.
Settled(i) ==
  IsChild(i) =>
    /\ paneState[owner[i]] = "closed"
    /\ ~Active(owner[i])
    /\ watcher[owner[i]] = "none"

\* A free id is nobody's, and a child is found under the id of its pane.
KernelOK ==
  /\ \A i \in Pids : proc[i] = "free" <=> owner[i] = NoOne
  /\ \A i \in Pids : IsChild(i) => pid[owner[i]] = i

\* What a pane's state says of its id, its child and its closing thread.
PaneOK(p) ==
  /\ paneState[p] = "new" =>
       pid[p] = NoPid /\ watcher[p] = "none" /\ killer[p] = "none" /\ exit[p] = "none"
  /\ paneState[p] # "new" => pid[p] \in Pids
  /\ paneState[p] = "open" => killer[p] \in {"none", "removing"}
  /\ killer[p] = "removing" => paneState[p] = "open"
  /\ Active(p) /\ killer[p] # "removing" => paneState[p] = "closed"
  /\ exit[p] = "lost" => ~Owns(p)
  /\ paneState[p] = "open" \/ Active(p) => watcher[p] # "none"
  /\ exit[p] # "lost" /\ (paneState[p] = "open" \/ Active(p)) => Owns(p)
  /\ exit[p] = "kept" /\ Owns(p) => proc[pid[p]] = "ended"

\* What the watcher's place says: it waits for the pane's own child, and takes
\* an id off the list while nobody else has it there.
WatcherOK(p) ==
  /\ watcher[p] = "waiting" => exit[p] = "none" /\ Owns(p)
  /\ watcher[p] = "saw" =>
       \/ saw[p] = "kept" /\ exit[p] = "none" /\ Owns(p) /\ proc[pid[p]] = "ended"
       \/ saw[p] = "lost" /\ exit[p] = "lost"
  /\ watcher[p] = "reaping" => isLeft[p] /\ exit[p] = "kept" /\ Owns(p)
  /\ watcher[p] = "leaving" =>
       /\ pid[p] \in leftIds /\ ~IsChild(pid[p]) /\ reaper[pid[p]] = "none"
       /\ \A q \in Panes \ {p} : watcher[q] = "leaving" => pid[q] # pid[p]
  /\ watcher[p] \in {"leaving", "releasing", "done"} => exit[p] # "none"
  /\ isLeft[p] =>
       /\ killer[p] = "done" /\ paneState[p] = "closed" /\ exit[p] # "lost"
       /\ watcher[p] # "none"
       /\ watcher[p] \in {"waiting", "saw", "reaping"} => pid[p] \in leftIds

\* What the closing thread's place says: the ids it signals are the child's.
KillerOK(p) ==
  /\ killer[p] \in {"asking", "grace", "killing", "inserting", "leaving", "removingId"}
       => exit[p] # "lost"
  /\ killer[p] \in {"removingId", "joining", "reaping"} => exit[p] # "none"
  /\ killer[p] = "reaping" => exit[p] = "kept" /\ watcher[p] = "done"
  /\ killer[p] \in {"leaving", "removingId"} => pid[p] \in leftIds
  /\ isReserved[p] => killer[p] \notin {"none", "removing"} /\ exit[p] # "lost"

\* The listed ids: a child under one is of a closed pane, and the threads that
\* wait for it are not the ones a pane of this image has.
ListOK(i) ==
  /\ i \in leftIds /\ IsChild(i) => paneState[owner[i]] = "closed"
  /\ reaper[i] # "none" => i \in leftIds /\ Settled(i)
  /\ reaper[i] = "reaping" /\ IsChild(i) => proc[i] = "ended"
  /\ reaper[i] = "leaving" => ~IsChild(i)
  /\ i \in ending => Settled(i)

\* While the state is taken out: no close runs, and what is written down is
\* what is open and what is left running.
TakingOut ==
  swapPc \in {"carrying", "flushingAgain", "writing"} =>
    \A p \in Panes :
      /\ ~Active(p)
      /\ paneState[p] = "open" <=> carried[p] # "no"
      /\ carried[p] = "live" => Owns(p)
      /\ carried[p] = "lost" => ~Owns(p)

IdsWritten ==
  swapPc \in {"flushingAgain", "writing"} =>
    /\ leftIds \subseteq carriedIds
    /\ \A i \in carriedIds : IsChild(i) => paneState[owner[i]] = "closed"

\* While the next image takes the state in: the old threads are gone, and each
\* id is in one hand, unless its panes conflict.
TakingIn ==
  swapPc \in {"reading", "takingBack"} =>
    /\ leftIds = {}
    /\ \A i \in Pids : reaper[i] = "none"
    /\ \A p \in Panes :
         /\ ~Active(p) /\ ~isLeft[p]
         /\ paneState[p] # "open" => watcher[p] = "none"
         /\ carried[p] # "no" => paneState[p] = "closed" /\ killer[p] = "none"
         /\ carried[p] = "lost" => ~Owns(p)
    /\ \A i \in carriedIds : IsChild(i) =>
         paneState[owner[i]] = "closed" /\ carried[owner[i]] = "no"

Reading ==
  swapPc = "reading" =>
    /\ ending = {}
    /\ \A p \in Panes :
         /\ paneState[p] # "open"
         /\ carried[p] = "live" => Owns(p)

TakingBack ==
  swapPc = "takingBack" =>
    /\ \A p \in Panes :
         carried[p] # "no" /\ p \notin conflicting =>
           /\ carried[p] = "live" => Owns(p)
           /\ \A q \in Panes \ {p} : carried[q] # "no" => pid[q] # pid[p]
    /\ \A p, q \in Panes :
         carried[p] # "no" /\ paneState[q] = "open" => pid[q] # pid[p]
    /\ \A i \in ending : IsChild(i) =>
         carried[owner[i]] = "no" \/ owner[i] \in conflicting

\* The writes that wait are counted, and a flush settles for a pane once its
\* channel holds no write.
InputOK(p) ==
  /\ queued[p] >= Cardinality(ByteIndexes(queue[p]))
                    + (IF writer[p] = "writing" THEN 1 ELSE 0)
  /\ writer[p] = "gone" => queue[p] = <<>>

FlushOK(p) ==
  /\ \A j, k \in 1 .. Len(queue[p]) :
       queue[p][j] = "barrier" /\ queue[p][k] = "barrier" => j = k
  /\ p \notin barriers => \A k \in 1 .. Len(queue[p]) : queue[p][k] # "barrier"
  /\ swapPc \notin {"flushing", "flushingAgain"} => p \notin barriers
  /\ swapPc \in {"flushingAgain", "writing"} /\ carried[p] # "no" =>
       /\ p \notin barriers =>
            /\ writer[p] # "writing"
            /\ \A k \in 1 .. Len(queue[p]) : queue[p][k] # "bytes"
       /\ \A j, k \in 1 .. Len(queue[p]) :
            j < k /\ queue[p][j] = "barrier" => queue[p][k] # "bytes"

PanesOK == \A p \in Panes : PaneOK(p) /\ WatcherOK(p) /\ KillerOK(p)
ListsOK == \A i \in Pids : ListOK(i)
InputsOK == \A p \in Panes : InputOK(p) /\ FlushOK(p)

\* The types of the process side and of the input side.
ProcTypes ==
  /\ proc \in [Pids -> {"free", "running", "ended"}]
  /\ owner \in [Pids -> Panes \cup {Foreign, NoOne}]
  /\ paneState \in [Panes -> {"new", "open", "closed"}]
  /\ pid \in [Panes -> Pids \cup {NoPid}]
  /\ exit \in [Panes -> Exits] /\ saw \in [Panes -> Exits]
  /\ isLeft \in [Panes -> BOOLEAN] /\ isReserved \in [Panes -> BOOLEAN]
  /\ watcher \in [Panes -> WatcherStates]
  /\ killer \in [Panes -> KillerStates] /\ policy \in [Panes -> AllPolicies]
  /\ leftIds \subseteq Pids /\ ending \subseteq Pids /\ forgotten \subseteq Pids
  /\ reaper \in [Pids -> {"none", "waiting", "reaping", "leaving"}]
  /\ swapPc \in SwapStates
  /\ carried \in [Panes -> {"no", "live", "lost"}]
  /\ carriedIds \subseteq Pids /\ conflicting \subseteq Panes
  /\ astray \in BOOLEAN
  /\ swaps \in 0 .. SwapLimit

InputTypes ==
  /\ writer \in [Panes -> {"idle", "writing", "gone"}]
  /\ queue \in [Panes -> Seq(Messages)]
  /\ queued \in [Panes -> 0 .. MaxQueued]
  /\ barriers \subseteq Panes

ProcInv ==
  /\ ProcTypes
  /\ ~astray
  /\ NoChildIsForgotten
  /\ KernelOK /\ PanesOK /\ ListsOK
  /\ TakingOut /\ IdsWritten /\ TakingIn /\ Reading /\ TakingBack

InputInv == InputTypes /\ InputsOK

ChildInv == ProcInv /\ InputInv
-----------------------------------------------------------------------------
(* Counting the writes in a channel                                        *)

\* The writes of a channel can be counted.
LEMMA BytesAreFinite ==
  ASSUME NEW s \in Seq(Messages)
  PROVE  IsFiniteSet(ByteIndexes(s)) /\ Cardinality(ByteIndexes(s)) \in Nat
<1>1. IsFiniteSet(1 .. Len(s)) /\ ByteIndexes(s) \subseteq 1 .. Len(s)
  BY FS_Interval DEF ByteIndexes
<1>2. IsFiniteSet(ByteIndexes(s))
  BY <1>1, FS_Subset
<1>3. QED
  BY <1>2, FS_CardinalityType

\* `queue_pane_input` adds one write.
LEMMA AppendBytes ==
  ASSUME NEW s \in Seq(Messages)
  PROVE  Cardinality(ByteIndexes(Append(s, "bytes"))) = Cardinality(ByteIndexes(s)) + 1
<1>1. ByteIndexes(Append(s, "bytes")) = ByteIndexes(s) \cup {Len(s) + 1}
  BY DEF ByteIndexes, Messages
<1>2. Len(s) + 1 \notin ByteIndexes(s)
  BY DEF ByteIndexes
<1>3. QED
  BY <1>1, <1>2, BytesAreFinite, FS_AddElement

\* Barriers and the stop are no writes.
LEMMA AppendOther ==
  ASSUME NEW s \in Seq(Messages), NEW m \in Messages \ {"bytes"}
  PROVE  ByteIndexes(Append(s, m)) = ByteIndexes(s)
BY DEF ByteIndexes, Messages

\* Taking the first message takes its write off the count.
LEMMA TailBytes ==
  ASSUME NEW s \in Seq(Messages), s # <<>>
  PROVE  Cardinality(ByteIndexes(s)) =
           Cardinality(ByteIndexes(Tail(s))) + (IF Head(s) = "bytes" THEN 1 ELSE 0)
<1> DEFINE T == ByteIndexes(Tail(s))
           U == ByteIndexes(s) \ {1}
           f == [k \in T |-> k + 1]
<1>1. Tail(s) \in Seq(Messages) /\ Len(Tail(s)) = Len(s) - 1 /\ Len(s) \in Nat \ {0}
      /\ \A k \in 1 .. (Len(s) - 1) : Tail(s)[k] = s[k + 1]
  OBVIOUS
<1>2. T = {k \in 1 .. (Len(s) - 1) : s[k + 1] = "bytes"}
  BY <1>1 DEF ByteIndexes
<1>3. f \in Bijection(T, U)
  <2>1. \A k \in T : k + 1 \in U /\ f[k] = k + 1
    BY <1>1, <1>2 DEF ByteIndexes
  <2>2. \A j, k \in T : f[j] = f[k] => j = k
    BY <1>2, <2>1
  <2>3. \A u \in U : \E k \in T : f[k] = u
    <3> TAKE u \in U
    <3>1. u \in Int /\ u - 1 \in T
      BY <1>1, <1>2 DEF ByteIndexes
    <3>2. f[u - 1] = u
      BY <3>1
    <3>3. QED
      BY <3>1, <3>2
  <2>4. f \in [T -> U]
    BY <2>1
  <2> HIDE DEF f, T, U
  <2>5. QED
    BY <2>2, <2>3, <2>4, Zenon DEF Bijection, Injection, Surjection, IsInjective
<1>4. IsFiniteSet(T) /\ Cardinality(T) \in Nat
  BY <1>1, BytesAreFinite
<1>5. Cardinality(U) = Cardinality(T) /\ IsFiniteSet(U)
  <2> HIDE DEF f, T, U
  <2>1. QED
    BY <1>3, <1>4, FS_Bijection DEF ExistsBijection
<1>6. CASE Head(s) = "bytes"
  <2>1. ByteIndexes(s) = U \cup {1} /\ 1 \notin U
    BY <1>1, <1>6 DEF ByteIndexes
  <2> HIDE DEF U
  <2>2. QED
    BY <1>4, <1>5, <1>6, <2>1, FS_AddElement
<1>7. CASE Head(s) # "bytes"
  <2>1. ByteIndexes(s) = U
    BY <1>1, <1>7 DEF ByteIndexes
  <2> HIDE DEF U
  <2>2. QED
    BY <1>4, <1>5, <1>7, <2>1
<1>8. QED
  BY <1>6, <1>7

\* A flush that gives up changes barriers only.
LEMMA StaleBytes ==
  ASSUME NEW s \in Seq(Messages),
         NEW t, t = [k \in 1 .. Len(s) |-> IF s[k] = "barrier" THEN "stale" ELSE s[k]]
  PROVE  t \in Seq(Messages) /\ Len(t) = Len(s) /\ ByteIndexes(t) = ByteIndexes(s)
<1>1. t \in [1 .. Len(s) -> Messages] /\ Len(s) \in Nat
  BY DEF Messages
<1>2. t \in Seq(Messages) /\ Len(t) = Len(s)
  BY <1>1
<1>3. \A k \in 1 .. Len(s) : t[k] = "bytes" <=> s[k] = "bytes"
  OBVIOUS
<1>4. QED
  BY <1>2, <1>3 DEF ByteIndexes

\* An empty channel holds no write.
LEMMA NoBytes == Cardinality(ByteIndexes(<<>>)) = 0
<1>1. ByteIndexes(<<>>) = {}
  BY DEF ByteIndexes
<1>2. QED
  BY <1>1, FS_EmptySet


\* A step of the other threads leaves the channels alone.
LEMMA InputKept ==
  ASSUME InputInv, UNCHANGED <<inputVars, swapPc, carried>>
  PROVE  InputInv'
<1> USE ChildAssumption DEF InputTypes
<1>t. InputTypes /\ \A p \in Panes : InputOK(p) /\ FlushOK(p)
  BY DEF InputInv, InputsOK
<1>1. InputTypes'
  BY <1>t DEF inputVars, Messages
<1>2. ASSUME NEW p \in Panes PROVE InputOK(p)'
  BY <1>t DEF inputVars, InputOK
<1>3. ASSUME NEW p \in Panes PROVE FlushOK(p)'
  BY <1>t DEF inputVars, FlushOK, InputOK
<1>4. QED
  BY <1>1, <1>2, <1>3 DEF InputInv, InputsOK

\* Outside the flushes a step of the swap leaves the channels alone.
LEMMA InputAtRest ==
  ASSUME InputInv, UNCHANGED inputVars, swapPc' \notin {"flushing", "flushingAgain", "writing"},
         swapPc \notin {"flushing", "flushingAgain"} \/ barriers = {}
  PROVE  InputInv'
<1> USE ChildAssumption DEF InputTypes
<1>t. InputTypes /\ \A p \in Panes : InputOK(p) /\ FlushOK(p)
  BY DEF InputInv, InputsOK
<1>1. InputTypes'
  BY <1>t DEF inputVars, Messages
<1>2. ASSUME NEW p \in Panes PROVE InputOK(p)'
  BY <1>t DEF inputVars, InputOK
<1>3. ASSUME NEW p \in Panes PROVE FlushOK(p)'
  BY <1>t DEF inputVars, FlushOK, InputOK
<1>4. QED
  BY <1>1, <1>2, <1>3 DEF InputInv, InputsOK

\* `queue_pane_input` counts what it queues.
LEMMA QueueInputInput ==
  ASSUME NEW r \in Panes, InputInv, QueueInput(r), UNCHANGED <<swapPc, carried>>,
         swapPc \in {"serving", "told", "carrying"}
  PROVE  InputInv'
<1> USE ChildAssumption DEF InputTypes
<1>t. InputTypes /\ \A p \in Panes : InputOK(p) /\ FlushOK(p)
  BY DEF InputInv, InputsOK
<1>1. InputTypes'
  BY <1>t DEF QueueInput, Messages
<1>2. ASSUME NEW p \in Panes PROVE InputOK(p)'
  <2>0. queue[p] \in Seq(Messages)
    BY <1>t
  <2>1. Cardinality(ByteIndexes(Append(queue[p], "bytes"))) = Cardinality(ByteIndexes(queue[p])) + 1
        /\ Cardinality(ByteIndexes(queue[p])) \in Nat
    BY <2>0, AppendBytes, BytesAreFinite
  <2>2. QED
    BY <1>t, <2>1 DEF QueueInput, InputOK
<1>3. ASSUME NEW p \in Panes PROVE FlushOK(p)'
  BY <1>t DEF QueueInput, FlushOK, InputOK
<1>4. QED
  BY <1>1, <1>2, <1>3 DEF InputInv, InputsOK

\* A stop is no write and no barrier.
LEMMA QueueStopInput ==
  ASSUME NEW r \in Panes, InputInv, QueueStop(r), UNCHANGED <<writer, queued, barriers, swapPc, carried>>
  PROVE  InputInv'
<1> USE ChildAssumption DEF InputTypes
<1>t. InputTypes /\ \A p \in Panes : InputOK(p) /\ FlushOK(p)
  BY DEF InputInv, InputsOK
<1>1. InputTypes'
  BY <1>t DEF QueueStop, Messages
<1>2. ASSUME NEW p \in Panes PROVE InputOK(p)'
  <2>1. queue[p] \in Seq(Messages) /\ "stop" \in Messages \ {"bytes"}
    BY <1>t DEF Messages
  <2>2. ByteIndexes(Append(queue[p], "stop")) = ByteIndexes(queue[p])
    BY <2>1, AppendOther, Zenon
  <2>3. ByteIndexes(queue'[p]) = ByteIndexes(queue[p])
    BY <1>t, <2>2 DEF QueueStop
  <2>4. queue'[p] = queue[p] \/ (p = r /\ writer[r] # "gone")
    BY <1>t DEF QueueStop
  <2>5. QED
    BY <1>t, <2>3, <2>4 DEF InputOK
<1>3. ASSUME NEW p \in Panes PROVE FlushOK(p)'
  BY <1>t DEF QueueStop, FlushOK, InputOK
<1>4. QED
  BY <1>1, <1>2, <1>3 DEF InputInv, InputsOK

\* The writer takes messages in order, and answers a barrier after the writes
\* before it.
LEMMA WriterTakesInput ==
  ASSUME NEW r \in Panes, InputInv, WriterTakes(r)
  PROVE  InputInv'
<1> USE DEF InputTypes
<1>t. InputTypes /\ \A p \in Panes : InputOK(p) /\ FlushOK(p)
  BY DEF InputInv, InputsOK
<1>h. /\ queue[r] \in Seq(Messages) /\ queue[r] # <<>> /\ writer[r] = "idle"
      /\ InputOK(r) /\ FlushOK(r)
  BY <1>t DEF WriterTakes
<1> PICK t : t = Tail(queue[r])
  OBVIOUS
<1>l. /\ t \in Seq(Messages) /\ Len(queue[r]) \in Nat \ {0} /\ Len(t) = Len(queue[r]) - 1
      /\ \A k \in 1 .. Len(t) : t[k] = queue[r][k + 1]
      /\ Head(queue[r]) = queue[r][1]
  BY <1>h
<1>c. /\ Cardinality(ByteIndexes(queue[r])) =
           Cardinality(ByteIndexes(t)) + (IF Head(queue[r]) = "bytes" THEN 1 ELSE 0)
      /\ Cardinality(ByteIndexes(t)) \in Nat
  BY <1>h, <1>l, TailBytes, BytesAreFinite
<1>u. UNCHANGED <<swapPc, carried>>
  BY DEF WriterTakes, swapVars
<1>1. CASE Head(queue[r]) = "bytes" /\ writer' = [writer EXCEPT ![r] = "writing"]
           /\ queue' = [queue EXCEPT ![r] = t] /\ UNCHANGED <<queued, barriers>>
  <2>1. InputTypes'
    BY <1>t, <1>l, <1>1
  <2>2. ASSUME NEW p \in Panes PROVE InputOK(p)'
    BY <1>t, <1>h, <1>c, <1>1, <2>2 DEF InputOK
  <2>3. ASSUME NEW p \in Panes PROVE FlushOK(p)'
    <3>1. CASE p = r
      BY <1>t, <1>h, <1>l, <1>u, <1>1, <3>1 DEF FlushOK
    <3>2. CASE p # r
      BY <1>t, <1>u, <1>1, <3>2 DEF FlushOK
    <3>3. QED
      BY <3>1, <3>2
  <2>4. QED
    BY <2>1, <2>2, <2>3 DEF InputInv, InputsOK
<1>2. CASE Head(queue[r]) \in {"barrier", "stale"} /\ queue' = [queue EXCEPT ![r] = t]
           /\ barriers' = (IF Head(queue[r]) = "barrier" THEN barriers \ {r} ELSE barriers)
           /\ UNCHANGED <<writer, queued>>
  <2>1. InputTypes'
    BY <1>t, <1>l, <1>2
  <2>2. ASSUME NEW p \in Panes PROVE InputOK(p)'
    BY <1>t, <1>h, <1>c, <1>2, <2>2 DEF InputOK
  <2>3. ASSUME NEW p \in Panes PROVE FlushOK(p)'
    <3>1. CASE p = r
      BY <1>t, <1>h, <1>l, <1>u, <1>2, <3>1 DEF FlushOK
    <3>2. CASE p # r
      BY <1>t, <1>u, <1>2, <3>2 DEF FlushOK
    <3>3. QED
      BY <3>1, <3>2
  <2>4. QED
    BY <2>1, <2>2, <2>3 DEF InputInv, InputsOK
<1>3. CASE Head(queue[r]) = "stop" /\ WriterStops(r)
  <2>1. InputTypes'
    BY <1>t, <1>3 DEF WriterStops
  <2>2. ASSUME NEW p \in Panes PROVE InputOK(p)'
    BY <1>t, <1>h, <1>3, <2>2, NoBytes DEF InputOK, WriterStops
  <2>3. ASSUME NEW p \in Panes PROVE FlushOK(p)'
    BY <1>t, <1>u, <1>3, <2>3 DEF FlushOK, WriterStops
  <2>4. QED
    BY <2>1, <2>2, <2>3 DEF InputInv, InputsOK
<1>4. QED
  BY <1>1, <1>2, <1>3 DEF WriterTakes, WriterAnswers

\* A write that ends was counted.
LEMMA WriteEndsInput ==
  ASSUME NEW r \in Panes, InputInv, WriteEnds(r)
  PROVE  InputInv'
<1> USE ChildAssumption DEF InputTypes
<1>t. InputTypes /\ \A p \in Panes : InputOK(p) /\ FlushOK(p)
  BY DEF InputInv, InputsOK
<1>1. InputTypes'
  <2>1. queue[r] \in Seq(Messages) /\ InputOK(r)
    BY <1>t
  <2>2. Cardinality(ByteIndexes(queue[r])) \in Nat
    BY <2>1, BytesAreFinite
  <2>3. QED
    BY <1>t, <2>1, <2>2 DEF WriteEnds, InputOK
<1>2. ASSUME NEW p \in Panes PROVE InputOK(p)'
  <2>1. queue[p] \in Seq(Messages) /\ InputOK(p)
    BY <1>t
  <2>2. Cardinality(ByteIndexes(queue[p])) \in Nat
    BY <2>1, BytesAreFinite
  <2>3. QED
    BY <1>t, <2>1, <2>2 DEF WriteEnds, InputOK
<1>3. ASSUME NEW p \in Panes PROVE FlushOK(p)'
  BY <1>t DEF WriteEnds, swapVars, FlushOK, InputOK
<1>4. QED
  BY <1>1, <1>2, <1>3 DEF InputInv, InputsOK

\* `flush_writers` asks every writer that still runs, once.
LEMMA SendBarriersInput ==
  ASSUME InputInv, SendBarriers, swapPc \in {"serving", "carrying"}, UNCHANGED carried,
         swapPc' \in {"flushing", "flushingAgain"},
         swapPc' = "flushingAgain" => \A p \in Panes : carried[p] # "no" => paneState[p] = "open"
  PROVE  InputInv'
<1> USE ChildAssumption DEF InputTypes
<1>t. InputTypes /\ \A p \in Panes : InputOK(p) /\ FlushOK(p)
  BY DEF InputInv, InputsOK
<1>1. InputTypes'
  BY <1>t DEF SendBarriers, Asked, Messages
<1>2. ASSUME NEW p \in Panes PROVE InputOK(p)'
  <2>1. queue[p] \in Seq(Messages) /\ "barrier" \in Messages \ {"bytes"}
    BY <1>t DEF Messages
  <2>2. ByteIndexes(Append(queue[p], "barrier")) = ByteIndexes(queue[p])
    BY <2>1, AppendOther, Zenon
  <2>3. ByteIndexes(queue'[p]) = ByteIndexes(queue[p])
    BY <1>t, <2>2 DEF SendBarriers
  <2>4. queue'[p] = queue[p] \/ writer[p] # "gone"
    BY <1>t DEF SendBarriers, Asked
  <2>5. QED
    BY <1>t, <2>3, <2>4 DEF InputOK, SendBarriers
<1>3. ASSUME NEW p \in Panes PROVE FlushOK(p)'
  BY <1>t DEF SendBarriers, Asked, FlushOK, InputOK
<1>4. QED
  BY <1>1, <1>2, <1>3 DEF InputInv, InputsOK

\* A flush that gives up leaves no barrier to answer.
LEMMA DropBarriersInput ==
  ASSUME InputInv, DropBarriers, swapPc' = "serving"
  PROVE  InputInv'
<1> USE ChildAssumption DEF InputTypes
<1>t. InputTypes /\ \A p \in Panes : InputOK(p) /\ FlushOK(p)
  BY DEF InputInv, InputsOK
<1>1. InputTypes'
  <2>1. \A p \in Panes : queue'[p] \in Seq(Messages)
    BY <1>t, StaleBytes DEF DropBarriers
  <2>2. QED
    BY <1>t, <2>1 DEF DropBarriers
<1>2. ASSUME NEW p \in Panes PROVE InputOK(p)'
  <2>1. ByteIndexes(queue'[p]) = ByteIndexes(queue[p]) /\ Len(queue'[p]) = Len(queue[p])
        /\ queue'[p] \in Seq(Messages)
    BY <1>t, StaleBytes DEF DropBarriers
  <2>2. queue[p] = <<>> => queue'[p] = <<>>
    BY <1>t, <2>1
  <2>3. QED
    BY <1>t, <2>1, <2>2 DEF DropBarriers, InputOK
<1>3. ASSUME NEW p \in Panes PROVE FlushOK(p)'
  <2>1. Len(queue'[p]) = Len(queue[p])
    BY <1>t, StaleBytes DEF DropBarriers
  <2>2. \A k \in 1 .. Len(queue[p]) : queue'[p][k] # "barrier"
    BY <1>t DEF DropBarriers
  <2>3. QED
    BY <2>1, <2>2 DEF DropBarriers, FlushOK
<1>4. QED
  BY <1>1, <1>2, <1>3 DEF InputInv, InputsOK

\* A pane that opens starts with an idle writer.
LEMMA SpawnInput ==
  ASSUME NEW r \in Panes, InputInv, writer' = [writer EXCEPT ![r] = "idle"], writer[r] = "gone" => queue[r] = <<>>,
         UNCHANGED <<queue, queued, barriers, swapPc>>, swapPc \in {"serving", "told", "takingBack"}
  PROVE  InputInv'
<1> USE ChildAssumption DEF InputTypes
<1>t. InputTypes /\ \A p \in Panes : InputOK(p) /\ FlushOK(p)
  BY DEF InputInv, InputsOK
<1>1. InputTypes'
  BY <1>t
<1>2. ASSUME NEW p \in Panes PROVE InputOK(p)'
  <2>1. queue[p] \in Seq(Messages) /\ InputOK(p)
    BY <1>t
  <2>2. Cardinality(ByteIndexes(queue[p])) \in Nat
    BY <2>1, BytesAreFinite
  <2>3. QED
    BY <1>t, <2>1, <2>2 DEF InputOK
<1>3. ASSUME NEW p \in Panes PROVE FlushOK(p)'
  BY <1>t DEF swapVars, FlushOK, InputOK
<1>4. QED
  BY <1>1, <1>2, <1>3 DEF InputInv, InputsOK

\* The channels of the old image are gone.
LEMMA ExecInput ==
  ASSUME InputInv, Exec
  PROVE  InputInv'
<1> USE ChildAssumption DEF InputTypes
<1>t. InputTypes /\ \A p \in Panes : InputOK(p) /\ FlushOK(p)
  BY DEF InputInv, InputsOK
<1>1. InputTypes'
  BY <1>t DEF Exec, Messages
<1>2. ASSUME NEW p \in Panes PROVE InputOK(p)'
  BY <1>t, NoBytes DEF Exec, InputOK
<1>3. ASSUME NEW p \in Panes PROVE FlushOK(p)'
  BY <1>t DEF Exec, FlushOK, InputOK
<1>4. QED
  BY <1>1, <1>2, <1>3 DEF InputInv, InputsOK

\* A flush settles when every writer has answered.
LEMMA FlushSettlesInput ==
  ASSUME InputInv, FlushSettles
  PROVE  InputInv'
<1> USE ChildAssumption DEF InputTypes
<1>t. InputTypes /\ \A p \in Panes : InputOK(p) /\ FlushOK(p)
  BY DEF InputInv, InputsOK
<1>1. InputTypes'
  BY <1>t DEF FlushSettles, inputVars, Messages
<1>2. ASSUME NEW p \in Panes PROVE InputOK(p)'
  BY <1>t DEF FlushSettles, inputVars, InputOK
<1>3. ASSUME NEW p \in Panes PROVE FlushOK(p)'
  BY <1>t DEF FlushSettles, inputVars, FlushOK, InputOK
<1>4. QED
  BY <1>1, <1>2, <1>3 DEF InputInv, InputsOK


\* A shell ends by itself: whoever was to reap it still has it.
LEMMA ChildEndsProc ==
  ASSUME NEW h \in Pids, ProcInv, ChildEnds(h)
  PROVE  ProcInv'
<1> USE ChildAssumption
    DEF ProcTypes, kernelVars, paneVars, watchVars, killVars, reapVars, inputVars, swapVars
<1>t. ProcTypes /\ ~astray /\ NoChildIsForgotten /\ KernelOK /\ PanesOK /\ ListsOK
     /\ TakingOut /\ IdsWritten /\ TakingIn /\ Reading /\ TakingBack
  BY DEF ProcInv
<1>1. ProcTypes'
  BY <1>t DEF ChildEnds
<1>2. KernelOK'
  BY <1>t DEF ChildEnds, KernelOK, IsChild
<1>3. (~astray)'
  BY <1>t DEF ChildEnds
<1>4. NoChildIsForgotten'
  BY <1>t DEF ChildEnds, NoChildIsForgotten, IsChild
<1>5. ASSUME NEW p \in Panes PROVE PaneOK(p)'
  BY <1>t DEF ChildEnds, PanesOK, PaneOK, Active, Owns
<1>6. ASSUME NEW p \in Panes PROVE WatcherOK(p)'
  BY <1>t DEF ChildEnds, PanesOK, WatcherOK, Owns, IsChild
<1>7. ASSUME NEW p \in Panes PROVE KillerOK(p)'
  BY <1>t DEF ChildEnds, PanesOK, KillerOK
<1>8. ASSUME NEW i \in Pids PROVE ListOK(i)'
  BY <1>t DEF ChildEnds, ListsOK, ListOK, Settled, Active, IsChild
<1>9. TakingOut'
  BY <1>t DEF ChildEnds, Active, Owns, TakingOut
<1>10. IdsWritten'
  BY <1>t DEF ChildEnds, IsChild, IdsWritten
<1>11. TakingIn'
  BY <1>t DEF ChildEnds, Active, Owns, IsChild, TakingIn
<1>12. Reading'
  BY <1>t DEF ChildEnds, Owns, Reading
<1>13. TakingBack'
  BY <1>t DEF ChildEnds, Owns, IsChild, TakingBack
<1>14. QED
  BY <1>1, <1>2, <1>3, <1>4, <1>5, <1>6, <1>7, <1>8, <1>9, <1>10, <1>11, <1>12, <1>13
  DEF ProcInv, PanesOK, ListsOK

\* A process of another program takes an id that none of ours holds.
LEMMA ForeignStartsProc ==
  ASSUME NEW h \in Pids, ProcInv, ForeignStarts(h)
  PROVE  ProcInv'
<1> USE ChildAssumption
    DEF ProcTypes, kernelVars, paneVars, watchVars, killVars, reapVars, inputVars, swapVars
<1>t. ProcTypes /\ ~astray /\ NoChildIsForgotten /\ KernelOK /\ PanesOK /\ ListsOK
     /\ TakingOut /\ IdsWritten /\ TakingIn /\ Reading /\ TakingBack
  BY DEF ProcInv
<1>1. ProcTypes'
  BY <1>t DEF ForeignStarts
<1>2. KernelOK'
  BY <1>t DEF ForeignStarts, KernelOK, IsChild
<1>3. (~astray)'
  BY <1>t DEF ForeignStarts
<1>4. NoChildIsForgotten'
  BY <1>t DEF ForeignStarts, NoChildIsForgotten, IsChild
<1>5. ASSUME NEW p \in Panes PROVE PaneOK(p)'
  BY <1>t DEF ForeignStarts, KernelOK, PanesOK, PaneOK, Active, Owns
<1>6. ASSUME NEW p \in Panes PROVE WatcherOK(p)'
  BY <1>t DEF ForeignStarts, KernelOK, PanesOK, WatcherOK, Owns, IsChild
<1>7. ASSUME NEW p \in Panes PROVE KillerOK(p)'
  BY <1>t DEF ForeignStarts, PanesOK, KillerOK
<1>8. ASSUME NEW i \in Pids PROVE ListOK(i)'
  BY <1>t DEF ForeignStarts, ListsOK, ListOK, Settled, Active, IsChild
<1>9. TakingOut'
  BY <1>t DEF ForeignStarts, KernelOK, Active, Owns, TakingOut
<1>10. IdsWritten'
  BY <1>t DEF ForeignStarts, IsChild, IdsWritten
<1>11. TakingIn'
  BY <1>t DEF ForeignStarts, Active, Owns, IsChild, TakingIn
<1>12. Reading'
  BY <1>t DEF ForeignStarts, KernelOK, Owns, Reading
<1>13. TakingBack'
  BY <1>t DEF ForeignStarts, KernelOK, Owns, IsChild, TakingBack
<1>14. QED
  BY <1>1, <1>2, <1>3, <1>4, <1>5, <1>6, <1>7, <1>8, <1>9, <1>10, <1>11, <1>12, <1>13
  DEF ProcInv, PanesOK, ListsOK

\* A process of another program ends.
LEMMA ForeignEndsProc ==
  ASSUME NEW h \in Pids, ProcInv, ForeignEnds(h)
  PROVE  ProcInv'
<1> USE ChildAssumption
    DEF ProcTypes, kernelVars, paneVars, watchVars, killVars, reapVars, inputVars, swapVars
<1>t. ProcTypes /\ ~astray /\ NoChildIsForgotten /\ KernelOK /\ PanesOK /\ ListsOK
     /\ TakingOut /\ IdsWritten /\ TakingIn /\ Reading /\ TakingBack
  BY DEF ProcInv
<1>1. ProcTypes'
  BY <1>t DEF ForeignEnds
<1>2. KernelOK'
  BY <1>t DEF ForeignEnds, KernelOK, IsChild
<1>3. (~astray)'
  BY <1>t DEF ForeignEnds
<1>4. NoChildIsForgotten'
  BY <1>t DEF ForeignEnds, NoChildIsForgotten, IsChild
<1>5. ASSUME NEW p \in Panes PROVE PaneOK(p)'
  BY <1>t DEF ForeignEnds, PanesOK, PaneOK, Active, Owns
<1>6. ASSUME NEW p \in Panes PROVE WatcherOK(p)'
  BY <1>t DEF ForeignEnds, PanesOK, WatcherOK, Owns, IsChild
<1>7. ASSUME NEW p \in Panes PROVE KillerOK(p)'
  BY <1>t DEF ForeignEnds, PanesOK, KillerOK
<1>8. ASSUME NEW i \in Pids PROVE ListOK(i)'
  BY <1>t DEF ForeignEnds, ListsOK, ListOK, Settled, Active, IsChild
<1>9. TakingOut'
  BY <1>t DEF ForeignEnds, Active, Owns, TakingOut
<1>10. IdsWritten'
  BY <1>t DEF ForeignEnds, IsChild, IdsWritten
<1>11. TakingIn'
  BY <1>t DEF ForeignEnds, Active, Owns, IsChild, TakingIn
<1>12. Reading'
  BY <1>t DEF ForeignEnds, Owns, Reading
<1>13. TakingBack'
  BY <1>t DEF ForeignEnds, Owns, IsChild, TakingBack
<1>14. QED
  BY <1>1, <1>2, <1>3, <1>4, <1>5, <1>6, <1>7, <1>8, <1>9, <1>10, <1>11, <1>12, <1>13
  DEF ProcInv, PanesOK, ListsOK

\* A pane's shell starts under an id that nothing of ours waits for.
LEMMA SpawnPaneProc ==
  ASSUME NEW r \in Panes, NEW h \in Pids, ProcInv, SpawnPane(r, h)
  PROVE  ProcInv'
<1> USE ChildAssumption
    DEF ProcTypes, kernelVars, paneVars, watchVars, killVars, reapVars, inputVars, swapVars
<1>t. ProcTypes /\ ~astray /\ NoChildIsForgotten /\ KernelOK /\ PanesOK /\ ListsOK
     /\ TakingOut /\ IdsWritten /\ TakingIn /\ Reading /\ TakingBack
  BY DEF ProcInv
<1>1. ProcTypes'
  BY <1>t
  DEF SpawnPane, Applying, Reusable, Exits, WatcherStates, KillerStates, SwapStates, AllPolicies
<1>2. KernelOK'
  BY <1>t DEF SpawnPane, Applying, Reusable, KernelOK, PanesOK, PaneOK, IsChild
<1>3. (~astray)'
  BY <1>t DEF SpawnPane, Applying, Reusable
<1>4. NoChildIsForgotten'
  BY <1>t DEF SpawnPane, Applying, Reusable, NoChildIsForgotten, IsChild
<1>5. ASSUME NEW p \in Panes PROVE PaneOK(p)'
  <2>1. CASE p = r
    BY <1>t, <2>1
    DEF SpawnPane, Applying, Reusable, KernelOK, PanesOK, PaneOK, WatcherOK, KillerOK, ListsOK,
        ListOK, Settled, Active, Owns, IsChild
  <2>2. CASE p # r
    <3>1. PaneOK(p)
      BY <1>t DEF PanesOK
    <3>2. QED
      BY <1>t, <2>2, <3>1
      DEF SpawnPane, Applying, Reusable, KernelOK, PanesOK, PaneOK, WatcherOK, KillerOK,
          ListsOK, ListOK, Settled, Active, Owns, IsChild
  <2>3. QED
    BY <2>1, <2>2
<1>6. ASSUME NEW p \in Panes PROVE WatcherOK(p)'
  <2>1. CASE p = r
    BY <1>t, <2>1
    DEF SpawnPane, Applying, Reusable, KernelOK, PanesOK, PaneOK, WatcherOK, KillerOK, ListsOK,
        ListOK, Settled, Active, Owns, IsChild
  <2>2. CASE p # r
    <3>1. WatcherOK(p)
      BY <1>t DEF PanesOK
    <3>2. QED
      BY <1>t, <2>2, <3>1
      DEF SpawnPane, Applying, Reusable, KernelOK, PanesOK, PaneOK, WatcherOK, KillerOK,
          ListsOK, ListOK, Settled, Active, Owns, IsChild
  <2>3. QED
    BY <2>1, <2>2
<1>7. ASSUME NEW p \in Panes PROVE KillerOK(p)'
  BY <1>t DEF SpawnPane, Applying, Reusable, PanesOK, PaneOK, KillerOK
<1>8. ASSUME NEW i \in Pids PROVE ListOK(i)'
  BY <1>t DEF SpawnPane, Applying, Reusable, ListsOK, ListOK, Settled, Active, IsChild
<1>9. TakingOut'
  BY <1>t DEF SpawnPane, Applying, Reusable, TakingOut
<1>10. IdsWritten'
  BY <1>t DEF SpawnPane, Applying, Reusable, IdsWritten
<1>11. TakingIn'
  BY <1>t DEF SpawnPane, Applying, Reusable, TakingIn
<1>12. Reading'
  BY <1>t DEF SpawnPane, Applying, Reusable, Reading
<1>13. TakingBack'
  BY <1>t DEF SpawnPane, Applying, Reusable, TakingBack
<1>14. QED
  BY <1>1, <1>2, <1>3, <1>4, <1>5, <1>6, <1>7, <1>8, <1>9, <1>10, <1>11, <1>12, <1>13
  DEF ProcInv, PanesOK, ListsOK

\* A close starts on a thread of its own.
LEMMA KillOffThreadProc ==
  ASSUME NEW r \in Panes, NEW c \in Policies(r), ProcInv, KillOffThread(r, c)
  PROVE  ProcInv'
<1> USE ChildAssumption
    DEF ProcTypes, kernelVars, paneVars, watchVars, killVars, reapVars, inputVars, swapVars
<1>t. ProcTypes /\ ~astray /\ NoChildIsForgotten /\ KernelOK /\ PanesOK /\ ListsOK
     /\ TakingOut /\ IdsWritten /\ TakingIn /\ Reading /\ TakingBack
  BY DEF ProcInv
<1>1. ProcTypes'
  BY <1>t
  DEF KillOffThread, Applying, Exits, WatcherStates, KillerStates, SwapStates, AllPolicies
<1>2. KernelOK'
  BY <1>t DEF KillOffThread, Applying, KernelOK, IsChild
<1>3. (~astray)'
  BY <1>t DEF KillOffThread, Applying
<1>4. NoChildIsForgotten'
  BY <1>t DEF KillOffThread, Applying, NoChildIsForgotten, IsChild
<1>5. ASSUME NEW p \in Panes PROVE PaneOK(p)'
  BY <1>t DEF KillOffThread, Applying, PanesOK, PaneOK, Active, Owns
<1>6. ASSUME NEW p \in Panes PROVE WatcherOK(p)'
  BY <1>t DEF KillOffThread, Applying, PanesOK, WatcherOK, Owns, IsChild
<1>7. ASSUME NEW p \in Panes PROVE KillerOK(p)'
  BY <1>t DEF KillOffThread, Applying, PanesOK, KillerOK
<1>8. ASSUME NEW i \in Pids PROVE ListOK(i)'
  BY <1>t DEF KillOffThread, Applying, ListsOK, ListOK, Settled, Active, IsChild
<1>9. TakingOut'
  BY <1>t DEF KillOffThread, Applying, TakingOut
<1>10. IdsWritten'
  BY <1>t DEF KillOffThread, Applying, IdsWritten
<1>11. TakingIn'
  BY <1>t DEF KillOffThread, Applying, TakingIn
<1>12. Reading'
  BY <1>t DEF KillOffThread, Applying, Reading
<1>13. TakingBack'
  BY <1>t DEF KillOffThread, Applying, TakingBack
<1>14. QED
  BY <1>1, <1>2, <1>3, <1>4, <1>5, <1>6, <1>7, <1>8, <1>9, <1>10, <1>11, <1>12, <1>13
  DEF ProcInv, PanesOK, ListsOK

\* The watcher's wait answers: its child ended, or its id names no child of ours.
LEMMA WatcherSeesProc ==
  ASSUME NEW r \in Panes, ProcInv, WatcherSees(r)
  PROVE  ProcInv'
<1> USE ChildAssumption
    DEF ProcTypes, kernelVars, paneVars, watchVars, killVars, reapVars, inputVars, swapVars
<1>t. ProcTypes /\ ~astray /\ NoChildIsForgotten /\ KernelOK /\ PanesOK /\ ListsOK
     /\ TakingOut /\ IdsWritten /\ TakingIn /\ Reading /\ TakingBack
  BY DEF ProcInv
<1>1. ProcTypes'
  BY <1>t
  DEF WatcherSees, WaitResult, Exits, WatcherStates, KillerStates, SwapStates, AllPolicies
<1>2. KernelOK'
  BY <1>t DEF WatcherSees, WaitResult, KernelOK, IsChild
<1>3. (~astray)'
  BY <1>t DEF WatcherSees, WaitResult
<1>4. NoChildIsForgotten'
  BY <1>t DEF WatcherSees, WaitResult, NoChildIsForgotten, IsChild
<1>5. ASSUME NEW p \in Panes PROVE PaneOK(p)'
  BY <1>t DEF WatcherSees, WaitResult, PanesOK, PaneOK, Active, Owns
<1>6. ASSUME NEW p \in Panes PROVE WatcherOK(p)'
  BY <1>t DEF WatcherSees, WaitResult, PanesOK, WatcherOK, Owns, IsChild
<1>7. ASSUME NEW p \in Panes PROVE KillerOK(p)'
  BY <1>t DEF WatcherSees, WaitResult, PanesOK, KillerOK
<1>8. ASSUME NEW i \in Pids PROVE ListOK(i)'
  BY <1>t DEF WatcherSees, WaitResult, ListsOK, ListOK, Settled, Active, IsChild
<1>9. TakingOut'
  BY <1>t DEF WatcherSees, WaitResult, Active, Owns, TakingOut
<1>10. IdsWritten'
  BY <1>t DEF WatcherSees, WaitResult, IsChild, IdsWritten
<1>11. TakingIn'
  BY <1>t DEF WatcherSees, WaitResult, Active, Owns, IsChild, TakingIn
<1>12. Reading'
  BY <1>t DEF WatcherSees, WaitResult, Owns, Reading
<1>13. TakingBack'
  BY <1>t DEF WatcherSees, WaitResult, Owns, IsChild, TakingBack
<1>14. QED
  BY <1>1, <1>2, <1>3, <1>4, <1>5, <1>6, <1>7, <1>8, <1>9, <1>10, <1>11, <1>12, <1>13
  DEF ProcInv, PanesOK, ListsOK

\* The watcher records the exit; a child the close left is the watcher's to reap.
LEMMA WatcherRecordsProc ==
  ASSUME NEW r \in Panes, ProcInv, WatcherRecords(r)
  PROVE  ProcInv'
<1> USE ChildAssumption
    DEF ProcTypes, kernelVars, paneVars, watchVars, killVars, reapVars, inputVars, swapVars
<1>t. ProcTypes /\ ~astray /\ NoChildIsForgotten /\ KernelOK /\ PanesOK /\ ListsOK
     /\ TakingOut /\ IdsWritten /\ TakingIn /\ Reading /\ TakingBack
  BY DEF ProcInv
<1>1. ProcTypes'
  BY <1>t DEF WatcherRecords, Exits, WatcherStates, KillerStates, SwapStates, AllPolicies
<1>2. KernelOK'
  BY <1>t DEF WatcherRecords, KernelOK, IsChild
<1>3. (~astray)'
  BY <1>t DEF WatcherRecords
<1>4. NoChildIsForgotten'
  BY <1>t DEF WatcherRecords, NoChildIsForgotten, IsChild
<1>5. ASSUME NEW p \in Panes PROVE PaneOK(p)'
  BY <1>t DEF WatcherRecords, PanesOK, PaneOK, WatcherOK, Active, Owns
<1>6. ASSUME NEW p \in Panes PROVE WatcherOK(p)'
  BY <1>t DEF WatcherRecords, PanesOK, WatcherOK, Owns, IsChild
<1>7. ASSUME NEW p \in Panes PROVE KillerOK(p)'
  BY <1>t DEF WatcherRecords, PanesOK, WatcherOK, KillerOK
<1>8. ASSUME NEW i \in Pids PROVE ListOK(i)'
  BY <1>t DEF WatcherRecords, ListsOK, ListOK, Settled, Active, IsChild
<1>9. TakingOut'
  BY <1>t DEF WatcherRecords, Active, Owns, TakingOut
<1>10. IdsWritten'
  BY <1>t DEF WatcherRecords, IsChild, IdsWritten
<1>11. TakingIn'
  BY <1>t DEF WatcherRecords, Active, Owns, IsChild, TakingIn
<1>12. Reading'
  BY <1>t DEF WatcherRecords, Owns, Reading
<1>13. TakingBack'
  BY <1>t DEF WatcherRecords, Owns, IsChild, TakingBack
<1>14. QED
  BY <1>1, <1>2, <1>3, <1>4, <1>5, <1>6, <1>7, <1>8, <1>9, <1>10, <1>11, <1>12, <1>13
  DEF ProcInv, PanesOK, ListsOK

\* The watcher reaps a child that ended under its own id.
LEMMA WatcherReapsProc ==
  ASSUME NEW r \in Panes, ProcInv, WatcherReaps(r)
  PROVE  ProcInv'
<1> USE ChildAssumption
    DEF ProcTypes, kernelVars, paneVars, watchVars, killVars, reapVars, inputVars, swapVars
<1>t. ProcTypes /\ ~astray /\ NoChildIsForgotten /\ KernelOK /\ PanesOK /\ ListsOK
     /\ TakingOut /\ IdsWritten /\ TakingIn /\ Reading /\ TakingBack
  BY DEF ProcInv
<1>1. ProcTypes'
  <2>1. astray' \in BOOLEAN
    BY <1>t, Zenon DEF WatcherReaps, ReapChild
  <2>2. QED
    BY <1>t, <2>1, ChildAssumption
    DEF WatcherReaps, ReapChild, Exits, WatcherStates, KillerStates, SwapStates, AllPolicies,
        IsChild
<1>2. KernelOK'
  BY <1>t DEF WatcherReaps, ReapChild, KernelOK, IsChild
<1>3. (~astray)'
  BY <1>t DEF WatcherReaps, ReapChild, PanesOK, WatcherOK, Owns
<1>4. NoChildIsForgotten'
  BY <1>t DEF WatcherReaps, ReapChild, NoChildIsForgotten, IsChild
<1>5. ASSUME NEW p \in Panes PROVE PaneOK(p)'
  BY <1>t DEF WatcherReaps, ReapChild, PanesOK, PaneOK, WatcherOK, Active, Owns
<1>6. ASSUME NEW p \in Panes PROVE WatcherOK(p)'
  BY <1>t
  DEF WatcherReaps, ReapChild, PanesOK, PaneOK, WatcherOK, ListsOK, ListOK, Settled, Owns,
      IsChild
<1>7. ASSUME NEW p \in Panes PROVE KillerOK(p)'
  BY <1>t DEF WatcherReaps, ReapChild, PanesOK, KillerOK
<1>8. ASSUME NEW i \in Pids PROVE ListOK(i)'
  BY <1>t DEF WatcherReaps, ReapChild, ListsOK, ListOK, Settled, Active, IsChild
<1>9. TakingOut'
  BY <1>t DEF WatcherReaps, ReapChild, PanesOK, WatcherOK, Active, Owns, TakingOut
<1>10. IdsWritten'
  BY <1>t DEF WatcherReaps, ReapChild, IsChild, IdsWritten
<1>11. TakingIn'
  BY <1>t DEF WatcherReaps, ReapChild, Active, Owns, IsChild, TakingIn
<1>12. Reading'
  BY <1>t DEF WatcherReaps, ReapChild, Reading, TakingIn
<1>13. TakingBack'
  BY <1>t DEF WatcherReaps, ReapChild, Owns, IsChild, TakingBack, TakingIn
<1>14. QED
  BY <1>1, <1>2, <1>3, <1>4, <1>5, <1>6, <1>7, <1>8, <1>9, <1>10, <1>11, <1>12, <1>13
  DEF ProcInv, PanesOK, ListsOK

\* The watcher takes its id off the ids left running.
LEMMA WatcherLeavesProc ==
  ASSUME NEW r \in Panes, ProcInv, WatcherLeaves(r)
  PROVE  ProcInv'
<1> USE ChildAssumption
    DEF ProcTypes, kernelVars, paneVars, watchVars, killVars, reapVars, inputVars, swapVars
<1>t. ProcTypes /\ ~astray /\ NoChildIsForgotten /\ KernelOK /\ PanesOK /\ ListsOK
     /\ TakingOut /\ IdsWritten /\ TakingIn /\ Reading /\ TakingBack
  BY DEF ProcInv
<1>1. ProcTypes'
  BY <1>t DEF WatcherLeaves, Exits, WatcherStates, KillerStates, SwapStates, AllPolicies
<1>2. KernelOK'
  BY <1>t DEF WatcherLeaves, KernelOK, IsChild
<1>3. (~astray)'
  BY <1>t DEF WatcherLeaves
<1>4. NoChildIsForgotten'
  BY <1>t DEF WatcherLeaves, NoChildIsForgotten, PanesOK, WatcherOK, IsChild
<1>5. ASSUME NEW p \in Panes PROVE PaneOK(p)'
  BY <1>t DEF WatcherLeaves, PanesOK, PaneOK, Active, Owns
<1>6. ASSUME NEW p \in Panes PROVE WatcherOK(p)'
  <2>1. CASE p = r
    BY <1>t, <2>1
    DEF WatcherLeaves, KernelOK, PanesOK, PaneOK, WatcherOK, KillerOK, ListsOK, ListOK, Settled,
        Active, Owns, IsChild
  <2>2. CASE p # r
    <3>1. WatcherOK(p)
      BY <1>t DEF PanesOK
    <3>2. QED
      BY <1>t, <2>2, <3>1
      DEF WatcherLeaves, KernelOK, PanesOK, PaneOK, WatcherOK, KillerOK, ListsOK, ListOK,
          Settled, Active, Owns, IsChild
  <2>3. QED
    BY <2>1, <2>2
<1>7. ASSUME NEW p \in Panes PROVE KillerOK(p)'
  BY <1>t DEF WatcherLeaves, PanesOK, PaneOK, WatcherOK, KillerOK, Active, Owns, IsChild
<1>8. ASSUME NEW i \in Pids PROVE ListOK(i)'
  BY <1>t DEF WatcherLeaves, PanesOK, WatcherOK, ListsOK, ListOK, Settled, Active, IsChild
<1>9. TakingOut'
  BY <1>t DEF WatcherLeaves, Active, Owns, TakingOut
<1>10. IdsWritten'
  BY <1>t DEF WatcherLeaves, IsChild, IdsWritten
<1>11. TakingIn'
  BY <1>t DEF WatcherLeaves, Active, Owns, IsChild, TakingIn
<1>12. Reading'
  BY <1>t DEF WatcherLeaves, Owns, Reading
<1>13. TakingBack'
  BY <1>t DEF WatcherLeaves, Owns, IsChild, TakingBack
<1>14. QED
  BY <1>1, <1>2, <1>3, <1>4, <1>5, <1>6, <1>7, <1>8, <1>9, <1>10, <1>11, <1>12, <1>13
  DEF ProcInv, PanesOK, ListsOK

\* The watcher stops the writer and ends.
LEMMA WatcherReleasesProc ==
  ASSUME NEW r \in Panes, ProcInv, WatcherReleases(r)
  PROVE  ProcInv'
<1> USE ChildAssumption
    DEF ProcTypes, kernelVars, paneVars, watchVars, killVars, reapVars, inputVars, swapVars
<1>t. ProcTypes /\ ~astray /\ NoChildIsForgotten /\ KernelOK /\ PanesOK /\ ListsOK
     /\ TakingOut /\ IdsWritten /\ TakingIn /\ Reading /\ TakingBack
  BY DEF ProcInv
<1>1. ProcTypes'
  BY <1>t DEF WatcherReleases, Exits, WatcherStates, KillerStates, SwapStates, AllPolicies
<1>2. KernelOK'
  BY <1>t DEF WatcherReleases, KernelOK, IsChild
<1>3. (~astray)'
  BY <1>t DEF WatcherReleases
<1>4. NoChildIsForgotten'
  BY <1>t DEF WatcherReleases, NoChildIsForgotten, IsChild
<1>5. ASSUME NEW p \in Panes PROVE PaneOK(p)'
  BY <1>t DEF WatcherReleases, PanesOK, PaneOK, Active, Owns
<1>6. ASSUME NEW p \in Panes PROVE WatcherOK(p)'
  BY <1>t DEF WatcherReleases, PanesOK, WatcherOK, Owns, IsChild
<1>7. ASSUME NEW p \in Panes PROVE KillerOK(p)'
  BY <1>t DEF WatcherReleases, PanesOK, KillerOK
<1>8. ASSUME NEW i \in Pids PROVE ListOK(i)'
  BY <1>t DEF WatcherReleases, ListsOK, ListOK, Settled, Active, IsChild
<1>9. TakingOut'
  BY <1>t DEF WatcherReleases, Active, Owns, TakingOut
<1>10. IdsWritten'
  BY <1>t DEF WatcherReleases, IsChild, IdsWritten
<1>11. TakingIn'
  BY <1>t DEF WatcherReleases, Active, Owns, IsChild, TakingIn
<1>12. Reading'
  BY <1>t DEF WatcherReleases, Owns, Reading
<1>13. TakingBack'
  BY <1>t DEF WatcherReleases, Owns, IsChild, TakingBack
<1>14. QED
  BY <1>1, <1>2, <1>3, <1>4, <1>5, <1>6, <1>7, <1>8, <1>9, <1>10, <1>11, <1>12, <1>13
  DEF ProcInv, PanesOK, ListsOK

\* The close takes the pane out of the table; its id is reserved unless the child is lost.
LEMMA KillRemovesProc ==
  ASSUME NEW r \in Panes, ProcInv, KillRemoves(r)
  PROVE  ProcInv'
<1> USE ChildAssumption
    DEF ProcTypes, kernelVars, paneVars, watchVars, killVars, reapVars, inputVars, swapVars
<1>t. ProcTypes /\ ~astray /\ NoChildIsForgotten /\ KernelOK /\ PanesOK /\ ListsOK
     /\ TakingOut /\ IdsWritten /\ TakingIn /\ Reading /\ TakingBack
  BY DEF ProcInv
<1>1. ProcTypes'
  BY <1>t DEF KillRemoves, Exits, WatcherStates, KillerStates, SwapStates, AllPolicies
<1>2. KernelOK'
  BY <1>t DEF KillRemoves, KernelOK, IsChild
<1>3. (~astray)'
  BY <1>t DEF KillRemoves
<1>4. NoChildIsForgotten'
  BY <1>t DEF KillRemoves, NoChildIsForgotten, IsChild
<1>5. ASSUME NEW p \in Panes PROVE PaneOK(p)'
  BY <1>t DEF KillRemoves, PanesOK, PaneOK, Active, Owns
<1>6. ASSUME NEW p \in Panes PROVE WatcherOK(p)'
  BY <1>t DEF KillRemoves, PanesOK, WatcherOK, Owns, IsChild
<1>7. ASSUME NEW p \in Panes PROVE KillerOK(p)'
  BY <1>t DEF KillRemoves, PanesOK, KillerOK
<1>8. ASSUME NEW i \in Pids PROVE ListOK(i)'
  BY <1>t DEF KillRemoves, ListsOK, ListOK, Settled, Active, IsChild
<1>9. TakingOut'
  BY <1>t DEF KillRemoves, Active, TakingOut
<1>10. IdsWritten'
  BY <1>t DEF KillRemoves, IsChild, IdsWritten
<1>11. TakingIn'
  BY <1>t DEF KillRemoves, Active, TakingIn
<1>12. Reading'
  BY <1>t DEF KillRemoves, Owns, Reading
<1>13. TakingBack'
  BY <1>t DEF KillRemoves, Owns, IsChild, TakingBack
<1>14. QED
  BY <1>1, <1>2, <1>3, <1>4, <1>5, <1>6, <1>7, <1>8, <1>9, <1>10, <1>11, <1>12, <1>13
  DEF ProcInv, PanesOK, ListsOK

\* The close picks its first signal by the policy and the exit recorded so far.
LEMMA KillChecksProc ==
  ASSUME NEW r \in Panes, ProcInv, KillChecks(r)
  PROVE  ProcInv'
<1> USE ChildAssumption
    DEF ProcTypes, kernelVars, paneVars, watchVars, killVars, reapVars, inputVars, swapVars
<1>t. ProcTypes /\ ~astray /\ NoChildIsForgotten /\ KernelOK /\ PanesOK /\ ListsOK
     /\ TakingOut /\ IdsWritten /\ TakingIn /\ Reading /\ TakingBack
  BY DEF ProcInv
<1>1. ProcTypes'
  BY <1>t
  DEF KillChecks, KillerGoes, HasExited, AfterCheck, Exits, WatcherStates, KillerStates,
      SwapStates, AllPolicies
<1>2. KernelOK'
  BY <1>t DEF KillChecks, KillerGoes, HasExited, AfterCheck, KernelOK, IsChild
<1>3. (~astray)'
  BY <1>t DEF KillChecks, KillerGoes, HasExited, AfterCheck
<1>4. NoChildIsForgotten'
  BY <1>t DEF KillChecks, KillerGoes, HasExited, AfterCheck, NoChildIsForgotten, IsChild
<1>5. ASSUME NEW p \in Panes PROVE PaneOK(p)'
  BY <1>t DEF KillChecks, KillerGoes, HasExited, AfterCheck, PanesOK, PaneOK, Active, Owns
<1>6. ASSUME NEW p \in Panes PROVE WatcherOK(p)'
  BY <1>t DEF KillChecks, KillerGoes, HasExited, AfterCheck, PanesOK, WatcherOK, Owns, IsChild
<1>7. ASSUME NEW p \in Panes PROVE KillerOK(p)'
  BY <1>t DEF KillChecks, KillerGoes, HasExited, AfterCheck, PanesOK, KillerOK
<1>8. ASSUME NEW i \in Pids PROVE ListOK(i)'
  BY <1>t
  DEF KillChecks, KillerGoes, HasExited, AfterCheck, ListsOK, ListOK, Settled, Active, IsChild
<1>9. TakingOut'
  BY <1>t DEF KillChecks, KillerGoes, HasExited, AfterCheck, Active, TakingOut
<1>10. IdsWritten'
  BY <1>t DEF KillChecks, KillerGoes, HasExited, AfterCheck, IsChild, IdsWritten
<1>11. TakingIn'
  BY <1>t DEF KillChecks, KillerGoes, HasExited, AfterCheck, Active, TakingIn
<1>12. Reading'
  BY <1>t DEF KillChecks, KillerGoes, HasExited, AfterCheck, Owns, Reading
<1>13. TakingBack'
  BY <1>t DEF KillChecks, KillerGoes, HasExited, AfterCheck, Owns, IsChild, TakingBack
<1>14. QED
  BY <1>1, <1>2, <1>3, <1>4, <1>5, <1>6, <1>7, <1>8, <1>9, <1>10, <1>11, <1>12, <1>13
  DEF ProcInv, PanesOK, ListsOK

\* The polite signal reaches the pane's own child, or nothing.
LEMMA KillAsksProc ==
  ASSUME NEW r \in Panes, ProcInv, KillAsks(r)
  PROVE  ProcInv'
<1> USE ChildAssumption
    DEF ProcTypes, kernelVars, paneVars, watchVars, killVars, reapVars, inputVars, swapVars
<1>t. ProcTypes /\ ~astray /\ NoChildIsForgotten /\ KernelOK /\ PanesOK /\ ListsOK
     /\ TakingOut /\ IdsWritten /\ TakingIn /\ Reading /\ TakingBack
  BY DEF ProcInv
<1>1. ProcTypes'
  BY <1>t
  DEF KillAsks, KillerGoes, HasExited, AfterGrace, Signal, SendSignal, Exits, WatcherStates,
      KillerStates, SwapStates, AllPolicies
<1>2. KernelOK'
  BY <1>t DEF KillAsks, KillerGoes, HasExited, AfterGrace, Signal, SendSignal, KernelOK, IsChild
<1>3. (~astray)'
  BY <1>t
  DEF KillAsks, KillerGoes, HasExited, AfterGrace, Signal, SendSignal, PanesOK, PaneOK,
      KillerOK, Active, Owns
<1>4. NoChildIsForgotten'
  BY <1>t
  DEF KillAsks, KillerGoes, HasExited, AfterGrace, Signal, SendSignal, NoChildIsForgotten,
      IsChild
<1>5. ASSUME NEW p \in Panes PROVE PaneOK(p)'
  BY <1>t
  DEF KillAsks, KillerGoes, HasExited, AfterGrace, Signal, SendSignal, PanesOK, PaneOK, Active,
      Owns
<1>6. ASSUME NEW p \in Panes PROVE WatcherOK(p)'
  BY <1>t
  DEF KillAsks, KillerGoes, HasExited, AfterGrace, Signal, SendSignal, PanesOK, WatcherOK, Owns,
      IsChild
<1>7. ASSUME NEW p \in Panes PROVE KillerOK(p)'
  BY <1>t DEF KillAsks, KillerGoes, HasExited, AfterGrace, Signal, SendSignal, PanesOK, KillerOK
<1>8. ASSUME NEW i \in Pids PROVE ListOK(i)'
  BY <1>t
  DEF KillAsks, KillerGoes, HasExited, AfterGrace, Signal, SendSignal, ListsOK, ListOK, Settled,
      Active, IsChild
<1>9. TakingOut'
  BY <1>t DEF KillAsks, KillerGoes, HasExited, AfterGrace, Signal, SendSignal, Active, TakingOut
<1>10. IdsWritten'
  BY <1>t
  DEF KillAsks, KillerGoes, HasExited, AfterGrace, Signal, SendSignal, IsChild, IdsWritten
<1>11. TakingIn'
  BY <1>t DEF KillAsks, KillerGoes, HasExited, AfterGrace, Signal, SendSignal, Active, TakingIn
<1>12. Reading'
  BY <1>t DEF KillAsks, KillerGoes, HasExited, AfterGrace, Signal, SendSignal, Owns, Reading
<1>13. TakingBack'
  BY <1>t
  DEF KillAsks, KillerGoes, HasExited, AfterGrace, Signal, SendSignal, Owns, IsChild, TakingBack
<1>14. QED
  BY <1>1, <1>2, <1>3, <1>4, <1>5, <1>6, <1>7, <1>8, <1>9, <1>10, <1>11, <1>12, <1>13
  DEF ProcInv, PanesOK, ListsOK

\* The grace window ends, with the leader or without it.
LEMMA KillGraceEndsProc ==
  ASSUME NEW r \in Panes, ProcInv, KillGraceEnds(r)
  PROVE  ProcInv'
<1> USE ChildAssumption
    DEF ProcTypes, kernelVars, paneVars, watchVars, killVars, reapVars, inputVars, swapVars
<1>t. ProcTypes /\ ~astray /\ NoChildIsForgotten /\ KernelOK /\ PanesOK /\ ListsOK
     /\ TakingOut /\ IdsWritten /\ TakingIn /\ Reading /\ TakingBack
  BY DEF ProcInv
<1>1. ProcTypes'
  BY <1>t
  DEF KillGraceEnds, KillerGoes, HasExited, AfterGrace, Exits, WatcherStates, KillerStates,
      SwapStates, AllPolicies
<1>2. KernelOK'
  BY <1>t DEF KillGraceEnds, KillerGoes, HasExited, AfterGrace, KernelOK, IsChild
<1>3. (~astray)'
  BY <1>t DEF KillGraceEnds, KillerGoes, HasExited, AfterGrace
<1>4. NoChildIsForgotten'
  BY <1>t DEF KillGraceEnds, KillerGoes, HasExited, AfterGrace, NoChildIsForgotten, IsChild
<1>5. ASSUME NEW p \in Panes PROVE PaneOK(p)'
  BY <1>t DEF KillGraceEnds, KillerGoes, HasExited, AfterGrace, PanesOK, PaneOK, Active, Owns
<1>6. ASSUME NEW p \in Panes PROVE WatcherOK(p)'
  BY <1>t
  DEF KillGraceEnds, KillerGoes, HasExited, AfterGrace, PanesOK, WatcherOK, Owns, IsChild
<1>7. ASSUME NEW p \in Panes PROVE KillerOK(p)'
  BY <1>t DEF KillGraceEnds, KillerGoes, HasExited, AfterGrace, PanesOK, KillerOK
<1>8. ASSUME NEW i \in Pids PROVE ListOK(i)'
  BY <1>t
  DEF KillGraceEnds, KillerGoes, HasExited, AfterGrace, ListsOK, ListOK, Settled, Active,
      IsChild
<1>9. TakingOut'
  BY <1>t DEF KillGraceEnds, KillerGoes, HasExited, AfterGrace, Active, TakingOut
<1>10. IdsWritten'
  BY <1>t DEF KillGraceEnds, KillerGoes, HasExited, AfterGrace, IsChild, IdsWritten
<1>11. TakingIn'
  BY <1>t DEF KillGraceEnds, KillerGoes, HasExited, AfterGrace, Active, TakingIn
<1>12. Reading'
  BY <1>t DEF KillGraceEnds, KillerGoes, HasExited, AfterGrace, Owns, Reading
<1>13. TakingBack'
  BY <1>t DEF KillGraceEnds, KillerGoes, HasExited, AfterGrace, Owns, IsChild, TakingBack
<1>14. QED
  BY <1>1, <1>2, <1>3, <1>4, <1>5, <1>6, <1>7, <1>8, <1>9, <1>10, <1>11, <1>12, <1>13
  DEF ProcInv, PanesOK, ListsOK

\* The forced signal reaches the pane's own child, or nothing.
LEMMA ForceKillChildProc ==
  ASSUME NEW r \in Panes, ProcInv, ForceKillChild(r)
  PROVE  ProcInv'
<1> USE ChildAssumption
    DEF ProcTypes, kernelVars, paneVars, watchVars, killVars, reapVars, inputVars, swapVars
<1>t. ProcTypes /\ ~astray /\ NoChildIsForgotten /\ KernelOK /\ PanesOK /\ ListsOK
     /\ TakingOut /\ IdsWritten /\ TakingIn /\ Reading /\ TakingBack
  BY DEF ProcInv
<1>1. ProcTypes'
  BY <1>t
  DEF ForceKillChild, KillerGoes, HasExited, Signal, SendSignal, Exits, WatcherStates,
      KillerStates, SwapStates, AllPolicies
<1>2. KernelOK'
  BY <1>t DEF ForceKillChild, KillerGoes, HasExited, Signal, SendSignal, KernelOK, IsChild
<1>3. (~astray)'
  BY <1>t
  DEF ForceKillChild, KillerGoes, HasExited, Signal, SendSignal, PanesOK, PaneOK, KillerOK,
      Active, Owns
<1>4. NoChildIsForgotten'
  BY <1>t
  DEF ForceKillChild, KillerGoes, HasExited, Signal, SendSignal, NoChildIsForgotten, IsChild
<1>5. ASSUME NEW p \in Panes PROVE PaneOK(p)'
  BY <1>t
  DEF ForceKillChild, KillerGoes, HasExited, Signal, SendSignal, PanesOK, PaneOK, Active, Owns
<1>6. ASSUME NEW p \in Panes PROVE WatcherOK(p)'
  BY <1>t
  DEF ForceKillChild, KillerGoes, HasExited, Signal, SendSignal, PanesOK, WatcherOK, Owns,
      IsChild
<1>7. ASSUME NEW p \in Panes PROVE KillerOK(p)'
  BY <1>t DEF ForceKillChild, KillerGoes, HasExited, Signal, SendSignal, PanesOK, KillerOK
<1>8. ASSUME NEW i \in Pids PROVE ListOK(i)'
  BY <1>t
  DEF ForceKillChild, KillerGoes, HasExited, Signal, SendSignal, ListsOK, ListOK, Settled,
      Active, IsChild
<1>9. TakingOut'
  BY <1>t DEF ForceKillChild, KillerGoes, HasExited, Signal, SendSignal, Active, TakingOut
<1>10. IdsWritten'
  BY <1>t DEF ForceKillChild, KillerGoes, HasExited, Signal, SendSignal, IsChild, IdsWritten
<1>11. TakingIn'
  BY <1>t DEF ForceKillChild, KillerGoes, HasExited, Signal, SendSignal, Active, TakingIn
<1>12. Reading'
  BY <1>t DEF ForceKillChild, KillerGoes, HasExited, Signal, SendSignal, Owns, Reading
<1>13. TakingBack'
  BY <1>t
  DEF ForceKillChild, KillerGoes, HasExited, Signal, SendSignal, Owns, IsChild, TakingBack
<1>14. QED
  BY <1>1, <1>2, <1>3, <1>4, <1>5, <1>6, <1>7, <1>8, <1>9, <1>10, <1>11, <1>12, <1>13
  DEF ProcInv, PanesOK, ListsOK

\* The group is signalled only while its ids are reserved.
LEMMA ForceKillTreeProc ==
  ASSUME NEW r \in Panes, ProcInv, ForceKillTree(r)
  PROVE  ProcInv'
<1> USE ChildAssumption
    DEF ProcTypes, kernelVars, paneVars, watchVars, killVars, reapVars, inputVars, swapVars
<1>t. ProcTypes /\ ~astray /\ NoChildIsForgotten /\ KernelOK /\ PanesOK /\ ListsOK
     /\ TakingOut /\ IdsWritten /\ TakingIn /\ Reading /\ TakingBack
  BY DEF ProcInv
<1>1. ProcTypes'
  BY <1>t
  DEF ForceKillTree, KillerGoes, HasExited, Signal, SendSignal, Exits, WatcherStates,
      KillerStates, SwapStates, AllPolicies
<1>2. KernelOK'
  BY <1>t DEF ForceKillTree, KillerGoes, HasExited, Signal, SendSignal, KernelOK, IsChild
<1>3. (~astray)'
  BY <1>t
  DEF ForceKillTree, KillerGoes, HasExited, Signal, SendSignal, PanesOK, PaneOK, KillerOK,
      Active, Owns
<1>4. NoChildIsForgotten'
  BY <1>t
  DEF ForceKillTree, KillerGoes, HasExited, Signal, SendSignal, NoChildIsForgotten, IsChild
<1>5. ASSUME NEW p \in Panes PROVE PaneOK(p)'
  BY <1>t
  DEF ForceKillTree, KillerGoes, HasExited, Signal, SendSignal, PanesOK, PaneOK, Active, Owns
<1>6. ASSUME NEW p \in Panes PROVE WatcherOK(p)'
  BY <1>t
  DEF ForceKillTree, KillerGoes, HasExited, Signal, SendSignal, PanesOK, WatcherOK, Owns,
      IsChild
<1>7. ASSUME NEW p \in Panes PROVE KillerOK(p)'
  BY <1>t DEF ForceKillTree, KillerGoes, HasExited, Signal, SendSignal, PanesOK, KillerOK
<1>8. ASSUME NEW i \in Pids PROVE ListOK(i)'
  BY <1>t
  DEF ForceKillTree, KillerGoes, HasExited, Signal, SendSignal, ListsOK, ListOK, Settled,
      Active, IsChild
<1>9. TakingOut'
  BY <1>t DEF ForceKillTree, KillerGoes, HasExited, Signal, SendSignal, Active, TakingOut
<1>10. IdsWritten'
  BY <1>t DEF ForceKillTree, KillerGoes, HasExited, Signal, SendSignal, IsChild, IdsWritten
<1>11. TakingIn'
  BY <1>t DEF ForceKillTree, KillerGoes, HasExited, Signal, SendSignal, Active, TakingIn
<1>12. Reading'
  BY <1>t DEF ForceKillTree, KillerGoes, HasExited, Signal, SendSignal, Owns, Reading
<1>13. TakingBack'
  BY <1>t
  DEF ForceKillTree, KillerGoes, HasExited, Signal, SendSignal, Owns, IsChild, TakingBack
<1>14. QED
  BY <1>1, <1>2, <1>3, <1>4, <1>5, <1>6, <1>7, <1>8, <1>9, <1>10, <1>11, <1>12, <1>13
  DEF ProcInv, PanesOK, ListsOK

\* The close stops the writer.
LEMMA KillReleasesProc ==
  ASSUME NEW r \in Panes, ProcInv, KillReleases(r)
  PROVE  ProcInv'
<1> USE ChildAssumption
    DEF ProcTypes, kernelVars, paneVars, watchVars, killVars, reapVars, inputVars, swapVars
<1>t. ProcTypes /\ ~astray /\ NoChildIsForgotten /\ KernelOK /\ PanesOK /\ ListsOK
     /\ TakingOut /\ IdsWritten /\ TakingIn /\ Reading /\ TakingBack
  BY DEF ProcInv
<1>1. ProcTypes'
  BY <1>t
  DEF KillReleases, KillerGoes, HasExited, Exits, WatcherStates, KillerStates, SwapStates,
      AllPolicies
<1>2. KernelOK'
  BY <1>t DEF KillReleases, KillerGoes, HasExited, KernelOK, IsChild
<1>3. (~astray)'
  BY <1>t DEF KillReleases, KillerGoes, HasExited
<1>4. NoChildIsForgotten'
  BY <1>t DEF KillReleases, KillerGoes, HasExited, NoChildIsForgotten, IsChild
<1>5. ASSUME NEW p \in Panes PROVE PaneOK(p)'
  BY <1>t DEF KillReleases, KillerGoes, HasExited, PanesOK, PaneOK, Active, Owns
<1>6. ASSUME NEW p \in Panes PROVE WatcherOK(p)'
  BY <1>t DEF KillReleases, KillerGoes, HasExited, PanesOK, WatcherOK, Owns, IsChild
<1>7. ASSUME NEW p \in Panes PROVE KillerOK(p)'
  BY <1>t DEF KillReleases, KillerGoes, HasExited, PanesOK, KillerOK
<1>8. ASSUME NEW i \in Pids PROVE ListOK(i)'
  BY <1>t DEF KillReleases, KillerGoes, HasExited, ListsOK, ListOK, Settled, Active, IsChild
<1>9. TakingOut'
  BY <1>t DEF KillReleases, KillerGoes, HasExited, Active, TakingOut
<1>10. IdsWritten'
  BY <1>t DEF KillReleases, KillerGoes, HasExited, IsChild, IdsWritten
<1>11. TakingIn'
  BY <1>t DEF KillReleases, KillerGoes, HasExited, Active, TakingIn
<1>12. Reading'
  BY <1>t DEF KillReleases, KillerGoes, HasExited, Owns, Reading
<1>13. TakingBack'
  BY <1>t DEF KillReleases, KillerGoes, HasExited, Owns, IsChild, TakingBack
<1>14. QED
  BY <1>1, <1>2, <1>3, <1>4, <1>5, <1>6, <1>7, <1>8, <1>9, <1>10, <1>11, <1>12, <1>13
  DEF ProcInv, PanesOK, ListsOK

\* The close waits for the exit a bounded time.
LEMMA KillWaitsProc ==
  ASSUME NEW r \in Panes, ProcInv, KillWaits(r)
  PROVE  ProcInv'
<1> USE ChildAssumption
    DEF ProcTypes, kernelVars, paneVars, watchVars, killVars, reapVars, inputVars, swapVars
<1>t. ProcTypes /\ ~astray /\ NoChildIsForgotten /\ KernelOK /\ PanesOK /\ ListsOK
     /\ TakingOut /\ IdsWritten /\ TakingIn /\ Reading /\ TakingBack
  BY DEF ProcInv
<1>1. ProcTypes'
  BY <1>t
  DEF KillWaits, KillerGoes, HasExited, Exits, WatcherStates, KillerStates, SwapStates,
      AllPolicies
<1>2. KernelOK'
  BY <1>t DEF KillWaits, KillerGoes, HasExited, KernelOK, IsChild
<1>3. (~astray)'
  BY <1>t DEF KillWaits, KillerGoes, HasExited
<1>4. NoChildIsForgotten'
  BY <1>t DEF KillWaits, KillerGoes, HasExited, NoChildIsForgotten, IsChild
<1>5. ASSUME NEW p \in Panes PROVE PaneOK(p)'
  BY <1>t DEF KillWaits, KillerGoes, HasExited, PanesOK, PaneOK, Active, Owns
<1>6. ASSUME NEW p \in Panes PROVE WatcherOK(p)'
  BY <1>t DEF KillWaits, KillerGoes, HasExited, PanesOK, WatcherOK, Owns, IsChild
<1>7. ASSUME NEW p \in Panes PROVE KillerOK(p)'
  BY <1>t DEF KillWaits, KillerGoes, HasExited, PanesOK, KillerOK
<1>8. ASSUME NEW i \in Pids PROVE ListOK(i)'
  BY <1>t DEF KillWaits, KillerGoes, HasExited, ListsOK, ListOK, Settled, Active, IsChild
<1>9. TakingOut'
  BY <1>t DEF KillWaits, KillerGoes, HasExited, Active, TakingOut
<1>10. IdsWritten'
  BY <1>t DEF KillWaits, KillerGoes, HasExited, IsChild, IdsWritten
<1>11. TakingIn'
  BY <1>t DEF KillWaits, KillerGoes, HasExited, Active, TakingIn
<1>12. Reading'
  BY <1>t DEF KillWaits, KillerGoes, HasExited, Owns, Reading
<1>13. TakingBack'
  BY <1>t DEF KillWaits, KillerGoes, HasExited, Owns, IsChild, TakingBack
<1>14. QED
  BY <1>1, <1>2, <1>3, <1>4, <1>5, <1>6, <1>7, <1>8, <1>9, <1>10, <1>11, <1>12, <1>13
  DEF ProcInv, PanesOK, ListsOK

\* A child that outlives the wait goes on the ids left running.
LEMMA KillInsertsProc ==
  ASSUME NEW r \in Panes, ProcInv, KillInserts(r)
  PROVE  ProcInv'
<1> USE ChildAssumption
    DEF ProcTypes, kernelVars, paneVars, watchVars, killVars, reapVars, inputVars, swapVars
<1>t. ProcTypes /\ ~astray /\ NoChildIsForgotten /\ KernelOK /\ PanesOK /\ ListsOK
     /\ TakingOut /\ IdsWritten /\ TakingIn /\ Reading /\ TakingBack
  BY DEF ProcInv
<1>1. ProcTypes'
  BY <1>t
  DEF KillInserts, KillerGoes, HasExited, PanesOK, PaneOK, Exits, WatcherStates, KillerStates,
      SwapStates, AllPolicies
<1>2. KernelOK'
  BY <1>t DEF KillInserts, KillerGoes, HasExited, KernelOK, IsChild
<1>3. (~astray)'
  BY <1>t DEF KillInserts, KillerGoes, HasExited
<1>4. NoChildIsForgotten'
  BY <1>t DEF KillInserts, KillerGoes, HasExited, NoChildIsForgotten, IsChild
<1>5. ASSUME NEW p \in Panes PROVE PaneOK(p)'
  BY <1>t DEF KillInserts, KillerGoes, HasExited, PanesOK, PaneOK, Active, Owns
<1>6. ASSUME NEW p \in Panes PROVE WatcherOK(p)'
  BY <1>t DEF KillInserts, KillerGoes, HasExited, PanesOK, WatcherOK, Owns, IsChild
<1>7. ASSUME NEW p \in Panes PROVE KillerOK(p)'
  BY <1>t DEF KillInserts, KillerGoes, HasExited, PanesOK, KillerOK
<1>8. ASSUME NEW i \in Pids PROVE ListOK(i)'
  BY <1>t
  DEF KillInserts, KillerGoes, HasExited, PanesOK, PaneOK, KillerOK, ListsOK, ListOK, Settled,
      Active, Owns, IsChild
<1>9. TakingOut'
  BY <1>t DEF KillInserts, KillerGoes, HasExited, Active, TakingOut
<1>10. IdsWritten'
  BY <1>t DEF KillInserts, KillerGoes, HasExited, Active, IdsWritten, TakingOut
<1>11. TakingIn'
  BY <1>t DEF KillInserts, KillerGoes, HasExited, Active, TakingIn
<1>12. Reading'
  BY <1>t DEF KillInserts, KillerGoes, HasExited, Owns, Reading
<1>13. TakingBack'
  BY <1>t DEF KillInserts, KillerGoes, HasExited, Owns, IsChild, TakingBack
<1>14. QED
  BY <1>1, <1>2, <1>3, <1>4, <1>5, <1>6, <1>7, <1>8, <1>9, <1>10, <1>11, <1>12, <1>13
  DEF ProcInv, PanesOK, ListsOK

\* The child is left to its watcher, unless its exit was recorded first.
LEMMA KillLeavesProc ==
  ASSUME NEW r \in Panes, ProcInv, KillLeaves(r)
  PROVE  ProcInv'
<1> USE ChildAssumption
    DEF ProcTypes, kernelVars, paneVars, watchVars, killVars, reapVars, inputVars, swapVars
<1>t. ProcTypes /\ ~astray /\ NoChildIsForgotten /\ KernelOK /\ PanesOK /\ ListsOK
     /\ TakingOut /\ IdsWritten /\ TakingIn /\ Reading /\ TakingBack
  BY DEF ProcInv
<1>1. ProcTypes'
  BY <1>t
  DEF KillLeaves, KillerGoes, HasExited, Exits, WatcherStates, KillerStates, SwapStates,
      AllPolicies
<1>2. KernelOK'
  BY <1>t DEF KillLeaves, KillerGoes, HasExited, KernelOK, IsChild
<1>3. (~astray)'
  BY <1>t DEF KillLeaves, KillerGoes, HasExited
<1>4. NoChildIsForgotten'
  BY <1>t
  DEF KillLeaves, KillerGoes, HasExited, NoChildIsForgotten, KernelOK, PanesOK, KillerOK,
      IsChild
<1>5. ASSUME NEW p \in Panes PROVE PaneOK(p)'
  BY <1>t DEF KillLeaves, KillerGoes, HasExited, PanesOK, PaneOK, Active, Owns
<1>6. ASSUME NEW p \in Panes PROVE WatcherOK(p)'
  <2>1. CASE p = r
    BY <1>t, <2>1
    DEF KillLeaves, KillerGoes, HasExited, KernelOK, PanesOK, PaneOK, WatcherOK, KillerOK,
        ListsOK, ListOK, Settled, Active, Owns, IsChild, TakingIn
  <2>2. CASE p # r
    <3>1. WatcherOK(p)
      BY <1>t DEF PanesOK
    <3>2. QED
      BY <1>t, <2>2, <3>1
      DEF KillLeaves, KillerGoes, HasExited, KernelOK, PanesOK, PaneOK, WatcherOK, KillerOK,
          ListsOK, ListOK, Settled, Active, Owns, IsChild, TakingIn
  <2>3. QED
    BY <2>1, <2>2
<1>7. ASSUME NEW p \in Panes PROVE KillerOK(p)'
  BY <1>t DEF KillLeaves, KillerGoes, HasExited, PanesOK, KillerOK
<1>8. ASSUME NEW i \in Pids PROVE ListOK(i)'
  BY <1>t DEF KillLeaves, KillerGoes, HasExited, ListsOK, ListOK, Settled, Active, IsChild
<1>9. TakingOut'
  BY <1>t DEF KillLeaves, KillerGoes, HasExited, Active, TakingOut
<1>10. IdsWritten'
  BY <1>t DEF KillLeaves, KillerGoes, HasExited, IsChild, IdsWritten
<1>11. TakingIn'
  BY <1>t DEF KillLeaves, KillerGoes, HasExited, Active, TakingIn
<1>12. Reading'
  BY <1>t DEF KillLeaves, KillerGoes, HasExited, Owns, Reading
<1>13. TakingBack'
  BY <1>t DEF KillLeaves, KillerGoes, HasExited, Owns, IsChild, TakingBack
<1>14. QED
  BY <1>1, <1>2, <1>3, <1>4, <1>5, <1>6, <1>7, <1>8, <1>9, <1>10, <1>11, <1>12, <1>13
  DEF ProcInv, PanesOK, ListsOK

\* An exit that was recorded first takes the id off the ids left running.
LEMMA KillRemovesIdProc ==
  ASSUME NEW r \in Panes, ProcInv, KillRemovesId(r)
  PROVE  ProcInv'
<1> USE ChildAssumption
    DEF ProcTypes, kernelVars, paneVars, watchVars, killVars, reapVars, inputVars, swapVars
<1>t. ProcTypes /\ ~astray /\ NoChildIsForgotten /\ KernelOK /\ PanesOK /\ ListsOK
     /\ TakingOut /\ IdsWritten /\ TakingIn /\ Reading /\ TakingBack
  BY DEF ProcInv
<1>1. ProcTypes'
  BY <1>t
  DEF KillRemovesId, KillerGoes, HasExited, Exits, WatcherStates, KillerStates, SwapStates,
      AllPolicies
<1>2. KernelOK'
  BY <1>t DEF KillRemovesId, KillerGoes, HasExited, KernelOK, IsChild
<1>3. (~astray)'
  BY <1>t DEF KillRemovesId, KillerGoes, HasExited
<1>4. NoChildIsForgotten'
  BY <1>t
  DEF KillRemovesId, KillerGoes, HasExited, NoChildIsForgotten, PanesOK, PaneOK, KillerOK,
      Active, Owns, IsChild
<1>5. ASSUME NEW p \in Panes PROVE PaneOK(p)'
  BY <1>t DEF KillRemovesId, KillerGoes, HasExited, PanesOK, PaneOK, Active, Owns
<1>6. ASSUME NEW p \in Panes PROVE WatcherOK(p)'
  BY <1>t
  DEF KillRemovesId, KillerGoes, HasExited, PanesOK, PaneOK, WatcherOK, KillerOK, Active, Owns,
      IsChild
<1>7. ASSUME NEW p \in Panes PROVE KillerOK(p)'
  BY <1>t DEF KillRemovesId, KillerGoes, HasExited, PanesOK, PaneOK, KillerOK, Active, Owns
<1>8. ASSUME NEW i \in Pids PROVE ListOK(i)'
  BY <1>t
  DEF KillRemovesId, KillerGoes, HasExited, PanesOK, PaneOK, KillerOK, ListsOK, ListOK, Settled,
      Active, Owns, IsChild
<1>9. TakingOut'
  BY <1>t DEF KillRemovesId, KillerGoes, HasExited, Active, TakingOut
<1>10. IdsWritten'
  BY <1>t DEF KillRemovesId, KillerGoes, HasExited, IsChild, IdsWritten
<1>11. TakingIn'
  BY <1>t DEF KillRemovesId, KillerGoes, HasExited, Active, TakingIn
<1>12. Reading'
  BY <1>t DEF KillRemovesId, KillerGoes, HasExited, Owns, Reading
<1>13. TakingBack'
  BY <1>t DEF KillRemovesId, KillerGoes, HasExited, Owns, IsChild, TakingBack
<1>14. QED
  BY <1>1, <1>2, <1>3, <1>4, <1>5, <1>6, <1>7, <1>8, <1>9, <1>10, <1>11, <1>12, <1>13
  DEF ProcInv, PanesOK, ListsOK

\* The close joins a watcher that ended.
LEMMA KillJoinsProc ==
  ASSUME NEW r \in Panes, ProcInv, KillJoins(r)
  PROVE  ProcInv'
<1> USE ChildAssumption
    DEF ProcTypes, kernelVars, paneVars, watchVars, killVars, reapVars, inputVars, swapVars
<1>t. ProcTypes /\ ~astray /\ NoChildIsForgotten /\ KernelOK /\ PanesOK /\ ListsOK
     /\ TakingOut /\ IdsWritten /\ TakingIn /\ Reading /\ TakingBack
  BY DEF ProcInv
<1>1. ProcTypes'
  BY <1>t
  DEF KillJoins, KillerGoes, HasExited, Exits, WatcherStates, KillerStates, SwapStates,
      AllPolicies
<1>2. KernelOK'
  BY <1>t DEF KillJoins, KillerGoes, HasExited, KernelOK, IsChild
<1>3. (~astray)'
  BY <1>t DEF KillJoins, KillerGoes, HasExited
<1>4. NoChildIsForgotten'
  <2>1. r \in Panes /\ killer[r] = "joining" /\ exit[r] # "none" /\ PaneOK(r)
    BY <1>t DEF KillJoins, KillerGoes, PanesOK, KillerOK
  <2>2. exit[r] # "kept" => ~Owns(r)
    BY <1>t, <2>1 DEF PaneOK, Exits
  <2>3. UNCHANGED <<proc, owner, pid, paneState, leftIds, ending, forgotten, swapPc, carried, carriedIds>>
    BY DEF KillJoins, KillerGoes, kernelVars, paneVars, reapVars, swapVars
  <2>4. killer' = [killer EXCEPT ![r] = IF exit[r] = "kept" THEN "reaping" ELSE "done"]
    BY DEF KillJoins, KillerGoes
  <2>5. QED
    BY <1>t, <2>1, <2>2, <2>3, <2>4 DEF NoChildIsForgotten, KernelOK, Owns, IsChild
<1>5. ASSUME NEW p \in Panes PROVE PaneOK(p)'
  BY <1>t DEF KillJoins, KillerGoes, HasExited, PanesOK, PaneOK, Active, Owns
<1>6. ASSUME NEW p \in Panes PROVE WatcherOK(p)'
  BY <1>t DEF KillJoins, KillerGoes, HasExited, PanesOK, WatcherOK, Owns, IsChild
<1>7. ASSUME NEW p \in Panes PROVE KillerOK(p)'
  BY <1>t DEF KillJoins, KillerGoes, HasExited, PanesOK, KillerOK
<1>8. ASSUME NEW i \in Pids PROVE ListOK(i)'
  BY <1>t DEF KillJoins, KillerGoes, HasExited, ListsOK, ListOK, Settled, Active, IsChild
<1>9. TakingOut'
  BY <1>t DEF KillJoins, KillerGoes, HasExited, Active, TakingOut
<1>10. IdsWritten'
  BY <1>t DEF KillJoins, KillerGoes, HasExited, IsChild, IdsWritten
<1>11. TakingIn'
  BY <1>t DEF KillJoins, KillerGoes, HasExited, Active, TakingIn
<1>12. Reading'
  BY <1>t DEF KillJoins, KillerGoes, HasExited, Owns, Reading
<1>13. TakingBack'
  BY <1>t DEF KillJoins, KillerGoes, HasExited, Owns, IsChild, TakingBack
<1>14. QED
  BY <1>1, <1>2, <1>3, <1>4, <1>5, <1>6, <1>7, <1>8, <1>9, <1>10, <1>11, <1>12, <1>13
  DEF ProcInv, PanesOK, ListsOK

\* The close reaps the child whose exit the watcher kept.
LEMMA KillReapsProc ==
  ASSUME NEW r \in Panes, ProcInv, KillReaps(r)
  PROVE  ProcInv'
<1> USE ChildAssumption
    DEF ProcTypes, kernelVars, paneVars, watchVars, killVars, reapVars, inputVars, swapVars
<1>t. ProcTypes /\ ~astray /\ NoChildIsForgotten /\ KernelOK /\ PanesOK /\ ListsOK
     /\ TakingOut /\ IdsWritten /\ TakingIn /\ Reading /\ TakingBack
  BY DEF ProcInv
<1>1. ProcTypes'
  <2>1. astray' \in BOOLEAN
    BY <1>t, Zenon DEF KillReaps, KillerGoes, HasExited, ReapChild
  <2>2. QED
    BY <1>t, <2>1, ChildAssumption
    DEF KillReaps, KillerGoes, HasExited, ReapChild, Exits, WatcherStates, KillerStates,
        SwapStates, AllPolicies, IsChild
<1>2. KernelOK'
  BY <1>t DEF KillReaps, KillerGoes, HasExited, ReapChild, KernelOK, IsChild
<1>3. (~astray)'
  BY <1>t
  DEF KillReaps, KillerGoes, HasExited, ReapChild, PanesOK, PaneOK, KillerOK, Active, Owns
<1>4. NoChildIsForgotten'
  BY <1>t
  DEF KillReaps, KillerGoes, HasExited, ReapChild, NoChildIsForgotten, KernelOK, PanesOK,
      PaneOK, KillerOK, Active, IsChild
<1>5. ASSUME NEW p \in Panes PROVE PaneOK(p)'
  BY <1>t
  DEF KillReaps, KillerGoes, HasExited, ReapChild, PanesOK, PaneOK, KillerOK, Active, Owns
<1>6. ASSUME NEW p \in Panes PROVE WatcherOK(p)'
  BY <1>t
  DEF KillReaps, KillerGoes, HasExited, ReapChild, PanesOK, PaneOK, WatcherOK, KillerOK, Active,
      Owns, IsChild
<1>7. ASSUME NEW p \in Panes PROVE KillerOK(p)'
  BY <1>t DEF KillReaps, KillerGoes, HasExited, ReapChild, PanesOK, KillerOK
<1>8. ASSUME NEW i \in Pids PROVE ListOK(i)'
  BY <1>t
  DEF KillReaps, KillerGoes, HasExited, ReapChild, ListsOK, ListOK, Settled, Active, IsChild
<1>9. TakingOut'
  BY <1>t DEF KillReaps, KillerGoes, HasExited, ReapChild, Active, TakingOut
<1>10. IdsWritten'
  BY <1>t DEF KillReaps, KillerGoes, HasExited, ReapChild, IsChild, IdsWritten
<1>11. TakingIn'
  BY <1>t DEF KillReaps, KillerGoes, HasExited, ReapChild, Active, TakingIn
<1>12. Reading'
  BY <1>t DEF KillReaps, KillerGoes, HasExited, ReapChild, Active, Reading, TakingIn
<1>13. TakingBack'
  BY <1>t DEF KillReaps, KillerGoes, HasExited, ReapChild, Active, TakingBack, TakingIn
<1>14. QED
  BY <1>1, <1>2, <1>3, <1>4, <1>5, <1>6, <1>7, <1>8, <1>9, <1>10, <1>11, <1>12, <1>13
  DEF ProcInv, PanesOK, ListsOK

\* The wait for a child an earlier image left answers.
LEMMA ReaperSeesProc ==
  ASSUME NEW h \in Pids, ProcInv, ReaperSees(h)
  PROVE  ProcInv'
<1> USE ChildAssumption
    DEF ProcTypes, kernelVars, paneVars, watchVars, killVars, reapVars, inputVars, swapVars
<1>t. ProcTypes /\ ~astray /\ NoChildIsForgotten /\ KernelOK /\ PanesOK /\ ListsOK
     /\ TakingOut /\ IdsWritten /\ TakingIn /\ Reading /\ TakingBack
  BY DEF ProcInv
<1>1. ProcTypes'
  BY <1>t DEF ReaperSees, WaitResult
<1>2. KernelOK'
  BY <1>t DEF ReaperSees, WaitResult, KernelOK, IsChild
<1>3. (~astray)'
  BY <1>t DEF ReaperSees, WaitResult
<1>4. NoChildIsForgotten'
  BY <1>t DEF ReaperSees, WaitResult, NoChildIsForgotten, IsChild
<1>5. ASSUME NEW p \in Panes PROVE PaneOK(p)'
  BY <1>t DEF ReaperSees, WaitResult, PanesOK, PaneOK, Active, Owns
<1>6. ASSUME NEW p \in Panes PROVE WatcherOK(p)'
  BY <1>t DEF ReaperSees, WaitResult, PanesOK, WatcherOK, Owns, IsChild
<1>7. ASSUME NEW p \in Panes PROVE KillerOK(p)'
  BY <1>t DEF ReaperSees, WaitResult, PanesOK, KillerOK
<1>8. ASSUME NEW i \in Pids PROVE ListOK(i)'
  BY <1>t DEF ReaperSees, WaitResult, ListsOK, ListOK, Settled, Active, IsChild
<1>9. TakingOut'
  BY <1>t DEF ReaperSees, WaitResult, Active, Owns, TakingOut
<1>10. IdsWritten'
  BY <1>t DEF ReaperSees, WaitResult, IsChild, IdsWritten
<1>11. TakingIn'
  BY <1>t DEF ReaperSees, WaitResult, TakingIn
<1>12. Reading'
  BY <1>t DEF ReaperSees, WaitResult, Owns, Reading
<1>13. TakingBack'
  BY <1>t DEF ReaperSees, WaitResult, Owns, IsChild, TakingBack
<1>14. QED
  BY <1>1, <1>2, <1>3, <1>4, <1>5, <1>6, <1>7, <1>8, <1>9, <1>10, <1>11, <1>12, <1>13
  DEF ProcInv, PanesOK, ListsOK

\* The child an earlier image left is reaped under an id that is still its own.
LEMMA ReaperReapsProc ==
  ASSUME NEW h \in Pids, ProcInv, ReaperReaps(h)
  PROVE  ProcInv'
<1> USE ChildAssumption
    DEF ProcTypes, kernelVars, paneVars, watchVars, killVars, reapVars, inputVars, swapVars
<1>t. ProcTypes /\ ~astray /\ NoChildIsForgotten /\ KernelOK /\ PanesOK /\ ListsOK
     /\ TakingOut /\ IdsWritten /\ TakingIn /\ Reading /\ TakingBack
  BY DEF ProcInv
<1>1. ProcTypes'
  <2>1. astray' \in BOOLEAN
    BY <1>t, Zenon DEF ReaperReaps, ReapChild, ClosedPanes
  <2>2. QED
    BY <1>t, <2>1, ChildAssumption
    DEF ReaperReaps, ReapChild, ClosedPanes, Exits, WatcherStates, KillerStates, SwapStates,
        AllPolicies, IsChild
<1>2. KernelOK'
  BY <1>t DEF ReaperReaps, ReapChild, ClosedPanes, KernelOK, IsChild
<1>3. (~astray)'
  BY <1>t DEF ReaperReaps, ReapChild, ClosedPanes, ListsOK, ListOK, IsChild
<1>4. NoChildIsForgotten'
  BY <1>t DEF ReaperReaps, ReapChild, ClosedPanes, NoChildIsForgotten, IsChild
<1>5. ASSUME NEW p \in Panes PROVE PaneOK(p)'
  BY <1>t
  DEF ReaperReaps, ReapChild, ClosedPanes, PanesOK, PaneOK, ListsOK, ListOK, Settled, Active,
      Owns
<1>6. ASSUME NEW p \in Panes PROVE WatcherOK(p)'
  BY <1>t
  DEF ReaperReaps, ReapChild, ClosedPanes, PanesOK, WatcherOK, ListsOK, ListOK, Settled, Owns,
      IsChild
<1>7. ASSUME NEW p \in Panes PROVE KillerOK(p)'
  BY <1>t DEF ReaperReaps, ReapChild, ClosedPanes, PanesOK, KillerOK
<1>8. ASSUME NEW i \in Pids PROVE ListOK(i)'
  BY <1>t DEF ReaperReaps, ReapChild, ClosedPanes, ListsOK, ListOK, Settled, Active, IsChild
<1>9. TakingOut'
  BY <1>t DEF ReaperReaps, ReapChild, ClosedPanes, ListsOK, ListOK, Active, Owns, TakingOut
<1>10. IdsWritten'
  BY <1>t DEF ReaperReaps, ReapChild, ClosedPanes, IsChild, IdsWritten
<1>11. TakingIn'
  BY <1>t DEF ReaperReaps, ReapChild, ClosedPanes, TakingIn
<1>12. Reading'
  BY <1>t DEF ReaperReaps, ReapChild, ClosedPanes, Reading, TakingIn
<1>13. TakingBack'
  BY <1>t DEF ReaperReaps, ReapChild, ClosedPanes, TakingBack, TakingIn
<1>14. QED
  BY <1>1, <1>2, <1>3, <1>4, <1>5, <1>6, <1>7, <1>8, <1>9, <1>10, <1>11, <1>12, <1>13
  DEF ProcInv, PanesOK, ListsOK

\* The thread takes its id off the ids left running and ends.
LEMMA ReaperLeavesProc ==
  ASSUME NEW h \in Pids, ProcInv, ReaperLeaves(h)
  PROVE  ProcInv'
<1> USE ChildAssumption
    DEF ProcTypes, kernelVars, paneVars, watchVars, killVars, reapVars, inputVars, swapVars
<1>t. ProcTypes /\ ~astray /\ NoChildIsForgotten /\ KernelOK /\ PanesOK /\ ListsOK
     /\ TakingOut /\ IdsWritten /\ TakingIn /\ Reading /\ TakingBack
  BY DEF ProcInv
<1>1. ProcTypes'
  BY <1>t DEF ReaperLeaves
<1>2. KernelOK'
  BY <1>t DEF ReaperLeaves, KernelOK, IsChild
<1>3. (~astray)'
  BY <1>t DEF ReaperLeaves
<1>4. NoChildIsForgotten'
  BY <1>t DEF ReaperLeaves, NoChildIsForgotten, ListsOK, ListOK, IsChild
<1>5. ASSUME NEW p \in Panes PROVE PaneOK(p)'
  BY <1>t DEF ReaperLeaves, PanesOK, PaneOK, Active, Owns
<1>6. ASSUME NEW p \in Panes PROVE WatcherOK(p)'
  BY <1>t DEF ReaperLeaves, PanesOK, WatcherOK, ListsOK, ListOK, Owns, IsChild
<1>7. ASSUME NEW p \in Panes PROVE KillerOK(p)'
  BY <1>t DEF ReaperLeaves, PanesOK, PaneOK, KillerOK, ListsOK, ListOK, Active, Owns, IsChild
<1>8. ASSUME NEW i \in Pids PROVE ListOK(i)'
  BY <1>t DEF ReaperLeaves, ListsOK, ListOK, Settled, Active, IsChild
<1>9. TakingOut'
  BY <1>t DEF ReaperLeaves, Active, Owns, TakingOut
<1>10. IdsWritten'
  BY <1>t DEF ReaperLeaves, IsChild, IdsWritten
<1>11. TakingIn'
  BY <1>t DEF ReaperLeaves, TakingIn
<1>12. Reading'
  BY <1>t DEF ReaperLeaves, Owns, Reading
<1>13. TakingBack'
  BY <1>t DEF ReaperLeaves, Owns, IsChild, TakingBack
<1>14. QED
  BY <1>1, <1>2, <1>3, <1>4, <1>5, <1>6, <1>7, <1>8, <1>9, <1>10, <1>11, <1>12, <1>13
  DEF ProcInv, PanesOK, ListsOK

\* A child that was ended on the way back is reaped once it is gone.
LEMMA EndedIsTakenProc ==
  ASSUME NEW h \in Pids, ProcInv, EndedIsTaken(h)
  PROVE  ProcInv'
<1> USE ChildAssumption
    DEF ProcTypes, kernelVars, paneVars, watchVars, killVars, reapVars, inputVars, swapVars
<1>t. ProcTypes /\ ~astray /\ NoChildIsForgotten /\ KernelOK /\ PanesOK /\ ListsOK
     /\ TakingOut /\ IdsWritten /\ TakingIn /\ Reading /\ TakingBack
  BY DEF ProcInv
<1>1. ProcTypes'
  <2>1. astray' \in BOOLEAN
    BY <1>t, Zenon DEF EndedIsTaken, WaitResult, ReapChild, ClosedPanes
  <2>2. QED
    BY <1>t, <2>1, ChildAssumption
    DEF EndedIsTaken, WaitResult, ReapChild, ClosedPanes, Exits, WatcherStates, KillerStates,
        SwapStates, AllPolicies, IsChild
<1>2. KernelOK'
  BY <1>t DEF EndedIsTaken, WaitResult, ReapChild, ClosedPanes, KernelOK, IsChild
<1>3. (~astray)'
  BY <1>t
  DEF EndedIsTaken, WaitResult, ReapChild, ClosedPanes, ListsOK, ListOK, Settled, IsChild
<1>4. NoChildIsForgotten'
  BY <1>t DEF EndedIsTaken, WaitResult, ReapChild, ClosedPanes, NoChildIsForgotten, IsChild
<1>5. ASSUME NEW p \in Panes PROVE PaneOK(p)'
  BY <1>t
  DEF EndedIsTaken, WaitResult, ReapChild, ClosedPanes, PanesOK, PaneOK, ListsOK, ListOK,
      Settled, Active, Owns
<1>6. ASSUME NEW p \in Panes PROVE WatcherOK(p)'
  BY <1>t
  DEF EndedIsTaken, WaitResult, ReapChild, ClosedPanes, PanesOK, WatcherOK, ListsOK, ListOK,
      Settled, Owns, IsChild
<1>7. ASSUME NEW p \in Panes PROVE KillerOK(p)'
  BY <1>t DEF EndedIsTaken, WaitResult, ReapChild, ClosedPanes, PanesOK, KillerOK
<1>8. ASSUME NEW i \in Pids PROVE ListOK(i)'
  BY <1>t
  DEF EndedIsTaken, WaitResult, ReapChild, ClosedPanes, ListsOK, ListOK, Settled, Active,
      IsChild
<1>9. TakingOut'
  BY <1>t
  DEF EndedIsTaken, WaitResult, ReapChild, ClosedPanes, ListsOK, ListOK, Settled, Active, Owns,
      TakingOut
<1>10. IdsWritten'
  BY <1>t DEF EndedIsTaken, WaitResult, ReapChild, ClosedPanes, IsChild, IdsWritten
<1>11. TakingIn'
  BY <1>t DEF EndedIsTaken, WaitResult, ReapChild, ClosedPanes, Active, Owns, IsChild, TakingIn
<1>12. Reading'
  BY <1>t DEF EndedIsTaken, WaitResult, ReapChild, ClosedPanes, Reading
<1>13. TakingBack'
  BY <1>t DEF EndedIsTaken, WaitResult, ReapChild, ClosedPanes, Owns, IsChild, TakingBack
<1>14. QED
  BY <1>1, <1>2, <1>3, <1>4, <1>5, <1>6, <1>7, <1>8, <1>9, <1>10, <1>11, <1>12, <1>13
  DEF ProcInv, PanesOK, ListsOK

\* The swap begins with a flush; no process is touched.
LEMMA SwapStartsProc ==
  ASSUME ProcInv, SwapStarts
  PROVE  ProcInv'
<1> USE ChildAssumption
    DEF ProcTypes, kernelVars, paneVars, watchVars, killVars, reapVars, inputVars, swapVars
<1>t. ProcTypes /\ ~astray /\ NoChildIsForgotten /\ KernelOK /\ PanesOK /\ ListsOK
     /\ TakingOut /\ IdsWritten /\ TakingIn /\ Reading /\ TakingBack
  BY DEF ProcInv
<1>1. ProcTypes'
  BY <1>t DEF SwapStarts, Exits, WatcherStates, KillerStates, SwapStates, AllPolicies
<1>2. KernelOK'
  BY <1>t DEF SwapStarts, KernelOK, IsChild
<1>3. (~astray)'
  BY <1>t DEF SwapStarts
<1>4. NoChildIsForgotten'
  BY <1>t DEF SwapStarts, NoChildIsForgotten, IsChild
<1>5. ASSUME NEW p \in Panes PROVE PaneOK(p)'
  BY <1>t DEF SwapStarts, PanesOK, PaneOK, Active, Owns
<1>6. ASSUME NEW p \in Panes PROVE WatcherOK(p)'
  BY <1>t DEF SwapStarts, PanesOK, WatcherOK, Owns, IsChild
<1>7. ASSUME NEW p \in Panes PROVE KillerOK(p)'
  BY <1>t DEF SwapStarts, PanesOK, KillerOK
<1>8. ASSUME NEW i \in Pids PROVE ListOK(i)'
  BY <1>t DEF SwapStarts, ListsOK, ListOK, Settled, Active, IsChild
<1>9. TakingOut'
  BY <1>t DEF SwapStarts, TakingOut
<1>10. IdsWritten'
  BY <1>t DEF SwapStarts, IdsWritten
<1>11. TakingIn'
  BY <1>t DEF SwapStarts, TakingIn
<1>12. Reading'
  BY <1>t DEF SwapStarts, Reading
<1>13. TakingBack'
  BY <1>t DEF SwapStarts, TakingBack
<1>14. QED
  BY <1>1, <1>2, <1>3, <1>4, <1>5, <1>6, <1>7, <1>8, <1>9, <1>10, <1>11, <1>12, <1>13
  DEF ProcInv, PanesOK, ListsOK

\* Every writer answered; no process is touched.
LEMMA FlushSettlesProc ==
  ASSUME ProcInv, FlushSettles
  PROVE  ProcInv'
<1> USE ChildAssumption
    DEF ProcTypes, kernelVars, paneVars, watchVars, killVars, reapVars, inputVars, swapVars
<1>t. ProcTypes /\ ~astray /\ NoChildIsForgotten /\ KernelOK /\ PanesOK /\ ListsOK
     /\ TakingOut /\ IdsWritten /\ TakingIn /\ Reading /\ TakingBack
  BY DEF ProcInv
<1>1. ProcTypes'
  BY <1>t DEF FlushSettles, Exits, WatcherStates, KillerStates, SwapStates, AllPolicies
<1>2. KernelOK'
  BY <1>t DEF FlushSettles, KernelOK, IsChild
<1>3. (~astray)'
  BY <1>t DEF FlushSettles
<1>4. NoChildIsForgotten'
  BY <1>t DEF FlushSettles, NoChildIsForgotten, IsChild
<1>5. ASSUME NEW p \in Panes PROVE PaneOK(p)'
  BY <1>t DEF FlushSettles, PanesOK, PaneOK, Active, Owns
<1>6. ASSUME NEW p \in Panes PROVE WatcherOK(p)'
  BY <1>t DEF FlushSettles, PanesOK, WatcherOK, Owns, IsChild
<1>7. ASSUME NEW p \in Panes PROVE KillerOK(p)'
  BY <1>t DEF FlushSettles, PanesOK, KillerOK
<1>8. ASSUME NEW i \in Pids PROVE ListOK(i)'
  BY <1>t DEF FlushSettles, ListsOK, ListOK, Settled, Active, IsChild
<1>9. TakingOut'
  BY <1>t DEF FlushSettles, Active, Owns, TakingOut
<1>10. IdsWritten'
  BY <1>t DEF FlushSettles, IsChild, IdsWritten
<1>11. TakingIn'
  BY <1>t DEF FlushSettles, TakingIn
<1>12. Reading'
  BY <1>t DEF FlushSettles, Reading
<1>13. TakingBack'
  BY <1>t DEF FlushSettles, TakingBack
<1>14. QED
  BY <1>1, <1>2, <1>3, <1>4, <1>5, <1>6, <1>7, <1>8, <1>9, <1>10, <1>11, <1>12, <1>13
  DEF ProcInv, PanesOK, ListsOK

\* A writer did not answer; the session serves on with its panes.
LEMMA FlushFailsProc ==
  ASSUME ProcInv, FlushFails
  PROVE  ProcInv'
<1> USE ChildAssumption
    DEF ProcTypes, kernelVars, paneVars, watchVars, killVars, reapVars, inputVars, swapVars
<1>t. ProcTypes /\ ~astray /\ NoChildIsForgotten /\ KernelOK /\ PanesOK /\ ListsOK
     /\ TakingOut /\ IdsWritten /\ TakingIn /\ Reading /\ TakingBack
  BY DEF ProcInv
<1>1. ProcTypes'
  BY <1>t DEF FlushFails, Exits, WatcherStates, KillerStates, SwapStates, AllPolicies
<1>2. KernelOK'
  BY <1>t DEF FlushFails, KernelOK, IsChild
<1>3. (~astray)'
  BY <1>t DEF FlushFails
<1>4. NoChildIsForgotten'
  BY <1>t DEF FlushFails, NoChildIsForgotten, IsChild
<1>5. ASSUME NEW p \in Panes PROVE PaneOK(p)'
  BY <1>t DEF FlushFails, PanesOK, PaneOK, Active, Owns
<1>6. ASSUME NEW p \in Panes PROVE WatcherOK(p)'
  BY <1>t DEF FlushFails, PanesOK, WatcherOK, Owns, IsChild
<1>7. ASSUME NEW p \in Panes PROVE KillerOK(p)'
  BY <1>t DEF FlushFails, PanesOK, KillerOK
<1>8. ASSUME NEW i \in Pids PROVE ListOK(i)'
  BY <1>t DEF FlushFails, ListsOK, ListOK, Settled, Active, IsChild
<1>9. TakingOut'
  BY <1>t DEF FlushFails, TakingOut
<1>10. IdsWritten'
  BY <1>t DEF FlushFails, IdsWritten
<1>11. TakingIn'
  BY <1>t DEF FlushFails, TakingIn
<1>12. Reading'
  BY <1>t DEF FlushFails, Reading
<1>13. TakingBack'
  BY <1>t DEF FlushFails, TakingBack
<1>14. QED
  BY <1>1, <1>2, <1>3, <1>4, <1>5, <1>6, <1>7, <1>8, <1>9, <1>10, <1>11, <1>12, <1>13
  DEF ProcInv, PanesOK, ListsOK

\* Every kill has ended, and each open pane goes along, live or lost.
LEMMA CarryPanesProc ==
  ASSUME ProcInv, CarryPanes
  PROVE  ProcInv'
<1> USE ChildAssumption
    DEF ProcTypes, kernelVars, paneVars, watchVars, killVars, reapVars, inputVars, swapVars
<1>t. ProcTypes /\ ~astray /\ NoChildIsForgotten /\ KernelOK /\ PanesOK /\ ListsOK
     /\ TakingOut /\ IdsWritten /\ TakingIn /\ Reading /\ TakingBack
  BY DEF ProcInv
<1>1. ProcTypes'
  BY <1>t
  DEF CarryPanes, CarriedPane, KillsHaveEnded, Exits, WatcherStates, KillerStates, SwapStates,
      AllPolicies
<1>2. KernelOK'
  BY <1>t DEF CarryPanes, CarriedPane, KillsHaveEnded, KernelOK, IsChild
<1>3. (~astray)'
  BY <1>t DEF CarryPanes, CarriedPane, KillsHaveEnded
<1>4. NoChildIsForgotten'
  BY <1>t DEF CarryPanes, CarriedPane, KillsHaveEnded, NoChildIsForgotten, IsChild
<1>5. ASSUME NEW p \in Panes PROVE PaneOK(p)'
  BY <1>t DEF CarryPanes, CarriedPane, KillsHaveEnded, PanesOK, PaneOK, Active, Owns
<1>6. ASSUME NEW p \in Panes PROVE WatcherOK(p)'
  BY <1>t DEF CarryPanes, CarriedPane, KillsHaveEnded, PanesOK, WatcherOK, Owns, IsChild
<1>7. ASSUME NEW p \in Panes PROVE KillerOK(p)'
  BY <1>t DEF CarryPanes, CarriedPane, KillsHaveEnded, PanesOK, KillerOK
<1>8. ASSUME NEW i \in Pids PROVE ListOK(i)'
  BY <1>t DEF CarryPanes, CarriedPane, KillsHaveEnded, ListsOK, ListOK, Settled, Active, IsChild
<1>9. TakingOut'
  <2>1. SUFFICES ASSUME NEW p \in Panes
                 PROVE  /\ ~Active(p)'
                        /\ (paneState[p] = "open" <=> carried[p] # "no")'
                        /\ (carried[p] = "live" => Owns(p))'
                        /\ (carried[p] = "lost" => ~Owns(p))'
    BY DEF TakingOut
  <2>2. carried'[p] = CarriedPane(p)
    BY DEF CarryPanes
  <2>3. /\ paneState[p] = "open" <=> CarriedPane(p) # "no"
        /\ CarriedPane(p) = "lost" => exit[p] = "lost"
        /\ CarriedPane(p) = "live" => exit[p] # "lost" /\ paneState[p] = "open"
    BY DEF CarriedPane
  <2>4. PaneOK(p) /\ ~Active(p)
    BY <1>t DEF PanesOK, CarryPanes, KillsHaveEnded, Active
  <2>5. UNCHANGED <<owner, pid, paneState, killer>>
    BY DEF CarryPanes, kernelVars, paneVars, killVars
  <2>6. QED
    BY <2>2, <2>3, <2>4, <2>5 DEF PaneOK, Active, Owns
<1>10. IdsWritten'
  BY <1>t DEF CarryPanes, CarriedPane, KillsHaveEnded, IdsWritten
<1>11. TakingIn'
  BY <1>t DEF CarryPanes, CarriedPane, KillsHaveEnded, TakingIn
<1>12. Reading'
  BY <1>t DEF CarryPanes, CarriedPane, KillsHaveEnded, Reading
<1>13. TakingBack'
  BY <1>t DEF CarryPanes, CarriedPane, KillsHaveEnded, TakingBack
<1>14. QED
  BY <1>1, <1>2, <1>3, <1>4, <1>5, <1>6, <1>7, <1>8, <1>9, <1>10, <1>11, <1>12, <1>13
  DEF ProcInv, PanesOK, ListsOK

\* The ids left running are written down before the last flush.
LEMMA FlushAgainProc ==
  ASSUME ProcInv, FlushAgain
  PROVE  ProcInv'
<1> USE ChildAssumption
    DEF ProcTypes, kernelVars, paneVars, watchVars, killVars, reapVars, inputVars, swapVars
<1>t. ProcTypes /\ ~astray /\ NoChildIsForgotten /\ KernelOK /\ PanesOK /\ ListsOK
     /\ TakingOut /\ IdsWritten /\ TakingIn /\ Reading /\ TakingBack
  BY DEF ProcInv
<1>1. ProcTypes'
  BY <1>t DEF FlushAgain, Exits, WatcherStates, KillerStates, SwapStates, AllPolicies
<1>2. KernelOK'
  BY <1>t DEF FlushAgain, KernelOK, IsChild
<1>3. (~astray)'
  BY <1>t DEF FlushAgain
<1>4. NoChildIsForgotten'
  BY <1>t DEF FlushAgain, NoChildIsForgotten, IsChild
<1>5. ASSUME NEW p \in Panes PROVE PaneOK(p)'
  BY <1>t DEF FlushAgain, PanesOK, PaneOK, Active, Owns
<1>6. ASSUME NEW p \in Panes PROVE WatcherOK(p)'
  BY <1>t DEF FlushAgain, PanesOK, WatcherOK, Owns, IsChild
<1>7. ASSUME NEW p \in Panes PROVE KillerOK(p)'
  BY <1>t DEF FlushAgain, PanesOK, KillerOK
<1>8. ASSUME NEW i \in Pids PROVE ListOK(i)'
  BY <1>t DEF FlushAgain, ListsOK, ListOK, Settled, Active, IsChild
<1>9. TakingOut'
  BY <1>t DEF FlushAgain, Active, Owns, TakingOut
<1>10. IdsWritten'
  BY <1>t DEF FlushAgain, ListsOK, ListOK, IsChild, IdsWritten
<1>11. TakingIn'
  BY <1>t DEF FlushAgain, TakingIn
<1>12. Reading'
  BY <1>t DEF FlushAgain, Reading
<1>13. TakingBack'
  BY <1>t DEF FlushAgain, TakingBack
<1>14. QED
  BY <1>1, <1>2, <1>3, <1>4, <1>5, <1>6, <1>7, <1>8, <1>9, <1>10, <1>11, <1>12, <1>13
  DEF ProcInv, PanesOK, ListsOK

\* The image stays, with the panes, watchers and ids it had.
LEMMA SwapFailsProc ==
  ASSUME ProcInv, SwapFails
  PROVE  ProcInv'
<1> USE ChildAssumption
    DEF ProcTypes, kernelVars, paneVars, watchVars, killVars, reapVars, inputVars, swapVars
<1>t. ProcTypes /\ ~astray /\ NoChildIsForgotten /\ KernelOK /\ PanesOK /\ ListsOK
     /\ TakingOut /\ IdsWritten /\ TakingIn /\ Reading /\ TakingBack
  BY DEF ProcInv
<1>1. ProcTypes'
  BY <1>t DEF SwapFails, Exits, WatcherStates, KillerStates, SwapStates, AllPolicies
<1>2. KernelOK'
  BY <1>t DEF SwapFails, KernelOK, IsChild
<1>3. (~astray)'
  BY <1>t DEF SwapFails
<1>4. NoChildIsForgotten'
  BY <1>t DEF SwapFails, NoChildIsForgotten, IsChild
<1>5. ASSUME NEW p \in Panes PROVE PaneOK(p)'
  BY <1>t DEF SwapFails, PanesOK, PaneOK, Active, Owns
<1>6. ASSUME NEW p \in Panes PROVE WatcherOK(p)'
  BY <1>t DEF SwapFails, PanesOK, WatcherOK, Owns, IsChild
<1>7. ASSUME NEW p \in Panes PROVE KillerOK(p)'
  BY <1>t DEF SwapFails, PanesOK, KillerOK
<1>8. ASSUME NEW i \in Pids PROVE ListOK(i)'
  BY <1>t DEF SwapFails, ListsOK, ListOK, Settled, Active, IsChild
<1>9. TakingOut'
  BY <1>t DEF SwapFails, TakingOut
<1>10. IdsWritten'
  BY <1>t DEF SwapFails, IdsWritten
<1>11. TakingIn'
  BY <1>t DEF SwapFails, TakingIn
<1>12. Reading'
  BY <1>t DEF SwapFails, Reading
<1>13. TakingBack'
  BY <1>t DEF SwapFails, TakingBack
<1>14. QED
  BY <1>1, <1>2, <1>3, <1>4, <1>5, <1>6, <1>7, <1>8, <1>9, <1>10, <1>11, <1>12, <1>13
  DEF ProcInv, PanesOK, ListsOK

\* The threads are gone; each child is carried, listed, or counted as forgotten.
LEMMA ExecProc ==
  ASSUME ProcInv, Exec
  PROVE  ProcInv'
<1> USE ChildAssumption
    DEF ProcTypes, kernelVars, paneVars, watchVars, killVars, reapVars, inputVars, swapVars
<1>t. ProcTypes /\ ~astray /\ NoChildIsForgotten /\ KernelOK /\ PanesOK /\ ListsOK
     /\ TakingOut /\ IdsWritten /\ TakingIn /\ Reading /\ TakingBack
  BY DEF ProcInv
<1>1. ProcTypes'
  BY <1>t DEF Exec, Exits, WatcherStates, KillerStates, SwapStates, AllPolicies
<1>2. KernelOK'
  BY <1>t DEF Exec, KernelOK, IsChild
<1>3. (~astray)'
  BY <1>t DEF Exec
<1>4. NoChildIsForgotten'
  BY <1>t DEF Exec, NoChildIsForgotten, IsChild, TakingOut, IdsWritten
<1>5. ASSUME NEW p \in Panes PROVE PaneOK(p)'
  BY <1>t DEF Exec, PanesOK, PaneOK, Active, TakingOut
<1>6. ASSUME NEW p \in Panes PROVE WatcherOK(p)'
  BY <1>t DEF Exec, PanesOK, WatcherOK
<1>7. ASSUME NEW p \in Panes PROVE KillerOK(p)'
  BY <1>t DEF Exec, PanesOK, KillerOK, Active, TakingOut
<1>8. ASSUME NEW i \in Pids PROVE ListOK(i)'
  BY <1>t DEF Exec, ListsOK, ListOK
<1>9. TakingOut'
  BY <1>t DEF Exec, TakingOut
<1>10. IdsWritten'
  BY <1>t DEF Exec, IdsWritten
<1>11. TakingIn'
  BY <1>t DEF Exec, PanesOK, PaneOK, Active, Owns, IsChild, TakingIn, TakingOut, IdsWritten
<1>12. Reading'
  BY <1>t DEF Exec, Owns, Reading, TakingOut
<1>13. TakingBack'
  BY <1>t DEF Exec, TakingBack
<1>14. QED
  BY <1>1, <1>2, <1>3, <1>4, <1>5, <1>6, <1>7, <1>8, <1>9, <1>10, <1>11, <1>12, <1>13
  DEF ProcInv, PanesOK, ListsOK

\* The ids come back, or with an unreadable body count as forgotten.
LEMMA ReadResumeFileProc ==
  ASSUME ProcInv, ReadResumeFile
  PROVE  ProcInv'
<1> USE ChildAssumption
    DEF ProcTypes, kernelVars, paneVars, watchVars, killVars, reapVars, inputVars, swapVars
<1>t. ProcTypes /\ ~astray /\ NoChildIsForgotten /\ KernelOK /\ PanesOK /\ ListsOK
     /\ TakingOut /\ IdsWritten /\ TakingIn /\ Reading /\ TakingBack
  BY DEF ProcInv
<1>1. ProcTypes'
  BY <1>t
  DEF ReadResumeFile, Conflicting, Exits, WatcherStates, KillerStates, SwapStates, AllPolicies
<1>2. KernelOK'
  BY <1>t DEF ReadResumeFile, KernelOK, IsChild
<1>3. (~astray)'
  BY <1>t DEF ReadResumeFile
<1>4. NoChildIsForgotten'
  BY <1>t DEF ReadResumeFile, NoChildIsForgotten, IsChild
<1>5. ASSUME NEW p \in Panes PROVE PaneOK(p)'
  BY <1>t DEF ReadResumeFile, PanesOK, PaneOK, Active, Owns
<1>6. ASSUME NEW p \in Panes PROVE WatcherOK(p)'
  BY <1>t DEF ReadResumeFile, PanesOK, WatcherOK, Owns, IsChild
<1>7. ASSUME NEW p \in Panes PROVE KillerOK(p)'
  BY <1>t DEF ReadResumeFile, PanesOK, KillerOK
<1>8. ASSUME NEW i \in Pids PROVE ListOK(i)'
  BY <1>t DEF ReadResumeFile, ListsOK, ListOK, Settled, Active, IsChild
<1>9. TakingOut'
  BY <1>t DEF ReadResumeFile, TakingOut
<1>10. IdsWritten'
  BY <1>t DEF ReadResumeFile, IdsWritten
<1>11. TakingIn'
  BY <1>t DEF ReadResumeFile, Active, Owns, IsChild, TakingIn
<1>12. Reading'
  BY <1>t DEF ReadResumeFile, Reading
<1>13. TakingBack'
  BY <1>t DEF ReadResumeFile, Conflicting, Owns, TakingBack, Reading
<1>14. QED
  BY <1>1, <1>2, <1>3, <1>4, <1>5, <1>6, <1>7, <1>8, <1>9, <1>10, <1>11, <1>12, <1>13
  DEF ProcInv, PanesOK, ListsOK

\* Without a header every child of this process is ended.
LEMMA ReadNothingProc ==
  ASSUME ProcInv, ReadNothing
  PROVE  ProcInv'
<1> USE ChildAssumption
    DEF ProcTypes, kernelVars, paneVars, watchVars, killVars, reapVars, inputVars, swapVars
<1>t. ProcTypes /\ ~astray /\ NoChildIsForgotten /\ KernelOK /\ PanesOK /\ ListsOK
     /\ TakingOut /\ IdsWritten /\ TakingIn /\ Reading /\ TakingBack
  BY DEF ProcInv
<1>1. ProcTypes'
  BY <1>t
  DEF ReadNothing, EndedChildren, RunningChildren, Exits, WatcherStates, KillerStates,
      SwapStates, AllPolicies
<1>2. KernelOK'
  BY <1>t DEF ReadNothing, EndedChildren, RunningChildren, KernelOK, IsChild
<1>3. (~astray)'
  BY <1>t DEF ReadNothing, EndedChildren, RunningChildren
<1>4. NoChildIsForgotten'
  BY <1>t DEF ReadNothing, EndedChildren, RunningChildren, NoChildIsForgotten, KernelOK, IsChild
<1>5. ASSUME NEW p \in Panes PROVE PaneOK(p)'
  BY <1>t
  DEF ReadNothing, EndedChildren, RunningChildren, PanesOK, PaneOK, Active, Owns, TakingIn,
      Reading
<1>6. ASSUME NEW p \in Panes PROVE WatcherOK(p)'
  BY <1>t DEF ReadNothing, EndedChildren, RunningChildren, PanesOK, WatcherOK, TakingIn, Reading
<1>7. ASSUME NEW p \in Panes PROVE KillerOK(p)'
  BY <1>t DEF ReadNothing, EndedChildren, RunningChildren, PanesOK, KillerOK
<1>8. ASSUME NEW i \in Pids PROVE ListOK(i)'
  BY <1>t
  DEF ReadNothing, EndedChildren, RunningChildren, KernelOK, PanesOK, PaneOK, ListsOK, ListOK,
      Settled, Active, IsChild, TakingIn, Reading
<1>9. TakingOut'
  BY <1>t DEF ReadNothing, EndedChildren, RunningChildren, TakingOut
<1>10. IdsWritten'
  BY <1>t DEF ReadNothing, EndedChildren, RunningChildren, IdsWritten
<1>11. TakingIn'
  BY <1>t DEF ReadNothing, EndedChildren, RunningChildren, TakingIn
<1>12. Reading'
  BY <1>t DEF ReadNothing, EndedChildren, RunningChildren, Reading
<1>13. TakingBack'
  BY <1>t DEF ReadNothing, EndedChildren, RunningChildren, TakingBack
<1>14. QED
  BY <1>1, <1>2, <1>3, <1>4, <1>5, <1>6, <1>7, <1>8, <1>9, <1>10, <1>11, <1>12, <1>13
  DEF ProcInv, PanesOK, ListsOK

\* A carried pane has its child and a watcher again.
LEMMA TakeOneBackProc ==
  ASSUME NEW r \in Panes, ProcInv, TakeOneBack(r)
  PROVE  ProcInv'
<1> USE ChildAssumption
    DEF ProcTypes, kernelVars, paneVars, watchVars, killVars, reapVars, inputVars, swapVars
<1>t. ProcTypes /\ ~astray /\ NoChildIsForgotten /\ KernelOK /\ PanesOK /\ ListsOK
     /\ TakingOut /\ IdsWritten /\ TakingIn /\ Reading /\ TakingBack
  BY DEF ProcInv
<1>1. ProcTypes'
  BY <1>t DEF TakeOneBack, Exits, WatcherStates, KillerStates, SwapStates, AllPolicies
<1>2. KernelOK'
  BY <1>t DEF TakeOneBack, KernelOK, IsChild
<1>3. (~astray)'
  BY <1>t DEF TakeOneBack
<1>4. NoChildIsForgotten'
  BY <1>t DEF TakeOneBack, NoChildIsForgotten, IsChild
<1>5. ASSUME NEW p \in Panes PROVE PaneOK(p)'
  BY <1>t DEF TakeOneBack, PanesOK, PaneOK, Active, Owns, TakingIn, TakingBack
<1>6. ASSUME NEW p \in Panes PROVE WatcherOK(p)'
  BY <1>t DEF TakeOneBack, PanesOK, WatcherOK, Owns, TakingIn, TakingBack
<1>7. ASSUME NEW p \in Panes PROVE KillerOK(p)'
  BY <1>t DEF TakeOneBack, PanesOK, KillerOK, TakingIn
<1>8. ASSUME NEW i \in Pids PROVE ListOK(i)'
  BY <1>t DEF TakeOneBack, ListsOK, ListOK, Settled, Active, IsChild, TakingIn, TakingBack
<1>9. TakingOut'
  BY <1>t DEF TakeOneBack, TakingOut
<1>10. IdsWritten'
  BY <1>t DEF TakeOneBack, IdsWritten
<1>11. TakingIn'
  BY <1>t DEF TakeOneBack, Active, Owns, IsChild, TakingIn
<1>12. Reading'
  BY <1>t DEF TakeOneBack, Reading
<1>13. TakingBack'
  BY <1>t DEF TakeOneBack, Owns, IsChild, TakingBack
<1>14. QED
  BY <1>1, <1>2, <1>3, <1>4, <1>5, <1>6, <1>7, <1>8, <1>9, <1>10, <1>11, <1>12, <1>13
  DEF ProcInv, PanesOK, ListsOK

\* The child of a pane that is not taken back is ended, if its id names one of ours.
LEMMA TakeOneFailsProc ==
  ASSUME NEW r \in Panes, ProcInv, TakeOneFails(r)
  PROVE  ProcInv'
<1> USE ChildAssumption
    DEF ProcTypes, kernelVars, paneVars, watchVars, killVars, reapVars, inputVars, swapVars
<1>t. ProcTypes /\ ~astray /\ NoChildIsForgotten /\ KernelOK /\ PanesOK /\ ListsOK
     /\ TakingOut /\ IdsWritten /\ TakingIn /\ Reading /\ TakingBack
  BY DEF ProcInv
<1>1. ProcTypes'
  <2>1. astray' \in BOOLEAN
    BY <1>t, Zenon DEF TakeOneFails, RunningChildren, ReapChild, SendSignal, ClosedPanes
  <2>2. QED
    BY <1>t, <2>1, ChildAssumption
    DEF TakeOneFails, RunningChildren, ReapChild, SendSignal, ClosedPanes, Exits, WatcherStates,
        KillerStates, SwapStates, AllPolicies, IsChild
<1>2. KernelOK'
  BY <1>t
  DEF TakeOneFails, RunningChildren, ReapChild, SendSignal, ClosedPanes, KernelOK, IsChild
<1>3. (~astray)'
  BY <1>t
  DEF TakeOneFails, RunningChildren, ReapChild, SendSignal, ClosedPanes, KernelOK, PanesOK,
      PaneOK, IsChild, TakingIn, TakingBack
<1>4. NoChildIsForgotten'
  BY <1>t
  DEF TakeOneFails, RunningChildren, ReapChild, SendSignal, ClosedPanes, NoChildIsForgotten,
      KernelOK, IsChild
<1>5. ASSUME NEW p \in Panes PROVE PaneOK(p)'
  BY <1>t
  DEF TakeOneFails, RunningChildren, ReapChild, SendSignal, ClosedPanes, PanesOK, PaneOK,
      Active, Owns, TakingIn, TakingBack
<1>6. ASSUME NEW p \in Panes PROVE WatcherOK(p)'
  BY <1>t
  DEF TakeOneFails, RunningChildren, ReapChild, SendSignal, ClosedPanes, PanesOK, WatcherOK,
      Owns, TakingIn, TakingBack
<1>7. ASSUME NEW p \in Panes PROVE KillerOK(p)'
  BY <1>t
  DEF TakeOneFails, RunningChildren, ReapChild, SendSignal, ClosedPanes, PanesOK, KillerOK
<1>8. ASSUME NEW i \in Pids PROVE ListOK(i)'
  BY <1>t
  DEF TakeOneFails, RunningChildren, ReapChild, SendSignal, ClosedPanes, KernelOK, PanesOK,
      PaneOK, ListsOK, ListOK, Settled, Active, IsChild, TakingIn, TakingBack
<1>9. TakingOut'
  BY <1>t DEF TakeOneFails, RunningChildren, ReapChild, SendSignal, ClosedPanes, TakingOut
<1>10. IdsWritten'
  BY <1>t DEF TakeOneFails, RunningChildren, ReapChild, SendSignal, ClosedPanes, IdsWritten
<1>11. TakingIn'
  BY <1>t
  DEF TakeOneFails, RunningChildren, ReapChild, SendSignal, ClosedPanes, Active, Owns, IsChild,
      TakingIn
<1>12. Reading'
  BY <1>t DEF TakeOneFails, RunningChildren, ReapChild, SendSignal, ClosedPanes, Reading
<1>13. TakingBack'
  BY <1>t
  DEF TakeOneFails, RunningChildren, ReapChild, SendSignal, ClosedPanes, KernelOK, Owns,
      IsChild, TakingBack
<1>14. QED
  BY <1>1, <1>2, <1>3, <1>4, <1>5, <1>6, <1>7, <1>8, <1>9, <1>10, <1>11, <1>12, <1>13
  DEF ProcInv, PanesOK, ListsOK

\* Each id the resume file named gets a thread that waits for it.
LEMMA WatchLeftRunningProc ==
  ASSUME ProcInv, WatchLeftRunning
  PROVE  ProcInv'
<1> USE ChildAssumption
    DEF ProcTypes, kernelVars, paneVars, watchVars, killVars, reapVars, inputVars, swapVars
<1>t. ProcTypes /\ ~astray /\ NoChildIsForgotten /\ KernelOK /\ PanesOK /\ ListsOK
     /\ TakingOut /\ IdsWritten /\ TakingIn /\ Reading /\ TakingBack
  BY DEF ProcInv
<1>1. ProcTypes'
  BY <1>t DEF WatchLeftRunning, Exits, WatcherStates, KillerStates, SwapStates, AllPolicies
<1>2. KernelOK'
  BY <1>t DEF WatchLeftRunning, KernelOK, IsChild
<1>3. (~astray)'
  BY <1>t DEF WatchLeftRunning
<1>4. NoChildIsForgotten'
  BY <1>t DEF WatchLeftRunning, NoChildIsForgotten, IsChild, TakingIn
<1>5. ASSUME NEW p \in Panes PROVE PaneOK(p)'
  BY <1>t DEF WatchLeftRunning, PanesOK, PaneOK, Active, Owns
<1>6. ASSUME NEW p \in Panes PROVE WatcherOK(p)'
  BY <1>t DEF WatchLeftRunning, PanesOK, WatcherOK, Owns, TakingIn
<1>7. ASSUME NEW p \in Panes PROVE KillerOK(p)'
  BY <1>t DEF WatchLeftRunning, PanesOK, KillerOK, TakingIn
<1>8. ASSUME NEW i \in Pids PROVE ListOK(i)'
  BY <1>t DEF WatchLeftRunning, ListsOK, ListOK, Settled, Active, IsChild, TakingIn
<1>9. TakingOut'
  BY <1>t DEF WatchLeftRunning, TakingOut
<1>10. IdsWritten'
  BY <1>t DEF WatchLeftRunning, IdsWritten
<1>11. TakingIn'
  BY <1>t DEF WatchLeftRunning, TakingIn
<1>12. Reading'
  BY <1>t DEF WatchLeftRunning, Reading
<1>13. TakingBack'
  BY <1>t DEF WatchLeftRunning, TakingBack
<1>14. QED
  BY <1>1, <1>2, <1>3, <1>4, <1>5, <1>6, <1>7, <1>8, <1>9, <1>10, <1>11, <1>12, <1>13
  DEF ProcInv, PanesOK, ListsOK

\* A step of the input side leaves the process side alone.
LEMMA ProcKept ==
  ASSUME ProcInv, UNCHANGED <<kernelVars, paneVars, watchVars, killVars, reapVars, swapVars, astray>>
  PROVE  ProcInv'
<1> USE DEF kernelVars, paneVars, watchVars, killVars, reapVars, swapVars
<1>1. ProcTypes' /\ (~astray)' /\ NoChildIsForgotten' /\ KernelOK'
  BY DEF ProcInv, ProcTypes, NoChildIsForgotten, KernelOK, IsChild
<1>2. PanesOK'
  BY DEF ProcInv, PanesOK, PaneOK, WatcherOK, KillerOK, Active, Owns, IsChild
<1>3. ListsOK'
  BY DEF ProcInv, ListsOK, ListOK, Settled, Active, IsChild
<1>4. TakingOut' /\ IdsWritten' /\ TakingIn' /\ Reading' /\ TakingBack'
  BY DEF ProcInv, TakingOut, IdsWritten, TakingIn, Reading, TakingBack, Active, Owns, IsChild
<1>5. QED
  BY <1>1, <1>2, <1>3, <1>4 DEF ProcInv

\* Every step keeps the process side of the invariant.
LEMMA ProcStep ==
  ASSUME ProcInv, [Next]_vars
  PROVE  ProcInv'
<1>1. ASSUME NEW h \in Pids, ChildEnds(h) \/ ForeignStarts(h) \/ ForeignEnds(h) PROVE ProcInv'
  BY <1>1, ChildEndsProc, ForeignStartsProc, ForeignEndsProc
<1>2. ASSUME NEW r \in Panes, NEW h \in Pids, SpawnPane(r, h) PROVE ProcInv'
  BY <1>2, SpawnPaneProc
<1>3. ASSUME NEW r \in Panes, WritePaneInput(r) \/ WriteRelease(r) \/ WriterTakes(r) \/ WriteEnds(r)
      PROVE  ProcInv'
  BY <1>3, ProcKept DEF WritePaneInput, WriteRelease, WriterTakes, WriteEnds
<1>4. ASSUME NEW r \in Panes, NEW c \in Policies(r), KillOffThread(r, c) PROVE ProcInv'
  BY <1>4, KillOffThreadProc
<1>5. ASSUME NEW r \in Panes, WatcherSteps(r) PROVE ProcInv'
  BY <1>5, WatcherSeesProc, WatcherRecordsProc, WatcherReapsProc, WatcherLeavesProc, WatcherReleasesProc
  DEF WatcherSteps
<1>6. ASSUME NEW r \in Panes, KillerSteps(r) PROVE ProcInv'
  BY <1>6, KillRemovesProc, KillChecksProc, KillAsksProc, KillGraceEndsProc, ForceKillChildProc, ForceKillTreeProc, KillReleasesProc, KillWaitsProc, KillInsertsProc, KillLeavesProc, KillRemovesIdProc, KillJoinsProc, KillReapsProc
  DEF KillerSteps
<1>7. ASSUME NEW h \in Pids, ReaperSteps(h) PROVE ProcInv'
  BY <1>7, ReaperSeesProc, ReaperReapsProc, ReaperLeavesProc, EndedIsTakenProc
  DEF ReaperSteps
<1>8. CASE SwapStarts
  BY <1>8, SwapStartsProc
<1>9. CASE SwapSteps
  BY <1>9, FlushSettlesProc, FlushFailsProc, CarryPanesProc, FlushAgainProc, SwapFailsProc, ExecProc, ReadResumeFileProc, ReadNothingProc, WatchLeftRunningProc,
     TakeOneBackProc, TakeOneFailsProc DEF SwapSteps
<1>10. CASE UNCHANGED vars
  BY <1>10, ProcKept DEF vars
<1>11. QED
  BY <1>1, <1>2, <1>3, <1>4, <1>5, <1>6, <1>7, <1>8, <1>9, <1>10 DEF Next

\* Every step keeps the input side of the invariant.
LEMMA InputStep ==
  ASSUME ChildInv, [Next]_vars
  PROVE  InputInv'
<1> USE DEF swapVars
<1>0. InputInv /\ ProcInv /\ \A p \in Panes : InputOK(p) /\ FlushOK(p)
  BY DEF ChildInv, InputInv, InputsOK
<1>1. ASSUME NEW h \in Pids, ChildEnds(h) \/ ForeignStarts(h) \/ ForeignEnds(h) \/ ReaperSteps(h)
      PROVE  InputInv'
  BY <1>0, <1>1, InputKept
  DEF ChildEnds, ForeignStarts, ForeignEnds, ReaperSteps, ReaperSees, ReaperReaps, ReaperLeaves, EndedIsTaken
<1>2. ASSUME NEW r \in Panes, NEW h \in Pids, SpawnPane(r, h) PROVE InputInv'
  BY <1>0, <1>2, SpawnInput DEF SpawnPane, Applying, InputOK
<1>3. ASSUME NEW r \in Panes, WritePaneInput(r) \/ WriteRelease(r) PROVE InputInv'
  BY <1>0, <1>3, QueueInputInput DEF WritePaneInput, WriteRelease, Applying
<1>4. ASSUME NEW r \in Panes, WriterTakes(r) \/ WriteEnds(r) PROVE InputInv'
  BY <1>0, <1>4, WriterTakesInput, WriteEndsInput
<1>5. ASSUME NEW r \in Panes, NEW c \in Policies(r), KillOffThread(r, c) PROVE InputInv'
  BY <1>0, <1>5, InputKept DEF KillOffThread
<1>6. ASSUME NEW r \in Panes, WatcherSteps(r) PROVE InputInv'
  <2>1. CASE WatcherReleases(r)
    BY <1>0, <2>1, QueueStopInput DEF WatcherReleases
  <2>2. CASE ~WatcherReleases(r)
    BY <1>0, <1>6, <2>2, InputKept
    DEF WatcherSteps, WatcherSees, WatcherRecords, WatcherReaps, WatcherLeaves
  <2>3. QED
    BY <2>1, <2>2
<1>7. ASSUME NEW r \in Panes, KillerSteps(r) PROVE InputInv'
  <2>1. CASE KillReleases(r)
    BY <1>0, <2>1, QueueStopInput DEF KillReleases, KillerGoes
  <2>2. CASE ~KillReleases(r)
    BY <1>0, <1>7, <2>2, InputKept
    DEF KillerSteps, KillerGoes, KillRemoves, KillChecks, KillAsks, KillGraceEnds, ForceKillChild, ForceKillTree, KillWaits, KillInserts, KillLeaves, KillRemovesId, KillJoins, KillReaps
  <2>3. QED
    BY <2>1, <2>2
<1>8. CASE SwapStarts
  BY <1>0, <1>8, SendBarriersInput DEF SwapStarts
<1>9. CASE FlushAgain
  <2>1. \A p \in Panes : carried[p] # "no" => paneState[p] = "open"
    BY <1>0, <1>9 DEF ProcInv, TakingOut, FlushAgain
  <2>2. QED
    BY <1>0, <1>9, <2>1, SendBarriersInput DEF FlushAgain
<1>10. CASE FlushSettles \/ FlushFails \/ Exec
  BY <1>0, <1>10, FlushSettlesInput, DropBarriersInput, ExecInput DEF FlushFails
<1>11. CASE CarryPanes \/ SwapFails \/ ReadResumeFile \/ ReadNothing \/ WatchLeftRunning
  BY <1>0, <1>11, InputAtRest DEF CarryPanes, SwapFails, ReadResumeFile, ReadNothing, WatchLeftRunning
<1>12. ASSUME NEW r \in Panes, TakeOneBack(r) PROVE InputInv'
  BY <1>0, <1>12, SpawnInput DEF TakeOneBack, InputOK
<1>13. ASSUME NEW r \in Panes, TakeOneFails(r) PROVE InputInv'
  BY <1>0, <1>13, InputAtRest DEF TakeOneFails
<1>14. CASE UNCHANGED vars
  BY <1>0, <1>14, InputKept DEF vars
<1>15. QED
  BY <1>1, <1>2, <1>3, <1>4, <1>5, <1>6, <1>7, <1>8, <1>9, <1>10, <1>11, <1>12, <1>13, <1>14
  DEF Next, SwapSteps

\* The first image starts within the invariant, with panes of its own or with
\* panes whose child an earlier one had reaped.
LEMMA ChildInit == Init => ChildInv
<1> SUFFICES ASSUME Init PROVE ChildInv
  OBVIOUS
<1> USE ChildAssumption DEF Init
<1>1. ProcTypes
  <2>1. isLeft \in [Panes -> BOOLEAN] /\ isReserved \in [Panes -> BOOLEAN] /\ astray \in BOOLEAN
    BY Zenon
  <2>2. /\ exit \in [Panes -> Exits] /\ saw \in [Panes -> Exits]
        /\ watcher \in [Panes -> WatcherStates]
        /\ killer \in [Panes -> KillerStates] /\ policy \in [Panes -> AllPolicies]
    BY DEF Exits, WatcherStates, KillerStates, AllPolicies
  <2>3. swaps \in 0 .. SwapLimit /\ swapPc \in SwapStates
    BY DEF SwapStates
  <2>4. QED
    BY <2>1, <2>2, <2>3 DEF ProcTypes
<1>2. ~astray /\ NoChildIsForgotten /\ KernelOK
  BY DEF NoChildIsForgotten, KernelOK, IsChild
<1>3. ASSUME NEW p \in Panes PROVE PaneOK(p) /\ WatcherOK(p) /\ KillerOK(p)
  BY <1>3 DEF PaneOK, WatcherOK, KillerOK, Active, Owns
<1>4. ListsOK
  BY DEF ListsOK, ListOK
<1>5. TakingOut /\ IdsWritten /\ TakingIn /\ Reading /\ TakingBack
  BY DEF TakingOut, IdsWritten, TakingIn, Reading, TakingBack
<1>6. InputTypes
  BY DEF InputTypes
<1>7. ASSUME NEW p \in Panes PROVE InputOK(p) /\ FlushOK(p)
  BY <1>7, NoBytes DEF InputOK, FlushOK
<1>8. QED
  BY <1>1, <1>2, <1>3, <1>4, <1>5, <1>6, <1>7 DEF ChildInv, ProcInv, InputInv, PanesOK, InputsOK

\* The inductive invariant holds throughout: who holds which process id, what
\* every thread's place says of the child, what a swap carries, and what waits
\* for the writers.
THEOREM ChildInvariant == Spec => []ChildInv
<1>1. Init => ChildInv
  BY ChildInit
<1>2. ChildInv /\ [Next]_vars => ChildInv'
  BY ProcStep, InputStep DEF ChildInv
<1>3. QED
  BY <1>1, <1>2, PTL DEF Spec

\* For any panes, process ids and swaps: the signals of `kill_pane` and of a
\* failed take-back and every reap reach the pane's own child only, every child
\* is somebody's to reap, and the input that waits stays within its budget.
THEOREM ProcessesOurs == Spec => []ProcessesAreOurs
<1>1. ChildInv => ProcessesAreOurs
  BY DEF ChildInv, ProcInv, InputInv, ProcTypes, InputTypes, ProcessesAreOurs, TypeOK, OnlyOwnProcesses
<1>2. QED
  BY <1>1, ChildInvariant, PTL

\* `swap_session_image` replaces the image only once every write taken for a
\* child that runs is on its terminal.
THEOREM SwapLosesNoInput == Spec => NoInputIsLostToSwap
<1>1. ChildInv /\ swapPc = "writing" =>
        \A p \in Panes : carried[p] = "live" /\ exit[p] = "none" =>
          writer[p] # "writing" /\ ~Contains(queue[p], "bytes")
  <2> SUFFICES ASSUME ChildInv, swapPc = "writing", NEW p \in Panes, carried[p] = "live"
               PROVE  writer[p] # "writing" /\ ~Contains(queue[p], "bytes")
    OBVIOUS
  <2>1. FlushOK(p)
    BY DEF ChildInv, InputInv, InputsOK
  <2>2. writer[p] # "writing" /\ \A k \in 1 .. Len(queue[p]) : queue[p][k] # "bytes"
    BY <2>1 DEF FlushOK
  <2>3. QED
    BY <2>2 DEF Contains
<1>2. ChildInv => ((swapPc = "writing" /\ swapPc' = "reading") =>
        \A p \in Panes : carried[p] = "live" /\ exit[p] = "none" =>
          writer[p] # "writing" /\ ~Contains(queue[p], "bytes"))
  BY <1>1
<1>3. QED
  BY <1>2, ChildInvariant, PTL DEF NoInputIsLostToSwap

=============================================================================
