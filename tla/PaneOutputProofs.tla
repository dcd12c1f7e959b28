-------------------------- MODULE PaneOutputProofs --------------------------
(***************************************************************************)
(* Proofs about PaneOutput, for any panes and slots, any limits, any chunk *)
(* lengths and any modulus of the chunks' numbers: the queues, the wakes   *)
(* and the server's view of them agree, and the module implements          *)
(* OutputStream.                                                           *)
(***************************************************************************)
EXTENDS PaneOutput, WellFoundedInduction, TLAPS

-----------------------------------------------------------------------------
(* Numbers *)

NatLess == {ss \in Nat \X Nat : ss[1] < ss[2]}

\* A set of naturals has a least element: what the inductions below rest on.
LEMMA NatLeast ==
  ASSUME NEW T \in SUBSET Nat, T # {}
  PROVE  \E m \in T : \A k \in T : m <= k
<1>1. IsWellFoundedOn(NatLess, Nat)
  BY NatLessThanWellFounded DEF OpToRel, NatLess
<1>2. PICK x \in T : \A y \in T : <<y, x>> \notin NatLess
  BY <1>1, WFMin
<1>3. \A y \in T : ~(y < x)
  <2> TAKE y \in T
  <2>1. <<y, x>> \in Nat \X Nat /\ <<y, x>>[1] = y /\ <<y, x>>[2] = x
    OBVIOUS
  <2>2. QED
    BY <1>2, <2>1, Zenon DEF NatLess
<1>4. QED
  BY <1>3

\* Induction up to a bound, over the set of the numbers that have a property.
LEMMA IntervalInduction ==
  ASSUME NEW b \in Nat, NEW Good, 0 \in Good, \A n \in 1 .. b : n - 1 \in Good => n \in Good
  PROVE  \A n \in 0 .. b : n \in Good
<1> DEFINE Bad == {n \in 0 .. b : n \notin Good}
<1>1. SUFFICES ASSUME Bad # {} PROVE FALSE
  OBVIOUS
<1>2. PICK n \in Bad : \A k \in Bad : n <= k
  <2>1. Bad \in SUBSET Nat
    OBVIOUS
  <2> HIDE DEF Bad
  <2>2. QED
    BY <1>1, <2>1, NatLeast
<1>3. n \in 1 .. b /\ n - 1 \in 0 .. b /\ n - 1 \notin Bad
  BY <1>2
<1>4. QED
  BY <1>2, <1>3

\* A bounded set of naturals has a greatest element.
LEMMA NatGreatest ==
  ASSUME NEW T \in SUBSET Nat, T # {}, NEW b \in Nat, \A k \in T : k <= b
  PROVE  \E m \in T : \A k \in T : k <= m
<1> DEFINE D == {b - k : k \in T}
<1>1. D \in SUBSET Nat /\ D # {}
  <2>1. \A k \in T : b - k \in Nat
    OBVIOUS
  <2>2. QED
    BY <2>1
<1>2. PICK d \in D : \A e \in D : d <= e
  BY <1>1, NatLeast
<1>3. PICK m \in T : d = b - m
  OBVIOUS
<1>4. \A k \in T : d <= b - k
  BY <1>2
<1>5. QED
  BY <1>3, <1>4

\* Quotient and remainder.
LEMMA DivMod ==
  ASSUME NEW x \in Int, NEW m \in Nat \ {0}
  PROVE  x % m \in 0 .. (m - 1) /\ x \div m \in Int /\ x = m * (x \div m) + (x % m)
OBVIOUS

\* The remainder is the one number below m at a multiple of m from x.
LEMMA ModUnique ==
  ASSUME NEW x \in Int, NEW m \in Nat \ {0}, NEW q \in Int, NEW r \in 0 .. (m - 1),
         x = m * q + r
  PROVE  x % m = r
OBVIOUS

\* A number below m is its own remainder.
LEMMA ModSmall ==
  ASSUME NEW m \in Nat \ {0}, NEW x \in 0 .. (m - 1)
  PROVE  x % m = x
OBVIOUS

\* Numbers of chunks add modulo the modulus.
LEMMA ModAdd ==
  ASSUME NEW x \in Int, NEW k \in Int, NEW m \in Nat \ {0}
  PROVE  ((x % m) + k) % m = (x + k) % m
<1> DEFINE q == x \div m  r == x % m  q2 == (r + k) \div m  r2 == (r + k) % m
<1>1. q \in Int /\ r \in 0 .. (m - 1) /\ x = m * q + r
  BY DivMod
<1>2. q2 \in Int /\ r2 \in 0 .. (m - 1) /\ r + k = m * q2 + r2
  BY DivMod, <1>1
<1> HIDE DEF q, r, q2, r2
<1>3. x + k \in Int /\ q + q2 \in Int /\ x + k = m * (q + q2) + r2
  BY <1>1, <1>2
<1>4. (x + k) % m = r2
  BY <1>2, <1>3, ModUnique, Zenon
<1>5. QED
  BY <1>4 DEF r2, r

-----------------------------------------------------------------------------
(* The bytes of a queue's chunks *)

IsRunningTotal(f, c, n) ==
  /\ f \in [0 .. n -> Nat]
  /\ f[0] = 0
  /\ \A i \in 1 .. n : f[i] = f[i - 1] + c[i].len

\* The elements of a sequence of chunks.
LEMMA ChunkFacts ==
  ASSUME NEW c \in Seq(Chunk)
  PROVE  Len(c) \in Nat /\ \A i \in 1 .. Len(c) : c[i] \in Chunk /\ c[i].len \in Nat
<1>1. Len(c) \in Nat /\ \A i \in 1 .. Len(c) : c[i] \in Chunk
  OBVIOUS
<1>2. \A x \in Chunk : x.len \in Nat
  BY LimitAssumption DEF Chunk
<1>3. QED
  BY <1>1, <1>2

\* Running totals exist for every length.
LEMMA RunningTotalExists ==
  ASSUME NEW c \in Seq(Chunk)
  PROVE  \E f : IsRunningTotal(f, c, Len(c))
<1> DEFINE Good == {n \in Nat : \E f : IsRunningTotal(f, c, n)}
<1>1. Len(c) \in Nat /\ \A i \in 1 .. Len(c) : c[i].len \in Nat
  BY ChunkFacts
<1>2. 0 \in Good
  <2>1. IsRunningTotal([i \in 0 .. 0 |-> 0], c, 0)
    BY DEF IsRunningTotal
  <2>2. QED
    BY <2>1
<1>3. ASSUME NEW n \in 1 .. Len(c), n - 1 \in Good PROVE n \in Good
  <2>1. PICK f : IsRunningTotal(f, c, n - 1)
    BY <1>3
  <2> DEFINE g == [i \in 0 .. n |-> IF i = n THEN f[n - 1] + c[n].len ELSE f[i]]
  <2>2. IsRunningTotal(g, c, n)
    BY <1>1, <2>1 DEF IsRunningTotal
  <2>3. QED
    BY <2>2, <1>1
<1>4. Len(c) \in Good
  <2> HIDE DEF Good
  <2>1. \A n \in 1 .. Len(c) : n - 1 \in Good => n \in Good
    BY <1>3
  <2>2. \A n \in 0 .. Len(c) : n \in Good
    BY <1>1, <1>2, <2>1, IntervalInduction, Zenon
  <2>3. QED
    BY <1>1, <2>2
<1>5. QED
  BY <1>4

\* BytesUpTo is the running total.
LEMMA BytesUpToIsTotal ==
  ASSUME NEW c \in Seq(Chunk)
  PROVE  IsRunningTotal(BytesUpTo(c), c, Len(c))
<1> DEFINE Eqn(f) == f = [n \in 0 .. Len(c) |-> IF n = 0 THEN 0 ELSE f[n - 1] + c[n].len]
<1>0. Len(c) \in Nat /\ \A i \in 1 .. Len(c) : c[i].len \in Nat
  BY ChunkFacts
<1>1. PICK g : IsRunningTotal(g, c, Len(c))
  BY RunningTotalExists
<1>2. Eqn(g)
  BY <1>0, <1>1 DEF IsRunningTotal
<1>3. BytesUpTo(c) = CHOOSE f : Eqn(f)
  BY DEF BytesUpTo
<1>4. Eqn(BytesUpTo(c))
  BY <1>2, <1>3
<1> DEFINE f == BytesUpTo(c)
<1>5. DOMAIN f = 0 .. Len(c) /\ f[0] = 0 /\ \A i \in 1 .. Len(c) : f[i] = f[i - 1] + c[i].len
  BY <1>0, <1>4
<1> DEFINE Good == {n \in 0 .. Len(c) : f[n] \in Nat}
<1>6. \A n \in 0 .. Len(c) : n \in Good
  <2>1. 0 \in Good
    BY <1>0, <1>5
  <2>2. \A n \in 1 .. Len(c) : n - 1 \in Good => n \in Good
    BY <1>0, <1>5
  <2> HIDE DEF Good
  <2>3. QED
    BY <1>0, <2>1, <2>2, IntervalInduction
<1>7. f \in [0 .. Len(c) -> Nat]
  BY <1>4, <1>6
<1>8. QED
  BY <1>5, <1>7 DEF IsRunningTotal

\* The totals of a stretch of c, which starts after its first a chunks.
LEMMA TotalsOfStretch ==
  ASSUME NEW c \in Seq(Chunk), NEW d \in Seq(Chunk), NEW a \in 0 .. Len(c), NEW m \in Nat,
         m <= Len(d), a + m <= Len(c), \A k \in 1 .. m : d[k] = c[a + k]
  PROVE  BytesUpTo(d)[m] = BytesUpTo(c)[a + m] - BytesUpTo(c)[a]
<1> DEFINE f == BytesUpTo(c)  g == BytesUpTo(d)
<1>1. IsRunningTotal(f, c, Len(c)) /\ IsRunningTotal(g, d, Len(d))
  BY BytesUpToIsTotal
<1>2. /\ f \in [0 .. Len(c) -> Nat] /\ g \in [0 .. Len(d) -> Nat]
      /\ f[0] = 0 /\ g[0] = 0
      /\ \A i \in 1 .. Len(c) : f[i] = f[i - 1] + c[i].len
      /\ \A i \in 1 .. Len(d) : g[i] = g[i - 1] + d[i].len
      /\ Len(c) \in Nat /\ Len(d) \in Nat
  BY <1>1 DEF IsRunningTotal
<1>3. \A i \in 1 .. Len(c) : c[i].len \in Nat
  BY ChunkFacts
<1> HIDE DEF f, g
<1> DEFINE Good == {n \in 0 .. m : g[n] = f[a + n] - f[a]}
<1>4. 0 \in Good
  <2>1. a + 0 = a /\ f[a] \in Nat
    BY <1>2
  <2>2. QED
    BY <1>2, <2>1
<1>5. ASSUME NEW n \in 1 .. m, n - 1 \in Good PROVE n \in Good
  <2>1. g[n - 1] = f[a + (n - 1)] - f[a]
    BY <1>5
  <2>2. /\ a + n \in 1 .. Len(c) /\ n \in 1 .. Len(d) /\ a + (n - 1) = (a + n) - 1
        /\ a + (n - 1) \in 0 .. Len(c) /\ a \in 0 .. Len(c) /\ a + n \in 0 .. Len(c)
    BY <1>2
  <2>3. f[a + n] = f[a + (n - 1)] + c[a + n].len /\ g[n] = g[n - 1] + d[n].len /\ d[n] = c[a + n]
    BY <1>2, <2>2
  <2>4. f[a + (n - 1)] \in Nat /\ f[a] \in Nat /\ c[a + n].len \in Nat
    BY <1>2, <1>3, <2>2
  <2>5. g[n] = f[a + n] - f[a]
    BY <2>1, <2>3, <2>4, SMTT(60)
  <2>6. QED
    BY <2>5
<1>6. m \in Good
  <2> HIDE DEF Good
  <2>1. \A n \in 1 .. m : n - 1 \in Good => n \in Good
    BY <1>5
  <2>2. \A n \in 0 .. m : n \in Good
    BY <1>4, <2>1, IntervalInduction, Zenon
  <2>3. QED
    BY <2>2
<1>7. QED
  BY <1>6 DEF f, g

\* A chunk pushed adds its length.
LEMMA SumLenAppend ==
  ASSUME NEW c \in Seq(Chunk), NEW x \in Chunk
  PROVE  SumLen(Append(c, x)) = SumLen(c) + x.len /\ SumLen(c) \in Nat
<1> DEFINE d == Append(c, x)
<1>1. /\ d \in Seq(Chunk) /\ Len(d) = Len(c) + 1 /\ d[Len(d)] = x /\ Len(c) \in Nat
      /\ \A k \in 1 .. Len(c) : c[k] = d[0 + k]
  OBVIOUS
<1> HIDE DEF d
<1>2. IsRunningTotal(BytesUpTo(d), d, Len(d)) /\ IsRunningTotal(BytesUpTo(c), c, Len(c))
  BY <1>1, BytesUpToIsTotal
<1>3. BytesUpTo(c)[Len(c)] = BytesUpTo(d)[0 + Len(c)] - BytesUpTo(d)[0]
  <2>1. 0 \in 0 .. Len(d) /\ Len(c) <= Len(c) /\ 0 + Len(c) <= Len(d)
    BY <1>1
  <2>2. QED
    BY <1>1, <2>1, TotalsOfStretch
<1>4. BytesUpTo(d)[Len(d)] = BytesUpTo(d)[Len(c)] + x.len
  BY <1>1, <1>2, SMTT(60) DEF IsRunningTotal
<1>5. BytesUpTo(d)[Len(c)] \in Nat /\ BytesUpTo(d)[0] = 0
  BY <1>1, <1>2 DEF IsRunningTotal
<1>6. QED
  BY <1>1, <1>3, <1>4, <1>5 DEF SumLen, d

\* A turn takes some chunks of a queue that has any.
LEMMA TakeCountRange ==
  ASSUME NEW c \in Seq(Chunk)
  PROVE  /\ TakeCount(c) \in 0 .. Len(c)
         /\ TakeCount(c) = 0 <=> c = <<>>
<1>1. CASE c = <<>>
  BY <1>1 DEF TakeCount
<1>2. CASE c # <<>>
  <2> DEFINE Fits(n) == n = 1 \/ BytesUpTo(c)[n] <= TurnLimit
             Stops(n) == n = Len(c) \/ BytesUpTo(c)[n + 1] > TurnLimit
             S == {n \in 1 .. Len(c) : Fits(n)}
  <2>1. Len(c) \in Nat /\ Len(c) >= 1
    BY <1>2
  <2>2. S \in SUBSET Nat /\ 1 \in S /\ \A k \in S : k <= Len(c)
    BY <2>1
  <2>3. PICK n \in S : \A k \in S : k <= n
    BY <2>1, <2>2, NatGreatest
  <2>4. Stops(n)
    <3>1. SUFFICES ASSUME n # Len(c) PROVE BytesUpTo(c)[n + 1] > TurnLimit
      OBVIOUS
    <3>2. n + 1 \in 1 .. Len(c) /\ n + 1 \notin S
      BY <2>1, <2>3, <3>1
    <3>3. BytesUpTo(c)[n + 1] \in Nat
      BY <3>2, <2>1, BytesUpToIsTotal DEF IsRunningTotal
    <3>4. QED
      BY <3>2, <3>3, LimitAssumption
  <2>5. TakeCount(c) = CHOOSE k \in 1 .. Len(c) : Fits(k) /\ Stops(k)
    BY <1>2 DEF TakeCount
  <2>6. TakeCount(c) \in 1 .. Len(c)
    BY <2>3, <2>4, <2>5
  <2>7. QED
    BY <1>2, <2>1, <2>6
<1>3. QED
  BY <1>1, <1>2

-----------------------------------------------------------------------------
(* The inductive invariant *)

\* A reader holds a queue exactly at the points of a push, has a chunk of some
\* length in its hands between the read and the push, and closes a queue only
\* after the session is gone.
ReaderIsInOrder ==
  \A p \in Panes :
    /\ readerSlot[p] \in Slots <=> readerPc[p] \in HoldingPcs
    /\ readerPc[p] \in {"deliver", "find", "push"} => readerLen[p] \in ChunkSizes
    /\ readerPc[p] \in {"unregister", "exitUnregister"} => dispatcherPc = "gone"

\* Only a live pane's queue is held, only a removed pane's queue is being
\* closed, a pane is in its turn only until the pass or the round puts it back,
\* and nothing waits for a turn once the readers are held.
ServerIsInOrder ==
  /\ \A p \in Panes : heldSlot[p] # NoSlot => p \in live
  /\ closing # NoQueue => closing[1] \notin live
  /\ servedPane # NoPane => dispatcherPc \in {"drainAgain", "serveHeld", "serveAgain"}
  /\ dispatcherPc \in SwapPcs => rotation = <<>>

\* From the pause on the gate is paused, and from the end of the wait on every
\* reader still in its pump is parked.
SwapIsInOrder ==
  /\ dispatcherPc \in {"hold", "serveHeld", "await", "holdAgain", "serveAgain", "held"} =>
       isPaused
  /\ dispatcherPc \in {"holdAgain", "serveAgain", "held"} => IsEveryReaderParked

\* A live pane's queue that anything holds is the registered one, and is open:
\* two queues of one pane are never held at a time.
HeldIsRegistered ==
  dispatcherPc # "gone" =>
    \A p \in live, s \in Slots :
      IsHeld(p, s) => registry[p] = s /\ ~queue[<<p, s>>].closed

QueueInv ==
  /\ TypeOK /\ ReaderIsInOrder /\ ServerIsInOrder /\ SwapIsInOrder
  /\ HeldIsRegistered /\ NoLostWake

\* While the session runs, a live pane is settled by its own exit alone; its
\* exit is in the queue only after its reader put it there, which then waits
\* to send a wake only if the queue had nothing else.
ExitIsInOrder ==
  dispatcherPc \notin EndPcs =>
    \A p \in live :
      /\ isSettled[p] => readerPc[p] \in {"exitFind", "exitPush", "exitWake", "done"}
      /\ registry[p] # NoSlot /\ queue[<<p, registry[p]>>].exit =>
           readerPc[p] \in {"exitWake", "done"}
      /\ readerPc[p] = "exitWake" => queue[<<p, readerSlot[p]>>].chunks = <<>>

\* A pane whose exit was handled has left the session.
ExitRemoves == \A p \in Panes : exitCount[p] > 0 => p \notin live

\* What is on its way to a live pane's engine is what the engine expects next,
\* in order, up to what the terminal gives next.
UnfedIsExpected ==
  dispatcherPc \notin EndPcs =>
    \A p \in live :
      /\ \A i \in 1 .. Len(UnfedSerials(p)) :
           UnfedSerials(p)[i] = (fedSerial[p] + (i - 1)) % SerialModulus
      /\ serial[p] = (fedSerial[p] + Len(UnfedSerials(p))) % SerialModulus

\* With the readers held nothing is on its way.
HeldIsDrained == dispatcherPc = "held" => \A p \in live : UnfedSerials(p) = <<>>

StreamInv == ExitIsInOrder /\ ExitRemoves /\ UnfedIsExpected /\ HeldIsDrained

PaneInv == QueueInv /\ StreamInv

\* A queue whose byte count is right and at most one chunk over the limit.
QueueOK(q) ==
  /\ q \in QueueState
  /\ q.bytes = SumLen(q.chunks)
  /\ q.bytes > ByteLimit => q.bytes - Last(q.chunks).len < ByteLimit

\* An empty queue holds no bytes.
LEMMA SumLenEmpty == SumLen(<<>>) = 0
<1>1. <<>> \in Seq(Chunk)
  OBVIOUS
<1>2. IsRunningTotal(BytesUpTo(<<>>), <<>>, Len(<<>>))
  BY <1>1, BytesUpToIsTotal
<1>3. QED
  BY <1>2 DEF IsRunningTotal, SumLen

\* A queue just started (`find_or_start_output_queue`).
LEMMA EmptyQueueOK == QueueOK(EmptyQueue)
BY SumLenEmpty, LimitAssumption DEF QueueOK, EmptyQueue, QueueState

\* A queue after the first lock of `close_output_queue`.
LEMMA ClosedQueueOK ==
  ASSUME NEW q, QueueOK(q)
  PROVE  /\ QueueOK(ClosedQueue(q))
         /\ ClosedQueue(q).chunks = <<>> /\ ~ClosedQueue(q).exit /\ ClosedQueue(q).closed
<1>1. q \in QueueState
  BY DEF QueueOK
<1>2. /\ ClosedQueue(q) \in QueueState
      /\ ClosedQueue(q).chunks = <<>> /\ ClosedQueue(q).bytes = 0
  <2>1. ASSUME NEW c \in Seq(Chunk), NEW t \in BOOLEAN, NEW f \in BOOLEAN, NEW r,
               r = [q EXCEPT !.closed = t, !.chunks = c, !.bytes = 0, !.exit = f]
        PROVE  r \in QueueState /\ r.chunks = c /\ r.bytes = 0
    BY <1>1, <2>1 DEF QueueState
  <2>2. <<>> \in Seq(Chunk) /\ TRUE \in BOOLEAN /\ FALSE \in BOOLEAN
    OBVIOUS
  <2>3. QED
    BY <2>1, <2>2, Zenon DEF ClosedQueue
<1>3. ClosedQueue(q).exit = FALSE /\ ClosedQueue(q).closed = TRUE
  BY <1>1 DEF ClosedQueue, QueueState
<1>4. ~(0 > ByteLimit)
  BY LimitAssumption
<1>5. QED
  BY <1>2, <1>3, <1>4, SumLenEmpty, Zenon DEF QueueOK

\* A queue after a push, and after the push of the exit.
Pushed(q, chunk) ==
  [q EXCEPT !.chunks = Append(@, chunk), !.bytes = @ + chunk.len, !.wakeSent = TRUE]

WithExit(q) == [q EXCEPT !.exit = TRUE, !.wakeSent = TRUE]

\* A push into a queue below its limit (`accept_output_bytes`): the count is right
\* and at most the last chunk is over the limit.
LEMMA PushedOK ==
  ASSUME NEW q, QueueOK(q), NEW chunk \in Chunk, q.bytes < ByteLimit
  PROVE  /\ QueueOK(Pushed(q, chunk))
         /\ Pushed(q, chunk).chunks = Append(q.chunks, chunk)
         /\ Pushed(q, chunk).exit = q.exit /\ Pushed(q, chunk).closed = q.closed
         /\ Pushed(q, chunk).wakeSent
<1>1. q.chunks \in Seq(Chunk) /\ q.bytes \in Nat /\ q.bytes = SumLen(q.chunks)
  BY DEF QueueOK, QueueState
<1>2. chunk.len \in Nat
  BY LimitAssumption DEF Chunk
<1>3. SumLen(Append(q.chunks, chunk)) = q.bytes + chunk.len
  BY <1>1, SumLenAppend
<1>4. Last(Append(q.chunks, chunk)) = chunk
  BY <1>1 DEF Last
<1>5. /\ Pushed(q, chunk) \in QueueState
      /\ Pushed(q, chunk).chunks = Append(q.chunks, chunk)
      /\ Pushed(q, chunk).bytes = q.bytes + chunk.len
      /\ Pushed(q, chunk).exit = q.exit /\ Pushed(q, chunk).closed = q.closed
      /\ Pushed(q, chunk).wakeSent = TRUE
  <2> DEFINE c == Append(q.chunks, chunk)  b == q.bytes + chunk.len
  <2>1. c \in Seq(Chunk) /\ b \in Nat
    BY <1>1, <1>2
  <2>2. q \in QueueState /\ Pushed(q, chunk) = [q EXCEPT !.chunks = c, !.bytes = b, !.wakeSent = TRUE]
    BY DEF QueueOK, Pushed
  <2> HIDE DEF c, b
  <2>3. /\ Pushed(q, chunk) \in QueueState
        /\ Pushed(q, chunk).chunks = c /\ Pushed(q, chunk).bytes = b
        /\ Pushed(q, chunk).exit = q.exit /\ Pushed(q, chunk).closed = q.closed
        /\ Pushed(q, chunk).wakeSent = TRUE
    BY <2>1, <2>2 DEF QueueState
  <2>4. QED
    BY <2>3 DEF c, b
<1>6. (q.bytes + chunk.len) - chunk.len < ByteLimit
  BY <1>1, <1>2, LimitAssumption
<1> DEFINE r == Pushed(q, chunk)
<1>7. QueueOK(r)
  <2> DEFINE c == Append(q.chunks, chunk)  b == q.bytes + chunk.len
  <2>1. r \in QueueState /\ r.chunks = c /\ r.bytes = b
    BY <1>5, Zenon
  <2>2. SumLen(c) = b /\ Last(c) = chunk
    BY <1>3, <1>4, Zenon
  <2>3. b - chunk.len < ByteLimit
    BY <1>6
  <2> HIDE DEF r, c, b
  <2>4. QED
    BY <2>1, <2>2, <2>3 DEF QueueOK
<1>8. r.wakeSent
  BY <1>5, Zenon
<1>9. QED
  BY <1>5, <1>7, <1>8, Zenon

\* A queue given its exit (`accept_exit_status`).
LEMMA WithExitOK ==
  ASSUME NEW q, QueueOK(q)
  PROVE  /\ QueueOK(WithExit(q))
         /\ WithExit(q).chunks = q.chunks /\ WithExit(q).closed = q.closed
         /\ WithExit(q).exit /\ WithExit(q).wakeSent
BY DEF QueueOK, WithExit, QueueState

\* A turn leaves a suffix of the chunks.
LEMMA LeftOK ==
  ASSUME NEW q, QueueOK(q)
  PROVE  LET n == TakeCount(q.chunks)
             left == LeftAfterTurn(q)
         IN /\ QueueOK(left)
            /\ left.chunks = SubSeq(q.chunks, n + 1, Len(q.chunks))
            /\ left.closed = q.closed
            /\ left.exit <=> q.exit /\ left.chunks # <<>>
            /\ left.wakeSent <=> q.wakeSent /\ left.chunks # <<>>
<1> DEFINE n == TakeCount(q.chunks)
           c == q.chunks
           d == SubSeq(c, n + 1, Len(c))
           left == LeftAfterTurn(q)
<1>1. /\ c \in Seq(Chunk) /\ q.bytes \in Nat /\ q.bytes = BytesUpTo(c)[Len(c)]
      /\ q.exit \in BOOLEAN /\ q.wakeSent \in BOOLEAN /\ Len(c) \in Nat
  BY DEF QueueOK, QueueState, SumLen
<1>2. n \in 0 .. Len(c)
  BY <1>1, TakeCountRange
<1>3. /\ d \in Seq(Chunk) /\ Len(d) = Len(c) - n
      /\ \A k \in 1 .. Len(c) - n : d[k] = c[n + k]
  <2> HIDE DEF c, n
  <2>1. QED
    BY <1>1, <1>2
<1>4. BytesUpTo(c) \in [0 .. Len(c) -> Nat]
  BY <1>1, BytesUpToIsTotal DEF IsRunningTotal
<1>5. SumLen(d) = q.bytes - BytesUpTo(c)[n]
  <2>1. SumLen(d) = BytesUpTo(c)[n + (Len(c) - n)] - BytesUpTo(c)[n]
    <3> HIDE DEF c, n, d
    <3>1. Len(c) - n \in Nat /\ Len(c) - n <= Len(d) /\ n + (Len(c) - n) <= Len(c)
      BY <1>1, <1>2, <1>3
    <3>2. BytesUpTo(d)[Len(c) - n] = BytesUpTo(c)[n + (Len(c) - n)] - BytesUpTo(c)[n]
      BY <1>1, <1>2, <1>3, <3>1, TotalsOfStretch
    <3>3. QED
      BY <1>3, <3>2 DEF SumLen
  <2>2. n + (Len(c) - n) = Len(c)
    BY <1>1, <1>2
  <2>3. QED
    BY <2>1, <2>2, <1>1
<1>6. left = [q EXCEPT !.chunks = d, !.bytes = q.bytes - BytesUpTo(c)[n],
                       !.exit = q.exit /\ d # <<>>, !.wakeSent = q.wakeSent /\ d # <<>>]
  BY DEF LeftAfterTurn
<1>7. SumLen(d) \in Nat
  <2> HIDE DEF d
  <2>1. QED
    BY <1>3, BytesUpToIsTotal DEF IsRunningTotal, SumLen
<1>8. q \in QueueState
  BY DEF QueueOK
<1>9. /\ left \in QueueState /\ left.chunks = d /\ left.closed = q.closed
      /\ left.bytes = SumLen(d)
      /\ left.exit <=> q.exit /\ d # <<>>
      /\ left.wakeSent <=> q.wakeSent /\ d # <<>>
  <2>1. q.bytes - BytesUpTo(c)[n] \in Nat
    BY <1>5, <1>7
  <2> HIDE DEF left, c, d, n
  <2>2. QED
    BY <1>1, <1>3, <1>5, <1>6, <1>8, <2>1 DEF QueueState
<1>10. left.bytes > ByteLimit => left.bytes - Last(left.chunks).len < ByteLimit
  <2> SUFFICES ASSUME SumLen(d) > ByteLimit PROVE SumLen(d) - Last(d).len < ByteLimit
    BY <1>9
  <2>1. d # <<>>
    <3>1. ~(0 > ByteLimit)
      BY LimitAssumption
    <3> HIDE DEF d
    <3>2. QED
      BY <3>1, SumLenEmpty, Zenon
  <2>2. BytesUpTo(c)[n] \in Nat
    BY <1>2, <1>4
  <2>3. q.bytes > ByteLimit
    BY <1>1, <1>5, <2>2, LimitAssumption
  <2>4. q.bytes - Last(c).len < ByteLimit
    BY <2>3 DEF QueueOK
  <2>5. Last(d) = Last(c) /\ Last(c) \in Chunk
    <3> HIDE DEF c, n, d
    <3>1. Len(d) \in 1 .. Len(c) - n /\ n + Len(d) = Len(c) /\ Len(c) \in 1 .. Len(c)
      BY <1>1, <1>2, <1>3, <2>1
    <3>2. d[Len(d)] = c[Len(c)]
      BY <1>3, <3>1
    <3>3. QED
      BY <3>1, <3>2, <1>1 DEF Last
  <2>6. Last(c).len \in Nat
    BY <2>5, LimitAssumption DEF Chunk
  <2> HIDE DEF c, n, d
  <2>7. QED
    BY <1>1, <1>5, <2>2, <2>4, <2>5, <2>6, LimitAssumption
<1>11. QED
  BY <1>9, <1>10 DEF QueueOK

\* The queues are right, and stay so when one of them is replaced.
QueuesOK ==
  /\ queue \in [Panes \X Slots -> QueueState]
  /\ \A k \in Panes \X Slots : QueueOK(queue[k])

\* The part of TypeOK about the queues.
LEMMA QueuesOfType == TypeOK => QueuesOK
BY DEF TypeOK, QueuesOK, QueueOK

\* One queue replaced by one whose count is right.
LEMMA QueueReplaced ==
  ASSUME QueuesOK, NEW k \in Panes \X Slots, NEW v, QueueOK(v),
         queue' = [queue EXCEPT ![k] = v]
  PROVE  QueuesOK' /\ queue'[k] = v /\ \A j \in Panes \X Slots : j # k => queue'[j] = queue[j]
<1>1. /\ queue \in [Panes \X Slots -> QueueState] /\ v \in QueueState
      /\ \A j \in Panes \X Slots : QueueOK(queue[j])
  BY DEF QueuesOK, QueueOK
<1>2. queue' \in [Panes \X Slots -> QueueState] /\ queue'[k] = v
  BY <1>1
<1>3. \A j \in Panes \X Slots : j # k => queue'[j] = queue[j]
  BY <1>1
<1>4. \A j \in Panes \X Slots : QueueOK(queue'[j])
  BY <1>1, <1>2, <1>3
<1>5. QED
  BY <1>2, <1>3, <1>4 DEF QueuesOK, QueueOK

\* The steps of the specification, one by one.
LEMMA StepCases ==
  ASSUME TypeOK, [Next]_vars
  PROVE  \/ \E p \in Panes :
            \/ ReaderTop(p)
            \/ ReaderUnpark(p)
            \/ ReaderRung(p)
            \/ ReaderDrained(p)
            \/ ReaderDeliver(p)
            \/ ReaderFind(p)
            \/ ReaderPush(p)
            \/ ReaderPushExit(p)
            \/ ReaderSendWake(p)
            \/ ReaderUnregister(p)
            \/ ReaderPublishExit(p)
            \/ ReaderRead(p)
            \/ ReaderTerminalEnd(p)
            \/ ChildEnds(p)
            \/ KillRemovedPane(p)
         \/ DispatchEvent
         \/ DispatchDrained
         \/ DispatchUnregister
         \/ DispatchWake
         \/ DispatchTurn
         \/ DispatchPassEnd
         \/ PauseReaders
         \/ ServeHeldTurn
         \/ RequeueHeld
         \/ HeldServed
         \/ AwaitParked
         \/ DispatchTimeout
         \/ HeldMore
         \/ AbandonSwap
         \/ ResumeReaders
         \/ RebuildServer
         \/ ExecImage
         \/ KillAllPanes
         \/ DropServer
         \/ \E e \in RuntimeEvents : e.kind # "readable" /\ Request(e)
         \/ UNCHANGED vars
<1>1. \A p \in live : ClosePane(p) \in RuntimeEvents /\ ClosePane(p).kind # "readable"
  BY DEF TypeOK, ClosePane, RuntimeEvents
<1>2. /\ KillSession \in RuntimeEvents /\ KillSession.kind # "readable"
      /\ Restart \in RuntimeEvents /\ Restart.kind # "readable"
  BY DEF RuntimeEvents, KillSession, Restart
<1>3. QED
  BY <1>1, <1>2, Zenon DEF Next, Reader, Dispatcher, SwapEnd, SessionEnd, Requests

\* The types of everything but the queues.
StateTypes ==
  /\ readerPc \in [Panes -> ReaderPcs]
  /\ readerSlot \in [Panes -> Slots \cup {NoSlot}]
  /\ readerLen \in [Panes -> ChunkSizes \cup {0}]
  /\ serial \in [Panes -> 0 .. SerialModulus - 1]
  /\ isRung \in [Panes -> BOOLEAN]
  /\ isSettled \in [Panes -> BOOLEAN]
  /\ hasExited \in [Panes -> BOOLEAN]
  /\ isPaused \in BOOLEAN
  /\ registry \in [Panes -> Slots \cup {NoSlot}]
  /\ inbox \in Seq(RuntimeEvents)
  /\ live \subseteq Panes
  /\ heldSlot \in [Panes -> Slots \cup {NoSlot}]
  /\ rotation \in Seq(Panes)
  /\ fedSerial \in [Panes -> 0 .. SerialModulus - 1]
  /\ exitCount \in [Panes -> Nat]
  /\ dispatcherPc \in DispatcherPcs
  /\ servedPane \in Panes \cup {NoPane}
  /\ closing \in (Panes \X Slots) \cup {NoQueue}
  /\ isQuit \in BOOLEAN
  /\ isRestart \in BOOLEAN

\* TypeOK is the types of the state and the counts of the queues.
LEMMA TypeParts == TypeOK <=> StateTypes /\ QueuesOK
BY DEF TypeOK, StateTypes, QueuesOK, QueueOK

\* The number after a chunk's is a chunk's number.
LEMMA AfterType == \A n \in Int : After(n) \in 0 .. SerialModulus - 1
BY LimitAssumption DEF After

\* An event of the inbox, by its kind.
LEMMA EventFacts ==
  ASSUME NEW e \in RuntimeEvents
  PROVE  /\ e.kind \in {"readable", "closePane", "killSession", "restart"}
         /\ e.kind = "readable" => e.pane \in Panes /\ e.slot \in Slots /\ e = Wake(e.pane, e.slot)
         /\ e.kind = "closePane" => e.pane \in Panes
BY DEF RuntimeEvents, Wake, KillSession, Restart

\* A wake is an event of the inbox.
LEMMA WakeIsEvent == \A p \in Panes, s \in Slots : Wake(p, s) \in RuntimeEvents
BY DEF Wake, RuntimeEvents

\* The first element of a sequence and what follows it.
LEMMA HeadTail ==
  ASSUME NEW S, NEW seq \in Seq(S), seq # <<>>
  PROVE  Head(seq) \in S /\ Tail(seq) \in Seq(S)
OBVIOUS

\* An element put behind a sequence.
LEMMA AppendType ==
  ASSUME NEW S, NEW seq \in Seq(S), NEW x \in S
  PROVE  Append(seq, x) \in Seq(S)
OBVIOUS

\* What a removal does to the server's state.
LEMMA RemoveTypes ==
  ASSUME StateTypes, NEW p \in Panes, NEW queues, RemovePane(p, queues)
  PROVE  /\ live' \subseteq Panes
         /\ heldSlot' \in [Panes -> Slots \cup {NoSlot}]
         /\ closing' \in (Panes \X Slots) \cup {NoQueue}
BY DEF StateTypes, RemovePane

\* The types of the server's state after a turn.
LEMMA ServeTypes ==
  ASSUME TypeOK, rotation # <<>>, ServeTurn
  PROVE  /\ live' \subseteq Panes
         /\ heldSlot' \in [Panes -> Slots \cup {NoSlot}]
         /\ closing' \in (Panes \X Slots) \cup {NoQueue}
         /\ rotation' \in Seq(Panes)
         /\ fedSerial' \in [Panes -> 0 .. SerialModulus - 1]
         /\ exitCount' \in [Panes -> Nat]
         /\ servedPane' \in Panes \cup {NoPane}
<1> DEFINE p == Head(rotation)
           q == queue[<<p, heldSlot[p]>>]
<1>1. StateTypes /\ QueuesOK
  BY TypeParts
<1>2. p \in Panes /\ rotation' \in Seq(Panes)
  BY <1>1, HeadTail DEF StateTypes, ServeTurn
<1>3. CASE heldSlot[p] = NoSlot
  BY <1>1, <1>2, <1>3 DEF StateTypes, ServeTurn
<1>4. CASE heldSlot[p] # NoSlot
  <2>1. <<p, heldSlot[p]>> \in Panes \X Slots
    BY <1>1, <1>2, <1>4 DEF StateTypes
  <2>2. q.chunks \in Seq(Chunk)
    BY <1>1, <2>1 DEF QueuesOK, QueueOK, QueueState
  <2>3. ASSUME TakeCount(q.chunks) # 0
        PROVE  After(q.chunks[TakeCount(q.chunks)].serial) \in 0 .. SerialModulus - 1
    <3>1. TakeCount(q.chunks) \in 1 .. Len(q.chunks)
      BY <2>2, <2>3, TakeCountRange
    <3>2. q.chunks[TakeCount(q.chunks)] \in Chunk
      BY <2>2, <3>1
    <3>3. q.chunks[TakeCount(q.chunks)].serial \in Int
      BY <3>2, LimitAssumption DEF Chunk
    <3>4. QED
      BY <3>3, AfterType
  <2>4. fedSerial' \in [Panes -> 0 .. SerialModulus - 1]
    <3> HIDE DEF p
    <3>1. fedSerial' = IF TakeCount(q.chunks) = 0 THEN fedSerial
                       ELSE [fedSerial EXCEPT ![p] = After(q.chunks[TakeCount(q.chunks)].serial)]
      BY <1>4, Zenon DEF ServeTurn, p
    <3> HIDE DEF q
    <3>2. QED
      BY <1>1, <1>2, <2>3, <3>1 DEF StateTypes
  <2>5. /\ servedPane' \in Panes \cup {NoPane}
        /\ \/ /\ exitCount' = [exitCount EXCEPT ![p] = @ + 1]
              /\ RemovePane(p, [queue EXCEPT ![<<p, heldSlot[p]>>] = LeftAfterTurn(q)])
           \/ UNCHANGED <<live, heldSlot, closing, exitCount>>
    <3> HIDE DEF p
    <3>1. QED
      BY <1>2, <1>4, Zenon DEF ServeTurn, p
  <2>6. exitCount' \in [Panes -> Nat]
    <3> HIDE DEF p, q
    <3>1. exitCount' = exitCount \/ exitCount' = [exitCount EXCEPT ![p] = @ + 1]
      BY <2>5
    <3>2. QED
      <4>1. exitCount \in [Panes -> Nat] /\ exitCount[p] + 1 \in Nat
        BY <1>1, <1>2, SMTT(60) DEF StateTypes
      <4>2. QED
        BY <3>1, <4>1
  <2>7. QED
    <3> HIDE DEF p, q
    <3>1. CASE UNCHANGED <<live, heldSlot, closing, exitCount>>
      BY <1>1, <1>2, <2>4, <2>5, <2>6, <3>1 DEF StateTypes
    <3>2. CASE RemovePane(p, [queue EXCEPT ![<<p, heldSlot[p]>>] = LeftAfterTurn(q)])
      BY <1>1, <1>2, <2>4, <2>5, <2>6, <3>2, RemoveTypes
    <3>3. QED
      BY <2>5, <3>1, <3>2
<1>5. QED
  BY <1>3, <1>4

\* Every step keeps the types of everything but the queues.
LEMMA StateTypesStep ==
  ASSUME TypeOK, ReaderIsInOrder, [Next]_vars
  PROVE  StateTypes'
<1> USE LimitAssumption, NoneAssumption DEF StateTypes, readerVars, paneVars,
      sharedVars, serverVars, loopVars, vars, ReaderPcs, PumpPcs, ExitPcs,
      DispatcherPcs, PassPcs, HoldPcs, SwapPcs, EndPcs, DrainPcs, GoTo, LeavePush,
      DispatcherAt
<1> StateTypes
  BY TypeParts
<1>1. ASSUME NEW p \in Panes, ReaderTop(p) PROVE StateTypes'
  BY <1>1 DEF ReaderTop
<1>2. ASSUME NEW p \in Panes, ReaderUnpark(p) PROVE StateTypes'
  BY <1>2 DEF ReaderUnpark
<1>3. ASSUME NEW p \in Panes, ReaderRung(p) PROVE StateTypes'
  <2>1. isRung' \in [Panes -> BOOLEAN] /\ readerPc' \in [Panes -> ReaderPcs]
    BY <1>3 DEF ReaderRung
  <2>2. QED
    BY <1>3, <2>1 DEF ReaderRung
<1>4. ASSUME NEW p \in Panes, ReaderDrained(p) PROVE StateTypes'
  BY <1>4 DEF ReaderDrained
<1>5. ASSUME NEW p \in Panes, ReaderDeliver(p) PROVE StateTypes'
  BY <1>5 DEF ReaderDeliver
<1>6. ASSUME NEW p \in Panes, ReaderFind(p) PROVE StateTypes'
  <2>1. /\ readerSlot' \in [Panes -> Slots \cup {NoSlot}]
        /\ registry' \in [Panes -> Slots \cup {NoSlot}]
    <3>1. CASE registry[p] # NoSlot /\ IsHeld(p, registry[p])
      BY <1>6, <3>1 DEF ReaderFind, FindOrStart
    <3>2. CASE ~(registry[p] # NoSlot /\ IsHeld(p, registry[p]))
      <4> DEFINE s == CHOOSE s \in Slots : ~IsHeld(p, s)
      <4>1. s \in Slots
        BY <1>6, <3>2, Zenon DEF ReaderFind, FindOrStart
      <4> HIDE DEF s
      <4>2. /\ readerSlot' = [readerSlot EXCEPT ![p] = s]
            /\ registry' = [registry EXCEPT ![p] = s]
        BY <1>6, <3>2, Zenon DEF ReaderFind, FindOrStart, s
      <4>3. QED
        BY <4>1, <4>2
    <3>3. QED
      BY <3>1, <3>2
  <2>2. QED
    BY <1>6, <2>1, ZenonT(60) DEF ReaderFind
<1>7. ASSUME NEW p \in Panes, ReaderPush(p) PROVE StateTypes'
  <2>1. readerPc' \in [Panes -> ReaderPcs] /\ readerSlot' \in [Panes -> Slots \cup {NoSlot}]
    BY <1>7, ZenonT(60) DEF ReaderPush
  <2>2. isSettled' \in [Panes -> BOOLEAN]
    <3>1. isSettled' = isSettled \/ isSettled' = [isSettled EXCEPT ![p] = TRUE]
      BY <1>7, Zenon DEF ReaderPush
    <3>2. QED
      BY <3>1
  <2>3. /\ readerLen' \in [Panes -> ChunkSizes \cup {0}]
        /\ UNCHANGED <<serial, paneVars, registry, inbox, serverVars, loopVars>>
    <3>1. /\ readerLen' = [readerLen EXCEPT ![p] = 0]
          /\ UNCHANGED <<serial, paneVars, registry, inbox, serverVars, loopVars>>
      BY <1>7, Zenon DEF ReaderPush
    <3>2. QED
      BY <3>1
  <2>4. QED
    BY <2>1, <2>2, <2>3, ZenonT(60)
<1>8. ASSUME NEW p \in Panes, ReaderPushExit(p) PROVE StateTypes'
  <2>1. readerPc' \in [Panes -> ReaderPcs] /\ readerSlot' \in [Panes -> Slots \cup {NoSlot}]
    BY <1>8, ZenonT(60) DEF ReaderPushExit
  <2>2. UNCHANGED <<readerLen, serial, isSettled, paneVars, registry, inbox, serverVars, loopVars>>
    BY <1>8, Zenon DEF ReaderPushExit
  <2>3. QED
    BY <2>1, <2>2, ZenonT(60)
<1>9. ASSUME NEW p \in Panes, ReaderSendWake(p) PROVE StateTypes'
  <2>1. readerSlot[p] \in Slots
    BY <1>9 DEF ReaderSendWake, ReaderIsInOrder, HoldingPcs
  <2>2. inbox' \in Seq(RuntimeEvents)
    <3>1. inbox' = inbox \/ inbox' = Append(inbox, Wake(p, readerSlot[p]))
      BY <1>9, Zenon DEF ReaderSendWake
    <3>2. Wake(p, readerSlot[p]) \in RuntimeEvents
      BY <2>1, WakeIsEvent
    <3>3. Append(inbox, Wake(p, readerSlot[p])) \in Seq(RuntimeEvents)
      BY <3>2, AppendType
    <3>4. QED
      BY <3>1, <3>3
  <2>3. readerPc' \in [Panes -> ReaderPcs] /\ readerSlot' \in [Panes -> Slots \cup {NoSlot}]
    BY <1>9, ZenonT(60) DEF ReaderSendWake
  <2>4. UNCHANGED <<readerLen, serial, isSettled, paneVars, registry, serverVars, loopVars>>
    BY <1>9, Zenon DEF ReaderSendWake
  <2>5. QED
    BY <2>2, <2>3, <2>4, ZenonT(60)
<1>10. ASSUME NEW p \in Panes, ReaderUnregister(p) PROVE StateTypes'
  <2>1. registry' \in [Panes -> Slots \cup {NoSlot}]
    BY <1>10 DEF ReaderUnregister, Unregister
  <2>2. isSettled' \in [Panes -> BOOLEAN]
    <3>1. isSettled' = isSettled \/ isSettled' = [isSettled EXCEPT ![p] = TRUE]
      BY <1>10, Zenon DEF ReaderUnregister
    <3>2. QED
      BY <3>1
  <2>3. readerPc' \in [Panes -> ReaderPcs] /\ readerSlot' \in [Panes -> Slots \cup {NoSlot}]
    BY <1>10, ZenonT(60) DEF ReaderUnregister, LeavePush, GoTo
  <2>4. UNCHANGED <<readerLen, serial, paneVars, queue, inbox, serverVars, loopVars>>
    BY <1>10 DEF ReaderUnregister
  <2>5. QED
    BY <2>1, <2>2, <2>3, <2>4, ZenonT(60)
<1>11. ASSUME NEW p \in Panes, ReaderPublishExit(p) PROVE StateTypes'
  BY <1>11 DEF ReaderPublishExit
<1>12. ASSUME NEW p \in Panes, ReaderRead(p) PROVE StateTypes'
  <2>1. serial' \in [Panes -> 0 .. SerialModulus - 1]
    BY <1>12, AfterType DEF ReaderRead
  <2>2. QED
    BY <1>12, <2>1, SMTT(60) DEF ReaderRead
<1>13. ASSUME NEW p \in Panes, ReaderTerminalEnd(p) PROVE StateTypes'
  BY <1>13 DEF ReaderTerminalEnd
<1>14. ASSUME NEW p \in Panes, ChildEnds(p) PROVE StateTypes'
  BY <1>14 DEF ChildEnds
<1>15. ASSUME NEW p \in Panes, KillRemovedPane(p) PROVE StateTypes'
  BY <1>15 DEF KillRemovedPane
<1>16. CASE DispatchEvent
  <2>1. PICK e \in RuntimeEvents : e = Head(inbox)
    BY <1>16, HeadTail DEF DispatchEvent
  <2>2. inbox' \in Seq(RuntimeEvents)
    BY <1>16, HeadTail DEF DispatchEvent
  <2>3. HandleEvent(e)
    BY <1>16, <2>1 DEF DispatchEvent
  <2>4. isQuit' \in BOOLEAN /\ isRestart' \in BOOLEAN
    BY <2>3, Zenon DEF HandleEvent
  <2>5. /\ live' \subseteq Panes
        /\ heldSlot' \in [Panes -> Slots \cup {NoSlot}]
        /\ closing' \in (Panes \X Slots) \cup {NoQueue}
        /\ rotation' \in Seq(Panes)
    <3>1. CASE e.kind = "readable"
      <4>1. HandleReadable(e.pane, e.slot)
        BY <2>3, <3>1 DEF HandleEvent
      <4>2. e.pane \in Panes /\ e.slot \in Slots
        BY <3>1, EventFacts
      <4>3. Append(rotation, e.pane) \in Seq(Panes)
        BY <4>2, AppendType
      <4>4. CASE e.pane \in live
        BY <4>1, <4>2, <4>3, <4>4 DEF HandleReadable
      <4>5. CASE e.pane \notin live
        BY <4>1, <4>2, <4>5 DEF HandleReadable
      <4>6. QED
        BY <4>4, <4>5
    <3>2. CASE e.kind = "closePane" /\ e.pane \in live
      BY <2>3, <3>2, EventFacts, RemoveTypes DEF HandleEvent
    <3>3. CASE ~(e.kind = "readable") /\ ~(e.kind = "closePane" /\ e.pane \in live)
      BY <2>3, <3>3 DEF HandleEvent
    <3>4. QED
      BY <3>1, <3>2, <3>3
  <2>6. QED
    BY <1>16, <2>2, <2>4, <2>5 DEF DispatchEvent
<1>17. CASE DispatchDrained
  <2>1. dispatcherPc' \in DispatcherPcs
    BY <1>17 DEF DispatchDrained, AfterDrain
  <2>2. QED
    BY <1>17, <2>1 DEF DispatchDrained
<1>18. CASE DispatchUnregister
  <2>1. registry' \in [Panes -> Slots \cup {NoSlot}]
    BY <1>18 DEF DispatchUnregister, Unregister
  <2>2. QED
    BY <1>18, <2>1 DEF DispatchUnregister
<1>19. CASE DispatchWake
  BY <1>19 DEF DispatchWake
<1>20. CASE DispatchTurn
  <2>1. CASE rotation = <<>>
    BY <1>20, <2>1 DEF DispatchTurn
  <2>2. CASE rotation # <<>>
    <3>1. ServeTurn
      BY <1>20, <2>2 DEF DispatchTurn
    <3>2. QED
      BY <1>20, <2>2, <3>1, ServeTypes DEF DispatchTurn
  <2>3. QED
    BY <2>1, <2>2
<1>21. CASE DispatchPassEnd
  BY <1>21 DEF DispatchPassEnd
<1>22. CASE PauseReaders
  BY <1>22 DEF PauseReaders
<1>23. CASE ServeHeldTurn
  <2>1. rotation # <<>> /\ ServeTurn
    BY <1>23 DEF ServeHeldTurn
  <2>2. QED
    BY <1>23, <2>1, ServeTypes DEF ServeHeldTurn
<1>24. CASE RequeueHeld
  BY <1>24 DEF RequeueHeld
<1>25. CASE HeldServed
  BY <1>25 DEF HeldServed
<1>26. CASE AwaitParked
  BY <1>26 DEF AwaitParked
<1>27. CASE DispatchTimeout
  BY <1>27 DEF DispatchTimeout
<1>28. CASE HeldMore
  BY <1>28 DEF HeldMore
<1>29. CASE AbandonSwap
  BY <1>29 DEF AbandonSwap
<1>30. CASE ResumeReaders
  BY <1>30 DEF ResumeReaders
<1>31. CASE RebuildServer
  <2>1. rotation' \in Seq(Panes)
    BY <1>31 DEF RebuildServer
  <2>2. QED
    BY <1>31, <2>1 DEF RebuildServer
<1>32. CASE ExecImage
  <2>1. /\ readerPc' \in [Panes -> ReaderPcs] /\ isSettled' \in [Panes -> BOOLEAN]
        /\ inbox' \in Seq(RuntimeEvents) /\ rotation' \in Seq(Panes)
    BY <1>32 DEF ExecImage
  <2>2. dispatcherPc' \in DispatcherPcs
    BY <1>32, Zenon DEF ExecImage
  <2>3. QED
    BY <1>32, <2>1, <2>2 DEF ExecImage
<1>33. CASE KillAllPanes
  BY <1>33 DEF KillAllPanes
<1>34. CASE DropServer
  BY <1>34 DEF DropServer
<1>35. ASSUME NEW e \in RuntimeEvents, e.kind # "readable", Request(e) PROVE StateTypes'
  BY <1>35 DEF Request
<1>36. CASE UNCHANGED vars
  BY <1>36
<1>37. QED
  BY <1>1, <1>2, <1>3, <1>4, <1>5, <1>6, <1>7, <1>8, <1>9, <1>10, <1>11, <1>12, <1>13,
     <1>14, <1>15, <1>16, <1>17, <1>18, <1>19, <1>20, <1>21, <1>22, <1>23, <1>24,
     <1>25, <1>26, <1>27, <1>28, <1>29, <1>30, <1>31, <1>32, <1>33, <1>34, <1>35,
     <1>36, StepCases, Zenon

\* What a removal does to the queues.
LEMMA RemoveFacts ==
  ASSUME TypeOK, NEW p \in Panes, RemovePane(p, queue)
  PROVE  /\ QueuesOK'
         /\ live' = live \ {p} /\ heldSlot' = [heldSlot EXCEPT ![p] = NoSlot]
         /\ heldSlot[p] = NoSlot => UNCHANGED queue /\ closing' = NoQueue
         /\ heldSlot[p] # NoSlot =>
              /\ closing' = <<p, heldSlot[p]>> /\ closing' \in Panes \X Slots
              /\ \A j \in Panes \X Slots : j # closing' => queue'[j] = queue[j]
         /\ \A r \in Panes, s \in Slots : r # p => queue'[<<r, s>>] = queue[<<r, s>>]
<1>1. StateTypes /\ QueuesOK
  BY TypeParts
<1>2. CASE heldSlot[p] = NoSlot
  BY <1>1, <1>2 DEF RemovePane, QueuesOK
<1>3. CASE heldSlot[p] # NoSlot
  <2> DEFINE k == <<p, heldSlot[p]>>
  <2>1. k \in Panes \X Slots
    BY <1>1, <1>3 DEF StateTypes
  <2>2. /\ live' = live \ {p} /\ heldSlot' = [heldSlot EXCEPT ![p] = NoSlot] /\ closing' = k
        /\ queue' = [queue EXCEPT ![k] = ClosedQueue(queue[k])]
    BY <1>3 DEF RemovePane
  <2>3. QueueOK(ClosedQueue(queue[k]))
    BY <1>1, <2>1, ClosedQueueOK DEF QueuesOK
  <2> HIDE DEF k
  <2>4. QueuesOK' /\ \A j \in Panes \X Slots : j # k => queue'[j] = queue[j]
    BY <1>1, <2>1, <2>2, <2>3, QueueReplaced, Zenon
  <2>5. QED
    BY <1>3, <2>1, <2>2, <2>4 DEF k
<1>4. QED
  BY <1>2, <1>3

\* The ways an event is handled.
LEMMA HandleFacts ==
  ASSUME TypeOK, DispatchEvent
  PROVE  \E e \in RuntimeEvents :
           /\ e = Head(inbox) /\ inbox' = Tail(inbox) /\ QueuesOK'
           /\ \/ /\ e.pane \in live /\ e.slot \in Slots /\ e = Wake(e.pane, e.slot)
                 /\ heldSlot' = [heldSlot EXCEPT ![e.pane] = e.slot]
                 /\ rotation' = Append(rotation, e.pane)
                 /\ UNCHANGED <<live, queue, closing>>
              \/ /\ e.pane \in Panes \ live /\ e.slot \in Slots /\ e = Wake(e.pane, e.slot)
                 /\ closing' = <<e.pane, e.slot>>
                 /\ \A j \in Panes \X Slots : j # closing' => queue'[j] = queue[j]
                 /\ UNCHANGED <<live, heldSlot, rotation>>
              \/ /\ e.pane \in live /\ e.kind # "readable" /\ RemovePane(e.pane, queue)
                 /\ UNCHANGED rotation
              \/ /\ e.kind # "readable"
                 /\ UNCHANGED <<live, heldSlot, rotation, queue, closing>>
<1>1. StateTypes /\ QueuesOK
  BY TypeParts
<1>2. PICK e \in RuntimeEvents : e = Head(inbox)
  BY <1>1, HeadTail DEF DispatchEvent, StateTypes
<1>3. HandleEvent(e) /\ inbox' = Tail(inbox)
  BY <1>2 DEF DispatchEvent
<1>4. CASE e.kind = "readable"
  <2>1. e.pane \in Panes /\ e.slot \in Slots /\ e = Wake(e.pane, e.slot)
    BY <1>4, EventFacts
  <2>2. HandleReadable(e.pane, e.slot)
    BY <1>3, <1>4 DEF HandleEvent
  <2>3. CASE e.pane \in live
    <3>1. UNCHANGED queue
      BY <2>2, <2>3 DEF HandleReadable
    <3>2. QueuesOK'
      BY <1>1, <3>1 DEF QueuesOK
    <3>3. QED
      BY <1>2, <1>3, <2>1, <2>2, <2>3, <3>2, Zenon DEF HandleReadable
  <2>4. CASE e.pane \notin live
    <3> DEFINE k == <<e.pane, e.slot>>
    <3>1. k \in Panes \X Slots
      BY <2>1
    <3>2. /\ queue' = [queue EXCEPT ![k] = ClosedQueue(queue[k])] /\ closing' = k
          /\ UNCHANGED <<live, heldSlot, rotation>>
      BY <2>2, <2>4 DEF HandleReadable
    <3>3. QueueOK(ClosedQueue(queue[k]))
      BY <1>1, <3>1, ClosedQueueOK DEF QueuesOK
    <3> HIDE DEF k
    <3>4. QueuesOK' /\ \A j \in Panes \X Slots : j # k => queue'[j] = queue[j]
      BY <1>1, <3>1, <3>2, <3>3, QueueReplaced, Zenon
    <3>5. e.pane \in Panes \ live
      BY <2>1, <2>4
    <3>6. closing' = <<e.pane, e.slot>>
      BY <3>2 DEF k
    <3>7. QED
      BY <1>2, <1>3, <2>1, <3>2, <3>4, <3>5, <3>6, Zenon
  <2>5. QED
    BY <2>3, <2>4
<1>5. CASE e.kind = "closePane" /\ e.pane \in live
  <2>1. RemovePane(e.pane, queue) /\ UNCHANGED rotation /\ e.kind # "readable"
    BY <1>3, <1>5 DEF HandleEvent
  <2>2. e.pane \in Panes
    BY <1>5, EventFacts
  <2>3. QueuesOK'
    BY <2>1, <2>2, RemoveFacts
  <2>4. QED
    BY <1>2, <1>3, <1>5, <2>1, <2>3, Zenon
<1>6. CASE e.kind # "readable" /\ ~(e.kind = "closePane" /\ e.pane \in live)
  <2>1. UNCHANGED <<live, heldSlot, rotation, queue, closing>>
    BY <1>3, <1>6 DEF HandleEvent
  <2>2. QueuesOK'
    BY <1>1, <2>1 DEF QueuesOK
  <2>3. QED
    BY <1>2, <1>3, <1>6, <2>1, <2>2, Zenon
<1>7. QED
  BY <1>4, <1>5, <1>6

\* What a turn does: nothing for a pane whose queue is not held; otherwise it
\* leaves the rest of the queue, or takes all of it and the exit.
LEMMA ServeFacts ==
  ASSUME TypeOK, rotation # <<>>, ServeTurn, NEW p, p = Head(rotation)
  PROVE  /\ p \in Panes /\ rotation' = Tail(rotation) /\ QueuesOK'
         /\ heldSlot[p] = NoSlot =>
              servedPane' = NoPane /\ UNCHANGED <<live, heldSlot, queue, closing, fedSerial, exitCount>>
         /\ heldSlot[p] # NoSlot =>
              LET k == <<p, heldSlot[p]>>
                  n == TakeCount(queue[k].chunks)
                  left == LeftAfterTurn(queue[k])
              IN /\ k \in Panes \X Slots
                 /\ fedSerial' = IF n = 0 THEN fedSerial
                                 ELSE [fedSerial EXCEPT ![p] = After(queue[k].chunks[n].serial)]
                 /\ servedPane' = IF left.chunks # <<>> THEN p ELSE NoPane
                 /\ \A j \in Panes \X Slots : j # k => queue'[j] = queue[j]
                 /\ \/ /\ queue[k].exit /\ left.chunks = <<>>
                       /\ exitCount' = [exitCount EXCEPT ![p] = @ + 1]
                       /\ live' = live \ {p} /\ heldSlot' = [heldSlot EXCEPT ![p] = NoSlot]
                       /\ closing' = k
                    \/ /\ ~(queue[k].exit /\ left.chunks = <<>>)
                       /\ queue'[k] = left
                       /\ UNCHANGED <<live, heldSlot, closing, exitCount>>
<1>1. StateTypes /\ QueuesOK
  BY TypeParts
<1>2. p \in Panes /\ rotation' = Tail(rotation)
  BY <1>1, HeadTail DEF StateTypes, ServeTurn
<1>3. CASE heldSlot[p] = NoSlot
  <2>1. servedPane' = NoPane /\ UNCHANGED <<live, heldSlot, queue, closing, fedSerial, exitCount>>
    BY <1>3 DEF ServeTurn
  <2>2. QueuesOK'
    BY <1>1, <2>1 DEF QueuesOK
  <2>3. QED
    BY <1>2, <1>3, <2>1, <2>2
<1>4. CASE heldSlot[p] # NoSlot
  <2> DEFINE k == <<p, heldSlot[p]>>
             q == queue[k]
             n == TakeCount(q.chunks)
             left == LeftAfterTurn(q)
  <2>1. k \in Panes \X Slots
    BY <1>1, <1>2, <1>4 DEF StateTypes
  <2>2. QueueOK(q) /\ q \in QueueState
    BY <1>1, <2>1 DEF QueuesOK, QueueOK
  <2>3. QueueOK(left) /\ (left.exit <=> q.exit /\ left.chunks # <<>>)
    BY <2>2, LeftOK
  <2>4. HasTakenExit(q) <=> q.exit /\ left.chunks = <<>>
    <3> HIDE DEF q
    <3>1. QED
      BY <2>3, Zenon DEF HasTakenExit
  <2>5. /\ fedSerial' = IF n = 0 THEN fedSerial
                        ELSE [fedSerial EXCEPT ![p] = After(q.chunks[n].serial)]
        /\ servedPane' = IF left.chunks # <<>> THEN p ELSE NoPane
    BY <1>4, Zenon DEF ServeTurn
  <2>6. CASE HasTakenExit(q)
    <3>1. /\ exitCount' = [exitCount EXCEPT ![p] = @ + 1]
          /\ RemovePane(p, [queue EXCEPT ![k] = left])
      BY <1>4, <2>6, Zenon DEF ServeTurn
    <3>2. /\ live' = live \ {p} /\ heldSlot' = [heldSlot EXCEPT ![p] = NoSlot] /\ closing' = k
          /\ queue' = [[queue EXCEPT ![k] = left] EXCEPT ![k] = ClosedQueue([queue EXCEPT ![k] = left][k])]
      BY <1>4, <3>1, Zenon DEF RemovePane
    <3>3. queue \in [Panes \X Slots -> QueueState]
      BY <1>1 DEF QueuesOK
    <3>4. QueueOK(ClosedQueue(left))
      BY <2>3, ClosedQueueOK
    <3> HIDE DEF k, left, q
    <3>5. queue' = [queue EXCEPT ![k] = ClosedQueue(left)]
      BY <2>1, <3>2, <3>3
    <3>6. QueuesOK' /\ \A j \in Panes \X Slots : j # k => queue'[j] = queue[j]
      BY <1>1, <2>1, <3>4, <3>5, QueueReplaced, Zenon
    <3>7. QED
      BY <1>2, <1>4, <2>1, <2>4, <2>5, <2>6, <3>1, <3>2, <3>6, Zenon DEF k, left, q
  <2>7. CASE ~HasTakenExit(q)
    <3>1. /\ queue' = [queue EXCEPT ![k] = left]
          /\ UNCHANGED <<live, heldSlot, closing, exitCount>>
      BY <1>4, <2>7, Zenon DEF ServeTurn
    <3> HIDE DEF k, left, q
    <3>2. QueuesOK' /\ queue'[k] = left /\ \A j \in Panes \X Slots : j # k => queue'[j] = queue[j]
      BY <1>1, <2>1, <2>3, <3>1, QueueReplaced, Zenon
    <3>3. QED
      BY <1>2, <1>4, <2>1, <2>4, <2>5, <2>7, <3>1, <3>2, Zenon DEF k, left, q
  <2>8. QED
    BY <2>6, <2>7
<1>5. QED
  BY <1>3, <1>4

\* The queue a push finds, or starts.
LEMMA FindFacts ==
  ASSUME TypeOK, NEW p \in Panes, ReaderFind(p)
  PROVE  /\ QueuesOK'
         /\ \A r \in Panes, t \in Slots : r # p =>
              /\ readerSlot'[r] = readerSlot[r] /\ registry'[r] = registry[r]
              /\ queue'[<<r, t>>] = queue[<<r, t>>]
         /\ \/ /\ registry[p] \in Slots /\ IsHeld(p, registry[p])
               /\ readerSlot' = [readerSlot EXCEPT ![p] = registry[p]]
               /\ UNCHANGED <<queue, registry>>
            \/ /\ registry[p] = NoSlot \/ ~IsHeld(p, registry[p])
               /\ \E s \in Slots :
                    /\ ~IsHeld(p, s)
                    /\ readerSlot' = [readerSlot EXCEPT ![p] = s]
                    /\ registry' = [registry EXCEPT ![p] = s]
                    /\ queue'[<<p, s>>] = EmptyQueue
                    /\ \A j \in Panes \X Slots : j # <<p, s>> => queue'[j] = queue[j]
<1>1. StateTypes /\ QueuesOK
  BY TypeParts
<1>2. CASE registry[p] # NoSlot /\ IsHeld(p, registry[p])
  <2>1. readerSlot' = [readerSlot EXCEPT ![p] = registry[p]] /\ UNCHANGED <<queue, registry>>
    BY <1>2 DEF ReaderFind, FindOrStart
  <2>2. QueuesOK'
    BY <1>1, <2>1 DEF QueuesOK
  <2>3. registry[p] \in Slots /\ readerSlot \in [Panes -> Slots \cup {NoSlot}]
    BY <1>1, <1>2 DEF StateTypes
  <2>4. \A r \in Panes : r # p => readerSlot'[r] = readerSlot[r]
    BY <2>1, <2>3
  <2>5. QED
    BY <1>2, <2>1, <2>2, <2>3, <2>4
<1>3. CASE ~(registry[p] # NoSlot /\ IsHeld(p, registry[p]))
  <2> DEFINE s == CHOOSE s \in Slots : ~IsHeld(p, s)
             k == <<p, s>>
  <2>1. s \in Slots /\ ~IsHeld(p, s)
    BY <1>3, Zenon DEF ReaderFind, FindOrStart
  <2>2. /\ readerSlot' = [readerSlot EXCEPT ![p] = s]
        /\ registry' = [registry EXCEPT ![p] = s]
        /\ queue' = [queue EXCEPT ![k] = EmptyQueue]
    BY <1>3, Zenon DEF ReaderFind, FindOrStart
  <2> HIDE DEF s
  <2>3. k \in Panes \X Slots
    BY <2>1
  <2>4. /\ QueuesOK' /\ queue'[k] = EmptyQueue
        /\ \A j \in Panes \X Slots : j # k => queue'[j] = queue[j]
    <3> HIDE DEF k
    <3>1. QED
      BY <1>1, <2>2, <2>3, EmptyQueueOK, QueueReplaced, Zenon
  <2>5. \A r \in Panes, t \in Slots : r # p =>
          /\ readerSlot'[r] = readerSlot[r] /\ registry'[r] = registry[r]
          /\ queue'[<<r, t>>] = queue[<<r, t>>]
    BY <1>1, <2>2, <2>4 DEF StateTypes
  <2>6. QED
    BY <1>3, <2>1, <2>2, <2>4, <2>5, Zenon
<1>4. QED
  BY <1>2, <1>3

\* The number of the chunk in p's hands.
InHand(p) == (serial[p] + SerialModulus - 1) % SerialModulus

\* What a push does: a closed queue settles the pane, an open one takes the chunk,
\* and the wake is owed by the push that found the flag clear.
LEMMA PushFacts ==
  ASSUME TypeOK, ReaderIsInOrder, NEW p \in Panes, ReaderPush(p)
  PROVE  LET k == <<p, readerSlot[p]>>
         IN /\ QueuesOK' /\ k \in Panes \X Slots
            /\ \A j \in Panes \X Slots : j # k => queue'[j] = queue[j]
            /\ \A r \in Panes : r # p => readerPc'[r] = readerPc[r] /\ readerSlot'[r] = readerSlot[r]
            /\ \/ /\ queue[k].closed
                  /\ isSettled' = [isSettled EXCEPT ![p] = TRUE]
                  /\ readerPc' = [readerPc EXCEPT ![p] = "end"]
                  /\ readerSlot' = [readerSlot EXCEPT ![p] = NoSlot]
                  /\ UNCHANGED queue
               \/ /\ ~queue[k].closed
                  /\ \E chunk \in Chunk :
                       chunk.serial = InHand(p) /\ queue'[k] = Pushed(queue[k], chunk)
                  /\ queue'[k].chunks # <<>> /\ queue'[k].wakeSent
                  /\ queue'[k].closed = queue[k].closed /\ queue'[k].exit = queue[k].exit
                  /\ UNCHANGED isSettled
                  /\ \/ /\ queue[k].wakeSent
                        /\ readerPc' = [readerPc EXCEPT ![p] = "top"]
                        /\ readerSlot' = [readerSlot EXCEPT ![p] = NoSlot]
                     \/ /\ ~queue[k].wakeSent
                        /\ readerPc' = [readerPc EXCEPT ![p] = "wake"]
                        /\ UNCHANGED readerSlot
<1> DEFINE k == <<p, readerSlot[p]>>
           q == queue[k]
           chunk == [serial |-> InHand(p), len |-> readerLen[p]]
<1>1. StateTypes /\ QueuesOK
  BY TypeParts
<1>2. k \in Panes \X Slots /\ readerLen[p] \in ChunkSizes
  BY DEF ReaderPush, ReaderIsInOrder, HoldingPcs
<1>3. QueueOK(q)
  BY <1>1, <1>2 DEF QueuesOK
<1>4. CASE q.closed
  <2>1. /\ isSettled' = [isSettled EXCEPT ![p] = TRUE]
        /\ readerPc' = [readerPc EXCEPT ![p] = "end"]
        /\ readerSlot' = [readerSlot EXCEPT ![p] = NoSlot]
        /\ UNCHANGED queue
    BY <1>4 DEF ReaderPush, LeavePush, GoTo, HoldingPcs
  <2>2. QueuesOK'
    BY <1>1, <2>1 DEF QueuesOK
  <2>3. \A r \in Panes : r # p => readerPc'[r] = readerPc[r] /\ readerSlot'[r] = readerSlot[r]
    BY <1>1, <2>1 DEF StateTypes
  <2>4. QED
    BY <1>2, <1>4, <2>1, <2>2, <2>3, Zenon
<1>5. CASE ~q.closed
  <2>1. /\ queue' = [queue EXCEPT ![k] = Pushed(q, chunk)]
        /\ LeavePush(p, IF q.wakeSent THEN "top" ELSE "wake")
        /\ UNCHANGED isSettled /\ q.bytes < ByteLimit
    BY <1>5, Zenon DEF ReaderPush, Pushed, InHand
  <2>2. chunk \in Chunk
    <3>1. serial[p] \in Int
      BY <1>1, LimitAssumption DEF StateTypes
    <3>2. InHand(p) \in 0 .. SerialModulus - 1
      BY <3>1, LimitAssumption DEF InHand
    <3>3. QED
      BY <1>2, <3>2 DEF Chunk
  <2>3. chunk.serial = InHand(p)
    OBVIOUS
  <2> HIDE DEF q, chunk
  <2>4. /\ QueueOK(Pushed(q, chunk)) /\ Pushed(q, chunk).chunks = Append(q.chunks, chunk)
        /\ Pushed(q, chunk).exit = q.exit /\ Pushed(q, chunk).closed = q.closed
        /\ Pushed(q, chunk).wakeSent
    BY <1>3, <2>1, <2>2, PushedOK
  <2>5. Append(q.chunks, chunk) # <<>>
    <3>1. q.chunks \in Seq(Chunk)
      BY <1>3 DEF QueueOK, QueueState
    <3>2. QED
      BY <2>2, <3>1
  <2>6. /\ QueuesOK' /\ queue'[k] = Pushed(q, chunk)
        /\ \A j \in Panes \X Slots : j # k => queue'[j] = queue[j]
    <3> HIDE DEF k
    <3>1. QED
      BY <1>1, <1>2, <2>1, <2>4, QueueReplaced, Zenon
  <2>7. \/ /\ q.wakeSent
           /\ readerPc' = [readerPc EXCEPT ![p] = "top"]
           /\ readerSlot' = [readerSlot EXCEPT ![p] = NoSlot]
        \/ /\ ~q.wakeSent
           /\ readerPc' = [readerPc EXCEPT ![p] = "wake"]
           /\ UNCHANGED readerSlot
    <3>1. CASE q.wakeSent
      <4>1. LeavePush(p, "top")
        BY <2>1, <3>1
      <4>2. QED
        BY <3>1, <4>1 DEF LeavePush, GoTo, HoldingPcs
    <3>2. CASE ~q.wakeSent
      <4>1. LeavePush(p, "wake")
        BY <2>1, <3>2
      <4>2. QED
        BY <3>2, <4>1 DEF LeavePush, GoTo, HoldingPcs
    <3>3. QED
      BY <3>1, <3>2
  <2>8. \E x \in Chunk : x.serial = InHand(p) /\ queue'[k] = Pushed(queue[k], x)
    BY <2>2, <2>3, <2>6, Zenon DEF q
  <2>9. /\ queue'[k].chunks # <<>> /\ queue'[k].wakeSent
        /\ queue'[k].closed = queue[k].closed /\ queue'[k].exit = queue[k].exit
    BY <2>4, <2>5, <2>6, Zenon DEF q
  <2>10. \A r \in Panes : r # p => readerPc'[r] = readerPc[r] /\ readerSlot'[r] = readerSlot[r]
    BY <1>1, <2>7 DEF StateTypes
  <2>11. QED
    BY <1>2, <1>5, <2>1, <2>6, <2>7, <2>8, <2>9, <2>10, Zenon DEF q
<1>6. QED
  BY <1>4, <1>5

\* The same of the push of an exit.
LEMMA PushExitFacts ==
  ASSUME TypeOK, ReaderIsInOrder, NEW p \in Panes, ReaderPushExit(p)
  PROVE  LET k == <<p, readerSlot[p]>>
         IN /\ QueuesOK' /\ k \in Panes \X Slots
            /\ \A j \in Panes \X Slots : j # k => queue'[j] = queue[j]
            /\ \A r \in Panes : r # p => readerPc'[r] = readerPc[r] /\ readerSlot'[r] = readerSlot[r]
            /\ \/ /\ queue[k].closed
                  /\ readerPc' = [readerPc EXCEPT ![p] = "done"]
                  /\ readerSlot' = [readerSlot EXCEPT ![p] = NoSlot]
                  /\ UNCHANGED queue
               \/ /\ ~queue[k].closed
                  /\ queue'[k].chunks = queue[k].chunks /\ queue'[k].closed = queue[k].closed
                  /\ queue'[k].wakeSent
                  /\ \/ /\ queue[k].wakeSent
                        /\ readerPc' = [readerPc EXCEPT ![p] = "done"]
                        /\ readerSlot' = [readerSlot EXCEPT ![p] = NoSlot]
                     \/ /\ ~queue[k].wakeSent
                        /\ readerPc' = [readerPc EXCEPT ![p] = "exitWake"]
                        /\ UNCHANGED readerSlot
<1> DEFINE k == <<p, readerSlot[p]>>
           q == queue[k]
<1>1. StateTypes /\ QueuesOK
  BY TypeParts
<1>2. k \in Panes \X Slots
  BY DEF ReaderPushExit, ReaderIsInOrder, HoldingPcs
<1>3. QueueOK(q)
  BY <1>1, <1>2 DEF QueuesOK
<1>4. CASE q.closed
  <2>1. /\ readerPc' = [readerPc EXCEPT ![p] = "done"]
        /\ readerSlot' = [readerSlot EXCEPT ![p] = NoSlot]
        /\ UNCHANGED queue
    BY <1>4 DEF ReaderPushExit, LeavePush, GoTo, HoldingPcs
  <2>2. QueuesOK'
    BY <1>1, <2>1 DEF QueuesOK
  <2>3. \A r \in Panes : r # p => readerPc'[r] = readerPc[r] /\ readerSlot'[r] = readerSlot[r]
    BY <1>1, <2>1 DEF StateTypes
  <2>4. QED
    BY <1>2, <1>4, <2>1, <2>2, <2>3, Zenon
<1>5. CASE ~q.closed
  <2>1. /\ queue' = [queue EXCEPT ![k] = WithExit(q)]
        /\ LeavePush(p, IF q.wakeSent THEN "done" ELSE "exitWake")
    BY <1>5, Zenon DEF ReaderPushExit, WithExit
  <2> HIDE DEF q
  <2>2. /\ QueueOK(WithExit(q))
        /\ WithExit(q).chunks = q.chunks /\ WithExit(q).closed = q.closed
        /\ WithExit(q).wakeSent
    BY <1>3, WithExitOK
  <2>3. /\ QueuesOK' /\ queue'[k] = WithExit(q)
        /\ \A j \in Panes \X Slots : j # k => queue'[j] = queue[j]
    <3> HIDE DEF k
    <3>1. QED
      BY <1>1, <1>2, <2>1, <2>2, QueueReplaced, Zenon
  <2>4. \/ /\ q.wakeSent
           /\ readerPc' = [readerPc EXCEPT ![p] = "done"]
           /\ readerSlot' = [readerSlot EXCEPT ![p] = NoSlot]
        \/ /\ ~q.wakeSent
           /\ readerPc' = [readerPc EXCEPT ![p] = "exitWake"]
           /\ UNCHANGED readerSlot
    <3>1. CASE q.wakeSent
      <4>1. LeavePush(p, "done")
        BY <2>1, <3>1
      <4>2. QED
        BY <3>1, <4>1 DEF LeavePush, GoTo, HoldingPcs
    <3>2. CASE ~q.wakeSent
      <4>1. LeavePush(p, "exitWake")
        BY <2>1, <3>2
      <4>2. QED
        BY <3>2, <4>1 DEF LeavePush, GoTo, HoldingPcs
    <3>3. QED
      BY <3>1, <3>2
  <2>5. \A r \in Panes : r # p => readerPc'[r] = readerPc[r] /\ readerSlot'[r] = readerSlot[r]
    BY <1>1, <2>4 DEF StateTypes
  <2>6. QED
    BY <1>2, <1>5, <2>2, <2>3, <2>4, <2>5, Zenon DEF q
<1>6. QED
  BY <1>4, <1>5

\* A wake is sent while the server is there; without it the queue is closed.
LEMMA SendWakeFacts ==
  ASSUME TypeOK, ReaderIsInOrder, NEW p \in Panes, ReaderSendWake(p)
  PROVE  LET k == <<p, readerSlot[p]>>
         IN /\ QueuesOK' /\ k \in Panes \X Slots
            /\ \A j \in Panes \X Slots : j # k => queue'[j] = queue[j]
            /\ dispatcherPc # "gone" =>
                 /\ UNCHANGED queue
                 /\ inbox' = Append(inbox, Wake(p, readerSlot[p]))
                 /\ readerSlot' = [readerSlot EXCEPT ![p] = NoSlot]
                 /\ \/ readerPc[p] = "wake" /\ readerPc' = [readerPc EXCEPT ![p] = "top"]
                    \/ readerPc[p] = "exitWake" /\ readerPc' = [readerPc EXCEPT ![p] = "done"]
            /\ dispatcherPc = "gone" =>
                 /\ UNCHANGED <<inbox, readerSlot>>
                 /\ \/ readerPc' = [readerPc EXCEPT ![p] = "unregister"]
                    \/ readerPc' = [readerPc EXCEPT ![p] = "exitUnregister"]
<1> DEFINE k == <<p, readerSlot[p]>>
           q == queue[k]
<1>1. StateTypes /\ QueuesOK
  BY TypeParts
<1>2. k \in Panes \X Slots
  BY DEF ReaderSendWake, ReaderIsInOrder, HoldingPcs
<1>3. QueueOK(q)
  BY <1>1, <1>2 DEF QueuesOK
<1>4. CASE dispatcherPc # "gone"
  <2>1. /\ UNCHANGED queue
        /\ inbox' = Append(inbox, Wake(p, readerSlot[p]))
        /\ readerSlot' = [readerSlot EXCEPT ![p] = NoSlot]
        /\ \/ readerPc[p] = "wake" /\ readerPc' = [readerPc EXCEPT ![p] = "top"]
           \/ readerPc[p] = "exitWake" /\ readerPc' = [readerPc EXCEPT ![p] = "done"]
    BY <1>4 DEF ReaderSendWake, LeavePush, GoTo, HoldingPcs
  <2>2. QueuesOK'
    BY <1>1, <2>1 DEF QueuesOK
  <2>3. QED
    BY <1>2, <1>4, <2>1, <2>2
<1>5. CASE dispatcherPc = "gone"
  <2>1. /\ queue' = [queue EXCEPT ![k] = ClosedQueue(q)]
        /\ UNCHANGED inbox
    BY <1>5 DEF ReaderSendWake
  <2>2. /\ UNCHANGED readerSlot
        /\ \/ readerPc' = [readerPc EXCEPT ![p] = "unregister"]
           \/ readerPc' = [readerPc EXCEPT ![p] = "exitUnregister"]
    BY <1>5 DEF ReaderSendWake, LeavePush, GoTo, HoldingPcs
  <2>3. QueueOK(ClosedQueue(q))
    BY <1>3, ClosedQueueOK
  <2> HIDE DEF k, q
  <2>4. QueuesOK' /\ \A j \in Panes \X Slots : j # k => queue'[j] = queue[j]
    BY <1>1, <1>2, <2>1, <2>3, QueueReplaced, Zenon
  <2>5. QED
    BY <1>2, <1>5, <2>1, <2>2, <2>4, Zenon DEF k
<1>6. QED
  BY <1>4, <1>5

\* Every step keeps the byte counts right and at most one chunk over the limit.
LEMMA QueuesStep ==
  ASSUME TypeOK, ReaderIsInOrder, [Next]_vars
  PROVE  QueuesOK'
<1> USE DEF readerVars, paneVars, sharedVars, serverVars, loopVars, vars
<1> QueuesOK
  BY TypeParts
<1>1. ASSUME NEW p \in Panes, ReaderTop(p) PROVE QueuesOK'
  BY <1>1 DEF ReaderTop, QueuesOK
<1>2. ASSUME NEW p \in Panes, ReaderUnpark(p) PROVE QueuesOK'
  BY <1>2 DEF ReaderUnpark, QueuesOK
<1>3. ASSUME NEW p \in Panes, ReaderRung(p) PROVE QueuesOK'
  BY <1>3 DEF ReaderRung, QueuesOK
<1>4. ASSUME NEW p \in Panes, ReaderDrained(p) PROVE QueuesOK'
  BY <1>4 DEF ReaderDrained, QueuesOK
<1>5. ASSUME NEW p \in Panes, ReaderDeliver(p) PROVE QueuesOK'
  BY <1>5 DEF ReaderDeliver, QueuesOK
<1>6. ASSUME NEW p \in Panes, ReaderFind(p) PROVE QueuesOK'
  BY <1>6, FindFacts
<1>7. ASSUME NEW p \in Panes, ReaderPush(p) PROVE QueuesOK'
  BY <1>7, PushFacts
<1>8. ASSUME NEW p \in Panes, ReaderPushExit(p) PROVE QueuesOK'
  BY <1>8, PushExitFacts
<1>9. ASSUME NEW p \in Panes, ReaderSendWake(p) PROVE QueuesOK'
  BY <1>9, SendWakeFacts
<1>10. ASSUME NEW p \in Panes, ReaderUnregister(p) PROVE QueuesOK'
  BY <1>10 DEF ReaderUnregister, QueuesOK
<1>11. ASSUME NEW p \in Panes, ReaderPublishExit(p) PROVE QueuesOK'
  BY <1>11 DEF ReaderPublishExit, QueuesOK
<1>12. ASSUME NEW p \in Panes, ReaderRead(p) PROVE QueuesOK'
  BY <1>12 DEF ReaderRead, QueuesOK
<1>13. ASSUME NEW p \in Panes, ReaderTerminalEnd(p) PROVE QueuesOK'
  BY <1>13 DEF ReaderTerminalEnd, QueuesOK
<1>14. ASSUME NEW p \in Panes, ChildEnds(p) PROVE QueuesOK'
  BY <1>14 DEF ChildEnds, QueuesOK
<1>15. ASSUME NEW p \in Panes, KillRemovedPane(p) PROVE QueuesOK'
  BY <1>15 DEF KillRemovedPane, QueuesOK
<1>16. CASE DispatchEvent
  BY <1>16, HandleFacts
<1>17. CASE DispatchDrained
  BY <1>17 DEF DispatchDrained, QueuesOK
<1>18. CASE DispatchUnregister
  BY <1>18 DEF DispatchUnregister, QueuesOK
<1>19. CASE DispatchWake
  BY <1>19 DEF DispatchWake, QueuesOK
<1>20. CASE DispatchTurn
  <2>1. CASE rotation = <<>>
    BY <1>20, <2>1 DEF DispatchTurn, QueuesOK
  <2>2. CASE rotation # <<>>
    <3>1. ServeTurn
      BY <1>20, <2>2 DEF DispatchTurn
    <3>2. QED
      BY <2>2, <3>1, ServeFacts
  <2>3. QED
    BY <2>1, <2>2
<1>21. CASE DispatchPassEnd
  BY <1>21 DEF DispatchPassEnd, QueuesOK
<1>22. CASE PauseReaders
  BY <1>22 DEF PauseReaders, QueuesOK
<1>23. CASE ServeHeldTurn
  <2>1. rotation # <<>> /\ ServeTurn
    BY <1>23 DEF ServeHeldTurn
  <2>2. QED
    BY <2>1, ServeFacts
<1>24. CASE RequeueHeld
  BY <1>24 DEF RequeueHeld, QueuesOK
<1>25. CASE HeldServed
  BY <1>25 DEF HeldServed, QueuesOK
<1>26. CASE AwaitParked
  BY <1>26 DEF AwaitParked, QueuesOK
<1>27. CASE DispatchTimeout
  BY <1>27 DEF DispatchTimeout, QueuesOK
<1>28. CASE HeldMore
  BY <1>28 DEF HeldMore, QueuesOK
<1>29. CASE AbandonSwap
  BY <1>29 DEF AbandonSwap, QueuesOK
<1>30. CASE ResumeReaders
  BY <1>30 DEF ResumeReaders, QueuesOK
<1>31. CASE RebuildServer
  BY <1>31 DEF RebuildServer, QueuesOK
<1>32. CASE ExecImage
  <2>1. queue' = [q \in Panes \X Slots |-> EmptyQueue]
    BY <1>32 DEF ExecImage
  <2>2. QED
    BY <2>1, EmptyQueueOK DEF QueuesOK, QueueOK
<1>33. CASE KillAllPanes
  BY <1>33 DEF KillAllPanes, QueuesOK
<1>34. CASE DropServer
  BY <1>34 DEF DropServer, QueuesOK
<1>35. ASSUME NEW e \in RuntimeEvents, e.kind # "readable", Request(e) PROVE QueuesOK'
  BY <1>35 DEF Request, QueuesOK
<1>36. CASE UNCHANGED vars
  BY <1>36 DEF QueuesOK
<1>37. QED
  BY <1>1, <1>2, <1>3, <1>4, <1>5, <1>6, <1>7, <1>8, <1>9, <1>10, <1>11, <1>12, <1>13,
     <1>14, <1>15, <1>16, <1>17, <1>18, <1>19, <1>20, <1>21, <1>22, <1>23, <1>24,
     <1>25, <1>26, <1>27, <1>28, <1>29, <1>30, <1>31, <1>32, <1>33, <1>34, <1>35,
     <1>36, StepCases, Zenon

\* Every step keeps the types.
LEMMA TypeStep ==
  ASSUME TypeOK, ReaderIsInOrder, [Next]_vars
  PROVE  TypeOK'
<1>1. StateTypes' /\ QueuesOK'
  BY StateTypesStep, QueuesStep
<1>2. QED
  BY <1>1 DEF TypeOK, StateTypes, QueuesOK, QueueOK

\* Every step keeps the readers in order.
LEMMA ReaderOrderStep ==
  ASSUME TypeOK, ReaderIsInOrder, [Next]_vars
  PROVE  ReaderIsInOrder'
<1> USE NoneAssumption DEF StateTypes, ReaderIsInOrder, HoldingPcs, ReaderPcs, PumpPcs,
      ExitPcs, readerVars, paneVars, sharedVars, serverVars, loopVars, vars
<1> StateTypes
  BY TypeParts
<1>1. ASSUME NEW p \in Panes, ReaderTop(p) PROVE ReaderIsInOrder'
  BY <1>1 DEF ReaderTop, GoTo
<1>2. ASSUME NEW p \in Panes, ReaderUnpark(p) PROVE ReaderIsInOrder'
  BY <1>2 DEF ReaderUnpark, GoTo
<1>3. ASSUME NEW p \in Panes, ReaderRung(p) PROVE ReaderIsInOrder'
  BY <1>3 DEF ReaderRung, GoTo
<1>4. ASSUME NEW p \in Panes, ReaderDrained(p) PROVE ReaderIsInOrder'
  BY <1>4 DEF ReaderDrained, GoTo
<1>5. ASSUME NEW p \in Panes, ReaderDeliver(p) PROVE ReaderIsInOrder'
  BY <1>5 DEF ReaderDeliver, GoTo
<1>6. ASSUME NEW p \in Panes, ReaderFind(p) PROVE ReaderIsInOrder'
  <2>1. PICK s \in Slots : readerSlot' = [readerSlot EXCEPT ![p] = s]
    BY <1>6, FindFacts
  <2>2. QED
    BY <1>6, <2>1 DEF ReaderFind, GoTo
<1>7. ASSUME NEW p \in Panes, ReaderPush(p) PROVE ReaderIsInOrder'
  <2>1. readerLen' = [readerLen EXCEPT ![p] = 0] /\ UNCHANGED dispatcherPc /\ readerSlot[p] \in Slots
    BY <1>7 DEF ReaderPush
  <2>2. \/ readerPc' \in {[readerPc EXCEPT ![p] = "end"], [readerPc EXCEPT ![p] = "top"]}
             /\ readerSlot' = [readerSlot EXCEPT ![p] = NoSlot]
        \/ readerPc' = [readerPc EXCEPT ![p] = "wake"] /\ UNCHANGED readerSlot
    BY <1>7, PushFacts
  <2>3. QED
    BY <2>1, <2>2
<1>8. ASSUME NEW p \in Panes, ReaderPushExit(p) PROVE ReaderIsInOrder'
  <2>1. UNCHANGED <<readerLen, dispatcherPc>> /\ readerSlot[p] \in Slots
    BY <1>8 DEF ReaderPushExit
  <2>2. \/ readerPc' = [readerPc EXCEPT ![p] = "done"]
             /\ readerSlot' = [readerSlot EXCEPT ![p] = NoSlot]
        \/ readerPc' = [readerPc EXCEPT ![p] = "exitWake"] /\ UNCHANGED readerSlot
    BY <1>8, PushExitFacts
  <2>3. QED
    BY <2>1, <2>2
<1>9. ASSUME NEW p \in Panes, ReaderSendWake(p) PROVE ReaderIsInOrder'
  <2>1. UNCHANGED <<readerLen, dispatcherPc>> /\ readerSlot[p] \in Slots
    BY <1>9 DEF ReaderSendWake
  <2>2. \/ readerPc' \in {[readerPc EXCEPT ![p] = "top"], [readerPc EXCEPT ![p] = "done"]}
             /\ readerSlot' = [readerSlot EXCEPT ![p] = NoSlot]
        \/ /\ dispatcherPc = "gone"
           /\ readerPc' \in {[readerPc EXCEPT ![p] = "unregister"],
                             [readerPc EXCEPT ![p] = "exitUnregister"]}
           /\ UNCHANGED readerSlot
    BY <1>9, SendWakeFacts
  <2>3. QED
    BY <2>1, <2>2
<1>10. ASSUME NEW p \in Panes, ReaderUnregister(p) PROVE ReaderIsInOrder'
  <2>1. UNCHANGED <<readerLen, dispatcherPc>>
    BY <1>10 DEF ReaderUnregister
  <2>2. /\ readerPc' \in {[readerPc EXCEPT ![p] = "end"], [readerPc EXCEPT ![p] = "done"]}
        /\ readerSlot' = [readerSlot EXCEPT ![p] = NoSlot]
    BY <1>10 DEF ReaderUnregister, LeavePush, GoTo
  <2>3. QED
    BY <2>1, <2>2
<1>11. ASSUME NEW p \in Panes, ReaderPublishExit(p) PROVE ReaderIsInOrder'
  BY <1>11 DEF ReaderPublishExit, GoTo
<1>12. ASSUME NEW p \in Panes, ReaderRead(p) PROVE ReaderIsInOrder'
  BY <1>12 DEF ReaderRead, GoTo
<1>13. ASSUME NEW p \in Panes, ReaderTerminalEnd(p) PROVE ReaderIsInOrder'
  BY <1>13 DEF ReaderTerminalEnd, GoTo
<1>14. ASSUME NEW p \in Panes, ChildEnds(p) PROVE ReaderIsInOrder'
  BY <1>14 DEF ChildEnds, DispatcherAt, DrainPcs
<1>15. ASSUME NEW p \in Panes, KillRemovedPane(p) PROVE ReaderIsInOrder'
  BY <1>15 DEF KillRemovedPane, DispatcherAt, DrainPcs
<1>16. CASE DispatchEvent
  BY <1>16 DEF DispatchEvent, DispatcherAt, DrainPcs
<1>17. CASE DispatchDrained
  BY <1>17 DEF DispatchDrained, DispatcherAt, DrainPcs
<1>18. CASE DispatchUnregister
  BY <1>18 DEF DispatchUnregister, DispatcherAt, DrainPcs
<1>19. CASE DispatchWake
  BY <1>19 DEF DispatchWake, DispatcherAt, DrainPcs
<1>20. CASE DispatchTurn
  BY <1>20 DEF DispatchTurn, DispatcherAt, DrainPcs
<1>21. CASE DispatchPassEnd
  BY <1>21 DEF DispatchPassEnd, DispatcherAt, DrainPcs
<1>22. CASE PauseReaders
  BY <1>22 DEF PauseReaders, DispatcherAt, DrainPcs
<1>23. CASE ServeHeldTurn
  BY <1>23 DEF ServeHeldTurn, DispatcherAt, DrainPcs
<1>24. CASE RequeueHeld
  BY <1>24 DEF RequeueHeld, DispatcherAt, DrainPcs
<1>25. CASE HeldServed
  BY <1>25 DEF HeldServed, DispatcherAt, DrainPcs
<1>26. CASE AwaitParked
  BY <1>26 DEF AwaitParked, DispatcherAt, DrainPcs
<1>27. CASE DispatchTimeout
  BY <1>27 DEF DispatchTimeout, DispatcherAt, DrainPcs
<1>28. CASE HeldMore
  BY <1>28 DEF HeldMore, DispatcherAt, DrainPcs
<1>29. CASE AbandonSwap
  BY <1>29 DEF AbandonSwap, DispatcherAt, DrainPcs
<1>30. CASE ResumeReaders
  BY <1>30 DEF ResumeReaders, DispatcherAt, DrainPcs
<1>31. CASE RebuildServer
  BY <1>31 DEF RebuildServer, DispatcherAt, DrainPcs
<1>32. CASE ExecImage
  BY <1>32 DEF ExecImage, DispatcherAt, DrainPcs
<1>33. CASE KillAllPanes
  BY <1>33 DEF KillAllPanes, DispatcherAt, DrainPcs
<1>34. CASE DropServer
  BY <1>34 DEF DropServer, DispatcherAt, DrainPcs
<1>35. ASSUME NEW e \in RuntimeEvents, e.kind # "readable", Request(e) PROVE ReaderIsInOrder'
  BY <1>35 DEF Request
<1>36. CASE UNCHANGED vars
  BY <1>36
<1>37. QED
  BY <1>1, <1>2, <1>3, <1>4, <1>5, <1>6, <1>7, <1>8, <1>9, <1>10, <1>11, <1>12, <1>13,
     <1>14, <1>15, <1>16, <1>17, <1>18, <1>19, <1>20, <1>21, <1>22, <1>23, <1>24,
     <1>25, <1>26, <1>27, <1>28, <1>29, <1>30, <1>31, <1>32, <1>33, <1>34, <1>35,
     <1>36, StepCases, Zenon

\* A turn keeps the server's state in order.
LEMMA ServeOrder ==
  ASSUME TypeOK, ServerIsInOrder, rotation # <<>>, ServeTurn
  PROVE  /\ \A p \in Panes : heldSlot'[p] # NoSlot => p \in live'
         /\ closing' # NoQueue => closing'[1] \notin live'
<1> DEFINE p == Head(rotation)
<1>1. /\ p \in Panes
      /\ \/ UNCHANGED <<live, heldSlot, closing>>
         \/ /\ live' = live \ {p} /\ heldSlot' = [heldSlot EXCEPT ![p] = NoSlot]
            /\ closing' = <<p, heldSlot[p]>>
  BY ServeFacts, Zenon
<1> HIDE DEF p
<1>2. heldSlot \in [Panes -> Slots \cup {NoSlot}]
  BY DEF TypeOK
<1>3. QED
  BY <1>1, <1>2 DEF ServerIsInOrder

\* Every step keeps the server's state in order.
LEMMA ServerOrderStep ==
  ASSUME TypeOK, ServerIsInOrder, [Next]_vars
  PROVE  ServerIsInOrder'
<1> USE NoneAssumption DEF StateTypes, ServerIsInOrder, NoQueue, DispatcherPcs, PassPcs,
      HoldPcs, SwapPcs, EndPcs, readerVars, paneVars, sharedVars, serverVars, loopVars,
      vars
<1> StateTypes
  BY TypeParts
<1>1. ASSUME NEW p \in Panes, ReaderTop(p) PROVE ServerIsInOrder'
  BY <1>1 DEF ReaderTop
<1>2. ASSUME NEW p \in Panes, ReaderUnpark(p) PROVE ServerIsInOrder'
  BY <1>2 DEF ReaderUnpark
<1>3. ASSUME NEW p \in Panes, ReaderRung(p) PROVE ServerIsInOrder'
  BY <1>3 DEF ReaderRung
<1>4. ASSUME NEW p \in Panes, ReaderDrained(p) PROVE ServerIsInOrder'
  BY <1>4 DEF ReaderDrained
<1>5. ASSUME NEW p \in Panes, ReaderDeliver(p) PROVE ServerIsInOrder'
  BY <1>5 DEF ReaderDeliver
<1>6. ASSUME NEW p \in Panes, ReaderFind(p) PROVE ServerIsInOrder'
  BY <1>6 DEF ReaderFind
<1>7. ASSUME NEW p \in Panes, ReaderPush(p) PROVE ServerIsInOrder'
  BY <1>7 DEF ReaderPush
<1>8. ASSUME NEW p \in Panes, ReaderPushExit(p) PROVE ServerIsInOrder'
  BY <1>8 DEF ReaderPushExit
<1>9. ASSUME NEW p \in Panes, ReaderSendWake(p) PROVE ServerIsInOrder'
  BY <1>9 DEF ReaderSendWake
<1>10. ASSUME NEW p \in Panes, ReaderUnregister(p) PROVE ServerIsInOrder'
  BY <1>10 DEF ReaderUnregister
<1>11. ASSUME NEW p \in Panes, ReaderPublishExit(p) PROVE ServerIsInOrder'
  BY <1>11 DEF ReaderPublishExit
<1>12. ASSUME NEW p \in Panes, ReaderRead(p) PROVE ServerIsInOrder'
  BY <1>12 DEF ReaderRead
<1>13. ASSUME NEW p \in Panes, ReaderTerminalEnd(p) PROVE ServerIsInOrder'
  BY <1>13 DEF ReaderTerminalEnd
<1>14. ASSUME NEW p \in Panes, ChildEnds(p) PROVE ServerIsInOrder'
  BY <1>14 DEF ChildEnds, DispatcherAt
<1>15. ASSUME NEW p \in Panes, KillRemovedPane(p) PROVE ServerIsInOrder'
  BY <1>15 DEF KillRemovedPane, DispatcherAt
<1>16. CASE DispatchEvent
  <2>1. dispatcherPc \in DrainPcs /\ UNCHANGED <<dispatcherPc, servedPane>>
    BY <1>16 DEF DispatchEvent
  <2>2. PICK e \in RuntimeEvents :
          \/ /\ e.pane \in live /\ e.slot \in Slots
             /\ heldSlot' = [heldSlot EXCEPT ![e.pane] = e.slot]
             /\ UNCHANGED <<live, closing>>
          \/ e.pane \in Panes \ live /\ closing' = <<e.pane, e.slot>> /\ UNCHANGED <<live, heldSlot>>
          \/ e.pane \in live /\ RemovePane(e.pane, queue)
          \/ UNCHANGED <<live, heldSlot, closing>>
    BY <1>16, HandleFacts, Zenon
  <2>3. /\ \A p \in Panes : heldSlot'[p] # NoSlot => p \in live'
        /\ closing' # NoQueue => closing'[1] \notin live'
    <3>1. CASE e.pane \in live /\ RemovePane(e.pane, queue)
      BY <3>1 DEF RemovePane
    <3>2. CASE ~(e.pane \in live /\ RemovePane(e.pane, queue))
      BY <2>2, <3>2
    <3>3. QED
      BY <3>1, <3>2
  <2>4. QED
    BY <2>1, <2>3 DEF DrainPcs
<1>17. CASE DispatchDrained
  BY <1>17 DEF DispatchDrained, AfterDrain, DrainPcs
<1>18. CASE DispatchUnregister
  BY <1>18 DEF DispatchUnregister, DispatcherAt
<1>19. CASE DispatchWake
  BY <1>19 DEF DispatchWake, DispatcherAt
<1>20. CASE DispatchTurn
  <2>1. CASE rotation = <<>>
    BY <1>20, <2>1 DEF DispatchTurn
  <2>2. CASE rotation # <<>>
    <3>1. ServeTurn /\ dispatcherPc' = "drainAgain"
      BY <1>20, <2>2 DEF DispatchTurn
    <3>2. /\ \A p \in Panes : heldSlot'[p] # NoSlot => p \in live'
          /\ closing' # NoQueue => closing'[1] \notin live'
      BY <2>2, <3>1, ServeOrder
    <3>3. QED
      BY <3>1, <3>2
  <2>3. QED
    BY <2>1, <2>2
<1>21. CASE DispatchPassEnd
  BY <1>21 DEF DispatchPassEnd, DispatcherAt
<1>22. CASE PauseReaders
  BY <1>22 DEF PauseReaders, DispatcherAt
<1>23. CASE ServeHeldTurn
  <2>1. /\ rotation # <<>> /\ ServeTurn
        /\ dispatcherPc \in {"serveHeld", "serveAgain"} /\ UNCHANGED dispatcherPc
    BY <1>23 DEF ServeHeldTurn
  <2>2. /\ \A p \in Panes : heldSlot'[p] # NoSlot => p \in live'
        /\ closing' # NoQueue => closing'[1] \notin live'
    BY <2>1, ServeOrder
  <2>3. QED
    BY <2>1, <2>2
<1>24. CASE RequeueHeld
  BY <1>24 DEF RequeueHeld, DispatcherAt
<1>25. CASE HeldServed
  BY <1>25 DEF HeldServed, DispatcherAt
<1>26. CASE AwaitParked
  BY <1>26 DEF AwaitParked, DispatcherAt
<1>27. CASE DispatchTimeout
  BY <1>27 DEF DispatchTimeout, DispatcherAt
<1>28. CASE HeldMore
  BY <1>28 DEF HeldMore, DispatcherAt
<1>29. CASE AbandonSwap
  BY <1>29 DEF AbandonSwap, DispatcherAt
<1>30. CASE ResumeReaders
  BY <1>30 DEF ResumeReaders, DispatcherAt
<1>31. CASE RebuildServer
  BY <1>31 DEF RebuildServer, DispatcherAt
<1>32. CASE ExecImage
  BY <1>32 DEF ExecImage, DispatcherAt
<1>33. CASE KillAllPanes
  BY <1>33 DEF KillAllPanes, DispatcherAt
<1>34. CASE DropServer
  BY <1>34 DEF DropServer, DispatcherAt
<1>35. ASSUME NEW e \in RuntimeEvents, e.kind # "readable", Request(e) PROVE ServerIsInOrder'
  BY <1>35 DEF Request
<1>36. CASE UNCHANGED vars
  BY <1>36
<1>37. QED
  BY <1>1, <1>2, <1>3, <1>4, <1>5, <1>6, <1>7, <1>8, <1>9, <1>10, <1>11, <1>12, <1>13,
     <1>14, <1>15, <1>16, <1>17, <1>18, <1>19, <1>20, <1>21, <1>22, <1>23, <1>24,
     <1>25, <1>26, <1>27, <1>28, <1>29, <1>30, <1>31, <1>32, <1>33, <1>34, <1>35,
     <1>36, StepCases, Zenon

\* Every step keeps the hold of the readers in order.
LEMMA SwapOrderStep ==
  ASSUME TypeOK, SwapIsInOrder, [Next]_vars
  PROVE  SwapIsInOrder'
<1> USE DEF StateTypes, SwapIsInOrder, IsEveryReaderParked, ReaderPcs, PumpPcs, ExitPcs,
      DispatcherPcs, PassPcs, HoldPcs, SwapPcs, EndPcs, readerVars, paneVars,
      sharedVars, serverVars, loopVars, vars
<1> StateTypes
  BY TypeParts
<1>1. ASSUME NEW p \in Panes, ReaderTop(p) PROVE SwapIsInOrder'
  BY <1>1 DEF ReaderTop, GoTo, LeavePush
<1>2. ASSUME NEW p \in Panes, ReaderUnpark(p) PROVE SwapIsInOrder'
  BY <1>2 DEF ReaderUnpark, GoTo, LeavePush
<1>3. ASSUME NEW p \in Panes, ReaderRung(p) PROVE SwapIsInOrder'
  BY <1>3 DEF ReaderRung, GoTo, LeavePush
<1>4. ASSUME NEW p \in Panes, ReaderDrained(p) PROVE SwapIsInOrder'
  BY <1>4 DEF ReaderDrained, GoTo, LeavePush
<1>5. ASSUME NEW p \in Panes, ReaderDeliver(p) PROVE SwapIsInOrder'
  BY <1>5 DEF ReaderDeliver, GoTo, LeavePush
<1>6. ASSUME NEW p \in Panes, ReaderFind(p) PROVE SwapIsInOrder'
  BY <1>6 DEF ReaderFind, GoTo, LeavePush
<1>7. ASSUME NEW p \in Panes, ReaderPush(p) PROVE SwapIsInOrder'
  BY <1>7 DEF ReaderPush, GoTo, LeavePush
<1>8. ASSUME NEW p \in Panes, ReaderPushExit(p) PROVE SwapIsInOrder'
  <2>1. readerPc[p] = "exitPush" /\ UNCHANGED <<dispatcherPc, isPaused>>
    BY <1>8 DEF ReaderPushExit
  <2>2. \/ readerPc' = [readerPc EXCEPT ![p] = "done"]
        \/ readerPc' = [readerPc EXCEPT ![p] = "exitWake"]
    <3>1. CASE queue[<<p, readerSlot[p]>>].closed
      BY <1>8, <3>1 DEF ReaderPushExit, LeavePush, GoTo
    <3>2. CASE ~queue[<<p, readerSlot[p]>>].closed
      BY <1>8, <3>2, Zenon DEF ReaderPushExit, LeavePush, GoTo
    <3>3. QED
      BY <3>1, <3>2
  <2>3. QED
    BY <2>1, <2>2
<1>9. ASSUME NEW p \in Panes, ReaderSendWake(p) PROVE SwapIsInOrder'
  BY <1>9 DEF ReaderSendWake, GoTo, LeavePush
<1>10. ASSUME NEW p \in Panes, ReaderUnregister(p) PROVE SwapIsInOrder'
  BY <1>10 DEF ReaderUnregister, GoTo, LeavePush
<1>11. ASSUME NEW p \in Panes, ReaderPublishExit(p) PROVE SwapIsInOrder'
  BY <1>11 DEF ReaderPublishExit, GoTo, LeavePush
<1>12. ASSUME NEW p \in Panes, ReaderRead(p) PROVE SwapIsInOrder'
  BY <1>12 DEF ReaderRead, GoTo, LeavePush
<1>13. ASSUME NEW p \in Panes, ReaderTerminalEnd(p) PROVE SwapIsInOrder'
  BY <1>13 DEF ReaderTerminalEnd, GoTo, LeavePush
<1>14. ASSUME NEW p \in Panes, ChildEnds(p) PROVE SwapIsInOrder'
  BY <1>14 DEF ChildEnds
<1>15. ASSUME NEW p \in Panes, KillRemovedPane(p) PROVE SwapIsInOrder'
  BY <1>15 DEF KillRemovedPane
<1>16. CASE DispatchEvent
  BY <1>16 DEF DispatchEvent
<1>17. CASE DispatchDrained
  BY <1>17 DEF DispatchDrained, AfterDrain, DrainPcs
<1>18. CASE DispatchUnregister
  BY <1>18 DEF DispatchUnregister, DispatcherAt
<1>19. CASE DispatchWake
  BY <1>19 DEF DispatchWake, DispatcherAt
<1>20. CASE DispatchTurn
  BY <1>20 DEF DispatchTurn, DispatcherAt
<1>21. CASE DispatchPassEnd
  BY <1>21 DEF DispatchPassEnd, DispatcherAt
<1>22. CASE PauseReaders
  BY <1>22 DEF PauseReaders, DispatcherAt
<1>23. CASE ServeHeldTurn
  BY <1>23 DEF ServeHeldTurn, DispatcherAt
<1>24. CASE RequeueHeld
  BY <1>24 DEF RequeueHeld, DispatcherAt
<1>25. CASE HeldServed
  BY <1>25 DEF HeldServed, DispatcherAt
<1>26. CASE AwaitParked
  BY <1>26 DEF AwaitParked, DispatcherAt
<1>27. CASE DispatchTimeout
  BY <1>27 DEF DispatchTimeout, DispatcherAt
<1>28. CASE HeldMore
  BY <1>28 DEF HeldMore, DispatcherAt
<1>29. CASE AbandonSwap
  BY <1>29 DEF AbandonSwap, DispatcherAt
<1>30. CASE ResumeReaders
  BY <1>30 DEF ResumeReaders, DispatcherAt
<1>31. CASE RebuildServer
  BY <1>31 DEF RebuildServer, DispatcherAt
<1>32. CASE ExecImage
  BY <1>32 DEF ExecImage, DispatcherAt
<1>33. CASE KillAllPanes
  BY <1>33 DEF KillAllPanes, DispatcherAt
<1>34. CASE DropServer
  BY <1>34 DEF DropServer, DispatcherAt
<1>35. ASSUME NEW e \in RuntimeEvents, e.kind # "readable", Request(e) PROVE SwapIsInOrder'
  BY <1>35 DEF Request
<1>36. CASE UNCHANGED vars
  BY <1>36
<1>37. QED
  BY <1>1, <1>2, <1>3, <1>4, <1>5, <1>6, <1>7, <1>8, <1>9, <1>10, <1>11, <1>12, <1>13,
     <1>14, <1>15, <1>16, <1>17, <1>18, <1>19, <1>20, <1>21, <1>22, <1>23, <1>24,
     <1>25, <1>26, <1>27, <1>28, <1>29, <1>30, <1>31, <1>32, <1>33, <1>34, <1>35,
     <1>36, StepCases, Zenon

\* x is somewhere in the sequence.
Has(seq, x) == \E i \in DOMAIN seq : seq[i] = x

\* What is in a sequence with one more element.
LEMMA AppendHas ==
  ASSUME NEW S, NEW seq \in Seq(S), NEW x \in S, NEW y
  PROVE  Has(Append(seq, x), y) <=> Has(seq, y) \/ y = x
<1>1. /\ Len(seq) \in Nat /\ DOMAIN seq = 1 .. Len(seq)
      /\ DOMAIN Append(seq, x) = 1 .. Len(seq) + 1 /\ Append(seq, x)[Len(seq) + 1] = x
      /\ \A i \in 1 .. Len(seq) : Append(seq, x)[i] = seq[i]
  OBVIOUS
<1> DEFINE t == Append(seq, x)
<1>2. /\ Len(seq) + 1 \in DOMAIN t /\ DOMAIN seq \subseteq DOMAIN t
      /\ \A i \in DOMAIN t : i = Len(seq) + 1 \/ i \in DOMAIN seq
  BY <1>1
<1> HIDE DEF t
<1>3. QED
  BY <1>1, <1>2 DEF Has, t

\* What is in a sequence without its first element.
LEMMA TailHas ==
  ASSUME NEW S, NEW seq \in Seq(S), seq # <<>>, NEW y
  PROVE  Has(seq, y) <=> y = Head(seq) \/ Has(Tail(seq), y)
<1>1. /\ Len(seq) \in Nat /\ Len(seq) >= 1 /\ Head(seq) = seq[1] /\ DOMAIN seq = 1 .. Len(seq)
      /\ DOMAIN Tail(seq) = 1 .. Len(seq) - 1
      /\ \A i \in 1 .. Len(seq) - 1 : Tail(seq)[i] = seq[i + 1]
  OBVIOUS
<1> DEFINE t == Tail(seq)
<1> HIDE DEF t
<1>2. ASSUME NEW i \in DOMAIN seq, seq[i] = y PROVE y = Head(seq) \/ Has(t, y)
  <2>1. CASE i = 1
    BY <1>1, <1>2, <2>1
  <2>2. CASE i # 1
    <3>1. i - 1 \in DOMAIN t /\ t[i - 1] = y
      BY <1>1, <1>2, <2>2 DEF t
    <3>2. QED
      BY <3>1 DEF Has
  <2>3. QED
    BY <2>1, <2>2
<1>3. ASSUME NEW i \in DOMAIN t, t[i] = y PROVE Has(seq, y)
  <2>1. i + 1 \in DOMAIN seq /\ seq[i + 1] = y
    BY <1>1, <1>3 DEF t
  <2>2. QED
    BY <2>1 DEF Has
<1>4. Head(seq) = y => Has(seq, y)
  BY <1>1 DEF Has
<1>5. QED
  BY <1>2, <1>3, <1>4 DEF Has, t

\* Two wakes are equal only for one queue.
LEMMA WakeInjective ==
  ASSUME NEW p, NEW s, NEW p2, NEW s2
  PROVE  Wake(p, s) = Wake(p2, s2) => p = p2 /\ s = s2
BY DEF Wake

\* A step that makes no live pane's queue newly held keeps it registered.
LEMMA HeldKept ==
  ASSUME HeldIsRegistered, live' \subseteq live, dispatcherPc' # "gone" => dispatcherPc # "gone",
         \A r \in live', s \in Slots : IsHeld(r, s)' => IsHeld(r, s),
         \A r \in live', s \in Slots :
           registry'[r] = registry[r] /\ (~queue[<<r, s>>].closed => ~queue'[<<r, s>>].closed)
  PROVE  HeldIsRegistered'
<1> SUFFICES ASSUME dispatcherPc' # "gone", NEW r \in live', NEW s \in Slots, IsHeld(r, s)'
             PROVE  registry'[r] = s /\ ~queue'[<<r, s>>].closed
  BY Zenon DEF HeldIsRegistered
<1>1. registry[r] = s /\ ~queue[<<r, s>>].closed
  BY DEF HeldIsRegistered
<1>2. QED
  BY <1>1

\* A turn keeps HeldIsRegistered.
LEMMA ServeHeld ==
  ASSUME TypeOK, HeldIsRegistered, rotation # <<>>, ServeTurn, dispatcherPc # "gone",
         UNCHANGED <<readerPc, readerSlot, inbox, registry>>
  PROVE  HeldIsRegistered'
<1> DEFINE p == Head(rotation)
           k == <<p, heldSlot[p]>>
<1>1. live \subseteq Panes /\ heldSlot \in [Panes -> Slots \cup {NoSlot}]
  BY DEF TypeOK
<1>2. CASE heldSlot[p] = NoSlot
  <2>1. UNCHANGED <<live, heldSlot, queue, closing>>
    BY <1>2, ServeFacts, Zenon
  <2>2. QED
    BY <2>1 DEF HeldIsRegistered, IsHeld
<1>3. CASE heldSlot[p] # NoSlot
  <2>1. /\ p \in Panes /\ k \in Panes \X Slots
        /\ \A j \in Panes \X Slots : j # k => queue'[j] = queue[j]
        /\ \/ /\ live' = live \ {p} /\ heldSlot' = [heldSlot EXCEPT ![p] = NoSlot]
              /\ closing' = k
           \/ queue'[k] = LeftAfterTurn(queue[k]) /\ UNCHANGED <<live, heldSlot, closing>>
    BY <1>3, ServeFacts, Zenon
  <2>2. LeftAfterTurn(queue[k]).closed = queue[k].closed
    BY <2>1, QueuesOfType, LeftOK DEF QueuesOK
  <2>3. CASE queue'[k] = LeftAfterTurn(queue[k]) /\ UNCHANGED <<live, heldSlot, closing>>
    <3>1. \A j \in Panes \X Slots : queue'[j].closed = queue[j].closed
      BY <2>1, <2>2, <2>3
    <3>2. \A r \in live', s \in Slots : IsHeld(r, s)' => IsHeld(r, s)
      BY <2>3 DEF IsHeld, Has
    <3>3. \A r \in live', s \in Slots : queue'[<<r, s>>].closed = queue[<<r, s>>].closed
      BY <1>1, <2>3, <3>1
    <3>4. QED
      BY <2>3, <3>2, <3>3, HeldKept
  <2>4. CASE /\ live' = live \ {p} /\ heldSlot' = [heldSlot EXCEPT ![p] = NoSlot]
             /\ closing' = k
    <3> HIDE DEF p
    <3>1. \A r \in live', s \in Slots :
            closing' # <<r, s>> /\ heldSlot'[r] = heldSlot[r] /\ queue'[<<r, s>>] = queue[<<r, s>>]
      BY <1>1, <2>1, <2>4
    <3>2. \A r \in live', s \in Slots : IsHeld(r, s)' => IsHeld(r, s)
      BY <3>1 DEF IsHeld, Has
    <3>3. QED
      BY <2>4, <3>1, <3>2, HeldKept
  <2>5. QED
    BY <2>1, <2>3, <2>4
<1>4. QED
  BY <1>2, <1>3

\* Every step keeps the queues that are held registered.
LEMMA HeldStep ==
  ASSUME TypeOK, ReaderIsInOrder, ServerIsInOrder, HeldIsRegistered, [Next]_vars
  PROVE  HeldIsRegistered'
<1> USE NoneAssumption DEF StateTypes, readerVars, paneVars, sharedVars, serverVars,
      loopVars, vars
<1> StateTypes
  BY TypeParts
<1>1. ASSUME NEW p \in Panes, ReaderTop(p) PROVE HeldIsRegistered'
  BY <1>1 DEF ReaderTop, HeldIsRegistered, IsHeld, HoldingPcs, GoTo
<1>2. ASSUME NEW p \in Panes, ReaderUnpark(p) PROVE HeldIsRegistered'
  BY <1>2 DEF ReaderUnpark, HeldIsRegistered, IsHeld, HoldingPcs, GoTo
<1>3. ASSUME NEW p \in Panes, ReaderRung(p) PROVE HeldIsRegistered'
  BY <1>3 DEF ReaderRung, HeldIsRegistered, IsHeld, HoldingPcs, GoTo
<1>4. ASSUME NEW p \in Panes, ReaderDrained(p) PROVE HeldIsRegistered'
  BY <1>4 DEF ReaderDrained, HeldIsRegistered, IsHeld, HoldingPcs, GoTo
<1>5. ASSUME NEW p \in Panes, ReaderDeliver(p) PROVE HeldIsRegistered'
  BY <1>5 DEF ReaderDeliver, HeldIsRegistered, IsHeld, HoldingPcs, GoTo
<1>6. ASSUME NEW p \in Panes, ReaderFind(p) PROVE HeldIsRegistered'
  <2>1. /\ UNCHANGED <<inbox, heldSlot, closing, live, dispatcherPc>> /\ readerPc[p] \notin HoldingPcs
        /\ readerPc' \in {[readerPc EXCEPT ![p] = "push"], [readerPc EXCEPT ![p] = "exitPush"]}
    BY <1>6 DEF ReaderFind, GoTo, HoldingPcs
  <2> SUFFICES ASSUME dispatcherPc # "gone", NEW r \in live, NEW s \in Slots, IsHeld(r, s)'
               PROVE  registry'[r] = s /\ ~queue'[<<r, s>>].closed
    BY <2>1, Zenon DEF HeldIsRegistered
  <2>6. r \in Panes
    OBVIOUS
  <2>2. \A t \in Panes, u \in Slots : t # p =>
          /\ readerSlot'[t] = readerSlot[t] /\ registry'[t] = registry[t]
          /\ queue'[<<t, u>>] = queue[<<t, u>>]
    BY <1>6, FindFacts
  <2>3. CASE r # p
    <3>1. IsHeld(r, s)
      <4>1. readerPc'[r] = readerPc[r] /\ readerSlot'[r] = readerSlot[r]
        BY <2>6, <2>1, <2>2, <2>3
      <4>2. QED
        BY <2>1, <4>1 DEF IsHeld, Has
    <3>2. registry'[r] = registry[r] /\ queue'[<<r, s>>] = queue[<<r, s>>]
      BY <2>6, <2>2, <2>3
    <3>3. QED
      BY <3>1, <3>2 DEF HeldIsRegistered
  <2>4. CASE r = p
    <3>1. s = readerSlot'[p] \/ IsHeld(p, s)
      BY <2>1, <2>4 DEF IsHeld, Has
    <3>2. CASE /\ registry[p] \in Slots /\ IsHeld(p, registry[p])
               /\ readerSlot' = [readerSlot EXCEPT ![p] = registry[p]]
               /\ UNCHANGED <<queue, registry>>
      <4>1. registry[p] = s /\ ~queue[<<p, s>>].closed
        BY <2>4, <3>1, <3>2 DEF HeldIsRegistered
      <4>2. QED
        BY <2>4, <3>2, <4>1
    <3>3. CASE /\ registry[p] = NoSlot \/ ~IsHeld(p, registry[p])
               /\ \E t \in Slots :
                    /\ ~IsHeld(p, t)
                    /\ readerSlot' = [readerSlot EXCEPT ![p] = t]
                    /\ registry' = [registry EXCEPT ![p] = t]
                    /\ queue'[<<p, t>>] = EmptyQueue
      <4>1. ~IsHeld(p, s)
        BY <2>4, <3>3 DEF HeldIsRegistered
      <4>2. registry'[p] = s /\ queue'[<<p, s>>] = EmptyQueue
        BY <3>1, <3>3, <4>1, ZenonT(60)
      <4>3. ~EmptyQueue.closed
        BY DEF EmptyQueue
      <4>4. QED
        BY <2>4, <4>2, <4>3
    <3>4. QED
      BY <1>6, FindFacts, <3>2, <3>3, Zenon
  <2>5. QED
    BY <2>3, <2>4
<1>7. ASSUME NEW p \in Panes, ReaderPush(p) PROVE HeldIsRegistered'
  <2>1. UNCHANGED <<inbox, heldSlot, closing, live, dispatcherPc, registry>> /\ readerPc[p] = "push"
    BY <1>7 DEF ReaderPush
  <2>2. /\ \A j \in Panes \X Slots : queue'[j].closed = queue[j].closed
        /\ \/ readerPc' \in {[readerPc EXCEPT ![p] = "end"], [readerPc EXCEPT ![p] = "top"]}
             /\ readerSlot' = [readerSlot EXCEPT ![p] = NoSlot]
           \/ readerPc' = [readerPc EXCEPT ![p] = "wake"] /\ UNCHANGED readerSlot
    BY <1>7, PushFacts
  <2>3. \A r \in Panes, s \in Slots :
          readerPc'[r] \in HoldingPcs /\ readerSlot'[r] = s =>
            readerPc[r] \in HoldingPcs /\ readerSlot[r] = s
    BY <2>1, <2>2 DEF HoldingPcs
  <2>4. \A r \in live', s \in Slots : IsHeld(r, s)' => IsHeld(r, s)
    BY <2>1, <2>3 DEF IsHeld
  <2>5. \A r \in live', s \in Slots :
          registry'[r] = registry[r] /\ (~queue[<<r, s>>].closed => ~queue'[<<r, s>>].closed)
    BY <2>1, <2>2
  <2>6. QED
    BY <2>1, <2>4, <2>5, HeldKept
<1>8. ASSUME NEW p \in Panes, ReaderPushExit(p) PROVE HeldIsRegistered'
  <2>1. UNCHANGED <<inbox, heldSlot, closing, live, dispatcherPc, registry>> /\ readerPc[p] = "exitPush"
    BY <1>8 DEF ReaderPushExit
  <2>2. /\ \A j \in Panes \X Slots : queue'[j].closed = queue[j].closed
        /\ \/ readerPc' = [readerPc EXCEPT ![p] = "done"]
             /\ readerSlot' = [readerSlot EXCEPT ![p] = NoSlot]
           \/ readerPc' = [readerPc EXCEPT ![p] = "exitWake"] /\ UNCHANGED readerSlot
    BY <1>8, PushExitFacts
  <2>3. \A r \in Panes, s \in Slots :
          readerPc'[r] \in HoldingPcs /\ readerSlot'[r] = s =>
            readerPc[r] \in HoldingPcs /\ readerSlot[r] = s
    BY <2>1, <2>2 DEF HoldingPcs
  <2>4. \A r \in live', s \in Slots : IsHeld(r, s)' => IsHeld(r, s)
    BY <2>1, <2>3 DEF IsHeld
  <2>5. \A r \in live', s \in Slots :
          registry'[r] = registry[r] /\ (~queue[<<r, s>>].closed => ~queue'[<<r, s>>].closed)
    BY <2>1, <2>2
  <2>6. QED
    BY <2>1, <2>4, <2>5, HeldKept
<1>9. ASSUME NEW p \in Panes, ReaderSendWake(p) PROVE HeldIsRegistered'
  <2>1. CASE dispatcherPc = "gone"
    BY <1>9, <2>1 DEF ReaderSendWake, HeldIsRegistered
  <2>2. CASE dispatcherPc # "gone"
    <3>1. /\ UNCHANGED <<heldSlot, closing, live, dispatcherPc, registry>>
          /\ readerPc[p] \in HoldingPcs /\ readerSlot[p] \in Slots
      BY <1>9 DEF ReaderSendWake, HoldingPcs, ReaderIsInOrder
    <3>2. /\ UNCHANGED queue /\ inbox' = Append(inbox, Wake(p, readerSlot[p]))
          /\ readerSlot' = [readerSlot EXCEPT ![p] = NoSlot]
          /\ readerPc' \in {[readerPc EXCEPT ![p] = "top"], [readerPc EXCEPT ![p] = "done"]}
      BY <1>9, <2>2, SendWakeFacts
    <3>3. \A r \in live, s \in Slots : Has(inbox', Wake(r, s)) => IsHeld(r, s)
      <4> TAKE r \in live, s \in Slots
      <4>1. Wake(p, readerSlot[p]) \in RuntimeEvents
        BY <3>1, WakeIsEvent
      <4>2. Has(inbox', Wake(r, s)) => Has(inbox, Wake(r, s)) \/ Wake(r, s) = Wake(p, readerSlot[p])
        BY <3>2, <4>1, AppendHas
      <4>3. QED
        BY <3>1, <4>2, WakeInjective DEF IsHeld, Has
    <3>4. \A r \in live', s \in Slots : IsHeld(r, s)' => IsHeld(r, s)
      <4> TAKE r \in live', s \in Slots
      <4>1. r \in live
        BY <3>1
      <4>2. readerPc'[r] \in HoldingPcs /\ readerSlot'[r] = s =>
              readerPc[r] \in HoldingPcs /\ readerSlot[r] = s
        BY <3>1, <3>2, <4>1 DEF HoldingPcs
      <4>3. Has(inbox', Wake(r, s)) => IsHeld(r, s)
        BY <3>3, <4>1
      <4>4. QED
        BY <3>1, <4>2, <4>3 DEF IsHeld, Has
    <3>5. QED
      BY <3>1, <3>2, <3>4, HeldKept
  <2>3. QED
    BY <2>1, <2>2
<1>10. ASSUME NEW p \in Panes, ReaderUnregister(p) PROVE HeldIsRegistered'
  BY <1>10 DEF ReaderUnregister, ReaderIsInOrder, HeldIsRegistered
<1>11. ASSUME NEW p \in Panes, ReaderPublishExit(p) PROVE HeldIsRegistered'
  BY <1>11 DEF ReaderPublishExit, HeldIsRegistered, IsHeld, HoldingPcs, GoTo
<1>12. ASSUME NEW p \in Panes, ReaderRead(p) PROVE HeldIsRegistered'
  BY <1>12 DEF ReaderRead, HeldIsRegistered, IsHeld, HoldingPcs, GoTo
<1>13. ASSUME NEW p \in Panes, ReaderTerminalEnd(p) PROVE HeldIsRegistered'
  BY <1>13 DEF ReaderTerminalEnd, HeldIsRegistered, IsHeld, HoldingPcs, GoTo
<1>14. ASSUME NEW p \in Panes, ChildEnds(p) PROVE HeldIsRegistered'
  BY <1>14 DEF ChildEnds, HeldIsRegistered, IsHeld, HoldingPcs
<1>15. ASSUME NEW p \in Panes, KillRemovedPane(p) PROVE HeldIsRegistered'
  BY <1>15 DEF KillRemovedPane, HeldIsRegistered, IsHeld, HoldingPcs
<1>16. CASE DispatchEvent
  <2>1. UNCHANGED <<readerPc, readerSlot, registry, dispatcherPc>> /\ inbox # <<>>
    BY <1>16 DEF DispatchEvent
  <2>2. PICK e \in RuntimeEvents :
          /\ e = Head(inbox) /\ inbox' = Tail(inbox)
          /\ \/ /\ e.pane \in live /\ e.slot \in Slots /\ e = Wake(e.pane, e.slot)
                /\ heldSlot' = [heldSlot EXCEPT ![e.pane] = e.slot]
                /\ UNCHANGED <<live, queue, closing>>
             \/ /\ e.pane \in Panes \ live /\ closing' = <<e.pane, e.slot>>
                /\ \A j \in Panes \X Slots : j # closing' => queue'[j] = queue[j]
                /\ UNCHANGED <<live, heldSlot>>
             \/ e.pane \in live /\ RemovePane(e.pane, queue)
             \/ UNCHANGED <<live, heldSlot, queue, closing>>
    BY <1>16, HandleFacts, Zenon
  <2>3. \A r, s : Has(inbox', Wake(r, s)) => Has(inbox, Wake(r, s))
    BY <2>1, <2>2, TailHas
  <2>4. CASE /\ e.pane \in live /\ e.slot \in Slots /\ e = Wake(e.pane, e.slot)
             /\ heldSlot' = [heldSlot EXCEPT ![e.pane] = e.slot]
             /\ UNCHANGED <<live, queue, closing>>
    <3>1. Has(inbox, Wake(e.pane, e.slot))
      BY <2>1, <2>2, <2>4, TailHas
    <3>2. \A r \in live', s \in Slots : IsHeld(r, s)' => IsHeld(r, s)
      <4> TAKE r \in live', s \in Slots
      <4>1. r \in Panes /\ e.pane \in Panes
        BY <2>4
      <4>2. heldSlot'[r] = s => heldSlot[r] = s \/ (r = e.pane /\ s = e.slot)
        BY <2>4, <4>1
      <4>3. QED
        BY <2>1, <2>3, <2>4, <3>1, <4>2 DEF IsHeld, Has
    <3>3. QED
      BY <2>1, <2>4, <3>2, HeldKept
  <2>5. CASE /\ e.pane \in Panes \ live /\ closing' = <<e.pane, e.slot>>
             /\ \A j \in Panes \X Slots : j # closing' => queue'[j] = queue[j]
             /\ UNCHANGED <<live, heldSlot>>
    <3>1. \A r \in live', s \in Slots : closing' # <<r, s>> /\ queue'[<<r, s>>] = queue[<<r, s>>]
      BY <2>5
    <3>2. \A r \in live', s \in Slots : IsHeld(r, s)' => IsHeld(r, s)
      <4> TAKE r \in live', s \in Slots
      <4>1. closing' # <<r, s>> /\ heldSlot' = heldSlot
        BY <2>5, <3>1
      <4>2. QED
        BY <2>1, <2>3, <4>1 DEF IsHeld, Has
    <3>3. QED
      BY <2>1, <2>5, <3>1, <3>2, HeldKept
  <2>6. CASE e.pane \in live /\ RemovePane(e.pane, queue)
    <3>1. /\ e.pane \in Panes /\ live' = live \ {e.pane}
          /\ heldSlot' = [heldSlot EXCEPT ![e.pane] = NoSlot]
          /\ closing' = NoQueue \/ closing' = <<e.pane, heldSlot[e.pane]>>
      BY <2>6 DEF RemovePane
    <3>2. \A r \in live', s \in Slots : queue'[<<r, s>>] = queue[<<r, s>>]
      <4>1. \A r \in Panes, s \in Slots : r # e.pane => queue'[<<r, s>>] = queue[<<r, s>>]
        BY <2>6, <3>1, RemoveFacts
      <4>2. QED
        BY <3>1, <4>1
    <3>3. \A r \in live', s \in Slots : closing' # <<r, s>> /\ heldSlot'[r] = heldSlot[r]
      BY <3>1 DEF NoQueue
    <3>4. \A r \in live', s \in Slots : IsHeld(r, s)' => IsHeld(r, s)
      BY <2>1, <2>3, <3>3 DEF IsHeld, Has
    <3>5. QED
      BY <2>1, <3>1, <3>2, <3>4, HeldKept
  <2>7. CASE UNCHANGED <<live, heldSlot, queue, closing>>
    <3>1. \A r \in live', s \in Slots : IsHeld(r, s)' => IsHeld(r, s)
      BY <2>1, <2>3, <2>7 DEF IsHeld, Has
    <3>2. QED
      BY <2>1, <2>7, <3>1, HeldKept
  <2>8. QED
    BY <2>2, <2>4, <2>5, <2>6, <2>7
<1>17. CASE DispatchDrained
  BY <1>17 DEF DispatchDrained, HeldIsRegistered, IsHeld, DrainPcs
<1>18. CASE DispatchUnregister
  <2>1. /\ closing # NoQueue /\ closing' = NoQueue
        /\ UNCHANGED <<readerPc, readerSlot, inbox, heldSlot, live, queue, dispatcherPc>>
    BY <1>18 DEF DispatchUnregister
  <2>2. closing \in Panes \X Slots /\ closing[1] \notin live
    BY <2>1 DEF ServerIsInOrder
  <2>3. \A r \in live : registry'[r] = registry[r]
    BY <1>18, <2>2 DEF DispatchUnregister, Unregister
  <2>4. \A r \in live', s \in Slots : IsHeld(r, s)' => IsHeld(r, s)
    BY <2>1 DEF NoQueue, IsHeld, Has
  <2>5. QED
    BY <2>1, <2>3, <2>4, HeldKept
<1>19. CASE DispatchWake
  BY <1>19 DEF DispatchWake, HeldIsRegistered, IsHeld, HoldingPcs, DispatcherAt
<1>20. CASE DispatchTurn
  <2>1. CASE rotation = <<>>
    BY <1>20, <2>1 DEF DispatchTurn, DispatcherAt, HeldIsRegistered, IsHeld
  <2>2. CASE rotation # <<>>
    <3>1. /\ ServeTurn /\ dispatcherPc # "gone"
          /\ UNCHANGED <<readerPc, readerSlot, inbox, registry>>
      BY <1>20, <2>2 DEF DispatchTurn, DispatcherAt
    <3>2. QED
      BY <2>2, <3>1, ServeHeld
  <2>3. QED
    BY <2>1, <2>2
<1>21. CASE DispatchPassEnd
  BY <1>21 DEF DispatchPassEnd, HeldIsRegistered, IsHeld, HoldingPcs, DispatcherAt
<1>22. CASE PauseReaders
  BY <1>22 DEF PauseReaders, HeldIsRegistered, IsHeld, HoldingPcs, DispatcherAt
<1>23. CASE ServeHeldTurn
  <2>1. /\ rotation # <<>> /\ ServeTurn /\ dispatcherPc # "gone"
        /\ UNCHANGED <<readerPc, readerSlot, inbox, registry>>
    BY <1>23 DEF ServeHeldTurn
  <2>2. QED
    BY <2>1, ServeHeld
<1>24. CASE RequeueHeld
  BY <1>24 DEF RequeueHeld, HeldIsRegistered, IsHeld, HoldingPcs
<1>25. CASE HeldServed
  BY <1>25 DEF HeldServed, HeldIsRegistered, IsHeld, HoldingPcs
<1>26. CASE AwaitParked
  BY <1>26 DEF AwaitParked, HeldIsRegistered, IsHeld, HoldingPcs, DispatcherAt
<1>27. CASE DispatchTimeout
  BY <1>27 DEF DispatchTimeout, HeldIsRegistered, IsHeld, HoldingPcs, DispatcherAt
<1>28. CASE HeldMore
  BY <1>28 DEF HeldMore, HeldIsRegistered, IsHeld, HoldingPcs, DispatcherAt
<1>29. CASE AbandonSwap
  BY <1>29 DEF AbandonSwap, HeldIsRegistered, IsHeld, HoldingPcs, DispatcherAt
<1>30. CASE ResumeReaders
  BY <1>30 DEF ResumeReaders, HeldIsRegistered, IsHeld, HoldingPcs, DispatcherAt
<1>31. CASE RebuildServer
  BY <1>31 DEF RebuildServer, HeldIsRegistered, IsHeld, DispatcherAt
<1>32. CASE ExecImage
  <2>1. \A r \in live', s \in Slots : ~IsHeld(r, s)'
    BY <1>32 DEF ExecImage, IsHeld, DispatcherAt, HoldingPcs, NoQueue
  <2>2. QED
    BY <2>1 DEF HeldIsRegistered
<1>33. CASE KillAllPanes
  BY <1>33 DEF KillAllPanes, HeldIsRegistered, IsHeld, HoldingPcs
<1>34. CASE DropServer
  BY <1>34 DEF DropServer, HeldIsRegistered
<1>35. ASSUME NEW e \in RuntimeEvents, e.kind # "readable", Request(e) PROVE HeldIsRegistered'
  <2>1. /\ UNCHANGED <<readerPc, readerSlot, heldSlot, closing, live, dispatcherPc, registry, queue>>
        /\ inbox' = Append(inbox, e)
    BY <1>35 DEF Request
  <2>2. \A r, s : e # Wake(r, s)
    BY <1>35 DEF Wake
  <2>3. \A r, s : Has(inbox', Wake(r, s)) => Has(inbox, Wake(r, s))
    BY <2>1, <2>2, AppendHas
  <2>4. \A r \in live', s \in Slots : IsHeld(r, s)' => IsHeld(r, s)
    BY <2>1, <2>3 DEF IsHeld, Has
  <2>5. QED
    BY <2>1, <2>4, HeldKept
<1>36. CASE UNCHANGED vars
  BY <1>36 DEF HeldIsRegistered, IsHeld
<1>37. QED
  BY <1>1, <1>2, <1>3, <1>4, <1>5, <1>6, <1>7, <1>8, <1>9, <1>10, <1>11, <1>12, <1>13,
     <1>14, <1>15, <1>16, <1>17, <1>18, <1>19, <1>20, <1>21, <1>22, <1>23, <1>24,
     <1>25, <1>26, <1>27, <1>28, <1>29, <1>30, <1>31, <1>32, <1>33, <1>34, <1>35,
     <1>36, StepCases, Zenon

\* What NoLostWake says of one queue.
WakeSeen(p, s) ==
  /\ queue[<<p, s>>].chunks # <<>> \/ queue[<<p, s>>].exit => queue[<<p, s>>].wakeSent
  /\ queue[<<p, s>>].wakeSent => IsWakeOnItsWay(p, s)

\* A step that loses no live pane's wake.
LEMMA WakeKept ==
  ASSUME NoLostWake, live' \subseteq live, dispatcherPc' \notin EndPcs => dispatcherPc \notin EndPcs,
         dispatcherPc' \notin EndPcs =>
           \A r \in live', s \in Slots : WakeSeen(r, s) => WakeSeen(r, s)'
  PROVE  NoLostWake'
<1> SUFFICES ASSUME dispatcherPc' \notin EndPcs, NEW r \in live', NEW s \in Slots
             PROVE  WakeSeen(r, s)'
  BY Zenon DEF NoLostWake, WakeSeen
<1>1. r \in live
  OBVIOUS
<1>2. WakeSeen(r, s)
  BY <1>1, Zenon DEF NoLostWake, WakeSeen
<1>3. QED
  BY <1>2

\* The same, of a step that leaves the queue alone.
LEMMA WakeStays ==
  ASSUME NEW r, NEW s, queue'[<<r, s>>] = queue[<<r, s>>],
         IsWakeOnItsWay(r, s) => IsWakeOnItsWay(r, s)', WakeSeen(r, s)
  PROVE  WakeSeen(r, s)'
BY Zenon DEF WakeSeen

\* A step that touches nothing a wake depends on.
LEMMA WakeIdle ==
  ASSUME NoLostWake, UNCHANGED <<readerSlot, inbox, heldSlot, rotation, servedPane, live, queue>>,
         dispatcherPc' \notin EndPcs => dispatcherPc \notin EndPcs,
         \A r \in live : readerPc[r] \in {"wake", "exitWake"} => readerPc'[r] = readerPc[r]
  PROVE  NoLostWake'
<1>1. \A r \in live, s \in Slots : IsWakeOnItsWay(r, s) => IsWakeOnItsWay(r, s)'
  BY DEF IsWakeOnItsWay
<1>2. \A r \in live', s \in Slots : WakeSeen(r, s) => WakeSeen(r, s)'
  BY <1>1, WakeStays
<1>3. QED
  BY <1>2, WakeKept

\* A turn loses no wake: it clears the flag only with the queue empty.
LEMMA ServeWake ==
  ASSUME TypeOK, NoLostWake, rotation # <<>>, ServeTurn, servedPane = NoPane,
         UNCHANGED <<readerPc, readerSlot, inbox>>, dispatcherPc \notin EndPcs
  PROVE  NoLostWake'
<1> DEFINE p == Head(rotation)
           k == <<p, heldSlot[p]>>
<1> USE NoneAssumption
<1>1. /\ live \subseteq Panes /\ heldSlot \in [Panes -> Slots \cup {NoSlot}]
      /\ rotation \in Seq(Panes)
  BY DEF TypeOK
<1>2. p \in Panes /\ rotation' = Tail(rotation) /\ live' \subseteq live
  BY ServeFacts, Zenon
<1>3. \A r : Has(rotation, r) => r = p \/ Has(rotation', r)
  BY <1>1, <1>2, TailHas
<1> HIDE DEF p
<1> SUFFICES ASSUME NEW r \in live', NEW s \in Slots, WakeSeen(r, s)
             PROVE  WakeSeen(r, s)'
  BY <1>2, WakeKept
<1>4. r \in Panes
  BY <1>1, <1>2
<1>5. CASE heldSlot[p] = NoSlot
  <2>1. UNCHANGED <<heldSlot, queue>>
    BY <1>5, ServeFacts, Zenon DEF p
  <2>2. IsWakeOnItsWay(r, s) => IsWakeOnItsWay(r, s)'
    BY <1>3, <1>4, <1>5, <2>1 DEF IsWakeOnItsWay, Has
  <2>3. QED
    BY <2>1, <2>2, WakeStays
<1>6. CASE heldSlot[p] # NoSlot
  <2> DEFINE left == LeftAfterTurn(queue[k])
  <2>1. /\ k \in Panes \X Slots
        /\ servedPane' = IF left.chunks # <<>> THEN p ELSE NoPane
        /\ \A j \in Panes \X Slots : j # k => queue'[j] = queue[j]
        /\ \/ live' = live \ {p} /\ heldSlot' = [heldSlot EXCEPT ![p] = NoSlot]
           \/ queue'[k] = left /\ UNCHANGED heldSlot
    BY <1>6, ServeFacts, Zenon DEF p
  <2>2. heldSlot'[r] = heldSlot[r]
    BY <1>1, <1>4, <2>1
  <2>3. CASE <<r, s>> # k
    <3>1. heldSlot[r] = s => r # p
      BY <2>3
    <3>2. IsWakeOnItsWay(r, s) => IsWakeOnItsWay(r, s)'
      BY <1>3, <1>4, <2>2, <3>1 DEF IsWakeOnItsWay, Has
    <3>3. queue'[<<r, s>>] = queue[<<r, s>>]
      BY <1>4, <2>1, <2>3
    <3>4. QED
      BY <3>2, <3>3, WakeStays
  <2>4. CASE <<r, s>> = k
    <3>1. r = p /\ s = heldSlot[p]
      BY <2>4
    <3>2. queue'[k] = left
      BY <2>1, <3>1
    <3>3. /\ left.exit <=> queue[k].exit /\ left.chunks # <<>>
          /\ left.wakeSent <=> queue[k].wakeSent /\ left.chunks # <<>>
          /\ left.chunks = SubSeq(queue[k].chunks, TakeCount(queue[k].chunks) + 1, Len(queue[k].chunks))
          /\ queue[k].chunks \in Seq(Chunk)
      BY <2>1, QueuesOfType, LeftOK DEF QueuesOK, QueueOK, QueueState
    <3>4. left.chunks # <<>> => queue[k].chunks # <<>>
      BY <3>3
    <3>5. left.chunks # <<>> => IsWakeOnItsWay(r, s)'
      BY <2>1, <2>2, <3>1 DEF IsWakeOnItsWay
    <3> HIDE DEF k, left
    <3>6. QED
      BY <2>4, <3>2, <3>3, <3>4, <3>5, Zenon DEF WakeSeen
  <2>5. QED
    BY <2>3, <2>4
<1>7. QED
  BY <1>5, <1>6

\* No step loses a wake.
LEMMA WakeStep ==
  ASSUME TypeOK, ReaderIsInOrder, ServerIsInOrder, HeldIsRegistered, NoLostWake, [Next]_vars
  PROVE  NoLostWake'
<1> USE NoneAssumption DEF StateTypes, readerVars, paneVars, sharedVars, serverVars,
      loopVars, vars
<1> StateTypes
  BY TypeParts
<1>1. ASSUME NEW p \in Panes, ReaderTop(p) PROVE NoLostWake'
  <2>1. /\ UNCHANGED <<readerSlot, inbox, heldSlot, rotation, servedPane, live, queue>>
        /\ dispatcherPc' \notin EndPcs => dispatcherPc \notin EndPcs
        /\ \A r \in live : readerPc[r] \in {"wake", "exitWake"} => readerPc'[r] = readerPc[r]
    BY <1>1 DEF ReaderTop, GoTo
  <2>2. QED
    BY <2>1, WakeIdle
<1>2. ASSUME NEW p \in Panes, ReaderUnpark(p) PROVE NoLostWake'
  <2>1. /\ UNCHANGED <<readerSlot, inbox, heldSlot, rotation, servedPane, live, queue>>
        /\ dispatcherPc' \notin EndPcs => dispatcherPc \notin EndPcs
        /\ \A r \in live : readerPc[r] \in {"wake", "exitWake"} => readerPc'[r] = readerPc[r]
    BY <1>2 DEF ReaderUnpark, GoTo
  <2>2. QED
    BY <2>1, WakeIdle
<1>3. ASSUME NEW p \in Panes, ReaderRung(p) PROVE NoLostWake'
  <2>1. /\ UNCHANGED <<readerSlot, inbox, heldSlot, rotation, servedPane, live, queue>>
        /\ dispatcherPc' \notin EndPcs => dispatcherPc \notin EndPcs
        /\ \A r \in live : readerPc[r] \in {"wake", "exitWake"} => readerPc'[r] = readerPc[r]
    BY <1>3 DEF ReaderRung, GoTo
  <2>2. QED
    BY <2>1, WakeIdle
<1>4. ASSUME NEW p \in Panes, ReaderDrained(p) PROVE NoLostWake'
  <2>1. /\ UNCHANGED <<readerSlot, inbox, heldSlot, rotation, servedPane, live, queue>>
        /\ dispatcherPc' \notin EndPcs => dispatcherPc \notin EndPcs
        /\ \A r \in live : readerPc[r] \in {"wake", "exitWake"} => readerPc'[r] = readerPc[r]
    BY <1>4 DEF ReaderDrained, GoTo
  <2>2. QED
    BY <2>1, WakeIdle
<1>5. ASSUME NEW p \in Panes, ReaderDeliver(p) PROVE NoLostWake'
  <2>1. /\ UNCHANGED <<readerSlot, inbox, heldSlot, rotation, servedPane, live, queue>>
        /\ dispatcherPc' \notin EndPcs => dispatcherPc \notin EndPcs
        /\ \A r \in live : readerPc[r] \in {"wake", "exitWake"} => readerPc'[r] = readerPc[r]
    BY <1>5 DEF ReaderDeliver, GoTo
  <2>2. QED
    BY <2>1, WakeIdle
<1>6. ASSUME NEW p \in Panes, ReaderFind(p) PROVE NoLostWake'
  <2>1. /\ UNCHANGED <<inbox, heldSlot, rotation, servedPane, live, dispatcherPc>>
        /\ readerPc[p] \notin {"wake", "exitWake"}
        /\ \A r \in Panes : r # p => readerPc'[r] = readerPc[r]
    BY <1>6 DEF ReaderFind, GoTo
  <2>2. \A r \in Panes, t \in Slots : r # p =>
          readerSlot'[r] = readerSlot[r] /\ queue'[<<r, t>>] = queue[<<r, t>>]
    BY <1>6, FindFacts
  <2>3. \A r \in live, s \in Slots : IsWakeOnItsWay(r, s) => IsWakeOnItsWay(r, s)'
    BY <2>1, <2>2 DEF IsWakeOnItsWay
  <2>4. \A s \in Slots : queue'[<<p, s>>] = queue[<<p, s>>] \/ queue'[<<p, s>>] = EmptyQueue
    <3>1. CASE UNCHANGED queue
      BY <3>1
    <3>2. CASE \E t \in Slots :
                 /\ queue'[<<p, t>>] = EmptyQueue
                 /\ \A j \in Panes \X Slots : j # <<p, t>> => queue'[j] = queue[j]
      BY <3>2
    <3>3. QED
      BY <1>6, FindFacts, <3>1, <3>2
  <2>5. ASSUME NEW r \in live', NEW s \in Slots, WakeSeen(r, s) PROVE WakeSeen(r, s)'
    <3>1. CASE queue'[<<r, s>>] = queue[<<r, s>>]
      BY <2>1, <2>3, <2>5, <3>1, WakeStays
    <3>2. CASE queue'[<<r, s>>] = EmptyQueue
      <4>1. EmptyQueue.chunks = <<>> /\ ~EmptyQueue.exit /\ ~EmptyQueue.wakeSent
        BY DEF EmptyQueue
      <4>2. QED
        BY <3>2, <4>1, Zenon DEF WakeSeen
    <3>3. QED
      BY <2>1, <2>2, <2>4, <3>1, <3>2
  <2>6. QED
    BY <2>1, <2>5, WakeKept
<1>7. ASSUME NEW p \in Panes, ReaderPush(p) PROVE NoLostWake'
  <2>1. UNCHANGED <<inbox, heldSlot, rotation, servedPane, live, dispatcherPc>> /\ readerPc[p] = "push"
    BY <1>7 DEF ReaderPush
  <2> DEFINE k == <<p, readerSlot[p]>>
  <2>2. /\ k \in Panes \X Slots
        /\ \A j \in Panes \X Slots : j # k => queue'[j] = queue[j]
        /\ \A r \in Panes : r # p => readerPc'[r] = readerPc[r] /\ readerSlot'[r] = readerSlot[r]
    BY <1>7, PushFacts, Zenon
  <2>3. ASSUME NEW r \in live', NEW s \in Slots, WakeSeen(r, s), <<r, s>> # k PROVE WakeSeen(r, s)'
    <3>1. queue'[<<r, s>>] = queue[<<r, s>>] /\ r \in Panes
      BY <2>1, <2>2, <2>3
    <3>2. IsWakeOnItsWay(r, s) => IsWakeOnItsWay(r, s)'
      <4>1. ~(readerPc[r] \in {"wake", "exitWake"} /\ r = p)
        BY <2>1
      <4>2. r # p => readerPc'[r] = readerPc[r] /\ readerSlot'[r] = readerSlot[r]
        BY <2>2, <3>1
      <4>3. QED
        BY <2>1, <4>1, <4>2 DEF IsWakeOnItsWay
    <3>3. QED
      BY <2>3, <3>1, <3>2, WakeStays
  <2>4. ASSUME NEW r \in live', NEW s \in Slots, WakeSeen(r, s), <<r, s>> = k PROVE WakeSeen(r, s)'
    <3>1. r = p /\ s = readerSlot[p]
      BY <2>4
    <3>2. IsWakeOnItsWay(r, s) => IsWakeOnItsWay(r, s)'
      BY <2>1, <3>1 DEF IsWakeOnItsWay
    <3>3. CASE UNCHANGED queue
      BY <2>4, <3>2, <3>3, WakeStays
    <3>4. CASE /\ queue'[k].wakeSent
               /\ \/ queue[k].wakeSent
                  \/ readerPc' = [readerPc EXCEPT ![p] = "wake"] /\ UNCHANGED readerSlot
      <4>1. IsWakeOnItsWay(r, s)'
        <5>1. CASE queue[k].wakeSent
          BY <2>4, <3>2, <5>1, Zenon DEF WakeSeen
        <5>2. CASE readerPc' = [readerPc EXCEPT ![p] = "wake"] /\ UNCHANGED readerSlot
          BY <3>1, <5>2 DEF IsWakeOnItsWay
        <5>3. QED
          BY <3>4, <5>1, <5>2
      <4>2. QED
        BY <2>4, <3>4, <4>1, Zenon DEF WakeSeen
    <3>5. QED
      BY <1>7, <3>3, <3>4, PushFacts
  <2>5. QED
    BY <2>1, <2>3, <2>4, WakeKept
<1>8. ASSUME NEW p \in Panes, ReaderPushExit(p) PROVE NoLostWake'
  <2>1. UNCHANGED <<inbox, heldSlot, rotation, servedPane, live, dispatcherPc>> /\ readerPc[p] = "exitPush"
    BY <1>8 DEF ReaderPushExit
  <2> DEFINE k == <<p, readerSlot[p]>>
  <2>2. /\ k \in Panes \X Slots
        /\ \A j \in Panes \X Slots : j # k => queue'[j] = queue[j]
        /\ \A r \in Panes : r # p => readerPc'[r] = readerPc[r] /\ readerSlot'[r] = readerSlot[r]
    BY <1>8, PushExitFacts, Zenon
  <2>3. ASSUME NEW r \in live', NEW s \in Slots, WakeSeen(r, s), <<r, s>> # k PROVE WakeSeen(r, s)'
    <3>1. queue'[<<r, s>>] = queue[<<r, s>>] /\ r \in Panes
      BY <2>1, <2>2, <2>3
    <3>2. IsWakeOnItsWay(r, s) => IsWakeOnItsWay(r, s)'
      <4>1. ~(readerPc[r] \in {"wake", "exitWake"} /\ r = p)
        BY <2>1
      <4>2. r # p => readerPc'[r] = readerPc[r] /\ readerSlot'[r] = readerSlot[r]
        BY <2>2, <3>1
      <4>3. QED
        BY <2>1, <4>1, <4>2 DEF IsWakeOnItsWay
    <3>3. QED
      BY <2>3, <3>1, <3>2, WakeStays
  <2>4. ASSUME NEW r \in live', NEW s \in Slots, WakeSeen(r, s), <<r, s>> = k PROVE WakeSeen(r, s)'
    <3>1. r = p /\ s = readerSlot[p]
      BY <2>4
    <3>2. IsWakeOnItsWay(r, s) => IsWakeOnItsWay(r, s)'
      BY <2>1, <3>1 DEF IsWakeOnItsWay
    <3>3. CASE UNCHANGED queue
      BY <2>4, <3>2, <3>3, WakeStays
    <3>4. CASE /\ queue'[k].wakeSent
               /\ \/ queue[k].wakeSent
                  \/ readerPc' = [readerPc EXCEPT ![p] = "exitWake"] /\ UNCHANGED readerSlot
      <4>1. IsWakeOnItsWay(r, s)'
        <5>1. CASE queue[k].wakeSent
          BY <2>4, <3>2, <5>1, Zenon DEF WakeSeen
        <5>2. CASE readerPc' = [readerPc EXCEPT ![p] = "exitWake"] /\ UNCHANGED readerSlot
          BY <3>1, <5>2 DEF IsWakeOnItsWay
        <5>3. QED
          BY <3>4, <5>1, <5>2
      <4>2. QED
        BY <2>4, <3>4, <4>1, Zenon DEF WakeSeen
    <3>5. QED
      BY <1>8, <3>3, <3>4, PushExitFacts
  <2>5. QED
    BY <2>1, <2>3, <2>4, WakeKept
<1>9. ASSUME NEW p \in Panes, ReaderSendWake(p) PROVE NoLostWake'
  <2>1. CASE dispatcherPc = "gone"
    BY <1>9, <2>1 DEF ReaderSendWake, NoLostWake, EndPcs
  <2>2. CASE dispatcherPc # "gone"
    <3>1. UNCHANGED <<heldSlot, rotation, servedPane, live, dispatcherPc>> /\ readerSlot[p] \in Slots
      BY <1>9 DEF ReaderSendWake, HoldingPcs, ReaderIsInOrder
    <3>2. /\ UNCHANGED queue /\ inbox' = Append(inbox, Wake(p, readerSlot[p]))
          /\ readerSlot' = [readerSlot EXCEPT ![p] = NoSlot]
          /\ readerPc' \in {[readerPc EXCEPT ![p] = "top"], [readerPc EXCEPT ![p] = "done"]}
      BY <1>9, <2>2, SendWakeFacts
    <3>3. Wake(p, readerSlot[p]) \in RuntimeEvents
      BY <3>1, WakeIsEvent
    <3>4. /\ \A r, s : Has(inbox, Wake(r, s)) => Has(inbox', Wake(r, s))
          /\ Has(inbox', Wake(p, readerSlot[p]))
      BY <3>2, <3>3, AppendHas
    <3>5. \A r \in live', s \in Slots : IsWakeOnItsWay(r, s) => IsWakeOnItsWay(r, s)'
      <4> TAKE r \in live', s \in Slots
      <4>1. r \in Panes
        BY <3>1
      <4>2. CASE r = p
        BY <3>1, <3>4, <4>2 DEF IsWakeOnItsWay, Has
      <4>3. CASE r # p
        <5>1. readerPc'[r] = readerPc[r] /\ readerSlot'[r] = readerSlot[r]
          BY <3>2, <4>1, <4>3
        <5>2. QED
          BY <3>1, <3>4, <5>1 DEF IsWakeOnItsWay, Has
      <4>4. QED
        BY <4>2, <4>3
    <3>6. \A r \in live', s \in Slots : WakeSeen(r, s) => WakeSeen(r, s)'
      BY <3>2, <3>5, WakeStays
    <3>7. QED
      BY <3>1, <3>6, WakeKept
  <2>3. QED
    BY <2>1, <2>2
<1>10. ASSUME NEW p \in Panes, ReaderUnregister(p) PROVE NoLostWake'
  BY <1>10 DEF ReaderUnregister, ReaderIsInOrder, NoLostWake, EndPcs
<1>11. ASSUME NEW p \in Panes, ReaderPublishExit(p) PROVE NoLostWake'
  <2>1. /\ UNCHANGED <<readerSlot, inbox, heldSlot, rotation, servedPane, live, queue>>
        /\ dispatcherPc' \notin EndPcs => dispatcherPc \notin EndPcs
        /\ \A r \in live : readerPc[r] \in {"wake", "exitWake"} => readerPc'[r] = readerPc[r]
    BY <1>11 DEF ReaderPublishExit, GoTo
  <2>2. QED
    BY <2>1, WakeIdle
<1>12. ASSUME NEW p \in Panes, ReaderRead(p) PROVE NoLostWake'
  <2>1. /\ UNCHANGED <<readerSlot, inbox, heldSlot, rotation, servedPane, live, queue>>
        /\ dispatcherPc' \notin EndPcs => dispatcherPc \notin EndPcs
        /\ \A r \in live : readerPc[r] \in {"wake", "exitWake"} => readerPc'[r] = readerPc[r]
    BY <1>12 DEF ReaderRead, GoTo
  <2>2. QED
    BY <2>1, WakeIdle
<1>13. ASSUME NEW p \in Panes, ReaderTerminalEnd(p) PROVE NoLostWake'
  <2>1. /\ UNCHANGED <<readerSlot, inbox, heldSlot, rotation, servedPane, live, queue>>
        /\ dispatcherPc' \notin EndPcs => dispatcherPc \notin EndPcs
        /\ \A r \in live : readerPc[r] \in {"wake", "exitWake"} => readerPc'[r] = readerPc[r]
    BY <1>13 DEF ReaderTerminalEnd, GoTo
  <2>2. QED
    BY <2>1, WakeIdle
<1>14. ASSUME NEW p \in Panes, ChildEnds(p) PROVE NoLostWake'
  <2>1. /\ UNCHANGED <<readerSlot, inbox, heldSlot, rotation, servedPane, live, queue>>
        /\ dispatcherPc' \notin EndPcs => dispatcherPc \notin EndPcs
        /\ \A r \in live : readerPc[r] \in {"wake", "exitWake"} => readerPc'[r] = readerPc[r]
    BY <1>14 DEF ChildEnds, EndPcs
  <2>2. QED
    BY <2>1, WakeIdle
<1>15. ASSUME NEW p \in Panes, KillRemovedPane(p) PROVE NoLostWake'
  <2>1. /\ UNCHANGED <<readerSlot, inbox, heldSlot, rotation, servedPane, live, queue>>
        /\ dispatcherPc' \notin EndPcs => dispatcherPc \notin EndPcs
        /\ \A r \in live : readerPc[r] \in {"wake", "exitWake"} => readerPc'[r] = readerPc[r]
    BY <1>15 DEF KillRemovedPane, EndPcs
  <2>2. QED
    BY <2>1, WakeIdle
<1>16. CASE DispatchEvent
  <2>1. /\ UNCHANGED <<readerPc, readerSlot, dispatcherPc, servedPane>> /\ inbox # <<>>
        /\ dispatcherPc # "gone"
    BY <1>16 DEF DispatchEvent, DrainPcs
  <2>2. PICK e \in RuntimeEvents :
          /\ e = Head(inbox) /\ inbox' = Tail(inbox)
          /\ \/ /\ e.pane \in live /\ e.slot \in Slots /\ e = Wake(e.pane, e.slot)
                /\ heldSlot' = [heldSlot EXCEPT ![e.pane] = e.slot]
                /\ rotation' = Append(rotation, e.pane)
                /\ UNCHANGED <<live, queue, closing>>
             \/ /\ e.pane \in Panes \ live /\ e.slot \in Slots /\ e = Wake(e.pane, e.slot)
                /\ closing' = <<e.pane, e.slot>>
                /\ \A j \in Panes \X Slots : j # closing' => queue'[j] = queue[j]
                /\ UNCHANGED <<live, heldSlot, rotation>>
             \/ /\ e.pane \in live /\ e.kind # "readable" /\ RemovePane(e.pane, queue)
                /\ UNCHANGED rotation
             \/ e.kind # "readable" /\ UNCHANGED <<live, heldSlot, rotation, queue, closing>>
    BY <1>16, HandleFacts, Zenon
  <2>3. \A r, s : Has(inbox, Wake(r, s)) => Has(inbox', Wake(r, s)) \/ Wake(r, s) = e
    BY <2>1, <2>2, TailHas
  <2>4. \A r, s : e.kind # "readable" => Wake(r, s) # e
    BY DEF Wake
  <2>5. CASE /\ e.pane \in live /\ e.slot \in Slots /\ e = Wake(e.pane, e.slot)
             /\ heldSlot' = [heldSlot EXCEPT ![e.pane] = e.slot]
             /\ rotation' = Append(rotation, e.pane)
             /\ UNCHANGED <<live, queue, closing>>
    <3>1. Has(inbox, Wake(e.pane, e.slot))
      BY <2>1, <2>2, <2>5, TailHas
    <3>2. IsHeld(e.pane, e.slot)
      BY <3>1 DEF IsHeld, Has
    <3>3. (\A r : Has(rotation, r) => Has(rotation', r)) /\ Has(rotation', e.pane) /\ e.pane \in Panes
      BY <2>5, AppendHas
    <3>4. \A r \in live', s \in Slots : IsWakeOnItsWay(r, s) => IsWakeOnItsWay(r, s)'
      <4> TAKE r \in live', s \in Slots
      <4>1. r \in live /\ r \in Panes
        BY <2>5
      <4>2. CASE r # e.pane
        <5>1. heldSlot'[r] = heldSlot[r] /\ Wake(r, s) # e
          BY <2>5, <4>1, <4>2, WakeInjective
        <5>2. QED
          BY <2>1, <2>3, <3>3, <5>1, ZenonT(60) DEF IsWakeOnItsWay, Has
      <4>3. CASE r = e.pane
        <5>1. heldSlot'[r] = e.slot
          BY <2>5, <4>1, <4>3
        <5>2. CASE s = e.slot
          BY <3>3, <4>3, <5>1, <5>2 DEF IsWakeOnItsWay, Has
        <5>3. CASE s # e.slot
          <6>1. ~IsHeld(r, s)
            BY <2>1, <3>2, <4>1, <4>3, <5>3, <2>5 DEF HeldIsRegistered
          <6>2. heldSlot[r] # s
            BY <6>1 DEF IsHeld
          <6>3. Wake(r, s) # e
            BY <2>5, <5>3, WakeInjective
          <6>4. QED
            BY <2>1, <2>3, <6>2, <6>3 DEF IsWakeOnItsWay, Has
        <5>4. QED
          BY <5>2, <5>3
      <4>4. QED
        BY <4>2, <4>3
    <3>5. \A r \in live', s \in Slots : WakeSeen(r, s) => WakeSeen(r, s)'
      BY <2>5, <3>4, WakeStays
    <3>6. QED
      BY <2>1, <2>5, <3>5, WakeKept
  <2>6. CASE /\ e.pane \in Panes \ live /\ e.slot \in Slots /\ e = Wake(e.pane, e.slot)
             /\ closing' = <<e.pane, e.slot>>
             /\ \A j \in Panes \X Slots : j # closing' => queue'[j] = queue[j]
             /\ UNCHANGED <<live, heldSlot, rotation>>
    <3>1. \A r \in live', s \in Slots : queue'[<<r, s>>] = queue[<<r, s>>]
      BY <2>6
    <3>2. \A r \in live', s \in Slots : IsWakeOnItsWay(r, s) => IsWakeOnItsWay(r, s)'
      <4> TAKE r \in live', s \in Slots
      <4>1. Wake(r, s) # e
        BY <2>6, WakeInjective
      <4>2. QED
        BY <2>1, <2>3, <2>6, <4>1 DEF IsWakeOnItsWay, Has
    <3>3. \A r \in live', s \in Slots : WakeSeen(r, s) => WakeSeen(r, s)'
      BY <3>1, <3>2, WakeStays
    <3>4. QED
      BY <2>1, <2>6, <3>3, WakeKept
  <2>7. CASE /\ e.pane \in live /\ e.kind # "readable" /\ RemovePane(e.pane, queue)
             /\ UNCHANGED rotation
    <3>1. e.pane \in Panes /\ live' = live \ {e.pane} /\ heldSlot' = [heldSlot EXCEPT ![e.pane] = NoSlot]
      BY <2>7 DEF RemovePane
    <3>2. \A r \in Panes, s \in Slots : r # e.pane => queue'[<<r, s>>] = queue[<<r, s>>]
      BY <2>7, <3>1, RemoveFacts
    <3>3. \A r \in live', s \in Slots : WakeSeen(r, s) => WakeSeen(r, s)'
      <4> TAKE r \in live', s \in Slots
      <4>1. r \in Panes /\ r # e.pane
        BY <3>1
      <4>2. heldSlot'[r] = heldSlot[r] /\ queue'[<<r, s>>] = queue[<<r, s>>] /\ Wake(r, s) # e
        BY <2>4, <2>7, <3>1, <3>2, <4>1
      <4>3. IsWakeOnItsWay(r, s) => IsWakeOnItsWay(r, s)'
        BY <2>1, <2>3, <2>7, <4>2 DEF IsWakeOnItsWay, Has
      <4>4. QED
        BY <4>2, <4>3, WakeStays
    <3>4. QED
      BY <2>1, <3>1, <3>3, WakeKept
  <2>8. CASE e.kind # "readable" /\ UNCHANGED <<live, heldSlot, rotation, queue, closing>>
    <3>1. \A r \in live', s \in Slots : IsWakeOnItsWay(r, s) => IsWakeOnItsWay(r, s)'
      BY <2>1, <2>3, <2>4, <2>8 DEF IsWakeOnItsWay, Has
    <3>2. \A r \in live', s \in Slots : WakeSeen(r, s) => WakeSeen(r, s)'
      BY <2>8, <3>1, WakeStays
    <3>3. QED
      BY <2>1, <2>8, <3>2, WakeKept
  <2>9. QED
    BY <2>2, <2>5, <2>6, <2>7, <2>8
<1>17. CASE DispatchDrained
  <2>1. /\ UNCHANGED <<readerSlot, inbox, heldSlot, rotation, servedPane, live, queue>>
        /\ dispatcherPc' \notin EndPcs => dispatcherPc \notin EndPcs
        /\ \A r \in live : readerPc[r] \in {"wake", "exitWake"} => readerPc'[r] = readerPc[r]
    BY <1>17 DEF DispatchDrained, DispatcherAt, DrainPcs, EndPcs
  <2>2. QED
    BY <2>1, WakeIdle
<1>18. CASE DispatchUnregister
  <2>1. /\ UNCHANGED <<readerSlot, inbox, heldSlot, rotation, servedPane, live, queue>>
        /\ dispatcherPc' \notin EndPcs => dispatcherPc \notin EndPcs
        /\ \A r \in live : readerPc[r] \in {"wake", "exitWake"} => readerPc'[r] = readerPc[r]
    BY <1>18 DEF DispatchUnregister, DispatcherAt, DrainPcs, EndPcs
  <2>2. QED
    BY <2>1, WakeIdle
<1>19. CASE DispatchWake
  <2>1. /\ UNCHANGED <<readerSlot, inbox, heldSlot, rotation, servedPane, live, queue>>
        /\ dispatcherPc' \notin EndPcs => dispatcherPc \notin EndPcs
        /\ \A r \in live : readerPc[r] \in {"wake", "exitWake"} => readerPc'[r] = readerPc[r]
    BY <1>19 DEF DispatchWake, DispatcherAt, DrainPcs, EndPcs
  <2>2. QED
    BY <2>1, WakeIdle
<1>20. CASE DispatchTurn
  <2>1. servedPane = NoPane /\ dispatcherPc \notin EndPcs
    BY <1>20 DEF DispatchTurn, DispatcherAt, ServerIsInOrder, EndPcs
  <2>2. CASE rotation = <<>>
    <3>1. UNCHANGED <<readerPc, readerSlot, inbox, heldSlot, rotation, servedPane, live, queue>>
      BY <1>20, <2>1, <2>2 DEF DispatchTurn
    <3>2. QED
      BY <2>1, <3>1, WakeIdle
  <2>3. CASE rotation # <<>>
    <3>1. ServeTurn /\ UNCHANGED <<readerPc, readerSlot, inbox>>
      BY <1>20, <2>3 DEF DispatchTurn
    <3>2. QED
      BY <2>1, <2>3, <3>1, ServeWake
  <2>4. QED
    BY <2>2, <2>3
<1>21. CASE DispatchPassEnd
  <2>1. /\ UNCHANGED <<readerPc, readerSlot, inbox, heldSlot, live, queue>> /\ dispatcherPc \notin EndPcs
        /\ rotation' = IF servedPane = NoPane THEN rotation ELSE Append(rotation, servedPane)
    BY <1>21 DEF DispatchPassEnd, DispatcherAt, EndPcs
  <2>2. \A r \in Panes : Has(rotation, r) \/ servedPane = r => Has(rotation', r)
    <3>1. CASE servedPane = NoPane
      BY <2>1, <3>1
    <3>2. CASE servedPane # NoPane
      BY <2>1, <3>2, AppendHas
    <3>3. QED
      BY <3>1, <3>2
  <2>3. \A r \in live', s \in Slots : IsWakeOnItsWay(r, s) => IsWakeOnItsWay(r, s)'
    BY <2>1, <2>2 DEF IsWakeOnItsWay, Has
  <2>4. \A r \in live', s \in Slots : WakeSeen(r, s) => WakeSeen(r, s)'
    BY <2>1, <2>3, WakeStays
  <2>5. QED
    BY <2>1, <2>4, WakeKept
<1>22. CASE PauseReaders
  <2>1. /\ UNCHANGED <<readerSlot, inbox, heldSlot, rotation, servedPane, live, queue>>
        /\ dispatcherPc' \notin EndPcs => dispatcherPc \notin EndPcs
        /\ \A r \in live : readerPc[r] \in {"wake", "exitWake"} => readerPc'[r] = readerPc[r]
    BY <1>22 DEF PauseReaders, DispatcherAt, DrainPcs, EndPcs
  <2>2. QED
    BY <2>1, WakeIdle
<1>23. CASE ServeHeldTurn
  <2>1. /\ rotation # <<>> /\ ServeTurn /\ servedPane = NoPane /\ dispatcherPc \notin EndPcs
        /\ UNCHANGED <<readerPc, readerSlot, inbox>>
    BY <1>23 DEF ServeHeldTurn, EndPcs
  <2>2. QED
    BY <2>1, ServeWake
<1>24. CASE RequeueHeld
  <2>1. /\ UNCHANGED <<readerPc, readerSlot, inbox, heldSlot, live, queue>> /\ dispatcherPc \notin EndPcs
        /\ rotation' = IF servedPane = NoPane THEN rotation ELSE Append(rotation, servedPane)
    BY <1>24 DEF RequeueHeld, EndPcs
  <2>2. \A r \in Panes : Has(rotation, r) \/ servedPane = r => Has(rotation', r)
    <3>1. CASE servedPane = NoPane
      BY <2>1, <3>1
    <3>2. CASE servedPane # NoPane
      BY <2>1, <3>2, AppendHas
    <3>3. QED
      BY <3>1, <3>2
  <2>3. \A r \in live', s \in Slots : IsWakeOnItsWay(r, s) => IsWakeOnItsWay(r, s)'
    BY <2>1, <2>2 DEF IsWakeOnItsWay, Has
  <2>4. \A r \in live', s \in Slots : WakeSeen(r, s) => WakeSeen(r, s)'
    BY <2>1, <2>3, WakeStays
  <2>5. QED
    BY <2>1, <2>4, WakeKept
<1>25. CASE HeldServed
  <2>1. /\ UNCHANGED <<readerSlot, inbox, heldSlot, rotation, servedPane, live, queue>>
        /\ dispatcherPc' \notin EndPcs => dispatcherPc \notin EndPcs
        /\ \A r \in live : readerPc[r] \in {"wake", "exitWake"} => readerPc'[r] = readerPc[r]
    BY <1>25 DEF HeldServed, EndPcs
  <2>2. QED
    BY <2>1, WakeIdle
<1>26. CASE AwaitParked
  <2>1. /\ UNCHANGED <<readerSlot, inbox, heldSlot, rotation, servedPane, live, queue>>
        /\ dispatcherPc' \notin EndPcs => dispatcherPc \notin EndPcs
        /\ \A r \in live : readerPc[r] \in {"wake", "exitWake"} => readerPc'[r] = readerPc[r]
    BY <1>26 DEF AwaitParked, DispatcherAt, DrainPcs, EndPcs
  <2>2. QED
    BY <2>1, WakeIdle
<1>27. CASE DispatchTimeout
  <2>1. /\ UNCHANGED <<readerSlot, inbox, heldSlot, rotation, servedPane, live, queue>>
        /\ dispatcherPc' \notin EndPcs => dispatcherPc \notin EndPcs
        /\ \A r \in live : readerPc[r] \in {"wake", "exitWake"} => readerPc'[r] = readerPc[r]
    BY <1>27 DEF DispatchTimeout, DispatcherAt, DrainPcs, EndPcs
  <2>2. QED
    BY <2>1, WakeIdle
<1>28. CASE HeldMore
  <2>1. /\ UNCHANGED <<readerSlot, inbox, heldSlot, rotation, servedPane, live, queue>>
        /\ dispatcherPc' \notin EndPcs => dispatcherPc \notin EndPcs
        /\ \A r \in live : readerPc[r] \in {"wake", "exitWake"} => readerPc'[r] = readerPc[r]
    BY <1>28 DEF HeldMore, DispatcherAt, DrainPcs, EndPcs
  <2>2. QED
    BY <2>1, WakeIdle
<1>29. CASE AbandonSwap
  <2>1. /\ UNCHANGED <<readerSlot, inbox, heldSlot, rotation, servedPane, live, queue>>
        /\ dispatcherPc' \notin EndPcs => dispatcherPc \notin EndPcs
        /\ \A r \in live : readerPc[r] \in {"wake", "exitWake"} => readerPc'[r] = readerPc[r]
    BY <1>29 DEF AbandonSwap, DispatcherAt, DrainPcs, EndPcs
  <2>2. QED
    BY <2>1, WakeIdle
<1>30. CASE ResumeReaders
  <2>1. /\ UNCHANGED <<readerSlot, inbox, heldSlot, rotation, servedPane, live, queue>>
        /\ dispatcherPc' \notin EndPcs => dispatcherPc \notin EndPcs
        /\ \A r \in live : readerPc[r] \in {"wake", "exitWake"} => readerPc'[r] = readerPc[r]
    BY <1>30 DEF ResumeReaders, DispatcherAt, DrainPcs, EndPcs
  <2>2. QED
    BY <2>1, WakeIdle
<1>31. CASE RebuildServer
  <2>1. /\ rotation = <<>> /\ servedPane = NoPane /\ dispatcherPc \notin EndPcs
        /\ UNCHANGED <<readerPc, readerSlot, inbox, queue, live>>
    BY <1>31 DEF RebuildServer, DispatcherAt, ServerIsInOrder, SwapPcs, EndPcs
  <2>2. \A r \in live', s \in Slots : IsWakeOnItsWay(r, s) => IsWakeOnItsWay(r, s)'
    BY <2>1 DEF IsWakeOnItsWay
  <2>3. \A r \in live', s \in Slots : WakeSeen(r, s) => WakeSeen(r, s)'
    BY <2>1, <2>2, WakeStays
  <2>4. QED
    BY <2>1, <2>3, WakeKept
<1>32. CASE ExecImage
  <2>1. \A r \in live', s \in Slots : queue'[<<r, s>>] = EmptyQueue
    BY <1>32 DEF ExecImage
  <2>2. EmptyQueue.chunks = <<>> /\ ~EmptyQueue.exit /\ ~EmptyQueue.wakeSent
    BY DEF EmptyQueue
  <2>3. \A r \in live', s \in Slots : WakeSeen(r, s)'
    BY <2>1, <2>2, Zenon DEF WakeSeen
  <2>4. QED
    BY <2>3, Zenon DEF NoLostWake, WakeSeen
<1>33. CASE KillAllPanes
  BY <1>33 DEF KillAllPanes, NoLostWake, EndPcs
<1>34. CASE DropServer
  BY <1>34 DEF DropServer, NoLostWake, EndPcs
<1>35. ASSUME NEW e \in RuntimeEvents, e.kind # "readable", Request(e) PROVE NoLostWake'
  <2>1. /\ UNCHANGED <<readerPc, readerSlot, heldSlot, rotation, servedPane, live, dispatcherPc, queue>>
        /\ inbox' = Append(inbox, e)
    BY <1>35 DEF Request
  <2>2. \A r, s : Has(inbox, Wake(r, s)) => Has(inbox', Wake(r, s))
    BY <2>1, AppendHas
  <2>3. \A r \in live', s \in Slots : IsWakeOnItsWay(r, s) => IsWakeOnItsWay(r, s)'
    BY <2>1, <2>2 DEF IsWakeOnItsWay, Has
  <2>4. \A r \in live', s \in Slots : WakeSeen(r, s) => WakeSeen(r, s)'
    BY <2>1, <2>3, WakeStays
  <2>5. QED
    BY <2>1, <2>4, WakeKept
<1>36. CASE UNCHANGED vars
  <2>1. /\ UNCHANGED <<readerSlot, inbox, heldSlot, rotation, servedPane, live, queue>>
        /\ dispatcherPc' \notin EndPcs => dispatcherPc \notin EndPcs
        /\ \A r \in live : readerPc[r] \in {"wake", "exitWake"} => readerPc'[r] = readerPc[r]
    BY <1>36
  <2>2. QED
    BY <2>1, WakeIdle
<1>37. QED
  BY <1>1, <1>2, <1>3, <1>4, <1>5, <1>6, <1>7, <1>8, <1>9, <1>10, <1>11, <1>12, <1>13,
     <1>14, <1>15, <1>16, <1>17, <1>18, <1>19, <1>20, <1>21, <1>22, <1>23, <1>24,
     <1>25, <1>26, <1>27, <1>28, <1>29, <1>30, <1>31, <1>32, <1>33, <1>34, <1>35,
     <1>36, StepCases, Zenon

-----------------------------------------------------------------------------
(* The queues, the wakes and the server's view of them *)

\* The initial states satisfy QueueInv.
LEMMA QueueInit == Init => QueueInv
<1> SUFFICES ASSUME Init PROVE QueueInv
  OBVIOUS
<1> USE NoneAssumption DEF Init
<1>1. StateTypes
  <2>1. 0 \in 0 .. SerialModulus - 1 /\ <<>> \in Seq(RuntimeEvents) /\ <<>> \in Seq(Panes)
    BY LimitAssumption
  <2>2. QED
    BY <2>1 DEF StateTypes, ReaderPcs, PumpPcs, DispatcherPcs, PassPcs
<1>2. QueuesOK
  BY EmptyQueueOK DEF QueuesOK, QueueOK
<1>3. ReaderIsInOrder /\ ServerIsInOrder /\ SwapIsInOrder
  BY DEF ReaderIsInOrder, HoldingPcs, ServerIsInOrder, SwapIsInOrder, SwapPcs
<1>4. HeldIsRegistered
  BY DEF HeldIsRegistered, IsHeld, HoldingPcs, NoQueue
<1>5. NoLostWake
  <2>1. EmptyQueue.chunks = <<>> /\ ~EmptyQueue.exit /\ ~EmptyQueue.wakeSent
    BY DEF EmptyQueue
  <2>2. \A r \in live, s \in Slots : queue[<<r, s>>] = EmptyQueue
    OBVIOUS
  <2>3. \A r \in live, s \in Slots : WakeSeen(r, s)
    BY <2>1, <2>2, Zenon DEF WakeSeen
  <2>4. QED
    BY <2>3, Zenon DEF NoLostWake, WakeSeen
<1>6. QED
  BY <1>1, <1>2, <1>3, <1>4, <1>5, TypeParts DEF QueueInv

\* Every step keeps QueueInv.
LEMMA QueueInvStep == QueueInv /\ [Next]_vars => QueueInv'
BY TypeStep, ReaderOrderStep, ServerOrderStep, SwapOrderStep, HeldStep, WakeStep DEF QueueInv

\* The inductive invariant of the queues (`PaneOutputQueueState`), the wakes and the
\* server's rotation holds at every step.
THEOREM QueueInvariant == Spec => []QueueInv
<1>1. Init => QueueInv
  BY QueueInit
<1>2. QueueInv /\ [Next]_vars => QueueInv'
  BY QueueInvStep
<1>3. QED
  BY <1>1, <1>2, PTL DEF Spec

\* The queue the server serves is the one that is held, so it is registered
\* and open.
LEMMA QueueInvSuffices == QueueInv => QueuesAreConsistent
<1> SUFFICES ASSUME QueueInv PROVE ServedQueueIsRegistered
  BY DEF QueueInv, QueuesAreConsistent
<1> SUFFICES ASSUME dispatcherPc # "gone", NEW p \in Panes, heldSlot[p] # NoSlot
             PROVE  /\ p \in live
                    /\ ~queue[<<p, heldSlot[p]>>].closed
                    /\ registry[p] = heldSlot[p]
  BY Zenon DEF ServedQueueIsRegistered
<1>1. p \in live /\ heldSlot[p] \in Slots
  BY DEF QueueInv, ServerIsInOrder, TypeOK
<1>2. IsHeld(p, heldSlot[p])
  BY DEF IsHeld
<1>3. QED
  BY <1>1, <1>2, Zenon DEF QueueInv, HeldIsRegistered

\* While the session runs, output or an exit in a live pane's queue always has
\* a wake on its way (`accept_output_bytes`, `send_readable_wake`), the queue
\* the server holds is the one the reader finds (`find_or_start_output_queue`,
\* `close_output_queue`), and byte counts are exact with at most one chunk over
\* the limit: for any panes, slots, limits and chunk lengths.
THEOREM QueuesConsistent == Spec => []QueuesAreConsistent
BY QueueInvariant, QueueInvSuffices, PTL

-----------------------------------------------------------------------------
(* The stream of one pane *)

\* What a step of p's reader leaves alone: the other panes, and the server.
ReaderLeaves(p) ==
  /\ UNCHANGED <<live, heldSlot, rotation, fedSerial, exitCount, dispatcherPc, servedPane,
                 closing, isQuit, isRestart, isPaused>>
  /\ \A r \in Panes : r # p =>
       /\ readerPc'[r] = readerPc[r] /\ readerSlot'[r] = readerSlot[r]
       /\ serial'[r] = serial[r] /\ isSettled'[r] = isSettled[r]
       /\ registry'[r] = registry[r]
       /\ \A s \in Slots : queue'[<<r, s>>] = queue[<<r, s>>]

\* What a step of the server leaves alone, for the panes that stay live.
ServerLeaves ==
  /\ UNCHANGED <<readerPc, readerSlot, serial, isSettled, fedSerial, exitCount>>
  /\ live' \subseteq live
  /\ dispatcherPc' \notin EndPcs => dispatcherPc \notin EndPcs
  /\ \A r \in live' :
       registry'[r] = registry[r] /\ \A s \in Slots : queue'[<<r, s>>] = queue[<<r, s>>]

ReaderStep(p) ==
  \/ ReaderTop(p)
  \/ ReaderUnpark(p)
  \/ ReaderRung(p)
  \/ ReaderDrained(p)
  \/ ReaderDeliver(p)
  \/ ReaderFind(p)
  \/ ReaderPush(p)
  \/ ReaderPushExit(p)
  \/ ReaderSendWake(p)
  \/ ReaderUnregister(p)
  \/ ReaderPublishExit(p)
  \/ ReaderRead(p)
  \/ ReaderTerminalEnd(p)
  \/ ChildEnds(p)
  \/ KillRemovedPane(p)

\* A turn, with what the dispatcher does around it.
Turn ==
  /\ rotation # <<>> /\ ServeTurn /\ servedPane = NoPane
  /\ dispatcherPc \in {"turn", "serveHeld", "serveAgain"}
  /\ dispatcherPc' \in {"drainAgain", "serveHeld", "serveAgain"}
  /\ UNCHANGED <<readerPc, readerSlot, serial, isSettled, registry, inbox>>

\* A step of one reader leaves the rest alone.
LEMMA ReaderFrame ==
  ASSUME QueueInv, NEW p \in Panes, ReaderStep(p)
  PROVE  ReaderLeaves(p)
<1> USE DEF StateTypes, ReaderLeaves, readerVars, paneVars, sharedVars, serverVars, loopVars
<1> TypeOK /\ ReaderIsInOrder
  BY DEF QueueInv
<1> StateTypes
  BY TypeParts
<1>1. CASE ReaderTop(p)
  BY <1>1 DEF ReaderTop, GoTo
<1>2. CASE ReaderUnpark(p)
  BY <1>2 DEF ReaderUnpark, GoTo
<1>3. CASE ReaderRung(p)
  BY <1>3 DEF ReaderRung, GoTo
<1>4. CASE ReaderDrained(p)
  BY <1>4 DEF ReaderDrained, GoTo
<1>5. CASE ReaderDeliver(p)
  BY <1>5 DEF ReaderDeliver, GoTo
<1>6. CASE ReaderFind(p)
  <2>1. \A r \in Panes, s \in Slots : r # p =>
          /\ readerSlot'[r] = readerSlot[r] /\ registry'[r] = registry[r]
          /\ queue'[<<r, s>>] = queue[<<r, s>>]
    BY <1>6, FindFacts
  <2>2. Slots # {}
    BY <1>6, FindFacts
  <2>3. \A r \in Panes : r # p =>
          /\ readerSlot'[r] = readerSlot[r] /\ registry'[r] = registry[r]
          /\ \A s \in Slots : queue'[<<r, s>>] = queue[<<r, s>>]
    BY <2>1, <2>2
  <2>4. QED
    BY <1>6, <2>3 DEF ReaderFind, GoTo
<1>7. CASE ReaderPush(p)
  <2>1. /\ \A j \in Panes \X Slots : j # <<p, readerSlot[p]>> => queue'[j] = queue[j]
        /\ \A r \in Panes : r # p => readerPc'[r] = readerPc[r] /\ readerSlot'[r] = readerSlot[r]
    BY <1>7, PushFacts, Zenon
  <2>2. \A r \in Panes : r # p => isSettled'[r] = isSettled[r]
    BY <1>7 DEF ReaderPush
  <2>3. QED
    BY <1>7, <2>1, <2>2 DEF ReaderPush
<1>8. CASE ReaderPushExit(p)
  <2>1. /\ \A j \in Panes \X Slots : j # <<p, readerSlot[p]>> => queue'[j] = queue[j]
        /\ \A r \in Panes : r # p => readerPc'[r] = readerPc[r] /\ readerSlot'[r] = readerSlot[r]
    BY <1>8, PushExitFacts, Zenon
  <2>2. QED
    BY <1>8, <2>1 DEF ReaderPushExit
<1>9. CASE ReaderSendWake(p)
  <2>1. \A j \in Panes \X Slots : j # <<p, readerSlot[p]>> => queue'[j] = queue[j]
    BY <1>9, SendWakeFacts, Zenon
  <2>2. QED
    BY <1>9, <2>1 DEF ReaderSendWake, LeavePush, GoTo
<1>10. CASE ReaderUnregister(p)
  BY <1>10 DEF ReaderUnregister, Unregister, LeavePush, GoTo
<1>11. CASE ReaderPublishExit(p)
  BY <1>11 DEF ReaderPublishExit, GoTo
<1>12. CASE ReaderRead(p)
  BY <1>12 DEF ReaderRead, GoTo
<1>13. CASE ReaderTerminalEnd(p)
  BY <1>13 DEF ReaderTerminalEnd, GoTo
<1>14. CASE ChildEnds(p)
  BY <1>14 DEF ChildEnds
<1>15. CASE KillRemovedPane(p)
  BY <1>15 DEF KillRemovedPane
<1>16. QED
  BY <1>1, <1>2, <1>3, <1>4, <1>5, <1>6, <1>7, <1>8, <1>9, <1>10, <1>11, <1>12, <1>13, <1>14, <1>15 DEF ReaderStep

\* Every other step of the server leaves the streams of the panes that stay
\* live alone, but for a turn and for the new image.
LEMMA ServerFrame ==
  ASSUME QueueInv, [Next]_vars
  PROVE  (\E p \in Panes : ReaderStep(p)) \/ Turn \/ ExecImage \/ KillAllPanes \/ ServerLeaves
<1> USE DEF StateTypes, readerVars, paneVars, sharedVars, serverVars, loopVars, vars
<1> TypeOK /\ ServerIsInOrder
  BY DEF QueueInv
<1> StateTypes
  BY TypeParts
<1>1. CASE DispatchEvent
  <2>1. /\ UNCHANGED <<readerPc, readerSlot, serial, isSettled, fedSerial, exitCount, registry,
                       dispatcherPc>>
    BY <1>1 DEF DispatchEvent
  <2>2. PICK e \in RuntimeEvents :
          \/ UNCHANGED <<live, queue>>
          \/ /\ e.pane \in Panes \ live /\ e.slot \in Slots /\ closing' = <<e.pane, e.slot>>
             /\ \A j \in Panes \X Slots : j # closing' => queue'[j] = queue[j]
             /\ UNCHANGED live
          \/ e.pane \in live /\ RemovePane(e.pane, queue)
    BY <1>1, HandleFacts, Zenon
  <2>3. live' \subseteq live /\ \A r \in live', s \in Slots : queue'[<<r, s>>] = queue[<<r, s>>]
    <3>1. CASE e.pane \in live /\ RemovePane(e.pane, queue)
      <4>1. e.pane \in Panes /\ live' = live \ {e.pane}
        BY <3>1 DEF RemovePane
      <4>2. \A r \in Panes, s \in Slots : r # e.pane => queue'[<<r, s>>] = queue[<<r, s>>]
        BY <3>1, <4>1, RemoveFacts
      <4>3. QED
        BY <4>1, <4>2
    <3>2. CASE UNCHANGED <<live, queue>>
      BY <3>2
    <3>3. CASE /\ e.pane \in Panes \ live /\ e.slot \in Slots /\ closing' = <<e.pane, e.slot>>
               /\ \A j \in Panes \X Slots : j # closing' => queue'[j] = queue[j]
               /\ UNCHANGED live
      BY <3>3
    <3>4. QED
      BY <2>2, <3>1, <3>2, <3>3
  <2>4. ServerLeaves
    BY <2>1, <2>3 DEF ServerLeaves
  <2>5. QED
    BY <2>4
<1>2. CASE DispatchUnregister
  <2>1. /\ closing # NoQueue
        /\ UNCHANGED <<readerPc, readerSlot, serial, isSettled, fedSerial, exitCount, live, queue,
                       dispatcherPc>>
    BY <1>2 DEF DispatchUnregister
  <2>2. closing \in Panes \X Slots /\ closing[1] \notin live
    BY <2>1 DEF ServerIsInOrder
  <2>3. \A r \in live : registry'[r] = registry[r]
    BY <1>2, <2>2 DEF DispatchUnregister, Unregister
  <2>4. ServerLeaves
    BY <2>1, <2>3 DEF ServerLeaves
  <2>5. QED
    BY <2>4
<1>3. CASE DispatchTurn
  <2>1. servedPane = NoPane /\ dispatcherPc = "turn" /\ dispatcherPc' = "drainAgain"
    BY <1>3 DEF DispatchTurn, DispatcherAt, ServerIsInOrder
  <2>2. CASE rotation = <<>>
    <3>1. ServerLeaves
      BY <1>3, <2>1, <2>2 DEF DispatchTurn, ServerLeaves, EndPcs
    <3>2. QED
      BY <3>1
  <2>3. CASE rotation # <<>>
    <3>1. Turn
      BY <1>3, <2>1, <2>3 DEF DispatchTurn, Turn
    <3>2. QED
      BY <3>1
  <2>4. QED
    BY <2>2, <2>3
<1>4. CASE ServeHeldTurn
  <2>1. Turn
    BY <1>4 DEF ServeHeldTurn, Turn
  <2>2. QED
    BY <2>1
<1>5. CASE DispatchDrained
  <2>1. ServerLeaves
    BY <1>5 DEF DispatchDrained, ServerLeaves, EndPcs, DrainPcs
  <2>2. QED
    BY <2>1
<1>6. CASE DispatchWake
  <2>1. ServerLeaves
    BY <1>6 DEF DispatchWake, ServerLeaves, EndPcs, DispatcherAt
  <2>2. QED
    BY <2>1
<1>7. CASE DispatchPassEnd
  <2>1. ServerLeaves
    BY <1>7 DEF DispatchPassEnd, ServerLeaves, EndPcs, DispatcherAt
  <2>2. QED
    BY <2>1
<1>8. CASE PauseReaders
  <2>1. ServerLeaves
    BY <1>8 DEF PauseReaders, ServerLeaves, EndPcs, DispatcherAt
  <2>2. QED
    BY <2>1
<1>9. CASE RequeueHeld
  <2>1. ServerLeaves
    BY <1>9 DEF RequeueHeld, ServerLeaves, EndPcs
  <2>2. QED
    BY <2>1
<1>10. CASE HeldServed
  <2>1. ServerLeaves
    BY <1>10 DEF HeldServed, ServerLeaves, EndPcs
  <2>2. QED
    BY <2>1
<1>11. CASE AwaitParked
  <2>1. ServerLeaves
    BY <1>11 DEF AwaitParked, ServerLeaves, EndPcs, DispatcherAt
  <2>2. QED
    BY <2>1
<1>12. CASE DispatchTimeout
  <2>1. ServerLeaves
    BY <1>12 DEF DispatchTimeout, ServerLeaves, EndPcs, DispatcherAt
  <2>2. QED
    BY <2>1
<1>13. CASE HeldMore
  <2>1. ServerLeaves
    BY <1>13 DEF HeldMore, ServerLeaves, EndPcs, DispatcherAt
  <2>2. QED
    BY <2>1
<1>14. CASE AbandonSwap
  <2>1. ServerLeaves
    BY <1>14 DEF AbandonSwap, ServerLeaves, EndPcs, DispatcherAt
  <2>2. QED
    BY <2>1
<1>15. CASE ResumeReaders
  <2>1. ServerLeaves
    BY <1>15 DEF ResumeReaders, ServerLeaves, EndPcs, DispatcherAt
  <2>2. QED
    BY <2>1
<1>16. CASE RebuildServer
  <2>1. ServerLeaves
    BY <1>16 DEF RebuildServer, ServerLeaves, EndPcs, DispatcherAt
  <2>2. QED
    BY <2>1
<1>17. CASE DropServer
  <2>1. ServerLeaves
    BY <1>17 DEF DropServer, ServerLeaves, EndPcs
  <2>2. QED
    BY <2>1
<1>18. ASSUME NEW e \in RuntimeEvents, Request(e) PROVE ServerLeaves
  BY <1>18 DEF Request, ServerLeaves
<1>19. CASE UNCHANGED vars
  <2>1. ServerLeaves
    BY <1>19 DEF ServerLeaves
  <2>2. QED
    BY <2>1
<1>20. QED
  BY <1>1, <1>2, <1>3, <1>4, <1>5, <1>6, <1>7, <1>8, <1>9, <1>10, <1>11, <1>12, <1>13, <1>14, <1>15, <1>16, <1>17, <1>18, <1>19,
     StepCases, Zenon DEF ReaderStep

\* What ExitIsInOrder says of one pane.
ExitOK(p) ==
  /\ isSettled[p] => readerPc[p] \in {"exitFind", "exitPush", "exitWake", "done"}
  /\ registry[p] # NoSlot /\ queue[<<p, registry[p]>>].exit => readerPc[p] \in {"exitWake", "done"}
  /\ readerPc[p] = "exitWake" => queue[<<p, readerSlot[p]>>].chunks = <<>>

\* What a turn does to the queues of a pane that stays live.
LEMMA TurnFacts ==
  ASSUME QueueInv, Turn, NEW r \in live', NEW s \in Slots
  PROVE  /\ r \in live
         /\ \/ queue'[<<r, s>>] = queue[<<r, s>>]
            \/ /\ r = Head(rotation) /\ s = heldSlot[r] /\ heldSlot[r] # NoSlot
               /\ queue'[<<r, s>>] = LeftAfterTurn(queue[<<r, s>>])
<1> DEFINE p == Head(rotation)
           k == <<p, heldSlot[p]>>
<1>1. TypeOK /\ rotation # <<>> /\ ServeTurn
  BY DEF QueueInv, Turn
<1>2. live \subseteq Panes
  BY <1>1 DEF TypeOK
<1>3. CASE heldSlot[p] = NoSlot
  <2>1. UNCHANGED <<live, queue>>
    BY <1>1, <1>3, ServeFacts, Zenon
  <2>2. QED
    BY <2>1
<1>4. CASE heldSlot[p] # NoSlot
  <2>1. /\ p \in Panes /\ k \in Panes \X Slots
        /\ \A j \in Panes \X Slots : j # k => queue'[j] = queue[j]
        /\ \/ live' = live \ {p}
           \/ queue'[k] = LeftAfterTurn(queue[k]) /\ UNCHANGED live
    BY <1>1, <1>4, ServeFacts, Zenon
  <2> HIDE DEF p
  <2>2. r \in live /\ r \in Panes
    BY <1>2, <2>1
  <2>3. CASE <<r, s>> # k
    BY <2>1, <2>2, <2>3
  <2>4. CASE <<r, s>> = k
    <3>1. r = p /\ s = heldSlot[p]
      BY <2>4
    <3>2. QED
      BY <1>4, <2>1, <2>2, <2>4, <3>1 DEF p
  <2>5. QED
    BY <2>3, <2>4
<1>5. QED
  BY <1>3, <1>4

\* A turn puts nothing into a queue.
LEMMA LeftIsLess ==
  ASSUME NEW q, QueueOK(q)
  PROVE  /\ LeftAfterTurn(q).exit => q.exit
         /\ q.chunks = <<>> => LeftAfterTurn(q).chunks = <<>>
<1>1. /\ LeftAfterTurn(q).exit => q.exit
      /\ LeftAfterTurn(q).chunks = SubSeq(q.chunks, TakeCount(q.chunks) + 1, Len(q.chunks))
  BY LeftOK, Zenon
<1>2. q.chunks = <<>> => TakeCount(q.chunks) = 0
  BY DEF TakeCount
<1>3. q.chunks = <<>> => LeftAfterTurn(q).chunks = <<>>
  BY <1>1, <1>2
<1>4. QED
  BY <1>1, <1>3

\* The queue in a live pane's reader's hands is its registered one.
LEMMA ReaderHasRegistered ==
  ASSUME QueueInv, NEW p \in live, dispatcherPc # "gone", readerPc[p] \in HoldingPcs
  PROVE  /\ readerSlot[p] \in Slots /\ readerSlot[p] = registry[p]
         /\ ~queue[<<p, readerSlot[p]>>].closed
<1>1. p \in Panes
  BY DEF QueueInv, TypeOK
<1>2. readerSlot[p] \in Slots
  BY <1>1 DEF QueueInv, ReaderIsInOrder
<1>3. IsHeld(p, readerSlot[p])
  BY DEF IsHeld
<1>4. QED
  BY <1>2, <1>3, Zenon DEF QueueInv, HeldIsRegistered

\* Every step keeps ExitIsInOrder.
LEMMA ExitStep ==
  ASSUME QueueInv, ExitIsInOrder, [Next]_vars
  PROVE  ExitIsInOrder'
<1> SUFFICES ASSUME dispatcherPc' \notin EndPcs, NEW r \in live'
             PROVE  ExitOK(r)'
  BY Zenon DEF ExitIsInOrder, ExitOK
<1>1. TypeOK /\ StateTypes /\ QueuesOK /\ ReaderIsInOrder
  BY TypeParts DEF QueueInv
<1>2. ASSUME dispatcherPc \notin EndPcs, r \in live
      PROVE  ExitOK(r) /\ r \in Panes /\ dispatcherPc # "gone"
  <2>1. ExitOK(r)
    BY <1>2, Zenon DEF ExitIsInOrder, ExitOK
  <2>2. QED
    BY <1>1, <1>2, <2>1 DEF StateTypes, EndPcs
<1>3. CASE ServerLeaves
  <2>1. dispatcherPc \notin EndPcs /\ r \in live
    BY <1>3 DEF ServerLeaves
  <2>2. ExitOK(r) /\ r \in Panes
    BY <1>2, <2>1
  <2>3. /\ registry[r] # NoSlot => registry[r] \in Slots
        /\ readerPc[r] = "exitWake" => readerSlot[r] \in Slots
    BY <1>1, <2>2 DEF StateTypes, ReaderIsInOrder, HoldingPcs
  <2>4. /\ readerPc'[r] = readerPc[r] /\ readerSlot'[r] = readerSlot[r]
        /\ isSettled'[r] = isSettled[r] /\ registry'[r] = registry[r]
        /\ registry[r] # NoSlot => queue'[<<r, registry[r]>>] = queue[<<r, registry[r]>>]
        /\ readerPc[r] = "exitWake" => queue'[<<r, readerSlot[r]>>] = queue[<<r, readerSlot[r]>>]
    BY <1>3, <2>3 DEF ServerLeaves
  <2>5. QED
    BY <2>2, <2>4, Zenon DEF ExitOK
<1>4. CASE KillAllPanes
  BY <1>4 DEF KillAllPanes, EndPcs
<1>5. CASE ExecImage
  <2>1. readerPc'[r] = "top" /\ registry'[r] = NoSlot /\ isSettled'[r] = FALSE
    BY <1>1, <1>5 DEF ExecImage, StateTypes
  <2>2. QED
    BY <2>1 DEF ExitOK
<1>6. CASE Turn
  <2>1. dispatcherPc \notin EndPcs
    BY <1>6 DEF Turn, EndPcs
  <2>2. \A s \in Slots : r \in live /\ (queue'[<<r, s>>] = queue[<<r, s>>]
                                       \/ queue'[<<r, s>>] = LeftAfterTurn(queue[<<r, s>>]))
    BY <1>6, TurnFacts
  <2>3. r \in live
    <3>1. Head(rotation) \in Panes /\ live' \subseteq live
      BY <1>1, <1>6, ServeFacts, Zenon DEF Turn
    <3>2. QED
      BY <3>1
  <2>4. ExitOK(r) /\ r \in Panes
    BY <1>2, <2>1, <2>3
  <2>5. /\ registry[r] # NoSlot => registry[r] \in Slots
        /\ readerPc[r] = "exitWake" => readerSlot[r] \in Slots
    BY <1>1, <2>4 DEF StateTypes, ReaderIsInOrder, HoldingPcs
  <2>6. \A s \in Slots : QueueOK(queue[<<r, s>>])
    BY <1>1, <2>4 DEF QueuesOK
  <2>7. \A s \in Slots : /\ queue'[<<r, s>>].exit => queue[<<r, s>>].exit
                         /\ queue[<<r, s>>].chunks = <<>> => queue'[<<r, s>>].chunks = <<>>
    <3> TAKE s \in Slots
    <3> DEFINE q == queue[<<r, s>>]
    <3>1. QueueOK(q) /\ (queue'[<<r, s>>] = q \/ queue'[<<r, s>>] = LeftAfterTurn(q))
      BY <2>2, <2>6
    <3> HIDE DEF q
    <3>2. QED
      BY <3>1, LeftIsLess, SMTT(60) DEF q
  <2>8. UNCHANGED <<readerPc, readerSlot, isSettled, registry>>
    BY <1>6 DEF Turn
  <2>9. QED
    BY <2>4, <2>5, <2>7, <2>8, Zenon DEF ExitOK
<1>7. ASSUME NEW p \in Panes, ReaderStep(p) PROVE ExitOK(r)'
  <2>1. ReaderLeaves(p)
    BY <1>7, ReaderFrame
  <2>2. dispatcherPc \notin EndPcs /\ r \in live
    BY <2>1 DEF ReaderLeaves
  <2>3. ExitOK(r) /\ r \in Panes /\ dispatcherPc # "gone"
    BY <1>2, <2>2
  <2>4. /\ registry[r] # NoSlot => registry[r] \in Slots
        /\ readerPc[r] = "exitWake" => readerSlot[r] \in Slots
    BY <1>1, <2>3 DEF StateTypes, ReaderIsInOrder, HoldingPcs
  <2>5. CASE r # p
    <3>1. /\ readerPc'[r] = readerPc[r] /\ readerSlot'[r] = readerSlot[r]
          /\ isSettled'[r] = isSettled[r] /\ registry'[r] = registry[r]
          /\ registry[r] # NoSlot => queue'[<<r, registry[r]>>] = queue[<<r, registry[r]>>]
          /\ readerPc[r] = "exitWake" => queue'[<<r, readerSlot[r]>>] = queue[<<r, readerSlot[r]>>]
      BY <2>1, <2>3, <2>4, <2>5 DEF ReaderLeaves
    <3>2. QED
      BY <2>3, <3>1, Zenon DEF ExitOK
  <2>6. CASE r = p
    <3> USE DEF StateTypes, readerVars, paneVars, sharedVars, serverVars, loopVars
    <3>1. CASE readerPc[p] \notin {"exitFind", "exitPush", "exitWake", "done"}
      <4>1. ~isSettled[p] /\ (registry[p] = NoSlot \/ ~queue[<<p, registry[p]>>].exit)
        BY <2>3, <2>6, <3>1 DEF ExitOK
      <4>2. CASE ReaderPublishExit(p)
        <5>1. /\ readerPc'[p] = "exitFind" /\ UNCHANGED <<registry, queue>>
          BY <1>1, <4>1, <4>2 DEF ReaderPublishExit, GoTo
        <5>2. QED
          BY <2>6, <4>1, <5>1 DEF ExitOK
      <4>3. CASE ReaderFind(p)
        <5>1. isSettled' = isSettled /\ readerPc'[p] = "push"
          BY <1>1, <3>1, <4>3 DEF ReaderFind, GoTo
        <5>2. ~queue'[<<p, registry'[p]>>].exit \/ registry'[p] = NoSlot
          <6>1. CASE UNCHANGED <<queue, registry>>
            BY <4>1, <6>1
          <6>2. CASE \E s \in Slots : registry' = [registry EXCEPT ![p] = s]
                                     /\ queue'[<<p, s>>] = EmptyQueue
            <7>1. queue'[<<p, registry'[p]>>] = EmptyQueue
              BY <1>1, <6>2
            <7>2. QED
              BY <7>1 DEF EmptyQueue
          <6>3. QED
            BY <1>1, <4>3, <6>1, <6>2, FindFacts
        <5>3. QED
          BY <2>6, <4>1, <5>1, <5>2 DEF ExitOK
      <4>4. CASE ReaderPush(p)
        <5>1. readerPc[p] \in HoldingPcs
          BY <4>4 DEF ReaderPush, HoldingPcs
        <5>2. readerSlot[p] = registry[p] /\ registry[p] \in Slots /\ ~queue[<<p, registry[p]>>].closed
          BY <2>2, <2>3, <2>6, <5>1, ReaderHasRegistered
        <5>3. /\ queue'[<<p, registry[p]>>].exit = queue[<<p, registry[p]>>].exit
              /\ UNCHANGED isSettled
              /\ \/ readerPc' = [readerPc EXCEPT ![p] = "top"]
                 \/ readerPc' = [readerPc EXCEPT ![p] = "wake"]
          BY <1>1, <4>4, <5>2, PushFacts
        <5>4. UNCHANGED registry /\ readerPc'[p] # "exitWake"
          BY <1>1, <4>4, <5>3 DEF ReaderPush
        <5>5. ~isSettled'[p] /\ ~queue'[<<p, registry'[p]>>].exit
          <6>1. registry[p] # NoSlot
            BY <5>2, NoneAssumption
          <6>2. ~queue[<<p, registry[p]>>].exit /\ ~isSettled[p]
            BY <4>1, <6>1, Zenon
          <6>3. isSettled' = isSettled /\ registry' = registry
            BY <5>3, <5>4, Zenon
          <6>4. QED
            BY <5>3, <6>2, <6>3, Zenon
        <5>6. QED
          BY <2>6, <5>4, <5>5 DEF ExitOK
      <4>5. CASE ReaderSendWake(p)
        <5>1. UNCHANGED <<registry, isSettled>>
          BY <4>5 DEF ReaderSendWake
        <5>2. UNCHANGED queue /\ readerPc' = [readerPc EXCEPT ![p] = "top"]
          BY <1>1, <2>3, <3>1, <4>5, SendWakeFacts
        <5>3. readerPc'[p] # "exitWake"
          BY <1>1, <5>2
        <5>4. QED
          BY <2>6, <4>1, <5>1, <5>2, <5>3 DEF ExitOK
      <4>6. CASE ReaderUnregister(p)
        BY <1>1, <2>3, <4>6 DEF ReaderUnregister, ReaderIsInOrder
      <4>7. CASE KillRemovedPane(p)
        BY <2>2, <2>6, <4>7 DEF KillRemovedPane
      <4>8. CASE ReaderPushExit(p)
        BY <3>1, <4>8 DEF ReaderPushExit
      <4>9. CASE \/ ReaderTop(p) \/ ReaderUnpark(p) \/ ReaderRung(p) \/ ReaderDrained(p)
                 \/ ReaderDeliver(p) \/ ReaderRead(p) \/ ReaderTerminalEnd(p) \/ ChildEnds(p)
        <5>1. UNCHANGED <<registry, queue, isSettled>> /\ readerPc'[p] # "exitWake"
          BY <1>1, <3>1, <4>9 DEF ReaderTop, ReaderUnpark, ReaderRung, ReaderDrained,
             ReaderDeliver, ReaderRead, ReaderTerminalEnd, ChildEnds, GoTo
        <5>2. QED
          BY <2>6, <4>1, <5>1 DEF ExitOK
      <4>10. QED
        BY <1>7, <4>2, <4>3, <4>4, <4>5, <4>6, <4>7, <4>8, <4>9 DEF ReaderStep
    <3>2. CASE readerPc[p] \in {"exitFind", "exitPush", "exitWake", "done"}
      <4>1. CASE ReaderFind(p)
        <5>1. readerPc[p] = "exitFind" /\ readerPc'[p] = "exitPush"
          BY <1>1, <3>2, <4>1 DEF ReaderFind, GoTo
        <5>2. ~queue'[<<p, registry'[p]>>].exit \/ registry'[p] = NoSlot
          <6>1. CASE UNCHANGED <<queue, registry>>
            BY <2>3, <2>6, <5>1, <6>1 DEF ExitOK
          <6>2. CASE \E s \in Slots : registry' = [registry EXCEPT ![p] = s]
                                     /\ queue'[<<p, s>>] = EmptyQueue
            <7>1. queue'[<<p, registry'[p]>>] = EmptyQueue
              BY <1>1, <6>2
            <7>2. QED
              BY <7>1 DEF EmptyQueue
          <6>3. QED
            BY <1>1, <4>1, <6>1, <6>2, FindFacts
        <5>3. QED
          BY <2>6, <5>1, <5>2 DEF ExitOK
      <4>2. CASE ReaderPushExit(p)
        <5>1. readerPc[p] \in HoldingPcs
          BY <4>2 DEF ReaderPushExit, HoldingPcs
        <5>2. readerSlot[p] \in Slots /\ ~queue[<<p, readerSlot[p]>>].closed
          BY <2>2, <2>3, <2>6, <5>1, ReaderHasRegistered
        <5>3. /\ queue'[<<p, readerSlot[p]>>].chunks = queue[<<p, readerSlot[p]>>].chunks
              /\ \/ readerPc' = [readerPc EXCEPT ![p] = "done"]
                 \/ /\ ~queue[<<p, readerSlot[p]>>].wakeSent
                    /\ readerPc' = [readerPc EXCEPT ![p] = "exitWake"]
                    /\ UNCHANGED readerSlot
          BY <1>1, <4>2, <5>2, PushExitFacts
        <5>4. ~queue[<<p, readerSlot[p]>>].wakeSent => queue[<<p, readerSlot[p]>>].chunks = <<>>
          BY <2>2, <2>6, <5>2, Zenon DEF QueueInv, NoLostWake
        <5>5. CASE readerPc' = [readerPc EXCEPT ![p] = "done"]
          <6>1. readerPc'[p] = "done"
            BY <1>1, <5>5
          <6>2. QED
            BY <2>6, <6>1 DEF ExitOK
        <5>6. CASE /\ ~queue[<<p, readerSlot[p]>>].wakeSent
                   /\ readerPc' = [readerPc EXCEPT ![p] = "exitWake"]
                   /\ UNCHANGED readerSlot
          <6>1. readerPc'[p] = "exitWake" /\ queue'[<<p, readerSlot'[p]>>].chunks = <<>>
            BY <1>1, <5>3, <5>4, <5>6
          <6>2. QED
            BY <2>6, <6>1 DEF ExitOK
        <5>7. QED
          BY <5>3, <5>5, <5>6
      <4>3. CASE ReaderSendWake(p)
        <5>1. readerPc[p] = "exitWake"
          BY <3>2, <4>3 DEF ReaderSendWake
        <5>2. readerPc' = [readerPc EXCEPT ![p] = "done"]
          BY <1>1, <2>3, <5>1, <4>3, SendWakeFacts
        <5>3. readerPc'[p] = "done"
          BY <1>1, <5>2
        <5>4. QED
          BY <2>6, <5>3 DEF ExitOK
      <4>4. CASE KillRemovedPane(p)
        BY <2>2, <2>6, <4>4 DEF KillRemovedPane
      <4>5. CASE ChildEnds(p)
        <5>1. UNCHANGED <<registry, queue, isSettled, readerPc, readerSlot>>
          BY <4>5 DEF ChildEnds
        <5>2. QED
          BY <2>3, <5>1 DEF ExitOK
      <4>6. QED
        BY <1>7, <3>2, <4>1, <4>2, <4>3, <4>4, <4>5 DEF ReaderStep, ReaderTop, ReaderUnpark,
           ReaderRung, ReaderDrained, ReaderDeliver, ReaderPush, ReaderUnregister,
           ReaderPublishExit, ReaderRead, ReaderTerminalEnd
    <3>3. QED
      BY <3>1, <3>2
  <2>7. QED
    BY <2>5, <2>6
<1>8. QED
  BY <1>3, <1>4, <1>5, <1>6, <1>7, ServerFrame

\* Every step keeps ExitRemoves.
LEMMA ExitRemovesStep ==
  ASSUME QueueInv, ExitRemoves, [Next]_vars
  PROVE  ExitRemoves'
<1>1. TypeOK /\ StateTypes
  BY TypeParts DEF QueueInv
<1>2. CASE ServerLeaves
  BY <1>2 DEF ServerLeaves, ExitRemoves
<1>3. CASE KillAllPanes \/ ExecImage
  BY <1>3 DEF KillAllPanes, ExecImage, ExitRemoves, serverVars
<1>4. ASSUME NEW p \in Panes, ReaderStep(p) PROVE ExitRemoves'
  BY <1>4, ReaderFrame DEF ReaderLeaves, ExitRemoves
<1>5. CASE Turn
  <2> DEFINE p == Head(rotation)
  <2>1. \/ UNCHANGED <<live, exitCount>>
        \/ exitCount' = [exitCount EXCEPT ![p] = @ + 1] /\ live' = live \ {p}
    BY <1>1, <1>5, ServeFacts, Zenon DEF Turn
  <2> HIDE DEF p
  <2>2. QED
    BY <1>1, <2>1 DEF ExitRemoves, StateTypes
<1>6. QED
  BY <1>2, <1>3, <1>4, <1>5, ServerFrame

-----------------------------------------------------------------------------
(* What is on its way to a pane's engine *)

\* The numbers of a queue's chunks.
Serials(c) == [i \in DOMAIN c |-> c[i].serial]

\* The chunks in p's registered queue, and the number of the one its reader
\* holds: the two parts of UnfedSerials.
Queued(p) == IF registry[p] = NoSlot THEN <<>> ELSE queue[<<p, registry[p]>>].chunks

HandPcs == {"deliver", "find", "push"}

Hand(p) == IF readerPc[p] \in HandPcs THEN <<InHand(p)>> ELSE <<>>

SerialSet == 0 .. (SerialModulus - 1)

\* What is on its way is the queue's numbers and then the one in the reader's hands.
LEMMA UnfedParts ==
  ASSUME NEW p
  PROVE  /\ UnfedSerials(p) = Serials(Queued(p)) \o Hand(p)
         /\ UnfedSerials(p)' = Serials(Queued(p))' \o Hand(p)'
BY Zenon DEF UnfedSerials, Serials, Queued, Hand, HandPcs, InHand

\* Two sequences of one length with the same elements are the same.
LEMMA SameSequence ==
  ASSUME NEW S, NEW s \in Seq(S), NEW t \in Seq(S), Len(s) = Len(t),
         \A i \in 1 .. Len(s) : s[i] = t[i]
  PROVE  s = t
OBVIOUS

\* Two sequences put together, element by element.
LEMMA ConcatFacts ==
  ASSUME NEW S, NEW s \in Seq(S), NEW t \in Seq(S)
  PROVE  /\ s \o t \in Seq(S) /\ Len(s \o t) = Len(s) + Len(t)
         /\ \A i \in 1 .. Len(s) : (s \o t)[i] = s[i]
         /\ \A i \in 1 .. Len(s \o t) : i > Len(s) => (s \o t)[i] = t[i - Len(s)]
OBVIOUS

\* The numbers of a queue's chunks, one by one.
LEMMA SerialsOf ==
  ASSUME NEW c \in Seq(Chunk)
  PROVE  /\ Serials(c) \in Seq(SerialSet) /\ Len(Serials(c)) = Len(c)
         /\ \A i \in 1 .. Len(c) : c[i] \in Chunk /\ Serials(c)[i] = c[i].serial
<1> \A i \in 1 .. Len(c) : c[i] \in Chunk
  OBVIOUS
<1> \A x \in Chunk : x.serial \in SerialSet
  BY DEF Chunk, SerialSet
<1>1. \A i \in 1 .. Len(c) : c[i] \in Chunk /\ c[i].serial \in SerialSet
  OBVIOUS
<1>2. Serials(c) = [i \in 1 .. Len(c) |-> c[i].serial]
  BY DEF Serials
<1>3. QED
  BY <1>1, <1>2

\* A chunk appended is its number appended.
LEMMA SerialsAppend ==
  ASSUME NEW c \in Seq(Chunk), NEW x \in Chunk
  PROVE  Serials(Append(c, x)) = Append(Serials(c), x.serial)
<1> DEFINE d == Append(c, x)
<1>1. d \in Seq(Chunk) /\ Len(d) = Len(c) + 1 /\ d[Len(c) + 1] = x
      /\ \A i \in 1 .. Len(c) : d[i] = c[i]
  OBVIOUS
<1> HIDE DEF d
<1>2. /\ Serials(d) \in Seq(SerialSet) /\ Len(Serials(d)) = Len(d)
      /\ \A i \in 1 .. Len(d) : Serials(d)[i] = d[i].serial
  BY <1>1, SerialsOf
<1>3. /\ Serials(c) \in Seq(SerialSet) /\ Len(Serials(c)) = Len(c)
      /\ \A i \in 1 .. Len(c) : Serials(c)[i] = c[i].serial
  BY SerialsOf
<1>4. x.serial \in SerialSet
  BY DEF Chunk, SerialSet
<1> DEFINE e == Append(Serials(c), x.serial)
<1>5. e \in Seq(SerialSet) /\ Len(e) = Len(c) + 1 /\ e[Len(c) + 1] = x.serial
      /\ \A i \in 1 .. Len(c) : e[i] = Serials(c)[i]
  BY <1>3, <1>4
<1> HIDE DEF e
<1>6. \A i \in 1 .. Len(d) : Serials(d)[i] = e[i]
  BY <1>1, <1>2, <1>3, <1>5, SMTT(60)
<1>7. Serials(d) = e
  BY <1>1, <1>2, <1>5, <1>6, SameSequence
<1>8. QED
  BY <1>7 DEF d, e

\* The numbers of what is left of a queue.
LEMMA SerialsRest ==
  ASSUME NEW c \in Seq(Chunk), NEW n \in 0 .. Len(c)
  PROVE  Serials(SubSeq(c, n + 1, Len(c))) = SubSeq(Serials(c), n + 1, Len(c))
<1> DEFINE d == SubSeq(c, n + 1, Len(c))
<1>1. d \in Seq(Chunk) /\ Len(d) = Len(c) - n /\ \A i \in 1 .. Len(d) : d[i] = c[n + i]
  OBVIOUS
<1> HIDE DEF d
<1>2. /\ Serials(d) \in Seq(SerialSet) /\ Len(Serials(d)) = Len(d)
      /\ \A i \in 1 .. Len(d) : Serials(d)[i] = d[i].serial
  BY <1>1, SerialsOf
<1>3. /\ Serials(c) \in Seq(SerialSet) /\ Len(Serials(c)) = Len(c)
      /\ \A i \in 1 .. Len(c) : Serials(c)[i] = c[i].serial
  BY SerialsOf
<1> DEFINE e == SubSeq(Serials(c), n + 1, Len(c))
<1>4. e \in Seq(SerialSet) /\ Len(e) = Len(c) - n /\ \A i \in 1 .. Len(e) : e[i] = Serials(c)[n + i]
  BY <1>3
<1> HIDE DEF e
<1>5. \A i \in 1 .. Len(d) : Serials(d)[i] = e[i]
  BY <1>1, <1>2, <1>3, <1>4
<1>6. Serials(d) = e
  BY <1>1, <1>2, <1>4, <1>5, SameSequence
<1>7. QED
  BY <1>6 DEF d, e

\* A sequence without its first n elements, of two put together.
LEMMA RestOfTwo ==
  ASSUME NEW S, NEW s \in Seq(S), NEW t \in Seq(S), NEW n \in 0 .. Len(s)
  PROVE  SubSeq(s \o t, n + 1, Len(s \o t)) = SubSeq(s, n + 1, Len(s)) \o t
<1> DEFINE u == s \o t  r == SubSeq(s, n + 1, Len(s))
           a == SubSeq(u, n + 1, Len(u))  b == r \o t
<1>1. u \in Seq(S) /\ Len(u) = Len(s) + Len(t)
      /\ (\A i \in 1 .. Len(s) : u[i] = s[i])
      /\ \A i \in 1 .. Len(u) : i > Len(s) => u[i] = t[i - Len(s)]
  BY ConcatFacts
<1>2. r \in Seq(S) /\ Len(r) = Len(s) - n /\ \A i \in 1 .. Len(r) : r[i] = s[n + i]
  OBVIOUS
<1> HIDE DEF u, r
<1>3. a \in Seq(S) /\ Len(a) = Len(u) - n /\ \A i \in 1 .. Len(a) : a[i] = u[n + i]
  BY <1>1
<1>4. b \in Seq(S) /\ Len(b) = Len(r) + Len(t)
      /\ (\A i \in 1 .. Len(r) : b[i] = r[i])
      /\ \A i \in 1 .. Len(b) : i > Len(r) => b[i] = t[i - Len(r)]
  BY <1>2, ConcatFacts, ZenonT(60)
<1> HIDE DEF a, b
<1>5. \A i \in 1 .. Len(a) : a[i] = b[i]
  <2> TAKE i \in 1 .. Len(a)
  <2>1. CASE i <= Len(r)
    BY <1>1, <1>2, <1>3, <1>4, <2>1
  <2>2. CASE i > Len(r)
    <3>1. n + i > Len(s) /\ n + i \in 1 .. Len(u) /\ (n + i) - Len(s) = i - Len(r) /\ i \in 1 .. Len(b)
      BY <1>1, <1>2, <1>3, <1>4, <2>2
    <3>2. QED
      BY <1>1, <1>3, <1>4, <2>2, <3>1
  <2>3. QED
    BY <1>2, <2>1, <2>2
<1>6. Len(a) = Len(b)
  BY <1>1, <1>2, <1>3, <1>4
<1>7. a = b
  BY <1>3, <1>4, <1>5, <1>6, SameSequence
<1>8. QED
  BY <1>7 DEF a, b, u, r

\* The parts of what is on its way are sequences.
LEMMA UnfedTypes ==
  ASSUME TypeOK, NEW p \in Panes
  PROVE  /\ Queued(p) \in Seq(Chunk) /\ Serials(Queued(p)) \in Seq(SerialSet)
         /\ Len(Serials(Queued(p))) = Len(Queued(p))
         /\ InHand(p) \in SerialSet /\ Hand(p) \in Seq(SerialSet)
         /\ UnfedSerials(p) \in Seq(SerialSet)
<1>1. StateTypes
  BY TypeParts
<1>2. Queued(p) \in Seq(Chunk)
  <2>1. CASE registry[p] = NoSlot
    BY <2>1 DEF Queued
  <2>2. CASE registry[p] # NoSlot
    <3>1. <<p, registry[p]>> \in Panes \X Slots
      BY <1>1, <2>2 DEF StateTypes
    <3>2. queue[<<p, registry[p]>>] \in QueueState
      BY <3>1 DEF TypeOK
    <3>3. queue[<<p, registry[p]>>].chunks \in Seq(Chunk)
      BY <3>2 DEF QueueState
    <3>4. QED
      BY <2>2, <3>3 DEF Queued
  <2>3. QED
    BY <2>1, <2>2
<1>3. InHand(p) \in SerialSet
  <2>1. (serial[p] + SerialModulus - 1) \in Int /\ SerialModulus \in Nat \ {0}
    BY <1>1, LimitAssumption DEF StateTypes
  <2>2. (serial[p] + SerialModulus - 1) % SerialModulus \in 0 .. (SerialModulus - 1)
    BY <2>1, DivMod
  <2>3. QED
    BY <2>2 DEF InHand, SerialSet
<1>4. Hand(p) \in Seq(SerialSet)
  BY <1>3 DEF Hand
<1>5. Serials(Queued(p)) \in Seq(SerialSet) /\ Len(Serials(Queued(p))) = Len(Queued(p))
  BY <1>2, SerialsOf
<1>6. UnfedSerials(p) \in Seq(SerialSet)
  <2>1. Serials(Queued(p)) \o Hand(p) \in Seq(SerialSet)
    BY <1>4, <1>5
  <2>2. QED
    BY <2>1, UnfedParts, Zenon
<1>7. QED
  BY <1>2, <1>3, <1>4, <1>5, <1>6

\* A step that leaves p's registered queue, its next number and what its reader
\* holds alone leaves what is on its way alone.
LEMMA SameUnfed ==
  ASSUME NEW r, registry'[r] = registry[r], serial'[r] = serial[r],
         registry[r] # NoSlot =>
           queue'[<<r, registry[r]>>].chunks = queue[<<r, registry[r]>>].chunks,
         readerPc'[r] \in HandPcs <=> readerPc[r] \in HandPcs
  PROVE  UnfedSerials(r)' = UnfedSerials(r)
<1>1. Queued(r)' = Queued(r) /\ Hand(r)' = Hand(r)
  BY DEF Queued, Hand, InHand
<1>2. Serials(Queued(r))' = Serials(Queued(r))
  BY <1>1 DEF Serials
<1>3. QED
  BY <1>1, <1>2, UnfedParts, Zenon

\* A step after which every pane still live has the same on its way.
Quiet ==
  /\ live' \subseteq live /\ UNCHANGED <<serial, fedSerial, exitCount>>
  /\ dispatcherPc' \notin EndPcs =>
       dispatcherPc \notin EndPcs /\ \A r \in live' : UnfedSerials(r)' = UnfedSerials(r)

\* A fresh queue is started only when the registered one holds nothing.
LEMMA FindKeepsUnfed ==
  ASSUME QueueInv, NEW p \in live, dispatcherPc \notin EndPcs, ReaderFind(p)
  PROVE  UnfedSerials(p)' = UnfedSerials(p)
<1>1. TypeOK /\ StateTypes /\ p \in Panes
  BY TypeParts DEF QueueInv, TypeOK
<1>2. serial' = serial /\ (readerPc'[p] \in HandPcs <=> readerPc[p] \in HandPcs)
  BY <1>1 DEF ReaderFind, GoTo, HandPcs, StateTypes
<1>3. CASE UNCHANGED <<queue, registry>>
  BY <1>2, <1>3, SameUnfed
<1>4. CASE /\ registry[p] = NoSlot \/ ~IsHeld(p, registry[p])
           /\ \E s \in Slots : registry' = [registry EXCEPT ![p] = s] /\ queue'[<<p, s>>] = EmptyQueue
  <2>1. Queued(p) = <<>>
    <3>1. CASE registry[p] = NoSlot
      BY <3>1 DEF Queued
    <3>2. CASE registry[p] # NoSlot
      <4> DEFINE s == registry[p]
      <4>1. s \in Slots /\ ~IsHeld(p, s)
        BY <1>1, <1>4, <3>2 DEF StateTypes
      <4> HIDE DEF s
      <4>2. WakeSeen(p, s)
        BY <4>1, Zenon DEF QueueInv, NoLostWake, WakeSeen
      <4>3. ~IsWakeOnItsWay(p, s)
        BY <4>1 DEF IsHeld, IsWakeOnItsWay, HoldingPcs
      <4>4. queue[<<p, s>>].chunks = <<>>
        BY <4>2, <4>3, Zenon DEF WakeSeen
      <4>5. QED
        BY <3>2, <4>4 DEF Queued, s
    <3>3. QED
      BY <3>1, <3>2
  <2>2. Queued(p)' = <<>>
    <3>1. PICK s \in Slots : registry' = [registry EXCEPT ![p] = s] /\ queue'[<<p, s>>] = EmptyQueue
      BY <1>4
    <3>2. registry'[p] = s /\ queue'[<<p, s>>].chunks = <<>> /\ s # NoSlot
      BY <1>1, <3>1, NoneAssumption DEF StateTypes, EmptyQueue
    <3>3. QED
      BY <3>2 DEF Queued
  <2>3. Hand(p)' = Hand(p)
    BY <1>2 DEF Hand, InHand
  <2>4. Serials(Queued(p))' = Serials(Queued(p))
    BY <2>1, <2>2 DEF Serials
  <2>5. QED
    BY <2>3, <2>4, UnfedParts, Zenon
<1>5. QED
  BY <1>1, <1>3, <1>4, FindFacts

\* A push moves the chunk from the reader's hands into the queue.
LEMMA PushKeepsUnfed ==
  ASSUME QueueInv, NEW p \in live, dispatcherPc # "gone", ReaderPush(p)
  PROVE  UnfedSerials(p)' = UnfedSerials(p)
<1>1. TypeOK /\ StateTypes /\ p \in Panes /\ ReaderIsInOrder
  BY TypeParts DEF QueueInv, TypeOK
<1>2. readerPc[p] = "push" /\ UNCHANGED <<serial, registry>>
  BY DEF ReaderPush
<1>3. readerSlot[p] = registry[p] /\ registry[p] \in Slots /\ ~queue[<<p, registry[p]>>].closed
  BY <1>2, ReaderHasRegistered DEF HoldingPcs
<1> DEFINE k == <<p, registry[p]>>
<1>4. /\ \E chunk \in Chunk :
           chunk.serial = InHand(p) /\ queue'[k] = Pushed(queue[k], chunk)
      /\ \/ readerPc' = [readerPc EXCEPT ![p] = "top"]
         \/ readerPc' = [readerPc EXCEPT ![p] = "wake"]
  BY <1>1, <1>3, PushFacts
<1>5. PICK chunk \in Chunk : chunk.serial = InHand(p) /\ queue'[k] = Pushed(queue[k], chunk)
  BY <1>4
<1> DEFINE c == Queued(p)
<1>6. c = queue[k].chunks /\ c \in Seq(Chunk)
  BY <1>1, <1>3, NoneAssumption, UnfedTypes DEF Queued
<1>7. k \in Panes \X Slots /\ queue[k] \in QueueState
  BY <1>1, <1>3 DEF TypeOK
<1>8. Queued(p)' = Append(c, chunk)
  <2>1. queue'[k].chunks = Append(queue[k].chunks, chunk)
    BY <1>5, <1>7 DEF Pushed, QueueState
  <2>2. Queued(p)' = queue'[k].chunks
    BY <1>2, <1>3, NoneAssumption DEF Queued
  <2>3. QED
    BY <1>6, <2>1, <2>2
<1> HIDE DEF c, k
<1>9. Serials(Queued(p))' = Append(Serials(c), InHand(p))
  <2>1. Serials(Append(c, chunk)) = Append(Serials(c), chunk.serial)
    BY <1>5, <1>6, SerialsAppend
  <2>2. Serials(Queued(p))' = Serials(Append(c, chunk))
    BY <1>8 DEF Serials
  <2>3. QED
    BY <1>5, <2>1, <2>2
<1>10. Hand(p) = <<InHand(p)>> /\ Hand(p)' = <<>>
  BY <1>1, <1>2, <1>4 DEF Hand, HandPcs, StateTypes
<1>11. Serials(c) \in Seq(SerialSet) /\ InHand(p) \in SerialSet
  BY <1>1, UnfedTypes DEF c
<1>12. Append(Serials(c), InHand(p)) \o <<>> = Serials(c) \o <<InHand(p)>>
  BY <1>11
<1>13. QED
  BY <1>9, <1>10, <1>12, UnfedParts DEF c

\* Every other step of a reader leaves what is on its way to its pane alone.
LEMMA ReaderQuiet ==
  ASSUME QueueInv, ExitIsInOrder, NEW p \in Panes, ReaderStep(p), ~ReaderRead(p)
  PROVE  Quiet
<1>1. TypeOK /\ StateTypes /\ ReaderIsInOrder
  BY TypeParts DEF QueueInv
<1>2. ReaderLeaves(p)
  BY ReaderFrame
<1>3. serial' = serial
  BY DEF ReaderStep, ReaderTop, ReaderUnpark, ReaderRung, ReaderDrained, ReaderDeliver, ReaderFind,
     ReaderPush, ReaderPushExit, ReaderSendWake, ReaderUnregister, ReaderPublishExit,
     ReaderTerminalEnd, ChildEnds, KillRemovedPane, readerVars
<1> SUFFICES ASSUME dispatcherPc' \notin EndPcs, NEW r \in live'
             PROVE  UnfedSerials(r)' = UnfedSerials(r)
  BY <1>2, <1>3 DEF Quiet, ReaderLeaves
<1>4. r \in live /\ r \in Panes /\ dispatcherPc \notin EndPcs /\ dispatcherPc # "gone"
  BY <1>1, <1>2 DEF ReaderLeaves, StateTypes, EndPcs
<1>5. CASE r # p
  <2>1. registry[r] # NoSlot => registry[r] \in Slots
    BY <1>1, <1>4 DEF StateTypes
  <2>2. /\ registry'[r] = registry[r] /\ readerPc'[r] = readerPc[r] /\ serial'[r] = serial[r]
        /\ registry[r] # NoSlot =>
             queue'[<<r, registry[r]>>].chunks = queue[<<r, registry[r]>>].chunks
    BY <1>2, <1>4, <1>5, <2>1 DEF ReaderLeaves
  <2>3. QED
    BY <2>2, SameUnfed
<1>6. CASE r = p
  <2> USE DEF readerVars, paneVars, sharedVars, serverVars, loopVars
  <2>1. ExitOK(p)
    BY <1>4, <1>6, Zenon DEF ExitIsInOrder, ExitOK
  <2>2. CASE ReaderFind(p)
    BY <1>4, <1>6, <2>2, FindKeepsUnfed
  <2>3. CASE ReaderPush(p)
    BY <1>4, <1>6, <2>3, PushKeepsUnfed
  <2>4. CASE ReaderPushExit(p)
    <3>1. readerPc[p] = "exitPush" /\ UNCHANGED registry
      BY <2>4 DEF ReaderPushExit
    <3>2. readerSlot[p] = registry[p] /\ ~queue[<<p, registry[p]>>].closed
      BY <1>4, <1>6, <3>1, ReaderHasRegistered DEF HoldingPcs
    <3>3. /\ queue'[<<p, registry[p]>>].chunks = queue[<<p, registry[p]>>].chunks
          /\ \/ readerPc' = [readerPc EXCEPT ![p] = "done"]
             \/ readerPc' = [readerPc EXCEPT ![p] = "exitWake"]
      BY <1>1, <2>4, <3>2, PushExitFacts
    <3>4. readerPc[p] \notin HandPcs /\ readerPc'[p] \notin HandPcs
      BY <1>1, <3>1, <3>3 DEF HandPcs, StateTypes
    <3>5. QED
      BY <1>3, <1>6, <3>1, <3>3, <3>4, SameUnfed
  <2>5. CASE ReaderSendWake(p)
    <3>1. UNCHANGED <<queue, registry>>
      BY <1>1, <1>4, <2>5, SendWakeFacts DEF ReaderSendWake
    <3>2. readerPc[p] \notin HandPcs /\ readerPc'[p] \notin HandPcs
      BY <1>1, <1>4, <2>5 DEF HandPcs, StateTypes, ReaderSendWake, LeavePush, GoTo
    <3>3. QED
      BY <1>3, <1>6, <3>1, <3>2, SameUnfed
  <2>6. CASE ReaderUnregister(p)
    BY <1>1, <1>4, <2>6 DEF ReaderUnregister, ReaderIsInOrder
  <2>7. CASE KillRemovedPane(p)
    BY <1>4, <1>6, <2>7 DEF KillRemovedPane
  <2>8. CASE ReaderDeliver(p)
    <3>1. ~isSettled[p]
      BY <2>1, <2>8 DEF ExitOK, ReaderDeliver
    <3>2. UNCHANGED <<queue, registry>> /\ readerPc[p] \in HandPcs /\ readerPc'[p] \in HandPcs
      BY <1>1, <2>8, <3>1 DEF HandPcs, StateTypes, ReaderDeliver, GoTo
    <3>3. QED
      BY <1>3, <1>6, <3>2, SameUnfed
  <2>9. CASE \/ ReaderTop(p) \/ ReaderUnpark(p) \/ ReaderRung(p) \/ ReaderDrained(p)
             \/ ReaderPublishExit(p) \/ ReaderTerminalEnd(p) \/ ChildEnds(p)
    <3>1. /\ UNCHANGED <<queue, registry>>
          /\ \/ readerPc' = readerPc
             \/ readerPc[p] \notin HandPcs /\ readerPc'[p] \notin HandPcs
      BY <1>1, <2>9 DEF HandPcs, StateTypes, GoTo, ReaderTop, ReaderUnpark, ReaderRung, ReaderDrained,
         ReaderPublishExit, ReaderTerminalEnd, ChildEnds
    <3>2. QED
      BY <1>3, <1>6, <3>1, SameUnfed
  <2>10. QED
    BY <2>2, <2>3, <2>4, <2>5, <2>6, <2>7, <2>8, <2>9 DEF ReaderStep
<1>7. QED
  BY <1>5, <1>6

\* Every step reads a chunk, serves a turn or leaves the streams alone.
LEMMA StreamCases ==
  ASSUME QueueInv, ExitIsInOrder, HeldIsDrained, [Next]_vars
  PROVE  Quiet \/ Turn \/ \E p \in Panes : ReaderRead(p)
<1>1. TypeOK /\ StateTypes
  BY TypeParts DEF QueueInv
<1>2. CASE ServerLeaves
  <2>1. ASSUME NEW r \in live', dispatcherPc' \notin EndPcs PROVE UnfedSerials(r)' = UnfedSerials(r)
    <3>1. r \in Panes /\ registry'[r] = registry[r] /\ \A s \in Slots : queue'[<<r, s>>] = queue[<<r, s>>]
      BY <1>1, <1>2, <2>1 DEF ServerLeaves, StateTypes
    <3>2. registry[r] # NoSlot => registry[r] \in Slots
      BY <1>1, <3>1 DEF StateTypes
    <3>3. QED
      BY <1>2, <3>1, <3>2, SameUnfed DEF ServerLeaves
  <2>2. Quiet
    BY <1>2, <2>1 DEF ServerLeaves, Quiet
  <2>3. QED
    BY <2>2
<1>3. CASE KillAllPanes
  <2>1. Quiet
    BY <1>3 DEF KillAllPanes, Quiet, serverVars, EndPcs
  <2>2. QED
    BY <2>1
<1>4. CASE ExecImage
  <2>1. ASSUME NEW r \in live PROVE UnfedSerials(r)' = UnfedSerials(r)
    <3>1. UnfedSerials(r) = <<>>
      BY <1>4 DEF HeldIsDrained, ExecImage, DispatcherAt
    <3>2. r \in Panes
      BY <1>1 DEF StateTypes
    <3>3. Queued(r)' = <<>> /\ Hand(r)' = <<>>
      BY <1>4, <3>2 DEF ExecImage, Queued, Hand, HandPcs
    <3>4. Serials(Queued(r))' = <<>>
      BY <3>3 DEF Serials
    <3>5. UnfedSerials(r)' = <<>> \o <<>>
      BY <3>3, <3>4, UnfedParts, Zenon
    <3>6. QED
      BY <3>1, <3>5
  <2>2. Quiet
    BY <1>4, <2>1 DEF ExecImage, DispatcherAt, Quiet, EndPcs
  <2>3. QED
    BY <2>2
<1>5. ASSUME NEW p \in Panes, ReaderStep(p) PROVE Quiet \/ ReaderRead(p)
  BY <1>5, ReaderQuiet
<1>6. QED
  BY <1>2, <1>3, <1>4, <1>5, ServerFrame

\* A chunk read goes behind what is on its way.
LEMMA ReadFacts ==
  ASSUME TypeOK, NEW p \in Panes, ReaderRead(p)
  PROVE  /\ UNCHANGED <<live, fedSerial, exitCount, dispatcherPc>>
         /\ serial' = [serial EXCEPT ![p] = (serial[p] + 1) % SerialModulus]
         /\ UnfedSerials(p)' = Append(UnfedSerials(p), serial[p])
         /\ \A r \in Panes : r # p => UnfedSerials(r)' = UnfedSerials(r)
<1>1. StateTypes
  BY TypeParts
<1>2. /\ UNCHANGED <<live, fedSerial, exitCount, dispatcherPc, queue, registry>>
      /\ serial' = [serial EXCEPT ![p] = After(serial[p])]
      /\ readerPc[p] = "poll" /\ readerPc' = [readerPc EXCEPT ![p] = "deliver"]
  BY DEF ReaderRead, GoTo, serverVars, loopVars, sharedVars
<1>3. serial' = [serial EXCEPT ![p] = (serial[p] + 1) % SerialModulus]
  BY <1>2 DEF After
<1>4. InHand(p)' = serial[p]
  <2> DEFINE M == SerialModulus  x == serial[p]
  <2>1. M \in Nat \ {0} /\ x \in 0 .. (M - 1)
    BY <1>1, LimitAssumption DEF StateTypes
  <2>2. InHand(p)' = (((x + 1) % M) + (M - 1)) % M
    <3>1. serial'[p] = (x + 1) % M
      BY <1>1, <1>3 DEF StateTypes
    <3>2. QED
      BY <3>1 DEF InHand
  <2> HIDE DEF M, x
  <2>3. (((x + 1) % M) + (M - 1)) % M = ((x + 1) + (M - 1)) % M
    <3>1. (x + 1) \in Int /\ (M - 1) \in Int /\ M \in Nat \ {0}
      BY <2>1
    <3>2. QED
      BY <3>1, ModAdd, Zenon
  <2>4. ((x + 1) + (M - 1)) = M * 1 + x
    BY <2>1
  <2>5. ((x + 1) + (M - 1)) % M = x
    BY <2>1, <2>4, ModUnique
  <2>6. QED
    BY <2>2, <2>3, <2>5 DEF x
<1>5. Hand(p) = <<>> /\ Hand(p)' = <<serial[p]>>
  BY <1>1, <1>2, <1>4 DEF Hand, HandPcs, StateTypes
<1>6. Queued(p)' = Queued(p)
  BY <1>2 DEF Queued
<1>7. Serials(Queued(p))' = Serials(Queued(p))
  BY <1>6 DEF Serials
<1>8. Serials(Queued(p)) \in Seq(SerialSet) /\ serial[p] \in SerialSet
  BY <1>1, UnfedTypes DEF StateTypes, SerialSet
<1>9. UnfedSerials(p)' = Append(UnfedSerials(p), serial[p])
  <2>1. UnfedSerials(p)' = Serials(Queued(p)) \o <<serial[p]>> /\ UnfedSerials(p) = Serials(Queued(p)) \o <<>>
    BY <1>5, <1>7, UnfedParts, Zenon
  <2>2. QED
    BY <1>8, <2>1
<1>10. ASSUME NEW r \in Panes, r # p PROVE UnfedSerials(r)' = UnfedSerials(r)
  <2>1. serial'[r] = serial[r] /\ readerPc'[r] = readerPc[r]
    BY <1>1, <1>2, <1>10 DEF StateTypes
  <2>2. QED
    BY <1>2, <2>1, SameUnfed
<1>11. QED
  BY <1>2, <1>3, <1>9, <1>10

\* What UnfedIsExpected says of one pane.
Expected(p) ==
  /\ \A i \in 1 .. Len(UnfedSerials(p)) :
       UnfedSerials(p)[i] = (fedSerial[p] + (i - 1)) % SerialModulus
  /\ serial[p] = (fedSerial[p] + Len(UnfedSerials(p))) % SerialModulus

\* A turn takes the oldest n chunks of what is on its way to one pane, which
\* are the ones its engine expects; with the exit it takes all of them.
LEMMA TurnStream ==
  ASSUME QueueInv, ExitIsInOrder, UnfedIsExpected, Turn, NEW p, p = Head(rotation)
  PROVE  \/ UNCHANGED <<live, fedSerial, exitCount, queue, registry, serial, readerPc>>
         \/ /\ p \in live
            /\ \A r \in live' : r # p => UnfedSerials(r)' = UnfedSerials(r)
            /\ \E n \in 0 .. Len(UnfedSerials(p)) :
                 /\ fedSerial' = [fedSerial EXCEPT ![p] = (fedSerial[p] + n) % SerialModulus]
                 /\ \/ /\ UNCHANGED <<live, exitCount>>
                       /\ UnfedSerials(p)' = SubSeq(UnfedSerials(p), n + 1, Len(UnfedSerials(p)))
                    \/ /\ live' = live \ {p} /\ n = Len(UnfedSerials(p))
                       /\ exitCount' = [exitCount EXCEPT ![p] = @ + 1]
<1> DEFINE k == <<p, heldSlot[p]>>
           U == UnfedSerials(p)
           n == TakeCount(queue[k].chunks)
<1>1. /\ TypeOK /\ StateTypes /\ QueuesOK /\ rotation # <<>> /\ ServeTurn
      /\ UNCHANGED <<registry, serial, readerPc>> /\ dispatcherPc \notin EndPcs /\ dispatcherPc # "gone"
  BY TypeParts DEF QueueInv, Turn, EndPcs
<1>2. CASE heldSlot[p] = NoSlot
  <2>1. UNCHANGED <<live, queue, fedSerial, exitCount>>
    BY <1>1, <1>2, ServeFacts, Zenon
  <2>2. QED
    BY <1>1, <2>1
<1>3. CASE heldSlot[p] # NoSlot
  <2>1. /\ p \in Panes /\ k \in Panes \X Slots
        /\ fedSerial' = IF n = 0 THEN fedSerial
                        ELSE [fedSerial EXCEPT ![p] = After(queue[k].chunks[n].serial)]
        /\ \A j \in Panes \X Slots : j # k => queue'[j] = queue[j]
        /\ \/ /\ queue[k].exit /\ LeftAfterTurn(queue[k]).chunks = <<>>
              /\ exitCount' = [exitCount EXCEPT ![p] = @ + 1]
              /\ live' = live \ {p}
           \/ /\ queue'[k] = LeftAfterTurn(queue[k])
              /\ UNCHANGED <<live, exitCount>>
    BY <1>1, <1>3, ServeFacts, Zenon
  <2>2. p \in live
    BY <1>3, <2>1 DEF QueueInv, ServerIsInOrder
  <2>3. registry[p] = heldSlot[p] /\ heldSlot[p] \in Slots /\ registry[p] # NoSlot
    <3>1. IsHeld(p, heldSlot[p]) /\ heldSlot[p] \in Slots
      BY <2>1 DEF IsHeld
    <3>2. registry[p] = heldSlot[p]
      BY <1>1, <2>2, <3>1, Zenon DEF QueueInv, HeldIsRegistered
    <3>3. QED
      BY <1>3, <3>1, <3>2
  <2>4. Expected(p)
    BY <1>1, <2>2, Zenon DEF UnfedIsExpected, Expected
  <2> DEFINE c == queue[k].chunks
  <2>5. c = Queued(p) /\ c \in Seq(Chunk)
    BY <1>1, <2>1, <2>3, UnfedTypes DEF Queued
  <2>6. n \in 0 .. Len(c) /\ (n = 0 <=> c = <<>>)
    BY <2>5, TakeCountRange
  <2>7. LeftAfterTurn(queue[k]).chunks = SubSeq(c, n + 1, Len(c))
    <3>1. QueueOK(queue[k])
      BY <1>1, <2>1 DEF QueuesOK
    <3>2. QED
      BY <3>1, LeftOK, Zenon
  <2> HIDE DEF k, n, c
  <2>8. /\ U = Serials(c) \o Hand(p) /\ Serials(c) \in Seq(SerialSet) /\ Len(Serials(c)) = Len(c)
        /\ Hand(p) \in Seq(SerialSet) /\ U \in Seq(SerialSet)
    BY <1>1, <2>1, <2>5, UnfedParts, UnfedTypes
  <2> HIDE DEF U
  <2>9. Len(U) = Len(c) + Len(Hand(p)) /\ \A i \in 1 .. Len(c) : U[i] = c[i].serial
    <3>1. \A i \in 1 .. Len(c) : Serials(c)[i] = c[i].serial
      BY <2>5, SerialsOf
    <3>2. Len(U) = Len(Serials(c)) + Len(Hand(p)) /\ \A i \in 1 .. Len(Serials(c)) : U[i] = Serials(c)[i]
      BY <2>8, ConcatFacts, ZenonT(60)
    <3>3. QED
      BY <2>8, <3>1, <3>2
  <2>10. n \in 0 .. Len(U) /\ Len(c) \in Nat /\ Len(Hand(p)) \in Nat
    BY <2>5, <2>6, <2>8, <2>9
  <2>11. fedSerial' = [fedSerial EXCEPT ![p] = (fedSerial[p] + n) % SerialModulus]
    <3>1. fedSerial \in [Panes -> 0 .. SerialModulus - 1] /\ SerialModulus \in Nat \ {0}
      BY <1>1, LimitAssumption DEF StateTypes
    <3>2. CASE n = 0
      <4>1. (fedSerial[p] + n) % SerialModulus = fedSerial[p]
        BY <2>1, <3>1, <3>2, ModSmall
      <4>2. QED
        BY <2>1, <3>1, <3>2, <4>1
    <3>3. CASE n # 0
      <4>1. n \in 1 .. Len(c) /\ n \in 1 .. Len(U)
        BY <2>6, <2>9, <2>10, <3>3
      <4>2. c[n].serial = (fedSerial[p] + (n - 1)) % SerialModulus
        BY <2>4, <2>9, <4>1 DEF Expected, U
      <4>3. After(c[n].serial) = (fedSerial[p] + n) % SerialModulus
        <5>1. fedSerial[p] + (n - 1) \in Int /\ (fedSerial[p] + (n - 1)) + 1 = fedSerial[p] + n
          BY <2>1, <3>1, <4>1
        <5>2. (((fedSerial[p] + (n - 1)) % SerialModulus) + 1) % SerialModulus
                = ((fedSerial[p] + (n - 1)) + 1) % SerialModulus
          BY <3>1, <5>1, ModAdd
        <5>3. QED
          BY <4>2, <5>1, <5>2 DEF After
      <4>4. QED
        BY <2>1, <3>3, <4>3 DEF c, n
    <3>4. QED
      BY <3>2, <3>3
  <2>12. \A r \in live' : r # p => UnfedSerials(r)' = UnfedSerials(r)
    <3> SUFFICES ASSUME NEW r \in live', r # p PROVE UnfedSerials(r)' = UnfedSerials(r)
      OBVIOUS
    <3>1. r \in Panes
      BY <1>1, <2>1 DEF StateTypes
    <3>2. registry[r] # NoSlot => queue'[<<r, registry[r]>>] = queue[<<r, registry[r]>>]
      BY <1>1, <2>1, <3>1 DEF StateTypes, k
    <3>3. QED
      BY <1>1, <3>2, SameUnfed
  <2>13. CASE queue'[k] = LeftAfterTurn(queue[k]) /\ UNCHANGED <<live, exitCount>>
    <3>1. Queued(p)' = SubSeq(c, n + 1, Len(c))
      BY <1>1, <2>3, <2>7, <2>13 DEF Queued, k
    <3>2. Serials(Queued(p))' = SubSeq(Serials(c), n + 1, Len(c))
      <4>1. Serials(Queued(p))' = Serials(SubSeq(c, n + 1, Len(c)))
        BY <3>1 DEF Serials
      <4>2. QED
        BY <2>5, <2>6, <4>1, SerialsRest
    <3>3. Hand(p)' = Hand(p)
      BY <1>1 DEF Hand, InHand
    <3>4. UnfedSerials(p)' = SubSeq(Serials(c), n + 1, Len(Serials(c))) \o Hand(p)
      BY <2>8, <3>2, <3>3, UnfedParts
    <3>5. UnfedSerials(p)' = SubSeq(U, n + 1, Len(U))
      BY <2>6, <2>8, <3>4, RestOfTwo
    <3>6. QED
      BY <2>2, <2>10, <2>11, <2>12, <2>13, <3>5 DEF U
  <2>14. CASE /\ queue[k].exit /\ LeftAfterTurn(queue[k]).chunks = <<>>
              /\ exitCount' = [exitCount EXCEPT ![p] = @ + 1]
              /\ live' = live \ {p}
    <3>1. Len(c) = n
      <4> Len(<<>>) = 0
        OBVIOUS
      <4>1. Len(SubSeq(c, n + 1, Len(c))) = 0
        BY <2>7, <2>14, Zenon
      <4>2. ASSUME n < Len(c) PROVE Len(SubSeq(c, n + 1, Len(c))) = Len(c) - n
        BY <2>5, <2>6, <4>2
      <4>3. QED
        BY <2>5, <2>6, <4>1, <4>2
    <3>2. Hand(p) = <<>>
      <4>1. ExitOK(p)
        BY <1>1, <2>2, Zenon DEF ExitIsInOrder, ExitOK
      <4>2. readerPc[p] \in {"exitWake", "done"}
        BY <2>3, <2>14, <4>1 DEF ExitOK, k
      <4>3. QED
        BY <4>2 DEF Hand, HandPcs
    <3>3. n = Len(U)
      BY <2>9, <2>10, <3>1, <3>2
    <3>4. QED
      BY <2>2, <2>10, <2>11, <2>12, <2>14, <3>3 DEF U
  <2>15. QED
    BY <2>1, <2>13, <2>14 DEF k
<1>4. QED
  BY <1>2, <1>3

\* Every step keeps UnfedIsExpected.
LEMMA UnfedStep ==
  ASSUME QueueInv, ExitIsInOrder, UnfedIsExpected, HeldIsDrained, [Next]_vars
  PROVE  UnfedIsExpected'
<1> SUFFICES ASSUME dispatcherPc' \notin EndPcs, NEW r \in live'
             PROVE  Expected(r)'
  BY Zenon DEF UnfedIsExpected, Expected
<1>1. TypeOK /\ StateTypes /\ SerialModulus \in Nat \ {0}
  BY TypeParts, LimitAssumption DEF QueueInv
<1>2. ASSUME dispatcherPc \notin EndPcs, r \in live
      PROVE  r \in Panes /\ Expected(r) /\ UnfedSerials(r) \in Seq(SerialSet) /\ Len(UnfedSerials(r)) \in Nat
  <2>1. Expected(r)
    BY <1>2, Zenon DEF UnfedIsExpected, Expected
  <2>2. r \in Panes
    BY <1>1, <1>2 DEF StateTypes
  <2>3. UnfedSerials(r) \in Seq(SerialSet)
    BY <1>1, <2>2, UnfedTypes
  <2>4. QED
    BY <2>1, <2>2, <2>3
<1>3. CASE Quiet
  <2>1. dispatcherPc \notin EndPcs /\ r \in live /\ UnfedSerials(r)' = UnfedSerials(r)
    BY <1>3, Zenon DEF Quiet
  <2>2. Expected(r)
    BY <1>2, <2>1
  <2>3. QED
    BY <1>3, <2>1, <2>2, Zenon DEF Quiet, Expected
<1>4. ASSUME NEW p \in Panes, ReaderRead(p) PROVE Expected(r)'
  <2>1. /\ UNCHANGED <<live, fedSerial, dispatcherPc>>
        /\ serial' = [serial EXCEPT ![p] = (serial[p] + 1) % SerialModulus]
        /\ UnfedSerials(p)' = Append(UnfedSerials(p), serial[p])
        /\ \A q \in Panes : q # p => UnfedSerials(q)' = UnfedSerials(q)
    BY <1>1, <1>4, ReadFacts
  <2>2. /\ r \in Panes /\ Expected(r)
        /\ UnfedSerials(r) \in Seq(SerialSet) /\ Len(UnfedSerials(r)) \in Nat
    BY <1>2, <2>1
  <2>3. CASE r # p
    <3>1. UnfedSerials(r)' = UnfedSerials(r) /\ serial'[r] = serial[r] /\ fedSerial'[r] = fedSerial[r]
      BY <1>1, <2>1, <2>2, <2>3 DEF StateTypes
    <3>2. QED
      BY <2>2, <3>1, Zenon DEF Expected
  <2>4. CASE r = p
    <3> DEFINE U == UnfedSerials(r)  V == Append(U, serial[r])  f == fedSerial[r]  M == SerialModulus
               n == Len(U)
    <3>1. f \in Int /\ M \in Nat \ {0} /\ n \in Nat /\ serial[r] \in SerialSet /\ U \in Seq(SerialSet)
      BY <1>1, <2>2 DEF StateTypes, SerialSet
    <3>2. (\A i \in 1 .. n : U[i] = (f + (i - 1)) % M) /\ serial[r] = (f + n) % M
      BY <2>2 DEF Expected
    <3>3. UnfedSerials(r)' = V /\ serial'[r] = (serial[r] + 1) % M /\ fedSerial'[r] = f
      BY <1>1, <2>1, <2>4 DEF StateTypes
    <3> HIDE DEF U, f, M, n
    <3>4. Len(V) = n + 1 /\ V[n + 1] = serial[r] /\ \A i \in 1 .. n : V[i] = U[i]
      BY <3>1 DEF n
    <3> HIDE DEF V
    <3>5. (serial[r] + 1) % M = (f + (n + 1)) % M
      <4>1. (f + n) \in Int /\ 1 \in Int /\ (f + n) + 1 = f + (n + 1)
        BY <3>1
      <4>2. (((f + n) % M) + 1) % M = ((f + n) + 1) % M
        BY <3>1, <4>1, ModAdd, Zenon
      <4>3. QED
        BY <3>2, <4>1, <4>2
    <3>6. \A i \in 1 .. (n + 1) : V[i] = (f + (i - 1)) % M
      <4> TAKE i \in 1 .. (n + 1)
      <4>1. CASE i = n + 1
        <5>1. i - 1 = n
          BY <3>1, <4>1
        <5>2. QED
          BY <3>2, <3>4, <4>1, <5>1
      <4>2. CASE i # n + 1
        <5>1. i \in 1 .. n
          BY <3>1, <4>2
        <5>2. QED
          BY <3>2, <3>4, <5>1
      <4>3. QED
        BY <4>1, <4>2
    <3>7. QED
      BY <3>3, <3>4, <3>5, <3>6 DEF Expected, M
  <2>5. QED
    BY <2>3, <2>4
<1>5. CASE Turn
  <2>0. PICK p : p = Head(rotation)
    OBVIOUS
  <2>1. dispatcherPc \notin EndPcs /\ UNCHANGED <<registry, serial, readerPc>>
    BY <1>5 DEF Turn, EndPcs
  <2>2. \/ UNCHANGED <<live, fedSerial, exitCount, queue, registry, serial, readerPc>>
        \/ /\ p \in live
           /\ \A q \in live' : q # p => UnfedSerials(q)' = UnfedSerials(q)
           /\ \E n \in 0 .. Len(UnfedSerials(p)) :
                /\ fedSerial' = [fedSerial EXCEPT ![p] = (fedSerial[p] + n) % SerialModulus]
                /\ \/ /\ UNCHANGED <<live, exitCount>>
                      /\ UnfedSerials(p)' = SubSeq(UnfedSerials(p), n + 1, Len(UnfedSerials(p)))
                   \/ /\ live' = live \ {p} /\ n = Len(UnfedSerials(p))
                      /\ exitCount' = [exitCount EXCEPT ![p] = @ + 1]
    BY <1>5, <2>0, TurnStream, Zenon
  <2>3. r \in live
    BY <2>2
  <2>4. /\ r \in Panes /\ Expected(r)
        /\ UnfedSerials(r) \in Seq(SerialSet) /\ Len(UnfedSerials(r)) \in Nat
    BY <1>2, <2>1, <2>3
  <2>5. CASE UNCHANGED <<live, fedSerial, exitCount, queue, registry, serial, readerPc>>
    <3>1. UnfedSerials(r)' = UnfedSerials(r)
      BY <2>5, SameUnfed
    <3>2. QED
      BY <2>4, <2>5, <3>1, Zenon DEF Expected
  <2>6. ASSUME p \in live,
               \A q \in live' : q # p => UnfedSerials(q)' = UnfedSerials(q),
               NEW n \in 0 .. Len(UnfedSerials(p)),
               fedSerial' = [fedSerial EXCEPT ![p] = (fedSerial[p] + n) % SerialModulus],
               \/ /\ UNCHANGED <<live, exitCount>>
                  /\ UnfedSerials(p)' = SubSeq(UnfedSerials(p), n + 1, Len(UnfedSerials(p)))
               \/ /\ live' = live \ {p} /\ n = Len(UnfedSerials(p))
                  /\ exitCount' = [exitCount EXCEPT ![p] = @ + 1]
        PROVE  Expected(r)'
    <3>1. CASE r # p
      <4>1. UnfedSerials(r)' = UnfedSerials(r) /\ serial'[r] = serial[r] /\ fedSerial'[r] = fedSerial[r]
        BY <1>1, <2>1, <2>4, <2>6, <3>1 DEF StateTypes
      <4>2. QED
        BY <2>4, <4>1, Zenon DEF Expected
    <3>2. CASE r = p
      <4> DEFINE U == UnfedSerials(r)  V == SubSeq(U, n + 1, Len(U))  f == fedSerial[r]
                 M == SerialModulus  m == Len(U)  g == (f + n) % M
      <4>1. f \in Int /\ M \in Nat \ {0} /\ m \in Nat /\ U \in Seq(SerialSet) /\ n \in 0 .. m
        BY <1>1, <2>4, <2>6, <3>2 DEF StateTypes
      <4>2. (\A i \in 1 .. m : U[i] = (f + (i - 1)) % M) /\ serial[r] = (f + m) % M
        BY <2>4 DEF Expected
      <4>3. UnfedSerials(r)' = V /\ serial'[r] = serial[r] /\ fedSerial'[r] = g
        <5>1. UnfedSerials(r)' = V
          BY <2>6, <3>2
        <5>2. fedSerial'[r] = g
          BY <1>1, <2>4, <2>6, <3>2 DEF StateTypes
        <5>3. QED
          BY <2>1, <5>1, <5>2
      <4>4. Len(V) = m - n /\ \A i \in 1 .. (m - n) : V[i] = U[n + i]
        BY <4>1
      <4> HIDE DEF U, V, f, M, m
      <4>5. ASSUME NEW j \in Int PROVE (g + j) % M = (f + (n + j)) % M
        <5>1. (f + n) \in Int /\ (f + n) + j = f + (n + j)
          BY <4>1
        <5>2. (((f + n) % M) + j) % M = ((f + n) + j) % M
          BY <4>1, <5>1, ModAdd, Zenon
        <5>3. QED
          BY <5>1, <5>2
      <4> HIDE DEF g
      <4>6. (g + (m - n)) % M = serial[r]
        <5>1. (m - n) \in Int /\ n + (m - n) = m
          BY <4>1
        <5>2. QED
          BY <4>2, <4>5, <5>1
      <4>7. \A i \in 1 .. (m - n) : V[i] = (g + (i - 1)) % M
        <5> TAKE i \in 1 .. (m - n)
        <5>1. (i - 1) \in Int /\ n + (i - 1) = (n + i) - 1 /\ n + i \in 1 .. m
          BY <4>1
        <5>2. V[i] = (f + ((n + i) - 1)) % M
          BY <4>2, <4>4, <5>1
        <5>3. (g + (i - 1)) % M = (f + (n + (i - 1))) % M
          BY <4>5, <5>1
        <5>4. QED
          BY <5>1, <5>2, <5>3
      <4>8. QED
        BY <4>3, <4>4, <4>6, <4>7 DEF Expected, M
    <3>3. QED
      BY <3>1, <3>2
  <2>7. QED
    BY <2>2, <2>5, <2>6
<1>6. QED
  BY <1>3, <1>4, <1>5, StreamCases

\* The readers are held when a last pass over the inbox and the rotation found
\* both empty.
LEMMA HeldBegins ==
  ASSUME TypeOK, [Next]_vars, dispatcherPc' = "held", dispatcherPc # "held"
  PROVE  DispatchDrained /\ dispatcherPc = "holdAgain"
<1> USE DEF loopVars, vars, DispatcherAt
<1>1. ASSUME NEW p \in Panes, ReaderTop(p) PROVE DispatchDrained /\ dispatcherPc = "holdAgain"
  BY <1>1 DEF ReaderTop
<1>2. ASSUME NEW p \in Panes, ReaderUnpark(p) PROVE DispatchDrained /\ dispatcherPc = "holdAgain"
  BY <1>2 DEF ReaderUnpark
<1>3. ASSUME NEW p \in Panes, ReaderRung(p) PROVE DispatchDrained /\ dispatcherPc = "holdAgain"
  BY <1>3 DEF ReaderRung
<1>4. ASSUME NEW p \in Panes, ReaderDrained(p) PROVE DispatchDrained /\ dispatcherPc = "holdAgain"
  BY <1>4 DEF ReaderDrained
<1>5. ASSUME NEW p \in Panes, ReaderDeliver(p) PROVE DispatchDrained /\ dispatcherPc = "holdAgain"
  BY <1>5 DEF ReaderDeliver
<1>6. ASSUME NEW p \in Panes, ReaderFind(p) PROVE DispatchDrained /\ dispatcherPc = "holdAgain"
  BY <1>6 DEF ReaderFind
<1>7. ASSUME NEW p \in Panes, ReaderPush(p) PROVE DispatchDrained /\ dispatcherPc = "holdAgain"
  BY <1>7 DEF ReaderPush
<1>8. ASSUME NEW p \in Panes, ReaderPushExit(p) PROVE DispatchDrained /\ dispatcherPc = "holdAgain"
  BY <1>8 DEF ReaderPushExit
<1>9. ASSUME NEW p \in Panes, ReaderSendWake(p) PROVE DispatchDrained /\ dispatcherPc = "holdAgain"
  BY <1>9 DEF ReaderSendWake
<1>10. ASSUME NEW p \in Panes, ReaderUnregister(p) PROVE DispatchDrained /\ dispatcherPc = "holdAgain"
  BY <1>10 DEF ReaderUnregister
<1>11. ASSUME NEW p \in Panes, ReaderPublishExit(p) PROVE DispatchDrained /\ dispatcherPc = "holdAgain"
  BY <1>11 DEF ReaderPublishExit
<1>12. ASSUME NEW p \in Panes, ReaderRead(p) PROVE DispatchDrained /\ dispatcherPc = "holdAgain"
  BY <1>12 DEF ReaderRead
<1>13. ASSUME NEW p \in Panes, ReaderTerminalEnd(p) PROVE DispatchDrained /\ dispatcherPc = "holdAgain"
  BY <1>13 DEF ReaderTerminalEnd
<1>14. ASSUME NEW p \in Panes, ChildEnds(p) PROVE DispatchDrained /\ dispatcherPc = "holdAgain"
  BY <1>14 DEF ChildEnds
<1>15. ASSUME NEW p \in Panes, KillRemovedPane(p) PROVE DispatchDrained /\ dispatcherPc = "holdAgain"
  BY <1>15 DEF KillRemovedPane
<1>16. CASE DispatchEvent
  BY <1>16 DEF DispatchEvent
<1>17. CASE DispatchDrained
  BY <1>17 DEF DispatchDrained, AfterDrain, DrainPcs
<1>18. CASE DispatchUnregister
  BY <1>18 DEF DispatchUnregister
<1>19. CASE DispatchWake
  BY <1>19 DEF DispatchWake
<1>20. CASE DispatchTurn
  BY <1>20 DEF DispatchTurn
<1>21. CASE DispatchPassEnd
  BY <1>21 DEF DispatchPassEnd
<1>22. CASE PauseReaders
  BY <1>22 DEF PauseReaders
<1>23. CASE ServeHeldTurn
  BY <1>23 DEF ServeHeldTurn
<1>24. CASE RequeueHeld
  BY <1>24 DEF RequeueHeld
<1>25. CASE HeldServed
  BY <1>25 DEF HeldServed
<1>26. CASE AwaitParked
  BY <1>26 DEF AwaitParked
<1>27. CASE DispatchTimeout
  BY <1>27 DEF DispatchTimeout
<1>28. CASE HeldMore
  BY <1>28 DEF HeldMore
<1>29. CASE AbandonSwap
  BY <1>29 DEF AbandonSwap
<1>30. CASE ResumeReaders
  BY <1>30 DEF ResumeReaders
<1>31. CASE RebuildServer
  BY <1>31 DEF RebuildServer
<1>32. CASE ExecImage
  BY <1>32 DEF ExecImage
<1>33. CASE KillAllPanes
  BY <1>33 DEF KillAllPanes
<1>34. CASE DropServer
  BY <1>34 DEF DropServer
<1>35. ASSUME NEW e \in RuntimeEvents, e.kind # "readable", Request(e) PROVE DispatchDrained /\ dispatcherPc = "holdAgain"
  BY <1>35 DEF Request
<1>36. CASE UNCHANGED vars
  BY <1>36
<1>37. QED
  BY <1>1, <1>2, <1>3, <1>4, <1>5, <1>6, <1>7, <1>8, <1>9, <1>10, <1>11, <1>12, <1>13,
     <1>14, <1>15, <1>16, <1>17, <1>18, <1>19, <1>20, <1>21, <1>22, <1>23, <1>24,
     <1>25, <1>26, <1>27, <1>28, <1>29, <1>30, <1>31, <1>32, <1>33, <1>34, <1>35,
     <1>36, StepCases, Zenon

\* Every step keeps HeldIsDrained.
LEMMA DrainedStep ==
  ASSUME QueueInv, ExitIsInOrder, UnfedIsExpected, HeldIsDrained, [Next]_vars
  PROVE  HeldIsDrained'
<1> SUFFICES ASSUME dispatcherPc' = "held", NEW r \in live'
             PROVE  UnfedSerials(r)' = <<>>
  BY DEF HeldIsDrained
<1>1. TypeOK /\ StateTypes /\ ServerIsInOrder /\ SwapIsInOrder
  BY TypeParts DEF QueueInv
<1>2. dispatcherPc' \notin EndPcs
  BY DEF EndPcs
<1>3. CASE dispatcherPc = "held"
  <2>1. ~Turn
    BY <1>3 DEF Turn
  <2>2. \A p \in Panes : ~ReaderRead(p)
    BY <1>1, <1>3 DEF ReaderRead, SwapIsInOrder, IsEveryReaderParked, PumpPcs
  <2>3. Quiet
    BY <2>1, <2>2, StreamCases
  <2>4. r \in live /\ UnfedSerials(r)' = UnfedSerials(r)
    BY <1>2, <2>3, Zenon DEF Quiet
  <2>5. UnfedSerials(r) = <<>>
    BY <1>3, <2>4 DEF HeldIsDrained
  <2>6. QED
    BY <2>4, <2>5
<1>4. CASE dispatcherPc # "held"
  <2>1. DispatchDrained /\ dispatcherPc = "holdAgain"
    BY <1>1, <1>4, HeldBegins
  <2>2. /\ UNCHANGED <<readerPc, readerSlot, serial, queue, registry, live>>
        /\ inbox = <<>> /\ rotation = <<>>
    BY <2>1 DEF DispatchDrained, AfterDrain, readerVars, sharedVars, serverVars
  <2>3. servedPane = NoPane /\ IsEveryReaderParked /\ dispatcherPc \notin EndPcs
    BY <1>1, <2>1 DEF ServerIsInOrder, SwapIsInOrder, EndPcs
  <2>4. r \in live /\ r \in Panes
    BY <1>1, <2>2 DEF StateTypes
  <2>5. readerPc[r] \notin HandPcs /\ readerPc[r] # "wake"
    BY <2>3, <2>4 DEF IsEveryReaderParked, PumpPcs, HandPcs
  <2>6. ExitOK(r)
    BY <2>3, <2>4, Zenon DEF ExitIsInOrder, ExitOK
  <2>7. Queued(r) = <<>>
    <3>1. CASE registry[r] = NoSlot
      BY <3>1 DEF Queued
    <3>2. CASE registry[r] # NoSlot
      <4>1. PICK s \in Slots : s = registry[r]
        BY <1>1, <2>4, <3>2 DEF StateTypes
      <4>2. WakeSeen(r, s)
        BY <2>3, <2>4, Zenon DEF QueueInv, NoLostWake, WakeSeen
      <4>3. CASE queue[<<r, s>>].wakeSent
        <5>1. IsWakeOnItsWay(r, s)
          BY <4>2, <4>3 DEF WakeSeen
        <5>2. readerPc[r] = "exitWake" /\ readerSlot[r] = s
          BY <2>2, <2>3, <2>4, <2>5, <5>1, NoneAssumption DEF IsWakeOnItsWay
        <5>3. QED
          BY <2>6, <3>2, <4>1, <5>2 DEF ExitOK, Queued
      <4>4. CASE ~queue[<<r, s>>].wakeSent
        BY <3>2, <4>1, <4>2, <4>4 DEF WakeSeen, Queued
      <4>5. QED
        BY <4>3, <4>4
    <3>3. QED
      BY <3>1, <3>2
  <2>8. Queued(r)' = <<>> /\ Hand(r)' = <<>>
    BY <2>2, <2>5, <2>7 DEF Queued, Hand
  <2>9. Serials(Queued(r))' = <<>>
    BY <2>8 DEF Serials
  <2>10. UnfedSerials(r)' = <<>> \o <<>>
    BY <2>8, <2>9, UnfedParts, Zenon
  <2>11. QED
    BY <2>10
<1>5. QED
  BY <1>3, <1>4

\* At the start nothing is on its way.
LEMMA StreamInit == Init => StreamInv
<1> SUFFICES ASSUME Init PROVE StreamInv
  OBVIOUS
<1>1. ASSUME NEW p \in Panes PROVE UnfedSerials(p) = <<>>
  <2>1. Queued(p) = <<>> /\ Hand(p) = <<>>
    BY <1>1 DEF Init, Queued, Hand, HandPcs
  <2>2. Serials(Queued(p)) = <<>>
    BY <2>1 DEF Serials
  <2>3. UnfedSerials(p) = <<>> \o <<>>
    BY <2>1, <2>2, UnfedParts, Zenon
  <2>4. QED
    BY <2>3
<1>2. ExitIsInOrder
  BY DEF Init, ExitIsInOrder
<1>3. ExitRemoves
  BY DEF Init, ExitRemoves
<1>4. HeldIsDrained
  BY DEF Init, HeldIsDrained
<1>5. UnfedIsExpected
  <2>1. 0 % SerialModulus = 0 /\ Len(<<>>) = 0
    BY LimitAssumption, ModSmall
  <2>2. ASSUME NEW p \in Panes PROVE Expected(p)
    <3>1. fedSerial[p] = 0 /\ serial[p] = 0
      BY <2>2 DEF Init
    <3>2. QED
      BY <1>1, <2>1, <2>2, <3>1 DEF Expected
  <2>3. QED
    BY <2>2, Zenon DEF UnfedIsExpected, Expected, Init
<1>6. QED
  BY <1>2, <1>3, <1>4, <1>5 DEF StreamInv

\* Every step keeps PaneInv.
LEMMA PaneInvStep == PaneInv /\ [Next]_vars => PaneInv'
BY QueueInvStep, ExitStep, ExitRemovesStep, UnfedStep, DrainedStep DEF PaneInv, StreamInv

\* The inductive invariant of the output path: the queues and wakes, and for
\* each live pane the agreement of what its reader took off the terminal
\* (`pump_waited`) with what its engine is fed (`serve_output_turn`).
THEOREM PaneInvariant == Spec => []PaneInv
<1>1. Init => PaneInv
  BY QueueInit, StreamInit DEF PaneInv
<1>2. QED
  BY <1>1, PaneInvStep, PTL DEF Spec

-----------------------------------------------------------------------------
(* The stream each consumer is promised *)

\* The state of the abstract stream.
PhaseOf == [p \in Panes |-> StreamPhase(p)]
NextOf == [p \in Panes |-> CASE StreamPhase(p) = "open" -> serial[p]
                             [] StreamPhase(p) = "exited" -> fedSerial[p]
                             [] OTHER -> 0]
FedOf == [p \in Panes |-> IF StreamPhase(p) = "left" THEN 0 ELSE fedSerial[p]]
UnfedOf == [p \in Panes |-> IF StreamPhase(p) = "open" THEN UnfedSerials(p) ELSE <<>>]

\* The abstract stream of one pane, by its phase.
LEMMA PhaseCases ==
  ASSUME NEW p \in Panes, StateTypes, ExitRemoves
  PROVE  /\ PhaseOf[p] = StreamPhase(p)
         /\ \/ /\ PhaseOf[p] = "open" /\ p \in live /\ dispatcherPc \notin EndPcs /\ exitCount[p] = 0
               /\ NextOf[p] = serial[p] /\ FedOf[p] = fedSerial[p] /\ UnfedOf[p] = UnfedSerials(p)
            \/ /\ PhaseOf[p] = "exited" /\ p \notin live /\ exitCount[p] > 0
               /\ NextOf[p] = fedSerial[p] /\ FedOf[p] = fedSerial[p] /\ UnfedOf[p] = <<>>
            \/ /\ PhaseOf[p] = "left" /\ exitCount[p] = 0 /\ (p \notin live \/ dispatcherPc \in EndPcs)
               /\ NextOf[p] = 0 /\ FedOf[p] = 0 /\ UnfedOf[p] = <<>>
<1>1. exitCount[p] \in Nat /\ (exitCount[p] > 0 => p \notin live)
  BY DEF StateTypes, ExitRemoves
<1>2. /\ PhaseOf[p] = StreamPhase(p)
      /\ NextOf[p] = CASE StreamPhase(p) = "open" -> serial[p]
                       [] StreamPhase(p) = "exited" -> fedSerial[p]
                       [] OTHER -> 0
      /\ FedOf[p] = IF StreamPhase(p) = "left" THEN 0 ELSE fedSerial[p]
      /\ UnfedOf[p] = IF StreamPhase(p) = "open" THEN UnfedSerials(p) ELSE <<>>
  BY DEF PhaseOf, NextOf, FedOf, UnfedOf
<1>3. CASE exitCount[p] > 0
  <2>1. StreamPhase(p) = "exited"
    BY <1>1, <1>3, Zenon DEF StreamPhase
  <2>2. QED
    BY <1>1, <1>2, <1>3, <2>1
<1>4. CASE exitCount[p] = 0 /\ p \in live /\ dispatcherPc \notin EndPcs
  <2>1. StreamPhase(p) = "open"
    BY <1>4 DEF StreamPhase
  <2>2. QED
    BY <1>2, <1>4, <2>1
<1>5. CASE exitCount[p] = 0 /\ ~(p \in live /\ dispatcherPc \notin EndPcs)
  <2>1. StreamPhase(p) = "left"
    BY <1>5 DEF StreamPhase
  <2>2. QED
    BY <1>2, <1>5, <2>1
<1>6. QED
  BY <1>1, <1>3, <1>4, <1>5

\* The same of the state after a step.
LEMMA PhaseCasesNext ==
  ASSUME NEW p \in Panes, StateTypes', ExitRemoves'
  PROVE  \/ /\ PhaseOf'[p] = "open" /\ p \in live' /\ dispatcherPc' \notin EndPcs /\ exitCount'[p] = 0
            /\ NextOf'[p] = serial'[p] /\ FedOf'[p] = fedSerial'[p] /\ UnfedOf'[p] = UnfedSerials(p)'
         \/ /\ PhaseOf'[p] = "exited" /\ p \notin live' /\ exitCount'[p] > 0
            /\ NextOf'[p] = fedSerial'[p] /\ FedOf'[p] = fedSerial'[p] /\ UnfedOf'[p] = <<>>
         \/ /\ PhaseOf'[p] = "left" /\ exitCount'[p] = 0 /\ (p \notin live' \/ dispatcherPc' \in EndPcs)
            /\ NextOf'[p] = 0 /\ FedOf'[p] = 0 /\ UnfedOf'[p] = <<>>
<1>1. exitCount'[p] \in Nat /\ (exitCount'[p] > 0 => p \notin live')
  BY DEF StateTypes, ExitRemoves
<1>2. /\ PhaseOf'[p] = StreamPhase(p)'
      /\ NextOf'[p] = CASE StreamPhase(p)' = "open" -> serial'[p]
                       [] StreamPhase(p)' = "exited" -> fedSerial'[p]
                       [] OTHER -> 0
      /\ FedOf'[p] = IF StreamPhase(p)' = "left" THEN 0 ELSE fedSerial'[p]
      /\ UnfedOf'[p] = IF StreamPhase(p)' = "open" THEN UnfedSerials(p)' ELSE <<>>
  BY DEF PhaseOf, NextOf, FedOf, UnfedOf
<1>3. CASE exitCount'[p] > 0
  <2>1. StreamPhase(p)' = "exited"
    BY <1>1, <1>3, Zenon DEF StreamPhase
  <2>2. QED
    BY <1>1, <1>2, <1>3, <2>1
<1>4. CASE exitCount'[p] = 0 /\ p \in live' /\ dispatcherPc' \notin EndPcs
  <2>1. StreamPhase(p)' = "open"
    BY <1>4 DEF StreamPhase
  <2>2. QED
    BY <1>2, <1>4, <2>1
<1>5. CASE exitCount'[p] = 0 /\ ~(p \in live' /\ dispatcherPc' \notin EndPcs)
  <2>1. StreamPhase(p)' = "left"
    BY <1>5 DEF StreamPhase
  <2>2. QED
    BY <1>2, <1>5, <2>1
<1>6. QED
  BY <1>1, <1>3, <1>4, <1>5

\* The abstract stream's variables are functions on the panes.
LEMMA StreamFunctions ==
  /\ PhaseOf = [p \in Panes |-> PhaseOf[p]] /\ PhaseOf' = [p \in Panes |-> PhaseOf'[p]]
  /\ NextOf = [p \in Panes |-> NextOf[p]] /\ NextOf' = [p \in Panes |-> NextOf'[p]]
  /\ FedOf = [p \in Panes |-> FedOf[p]] /\ FedOf' = [p \in Panes |-> FedOf'[p]]
  /\ UnfedOf = [p \in Panes |-> UnfedOf[p]] /\ UnfedOf' = [p \in Panes |-> UnfedOf'[p]]
BY DEF PhaseOf, NextOf, FedOf, UnfedOf

\* A step that leaves every pane's stream alone is a step of the abstract
\* stream in which it stays as it is.
LEMMA StreamStays ==
  ASSUME \A p \in Panes : /\ PhaseOf'[p] = PhaseOf[p] /\ NextOf'[p] = NextOf[p]
                          /\ FedOf'[p] = FedOf[p] /\ UnfedOf'[p] = UnfedOf[p]
  PROVE  UNCHANGED Stream!vars
<1>1. PhaseOf' = PhaseOf /\ NextOf' = NextOf /\ FedOf' = FedOf /\ UnfedOf' = UnfedOf
  BY StreamFunctions
<1>2. QED
  BY <1>1, Zenon DEF Stream!vars, PhaseOf, NextOf, FedOf, UnfedOf

\* Panes that close, or the session's end, are panes leaving the stream.
LEMMA QuietRefines ==
  ASSUME PaneInv, PaneInv', Quiet
  PROVE  [Stream!Next]_(Stream!vars)
<1>1. StateTypes /\ ExitRemoves /\ StateTypes' /\ ExitRemoves'
  BY TypeParts DEF PaneInv, QueueInv, StreamInv, TypeOK, StateTypes
<1>0. PICK L \in SUBSET Panes : L = {p \in Panes : PhaseOf[p] = "open" /\ PhaseOf'[p] # "open"}
  <2>1. {p \in Panes : PhaseOf[p] = "open" /\ PhaseOf'[p] # "open"} \in SUBSET Panes
    OBVIOUS
  <2>2. QED
    BY <2>1
<1>2. ASSUME NEW p \in Panes
      PROVE  /\ p \in L => /\ PhaseOf[p] = "open" /\ PhaseOf'[p] = "left" /\ NextOf'[p] = 0
                           /\ FedOf'[p] = 0 /\ UnfedOf'[p] = <<>>
             /\ p \notin L => /\ PhaseOf'[p] = PhaseOf[p] /\ NextOf'[p] = NextOf[p]
                              /\ FedOf'[p] = FedOf[p] /\ UnfedOf'[p] = UnfedOf[p]
  <2>1. /\ live' \subseteq live /\ serial'[p] = serial[p] /\ fedSerial'[p] = fedSerial[p]
        /\ exitCount'[p] = exitCount[p]
        /\ dispatcherPc' \notin EndPcs => dispatcherPc \notin EndPcs
        /\ dispatcherPc' \notin EndPcs /\ p \in live' => UnfedSerials(p)' = UnfedSerials(p)
    BY DEF Quiet
  <2>2. \/ /\ PhaseOf[p] = "open" /\ p \in live /\ dispatcherPc \notin EndPcs /\ exitCount[p] = 0
           /\ NextOf[p] = serial[p] /\ FedOf[p] = fedSerial[p] /\ UnfedOf[p] = UnfedSerials(p)
        \/ /\ PhaseOf[p] = "exited" /\ p \notin live /\ exitCount[p] > 0
           /\ NextOf[p] = fedSerial[p] /\ FedOf[p] = fedSerial[p] /\ UnfedOf[p] = <<>>
        \/ /\ PhaseOf[p] = "left" /\ exitCount[p] = 0 /\ (p \notin live \/ dispatcherPc \in EndPcs)
           /\ NextOf[p] = 0 /\ FedOf[p] = 0 /\ UnfedOf[p] = <<>>
    BY <1>1, PhaseCases
  <2>3. \/ /\ PhaseOf'[p] = "open" /\ p \in live' /\ dispatcherPc' \notin EndPcs /\ exitCount'[p] = 0
           /\ NextOf'[p] = serial'[p] /\ FedOf'[p] = fedSerial'[p] /\ UnfedOf'[p] = UnfedSerials(p)'
        \/ /\ PhaseOf'[p] = "exited" /\ p \notin live' /\ exitCount'[p] > 0
           /\ NextOf'[p] = fedSerial'[p] /\ FedOf'[p] = fedSerial'[p] /\ UnfedOf'[p] = <<>>
        \/ /\ PhaseOf'[p] = "left" /\ exitCount'[p] = 0 /\ (p \notin live' \/ dispatcherPc' \in EndPcs)
           /\ NextOf'[p] = 0 /\ FedOf'[p] = 0 /\ UnfedOf'[p] = <<>>
    BY <1>1, PhaseCasesNext
  <2>4. p \in L <=> PhaseOf[p] = "open" /\ PhaseOf'[p] # "open"
    BY <1>0, <1>2
  <2>5. QED
    BY <2>1, <2>2, <2>3, <2>4
<1>3. CASE L = {}
  <2>1. \A p \in Panes : /\ PhaseOf'[p] = PhaseOf[p] /\ NextOf'[p] = NextOf[p]
                         /\ FedOf'[p] = FedOf[p] /\ UnfedOf'[p] = UnfedOf[p]
    BY <1>2, <1>3
  <2>2. QED
    BY <2>1, StreamStays, Zenon
<1>4. CASE L # {}
  <2>1. /\ PhaseOf' = [p \in Panes |-> IF p \in L THEN "left" ELSE PhaseOf[p]]
        /\ NextOf' = [p \in Panes |-> IF p \in L THEN 0 ELSE NextOf[p]]
        /\ FedOf' = [p \in Panes |-> IF p \in L THEN 0 ELSE FedOf[p]]
        /\ UnfedOf' = [p \in Panes |-> IF p \in L THEN <<>> ELSE UnfedOf[p]]
    BY <1>2, StreamFunctions
  <2>2. L \in SUBSET Panes /\ \A p \in L : PhaseOf[p] = "open"
    BY <1>0
  <2>3. Stream!Leave(L)
    BY <1>4, <2>1, <2>2, Zenon DEF Stream!Leave, PhaseOf, NextOf, FedOf, UnfedOf
  <2>4. QED
    BY <2>2, <2>3, Zenon DEF Stream!Next
<1>5. QED
  BY <1>3, <1>4

\* A chunk read off an open pane's terminal is a unit taken; of any other pane
\* it is nothing to the stream.
LEMMA ReadRefines ==
  ASSUME PaneInv, PaneInv', NEW p \in Panes, ReaderRead(p)
  PROVE  [Stream!Next]_(Stream!vars)
<1>1. StateTypes /\ ExitRemoves /\ StateTypes' /\ ExitRemoves' /\ TypeOK
  BY TypeParts DEF PaneInv, QueueInv, StreamInv, TypeOK, StateTypes
<1>2. /\ UNCHANGED <<live, fedSerial, exitCount, dispatcherPc>>
      /\ serial' = [serial EXCEPT ![p] = (serial[p] + 1) % SerialModulus]
      /\ UnfedSerials(p)' = Append(UnfedSerials(p), serial[p])
      /\ \A r \in Panes : r # p => UnfedSerials(r)' = UnfedSerials(r)
  BY <1>1, ReadFacts
<1>3. ASSUME NEW r \in Panes
      PROVE  /\ PhaseOf'[r] = PhaseOf[r] /\ FedOf'[r] = FedOf[r]
             /\ PhaseOf[r] # "open" => NextOf'[r] = NextOf[r] /\ UnfedOf'[r] = UnfedOf[r]
             /\ PhaseOf[r] = "open" =>
                  /\ NextOf[r] = serial[r] /\ NextOf'[r] = serial'[r]
                  /\ UnfedOf[r] = UnfedSerials(r) /\ UnfedOf'[r] = UnfedSerials(r)'
  <2>1. \/ /\ PhaseOf[r] = "open" /\ r \in live /\ dispatcherPc \notin EndPcs /\ exitCount[r] = 0
           /\ NextOf[r] = serial[r] /\ FedOf[r] = fedSerial[r] /\ UnfedOf[r] = UnfedSerials(r)
        \/ /\ PhaseOf[r] = "exited" /\ r \notin live /\ exitCount[r] > 0
           /\ NextOf[r] = fedSerial[r] /\ FedOf[r] = fedSerial[r] /\ UnfedOf[r] = <<>>
        \/ /\ PhaseOf[r] = "left" /\ exitCount[r] = 0 /\ (r \notin live \/ dispatcherPc \in EndPcs)
           /\ NextOf[r] = 0 /\ FedOf[r] = 0 /\ UnfedOf[r] = <<>>
    BY <1>1, PhaseCases
  <2>2. \/ /\ PhaseOf'[r] = "open" /\ r \in live' /\ dispatcherPc' \notin EndPcs /\ exitCount'[r] = 0
           /\ NextOf'[r] = serial'[r] /\ FedOf'[r] = fedSerial'[r] /\ UnfedOf'[r] = UnfedSerials(r)'
        \/ /\ PhaseOf'[r] = "exited" /\ r \notin live' /\ exitCount'[r] > 0
           /\ NextOf'[r] = fedSerial'[r] /\ FedOf'[r] = fedSerial'[r] /\ UnfedOf'[r] = <<>>
        \/ /\ PhaseOf'[r] = "left" /\ exitCount'[r] = 0 /\ (r \notin live' \/ dispatcherPc' \in EndPcs)
           /\ NextOf'[r] = 0 /\ FedOf'[r] = 0 /\ UnfedOf'[r] = <<>>
    BY <1>1, PhaseCasesNext
  <2>3. QED
    BY <1>2, <2>1, <2>2
<1>4. CASE PhaseOf[p] # "open"
  <2>1. \A r \in Panes : r # p => serial'[r] = serial[r]
    BY <1>1, <1>2 DEF StateTypes
  <2>2. \A r \in Panes : /\ PhaseOf'[r] = PhaseOf[r] /\ NextOf'[r] = NextOf[r]
                         /\ FedOf'[r] = FedOf[r] /\ UnfedOf'[r] = UnfedOf[r]
    <3> TAKE r \in Panes
    <3>1. CASE PhaseOf[r] = "open"
      BY <1>2, <1>3, <1>4, <2>1, <3>1
    <3>2. CASE PhaseOf[r] # "open"
      BY <1>3, <3>2
    <3>3. QED
      BY <3>1, <3>2
  <2>3. QED
    BY <2>2, StreamStays, Zenon
<1>5. CASE PhaseOf[p] = "open"
  <2>1. PhaseOf' = PhaseOf /\ FedOf' = FedOf
    BY <1>3, StreamFunctions
  <2>2. NextOf' = [NextOf EXCEPT ![p] = (NextOf[p] + 1) % SerialModulus]
    <3>1. \A r \in Panes : NextOf'[r] = IF r = p THEN (NextOf[p] + 1) % SerialModulus ELSE NextOf[r]
      <4> TAKE r \in Panes
      <4>1. serial'[r] = IF r = p THEN (serial[p] + 1) % SerialModulus ELSE serial[r]
        BY <1>1, <1>2 DEF StateTypes
      <4>2. CASE PhaseOf[r] = "open"
        BY <1>3, <1>5, <4>1, <4>2
      <4>3. CASE PhaseOf[r] # "open"
        BY <1>3, <1>5, <4>3
      <4>4. QED
        BY <4>2, <4>3
    <3>2. QED
      BY <3>1, StreamFunctions
  <2>3. UnfedOf' = [UnfedOf EXCEPT ![p] = Append(UnfedOf[p], NextOf[p])]
    <3>1. \A r \in Panes : UnfedOf'[r] = IF r = p THEN Append(UnfedOf[p], NextOf[p]) ELSE UnfedOf[r]
      <4> TAKE r \in Panes
      <4>1. CASE r = p
        BY <1>2, <1>3, <1>5, <4>1
      <4>2. CASE r # p /\ PhaseOf[r] = "open"
        BY <1>2, <1>3, <4>2
      <4>3. CASE r # p /\ PhaseOf[r] # "open"
        BY <1>3, <4>3
      <4>4. QED
        BY <4>1, <4>2, <4>3
    <3>2. QED
      BY <3>1, StreamFunctions
  <2>4. UnfedOf[p] \o [i \in 1 .. 1 |-> (NextOf[p] + i - 1) % SerialModulus] = Append(UnfedOf[p], NextOf[p])
    <3>1. NextOf[p] \in SerialSet /\ UnfedOf[p] \in Seq(SerialSet) /\ SerialModulus \in Nat \ {0}
      BY <1>1, <1>3, <1>5, UnfedTypes, LimitAssumption, ZenonT(60) DEF StateTypes, SerialSet
    <3>2. (NextOf[p] + 1 - 1) % SerialModulus = NextOf[p]
      <4>1. NextOf[p] + 1 - 1 = NextOf[p]
        BY <3>1 DEF SerialSet
      <4>2. QED
        BY <3>1, <4>1, ModSmall DEF SerialSet
    <3>3. [i \in 1 .. 1 |-> (NextOf[p] + i - 1) % SerialModulus] = <<NextOf[p]>>
      BY <3>1, <3>2
    <3>4. QED
      BY <3>1, <3>3
  <2>5. Stream!Take(p, 1)
    BY <1>5, <2>1, <2>2, <2>3, <2>4, Zenon DEF Stream!Take, PhaseOf, NextOf, FedOf, UnfedOf
  <2>6. 1 \in 1 .. SerialModulus
    BY LimitAssumption
  <2>7. QED
    BY <2>5, <2>6, Zenon DEF Stream!Next
<1>6. QED
  BY <1>4, <1>5

\* A turn feeds the oldest units of one pane, or all of them and the exit.
LEMMA TurnRefines ==
  ASSUME PaneInv, PaneInv', Turn
  PROVE  [Stream!Next]_(Stream!vars)
<1>1. /\ StateTypes /\ ExitRemoves /\ StateTypes' /\ ExitRemoves' /\ TypeOK
      /\ QueueInv /\ ExitIsInOrder /\ UnfedIsExpected /\ SerialModulus \in Nat \ {0}
  BY TypeParts, LimitAssumption DEF PaneInv, QueueInv, StreamInv, TypeOK, StateTypes
<1>2. /\ dispatcherPc \notin EndPcs /\ dispatcherPc' \notin EndPcs
      /\ UNCHANGED <<registry, serial, readerPc>>
  BY DEF Turn, EndPcs
<1>3. ASSUME NEW r \in Panes
      PROVE  /\ \/ /\ PhaseOf[r] = "open" /\ r \in live /\ exitCount[r] = 0
                   /\ NextOf[r] = serial[r] /\ FedOf[r] = fedSerial[r] /\ UnfedOf[r] = UnfedSerials(r)
                \/ /\ PhaseOf[r] = "exited" /\ r \notin live /\ exitCount[r] > 0
                   /\ NextOf[r] = fedSerial[r] /\ FedOf[r] = fedSerial[r] /\ UnfedOf[r] = <<>>
                \/ /\ PhaseOf[r] = "left" /\ exitCount[r] = 0 /\ r \notin live
                   /\ NextOf[r] = 0 /\ FedOf[r] = 0 /\ UnfedOf[r] = <<>>
             /\ \/ /\ PhaseOf'[r] = "open" /\ r \in live' /\ exitCount'[r] = 0
                   /\ NextOf'[r] = serial[r] /\ FedOf'[r] = fedSerial'[r] /\ UnfedOf'[r] = UnfedSerials(r)'
                \/ /\ PhaseOf'[r] = "exited" /\ r \notin live' /\ exitCount'[r] > 0
                   /\ NextOf'[r] = fedSerial'[r] /\ FedOf'[r] = fedSerial'[r] /\ UnfedOf'[r] = <<>>
                \/ /\ PhaseOf'[r] = "left" /\ exitCount'[r] = 0 /\ r \notin live'
                   /\ NextOf'[r] = 0 /\ FedOf'[r] = 0 /\ UnfedOf'[r] = <<>>
  <2>1. \/ /\ PhaseOf[r] = "open" /\ r \in live /\ dispatcherPc \notin EndPcs /\ exitCount[r] = 0
           /\ NextOf[r] = serial[r] /\ FedOf[r] = fedSerial[r] /\ UnfedOf[r] = UnfedSerials(r)
        \/ /\ PhaseOf[r] = "exited" /\ r \notin live /\ exitCount[r] > 0
           /\ NextOf[r] = fedSerial[r] /\ FedOf[r] = fedSerial[r] /\ UnfedOf[r] = <<>>
        \/ /\ PhaseOf[r] = "left" /\ exitCount[r] = 0 /\ (r \notin live \/ dispatcherPc \in EndPcs)
           /\ NextOf[r] = 0 /\ FedOf[r] = 0 /\ UnfedOf[r] = <<>>
    BY <1>1, PhaseCases
  <2>2. \/ /\ PhaseOf'[r] = "open" /\ r \in live' /\ dispatcherPc' \notin EndPcs /\ exitCount'[r] = 0
           /\ NextOf'[r] = serial'[r] /\ FedOf'[r] = fedSerial'[r] /\ UnfedOf'[r] = UnfedSerials(r)'
        \/ /\ PhaseOf'[r] = "exited" /\ r \notin live' /\ exitCount'[r] > 0
           /\ NextOf'[r] = fedSerial'[r] /\ FedOf'[r] = fedSerial'[r] /\ UnfedOf'[r] = <<>>
        \/ /\ PhaseOf'[r] = "left" /\ exitCount'[r] = 0 /\ (r \notin live' \/ dispatcherPc' \in EndPcs)
           /\ NextOf'[r] = 0 /\ FedOf'[r] = 0 /\ UnfedOf'[r] = <<>>
    BY <1>1, PhaseCasesNext
  <2>3. QED
    BY <1>2, <2>1, <2>2
<1>4. PICK p : p = Head(rotation)
  OBVIOUS
<1>5. \/ UNCHANGED <<live, fedSerial, exitCount, queue, registry, serial, readerPc>>
      \/ /\ p \in live
         /\ \A r \in live' : r # p => UnfedSerials(r)' = UnfedSerials(r)
         /\ \E n \in 0 .. Len(UnfedSerials(p)) :
              /\ fedSerial' = [fedSerial EXCEPT ![p] = (fedSerial[p] + n) % SerialModulus]
              /\ \/ /\ UNCHANGED <<live, exitCount>>
                    /\ UnfedSerials(p)' = SubSeq(UnfedSerials(p), n + 1, Len(UnfedSerials(p)))
                 \/ /\ live' = live \ {p} /\ n = Len(UnfedSerials(p))
                    /\ exitCount' = [exitCount EXCEPT ![p] = @ + 1]
  BY <1>1, <1>4, TurnStream, Zenon
<1>6. CASE UNCHANGED <<live, fedSerial, exitCount, queue, registry, serial, readerPc>>
  <2>1. \A r \in Panes : /\ PhaseOf'[r] = PhaseOf[r] /\ NextOf'[r] = NextOf[r]
                         /\ FedOf'[r] = FedOf[r] /\ UnfedOf'[r] = UnfedOf[r]
    <3> TAKE r \in Panes
    <3>1. UnfedSerials(r)' = UnfedSerials(r)
      BY <1>6, SameUnfed
    <3>2. QED
      BY <1>3, <1>6, <3>1
  <2>2. QED
    BY <2>1, StreamStays, Zenon
<1>7. ASSUME p \in live,
             \A r \in live' : r # p => UnfedSerials(r)' = UnfedSerials(r),
             NEW n \in 0 .. Len(UnfedSerials(p)),
             fedSerial' = [fedSerial EXCEPT ![p] = (fedSerial[p] + n) % SerialModulus],
             \/ /\ UNCHANGED <<live, exitCount>>
                /\ UnfedSerials(p)' = SubSeq(UnfedSerials(p), n + 1, Len(UnfedSerials(p)))
             \/ /\ live' = live \ {p} /\ n = Len(UnfedSerials(p))
                /\ exitCount' = [exitCount EXCEPT ![p] = @ + 1]
      PROVE  [Stream!Next]_(Stream!vars)
  <2>1. /\ p \in Panes /\ fedSerial[p] \in 0 .. (SerialModulus - 1)
        /\ UnfedSerials(p) \in Seq(SerialSet) /\ Len(UnfedSerials(p)) \in Nat
    <3>1. p \in Panes
      BY <1>1, <1>7 DEF StateTypes
    <3>2. UnfedSerials(p) \in Seq(SerialSet)
      BY <1>1, <3>1, UnfedTypes
    <3>3. QED
      BY <1>1, <3>1, <3>2 DEF StateTypes
  <2>2. Expected(p)
    BY <1>1, <1>2, <1>7, Zenon DEF UnfedIsExpected, Expected
  <2>3. /\ PhaseOf[p] = "open" /\ NextOf[p] = serial[p] /\ FedOf[p] = fedSerial[p]
        /\ UnfedOf[p] = UnfedSerials(p)
    BY <1>3, <1>7, <2>1
  <2>4. fedSerial'[p] = (fedSerial[p] + n) % SerialModulus
    BY <1>1, <1>7, <2>1 DEF StateTypes
  <2>5. ASSUME NEW r \in Panes, r # p
        PROVE  /\ PhaseOf'[r] = PhaseOf[r] /\ NextOf'[r] = NextOf[r]
               /\ FedOf'[r] = FedOf[r] /\ UnfedOf'[r] = UnfedOf[r]
    <3>1. /\ fedSerial'[r] = fedSerial[r] /\ exitCount'[r] = exitCount[r]
          /\ (r \in live' <=> r \in live) /\ (r \in live' => UnfedSerials(r)' = UnfedSerials(r))
      BY <1>1, <1>7, <2>5 DEF StateTypes
    <3>2. QED
      BY <1>3, <3>1
  <2>6. \A i \in 1 .. n : UnfedOf[p][i] = (FedOf[p] + i - 1) % SerialModulus
    <3> TAKE i \in 1 .. n
    <3>1. i \in 1 .. Len(UnfedSerials(p)) /\ FedOf[p] + i - 1 = fedSerial[p] + (i - 1)
      BY <1>7, <2>1, <2>3
    <3>2. QED
      BY <2>2, <2>3, <3>1 DEF Expected
  <2>7. CASE /\ UNCHANGED <<live, exitCount>>
             /\ UnfedSerials(p)' = SubSeq(UnfedSerials(p), n + 1, Len(UnfedSerials(p)))
    <3>1. /\ PhaseOf'[p] = PhaseOf[p] /\ NextOf'[p] = NextOf[p]
          /\ FedOf'[p] = (FedOf[p] + n) % SerialModulus
          /\ UnfedOf'[p] = SubSeq(UnfedOf[p], n + 1, Len(UnfedOf[p]))
      BY <1>3, <1>7, <2>1, <2>3, <2>4, <2>7
    <3>2. CASE n = 0
      <4>1. (FedOf[p] + n) % SerialModulus = FedOf[p]
        <5>1. FedOf[p] + n = FedOf[p] /\ FedOf[p] \in 0 .. (SerialModulus - 1)
          BY <1>1, <2>1, <2>3, <3>2
        <5>2. FedOf[p] % SerialModulus = FedOf[p]
          BY <1>1, <5>1, ModSmall, Zenon
        <5>3. QED
          BY <5>1, <5>2, Zenon
      <4>2. SubSeq(UnfedOf[p], n + 1, Len(UnfedOf[p])) = UnfedOf[p]
        BY <2>1, <2>3, <3>2
      <4>3. \A r \in Panes : /\ PhaseOf'[r] = PhaseOf[r] /\ NextOf'[r] = NextOf[r]
                             /\ FedOf'[r] = FedOf[r] /\ UnfedOf'[r] = UnfedOf[r]
        BY <2>5, <3>1, <4>1, <4>2
      <4>4. QED
        BY <4>3, StreamStays, Zenon
    <3>3. CASE n # 0
      <4>1. PhaseOf' = PhaseOf /\ NextOf' = NextOf
        BY <2>5, <3>1, StreamFunctions
      <4>2. FedOf' = [FedOf EXCEPT ![p] = (FedOf[p] + n) % SerialModulus]
        BY <2>1, <2>5, <3>1, StreamFunctions
      <4>3. UnfedOf' = [UnfedOf EXCEPT ![p] = SubSeq(UnfedOf[p], n + 1, Len(UnfedOf[p]))]
        BY <2>1, <2>5, <3>1, StreamFunctions
      <4>4. Stream!Feed(p, n)
        BY <2>3, <2>6, <4>1, <4>2, <4>3, Zenon
           DEF Stream!Feed, Stream!FeedUnits, PhaseOf, NextOf, FedOf, UnfedOf
      <4>5. n \in 1 .. Len(UnfedOf[p])
        BY <1>7, <2>1, <2>3, <3>3
      <4>6. QED
        BY <2>1, <4>4, <4>5, Zenon DEF Stream!Next, UnfedOf
    <3>4. QED
      BY <3>2, <3>3
  <2>8. CASE /\ live' = live \ {p} /\ n = Len(UnfedSerials(p))
             /\ exitCount' = [exitCount EXCEPT ![p] = @ + 1]
    <3>1. exitCount'[p] > 0
      BY <1>1, <2>1, <2>8 DEF StateTypes
    <3>2. serial[p] = (fedSerial[p] + n) % SerialModulus
      BY <2>2, <2>8 DEF Expected
    <3>3. /\ PhaseOf'[p] = "exited" /\ NextOf'[p] = NextOf[p]
          /\ FedOf'[p] = (FedOf[p] + n) % SerialModulus /\ UnfedOf'[p] = <<>>
      BY <1>3, <2>1, <2>3, <2>4, <3>1, <3>2
    <3>4. SubSeq(UnfedOf[p], n + 1, Len(UnfedOf[p])) = <<>>
      BY <2>1, <2>3, <2>8
    <3>5. /\ PhaseOf' = [PhaseOf EXCEPT ![p] = "exited"] /\ NextOf' = NextOf
          /\ FedOf' = [FedOf EXCEPT ![p] = (FedOf[p] + n) % SerialModulus]
          /\ UnfedOf' = [UnfedOf EXCEPT ![p] = SubSeq(UnfedOf[p], n + 1, Len(UnfedOf[p]))]
      BY <2>1, <2>5, <3>3, <3>4, StreamFunctions
    <3>6. n = Len(UnfedOf[p])
      BY <2>3, <2>8
    <3>7. Stream!Exit(p)
      BY <2>3, <2>6, <3>5, <3>6, Zenon
         DEF Stream!Exit, Stream!FeedUnits, PhaseOf, NextOf, FedOf, UnfedOf
    <3>8. QED
      BY <2>1, <3>7, Zenon DEF Stream!Next
  <2>9. QED
    BY <1>7, <2>7, <2>8
<1>8. QED
  BY <1>5, <1>6, <1>7

\* At the start every pane's stream is open and empty.
LEMMA StreamInitRefines == Init => Stream!Init
<1> SUFFICES ASSUME Init PROVE Stream!Init
  OBVIOUS
<1>1. StreamInv /\ StateTypes
  BY StreamInit, QueueInit, TypeParts DEF QueueInv
<1>2. \A p \in Panes : /\ PhaseOf[p] = "open" /\ NextOf[p] = 0 /\ FedOf[p] = 0 /\ UnfedOf[p] = <<>>
  <2> TAKE p \in Panes
  <2>1. exitCount[p] = 0 /\ p \in live /\ dispatcherPc = "wait" /\ serial[p] = 0 /\ fedSerial[p] = 0
    BY DEF Init
  <2>2. UnfedSerials(p) = <<>>
    <3>1. Queued(p) = <<>> /\ Hand(p) = <<>>
      BY DEF Init, Queued, Hand, HandPcs
    <3>2. Serials(Queued(p)) = <<>>
      BY <3>1 DEF Serials
    <3>3. UnfedSerials(p) = <<>> \o <<>>
      BY <3>1, <3>2, UnfedParts, Zenon
    <3>4. QED
      BY <3>3
  <2>3. QED
    BY <1>1, <2>1, <2>2, PhaseCases DEF EndPcs, StreamInv
<1>3. /\ PhaseOf = [p \in Panes |-> "open"] /\ NextOf = [p \in Panes |-> 0]
      /\ FedOf = [p \in Panes |-> 0] /\ UnfedOf = [p \in Panes |-> <<>>]
  BY <1>2, StreamFunctions
<1>4. QED
  BY <1>3, Zenon DEF Stream!Init, PhaseOf, NextOf, FedOf, UnfedOf

\* The queues, wakes, turns and image swaps (`pty_inbox.rs`, `pump_waited`,
\* `serve_output_turn`, `swap_session_image`) give each live pane's engine its
\* terminal's output once and in order and its exit once and after it, for any
\* number of panes, queue places, chunk lengths and limits.
THEOREM OutputStreamImplemented == Spec => ImplementsOutputStream
<1>1. PaneInv /\ PaneInv' /\ [Next]_vars => [Stream!Next]_(Stream!vars)
  BY StreamCases, QuietRefines, ReadRefines, TurnRefines DEF PaneInv, StreamInv
<1>2. QED
  BY <1>1, StreamInitRefines, PaneInvariant, PTL DEF Spec, ImplementsOutputStream, Stream!Spec

=============================================================================
