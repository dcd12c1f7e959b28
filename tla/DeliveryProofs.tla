--------------------------- MODULE DeliveryProofs ---------------------------
(***************************************************************************)
(* Proofs about Delivery, for any clients, any capacity of the queues, any *)
(* limits and any inputs: the queues stay consistent, no client is left    *)
(* behind while the dispatcher sleeps, what a client reads is continuous,  *)
(* and the requests of a session that ends precede its last frame.         *)
(***************************************************************************)
EXTENDS Delivery, WellFoundedInduction, TLAPS

-----------------------------------------------------------------------------
(* Numbers *)

NatLess == {ss \in Nat \X Nat : ss[1] < ss[2]}

\* A set of naturals has a least element: what the inductions below rest on.
LEMMA NatLeast ==
  ASSUME NEW T \in SUBSET Nat, T # {}
  PROVE  \E m \in T : \A k \in T : m <= k
<1>1. IsWellFoundedOn(NatLess, Nat)
  BY NatLessThanWellFounded DEF OpToRel, NatLess
<1>2. PICK x \in T : \A y \in T : <<y, x>> \notin NatLess
  BY <1>1, WFMin
<1>3. \A y \in T : ~(y < x)
  <2> TAKE y \in T
  <2>1. <<y, x>> \in Nat \X Nat /\ <<y, x>>[1] = y /\ <<y, x>>[2] = x
    OBVIOUS
  <2>2. QED
    BY <1>2, <2>1, Zenon DEF NatLess
<1>4. QED
  BY <1>3

\* Induction up to a bound, over the set of the numbers that have a property.
LEMMA IntervalInduction ==
  ASSUME NEW b \in Nat, NEW Good, 0 \in Good, \A n \in 1 .. b : n - 1 \in Good => n \in Good
  PROVE  \A n \in 0 .. b : n \in Good
<1> DEFINE Bad == {n \in 0 .. b : n \notin Good}
<1>1. SUFFICES ASSUME Bad # {} PROVE FALSE
  OBVIOUS
<1>2. PICK n \in Bad : \A k \in Bad : n <= k
  <2>1. Bad \in SUBSET Nat
    OBVIOUS
  <2> HIDE DEF Bad
  <2>2. QED
    BY <1>1, <2>1, NatLeast
<1>3. n \in 1 .. b /\ n - 1 \in 0 .. b /\ n - 1 \notin Bad
  BY <1>2
<1>4. QED
  BY <1>2, <1>3

\* A bounded set of naturals has a greatest element.
LEMMA NatGreatest ==
  ASSUME NEW T \in SUBSET Nat, T # {}, NEW b \in Nat, \A k \in T : k <= b
  PROVE  \E m \in T : \A k \in T : k <= m
<1> DEFINE D == {b - k : k \in T}
<1>1. D \in SUBSET Nat /\ D # {}
  <2>1. \A k \in T : b - k \in Nat
    OBVIOUS
  <2>2. QED
    BY <2>1
<1>2. PICK d \in D : \A e \in D : d <= e
  BY <1>1, NatLeast
<1>3. PICK m \in T : d = b - m
  OBVIOUS
<1>4. \A k \in T : d <= b - k
  BY <1>2
<1>5. QED
  BY <1>3, <1>4

-----------------------------------------------------------------------------
(* Sums *)

AreNumbers(s) == Len(s) \in Nat /\ \A i \in 1 .. Len(s) : s[i] \in Nat

\* f holds the sums of the first numbers of s, up to the first n.
IsRunningSum(f, s, n) ==
  /\ f \in [0 .. n -> Nat]
  /\ f[0] = 0
  /\ \A i \in 1 .. n : f[i] = f[i - 1] + s[i]

\* Running sums exist for every length.
LEMMA RunningSumExists ==
  ASSUME NEW s, AreNumbers(s)
  PROVE  \E f : IsRunningSum(f, s, Len(s))
<1> DEFINE Good == {n \in Nat : \E f : IsRunningSum(f, s, n)}
<1>1. Len(s) \in Nat /\ \A i \in 1 .. Len(s) : s[i] \in Nat
  BY DEF AreNumbers
<1>2. 0 \in Good
  <2>1. IsRunningSum([i \in 0 .. 0 |-> 0], s, 0)
    BY DEF IsRunningSum
  <2>2. QED
    BY <2>1
<1>3. ASSUME NEW n \in 1 .. Len(s), n - 1 \in Good PROVE n \in Good
  <2>1. PICK f : IsRunningSum(f, s, n - 1)
    BY <1>3
  <2> DEFINE g == [i \in 0 .. n |-> IF i = n THEN f[n - 1] + s[n] ELSE f[i]]
  <2>2. IsRunningSum(g, s, n)
    BY <1>1, <2>1, SMTT(60) DEF IsRunningSum
  <2>3. QED
    BY <2>2, <1>1
<1>4. Len(s) \in Good
  <2> HIDE DEF Good
  <2>1. \A n \in 1 .. Len(s) : n - 1 \in Good => n \in Good
    BY <1>3
  <2>2. \A n \in 0 .. Len(s) : n \in Good
    BY <1>1, <1>2, <2>1, IntervalInduction, Zenon
  <2>3. QED
    BY <1>1, <2>2
<1>5. QED
  BY <1>4

\* SumUpTo gives the running sums.
LEMMA SumUpToIsSum ==
  ASSUME NEW s, AreNumbers(s)
  PROVE  IsRunningSum(SumUpTo(s), s, Len(s))
<1> DEFINE Eqn(f) == f = [n \in 0 .. Len(s) |-> IF n = 0 THEN 0 ELSE f[n - 1] + s[n]]
<1>0. Len(s) \in Nat /\ \A i \in 1 .. Len(s) : s[i] \in Nat
  BY DEF AreNumbers
<1>1. PICK g : IsRunningSum(g, s, Len(s))
  BY RunningSumExists
<1>2. Eqn(g)
  BY <1>0, <1>1 DEF IsRunningSum
<1>3. SumUpTo(s) = CHOOSE f : Eqn(f)
  BY DEF SumUpTo
<1>4. Eqn(SumUpTo(s))
  BY <1>2, <1>3
<1> DEFINE f == SumUpTo(s)
<1>5. DOMAIN f = 0 .. Len(s) /\ f[0] = 0 /\ \A i \in 1 .. Len(s) : f[i] = f[i - 1] + s[i]
  BY <1>0, <1>4
<1> DEFINE Good == {n \in 0 .. Len(s) : f[n] \in Nat}
<1>6. \A n \in 0 .. Len(s) : n \in Good
  <2>1. 0 \in Good
    BY <1>0, <1>5
  <2>2. \A n \in 1 .. Len(s) : n - 1 \in Good => n \in Good
    BY <1>0, <1>5
  <2> HIDE DEF Good
  <2>3. QED
    BY <1>0, <2>1, <2>2, IntervalInduction
<1>7. f \in [0 .. Len(s) -> Nat]
  BY <1>4, <1>6
<1>8. QED
  BY <1>5, <1>7 DEF IsRunningSum

\* The sums of a stretch of s, which starts after its first a numbers.
LEMMA SumsOfStretch ==
  ASSUME NEW s, NEW t, AreNumbers(s), AreNumbers(t), NEW a \in 0 .. Len(s), NEW m \in Nat,
         m <= Len(t), a + m <= Len(s), \A k \in 1 .. m : t[k] = s[a + k]
  PROVE  SumUpTo(t)[m] = SumUpTo(s)[a + m] - SumUpTo(s)[a]
<1> DEFINE f == SumUpTo(s)  g == SumUpTo(t)
<1>1. IsRunningSum(f, s, Len(s)) /\ IsRunningSum(g, t, Len(t))
  BY SumUpToIsSum
<1>2. /\ f \in [0 .. Len(s) -> Nat] /\ g \in [0 .. Len(t) -> Nat]
      /\ f[0] = 0 /\ g[0] = 0
      /\ \A i \in 1 .. Len(s) : f[i] = f[i - 1] + s[i]
      /\ \A i \in 1 .. Len(t) : g[i] = g[i - 1] + t[i]
      /\ Len(s) \in Nat /\ Len(t) \in Nat
  BY <1>1 DEF IsRunningSum, AreNumbers
<1>3. \A i \in 1 .. Len(s) : s[i] \in Nat
  BY DEF AreNumbers
<1> HIDE DEF f, g
<1> DEFINE Good == {n \in 0 .. m : g[n] = f[a + n] - f[a]}
<1>4. 0 \in Good
  <2>1. a + 0 = a /\ f[a] \in Nat
    BY <1>2
  <2>2. QED
    BY <1>2, <2>1
<1>5. ASSUME NEW n \in 1 .. m, n - 1 \in Good PROVE n \in Good
  <2>1. g[n - 1] = f[a + (n - 1)] - f[a]
    BY <1>5
  <2>2. /\ a + n \in 1 .. Len(s) /\ n \in 1 .. Len(t) /\ a + (n - 1) = (a + n) - 1
        /\ a + (n - 1) \in 0 .. Len(s) /\ a \in 0 .. Len(s) /\ a + n \in 0 .. Len(s)
    BY <1>2
  <2>3. f[a + n] = f[a + (n - 1)] + s[a + n] /\ g[n] = g[n - 1] + t[n] /\ t[n] = s[a + n]
    BY <1>2, <2>2
  <2>4. f[a + (n - 1)] \in Nat /\ f[a] \in Nat /\ s[a + n] \in Nat
    BY <1>2, <1>3, <2>2
  <2>5. g[n] = f[a + n] - f[a]
    BY <2>1, <2>3, <2>4
  <2>6. QED
    BY <2>5
<1>6. m \in Good
  <2> HIDE DEF Good
  <2>1. \A n \in 1 .. m : n - 1 \in Good => n \in Good
    BY <1>5
  <2>2. \A n \in 0 .. m : n \in Good
    BY <1>4, <2>1, IntervalInduction, Zenon
  <2>3. QED
    BY <2>2
<1>7. QED
  BY <1>6 DEF f, g

\* Totals: of nothing, of one number more at either end.
LEMMA TotalEmpty == Total(<<>>) = 0
<1>1. AreNumbers(<<>>) /\ Len(<<>>) = 0
  BY DEF AreNumbers
<1>2. QED
  BY <1>1, SumUpToIsSum, Zenon DEF Total, IsRunningSum

\* A total of naturals is a natural.
LEMMA TotalNat ==
  ASSUME NEW s, AreNumbers(s)
  PROVE  Total(s) \in Nat
<1>1. Len(s) \in Nat
  BY DEF AreNumbers
<1>2. QED
  BY <1>1, SumUpToIsSum DEF Total, IsRunningSum

\* One number more at the end adds that number.
LEMMA TotalLast ==
  ASSUME NEW s, NEW t, AreNumbers(s), AreNumbers(t), NEW x \in Nat,
         Len(t) = Len(s) + 1, t[Len(t)] = x, \A k \in 1 .. Len(s) : s[k] = t[k]
  PROVE  Total(t) = Total(s) + x
<1>1. IsRunningSum(SumUpTo(t), t, Len(t)) /\ IsRunningSum(SumUpTo(s), s, Len(s))
  BY SumUpToIsSum
<1>2. /\ Len(s) \in Nat /\ 0 \in 0 .. Len(t) /\ Len(s) <= Len(s) /\ 0 + Len(s) <= Len(t)
      /\ \A k \in 1 .. Len(s) : s[k] = t[0 + k]
  BY DEF AreNumbers
<1>3. SumUpTo(s)[Len(s)] = SumUpTo(t)[0 + Len(s)] - SumUpTo(t)[0]
  BY <1>2, SumsOfStretch
<1>4. /\ SumUpTo(t)[Len(t)] = SumUpTo(t)[Len(s)] + x
      /\ SumUpTo(t)[Len(s)] \in Nat /\ SumUpTo(t)[0] = 0
  BY <1>1, <1>2, SMTT(60) DEF IsRunningSum
<1>5. QED
  BY <1>2, <1>3, <1>4 DEF Total

\* One number more at the front adds that number.
LEMMA TotalFirst ==
  ASSUME NEW s, NEW t, AreNumbers(s), AreNumbers(t), NEW x \in Nat,
         Len(t) = Len(s) + 1, t[1] = x, \A k \in 1 .. Len(s) : s[k] = t[1 + k]
  PROVE  Total(t) = x + Total(s)
<1>1. IsRunningSum(SumUpTo(t), t, Len(t)) /\ IsRunningSum(SumUpTo(s), s, Len(s))
  BY SumUpToIsSum
<1>2. /\ Len(s) \in Nat /\ 1 \in 0 .. Len(t) /\ 1 \in 1 .. Len(t) /\ 1 - 1 = 0
      /\ Len(s) <= Len(s) /\ 1 + Len(s) <= Len(t) /\ Len(t) = 1 + Len(s)
  BY DEF AreNumbers
<1>3. SumUpTo(s)[Len(s)] = SumUpTo(t)[1 + Len(s)] - SumUpTo(t)[1]
  <2>1. \A a \in 0 .. Len(t), m \in Nat :
          m <= Len(s) /\ a + m <= Len(t) /\ (\A k \in 1 .. m : s[k] = t[a + k]) =>
            SumUpTo(s)[m] = SumUpTo(t)[a + m] - SumUpTo(t)[a]
    BY SumsOfStretch
  <2>2. QED
    BY <1>2, <2>1
<1>4. SumUpTo(t)[1] = SumUpTo(t)[0] + t[1] /\ SumUpTo(t)[0] = 0
  BY <1>1, <1>2 DEF IsRunningSum
<1>5. SumUpTo(t)[Len(t)] \in Nat
  <2>1. Len(t) \in 0 .. Len(t)
    BY <1>2
  <2>2. QED
    BY <1>1, <2>1, Zenon DEF IsRunningSum
<1>6. QED
  BY <1>2, <1>3, <1>4, <1>5 DEF Total

-----------------------------------------------------------------------------
(* What is on its way to a client *)

Runs == [action : RejectedActions, repeats : Nat \ {0}]

PlainKinds == {"Answer", "Request", "HostWrite", "Ending", "None"}

\* The numbers that views and events have.
Numbers == 0 .. MaxInputs + 1

\* Whatever the session puts on a queue.
Messages ==
  [kind : {"Frame"}, view : Numbers] \cup [kind : {"Event"}, event : Numbers]
    \cup [kind : {"Rejection"}, action : RejectedActions]
    \cup [kind : PlainKinds]
    \cup [kind : {"Snapshot"}, view : Numbers, event : Numbers, held : Seq(Runs),
          droppedRuns : Nat]

\* Place i of a way: place 0 is the delivery `d` the writing thread took, and
\* the others are the places of the queue `q`.
At(d, q, i) == IF i = 0 THEN d ELSE q[i]

IsEventful(d) == d.kind \in {"Event", "Snapshot"}

\* A client that saw event `seen` reads no gap on this way: the events' numbers
\* grow, and the event before each one was seen or is on the way ahead of it.
EventsInOrder(seen, d, q) ==
  /\ \A i \in 0 .. Len(q) : IsEventful(At(d, q, i)) =>
       /\ seen <= At(d, q, i).event
       /\ At(d, q, i).kind = "Event" => seen < At(d, q, i).event
  /\ \A i, j \in 0 .. Len(q) :
       i < j /\ IsEventful(At(d, q, i)) /\ IsEventful(At(d, q, j)) =>
         /\ At(d, q, i).event <= At(d, q, j).event
         /\ At(d, q, j).kind = "Event" => At(d, q, i).event < At(d, q, j).event
  /\ \A j \in 0 .. Len(q) : At(d, q, j).kind = "Event" =>
       \/ At(d, q, j).event = seen + 1
       \/ \E i \in 0 .. Len(q) :
            i < j /\ IsEventful(At(d, q, i)) /\ At(d, q, j).event = At(d, q, i).event + 1

\* The way ends with event r.
ReachesEvent(r, seen, d, q) ==
  \/ seen = r
  \/ \E i \in 0 .. Len(q) : IsEventful(At(d, q, i)) /\ At(d, q, i).event = r

\* No frame on the way shows an older view than one ahead of it.
ViewsInOrder(d, q) ==
  \A i, j \in 0 .. Len(q) :
    i < j /\ IsFrameDelivery(At(d, q, i)) /\ IsFrameDelivery(At(d, q, j)) =>
      At(d, q, i).view <= At(d, q, j).view

\* A client that is shown view `shown` is not taken back.
ViewsAreNewer(shown, d, q) ==
  \A i \in 0 .. Len(q) : IsFrameDelivery(At(d, q, i)) => shown <= At(d, q, i).view

\* The way ends with view v; `last` is the view that was written last.
ReachesView(v, last, d, q) ==
  \/ \E i \in 0 .. Len(q) : IsFrameDelivery(At(d, q, i)) /\ At(d, q, i).view = v
  \/ last = v /\ \A i \in 0 .. Len(q) : ~IsFrameDelivery(At(d, q, i))

\* Nothing on the way is newer than view v and event r.
NothingNewer(v, r, d, q) ==
  \A i \in 0 .. Len(q) :
    /\ IsFrameDelivery(At(d, q, i)) => At(d, q, i).view <= v
    /\ IsEventful(At(d, q, i)) => At(d, q, i).event <= r

RejectionCount(q) == Total([i \in DOMAIN q |-> RejectionsIn(q[i])])
DroppedCount(q) == Total([i \in DOMAIN q |-> RunsDroppedIn(q[i])])

-----------------------------------------------------------------------------
(* Counting what is on the way *)

\* A sequence of naturals, given by a number for each place.
LEMMA NumbersOf ==
  ASSUME NEW n \in Nat, NEW f, f \in [1 .. n -> Nat]
  PROVE  AreNumbers(f) /\ Len(f) = n
<1>1. f \in Seq(Nat) /\ Len(f) = n
  OBVIOUS
<1>2. QED
  BY <1>1 DEF AreNumbers

\* The fields of a message have their types.
LEMMA MessageFacts ==
  ASSUME NEW d \in Messages
  PROVE  /\ IsFrameDelivery(d) => d.view \in Nat
         /\ IsEventful(d) => d.event \in Nat
         /\ d.kind = "Snapshot" => d.held \in Seq(Runs) /\ d.droppedRuns \in Nat
<1>1. Numbers \subseteq Nat
  BY BoundsAssumption DEF Numbers
<1>2. QED
  BY <1>1 DEF Messages, IsFrameDelivery, IsEventful, PlainKinds

\* The lengths of runs are naturals, and so is their total.
LEMMA RepeatsAreNumbers ==
  ASSUME NEW h \in Seq(Runs)
  PROVE  /\ [i \in DOMAIN h |-> h[i].repeats] \in [1 .. Len(h) -> Nat]
         /\ RepeatCount(h) \in Nat
<1> DEFINE f == [i \in DOMAIN h |-> h[i].repeats]
<1>1. DOMAIN h = 1 .. Len(h) /\ Len(h) \in Nat /\ \A i \in 1 .. Len(h) : h[i] \in Runs
  OBVIOUS
<1>2. \A r \in Runs : r.repeats \in Nat
  BY DEF Runs
<1>3. f \in [1 .. Len(h) -> Nat]
  BY <1>1, <1>2
<1> HIDE DEF f
<1>4. AreNumbers(f)
  BY <1>1, <1>3, NumbersOf
<1>5. Total(f) \in Nat
  BY <1>4, TotalNat
<1>6. QED
  BY <1>3, <1>5 DEF f, RepeatCount

\* What a message counts for is a natural.
LEMMA MessageCounts ==
  ASSUME NEW d \in Messages
  PROVE  RejectionsIn(d) \in Nat /\ RunsDroppedIn(d) \in Nat
<1>1. d.kind = "Snapshot" => RepeatCount(d.held) \in Nat /\ d.droppedRuns \in Nat
  BY MessageFacts, RepeatsAreNumbers
<1>2. QED
  BY <1>1 DEF RejectionsIn, RunsDroppedIn

\* The total of what the weights W give to the members of a sequence.
Weights(W, q) == [i \in DOMAIN q |-> W[q[i]]]
Weigh(W, q) == Total(Weights(W, q))

\* The weights of a sequence are naturals, and so is their total.
LEMMA WeightsAreNumbers ==
  ASSUME NEW S, NEW W \in [S -> Nat], NEW q \in Seq(S)
  PROVE  /\ AreNumbers(Weights(W, q)) /\ Len(Weights(W, q)) = Len(q)
         /\ Weigh(W, q) \in Nat
<1> DEFINE f == Weights(W, q)
<1>1. DOMAIN q = 1 .. Len(q) /\ Len(q) \in Nat /\ \A i \in 1 .. Len(q) : q[i] \in S
  OBVIOUS
<1>2. f \in [1 .. Len(q) -> Nat]
  BY <1>1 DEF Weights
<1> HIDE DEF f
<1>3. AreNumbers(f) /\ Len(f) = Len(q)
  BY <1>1, <1>2, NumbersOf
<1>4. Total(f) \in Nat
  BY <1>3, TotalNat
<1>5. QED
  BY <1>3, <1>4 DEF f, Weigh

\* The weight of a sequence with one member more at its end.
LEMMA WeighAppend ==
  ASSUME NEW S, NEW W \in [S -> Nat], NEW q \in Seq(S), NEW x \in S
  PROVE  Weigh(W, Append(q, x)) = Weigh(W, q) + W[x]
<1> DEFINE p == Append(q, x)
           f == Weights(W, q)
           g == Weights(W, p)
<1>1. /\ p \in Seq(S) /\ Len(q) \in Nat /\ Len(p) = Len(q) + 1 /\ p[Len(p)] = x
      /\ \A i \in 1 .. Len(q) : p[i] = q[i]
      /\ DOMAIN q = 1 .. Len(q) /\ DOMAIN p = 1 .. Len(p)
  OBVIOUS
<1> HIDE DEF p
<1>2. AreNumbers(f) /\ Len(f) = Len(q) /\ AreNumbers(g) /\ Len(g) = Len(p) /\ W[x] \in Nat
  <2>1. AreNumbers(f) /\ Len(f) = Len(q)
    BY WeightsAreNumbers, Zenon
  <2>2. AreNumbers(g) /\ Len(g) = Len(p)
    BY <1>1, WeightsAreNumbers, Zenon
  <2>3. QED
    BY <2>1, <2>2
<1>3. g[Len(p)] = W[x] /\ \A k \in 1 .. Len(q) : f[k] = g[k]
  BY <1>1 DEF Weights
<1> HIDE DEF f, g
<1>4. Total(g) = Total(f) + W[x]
  BY <1>1, <1>2, <1>3, TotalLast
<1>5. QED
  BY <1>4 DEF f, g, p, Weigh

\* The weight of a sequence is its head's and its tail's.
LEMMA WeighTail ==
  ASSUME NEW S, NEW W \in [S -> Nat], NEW q \in Seq(S), q # <<>>
  PROVE  Weigh(W, q) = W[Head(q)] + Weigh(W, Tail(q))
<1> DEFINE p == Tail(q)
           f == Weights(W, p)
           g == Weights(W, q)
<1>1. /\ p \in Seq(S) /\ Len(q) \in Nat \ {0} /\ Len(p) \in Nat /\ Len(q) = Len(p) + 1
      /\ q[1] = Head(q) /\ Head(q) \in S
      /\ \A i \in 1 .. Len(p) : p[i] = q[1 + i]
      /\ DOMAIN q = 1 .. Len(q) /\ DOMAIN p = 1 .. Len(p)
  OBVIOUS
<1> HIDE DEF p
<1>2. AreNumbers(f) /\ Len(f) = Len(p) /\ AreNumbers(g) /\ Len(g) = Len(q) /\ W[Head(q)] \in Nat
  <2>1. AreNumbers(g) /\ Len(g) = Len(q)
    BY WeightsAreNumbers, Zenon
  <2>2. AreNumbers(f) /\ Len(f) = Len(p)
    BY <1>1, WeightsAreNumbers, Zenon
  <2>3. QED
    BY <1>1, <2>1, <2>2
<1>3. g[1] = W[Head(q)] /\ \A k \in 1 .. Len(p) : f[k] = g[1 + k]
  BY <1>1 DEF Weights
<1> HIDE DEF f, g
<1>4. Total(g) = W[Head(q)] + Total(f)
  BY <1>1, <1>2, <1>3, TotalFirst
<1>5. QED
  BY <1>4 DEF f, g, p, Weigh

\* Nothing weighs nothing.
LEMMA WeighEmpty ==
  ASSUME NEW W
  PROVE  Weigh(W, <<>>) = 0
<1>1. [i \in DOMAIN <<>> |-> W[<<>>[i]]] = <<>>
  OBVIOUS
<1>2. QED
  BY <1>1, TotalEmpty DEF Weigh, Weights

\* Members that make place for others of the same weight.
LEMMA WeighSame ==
  ASSUME NEW S, NEW W, NEW q \in Seq(S), NEW p \in Seq(S), Len(p) = Len(q),
         \A i \in 1 .. Len(q) : W[p[i]] = W[q[i]]
  PROVE  Weigh(W, p) = Weigh(W, q)
<1>1. Weights(W, p) = Weights(W, q)
  BY DEF Weights
<1>2. QED
  BY <1>1 DEF Weigh

\* The three counts as weights.
RejectionWeight == [d \in Messages |-> RejectionsIn(d)]
DroppedWeight == [d \in Messages |-> RunsDroppedIn(d)]
RequestWeight == [d \in Messages |-> IF d.kind = "Request" THEN 1 ELSE 0]
RunWeight == [r \in Runs |-> r.repeats]

\* Every weight is a natural.
LEMMA WeightTypes ==
  /\ RejectionWeight \in [Messages -> Nat] /\ DroppedWeight \in [Messages -> Nat]
  /\ RequestWeight \in [Messages -> Nat] /\ RunWeight \in [Runs -> Nat]
<1>1. RejectionWeight \in [Messages -> Nat] /\ DroppedWeight \in [Messages -> Nat]
  BY MessageCounts DEF RejectionWeight, DroppedWeight
<1>2. RequestWeight \in [Messages -> Nat]
  BY DEF RequestWeight
<1>3. RunWeight \in [Runs -> Nat]
  BY DEF RunWeight, Runs
<1>4. QED
  BY <1>1, <1>2, <1>3

\* The three counts of a queue are weights of it.
LEMMA CountsAreWeights ==
  ASSUME NEW q \in Seq(Messages)
  PROVE  /\ RejectionCount(q) = Weigh(RejectionWeight, q)
         /\ DroppedCount(q) = Weigh(DroppedWeight, q)
         /\ RequestCount(q) = Weigh(RequestWeight, q)
<1>1. \A i \in DOMAIN q : q[i] \in Messages
  OBVIOUS
<1>2. [i \in DOMAIN q |-> RejectionsIn(q[i])] = [i \in DOMAIN q |-> RejectionWeight[q[i]]]
  BY <1>1 DEF RejectionWeight
<1>3. [i \in DOMAIN q |-> RunsDroppedIn(q[i])] = [i \in DOMAIN q |-> DroppedWeight[q[i]]]
  BY <1>1 DEF DroppedWeight
<1>4. [i \in DOMAIN q |-> IF q[i].kind = "Request" THEN 1 ELSE 0]
        = [i \in DOMAIN q |-> RequestWeight[q[i]]]
  BY <1>1 DEF RequestWeight
<1>5. QED
  BY <1>2, <1>3, <1>4 DEF RejectionCount, DroppedCount, RequestCount, Weigh, Weights

\* The rejections that runs stand for are a weight of the runs.
LEMMA RepeatsAreWeights ==
  ASSUME NEW h \in Seq(Runs)
  PROVE  RepeatCount(h) = Weigh(RunWeight, h)
<1>1. \A i \in DOMAIN h : h[i] \in Runs
  OBVIOUS
<1>2. [i \in DOMAIN h |-> h[i].repeats] = [i \in DOMAIN h |-> RunWeight[h[i]]]
  BY <1>1 DEF RunWeight
<1>3. QED
  BY <1>2 DEF RepeatCount, Weigh, Weights

\* The counts of a queue that got one message more.
LEMMA CountsAppend ==
  ASSUME NEW q \in Seq(Messages), NEW x \in Messages
  PROVE  /\ RejectionCount(Append(q, x)) = RejectionCount(q) + RejectionsIn(x)
         /\ DroppedCount(Append(q, x)) = DroppedCount(q) + RunsDroppedIn(x)
         /\ RequestCount(Append(q, x)) = RequestCount(q) + (IF x.kind = "Request" THEN 1 ELSE 0)
         /\ RejectionCount(q) \in Nat /\ DroppedCount(q) \in Nat /\ RequestCount(q) \in Nat
<1>1. Append(q, x) \in Seq(Messages)
  OBVIOUS
<1>2. /\ Weigh(RejectionWeight, Append(q, x)) = Weigh(RejectionWeight, q) + RejectionWeight[x]
      /\ Weigh(DroppedWeight, Append(q, x)) = Weigh(DroppedWeight, q) + DroppedWeight[x]
      /\ Weigh(RequestWeight, Append(q, x)) = Weigh(RequestWeight, q) + RequestWeight[x]
  BY WeightTypes, WeighAppend, ZenonT(60)
<1>3. /\ RejectionWeight[x] = RejectionsIn(x) /\ DroppedWeight[x] = RunsDroppedIn(x)
      /\ RequestWeight[x] = IF x.kind = "Request" THEN 1 ELSE 0
  BY DEF RejectionWeight, DroppedWeight, RequestWeight
<1>4. /\ Weigh(RejectionWeight, q) \in Nat /\ Weigh(DroppedWeight, q) \in Nat
      /\ Weigh(RequestWeight, q) \in Nat
  BY WeightTypes, WeightsAreNumbers, Zenon
<1>5. QED
  BY <1>1, <1>2, <1>3, <1>4, CountsAreWeights

\* The counts of a queue are its head's and its tail's.
LEMMA CountsTail ==
  ASSUME NEW q \in Seq(Messages), q # <<>>
  PROVE  /\ RejectionCount(q) = RejectionsIn(Head(q)) + RejectionCount(Tail(q))
         /\ DroppedCount(q) = RunsDroppedIn(Head(q)) + DroppedCount(Tail(q))
         /\ RequestCount(q) = (IF Head(q).kind = "Request" THEN 1 ELSE 0) + RequestCount(Tail(q))
<1>1. Tail(q) \in Seq(Messages) /\ Head(q) \in Messages
  OBVIOUS
<1>2. /\ Weigh(RejectionWeight, q) = RejectionWeight[Head(q)] + Weigh(RejectionWeight, Tail(q))
      /\ Weigh(DroppedWeight, q) = DroppedWeight[Head(q)] + Weigh(DroppedWeight, Tail(q))
      /\ Weigh(RequestWeight, q) = RequestWeight[Head(q)] + Weigh(RequestWeight, Tail(q))
  BY WeightTypes, WeighTail, Zenon
<1>3. /\ RejectionWeight[Head(q)] = RejectionsIn(Head(q))
      /\ DroppedWeight[Head(q)] = RunsDroppedIn(Head(q))
      /\ RequestWeight[Head(q)] = IF Head(q).kind = "Request" THEN 1 ELSE 0
  BY <1>1 DEF RejectionWeight, DroppedWeight, RequestWeight
<1>4. QED
  BY <1>1, <1>2, <1>3, CountsAreWeights

\* An empty queue counts for nothing.
LEMMA CountsEmpty ==
  RejectionCount(<<>>) = 0 /\ DroppedCount(<<>>) = 0 /\ RequestCount(<<>>) = 0 /\ RepeatCount(<<>>) = 0
<1>1. <<>> \in Seq(Messages) /\ <<>> \in Seq(Runs)
  OBVIOUS
<1>2. QED
  BY <1>1, CountsAreWeights, RepeatsAreWeights, WeighEmpty, Zenon

\* A frame that replaces a frame changes no count (`try_send_frame`).
LEMMA CountsFrame ==
  ASSUME NEW q \in Seq(Messages), NEW p \in Seq(Messages), Len(p) = Len(q),
         \A i \in 1 .. Len(q) : p[i] = q[i] \/ (p[i].kind = "Frame" /\ q[i].kind = "Frame")
  PROVE  /\ RejectionCount(p) = RejectionCount(q)
         /\ DroppedCount(p) = DroppedCount(q)
         /\ RequestCount(p) = RequestCount(q)
<1>1. \A i \in 1 .. Len(q) : q[i] \in Messages /\ p[i] \in Messages
  OBVIOUS
<1>2. \A i \in 1 .. Len(q) :
        /\ RejectionWeight[p[i]] = RejectionWeight[q[i]]
        /\ DroppedWeight[p[i]] = DroppedWeight[q[i]]
        /\ RequestWeight[p[i]] = RequestWeight[q[i]]
  BY <1>1 DEF RejectionWeight, DroppedWeight, RequestWeight, RejectionsIn, RunsDroppedIn
<1>3. /\ Weigh(RejectionWeight, p) = Weigh(RejectionWeight, q)
      /\ Weigh(DroppedWeight, p) = Weigh(DroppedWeight, q)
      /\ Weigh(RequestWeight, p) = Weigh(RequestWeight, q)
  BY <1>2, WeighSame, Zenon
<1>4. QED
  BY <1>3, CountsAreWeights

\* Runs of rejections: one more run, without the oldest run, and one more
\* rejection in the newest run.
LEMMA RepeatsAppend ==
  ASSUME NEW h \in Seq(Runs), NEW x \in Runs
  PROVE  RepeatCount(Append(h, x)) = RepeatCount(h) + x.repeats /\ RepeatCount(h) \in Nat
<1>1. Append(h, x) \in Seq(Runs)
  OBVIOUS
<1>2. Weigh(RunWeight, Append(h, x)) = Weigh(RunWeight, h) + RunWeight[x]
  BY WeightTypes, WeighAppend, Zenon
<1>3. RunWeight[x] = x.repeats
  BY DEF RunWeight
<1>4. QED
  BY <1>1, <1>2, <1>3, RepeatsAreWeights, RepeatsAreNumbers

\* The repeats of runs are the oldest run's and the others'.
LEMMA RepeatsTail ==
  ASSUME NEW h \in Seq(Runs), h # <<>>
  PROVE  RepeatCount(h) = Head(h).repeats + RepeatCount(Tail(h)) /\ RepeatCount(Tail(h)) \in Nat
<1>1. Tail(h) \in Seq(Runs) /\ Head(h) \in Runs
  OBVIOUS
<1>2. Weigh(RunWeight, h) = RunWeight[Head(h)] + Weigh(RunWeight, Tail(h))
  BY WeightTypes, WeighTail, Zenon
<1>3. RunWeight[Head(h)] = Head(h).repeats
  BY <1>1 DEF RunWeight
<1>4. QED
  BY <1>1, <1>2, <1>3, RepeatsAreWeights, RepeatsAreNumbers

\* An equal rejection counts one in the newest run.
LEMMA RepeatsBump ==
  ASSUME NEW h \in Seq(Runs), h # <<>>, NEW g \in Seq(Runs), Len(g) = Len(h),
         \A i \in 1 .. Len(h) - 1 : g[i] = h[i],
         g[Len(h)].repeats = h[Len(h)].repeats + 1
  PROVE  RepeatCount(g) = RepeatCount(h) + 1
<1> DEFINE n == Len(h)
           front == [i \in 1 .. n - 1 |-> h[i]]
<1>1. n \in Nat \ {0} /\ n \in DOMAIN h /\ h[n] \in Runs /\ g[n] \in Runs
  OBVIOUS
<1>2. h[n].repeats \in Nat
  BY <1>1 DEF Runs
<1>4. front \in Seq(Runs) /\ Len(front) = n - 1 /\ \A i \in 1 .. n - 1 : front[i] = h[i]
  BY <1>1 DEF n
<1> HIDE DEF front
<1>5. h = Append(front, h[n])
  BY <1>1, <1>4 DEF n
<1>6. g = Append(front, g[n])
  BY <1>1, <1>4 DEF n
<1>7. /\ RepeatCount(h) = RepeatCount(front) + h[n].repeats
      /\ RepeatCount(g) = RepeatCount(front) + g[n].repeats
      /\ RepeatCount(front) \in Nat
  BY <1>1, <1>4, <1>5, <1>6, RepeatsAppend
<1>8. QED
  BY <1>2, <1>7 DEF n

-----------------------------------------------------------------------------
(* How the way to a client changes *)

\* The places of a way that got one message more at its end.
LEMMA AtAppend ==
  ASSUME NEW d, NEW q \in Seq(Messages), NEW x \in Messages
  PROVE  /\ Append(q, x) \in Seq(Messages) /\ Len(q) \in Nat
         /\ Len(Append(q, x)) = Len(q) + 1
         /\ \A i \in 0 .. Len(q) : At(d, Append(q, x), i) = At(d, q, i)
         /\ At(d, Append(q, x), Len(q) + 1) = x
BY DEF At

\* The places of a way once its head is what the writing thread took.
LEMMA AtTail ==
  ASSUME NEW d, NEW q \in Seq(Messages), q # <<>>
  PROVE  /\ Head(q) \in Messages /\ Tail(q) \in Seq(Messages)
         /\ Len(q) \in Nat \ {0} /\ Len(Tail(q)) = Len(q) - 1
         /\ \A i \in 0 .. Len(q) - 1 : At(Head(q), Tail(q), i) = At(d, q, i + 1)
<1>1. /\ Head(q) \in Messages /\ Tail(q) \in Seq(Messages) /\ Head(q) = q[1]
      /\ Len(q) \in Nat \ {0} /\ Len(Tail(q)) = Len(q) - 1
      /\ \A i \in 1 .. Len(q) - 1 : Tail(q)[i] = q[i + 1]
  OBVIOUS
<1>2. QED
  BY <1>1 DEF At

\* Whatever is on a way is a message, with the fields of its kind.
LEMMA WayTypes ==
  ASSUME NEW d \in Messages, NEW q \in Seq(Messages)
  PROVE  /\ Len(q) \in Nat
         /\ \A i \in 0 .. Len(q) :
              /\ At(d, q, i) \in Messages
              /\ IsFrameDelivery(At(d, q, i)) => At(d, q, i).view \in Nat
              /\ IsEventful(At(d, q, i)) => At(d, q, i).event \in Nat
<1>1. Len(q) \in Nat /\ \A i \in 0 .. Len(q) : At(d, q, i) \in Messages
  BY DEF At
<1>2. QED
  BY <1>1, MessageFacts, Zenon

\* What is not newer than a state is not newer than a later one.
LEMMA NothingNewerLater ==
  ASSUME NEW d \in Messages, NEW q \in Seq(Messages), NEW v \in Nat, NEW r \in Nat,
         NEW v2 \in Nat, NEW r2 \in Nat, v <= v2, r <= r2, NothingNewer(v, r, d, q)
  PROVE  NothingNewer(v2, r2, d, q)
BY WayTypes DEF NothingNewer

\* A delivery of the present is added: the views stay in order.
LEMMA AppendViews ==
  ASSUME NEW d \in Messages, NEW q \in Seq(Messages), NEW x \in Messages,
         NEW v \in Nat, NEW r \in Nat, NEW last, NEW shown \in Nat,
         NothingNewer(v, r, d, q), ViewsInOrder(d, q),
         IsFrameDelivery(x) => x.view = v, IsEventful(x) => x.event <= r
  PROVE  /\ NothingNewer(v, r, d, Append(q, x)) /\ ViewsInOrder(d, Append(q, x))
         /\ IsFrameDelivery(x) => ReachesView(v, last, d, Append(q, x))
         /\ ReachesView(v, last, d, q) => ReachesView(v, last, d, Append(q, x))
         /\ shown <= v /\ ViewsAreNewer(shown, d, q) => ViewsAreNewer(shown, d, Append(q, x))
<1>0. PICK p : p = Append(q, x)
  OBVIOUS
<1>1. /\ Len(q) \in Nat /\ Len(p) = Len(q) + 1 /\ p \in Seq(Messages)
      /\ \A i \in 0 .. Len(q) : At(d, p, i) = At(d, q, i)
      /\ At(d, p, Len(q) + 1) = x
  BY <1>0, AtAppend
<1>2. \A i \in 0 .. Len(p) : i \in 0 .. Len(q) \/ i = Len(q) + 1
  BY <1>1
<1>t. /\ \A i \in 0 .. Len(q) : IsFrameDelivery(At(d, q, i)) => At(d, q, i).view \in Nat
  BY WayTypes
<1>3. NothingNewer(v, r, d, p)
  BY <1>1, <1>2 DEF NothingNewer
<1>4. ViewsInOrder(d, p)
  <2> SUFFICES ASSUME NEW i \in 0 .. Len(p), NEW j \in 0 .. Len(p), i < j,
                      IsFrameDelivery(At(d, p, i)), IsFrameDelivery(At(d, p, j))
               PROVE  At(d, p, i).view <= At(d, p, j).view
    BY DEF ViewsInOrder
  <2>1. i \in 0 .. Len(q)
    BY <1>1
  <2>2. CASE j \in 0 .. Len(q)
    BY <1>1, <2>1, <2>2 DEF ViewsInOrder
  <2>3. CASE j = Len(q) + 1
    BY <1>1, <2>1, <2>3 DEF NothingNewer
  <2>4. QED
    BY <1>2, <2>2, <2>3
<1>5. IsFrameDelivery(x) => ReachesView(v, last, d, p)
  BY <1>1 DEF ReachesView
<1>6. ReachesView(v, last, d, q) => ReachesView(v, last, d, p)
  <2>1. CASE IsFrameDelivery(x)
    BY <1>5, <2>1
  <2>2. CASE ~IsFrameDelivery(x)
    BY <1>1, <1>2, <2>2 DEF ReachesView
  <2>3. QED
    BY <2>1, <2>2
<1>7. shown <= v /\ ViewsAreNewer(shown, d, q) => ViewsAreNewer(shown, d, p)
  BY <1>1, <1>2 DEF ViewsAreNewer
<1>8. QED
  BY <1>0, <1>3, <1>4, <1>5, <1>6, <1>7

\* A delivery without an event is added.
LEMMA AppendQuiet ==
  ASSUME NEW d \in Messages, NEW q \in Seq(Messages), NEW x \in Messages,
         ~IsEventful(x), NEW r \in Nat, NEW seen \in Nat
  PROVE  /\ EventsInOrder(seen, d, q) => EventsInOrder(seen, d, Append(q, x))
         /\ ReachesEvent(r, seen, d, q) => ReachesEvent(r, seen, d, Append(q, x))
<1>0. PICK p : p = Append(q, x)
  OBVIOUS
<1>1. /\ Len(q) \in Nat /\ Len(p) = Len(q) + 1 /\ p \in Seq(Messages)
      /\ \A i \in 0 .. Len(q) : At(d, p, i) = At(d, q, i)
      /\ At(d, p, Len(q) + 1) = x
  BY <1>0, AtAppend
<1>2. \A i \in 0 .. Len(p) : i \in 0 .. Len(q) \/ i = Len(q) + 1
  BY <1>1
<1>3. \A i \in 0 .. Len(p) :
        IsEventful(At(d, p, i)) => i \in 0 .. Len(q) /\ At(d, p, i) = At(d, q, i)
  BY <1>1, <1>2
<1>4. \A i \in 0 .. Len(p) : At(d, p, i).kind = "Event" => IsEventful(At(d, p, i))
  BY DEF IsEventful
<1>5. \A i \in 0 .. Len(q) : i \in 0 .. Len(p) /\ At(d, q, i) = At(d, p, i)
  BY <1>1
<1>6. EventsInOrder(seen, d, q) => EventsInOrder(seen, d, p)
  BY <1>3, <1>4, <1>5 DEF EventsInOrder
<1>7. ReachesEvent(r, seen, d, q) => ReachesEvent(r, seen, d, p)
  BY <1>5 DEF ReachesEvent
<1>8. QED
  BY <1>0, <1>6, <1>7

\* The next event, or a snapshot of the present, is added.
LEMMA AppendEvent ==
  ASSUME NEW d \in Messages, NEW q \in Seq(Messages), NEW x \in Messages,
         NEW v \in Nat, NEW r \in Nat, NEW seen \in Nat, seen <= r,
         NothingNewer(v, r, d, q), EventsInOrder(seen, d, q),
         \/ x.kind = "Event" /\ x.event = r + 1 /\ ReachesEvent(r, seen, d, q)
         \/ x.kind = "Snapshot" /\ x.event = r
  PROVE  EventsInOrder(seen, d, Append(q, x)) /\ ReachesEvent(x.event, seen, d, Append(q, x))
<1>0. PICK p : p = Append(q, x)
  OBVIOUS
<1>1. /\ Len(q) \in Nat /\ Len(p) = Len(q) + 1 /\ p \in Seq(Messages)
      /\ \A i \in 0 .. Len(q) : At(d, p, i) = At(d, q, i)
      /\ At(d, p, Len(q) + 1) = x
  BY <1>0, AtAppend
<1>2. \A i \in 0 .. Len(p) : i \in 0 .. Len(q) \/ i = Len(q) + 1
  BY <1>1
<1>3. \A i \in 0 .. Len(q) : IsEventful(At(d, q, i)) =>
        At(d, q, i).event \in Nat /\ At(d, q, i).event <= r
  BY WayTypes DEF NothingNewer
<1>4. /\ IsEventful(x) /\ x.event \in Nat /\ r <= x.event
      /\ x.kind = "Event" => r < x.event
  BY DEF IsEventful
<1>5. \A i \in 0 .. Len(p) : IsEventful(At(d, p, i)) =>
        seen <= At(d, p, i).event /\ (At(d, p, i).kind = "Event" => seen < At(d, p, i).event)
  BY <1>1, <1>2, <1>3, <1>4 DEF EventsInOrder
<1>6. ASSUME NEW i \in 0 .. Len(p), NEW j \in 0 .. Len(p), i < j,
             IsEventful(At(d, p, i)), IsEventful(At(d, p, j))
      PROVE  /\ At(d, p, i).event <= At(d, p, j).event
             /\ At(d, p, j).kind = "Event" => At(d, p, i).event < At(d, p, j).event
  <2>1. i \in 0 .. Len(q)
    BY <1>1, <1>6
  <2>2. CASE j \in 0 .. Len(q)
    BY <1>1, <1>6, <2>1, <2>2 DEF EventsInOrder
  <2>3. CASE j = Len(q) + 1
    BY <1>1, <1>3, <1>4, <1>6, <2>1, <2>3
  <2>4. QED
    BY <1>2, <2>2, <2>3
<1>7. ASSUME NEW j \in 0 .. Len(p), At(d, p, j).kind = "Event"
      PROVE  \/ At(d, p, j).event = seen + 1
             \/ \E i \in 0 .. Len(p) :
                  /\ i < j /\ IsEventful(At(d, p, i))
                  /\ At(d, p, j).event = At(d, p, i).event + 1
  <2>1. CASE j \in 0 .. Len(q)
    BY <1>1, <1>7, <2>1 DEF EventsInOrder
  <2>2. CASE j = Len(q) + 1
    BY <1>1, <1>7, <2>2 DEF ReachesEvent
  <2>3. QED
    BY <1>2, <2>1, <2>2
<1>8. EventsInOrder(seen, d, p)
  BY <1>5, <1>6, <1>7 DEF EventsInOrder
<1>9. ReachesEvent(x.event, seen, d, p)
  BY <1>1, <1>4 DEF ReachesEvent
<1>10. QED
  BY <1>0, <1>8, <1>9

\* The frame at the end makes place for a frame of the present.
LEMMA ReplaceFrame ==
  ASSUME NEW d \in Messages, NEW q \in Seq(Messages), NEW x \in Messages,
         NEW p \in Seq(Messages),
         NEW n \in Nat \ {0}, n = Len(q), Len(p) = n, p[n] = x,
         \A i \in 1 .. n - 1 : p[i] = q[i],
         NEW v \in Nat, NEW r \in Nat, NEW shown \in Nat, NEW seen \in Nat, NEW last,
         q[n].kind = "Frame", x.kind = "Frame", x.view = v,
         NothingNewer(v, r, d, q), ViewsInOrder(d, q)
  PROVE  /\ NothingNewer(v, r, d, p) /\ ViewsInOrder(d, p) /\ ReachesView(v, last, d, p)
         /\ shown <= v /\ ViewsAreNewer(shown, d, q) => ViewsAreNewer(shown, d, p)
         /\ EventsInOrder(seen, d, q) => EventsInOrder(seen, d, p)
         /\ ReachesEvent(r, seen, d, q) => ReachesEvent(r, seen, d, p)
<1>1. /\ At(d, p, n) = x /\ \A i \in 0 .. n - 1 : At(d, p, i) = At(d, q, i)
      /\ At(d, q, n).kind = "Frame"
      /\ 0 .. Len(p) = 0 .. n /\ 0 .. Len(q) = 0 .. n
      /\ \A i \in 0 .. n : i \in 0 .. n - 1 \/ i = n
  BY DEF At
<1>2. IsFrameDelivery(x) /\ ~IsEventful(x) /\ ~IsEventful(At(d, q, n))
  BY <1>1 DEF IsFrameDelivery, IsEventful
<1>3. NothingNewer(v, r, d, p)
  BY <1>1, <1>2 DEF NothingNewer
<1>4. ViewsInOrder(d, p)
  <2> SUFFICES ASSUME NEW i \in 0 .. n, NEW j \in 0 .. n, i < j,
                      IsFrameDelivery(At(d, p, i)), IsFrameDelivery(At(d, p, j))
               PROVE  At(d, p, i).view <= At(d, p, j).view
    BY <1>1 DEF ViewsInOrder
  <2>1. i \in 0 .. n - 1
    OBVIOUS
  <2>2. CASE j \in 0 .. n - 1
    BY <1>1, <2>1, <2>2 DEF ViewsInOrder
  <2>3. CASE j = n
    BY <1>1, <2>1, <2>3 DEF NothingNewer
  <2>4. QED
    BY <1>1, <2>2, <2>3
<1>5. ReachesView(v, last, d, p)
  BY <1>1, <1>2 DEF ReachesView
<1>6. shown <= v /\ ViewsAreNewer(shown, d, q) => ViewsAreNewer(shown, d, p)
  BY <1>1 DEF ViewsAreNewer
<1>7. \A i \in 0 .. n : IsEventful(At(d, p, i)) \/ IsEventful(At(d, q, i)) =>
                          At(d, p, i) = At(d, q, i)
  BY <1>1, <1>2
<1>8. \A i \in 0 .. n : /\ At(d, p, i).kind = "Event" => IsEventful(At(d, p, i))
                        /\ At(d, q, i).kind = "Event" => IsEventful(At(d, q, i))
  BY DEF IsEventful
<1>9. ASSUME EventsInOrder(seen, d, q) PROVE EventsInOrder(seen, d, p)
  <2>1. \A i \in 0 .. Len(p) : IsEventful(At(d, p, i)) =>
          seen <= At(d, p, i).event /\ (At(d, p, i).kind = "Event" => seen < At(d, p, i).event)
    BY <1>1, <1>7, <1>9 DEF EventsInOrder
  <2>2. \A i, j \in 0 .. Len(p) :
          i < j /\ IsEventful(At(d, p, i)) /\ IsEventful(At(d, p, j)) =>
            /\ At(d, p, i).event <= At(d, p, j).event
            /\ At(d, p, j).kind = "Event" => At(d, p, i).event < At(d, p, j).event
    BY <1>1, <1>7, <1>9 DEF EventsInOrder
  <2>3. ASSUME NEW j \in 0 .. Len(p), At(d, p, j).kind = "Event"
        PROVE  \/ At(d, p, j).event = seen + 1
               \/ \E i \in 0 .. Len(p) :
                    /\ i < j /\ IsEventful(At(d, p, i))
                    /\ At(d, p, j).event = At(d, p, i).event + 1
    <3>1. j \in 0 .. Len(q) /\ At(d, p, j) = At(d, q, j)
      BY <1>1, <1>7, <1>8, <2>3
    <3>2. QED
      BY <1>1, <1>7, <1>9, <2>3, <3>1 DEF EventsInOrder
  <2>4. QED
    BY <2>1, <2>2, <2>3 DEF EventsInOrder
<1>10. ReachesEvent(r, seen, d, q) => ReachesEvent(r, seen, d, p)
  BY <1>1, <1>7 DEF ReachesEvent
<1>11. QED
  BY <1>3, <1>4, <1>5, <1>6, <1>9, <1>10

\* The writing thread takes the head of the queue.
LEMMA TakeHead ==
  ASSUME NEW d \in Messages, NEW q \in Seq(Messages), q # <<>>,
         d.kind \in {"None", "HostWrite"},
         NEW v \in Nat, NEW r \in Nat, NEW shown \in Nat, NEW seen \in Nat, NEW last
  PROVE  /\ NothingNewer(v, r, d, q) => NothingNewer(v, r, Head(q), Tail(q))
         /\ ViewsInOrder(d, q) => ViewsInOrder(Head(q), Tail(q))
         /\ ReachesView(v, last, d, q) => ReachesView(v, last, Head(q), Tail(q))
         /\ ViewsAreNewer(shown, d, q) => ViewsAreNewer(shown, Head(q), Tail(q))
         /\ EventsInOrder(seen, d, q) => EventsInOrder(seen, Head(q), Tail(q))
         /\ ReachesEvent(r, seen, d, q) => ReachesEvent(r, seen, Head(q), Tail(q))
<1>0. PICK e, p : e = Head(q) /\ p = Tail(q)
  OBVIOUS
<1>1. /\ Len(q) \in Nat \ {0} /\ Len(p) = Len(q) - 1
      /\ \A i \in 0 .. Len(p) : i + 1 \in 0 .. Len(q) /\ At(e, p, i) = At(d, q, i + 1)
  BY <1>0, AtTail
<1>2. ~IsFrameDelivery(At(d, q, 0)) /\ ~IsEventful(At(d, q, 0))
  BY DEF At, IsFrameDelivery, IsEventful
<1>3. \A i \in 0 .. Len(q) : i # 0 => i - 1 \in 0 .. Len(p) /\ At(d, q, i) = At(e, p, i - 1)
  <2> TAKE i \in 0 .. Len(q)
  <2> HAVE i # 0
  <2>1. i - 1 \in 0 .. Len(p) /\ (i - 1) + 1 = i
    BY <1>1
  <2>2. QED
    BY <1>1, <2>1
<1>4. \A i \in 0 .. Len(q) : IsFrameDelivery(At(d, q, i)) \/ IsEventful(At(d, q, i)) => i # 0
  BY <1>2
<1>5. NothingNewer(v, r, d, q) => NothingNewer(v, r, e, p)
  BY <1>1 DEF NothingNewer
<1>6. ViewsInOrder(d, q) => ViewsInOrder(e, p)
  BY <1>1 DEF ViewsInOrder
<1>7. ReachesView(v, last, d, q) => ReachesView(v, last, e, p)
  BY <1>1, <1>3, <1>4 DEF ReachesView
<1>8. ViewsAreNewer(shown, d, q) => ViewsAreNewer(shown, e, p)
  BY <1>1 DEF ViewsAreNewer
<1>9. ASSUME EventsInOrder(seen, d, q) PROVE EventsInOrder(seen, e, p)
  <2>1. \A i \in 0 .. Len(p) : IsEventful(At(e, p, i)) =>
          seen <= At(e, p, i).event /\ (At(e, p, i).kind = "Event" => seen < At(e, p, i).event)
    BY <1>1, <1>9 DEF EventsInOrder
  <2>2. \A i, j \in 0 .. Len(p) :
          i < j /\ IsEventful(At(e, p, i)) /\ IsEventful(At(e, p, j)) =>
            /\ At(e, p, i).event <= At(e, p, j).event
            /\ At(e, p, j).kind = "Event" => At(e, p, i).event < At(e, p, j).event
    BY <1>1, <1>9 DEF EventsInOrder
  <2>3. ASSUME NEW j \in 0 .. Len(p), At(e, p, j).kind = "Event"
        PROVE  \/ At(e, p, j).event = seen + 1
               \/ \E i \in 0 .. Len(p) :
                    /\ i < j /\ IsEventful(At(e, p, i))
                    /\ At(e, p, j).event = At(e, p, i).event + 1
    <3>1. j + 1 \in 0 .. Len(q) /\ At(e, p, j) = At(d, q, j + 1)
      BY <1>1
    <3>2. CASE At(d, q, j + 1).event = seen + 1
      BY <3>1, <3>2
    <3>3. ASSUME NEW i \in 0 .. Len(q), i < j + 1, IsEventful(At(d, q, i)),
                 At(d, q, j + 1).event = At(d, q, i).event + 1
          PROVE  \E k \in 0 .. Len(p) :
                   /\ k < j /\ IsEventful(At(e, p, k))
                   /\ At(e, p, j).event = At(e, p, k).event + 1
      <4>1. i # 0 /\ i - 1 \in 0 .. Len(p) /\ At(d, q, i) = At(e, p, i - 1) /\ i - 1 < j
        BY <1>3, <1>4, <3>3
      <4>2. QED
        BY <3>1, <3>3, <4>1
    <3>4. QED
      BY <1>9, <2>3, <3>1, <3>2, <3>3 DEF EventsInOrder
  <2>4. QED
    BY <2>1, <2>2, <2>3 DEF EventsInOrder
<1>10. ReachesEvent(r, seen, d, q) => ReachesEvent(r, seen, e, p)
  BY <1>1, <1>3, <1>4 DEF ReachesEvent
<1>11. QED
  BY <1>0, <1>5, <1>6, <1>7, <1>8, <1>9, <1>10

\* A delivery is written: what the client saw, is shown and was sent last move
\* to it, and it leaves the way.
LEMMA WriteTaken ==
  ASSUME NEW d \in Messages, NEW q \in Seq(Messages),
         NEW v \in Nat, NEW r \in Nat, NEW last, NEW none \in Messages, none.kind = "None",
         NothingNewer(v, r, d, q), ViewsInOrder(d, q)
  PROVE  /\ NothingNewer(v, r, none, q) /\ ViewsInOrder(none, q)
         /\ ReachesView(v, last, d, q) =>
              ReachesView(v, IF IsFrameDelivery(d) THEN d.view ELSE last, none, q)
<1>1. /\ Len(q) \in Nat /\ \A i \in 0 .. Len(q) : i # 0 => At(none, q, i) = At(d, q, i)
      /\ At(d, q, 0) = d /\ At(none, q, 0) = none
      /\ \A i \in 0 .. Len(q) : i # 0 => i \in 1 .. Len(q) /\ 0 < i
      /\ 0 \in 0 .. Len(q)
  BY DEF At
<1>2. ~IsFrameDelivery(none) /\ ~IsEventful(none)
  BY DEF IsFrameDelivery, IsEventful
<1>3. \A i \in 0 .. Len(q) : IsFrameDelivery(At(none, q, i)) \/ IsEventful(At(none, q, i)) =>
        i # 0 /\ At(none, q, i) = At(d, q, i)
  BY <1>1, <1>2
<1>4. NothingNewer(v, r, none, q)
  BY <1>3 DEF NothingNewer
<1>5. ViewsInOrder(none, q)
  BY <1>3 DEF ViewsInOrder
<1>6. ASSUME ReachesView(v, last, d, q)
      PROVE  ReachesView(v, IF IsFrameDelivery(d) THEN d.view ELSE last, none, q)
  <2>t. \A i \in 0 .. Len(q) : IsFrameDelivery(At(d, q, i)) =>
          At(d, q, i).view \in Nat /\ At(d, q, i).view <= v
    BY WayTypes DEF NothingNewer
  <2>1. CASE \E i \in 0 .. Len(q) : i # 0 /\ IsFrameDelivery(At(none, q, i)) /\ At(none, q, i).view = v
    BY <2>1 DEF ReachesView
  <2>2. CASE \A i \in 0 .. Len(q) : ~IsFrameDelivery(At(none, q, i))
    <3>1. \A i \in 0 .. Len(q) : i # 0 => ~IsFrameDelivery(At(d, q, i))
      BY <1>1, <2>2
    <3>2. IsFrameDelivery(d) => d.view = v
      BY <1>1, <1>6, <3>1 DEF ReachesView
    <3>3. ~IsFrameDelivery(d) => last = v
      BY <1>1, <1>6, <3>1 DEF ReachesView
    <3>4. QED
      BY <2>2, <3>2, <3>3 DEF ReachesView
  <2>3. CASE /\ ~\E i \in 0 .. Len(q) : i # 0 /\ IsFrameDelivery(At(none, q, i)) /\ At(none, q, i).view = v
             /\ ~\A i \in 0 .. Len(q) : ~IsFrameDelivery(At(none, q, i))
    <3>1. PICK j \in 0 .. Len(q) : IsFrameDelivery(At(none, q, j))
      BY <2>3
    <3>2. j # 0 /\ At(none, q, j) = At(d, q, j) /\ At(d, q, j).view # v /\ IsFrameDelivery(At(d, q, j))
      BY <1>3, <2>3, <3>1
    <3>3. PICK i \in 0 .. Len(q) : IsFrameDelivery(At(d, q, i)) /\ At(d, q, i).view = v
      BY <1>6, <3>2 DEF ReachesView
    <3>4. i = 0
      BY <1>1, <2>3, <3>3
    <3>5. At(d, q, 0).view <= At(d, q, j).view
      BY <1>1, <3>2, <3>3, <3>4 DEF ViewsInOrder
    <3>6. QED
      BY <2>t, <3>2, <3>3, <3>4, <3>5
  <2>4. QED
    BY <2>1, <2>2, <2>3
<1>7. QED
  BY <1>4, <1>5, <1>6

\* The client reads what the writing thread took: it meets neither a gap nor an
\* older view, and the rest of the way stays in order for it.
LEMMA ReadTaken ==
  ASSUME NEW d \in Messages, NEW q \in Seq(Messages),
         NEW v \in Nat, NEW r \in Nat, NEW shown \in Nat, NEW seen \in Nat,
         NEW none \in Messages, none.kind = "None",
         NothingNewer(v, r, d, q), ViewsInOrder(d, q), ViewsAreNewer(shown, d, q),
         EventsInOrder(seen, d, q)
  PROVE  /\ IsFrameDelivery(d) => shown <= d.view
         /\ d.kind = "Snapshot" => seen <= d.event
         /\ d.kind = "Event" => d.event = seen + 1
         /\ ViewsAreNewer(IF IsFrameDelivery(d) THEN d.view ELSE shown, none, q)
         /\ EventsInOrder(IF IsEventful(d) THEN d.event ELSE seen, none, q)
         /\ ReachesEvent(r, seen, d, q) =>
              ReachesEvent(r, IF IsEventful(d) THEN d.event ELSE seen, none, q)
<1> DEFINE s == IF IsEventful(d) THEN d.event ELSE seen
<1>1. /\ Len(q) \in Nat /\ \A i \in 0 .. Len(q) : i # 0 => At(none, q, i) = At(d, q, i)
      /\ At(d, q, 0) = d /\ At(none, q, 0) = none
      /\ \A i \in 0 .. Len(q) : i # 0 => i \in 1 .. Len(q) /\ 0 < i
      /\ 0 \in 0 .. Len(q) /\ \A i \in 0 .. Len(q) : ~(i < 0)
  BY DEF At
<1>2. ~IsFrameDelivery(none) /\ ~IsEventful(none)
  BY DEF IsFrameDelivery, IsEventful
<1>3. \A i \in 0 .. Len(q) : IsFrameDelivery(At(none, q, i)) \/ IsEventful(At(none, q, i)) =>
        i # 0 /\ At(none, q, i) = At(d, q, i)
  BY <1>1, <1>2
<1>e. /\ d.kind = "Event" => IsEventful(d)
      /\ d.kind = "Snapshot" => IsEventful(d)
      /\ IsEventful(d) => d.kind = "Event" \/ d.kind = "Snapshot"
      /\ \A x : x.kind = "Event" => IsEventful(x)
  BY DEF IsEventful
<1>t. \A i \in 0 .. Len(q) : IsEventful(At(d, q, i)) => At(d, q, i).event \in Nat
  BY WayTypes
<1>4. (IsFrameDelivery(d) => shown <= d.view) /\ (d.kind = "Snapshot" => seen <= d.event)
  BY <1>1, <1>e DEF ViewsAreNewer, EventsInOrder
<1>5. d.kind = "Event" => d.event = seen + 1
  BY <1>1, <1>e DEF EventsInOrder
<1>6. ViewsAreNewer(IF IsFrameDelivery(d) THEN d.view ELSE shown, none, q)
  BY <1>1, <1>3 DEF ViewsAreNewer, ViewsInOrder
<1>7. EventsInOrder(s, none, q)
  <2>1. \A i \in 0 .. Len(q) : IsEventful(At(none, q, i)) =>
          s <= At(none, q, i).event /\ (At(none, q, i).kind = "Event" => s < At(none, q, i).event)
    BY <1>1, <1>3 DEF EventsInOrder
  <2>2. \A i, j \in 0 .. Len(q) :
          i < j /\ IsEventful(At(none, q, i)) /\ IsEventful(At(none, q, j)) =>
            /\ At(none, q, i).event <= At(none, q, j).event
            /\ At(none, q, j).kind = "Event" => At(none, q, i).event < At(none, q, j).event
    BY <1>3 DEF EventsInOrder
  <2>3. ASSUME NEW j \in 0 .. Len(q), At(none, q, j).kind = "Event"
        PROVE  \/ At(none, q, j).event = s + 1
               \/ \E i \in 0 .. Len(q) :
                    /\ i < j /\ IsEventful(At(none, q, i))
                    /\ At(none, q, j).event = At(none, q, i).event + 1
    <3>1. j # 0 /\ At(none, q, j) = At(d, q, j) /\ IsEventful(At(d, q, j)) /\ At(d, q, j).kind = "Event"
      BY <1>3, <1>e, <2>3
    <3>2. IsEventful(d) => d.event < At(d, q, j).event /\ seen <= d.event /\ d.event \in Nat
      BY <1>1, <1>t, <3>1 DEF EventsInOrder
    <3>3. CASE At(d, q, j).event = seen + 1
      BY <1>t, <3>1, <3>2, <3>3
    <3>4. ASSUME NEW i \in 0 .. Len(q), i < j, IsEventful(At(d, q, i)),
                 At(d, q, j).event = At(d, q, i).event + 1
          PROVE  \/ At(none, q, j).event = s + 1
                 \/ \E k \in 0 .. Len(q) :
                      /\ k < j /\ IsEventful(At(none, q, k))
                      /\ At(none, q, j).event = At(none, q, k).event + 1
      <4>1. CASE i = 0
        BY <1>1, <3>1, <3>4, <4>1
      <4>2. CASE i # 0
        BY <1>1, <3>1, <3>4, <4>2
      <4>3. QED
        BY <4>1, <4>2
    <3>5. QED
      BY <3>1, <3>3, <3>4 DEF EventsInOrder
  <2>4. QED
    BY <2>1, <2>2, <2>3 DEF EventsInOrder
<1>8. ASSUME ReachesEvent(r, seen, d, q) PROVE ReachesEvent(r, s, none, q)
  <2>1. CASE seen = r /\ ~IsEventful(d)
    BY <2>1 DEF ReachesEvent
  <2>0. CASE seen = r /\ IsEventful(d)
    <3>1. d.event = r
      BY <1>1, <1>t, <2>0 DEF NothingNewer, EventsInOrder
    <3>2. QED
      BY <2>0, <3>1 DEF ReachesEvent
  <2>2. ASSUME NEW i \in 0 .. Len(q), IsEventful(At(d, q, i)), At(d, q, i).event = r
        PROVE  ReachesEvent(r, s, none, q)
    <3>1. CASE i = 0
      BY <1>1, <2>2, <3>1 DEF ReachesEvent
    <3>2. CASE i # 0
      BY <1>1, <2>2, <3>2 DEF ReachesEvent
    <3>3. QED
      BY <3>1, <3>2
  <2>3. QED
    BY <1>8, <2>0, <2>1, <2>2 DEF ReachesEvent
<1>9. QED
  BY <1>4, <1>5, <1>6, <1>7, <1>8

-----------------------------------------------------------------------------
(* The inductive invariant *)

LinkFields ==
  {"state", "dropped", "held", "droppedRuns", "queue", "isReceiverClosed",
   "isWaiting", "report", "isFrameOwed", "hostWrites", "isWakeQueued"}
WriterFields ==
  {"pc", "isFrameAllowed", "taken", "requests", "lastView", "lastSent",
   "lastPainted", "hasPaintReport", "shouldCloseReader"}
ClientFields ==
  {"shown", "seen", "hasGap", "hasGoneBack", "rejections", "droppedRuns",
   "requests", "ending"}

DispatcherPcs ==
  {"wait", "handle", "hostSwap", "hostSend", "hostClear", "resync", "push",
   "announce", "await", "told", "gaveUp"}

SessionOK ==
  /\ inputCount \in 0 .. MaxInputs
  /\ view \in 1 .. inputCount + 1
  /\ revision \in 0 .. inputCount
  /\ dispatcher \in [pc : DispatcherPcs, asked : Endings \cup {"none"},
                     hostClient : SUBSET Clients]
  /\ dispatcher.pc = "announce" => dispatcher.asked # "none"
  /\ \A c \in dispatcher.hostClient : link[c].state # "none"
  /\ inbox \subseteq {"roomFreed", "detached"} \X Clients
  /\ notice \in Endings \cup {"none"}
  /\ DOMAIN link = Clients /\ DOMAIN writer = Clients
  /\ DOMAIN client = Clients /\ DOMAIN sent = Clients
  /\ pace \in [Clients -> [hasViewChange : BOOLEAN, isOpen : BOOLEAN]]
  /\ reader \in [Clients -> {"none", "reading", "closed", "left", "ended"}]
  /\ isLinkLost \in [Clients -> BOOLEAN]
  /\ isLinkUp \in [Clients -> BOOLEAN]

LinkTypes(b) ==
  /\ DOMAIN b = LinkFields
  /\ b.state \in {"none", "Live", "Desynced", "gone"}
  /\ b.held \in Seq(Runs) /\ Len(b.held) <= MaxHeldRejections
  /\ b.droppedRuns \in Nat
  /\ b.queue \in Seq(Messages) /\ Len(b.queue) <= Capacity
  /\ b.report \in Nat
  /\ b.state = "Live" => b.held = <<>> /\ b.dropped = 0 /\ b.droppedRuns = 0

WriterTypes(w) ==
  /\ DOMAIN w = WriterFields
  /\ w.pc \in WriterPcs
  /\ w.taken \in Messages
  /\ w.requests \in Nat /\ w.lastSent \in Nat /\ w.lastPainted \in Nat
  /\ w.lastPainted <= w.lastSent

ClientTypes(k) ==
  /\ DOMAIN k = ClientFields
  /\ k.shown \in Nat /\ k.seen \in Nat
  /\ k.rejections \in Nat /\ k.droppedRuns \in Nat /\ k.requests \in Nat
  /\ k.ending \in Endings \cup {"none", "Detached"}

\* The writing thread can still read the queue.
Reads(c) ==
  writer[c].pc \in {"none", "accepted", "greeted", "top", "receive", "took", "woken",
                    "write"}

Types(c) ==
  /\ LinkTypes(link[c]) /\ WriterTypes(writer[c]) /\ ClientTypes(client[c])
  /\ sent[c] \in [rejections : Nat, requests : Nat]

\* What a client that did not attach has, and what its threads' places say.
Attached(c) ==
  /\ link[c].state = "none" <=> writer[c].pc = "none"
  /\ reader[c] # "none" => writer[c].pc \notin {"none", "accepted", "greeted"}
  /\ link[c].state = "none" =>
       /\ link[c] = NoLink /\ writer[c] = NoWriter /\ client[c] = NoClient
       /\ sent[c] = [rejections |-> 0, requests |-> 0]
       /\ pace[c].hasViewChange
  /\ link[c].isReceiverClosed <=> writer[c].pc \in {"dropped", "ended"}
  /\ Reads(c) /\ writer[c].pc \notin {"took", "write"} =>
       writer[c].taken.kind \in {"None", "HostWrite"}

\* What is on the way is not from the future, and its views grow; a client
\* without a view change ends with the session's view.
ViewsOK(c) ==
  Reads(c) =>
    /\ NothingNewer(view, revision, writer[c].taken, link[c].queue)
    /\ ViewsInOrder(writer[c].taken, link[c].queue)
    /\ ~pace[c].hasViewChange =>
         ReachesView(view, writer[c].lastView, writer[c].taken, link[c].queue)

\* A client whose connection works reads on without a gap, and a live one ends
\* with the session's last event.
EventsOK(c) ==
  Reads(c) /\ isLinkUp[c] =>
    /\ client[c].seen <= revision /\ client[c].shown <= view
    /\ EventsInOrder(client[c].seen, writer[c].taken, link[c].queue)
    /\ ViewsAreNewer(client[c].shown, writer[c].taken, link[c].queue)
    /\ link[c].state = "Live" =>
         ReachesEvent(revision, client[c].seen, writer[c].taken, link[c].queue)

\* Whoever is owed a frame has something to read, and a paused client is owed
\* one, or its wake is in the inbox, once the dispatcher went past the resync.
OwedOK(c) ==
  Reads(c) =>
    /\ link[c].isFrameOwed => link[c].queue # <<>> \/ writer[c].pc = "took"
    /\ dispatcher.pc \in {"push", "wait"} /\ link[c].state = "Desynced" =>
         link[c].isFrameOwed \/ <<"roomFreed", c>> \in inbox

RejectionsOK(c) ==
  Reads(c) /\ isLinkUp[c] =>
    LET missing == sent[c].rejections - client[c].rejections
                     - RejectionsIn(writer[c].taken) - RejectionCount(link[c].queue)
                     - RepeatCount(link[c].held)
        runs == client[c].droppedRuns + RunsDroppedIn(writer[c].taken)
                  + DroppedCount(link[c].queue) + link[c].droppedRuns
    IN missing >= runs /\ (runs = 0 => missing = 0)

RequestsOK(c) ==
  /\ Reads(c) /\ isLinkUp[c] =>
       sent[c].requests <= client[c].requests + RequestCount(link[c].queue)
                             + (IF writer[c].taken.kind = "Request" THEN 1 ELSE 0)
  /\ writer[c].pc \in {"farewell", "goodbye"} =>
       /\ notice # "none" \/ link[c].state = "gone"
       /\ isLinkUp[c] => sent[c].requests <= client[c].requests + writer[c].requests
  /\ writer[c].pc = "farewell" => notice # "none"
  /\ client[c].ending # "none" =>
       /\ writer[c].pc \in {"closing", "dropped", "ended"}
       /\ notice # "none" \/ link[c].state = "gone"
       /\ sent[c].requests <= client[c].requests

ReadOK(c) == ~client[c].hasGap /\ ~client[c].hasGoneBack

ClientOK(c) ==
  /\ Types(c) /\ Attached(c) /\ ViewsOK(c) /\ EventsOK(c) /\ OwedOK(c)
  /\ RejectionsOK(c) /\ RequestsOK(c) /\ ReadOK(c)

\* The inductive invariant.
DeliveryInv == SessionOK /\ \A c \in Clients : ClientOK(c)

\* The invariant holds before anyone attached.
LEMMA InitInv == Init => DeliveryInv
<1> SUFFICES ASSUME Init PROVE DeliveryInv
  OBVIOUS
<1> USE CapacityAssumption, HeldAssumption, BoundsAssumption
<1>1. SessionOK
  BY DEF Init, SessionOK, DispatcherPcs, Endings
<1>2. ASSUME NEW c \in Clients PROVE ClientOK(c)
  <2>1. link[c] = NoLink /\ writer[c] = NoWriter /\ client[c] = NoClient
        /\ sent[c] = [rejections |-> 0, requests |-> 0] /\ reader[c] = "none"
        /\ pace[c].hasViewChange
    BY DEF Init
  <2>2. Types(c)
    BY <2>1 DEF Types, NoLink, NoWriter, NoClient, LinkTypes, WriterTypes, ClientTypes,
       LinkFields, WriterFields, ClientFields, WriterPcs, Messages, PlainKinds, Plain
  <2>3. Attached(c)
    BY <2>1 DEF Attached, NoLink, NoWriter, Plain
  <2>4. ViewsOK(c) /\ EventsOK(c)
    <3>1. \A i \in 0 .. Len(link[c].queue) : i = 0 /\ At(writer[c].taken, link[c].queue, i) = Plain("None")
      BY <2>1 DEF NoLink, NoWriter, At
    <3>2. ~IsFrameDelivery(Plain("None")) /\ ~IsEventful(Plain("None")) /\ Plain("None").kind # "Event"
      BY DEF Plain, IsFrameDelivery, IsEventful
    <3>3. client[c].seen = 0 /\ client[c].shown = 0 /\ view \in Nat /\ revision \in Nat /\ link[c].state = "none"
      BY <2>1 DEF NoClient, Init, NoLink
    <3>4. ViewsOK(c)
      BY <2>1, <3>1, <3>2 DEF ViewsOK, NothingNewer, ViewsInOrder
    <3>5. EventsOK(c)
      BY <3>1, <3>2, <3>3 DEF EventsOK, EventsInOrder, ViewsAreNewer
    <3>6. QED
      BY <3>4, <3>5
  <2>5. OwedOK(c) /\ ReadOK(c)
    BY <2>1 DEF OwedOK, ReadOK, NoLink, NoClient
  <2>6. RejectionsOK(c)
    BY <2>1, CountsEmpty DEF RejectionsOK, NoLink, NoWriter, NoClient, RejectionsIn,
       RunsDroppedIn, Plain
  <2>7. RequestsOK(c)
    BY <2>1, CountsEmpty DEF RequestsOK, NoLink, NoWriter, NoClient, Plain
  <2>8. QED
    BY <2>2, <2>3, <2>4, <2>5, <2>6, <2>7 DEF ClientOK
<1>3. QED
  BY <1>1, <1>2 DEF DeliveryInv

\* A client none of whose state a step changes keeps its part of the invariant,
\* unless the step moves the dispatcher past the resync or takes its wake away.
LEMMA Untouched ==
  ASSUME DeliveryInv, NEW c \in Clients,
         link'[c] = link[c], writer'[c] = writer[c], client'[c] = client[c], sent'[c] = sent[c],
         pace'[c] = pace[c], reader'[c] = reader[c], isLinkUp'[c] = isLinkUp[c],
         view' = view, revision' = revision, notice # "none" => notice' # "none",
         dispatcher'.pc \in {"push", "wait"} =>
           /\ dispatcher.pc \in {"push", "wait"}
           /\ <<"roomFreed", c>> \in inbox => <<"roomFreed", c>> \in inbox'
  PROVE  ClientOK(c)'
<1>1. ClientOK(c)
  BY DEF DeliveryInv
<1>2. Reads(c)' <=> Reads(c)
  BY DEF Reads
<1>3. Types(c)' /\ Attached(c)' /\ ReadOK(c)'
  BY <1>1, <1>2 DEF ClientOK, Types, Attached, ReadOK
<1>4. ViewsOK(c)' /\ EventsOK(c)'
  BY <1>1, <1>2 DEF ClientOK, ViewsOK, EventsOK
<1>5. OwedOK(c)'
  BY <1>1, <1>2 DEF ClientOK, OwedOK
<1>6. RejectionsOK(c)' /\ RequestsOK(c)'
  BY <1>1, <1>2 DEF ClientOK, RejectionsOK, RequestsOK
<1>7. QED
  BY <1>3, <1>4, <1>5, <1>6 DEF ClientOK

\* A delivery without a view or an event number leaves the order on the way.
LEMMA PlainSent ==
  ASSUME DeliveryInv, NEW c \in Clients, NEW x \in Messages,
         ~IsEventful(x), ~IsFrameDelivery(x),
         link'[c].queue \in {link[c].queue, Append(link[c].queue, x)},
         link'[c].state = "Live" => link[c].state = "Live",
         writer'[c] = writer[c], client'[c] = client[c],
         pace'[c].hasViewChange = pace[c].hasViewChange, isLinkUp'[c] = isLinkUp[c],
         view' = view, revision' = revision
  PROVE  ViewsOK(c)' /\ EventsOK(c)'
<1>1. ViewsOK(c) /\ EventsOK(c) /\ Types(c) /\ (Reads(c)' <=> Reads(c))
  BY DEF DeliveryInv, ClientOK, Reads
<1>2. CASE link'[c].queue = link[c].queue
  BY <1>1, <1>2 DEF ViewsOK, EventsOK
<1>3. CASE link'[c].queue = Append(link[c].queue, x)
  <2>1. PICK d, q, s, k, l : /\ d = writer[c].taken /\ q = link[c].queue /\ s = client[c].seen
                             /\ k = client[c].shown /\ l = writer[c].lastView
    OBVIOUS
  <2>2. /\ d \in Messages /\ q \in Seq(Messages) /\ s \in Nat /\ k \in Nat
        /\ view \in Nat /\ revision \in Nat
    BY <1>1, <2>1 DEF Types, LinkTypes, WriterTypes, ClientTypes, DeliveryInv, SessionOK
  <2>3. NothingNewer(view, revision, d, q) /\ ViewsInOrder(d, q) =>
          /\ NothingNewer(view, revision, d, Append(q, x)) /\ ViewsInOrder(d, Append(q, x))
          /\ ReachesView(view, l, d, q) => ReachesView(view, l, d, Append(q, x))
          /\ k <= view /\ ViewsAreNewer(k, d, q) => ViewsAreNewer(k, d, Append(q, x))
    BY <2>2, AppendViews
  <2>4. /\ EventsInOrder(s, d, q) => EventsInOrder(s, d, Append(q, x))
        /\ ReachesEvent(revision, s, d, q) => ReachesEvent(revision, s, d, Append(q, x))
    BY <2>2, AppendQuiet
  <2>5. ViewsOK(c)'
    BY <1>1, <1>3, <2>1, <2>3 DEF ViewsOK
  <2>6. EventsOK(c)'
    BY <1>1, <1>3, <2>1, <2>3, <2>4 DEF EventsOK, ViewsOK
  <2>7. QED
    BY <2>5, <2>6
<1>4. QED
  BY <1>2, <1>3

\* Deliveries that carry only their kind are messages that count for nothing.
LEMMA PlainMessages ==
  ASSUME NEW k \in PlainKinds
  PROVE  /\ Plain(k) \in Messages /\ Plain(k).kind = k
         /\ ~IsEventful(Plain(k)) /\ ~IsFrameDelivery(Plain(k))
         /\ RejectionsIn(Plain(k)) = 0 /\ RunsDroppedIn(Plain(k)) = 0
BY DEF Plain, PlainKinds, Messages, IsEventful, IsFrameDelivery, RejectionsIn, RunsDroppedIn

\* A rejection is a message that counts for one rejection.
LEMMA RejectionMessages ==
  ASSUME NEW a \in RejectedActions
  PROVE  /\ Rejection(a) \in Messages /\ Rejection(a).kind = "Rejection"
         /\ ~IsEventful(Rejection(a)) /\ ~IsFrameDelivery(Rejection(a))
         /\ RejectionsIn(Rejection(a)) = 1 /\ RunsDroppedIn(Rejection(a)) = 0
BY DEF Rejection, Messages, IsEventful, IsFrameDelivery, RejectionsIn, RunsDroppedIn

\* The operations that put a message on a queue keep the link's types.
LEMMA SendTypes ==
  ASSUME NEW b, LinkTypes(b), NEW x \in Messages, NEW e \in BOOLEAN
  PROVE  /\ LinkTypes(Unsubscribed(b)) /\ LinkTypes(DeliverToSubscriber(b, x, e))
         /\ LinkTypes(TrySendDelivery(b, x)) /\ LinkTypes(TrySend(b, x, b))
<1>1. LinkTypes(Unsubscribed(b))
  BY DEF LinkTypes, LinkFields, Unsubscribed
<1>2. ASSUME Len(b.queue) < Capacity PROVE LinkTypes(Queued(b, x))
  BY <1>2, CapacityAssumption DEF LinkTypes, LinkFields, Queued
<1>3. LinkTypes(TrySend(b, x, b))
  BY <1>1, <1>2, CapacityAssumption DEF TrySend, IsFull, LinkTypes
<1>4. LinkTypes(DeliverToSubscriber(b, x, e))
  <2>1. LinkTypes([b EXCEPT !.state = "Desynced", !.dropped = @ + 1, !.isWaiting = @ /\ ~e])
    BY DEF LinkTypes, LinkFields
  <2>2. b.state = "Desynced" => LinkTypes([b EXCEPT !.dropped = @ + 1])
    BY DEF LinkTypes, LinkFields
  <2>3. QED
    BY <1>1, <1>2, <2>1, <2>2, CapacityAssumption DEF DeliverToSubscriber, TrySend, IsFull,
       LinkTypes
<1>5. LinkTypes(TrySendDelivery(b, x))
  <2>1. LinkTypes([b EXCEPT !.state = "Desynced", !.dropped = 1])
    BY DEF LinkTypes, LinkFields
  <2>3. QED
    BY <1>1, <1>2, <2>1, CapacityAssumption DEF TrySendDelivery, TrySend, IsFull, LinkTypes
<1>6. QED
  BY <1>1, <1>3, <1>4, <1>5
\* What a link may become when the plain delivery `x` is offered to it.
Offered(b, b2, x) ==
  /\ LinkTypes(b2)
  /\ b2.queue \in {b.queue, Append(b.queue, x)}
  /\ b2.held = b.held /\ b2.droppedRuns = b.droppedRuns
  /\ b2.isReceiverClosed = b.isReceiverClosed /\ b2.isFrameOwed = b.isFrameOwed
  /\ b2.state = "Live" => b.state = "Live"
  /\ b2.state = "Desynced" => b.state \in {"Live", "Desynced"}
  /\ b.state = "gone" => b2.state = "gone"
  /\ b2.state = "none" <=> b.state = "none"
  /\ b.state = "none" => b2 = b

\* Every operation of the queue either queues the message, pauses the client or
\* ends the subscription.
LEMMA OffersAreOffered ==
  ASSUME NEW b, LinkTypes(b), NEW x \in Messages, NEW e \in BOOLEAN
  PROVE  /\ Offered(b, b, x) /\ Offered(b, Unsubscribed(b), x)
         /\ Offered(b, DeliverToSubscriber(b, x, e), x) /\ Offered(b, TrySendDelivery(b, x), x)
         /\ b.state # "none" => Offered(b, TrySend(b, x, b), x)
<1>0. /\ LinkTypes(Unsubscribed(b)) /\ LinkTypes(DeliverToSubscriber(b, x, e))
      /\ LinkTypes(TrySendDelivery(b, x)) /\ LinkTypes(TrySend(b, x, b))
  BY SendTypes
<1>1. Offered(b, b, x)
  BY DEF Offered
<1>2. Offered(b, Unsubscribed(b), x)
  BY <1>0 DEF Offered, Unsubscribed, IsSubscribed, LinkTypes, LinkFields
<1>3. Offered(b, TrySendDelivery(b, x), x)
  BY <1>0 DEF Offered, TrySendDelivery, TrySend, Queued, Unsubscribed, IsSubscribed, LinkTypes,
     LinkFields
<1>4. b.state # "none" => Offered(b, TrySend(b, x, b), x)
  BY <1>0 DEF Offered, TrySend, Queued, Unsubscribed, IsSubscribed, LinkTypes, LinkFields
<1>5. Offered(b, DeliverToSubscriber(b, x, e), x)
  BY <1>0 DEF Offered, DeliverToSubscriber, TrySend, Queued, Unsubscribed, IsSubscribed,
     LinkTypes, LinkFields
<1>6. QED
  BY <1>1, <1>2, <1>3, <1>4, <1>5

\* An offered message that is no frame and no event keeps the rest of a client's
\* part of the invariant.
LEMMA OfferedRest ==
  ASSUME DeliveryInv, NEW c \in Clients, NEW x \in Messages,
         RejectionsIn(x) = 0, RunsDroppedIn(x) = 0, Offered(link[c], link'[c], x),
         writer'[c] = writer[c], client'[c] = client[c], reader'[c] = reader[c],
         pace'[c].hasViewChange = pace[c].hasViewChange, isLinkUp'[c] = isLinkUp[c],
         notice # "none" => notice' # "none",
         dispatcher'.pc \in {"push", "wait"} =>
           /\ dispatcher.pc \in {"push", "wait"} /\ inbox' = inbox
           /\ link'[c].state = "Desynced" => link[c].state = "Desynced",
         \/ sent'[c] = sent[c]
         \/ /\ x.kind = "Request" /\ notice = "none" /\ link[c].state = "Live"
            /\ link'[c].queue = Append(link[c].queue, x)
            /\ sent'[c] = [sent[c] EXCEPT !.requests = @ + 1]
  PROVE  /\ Types(c)' /\ Attached(c)' /\ OwedOK(c)' /\ ReadOK(c)'
         /\ RejectionsOK(c)' /\ RequestsOK(c)'
<1>0. ClientOK(c)
  BY DEF DeliveryInv
<1>t. Types(c) /\ Attached(c) /\ OwedOK(c) /\ RejectionsOK(c) /\ RequestsOK(c) /\ ReadOK(c)
  BY <1>0 DEF ClientOK
<1>q. link[c].queue \in Seq(Messages) /\ (Reads(c)' <=> Reads(c))
  BY <1>t DEF Types, LinkTypes, Reads
<1>1. Types(c)'
  BY <1>t DEF Offered, Types
<1>2. Attached(c)'
  BY <1>t, <1>q DEF Offered, Attached
<1>3. OwedOK(c)' /\ ReadOK(c)'
  BY <1>t, <1>q DEF Offered, OwedOK, ReadOK
<1>n. /\ RejectionCount(Append(link[c].queue, x)) = RejectionCount(link[c].queue)
      /\ DroppedCount(Append(link[c].queue, x)) = DroppedCount(link[c].queue)
      /\ RequestCount(Append(link[c].queue, x)) =
           RequestCount(link[c].queue) + (IF x.kind = "Request" THEN 1 ELSE 0)
      /\ RequestCount(link[c].queue) \in Nat
  BY <1>q, CountsAppend
<1>4. RejectionsOK(c)'
  <2>1. sent'[c].rejections = sent[c].rejections
    BY <1>t DEF Types
  <2>2. QED
    BY <1>t, <1>q, <1>n, <2>1 DEF Offered, RejectionsOK
<1>5. RequestsOK(c)'
  <2>0. /\ RequestCount(link'[c].queue) \in Nat
        /\ RequestCount(link[c].queue) <= RequestCount(link'[c].queue)
    <3>1. link'[c].queue = link[c].queue \/ link'[c].queue = Append(link[c].queue, x)
      BY DEF Offered
    <3>2. \A m \in Nat : m <= m /\ m <= m + 1 /\ m <= m + 0 /\ m + 1 \in Nat /\ m + 0 \in Nat
      OBVIOUS
    <3>3. CASE link'[c].queue = link[c].queue
      BY <1>n, <3>2, <3>3
    <3>4. CASE link'[c].queue = Append(link[c].queue, x)
      BY <1>n, <3>2, <3>4
    <3>5. QED
      BY <3>1, <3>3, <3>4
  <2>1. CASE sent'[c] = sent[c]
    <3>1. /\ sent[c].requests \in Nat /\ client[c].requests \in Nat
          /\ link[c].state = "gone" => link'[c].state = "gone"
      BY <1>t DEF Offered, Types, ClientTypes
    <3>2. QED
      BY <1>t, <1>q, <1>n, <2>0, <2>1, <3>1 DEF RequestsOK
  <2>2. CASE /\ x.kind = "Request" /\ notice = "none" /\ link[c].state = "Live"
             /\ link'[c].queue = Append(link[c].queue, x)
             /\ sent'[c] = [sent[c] EXCEPT !.requests = @ + 1]
    BY <1>t, <1>q, <1>n, <2>2, SMTT(60) DEF RequestsOK, Types, WriterTypes, ClientTypes
  <2>3. QED
    BY <2>1, <2>2
<1>6. QED
  BY <1>1, <1>2, <1>3, <1>4, <1>5

\* An offered message that is no frame and no event keeps a client's part of the
\* invariant.
LEMMA OfferedOK ==
  ASSUME DeliveryInv, NEW c \in Clients, NEW k \in PlainKinds,
         Offered(link[c], link'[c], Plain(k)),
         writer'[c] = writer[c], client'[c] = client[c], reader'[c] = reader[c],
         pace'[c].hasViewChange = pace[c].hasViewChange, isLinkUp'[c] = isLinkUp[c],
         view' = view, revision' = revision, notice # "none" => notice' # "none",
         dispatcher'.pc \in {"push", "wait"} =>
           /\ dispatcher.pc \in {"push", "wait"} /\ inbox' = inbox
           /\ link'[c].state = "Desynced" => link[c].state = "Desynced",
         \/ sent'[c] = sent[c]
         \/ /\ k = "Request" /\ notice = "none" /\ link[c].state = "Live"
            /\ link'[c].queue = Append(link[c].queue, Plain(k))
            /\ sent'[c] = [sent[c] EXCEPT !.requests = @ + 1]
  PROVE  ClientOK(c)'
<1>x. /\ Plain(k) \in Messages /\ Plain(k).kind = k
      /\ ~IsEventful(Plain(k)) /\ ~IsFrameDelivery(Plain(k))
      /\ RejectionsIn(Plain(k)) = 0 /\ RunsDroppedIn(Plain(k)) = 0
  BY PlainMessages
<1>1. /\ Types(c)' /\ Attached(c)' /\ OwedOK(c)' /\ ReadOK(c)'
      /\ RejectionsOK(c)' /\ RequestsOK(c)'
  BY <1>x, OfferedRest
<1>2. ViewsOK(c)' /\ EventsOK(c)'
  BY <1>x, PlainSent DEF Offered
<1>3. QED
  BY <1>1, <1>2 DEF ClientOK

\* An answer keeps the invariant (`send_answer`).
LEMMA SendAnswerInv ==
  ASSUME DeliveryInv, NEW c \in Clients, SendAnswer(c)
  PROVE  DeliveryInv'
<1> USE CapacityAssumption, HeldAssumption, BoundsAssumption
<1>0. SessionOK /\ \A r \in Clients : ClientOK(r)
  BY DEF DeliveryInv
<1>t. Types(c) /\ Attached(c)
  BY <1>0 DEF ClientOK
<1>l. /\ link'[c] = TrySendDelivery(link[c], Plain("Answer"))
      /\ DOMAIN link' = Clients /\ \A r \in Clients : r # c => link'[r] = link[r]
  BY <1>0 DEF SendAnswer, SessionOK
<1>k. "Answer" \in PlainKinds /\ Plain("Answer") \in Messages
  BY PlainMessages DEF PlainKinds
<1>o. Offered(link[c], link'[c], Plain("Answer"))
  BY <1>0, <1>t, <1>l, <1>k, OffersAreOffered DEF SendAnswer, IsSubscribed, SessionOK, Types
<1>1. SessionOK'
  <2>1. \A r \in Clients : link[r].state # "none" => link'[r].state # "none"
    BY <1>l, <1>o DEF Offered
  <2>2. QED
    BY <1>0, <1>l, <2>1, SMTT(60) DEF SendAnswer, CanHandle, Handling, sessionVars, threadVars,
       IsSubscribed, SessionOK, DispatcherPcs
<1>2. ASSUME NEW r \in Clients, r # c PROVE ClientOK(r)'
  BY <1>0, <1>l, <1>2, Untouched DEF SendAnswer, CanHandle, Handling, sessionVars, threadVars,
     SessionOK
<1>3. ClientOK(c)'
  BY <1>0, <1>k, <1>o, OfferedOK DEF SendAnswer, CanHandle, Handling, sessionVars, threadVars,
     SessionOK
<1>4. QED
  BY <1>1, <1>2, <1>3 DEF DeliveryInv

\* A viewer action request keeps the invariant: it is counted as accepted only
\* when the queue took it.
LEMMA SendClientActionRequestInv ==
  ASSUME DeliveryInv, NEW c \in Clients, SendClientActionRequest(c)
  PROVE  DeliveryInv'
<1> USE CapacityAssumption, HeldAssumption, BoundsAssumption
<1>0. SessionOK /\ \A r \in Clients : ClientOK(r)
  BY DEF DeliveryInv
<1>t. Types(c) /\ Attached(c)
  BY <1>0 DEF ClientOK
<1>l. /\ link'[c] = TrySendDelivery(link[c], Plain("Request"))
      /\ DOMAIN link' = Clients /\ \A r \in Clients : r # c => link'[r] = link[r]
  BY <1>0 DEF SendClientActionRequest, SessionOK
<1>k. "Request" \in PlainKinds /\ Plain("Request") \in Messages
  BY PlainMessages DEF PlainKinds
<1>o. Offered(link[c], link'[c], Plain("Request"))
  BY <1>0, <1>t, <1>l, <1>k, OffersAreOffered DEF SendClientActionRequest, IsSubscribed,
     SessionOK, Types
<1>1. SessionOK'
  <2>1. \A r \in Clients : link[r].state # "none" => link'[r].state # "none"
    BY <1>l, <1>o DEF Offered
  <2>2. QED
    BY <1>0, <1>l, <2>1 DEF SendClientActionRequest, CanHandle, Handling, sessionVars,
       threadVars, IsSubscribed, SessionOK, DispatcherPcs
<1>2. ASSUME NEW r \in Clients, r # c PROVE ClientOK(r)'
  BY <1>0, <1>l, <1>2, Untouched DEF SendClientActionRequest, CanHandle, Handling, sessionVars,
     threadVars, SessionOK
<1>s. \/ sent'[c] = sent[c]
      \/ /\ "Request" = "Request" /\ notice = "none" /\ link[c].state = "Live"
         /\ link'[c].queue = Append(link[c].queue, Plain("Request"))
         /\ sent'[c] = [sent[c] EXCEPT !.requests = @ + 1]
  <2>1. CASE IsTakenNow(link[c]) /\ notice = "none"
    <3>1. sent'[c] = [sent[c] EXCEPT !.requests = @ + 1]
      BY <1>0, <2>1 DEF SendClientActionRequest, SessionOK
    <3>2. link'[c].queue = Append(link[c].queue, Plain("Request"))
      BY <1>l, <1>t, <2>1 DEF IsTakenNow, TrySendDelivery, TrySend, Queued, IsFull, Types,
         LinkTypes, LinkFields
    <3>3. QED
      BY <2>1, <3>1, <3>2 DEF IsTakenNow
  <2>2. CASE ~(IsTakenNow(link[c]) /\ notice = "none")
    <3>1. sent'[c] = [sent[c] EXCEPT !.requests = @]
      BY <1>0, <2>2 DEF SendClientActionRequest, SessionOK
    <3>2. sent'[c] = sent[c]
      BY <1>t, <3>1 DEF Types
    <3>3. QED
      BY <3>2
  <2>3. QED
    BY <2>1, <2>2
<1>3. ClientOK(c)'
  BY <1>0, <1>k, <1>o, <1>s, OfferedOK DEF SendClientActionRequest, CanHandle, Handling,
     sessionVars, threadVars, SessionOK
<1>4. QED
  BY <1>1, <1>2, <1>3 DEF DeliveryInv

\* The wake for host writes keeps the invariant.
LEMMA SendHostWakeInv ==
  ASSUME DeliveryInv, NEW c \in Clients, SendHostWake(c)
  PROVE  DeliveryInv'
<1> USE CapacityAssumption, HeldAssumption, BoundsAssumption
<1>0. SessionOK /\ \A r \in Clients : ClientOK(r)
  BY DEF DeliveryInv
<1>t. Types(c) /\ Attached(c)
  BY <1>0 DEF ClientOK
<1>l. /\ link'[c] = TrySend(link[c], Plain("HostWrite"), link[c])
      /\ DOMAIN link' = Clients /\ \A r \in Clients : r # c => link'[r] = link[r]
  BY <1>0 DEF SendHostWake, SessionOK
<1>k. "HostWrite" \in PlainKinds /\ Plain("HostWrite") \in Messages
  BY PlainMessages DEF PlainKinds
<1>o. Offered(link[c], link'[c], Plain("HostWrite"))
  BY <1>0, <1>t, <1>l, <1>k, OffersAreOffered DEF SendHostWake, SessionOK, Types
<1>1. SessionOK'
  <2>1. \A r \in Clients : link[r].state # "none" => link'[r].state # "none"
    BY <1>l, <1>o DEF Offered
  <2>2. QED
    BY <1>0, <1>l, <2>1 DEF SendHostWake, CanHandle, Handling, sessionVars, threadVars,
       SessionOK, DispatcherPcs
<1>2. ASSUME NEW r \in Clients, r # c PROVE ClientOK(r)'
  BY <1>0, <1>l, <1>2, Untouched DEF SendHostWake, CanHandle, Handling, sessionVars, threadVars,
     SessionOK
<1>3. ClientOK(c)'
  BY <1>0, <1>k, <1>o, OfferedOK DEF SendHostWake, CanHandle, Handling, sessionVars, threadVars,
     SessionOK
<1>4. QED
  BY <1>1, <1>2, <1>3 DEF DeliveryInv

\* A detach keeps the invariant.
LEMMA DetachClientInv ==
  ASSUME DeliveryInv, NEW c \in Clients, DetachClient(c)
  PROVE  DeliveryInv'
<1> USE CapacityAssumption, HeldAssumption, BoundsAssumption
<1>0. SessionOK /\ \A r \in Clients : ClientOK(r)
  BY DEF DeliveryInv
<1>t. Types(c) /\ Attached(c)
  BY <1>0 DEF ClientOK
<1>l. /\ link'[c] = Unsubscribed(link[c])
      /\ DOMAIN link' = Clients /\ \A r \in Clients : r # c => link'[r] = link[r]
  BY <1>0 DEF DetachClient, SessionOK
<1>k. "None" \in PlainKinds /\ Plain("None") \in Messages
  BY PlainMessages DEF PlainKinds
<1>o. Offered(link[c], link'[c], Plain("None"))
  BY <1>0, <1>t, <1>l, <1>k, OffersAreOffered DEF DetachClient, IsSubscribed, SessionOK, Types
<1>1. SessionOK'
  <2>1. \A r \in Clients : link[r].state # "none" => link'[r].state # "none"
    BY <1>l, <1>o DEF Offered
  <2>2. QED
    BY <1>0, <1>l, <2>1 DEF DetachClient, CanHandle, Handling, sessionVars, threadVars,
       IsSubscribed, SessionOK, DispatcherPcs
<1>2. ASSUME NEW r \in Clients, r # c PROVE ClientOK(r)'
  BY <1>0, <1>l, <1>2, Untouched DEF DetachClient, CanHandle, Handling, sessionVars, threadVars,
     SessionOK
<1>3. ClientOK(c)'
  BY <1>0, <1>k, <1>o, OfferedOK DEF DetachClient, CanHandle, Handling, sessionVars, threadVars,
     SessionOK
<1>4. QED
  BY <1>1, <1>2, <1>3 DEF DeliveryInv

\* A host write that is added keeps the invariant (`queue_host_write`).
LEMMA AddHostWriteInv ==
  ASSUME DeliveryInv, NEW c \in Clients, NEW t \in Targets, AddHostWrite(c, t)
  PROVE  DeliveryInv'
<1> USE CapacityAssumption, HeldAssumption, BoundsAssumption
<1>0. SessionOK /\ \A r \in Clients : ClientOK(r)
  BY DEF DeliveryInv
<1>t. Types(c)
  BY <1>0 DEF ClientOK
<1>l. /\ DOMAIN link' = Clients /\ \A r \in Clients : r # c => link'[r] = link[r]
      /\ DOMAIN link'[c] = DOMAIN link[c]
      /\ \A f \in DOMAIN link[c] : f \notin {"hostWrites", "isWakeQueued"} => link'[c][f] = link[c][f]
      /\ link[c].state # "none"
  BY <1>0 DEF AddHostWrite, SessionOK, IsSubscribed
<1>k. "None" \in PlainKinds
  BY DEF PlainKinds
<1>o. Offered(link[c], link'[c], Plain("None"))
  BY <1>t, <1>l DEF Offered, Types, LinkTypes, LinkFields
<1>1. SessionOK'
  <2>1. \A r \in Clients : link[r].state # "none" => link'[r].state # "none"
    BY <1>l, <1>o DEF Offered
  <2>2. inputCount' \in 0 .. MaxInputs /\ inputCount' = inputCount + 1
    BY <1>0 DEF AddHostWrite, CanHandle, SessionOK
  <2>3. /\ dispatcher' \in [pc : DispatcherPcs, asked : Endings \cup {"none"}, hostClient : SUBSET Clients]
        /\ dispatcher'.pc # "announce" /\ dispatcher'.hostClient \subseteq dispatcher.hostClient \cup {c}
    BY <1>0 DEF AddHostWrite, SessionOK, DispatcherPcs
  <2>4. UNCHANGED <<view, revision, inbox, notice, pace, threadVars, sent>>
    BY DEF AddHostWrite
  <2>5. \A r \in dispatcher'.hostClient : link'[r].state # "none"
    <3>1. dispatcher.hostClient \subseteq Clients /\ \A r \in dispatcher.hostClient : link[r].state # "none"
      BY <1>0 DEF SessionOK
    <3>2. QED
      BY <1>l, <2>1, <2>3, <3>1
  <2>6. view' \in 1 .. inputCount' + 1 /\ revision' \in 0 .. inputCount'
    BY <1>0, <2>2, <2>4 DEF SessionOK, threadVars
  <2>7. QED
    BY <1>0, <1>l, <2>2, <2>3, <2>4, <2>5, <2>6 DEF threadVars, SessionOK
<1>2. ASSUME NEW r \in Clients, r # c PROVE ClientOK(r)'
  BY <1>0, <1>l, <1>2, Untouched DEF AddHostWrite, CanHandle, Handling, sessionVars, threadVars,
     SessionOK
<1>3. ClientOK(c)'
  BY <1>0, <1>k, <1>o, OfferedOK DEF AddHostWrite, CanHandle, Handling, sessionVars, threadVars,
     SessionOK
<1>4. QED
  BY <1>1, <1>2, <1>3 DEF DeliveryInv

\* Claiming the wake of a host write keeps the invariant.
LEMMA SwapHostWakeInv ==
  ASSUME DeliveryInv, NEW c \in Clients, SwapHostWake(c)
  PROVE  DeliveryInv'
<1> USE CapacityAssumption, HeldAssumption, BoundsAssumption
<1>0. SessionOK /\ \A r \in Clients : ClientOK(r)
  BY DEF DeliveryInv
<1>t. Types(c)
  BY <1>0 DEF ClientOK
<1>l. /\ DOMAIN link' = Clients /\ \A r \in Clients : r # c => link'[r] = link[r]
      /\ DOMAIN link'[c] = DOMAIN link[c]
      /\ \A f \in DOMAIN link[c] : f \notin {"hostWrites", "isWakeQueued"} => link'[c][f] = link[c][f]
      /\ link[c].state # "none"
  BY <1>0 DEF SwapHostWake, SessionOK
<1>k. "None" \in PlainKinds
  BY DEF PlainKinds
<1>o. Offered(link[c], link'[c], Plain("None"))
  BY <1>t, <1>l DEF Offered, Types, LinkTypes, LinkFields
<1>1. SessionOK'
  <2>1. \A r \in Clients : link[r].state # "none" => link'[r].state # "none"
    BY <1>l, <1>o DEF Offered
  <2>2. QED
    BY <1>0, <1>l, <2>1 DEF SwapHostWake, CanHandle, Handling, sessionVars, threadVars,
       SessionOK, DispatcherPcs
<1>2. ASSUME NEW r \in Clients, r # c PROVE ClientOK(r)'
  BY <1>0, <1>l, <1>2, Untouched DEF SwapHostWake, CanHandle, Handling, sessionVars, threadVars,
     SessionOK
<1>3. ClientOK(c)'
  BY <1>0, <1>k, <1>o, OfferedOK DEF SwapHostWake, CanHandle, Handling, sessionVars, threadVars,
     SessionOK
<1>4. QED
  BY <1>1, <1>2, <1>3 DEF DeliveryInv

\* Giving the claim back keeps the invariant.
LEMMA ClearHostWakeInv ==
  ASSUME DeliveryInv, NEW c \in Clients, ClearHostWake(c)
  PROVE  DeliveryInv'
<1> USE CapacityAssumption, HeldAssumption, BoundsAssumption
<1>0. SessionOK /\ \A r \in Clients : ClientOK(r)
  BY DEF DeliveryInv
<1>t. Types(c)
  BY <1>0 DEF ClientOK
<1>l. /\ DOMAIN link' = Clients /\ \A r \in Clients : r # c => link'[r] = link[r]
      /\ DOMAIN link'[c] = DOMAIN link[c]
      /\ \A f \in DOMAIN link[c] : f \notin {"hostWrites", "isWakeQueued"} => link'[c][f] = link[c][f]
      /\ link[c].state # "none"
  BY <1>0 DEF ClearHostWake, SessionOK
<1>k. "None" \in PlainKinds
  BY DEF PlainKinds
<1>o. Offered(link[c], link'[c], Plain("None"))
  BY <1>t, <1>l DEF Offered, Types, LinkTypes, LinkFields
<1>1. SessionOK'
  <2>1. \A r \in Clients : link[r].state # "none" => link'[r].state # "none"
    BY <1>l, <1>o DEF Offered
  <2>2. QED
    BY <1>0, <1>l, <2>1 DEF ClearHostWake, CanHandle, Handling, sessionVars, threadVars,
       SessionOK, DispatcherPcs
<1>2. ASSUME NEW r \in Clients, r # c PROVE ClientOK(r)'
  BY <1>0, <1>l, <1>2, Untouched DEF ClearHostWake, CanHandle, Handling, sessionVars,
     threadVars, SessionOK
<1>3. ClientOK(c)'
  BY <1>0, <1>k, <1>o, OfferedOK DEF ClearHostWake, CanHandle, Handling, sessionVars,
     threadVars, SessionOK
<1>4. QED
  BY <1>1, <1>2, <1>3 DEF DeliveryInv

\* Asking the dispatcher for an ending keeps the invariant.
LEMMA AskEndingInv ==
  ASSUME DeliveryInv, NEW e \in Endings, AskEnding(e)
  PROVE  DeliveryInv'
<1> USE CapacityAssumption, HeldAssumption, BoundsAssumption
<1>0. SessionOK /\ \A r \in Clients : ClientOK(r)
  BY DEF DeliveryInv
<1>1. SessionOK'
  <2>1. inputCount' \in 0 .. MaxInputs /\ inputCount <= inputCount'
    BY <1>0 DEF AskEnding, CanHandle, SessionOK
  <2>2. /\ dispatcher' \in [pc : DispatcherPcs, asked : Endings \cup {"none"}, hostClient : SUBSET Clients]
        /\ dispatcher'.pc # "announce" /\ dispatcher'.hostClient = dispatcher.hostClient
    BY <1>0 DEF AskEnding, SessionOK, DispatcherPcs
  <2>3. QED
    BY <1>0, <2>1, <2>2 DEF AskEnding, threadVars, SessionOK
<1>2. ASSUME NEW r \in Clients PROVE ClientOK(r)'
  BY <1>0, Untouched DEF AskEnding, CanHandle, Handling, sessionVars, threadVars, SessionOK
<1>3. QED
  BY <1>1, <1>2 DEF DeliveryInv

\* A frame that is due wakes the dispatcher, which keeps the invariant.
LEMMA WakeForFrameInv ==
  ASSUME DeliveryInv, WakeForFrame
  PROVE  DeliveryInv'
<1> USE CapacityAssumption, HeldAssumption, BoundsAssumption
<1>0. SessionOK /\ \A r \in Clients : ClientOK(r)
  BY DEF DeliveryInv
<1>1. SessionOK'
  BY <1>0 DEF WakeForFrame, CanHandle, Handling, sessionVars, threadVars, SessionOK,
     DispatcherPcs
<1>2. ASSUME NEW r \in Clients PROVE ClientOK(r)'
  BY <1>0, Untouched DEF WakeForFrame, CanHandle, Handling, sessionVars, threadVars, SessionOK
<1>3. QED
  BY <1>1, <1>2 DEF DeliveryInv

\* The dispatcher's way to its resync keeps the invariant.
LEMMA FinishHandlingInv ==
  ASSUME DeliveryInv, FinishHandling
  PROVE  DeliveryInv'
<1> USE CapacityAssumption, HeldAssumption, BoundsAssumption
<1>0. SessionOK /\ \A r \in Clients : ClientOK(r)
  BY DEF DeliveryInv
<1>1. SessionOK'
  BY <1>0 DEF FinishHandling, CanHandle, Handling, sessionVars, threadVars, SessionOK,
     DispatcherPcs
<1>2. ASSUME NEW r \in Clients PROVE ClientOK(r)'
  BY <1>0, Untouched DEF FinishHandling, CanHandle, Handling, sessionVars, threadVars, SessionOK
<1>3. QED
  BY <1>1, <1>2 DEF DeliveryInv

\* The end of the wait for the writing threads keeps the invariant.
LEMMA EndAwaitInv ==
  ASSUME DeliveryInv, EndAwait
  PROVE  DeliveryInv'
<1> USE CapacityAssumption, HeldAssumption, BoundsAssumption
<1>0. SessionOK /\ \A r \in Clients : ClientOK(r)
  BY DEF DeliveryInv
<1>1. SessionOK'
  BY <1>0 DEF EndAwait, CanHandle, Handling, sessionVars, threadVars, SessionOK, DispatcherPcs
<1>2. ASSUME NEW r \in Clients PROVE ClientOK(r)'
  BY <1>0, Untouched DEF EndAwait, CanHandle, Handling, sessionVars, threadVars, SessionOK
<1>3. QED
  BY <1>1, <1>2 DEF DeliveryInv

\* Giving up that wait keeps the invariant.
LEMMA GiveUpAwaitInv ==
  ASSUME DeliveryInv, GiveUpAwait
  PROVE  DeliveryInv'
<1> USE CapacityAssumption, HeldAssumption, BoundsAssumption
<1>0. SessionOK /\ \A r \in Clients : ClientOK(r)
  BY DEF DeliveryInv
<1>1. SessionOK'
  BY <1>0 DEF GiveUpAwait, CanHandle, Handling, sessionVars, threadVars, SessionOK,
     DispatcherPcs
<1>2. ASSUME NEW r \in Clients PROVE ClientOK(r)'
  BY <1>0, Untouched DEF GiveUpAwait, CanHandle, Handling, sessionVars, threadVars, SessionOK
<1>3. QED
  BY <1>1, <1>2 DEF DeliveryInv

\* Time that opens a frame pace keeps the invariant.
LEMMA PaceOpensInv ==
  ASSUME DeliveryInv, NEW c \in Clients, PaceOpens(c)
  PROVE  DeliveryInv'
<1>0. SessionOK /\ \A r \in Clients : ClientOK(r)
  BY DEF DeliveryInv
<1>1. SessionOK'
  BY <1>0, ZenonT(60) DEF PaceOpens, sessionVars, threadVars, SessionOK
<1>2. ASSUME NEW r \in Clients PROVE ClientOK(r)'
  <2>1. LinkTypes(link[r]) /\ "None" \in PlainKinds /\ Plain("None") \in Messages
    BY <1>0, PlainMessages DEF ClientOK, Types, PlainKinds
  <2>2. Offered(link[r], link[r], Plain("None"))
    BY <2>1, OffersAreOffered
  <2>3. pace'[r].hasViewChange = pace[r].hasViewChange
    BY <1>0 DEF PaceOpens, SessionOK
  <2>4. QED
    BY <1>0, <2>1, <2>2, <2>3, OfferedOK DEF PaceOpens, sessionVars, threadVars
<1>3. QED
  BY <1>1, <1>2 DEF DeliveryInv

\* Handling an event of the inbox keeps the invariant.
LEMMA HandleInboxInv ==
  ASSUME DeliveryInv, NEW e \in inbox, HandleInbox(e)
  PROVE  DeliveryInv'
<1>0. SessionOK /\ \A r \in Clients : ClientOK(r)
  BY DEF DeliveryInv
<1>1. ASSUME NEW r \in Clients PROVE Offered(link[r], link'[r], Plain("None"))
  <2>1. LinkTypes(link[r]) /\ Plain("None") \in Messages
    BY <1>0, PlainMessages DEF ClientOK, Types, PlainKinds
  <2>2. link'[r] = link[r] \/ link'[r] = Unsubscribed(link[r])
    BY DEF HandleInbox
  <2>3. QED
    BY <2>1, <2>2, OffersAreOffered
<1>2. SessionOK'
  <2>1. \A r \in Clients : link[r].state # "none" => link'[r].state # "none"
    BY <1>1 DEF Offered
  <2>2. DOMAIN link' = Clients
    BY DEF HandleInbox
  <2>3. QED
    BY <1>0, <2>1, <2>2 DEF HandleInbox, Handling, sessionVars, threadVars, SessionOK,
       DispatcherPcs
<1>3. ASSUME NEW r \in Clients PROVE ClientOK(r)'
  <2>1. "None" \in PlainKinds
    BY DEF PlainKinds
  <2>2. QED
    BY <1>0, <1>1, <2>1, OfferedOK DEF HandleInbox, Handling, sessionVars, threadVars, SessionOK
<1>4. QED
  BY <1>2, <1>3 DEF DeliveryInv

\* The end of the stream is offered to every subscriber (`deliver_to_every_subscriber`).
LEMMA EndingOffered ==
  ASSUME DeliveryInv, NEW e \in Endings, PublishEnding(e), NEW r \in Clients
  PROVE  /\ Offered(link[r], link'[r], Plain("Ending")) /\ DOMAIN link' = Clients
         /\ notice' # "none" /\ notice' \in Endings
<1>1. LinkTypes(link[r]) /\ Plain("Ending") \in Messages
  BY PlainMessages DEF DeliveryInv, ClientOK, Types, PlainKinds
<1>2. link'[r] = DeliverToSubscriber(link[r], Plain("Ending"), TRUE)
  BY DEF PublishEnding
<1>3. Offered(link[r], link'[r], Plain("Ending"))
  BY <1>1, <1>2, OffersAreOffered
<1>4. QED
  BY <1>3 DEF PublishEnding, Endings, DeliveryInv, SessionOK

\* Closing the last tab keeps the invariant.
LEMMA CloseLastTabInv ==
  ASSUME DeliveryInv, CloseLastTab
  PROVE  DeliveryInv'
<1>0. SessionOK /\ \A r \in Clients : ClientOK(r)
  BY DEF DeliveryInv
<1>1. \A r \in Clients : /\ Offered(link[r], link'[r], Plain("Ending")) /\ DOMAIN link' = Clients
                         /\ notice' # "none" /\ notice' \in Endings
  BY EndingOffered DEF CloseLastTab, Endings
<1>2. SessionOK'
  <2>1. \A r \in Clients : link[r].state # "none" => link'[r].state # "none"
    BY <1>1 DEF Offered
  <2>2. DOMAIN link' = Clients /\ notice' \in Endings \cup {"none"}
    BY <1>0 DEF CloseLastTab, PublishEnding, SessionOK, Endings
  <2>3. /\ inputCount' \in 0 .. MaxInputs /\ view' \in 1 .. inputCount' + 1
        /\ revision' \in 0 .. inputCount'
    BY <1>0, BoundsAssumption DEF CloseLastTab, CanHandle, SessionOK
  <2>4. /\ dispatcher' \in [pc : DispatcherPcs, asked : Endings \cup {"none"},
                            hostClient : SUBSET Clients]
        /\ dispatcher'.pc # "announce" /\ dispatcher'.hostClient = dispatcher.hostClient
    BY <1>0 DEF CloseLastTab, SessionOK, DispatcherPcs, Endings
  <2>5. QED
    BY <1>0, <2>1, <2>2, <2>3, <2>4 DEF CloseLastTab, threadVars, SessionOK
<1>3. ASSUME NEW r \in Clients PROVE ClientOK(r)'
  <2>1. "Ending" \in PlainKinds
    BY DEF PlainKinds
  <2>2. dispatcher'.pc = "handle"
    BY <1>0 DEF CloseLastTab, SessionOK
  <2>3. QED
    BY <1>0, <1>1, <2>1, <2>2, OfferedOK DEF CloseLastTab, CanHandle, threadVars
<1>4. QED
  BY <1>2, <1>3 DEF DeliveryInv

\* The announcement of the end keeps the invariant (`announce_restarting`).
LEMMA AnnounceInv ==
  ASSUME DeliveryInv, Announce
  PROVE  DeliveryInv'
<1>0. SessionOK /\ \A r \in Clients : ClientOK(r)
  BY DEF DeliveryInv
<1>a. dispatcher.asked \in Endings
  BY <1>0 DEF Announce, SessionOK
<1>1. CASE dispatcher.asked = "Quit" /\ notice # "none"
  <2>1. SessionOK'
    BY <1>0, <1>1 DEF Announce, sessionVars, threadVars, SessionOK, DispatcherPcs
  <2>2. ASSUME NEW r \in Clients PROVE ClientOK(r)'
    BY <1>0, <1>1, Untouched DEF Announce, sessionVars, threadVars, SessionOK
  <2>3. QED
    BY <2>1, <2>2 DEF DeliveryInv
<1>2. CASE PublishEnding(dispatcher.asked)
  <2>1. \A r \in Clients : /\ Offered(link[r], link'[r], Plain("Ending"))
                           /\ notice' # "none" /\ notice' \in Endings
    BY <1>2, <1>a, EndingOffered
  <2>2. SessionOK'
    <3>1. \A r \in Clients : link[r].state # "none" => link'[r].state # "none"
      BY <2>1 DEF Offered
    <3>2. DOMAIN link' = Clients /\ notice' \in Endings \cup {"none"}
      BY <1>0, <1>2, <1>a DEF PublishEnding, SessionOK
    <3>3. QED
      BY <1>0, <3>1, <3>2 DEF Announce, sessionVars, threadVars, SessionOK, DispatcherPcs
  <2>3. ASSUME NEW r \in Clients PROVE ClientOK(r)'
    <3>1. "Ending" \in PlainKinds
      BY DEF PlainKinds
    <3>2. dispatcher'.pc = "await"
      BY <1>0 DEF Announce, SessionOK
    <3>3. QED
      BY <1>0, <2>1, <3>1, <3>2, OfferedOK DEF Announce, sessionVars, threadVars
  <2>4. QED
    BY <2>2, <2>3 DEF DeliveryInv
<1>3. QED
  BY <1>1, <1>2 DEF Announce

\* A view change keeps the invariant: every client is marked for it.
LEMMA ChangeViewInv ==
  ASSUME DeliveryInv, ChangeView
  PROVE  DeliveryInv'
<1>0. SessionOK /\ \A r \in Clients : ClientOK(r)
  BY DEF DeliveryInv
<1>1. SessionOK'
  <2>1. /\ inputCount' \in 0 .. MaxInputs /\ view' \in 1 .. inputCount' + 1
        /\ revision' \in 0 .. inputCount'
    BY <1>0, BoundsAssumption DEF ChangeView, CanHandle, SessionOK
  <2>2. /\ dispatcher' \in [pc : DispatcherPcs, asked : Endings \cup {"none"},
                            hostClient : SUBSET Clients]
        /\ dispatcher'.pc # "announce" /\ dispatcher'.hostClient = dispatcher.hostClient
    BY <1>0 DEF ChangeView, Handling, SessionOK, DispatcherPcs
  <2>3. pace' \in [Clients -> [hasViewChange : BOOLEAN, isOpen : BOOLEAN]]
    BY <1>0, ZenonT(60) DEF ChangeView, SessionOK
  <2>4. QED
    BY <1>0, <2>1, <2>2, <2>3 DEF ChangeView, threadVars, SessionOK
<1>2. ASSUME NEW r \in Clients PROVE ClientOK(r)'
  <2>0. ClientOK(r) /\ (Reads(r)' <=> Reads(r))
    BY <1>0 DEF ChangeView, threadVars, Reads
  <2>1. pace'[r].hasViewChange /\ dispatcher'.pc = "handle" /\ view' = view + 1
    BY <1>0 DEF ChangeView, Handling, SessionOK
  <2>2. UNCHANGED <<revision, inbox, notice, link, writer, reader, isLinkLost, isLinkUp, client, sent>>
    BY DEF ChangeView, threadVars
  <2>3. Types(r)' /\ Attached(r)' /\ OwedOK(r)' /\ RejectionsOK(r)' /\ RequestsOK(r)' /\ ReadOK(r)'
    BY <2>0, <2>1, <2>2 DEF ClientOK, Types, Attached, OwedOK, RejectionsOK, RequestsOK, ReadOK
  <2>4. ViewsOK(r)'
    <3>1. /\ writer[r].taken \in Messages /\ link[r].queue \in Seq(Messages)
          /\ view \in Nat /\ view + 1 \in Nat /\ revision \in Nat /\ view <= view + 1 /\ revision <= revision
      BY <1>0, <2>0 DEF ClientOK, Types, LinkTypes, WriterTypes, SessionOK
    <3>2. NothingNewer(view, revision, writer[r].taken, link[r].queue) =>
            NothingNewer(view + 1, revision, writer[r].taken, link[r].queue)
      BY <3>1, NothingNewerLater
    <3>3. QED
      BY <2>0, <2>1, <2>2, <3>2 DEF ClientOK, ViewsOK
  <2>5. EventsOK(r)'
    <3>1. client[r].shown \in Nat /\ view \in Nat
      BY <1>0, <2>0 DEF ClientOK, Types, ClientTypes, SessionOK
    <3>2. QED
      BY <2>0, <2>1, <2>2, <3>1 DEF ClientOK, EventsOK
  <2>6. QED
    BY <2>3, <2>4, <2>5 DEF ClientOK
<1>3. QED
  BY <1>1, <1>2 DEF DeliveryInv

\* An event is a message that counts for nothing.
LEMMA EventMessages ==
  ASSUME NEW n \in Numbers
  PROVE  /\ EventDelivery(n) \in Messages /\ EventDelivery(n).kind = "Event"
         /\ EventDelivery(n).event = n
         /\ IsEventful(EventDelivery(n)) /\ ~IsFrameDelivery(EventDelivery(n))
         /\ RejectionsIn(EventDelivery(n)) = 0 /\ RunsDroppedIn(EventDelivery(n)) = 0
BY DEF EventDelivery, Messages, IsEventful, IsFrameDelivery, RejectionsIn, RunsDroppedIn

\* An event for every client keeps the invariant: whoever has no room is paused.
LEMMA PublishEventInv ==
  ASSUME DeliveryInv, PublishEvent
  PROVE  DeliveryInv'
<1>0. SessionOK /\ \A r \in Clients : ClientOK(r)
  BY DEF DeliveryInv
<1> DEFINE n == revision + 1
           x == EventDelivery(n)
<1>n. n \in Nat /\ revision \in Nat /\ view \in Nat /\ revision <= n /\ view <= view /\ n <= n
  BY <1>0 DEF SessionOK
<1>m. n \in Numbers
  BY <1>0, BoundsAssumption DEF PublishEvent, CanHandle, SessionOK, Numbers
<1> HIDE DEF n
<1>x. /\ x \in Messages /\ x.kind = "Event" /\ x.event = n /\ IsEventful(x)
      /\ ~IsFrameDelivery(x) /\ RejectionsIn(x) = 0 /\ RunsDroppedIn(x) = 0
  BY <1>m, EventMessages
<1> HIDE DEF x
<1>l. DOMAIN link' = Clients /\ \A r \in Clients : link'[r] = DeliverToSubscriber(link[r], x, FALSE)
  BY DEF PublishEvent, x, n
<1>o. ASSUME NEW r \in Clients PROVE Offered(link[r], link'[r], x)
  <2>1. LinkTypes(link[r])
    BY <1>0 DEF ClientOK, Types
  <2>2. QED
    BY <1>l, <1>x, <2>1, OffersAreOffered
<1>d. dispatcher'.pc = "handle" /\ revision' = n
      /\ UNCHANGED <<view, inbox, notice, pace, writer, reader, isLinkLost, isLinkUp, client, sent>>
  BY <1>0 DEF PublishEvent, Handling, threadVars, SessionOK, n
<1>1. SessionOK'
  <2>0. \A r \in Clients : link[r].state # "none" => link'[r].state # "none"
    BY <1>o DEF Offered
  <2>1. /\ inputCount' \in 0 .. MaxInputs /\ view' \in 1 .. inputCount' + 1
        /\ revision' \in 0 .. inputCount'
    BY <1>0, BoundsAssumption DEF PublishEvent, CanHandle, SessionOK
  <2>2. /\ dispatcher' \in [pc : DispatcherPcs, asked : Endings \cup {"none"},
                            hostClient : SUBSET Clients]
        /\ dispatcher'.pc # "announce" /\ dispatcher'.hostClient = dispatcher.hostClient
    BY <1>0 DEF PublishEvent, Handling, SessionOK, DispatcherPcs
  <2>3. QED
    BY <1>0, <1>l, <1>d, <2>0, <2>1, <2>2 DEF SessionOK
<1>2. ASSUME NEW r \in Clients PROVE ClientOK(r)'
  <2>1. /\ Types(r)' /\ Attached(r)' /\ OwedOK(r)' /\ ReadOK(r)'
        /\ RejectionsOK(r)' /\ RequestsOK(r)'
    BY <1>0, <1>x, <1>o, <1>d, OfferedRest
  <2>2. PICK d, q, s, k, l : /\ d = writer[r].taken /\ q = link[r].queue /\ s = client[r].seen
                             /\ k = client[r].shown /\ l = writer[r].lastView
    OBVIOUS
  <2>3. ClientOK(r) /\ Types(r) /\ ViewsOK(r) /\ EventsOK(r) /\ (Reads(r)' <=> Reads(r))
    BY <1>0, <1>d DEF ClientOK, Reads
  <2>4. d \in Messages /\ q \in Seq(Messages) /\ s \in Nat /\ k \in Nat
    BY <2>2, <2>3 DEF Types, LinkTypes, WriterTypes, ClientTypes
  <2>5. NothingNewer(view, revision, d, q) => NothingNewer(view, n, d, q)
    BY <1>n, <2>4, NothingNewerLater
  <2>6. CASE link'[r].queue = link[r].queue /\ link'[r].state # "Live"
    <3>1. ViewsOK(r)'
      BY <1>d, <2>2, <2>3, <2>5, <2>6 DEF ViewsOK
    <3>2. EventsOK(r)'
      BY <1>d, <1>n, <2>2, <2>3, <2>4, <2>6 DEF EventsOK
    <3>3. QED
      BY <2>1, <3>1, <3>2 DEF ClientOK
  <2>7. CASE link[r].state = "Live" /\ link'[r].queue = Append(link[r].queue, x)
    <3>1. NothingNewer(view, n, d, q) /\ ViewsInOrder(d, q) =>
            /\ NothingNewer(view, n, d, Append(q, x)) /\ ViewsInOrder(d, Append(q, x))
            /\ ReachesView(view, l, d, q) => ReachesView(view, l, d, Append(q, x))
            /\ k <= view /\ ViewsAreNewer(k, d, q) => ViewsAreNewer(k, d, Append(q, x))
      BY <1>n, <1>x, <2>4, AppendViews
    <3>2. s <= revision /\ NothingNewer(view, revision, d, q) /\ EventsInOrder(s, d, q)
            /\ ReachesEvent(revision, s, d, q)
          => EventsInOrder(s, d, Append(q, x)) /\ ReachesEvent(n, s, d, Append(q, x))
      BY <1>n, <1>x, <2>4, AppendEvent DEF n
    <3>3. ViewsOK(r)'
      BY <1>d, <2>2, <2>3, <2>5, <2>7, <3>1 DEF ViewsOK
    <3>4. EventsOK(r)'
      BY <1>d, <1>n, <2>2, <2>3, <2>4, <2>5, <2>7, <3>1, <3>2 DEF EventsOK, ViewsOK
    <3>5. QED
      BY <2>1, <3>3, <3>4 DEF ClientOK
  <2>8. QED
    <3>1. \/ link'[r].queue = link[r].queue /\ link'[r].state # "Live"
          \/ link[r].state = "Live" /\ link'[r].queue = Append(link[r].queue, x)
      BY <1>l, <2>3, ZenonT(60) DEF Types, LinkTypes, LinkFields, DeliverToSubscriber, TrySend,
                                    Queued, Unsubscribed, IsSubscribed
    <3>2. QED
      BY <2>6, <2>7, <3>1
<1>3. QED
  BY <1>1, <1>2 DEF DeliveryInv

\* An attach keeps the invariant: the stream starts after the session's last event.
LEMMA AcceptAttachInv ==
  ASSUME DeliveryInv, NEW c \in Clients, AcceptAttach(c)
  PROVE  DeliveryInv'
<1>0. SessionOK /\ \A r \in Clients : ClientOK(r)
  BY DEF DeliveryInv
<1>t. Types(c) /\ Attached(c) /\ RejectionsOK(c) /\ RequestsOK(c) /\ ReadOK(c) /\ ViewsOK(c) /\ EventsOK(c)
  BY <1>0 DEF ClientOK
<1>l. /\ link'[c] = [NoLink EXCEPT !.state = "Live"] /\ link[c] = NoLink
      /\ writer'[c] = [NoWriter EXCEPT !.pc = "accepted"] /\ writer[c] = NoWriter
      /\ client'[c] = [NoClient EXCEPT !.seen = revision] /\ client[c] = NoClient
      /\ sent'[c] = [rejections |-> 0, requests |-> 0]
      /\ pace'[c].hasViewChange /\ reader'[c] = "none"
      /\ DOMAIN link' = Clients /\ DOMAIN writer' = Clients /\ DOMAIN client' = Clients
      /\ \A r \in Clients : r # c =>
           link'[r] = link[r] /\ writer'[r] = writer[r] /\ client'[r] = client[r]
  BY <1>0, <1>t DEF AcceptAttach, SessionOK, Attached, NoWriter, NoLink
<1>d. /\ dispatcher'.pc = "handle"
      /\ UNCHANGED <<view, revision, inputCount, inbox, notice, pace, reader, isLinkLost, isLinkUp, sent>>
  BY <1>0 DEF AcceptAttach, Handling, SessionOK, sessionVars
<1>1. SessionOK'
  <2>1. \A r \in Clients : link[r].state # "none" => link'[r].state # "none"
    BY <1>l DEF NoLink
  <2>2. /\ dispatcher' \in [pc : DispatcherPcs, asked : Endings \cup {"none"},
                            hostClient : SUBSET Clients]
        /\ dispatcher'.pc # "announce" /\ dispatcher'.hostClient = dispatcher.hostClient
    BY <1>0 DEF AcceptAttach, Handling, SessionOK, DispatcherPcs
  <2>3. QED
    BY <1>0, <1>l, <1>d, <2>1, <2>2 DEF SessionOK
<1>2. ASSUME NEW r \in Clients, r # c PROVE ClientOK(r)'
  BY <1>0, <1>l, <1>d, <1>2, Untouched
<1>3. Types(c)'
  BY <1>0, <1>l, HeldAssumption, CapacityAssumption
  DEF Types, NoLink, NoWriter, NoClient, LinkTypes, WriterTypes, ClientTypes, LinkFields,
      WriterFields, ClientFields, WriterPcs, Messages, PlainKinds, Plain, SessionOK, Endings
<1>4. Attached(c)'
  BY <1>l DEF Attached, NoLink, NoWriter, Reads, Plain
<1>5. ViewsOK(c)' /\ EventsOK(c)'
  <2>1. link'[c].queue = <<>> /\ writer'[c].taken = Plain("None")
        /\ client'[c].seen = revision /\ client'[c].shown = 0
    BY <1>l DEF NoLink, NoWriter, NoClient
  <2>2. \A i \in 0 .. Len(<<>>) : i = 0 /\ At(Plain("None"), <<>>, i) = Plain("None")
    BY DEF At
  <2>3. ~IsFrameDelivery(Plain("None")) /\ ~IsEventful(Plain("None")) /\ Plain("None").kind # "Event"
    BY DEF Plain, IsFrameDelivery, IsEventful
  <2>4. view \in Nat /\ revision \in Nat
    BY <1>0 DEF SessionOK
  <2>5. ViewsOK(c)'
    BY <1>l, <2>1, <2>2, <2>3 DEF ViewsOK, NothingNewer, ViewsInOrder
  <2>6. EventsOK(c)'
    BY <1>d, <2>1, <2>2, <2>3, <2>4 DEF EventsOK, EventsInOrder, ViewsAreNewer, ReachesEvent
  <2>7. QED
    BY <2>5, <2>6
<1>6. OwedOK(c)' /\ ReadOK(c)'
  BY <1>l, <1>d DEF OwedOK, ReadOK, NoLink, NoClient
<1>7. RejectionsOK(c)'
  BY <1>l, CountsEmpty DEF RejectionsOK, NoLink, NoWriter, NoClient, RejectionsIn,
     RunsDroppedIn, Plain
<1>8. RequestsOK(c)'
  BY <1>l, CountsEmpty DEF RequestsOK, NoLink, NoWriter, NoClient, Plain
<1>9. QED
  BY <1>1, <1>2, <1>3, <1>4, <1>5, <1>6, <1>7, <1>8 DEF DeliveryInv, ClientOK


\* What holding a rejection does to the runs: the rejections they stand for grow by
\* one, or the oldest run goes and is counted as dropped (`hold_command_rejection`).
LEMMA HoldFacts ==
  ASSUME NEW b, LinkTypes(b), b.state = "Desynced", NEW a \in RejectedActions, NEW b2,
         b2 = HoldCommandRejection(b, a)
  PROVE  /\ LinkTypes(b2)
         /\ b2.state = b.state /\ b2.queue = b.queue /\ b2.isFrameOwed = b.isFrameOwed
         /\ b2.isReceiverClosed = b.isReceiverClosed
         /\ RepeatCount(b.held) \in Nat /\ RepeatCount(b2.held) \in Nat
         /\ \/ b2.droppedRuns = b.droppedRuns /\ RepeatCount(b2.held) = RepeatCount(b.held) + 1
            \/ b2.droppedRuns = b.droppedRuns + 1 /\ RepeatCount(b2.held) <= RepeatCount(b.held)
<1> DEFINE h == b.held
           n == Len(h)
           run == [action |-> a, repeats |-> 1]
<1>0. h \in Seq(Runs) /\ n \in Nat /\ n <= MaxHeldRejections /\ MaxHeldRejections \in Nat \ {0}
  BY HeldAssumption DEF LinkTypes
<1>r. run \in Runs /\ run.repeats = 1
  BY DEF Runs
<1>1. CASE n > 0 /\ h[n].action = a
  <2>1. b2 = [b EXCEPT !.held = [h EXCEPT ![n] = [h[n] EXCEPT !.repeats = @ + 1]]]
    BY <1>1 DEF HoldCommandRejection
  <2>2. PICK g : g = [h EXCEPT ![n] = [h[n] EXCEPT !.repeats = @ + 1]]
    OBVIOUS
  <2>3. n \in DOMAIN h /\ h[n] \in Runs /\ h # <<>>
    BY <1>0, <1>1
  <2>4. [h[n] EXCEPT !.repeats = @ + 1] \in Runs
    BY <2>3 DEF Runs
  <2>5. /\ g \in Seq(Runs) /\ Len(g) = Len(h)
        /\ \A i \in 1 .. Len(h) - 1 : g[i] = h[i]
        /\ g[Len(h)] = [h[n] EXCEPT !.repeats = @ + 1]
    BY <1>0, <2>2, <2>3, <2>4
  <2>6. g[Len(h)].repeats = h[Len(h)].repeats + 1
    BY <2>3, <2>5 DEF Runs
  <2>7. RepeatCount(g) = RepeatCount(h) + 1 /\ RepeatCount(h) \in Nat
    BY <1>0, <2>3, <2>5, <2>6, RepeatsBump, RepeatsAreNumbers
  <2>8. b2 = [b EXCEPT !.held = g]
    BY <2>1, <2>2
  <2> HIDE DEF h, n
  <2>9. QED
    BY <1>0, <2>5, <2>7, <2>8 DEF h, n, LinkTypes, LinkFields
<1>2. CASE ~(n > 0 /\ h[n].action = a) /\ n = MaxHeldRejections
  <2>1. b2 = [b EXCEPT !.held = Append(Tail(h), run), !.droppedRuns = @ + 1]
    BY <1>2 DEF HoldCommandRejection
  <2>2. h # <<>>
    BY <1>0, <1>2
  <2>3. /\ Tail(h) \in Seq(Runs) /\ Len(Tail(h)) = n - 1 /\ Head(h) \in Runs
        /\ Append(Tail(h), run) \in Seq(Runs) /\ Len(Append(Tail(h), run)) = n
    BY <1>0, <1>r, <2>2
  <2>4. Head(h).repeats \in Nat \ {0}
    BY <2>3 DEF Runs
  <2>5. /\ RepeatCount(h) = Head(h).repeats + RepeatCount(Tail(h)) /\ RepeatCount(Tail(h)) \in Nat
        /\ RepeatCount(Append(Tail(h), run)) = RepeatCount(Tail(h)) + 1
    BY <1>0, <1>r, <2>2, <2>3, RepeatsTail, RepeatsAppend
  <2>6. PICK g : g = Append(Tail(h), run)
    OBVIOUS
  <2>7. RepeatCount(g) \in Nat /\ RepeatCount(h) \in Nat /\ RepeatCount(g) <= RepeatCount(h)
    BY <2>4, <2>5, <2>6
  <2>8. b2 = [b EXCEPT !.held = g, !.droppedRuns = @ + 1] /\ g \in Seq(Runs) /\ Len(g) = n
    BY <2>1, <2>3, <2>6
  <2> HIDE DEF h, n
  <2>9. QED
    BY <1>0, <2>7, <2>8 DEF h, n, LinkTypes, LinkFields
<1>3. CASE ~(n > 0 /\ h[n].action = a) /\ n # MaxHeldRejections
  <2>1. b2 = [b EXCEPT !.held = Append(h, run)]
    BY <1>3 DEF HoldCommandRejection
  <2>2. RepeatCount(Append(h, run)) = RepeatCount(h) + 1 /\ RepeatCount(h) \in Nat
    BY <1>0, <1>r, RepeatsAppend
  <2>3. Append(h, run) \in Seq(Runs) /\ Len(Append(h, run)) = n + 1
    BY <1>0, <1>r
  <2>4. PICK g : g = Append(h, run)
    OBVIOUS
  <2> HIDE DEF h, n
  <2>5. QED
    BY <1>0, <1>3, <2>1, <2>2, <2>3, <2>4 DEF h, n, LinkTypes, LinkFields
<1>4. QED
  BY <1>1, <1>2, <1>3

\* A rejected command keeps the invariant: the rejection is queued or held.
LEMMA RejectCommandInv ==
  ASSUME DeliveryInv, NEW c \in Clients, NEW a \in RejectedActions, RejectCommand(c, a)
  PROVE  DeliveryInv'
<1> DEFINE x == Rejection(a)
           b == link[c]
           b2 == link'[c]
<1>0. SessionOK /\ \A r \in Clients : ClientOK(r)
  BY DEF DeliveryInv
<1>t. /\ Types(c) /\ Attached(c) /\ OwedOK(c) /\ RejectionsOK(c) /\ RequestsOK(c) /\ ReadOK(c)
      /\ LinkTypes(b)
  BY <1>0 DEF ClientOK, Types
<1>x. /\ x \in Messages /\ x.kind = "Rejection" /\ ~IsEventful(x) /\ ~IsFrameDelivery(x)
      /\ RejectionsIn(x) = 1 /\ RunsDroppedIn(x) = 0
  BY RejectionMessages
<1>l. /\ b2 = SendCommandRejection(b, a)
      /\ DOMAIN link' = Clients /\ \A r \in Clients : r # c => link'[r] = link[r]
      /\ sent'[c] = [sent[c] EXCEPT !.rejections = @ + 1]
      /\ DOMAIN sent' = Clients /\ \A r \in Clients : r # c => sent'[r] = sent[r]
      /\ b.state \in {"Live", "Desynced"}
  BY <1>0 DEF RejectCommand, SessionOK, IsSubscribed
<1>d. /\ dispatcher'.pc = "handle"
      /\ UNCHANGED <<view, revision, inbox, notice, pace, writer, reader, isLinkLost, isLinkUp, client>>
  BY <1>0 DEF RejectCommand, Handling, SessionOK, threadVars
<1> HIDE DEF x
<1>q. b.queue \in Seq(Messages) /\ b.held \in Seq(Runs) /\ (Reads(c)' <=> Reads(c))
  BY <1>t, <1>d DEF LinkTypes, Reads
<1>n. /\ RejectionCount(Append(b.queue, x)) = RejectionCount(b.queue) + 1
      /\ DroppedCount(Append(b.queue, x)) = DroppedCount(b.queue)
      /\ RequestCount(Append(b.queue, x)) = RequestCount(b.queue)
      /\ RejectionCount(b.queue) \in Nat /\ DroppedCount(b.queue) \in Nat
      /\ RequestCount(b.queue) \in Nat /\ RepeatCount(b.held) \in Nat
  BY <1>x, <1>q, CountsAppend, RepeatsAreNumbers, SMTT(60)
\* What the link becomes.
<1>b. /\ LinkTypes(b2) /\ b2.queue \in {b.queue, Append(b.queue, x)}
      /\ b2.isFrameOwed = b.isFrameOwed /\ b2.isReceiverClosed = b.isReceiverClosed
      /\ b2.state # "none" /\ (b2.state = "Live" => b.state = "Live")
      /\ RepeatCount(b2.held) \in Nat
      /\ \/ b.isReceiverClosed
         \/ /\ b2.queue = b.queue /\ b2.droppedRuns = b.droppedRuns
            /\ RepeatCount(b2.held) = RepeatCount(b.held) + 1
         \/ /\ b2.queue = b.queue /\ b2.droppedRuns = b.droppedRuns + 1
            /\ RepeatCount(b2.held) <= RepeatCount(b.held)
         \/ b2.queue = Append(b.queue, x) /\ b2.droppedRuns = b.droppedRuns /\ b2.held = b.held
  <2>1. CASE b.state = "Desynced"
    <3>1. b2 = HoldCommandRejection(b, a)
      BY <1>l, <2>1 DEF SendCommandRejection
    <3> HIDE DEF b, b2
    <3>2. QED
      BY <1>t, <2>1, <3>1, HoldFacts
  <2>2. CASE b.state = "Live"
    <3>0. b2 = TrySend(b, x, [b EXCEPT !.state = "Desynced", !.held = <<[action |-> a, repeats |-> 1]>>])
      BY <1>l, <2>2 DEF SendCommandRejection, x
    <3>1. CASE b.isReceiverClosed
      <4>1. b2 = [b EXCEPT !.state = "gone", !.isWaiting = FALSE]
        BY <2>2, <3>0, <3>1, Zenon DEF TrySend, Unsubscribed, IsSubscribed
      <4> HIDE DEF b, b2
      <4>2. /\ DOMAIN b2 = LinkFields /\ b2.state = "gone"
            /\ b2.held = b.held /\ b2.droppedRuns = b.droppedRuns /\ b2.queue = b.queue
            /\ b2.report = b.report /\ b2.isFrameOwed = b.isFrameOwed
            /\ b2.isReceiverClosed = b.isReceiverClosed
        BY <1>t, <4>1 DEF LinkTypes, LinkFields
      <4>3. QED
        BY <1>t, <1>n, <3>1, <4>2 DEF LinkTypes
    <3>2. CASE ~b.isReceiverClosed /\ IsFull(b)
      <4>1. PICK h : h = <<[action |-> a, repeats |-> 1]>>
        OBVIOUS
      <4>2. h \in Seq(Runs) /\ Len(h) = 1 /\ h = Append(<<>>, [action |-> a, repeats |-> 1])
        BY <4>1 DEF Runs
      <4>3. RepeatCount(h) = 1
        <5>1. PICK run : run = [action |-> a, repeats |-> 1]
          OBVIOUS
        <5>2. PICK none : none = <<>>
          OBVIOUS
        <5>3. run \in Runs /\ run.repeats = 1 /\ none \in Seq(Runs) /\ RepeatCount(none) = 0
          BY <5>1, <5>2, CountsEmpty DEF Runs
        <5>4. h = Append(none, run)
          BY <4>2, <5>1, <5>2
        <5>5. RepeatCount(Append(none, run)) = RepeatCount(none) + run.repeats
          BY <5>3, RepeatsAppend
        <5>6. QED
          BY <5>3, <5>4, <5>5
      <4>4. b2 = [b EXCEPT !.state = "Desynced", !.held = h] /\ b.held = <<>> /\ RepeatCount(b.held) = 0
        BY <1>t, <2>2, <3>0, <3>2, <4>1, CountsEmpty DEF TrySend, LinkTypes
      <4>5. QED
        BY <1>t, <4>2, <4>3, <4>4, HeldAssumption DEF LinkTypes, LinkFields
    <3>3. CASE ~b.isReceiverClosed /\ ~IsFull(b)
      BY <1>t, <1>x, <1>n, <2>2, <3>0, <3>3, CapacityAssumption DEF TrySend, Queued, IsFull,
         LinkTypes, LinkFields
    <3>4. QED
      BY <3>1, <3>2, <3>3
  <2>3. QED
    BY <1>l, <2>1, <2>2
<1>1. SessionOK'
  <2>1. \A r \in Clients : link[r].state # "none" => link'[r].state # "none"
    BY <1>l, <1>b
  <2>2. /\ inputCount' \in 0 .. MaxInputs /\ view' \in 1 .. inputCount' + 1
        /\ revision' \in 0 .. inputCount'
    BY <1>0, BoundsAssumption DEF RejectCommand, CanHandle, SessionOK
  <2>3. /\ dispatcher' \in [pc : DispatcherPcs, asked : Endings \cup {"none"},
                            hostClient : SUBSET Clients]
        /\ dispatcher'.pc # "announce" /\ dispatcher'.hostClient = dispatcher.hostClient
    BY <1>0 DEF RejectCommand, Handling, SessionOK, DispatcherPcs
  <2>4. QED
    BY <1>0, <1>l, <1>d, <2>1, <2>2, <2>3 DEF SessionOK
<1>2. ASSUME NEW r \in Clients, r # c PROVE ClientOK(r)'
  BY <1>0, <1>l, <1>d, <1>2, Untouched
<1>3. Types(c)'
  BY <1>t, <1>l, <1>d, <1>b DEF Types
<1>4. Attached(c)'
  BY <1>t, <1>l, <1>d, <1>b, <1>q DEF Attached
<1>5. ViewsOK(c)' /\ EventsOK(c)'
  BY <1>x, <1>d, <1>b, PlainSent
<1>6. OwedOK(c)' /\ ReadOK(c)'
  BY <1>t, <1>d, <1>b, <1>q DEF OwedOK, ReadOK
<1>7. RejectionsOK(c)'
  <2>1. SUFFICES ASSUME Reads(c), isLinkUp[c] PROVE RejectionsOK(c)'
    BY <1>q, <1>d DEF RejectionsOK
  <2>2. ~b.isReceiverClosed
    BY <1>t, <2>1 DEF Attached, Reads
  <2>3. /\ sent[c].rejections \in Nat /\ client[c].rejections \in Nat /\ client[c].droppedRuns \in Nat
        /\ RejectionsIn(writer[c].taken) \in Nat /\ RunsDroppedIn(writer[c].taken) \in Nat
        /\ b.droppedRuns \in Nat /\ sent'[c].rejections = sent[c].rejections + 1
    BY <1>t, <1>l, MessageCounts DEF Types, ClientTypes, WriterTypes, LinkTypes
  <2>4. PICK s, s2, k, kd, t, td, q, qd, h, hd :
          /\ s = sent[c].rejections /\ s2 = sent'[c].rejections
          /\ k = client[c].rejections /\ kd = client[c].droppedRuns
          /\ t = RejectionsIn(writer[c].taken) /\ td = RunsDroppedIn(writer[c].taken)
          /\ q = RejectionCount(b.queue) /\ qd = DroppedCount(b.queue)
          /\ h = RepeatCount(b.held) /\ hd = b.droppedRuns
    OBVIOUS
  <2>5. PICK q2, h2, hd2 : q2 = RejectionCount(b2.queue) /\ h2 = RepeatCount(b2.held) /\ hd2 = b2.droppedRuns
    OBVIOUS
  <2>6. /\ s \in Nat /\ k \in Nat /\ kd \in Nat /\ t \in Nat /\ td \in Nat
        /\ q \in Nat /\ qd \in Nat /\ h \in Nat /\ hd \in Nat /\ h2 \in Nat /\ s2 = s + 1
    BY <1>n, <1>b, <2>3, <2>4, <2>5
  <2>7. /\ s - k - t - q - h >= kd + td + qd + hd
        /\ kd + td + qd + hd = 0 => s - k - t - q - h = 0
    BY <1>t, <2>1, <2>4 DEF RejectionsOK
  <2>8. DroppedCount(b2.queue) = qd
    BY <1>n, <1>b, <2>4
  <2>9. \/ q2 = q /\ hd2 = hd /\ h2 = h + 1
        \/ q2 = q /\ hd2 = hd + 1 /\ h2 <= h
        \/ q2 = q + 1 /\ hd2 = hd /\ h2 = h
    BY <1>n, <1>b, <2>2, <2>4, <2>5
  <2>10. /\ s2 - k - t - q2 - h2 >= kd + td + qd + hd2
         /\ kd + td + qd + hd2 = 0 => s2 - k - t - q2 - h2 = 0
    BY <2>6, <2>7, <2>9
  <2>11. QED
    BY <1>d, <2>4, <2>5, <2>8, <2>10 DEF RejectionsOK
<1>8. RequestsOK(c)'
  <2>1. RequestCount(b2.queue) = RequestCount(b.queue) /\ sent'[c].requests = sent[c].requests
    BY <1>t, <1>l, <1>n, <1>b DEF Types
  <2>2. b.state # "gone"
    BY <1>l
  <2>3. QED
    BY <1>t, <1>d, <1>q, <2>1, <2>2 DEF RequestsOK
<1>9. QED
  BY <1>1, <1>2, <1>3, <1>4, <1>5, <1>6, <1>7, <1>8 DEF DeliveryInv, ClientOK


\* A step of one connection's threads keeps what the session and the other
\* clients have.
LEMMA ConnectionStep ==
  ASSUME DeliveryInv, NEW c \in Clients, UNCHANGED dispatcherVars,
         inbox \subseteq inbox',
         inbox' \subseteq inbox \cup {<<"roomFreed", c>>, <<"detached", c>>},
         DOMAIN link' = Clients, DOMAIN writer' = Clients, DOMAIN client' = Clients,
         reader' \in [Clients -> {"none", "reading", "closed", "left", "ended"}],
         isLinkLost' \in [Clients -> BOOLEAN], isLinkUp' \in [Clients -> BOOLEAN],
         \A r \in Clients : r # c =>
           /\ link'[r] = link[r] /\ writer'[r] = writer[r] /\ client'[r] = client[r]
           /\ reader'[r] = reader[r] /\ isLinkUp'[r] = isLinkUp[r],
         link'[c].state = link[c].state, ClientOK(c)'
  PROVE  DeliveryInv'
<1>0. SessionOK
  BY DEF DeliveryInv
<1>d. UNCHANGED <<view, revision, inputCount, dispatcher, notice, pace, sent>>
  BY DEF dispatcherVars, sessionVars
<1>1. SessionOK'
  <2>1. \A r \in Clients : link'[r].state = link[r].state
    OBVIOUS
  <2>2. inbox' \subseteq {"roomFreed", "detached"} \X Clients
    BY <1>0 DEF SessionOK
  <2>3. QED
    BY <1>0, <1>d, <2>1, <2>2 DEF SessionOK
<1>2. ASSUME NEW r \in Clients, r # c PROVE ClientOK(r)'
  BY <1>d, <1>2, Untouched
<1>3. QED
  BY <1>1, <1>2 DEF DeliveryInv

\* A step that reads nothing off the way and writes nothing of it: its thread
\* goes on, gives the connection up, or does not take part.
QuietWriter(c) ==
  \/ writer'[c] = writer[c] /\ (Reads(c) => link'[c].isFrameOwed = link[c].isFrameOwed)
  \/ Reads(c) /\ writer'[c].pc = "closing"
  \/ /\ Reads(c) /\ Reads(c)' /\ writer'[c].pc # "none"
     /\ writer'[c].taken = writer[c].taken /\ writer'[c].lastView = writer[c].lastView
     /\ writer'[c].pc \in {"took", "write"} \/ writer[c].taken.kind \in {"None", "HostWrite"}
     /\ link'[c].isFrameOwed => writer[c].pc # "took" /\ link[c].isFrameOwed
     /\ link[c].isFrameOwed => link'[c].isFrameOwed \/ <<"roomFreed", c>> \in inbox'

\* A step of a connection's thread that touches neither the queue nor what the
\* client read keeps the invariant.
LEMMA QuietStep ==
  ASSUME DeliveryInv, NEW c \in Clients, UNCHANGED dispatcherVars, inbox \subseteq inbox',
         link[c].state = "none" => link'[c] = link[c] /\ writer'[c] = writer[c],
         LinkTypes(link'[c]), WriterTypes(writer'[c]),
         link'[c].queue = link[c].queue, link'[c].held = link[c].held,
         link'[c].droppedRuns = link[c].droppedRuns, link'[c].state = link[c].state,
         link'[c].isReceiverClosed = link[c].isReceiverClosed,
         client'[c] = client[c], isLinkUp'[c] => isLinkUp[c],
         reader'[c] # "none" => writer'[c].pc \notin {"none", "accepted", "greeted"},
         QuietWriter(c)
  PROVE  ClientOK(c)'
<1>0. ClientOK(c)
  BY DEF DeliveryInv
<1>t. /\ Types(c) /\ Attached(c) /\ ViewsOK(c) /\ EventsOK(c) /\ OwedOK(c) /\ RejectionsOK(c)
      /\ RequestsOK(c) /\ ReadOK(c)
  BY <1>0 DEF ClientOK
<1>d. UNCHANGED <<view, revision, inputCount, dispatcher, notice, pace, sent>>
  BY DEF dispatcherVars, sessionVars
<1>r. /\ Reads(c)' => Reads(c) /\ writer'[c].taken = writer[c].taken
                      /\ writer'[c].lastView = writer[c].lastView
      /\ writer'[c].pc = "none" <=> link[c].state = "none"
  BY <1>t DEF QuietWriter, Reads, Attached
<1>1. Types(c)' /\ ReadOK(c)'
  BY <1>t, <1>d DEF Types, ReadOK
<1>2. Attached(c)'
  BY <1>t, <1>d, <1>r DEF Attached, QuietWriter, Reads
<1>3. ViewsOK(c)' /\ EventsOK(c)'
  BY <1>t, <1>d, <1>r DEF ViewsOK, EventsOK
<1>4. OwedOK(c)'
  BY <1>t, <1>d, <1>r DEF OwedOK, QuietWriter, Reads
<1>5. RejectionsOK(c)'
  BY <1>t, <1>d, <1>r DEF RejectionsOK
<1>6. RequestsOK(c)'
  BY <1>t, <1>d, <1>r DEF RequestsOK, QuietWriter, Reads
<1>7. QED
  BY <1>1, <1>2, <1>3, <1>4, <1>5, <1>6 DEF ClientOK

\* The reply to the attach keeps the invariant.
LEMMA WriteAttachedInv ==
  ASSUME DeliveryInv, NEW c \in Clients, WriteAttached(c)
  PROVE  DeliveryInv'
<1>0. SessionOK /\ Types(c) /\ Attached(c)
  BY DEF DeliveryInv, ClientOK
<1>1. /\ LinkTypes(link'[c]) /\ WriterTypes(writer'[c])
      /\ link[c].state = "none" => link'[c] = link[c] /\ writer'[c] = writer[c]
      /\ link'[c].queue = link[c].queue /\ link'[c].held = link[c].held
      /\ link'[c].droppedRuns = link[c].droppedRuns /\ link'[c].state = link[c].state
      /\ link'[c].isReceiverClosed = link[c].isReceiverClosed
  BY <1>0 DEF WriteAttached, GoTo, SessionOK, Types, Attached, LinkTypes, LinkFields,
     WriterTypes, WriterFields,
              WriterPcs
<1>2. /\ UNCHANGED dispatcherVars /\ inbox \subseteq inbox' /\ client'[c] = client[c]
      /\ isLinkUp'[c] => isLinkUp[c]
      /\ reader'[c] # "none" => writer'[c].pc \notin {"none", "accepted", "greeted"}
  BY <1>0 DEF WriteAttached, GoTo, SessionOK, Types, Attached, WriterTypes, WriterFields
<1>3. QuietWriter(c)
  BY <1>0 DEF WriteAttached, GoTo, SessionOK, Types, Attached, LinkTypes, LinkFields,
     WriterTypes, WriterFields,
              QuietWriter, Reads
<1>4. ClientOK(c)'
  BY <1>1, <1>2, <1>3, QuietStep
<1>5. /\ DOMAIN link' = Clients /\ DOMAIN writer' = Clients /\ DOMAIN client' = Clients
      /\ reader' \in [Clients -> {"none", "reading", "closed", "left", "ended"}]
      /\ isLinkLost' \in [Clients -> BOOLEAN] /\ isLinkUp' \in [Clients -> BOOLEAN]
      /\ \A r \in Clients : r # c =>
           /\ link'[r] = link[r] /\ writer'[r] = writer[r] /\ client'[r] = client[r]
           /\ reader'[r] = reader[r] /\ isLinkUp'[r] = isLinkUp[r]
      /\ inbox' \subseteq inbox \cup {<<"roomFreed", c>>, <<"detached", c>>}
  BY <1>0 DEF WriteAttached, GoTo, SessionOK
<1>6. QED
  BY <1>1, <1>2, <1>4, <1>5, ConnectionStep

\* The start of the stream keeps the invariant.
LEMMA StartStreamInv ==
  ASSUME DeliveryInv, NEW c \in Clients, StartStream(c)
  PROVE  DeliveryInv'
<1>0. SessionOK /\ Types(c) /\ Attached(c)
  BY DEF DeliveryInv, ClientOK
<1>1. /\ LinkTypes(link'[c]) /\ WriterTypes(writer'[c])
      /\ link[c].state = "none" => link'[c] = link[c] /\ writer'[c] = writer[c]
      /\ link'[c].queue = link[c].queue /\ link'[c].held = link[c].held
      /\ link'[c].droppedRuns = link[c].droppedRuns /\ link'[c].state = link[c].state
      /\ link'[c].isReceiverClosed = link[c].isReceiverClosed
  BY <1>0 DEF StartStream, GoTo, SessionOK, Types, Attached, LinkTypes, LinkFields, WriterTypes,
     WriterFields,
              WriterPcs
<1>2. /\ UNCHANGED dispatcherVars /\ inbox \subseteq inbox' /\ client'[c] = client[c]
      /\ isLinkUp'[c] => isLinkUp[c]
      /\ reader'[c] # "none" => writer'[c].pc \notin {"none", "accepted", "greeted"}
  BY <1>0 DEF StartStream, GoTo, SessionOK, Types, Attached, WriterTypes, WriterFields
<1>3. QuietWriter(c)
  BY <1>0 DEF StartStream, GoTo, SessionOK, Types, Attached, LinkTypes, LinkFields, WriterTypes,
     WriterFields,
              QuietWriter, Reads
<1>4. ClientOK(c)'
  BY <1>1, <1>2, <1>3, QuietStep
<1>5. /\ DOMAIN link' = Clients /\ DOMAIN writer' = Clients /\ DOMAIN client' = Clients
      /\ reader' \in [Clients -> {"none", "reading", "closed", "left", "ended"}]
      /\ isLinkLost' \in [Clients -> BOOLEAN] /\ isLinkUp' \in [Clients -> BOOLEAN]
      /\ \A r \in Clients : r # c =>
           /\ link'[r] = link[r] /\ writer'[r] = writer[r] /\ client'[r] = client[r]
           /\ reader'[r] = reader[r] /\ isLinkUp'[r] = isLinkUp[r]
      /\ inbox' \subseteq inbox \cup {<<"roomFreed", c>>, <<"detached", c>>}
  BY <1>0 DEF StartStream, GoTo, SessionOK
<1>6. QED
  BY <1>1, <1>2, <1>4, <1>5, ConnectionStep

\* A broken connection keeps the invariant.
LEMMA LinkBreaksInv ==
  ASSUME DeliveryInv, NEW c \in Clients, LinkBreaks(c)
  PROVE  DeliveryInv'
<1>0. SessionOK /\ Types(c) /\ Attached(c)
  BY DEF DeliveryInv, ClientOK
<1>1. /\ LinkTypes(link'[c]) /\ WriterTypes(writer'[c])
      /\ link[c].state = "none" => link'[c] = link[c] /\ writer'[c] = writer[c]
      /\ link'[c].queue = link[c].queue /\ link'[c].held = link[c].held
      /\ link'[c].droppedRuns = link[c].droppedRuns /\ link'[c].state = link[c].state
      /\ link'[c].isReceiverClosed = link[c].isReceiverClosed
  BY <1>0 DEF LinkBreaks, SessionOK, Types, Attached, LinkTypes, LinkFields, WriterTypes,
     WriterFields,
              WriterPcs
<1>2. /\ UNCHANGED dispatcherVars /\ inbox \subseteq inbox' /\ client'[c] = client[c]
      /\ isLinkUp'[c] => isLinkUp[c]
      /\ reader'[c] # "none" => writer'[c].pc \notin {"none", "accepted", "greeted"}
  BY <1>0 DEF LinkBreaks, SessionOK, Types, Attached, WriterTypes, WriterFields
<1>3. QuietWriter(c)
  BY <1>0 DEF LinkBreaks, SessionOK, Types, Attached, LinkTypes, LinkFields, WriterTypes,
     WriterFields,
              QuietWriter, Reads
<1>4. ClientOK(c)'
  BY <1>1, <1>2, <1>3, QuietStep
<1>5. /\ DOMAIN link' = Clients /\ DOMAIN writer' = Clients /\ DOMAIN client' = Clients
      /\ reader' \in [Clients -> {"none", "reading", "closed", "left", "ended"}]
      /\ isLinkLost' \in [Clients -> BOOLEAN] /\ isLinkUp' \in [Clients -> BOOLEAN]
      /\ \A r \in Clients : r # c =>
           /\ link'[r] = link[r] /\ writer'[r] = writer[r] /\ client'[r] = client[r]
           /\ reader'[r] = reader[r] /\ isLinkUp'[r] = isLinkUp[r]
      /\ inbox' \subseteq inbox \cup {<<"roomFreed", c>>, <<"detached", c>>}
  BY <1>0 DEF LinkBreaks, SessionOK
<1>6. QED
  BY <1>1, <1>2, <1>4, <1>5, ConnectionStep

\* A read that fails keeps the invariant.
LEMMA ReadFailsInv ==
  ASSUME DeliveryInv, NEW c \in Clients, ReadFails(c)
  PROVE  DeliveryInv'
<1>0. SessionOK /\ Types(c) /\ Attached(c)
  BY DEF DeliveryInv, ClientOK
<1>1. /\ LinkTypes(link'[c]) /\ WriterTypes(writer'[c])
      /\ link[c].state = "none" => link'[c] = link[c] /\ writer'[c] = writer[c]
      /\ link'[c].queue = link[c].queue /\ link'[c].held = link[c].held
      /\ link'[c].droppedRuns = link[c].droppedRuns /\ link'[c].state = link[c].state
      /\ link'[c].isReceiverClosed = link[c].isReceiverClosed
  BY <1>0 DEF ReadFails, SessionOK, Types, Attached, LinkTypes, LinkFields, WriterTypes,
     WriterFields,
              WriterPcs
<1>2. /\ UNCHANGED dispatcherVars /\ inbox \subseteq inbox' /\ client'[c] = client[c]
      /\ isLinkUp'[c] => isLinkUp[c]
      /\ reader'[c] # "none" => writer'[c].pc \notin {"none", "accepted", "greeted"}
  BY <1>0 DEF ReadFails, SessionOK, Types, Attached, WriterTypes, WriterFields
<1>3. QuietWriter(c)
  BY <1>0 DEF ReadFails, SessionOK, Types, Attached, LinkTypes, LinkFields, WriterTypes,
     WriterFields,
              QuietWriter, Reads
<1>4. ClientOK(c)'
  BY <1>1, <1>2, <1>3, QuietStep
<1>5. /\ DOMAIN link' = Clients /\ DOMAIN writer' = Clients /\ DOMAIN client' = Clients
      /\ reader' \in [Clients -> {"none", "reading", "closed", "left", "ended"}]
      /\ isLinkLost' \in [Clients -> BOOLEAN] /\ isLinkUp' \in [Clients -> BOOLEAN]
      /\ \A r \in Clients : r # c =>
           /\ link'[r] = link[r] /\ writer'[r] = writer[r] /\ client'[r] = client[r]
           /\ reader'[r] = reader[r] /\ isLinkUp'[r] = isLinkUp[r]
      /\ inbox' \subseteq inbox \cup {<<"roomFreed", c>>, <<"detached", c>>}
  BY <1>0 DEF ReadFails, SessionOK
<1>6. QED
  BY <1>1, <1>2, <1>4, <1>5, ConnectionStep

\* A client that leaves keeps the invariant.
LEMMA ReadLeavingInv ==
  ASSUME DeliveryInv, NEW c \in Clients, ReadLeaving(c)
  PROVE  DeliveryInv'
<1>0. SessionOK /\ Types(c) /\ Attached(c)
  BY DEF DeliveryInv, ClientOK
<1>1. /\ LinkTypes(link'[c]) /\ WriterTypes(writer'[c])
      /\ link[c].state = "none" => link'[c] = link[c] /\ writer'[c] = writer[c]
      /\ link'[c].queue = link[c].queue /\ link'[c].held = link[c].held
      /\ link'[c].droppedRuns = link[c].droppedRuns /\ link'[c].state = link[c].state
      /\ link'[c].isReceiverClosed = link[c].isReceiverClosed
  BY <1>0 DEF ReadLeaving, SessionOK, Types, Attached, LinkTypes, LinkFields, WriterTypes,
     WriterFields,
              WriterPcs
<1>2. /\ UNCHANGED dispatcherVars /\ inbox \subseteq inbox' /\ client'[c] = client[c]
      /\ isLinkUp'[c] => isLinkUp[c]
      /\ reader'[c] # "none" => writer'[c].pc \notin {"none", "accepted", "greeted"}
  BY <1>0 DEF ReadLeaving, SessionOK, Types, Attached, WriterTypes, WriterFields
<1>3. QuietWriter(c)
  BY <1>0 DEF ReadLeaving, SessionOK, Types, Attached, LinkTypes, LinkFields, WriterTypes,
     WriterFields,
              QuietWriter, Reads
<1>4. ClientOK(c)'
  BY <1>1, <1>2, <1>3, QuietStep
<1>5. /\ DOMAIN link' = Clients /\ DOMAIN writer' = Clients /\ DOMAIN client' = Clients
      /\ reader' \in [Clients -> {"none", "reading", "closed", "left", "ended"}]
      /\ isLinkLost' \in [Clients -> BOOLEAN] /\ isLinkUp' \in [Clients -> BOOLEAN]
      /\ \A r \in Clients : r # c =>
           /\ link'[r] = link[r] /\ writer'[r] = writer[r] /\ client'[r] = client[r]
           /\ reader'[r] = reader[r] /\ isLinkUp'[r] = isLinkUp[r]
      /\ inbox' \subseteq inbox \cup {<<"roomFreed", c>>, <<"detached", c>>}
  BY <1>0 DEF ReadLeaving, SessionOK
<1>6. QED
  BY <1>1, <1>2, <1>4, <1>5, ConnectionStep

\* The reading thread's detach, handed to the inbox, keeps the invariant.
LEMMA HandOverDetachInv ==
  ASSUME DeliveryInv, NEW c \in Clients, HandOverDetach(c)
  PROVE  DeliveryInv'
<1>0. SessionOK /\ Types(c) /\ Attached(c)
  BY DEF DeliveryInv, ClientOK
<1>1. /\ LinkTypes(link'[c]) /\ WriterTypes(writer'[c])
      /\ link[c].state = "none" => link'[c] = link[c] /\ writer'[c] = writer[c]
      /\ link'[c].queue = link[c].queue /\ link'[c].held = link[c].held
      /\ link'[c].droppedRuns = link[c].droppedRuns /\ link'[c].state = link[c].state
      /\ link'[c].isReceiverClosed = link[c].isReceiverClosed
  BY <1>0 DEF HandOverDetach, SessionOK, Types, Attached, LinkTypes, LinkFields, WriterTypes,
     WriterFields,
              WriterPcs
<1>2. /\ UNCHANGED dispatcherVars /\ inbox \subseteq inbox' /\ client'[c] = client[c]
      /\ isLinkUp'[c] => isLinkUp[c]
      /\ reader'[c] # "none" => writer'[c].pc \notin {"none", "accepted", "greeted"}
  BY <1>0 DEF HandOverDetach, SessionOK, Types, Attached, WriterTypes, WriterFields
<1>3. QuietWriter(c)
  BY <1>0 DEF HandOverDetach, SessionOK, Types, Attached, LinkTypes, LinkFields, WriterTypes,
     WriterFields,
              QuietWriter, Reads
<1>4. ClientOK(c)'
  BY <1>1, <1>2, <1>3, QuietStep
<1>5. /\ DOMAIN link' = Clients /\ DOMAIN writer' = Clients /\ DOMAIN client' = Clients
      /\ reader' \in [Clients -> {"none", "reading", "closed", "left", "ended"}]
      /\ isLinkLost' \in [Clients -> BOOLEAN] /\ isLinkUp' \in [Clients -> BOOLEAN]
      /\ \A r \in Clients : r # c =>
           /\ link'[r] = link[r] /\ writer'[r] = writer[r] /\ client'[r] = client[r]
           /\ reader'[r] = reader[r] /\ isLinkUp'[r] = isLinkUp[r]
      /\ inbox' \subseteq inbox \cup {<<"roomFreed", c>>, <<"detached", c>>}
  BY <1>0 DEF HandOverDetach, SessionOK
<1>6. QED
  BY <1>1, <1>2, <1>4, <1>5, ConnectionStep

\* A paint report keeps the invariant.
LEMMA ReportPaintedInv ==
  ASSUME DeliveryInv, NEW c \in Clients, NEW n \in 1 .. writer[c].lastSent + 1,
         ReportPainted(c, n)
  PROVE  DeliveryInv'
<1>0. SessionOK /\ Types(c) /\ Attached(c)
  BY DEF DeliveryInv, ClientOK
<1>1. /\ LinkTypes(link'[c]) /\ WriterTypes(writer'[c])
      /\ link[c].state = "none" => link'[c] = link[c] /\ writer'[c] = writer[c]
      /\ link'[c].queue = link[c].queue /\ link'[c].held = link[c].held
      /\ link'[c].droppedRuns = link[c].droppedRuns /\ link'[c].state = link[c].state
      /\ link'[c].isReceiverClosed = link[c].isReceiverClosed
  BY <1>0, SMTT(60) DEF ReportPainted, SessionOK, Types, Attached, LinkTypes, LinkFields,
                        WriterTypes, WriterFields, WriterPcs
<1>2. /\ UNCHANGED dispatcherVars /\ inbox \subseteq inbox' /\ client'[c] = client[c]
      /\ isLinkUp'[c] => isLinkUp[c]
      /\ reader'[c] # "none" => writer'[c].pc \notin {"none", "accepted", "greeted"}
  BY <1>0 DEF ReportPainted, SessionOK, Types, Attached, WriterTypes, WriterFields
<1>3. QuietWriter(c)
  BY <1>0 DEF ReportPainted, SessionOK, Types, Attached, LinkTypes, LinkFields, WriterTypes,
     WriterFields,
              QuietWriter, Reads
<1>4. ClientOK(c)'
  BY <1>1, <1>2, <1>3, QuietStep
<1>5. /\ DOMAIN link' = Clients /\ DOMAIN writer' = Clients /\ DOMAIN client' = Clients
      /\ reader' \in [Clients -> {"none", "reading", "closed", "left", "ended"}]
      /\ isLinkLost' \in [Clients -> BOOLEAN] /\ isLinkUp' \in [Clients -> BOOLEAN]
      /\ \A r \in Clients : r # c =>
           /\ link'[r] = link[r] /\ writer'[r] = writer[r] /\ client'[r] = client[r]
           /\ reader'[r] = reader[r] /\ isLinkUp'[r] = isLinkUp[r]
      /\ inbox' \subseteq inbox \cup {<<"roomFreed", c>>, <<"detached", c>>}
  BY <1>0 DEF ReportPainted, SessionOK
<1>6. QED
  BY <1>1, <1>2, <1>4, <1>5, ConnectionStep

\* A turn of the writing thread that starts keeps the invariant.
LEMMA StartTurnInv ==
  ASSUME DeliveryInv, NEW c \in Clients, StartTurn(c)
  PROVE  DeliveryInv'
<1>0. SessionOK /\ Types(c) /\ Attached(c)
  BY DEF DeliveryInv, ClientOK
<1>w. /\ \/ \E e \in BOOLEAN :
              writer'[c] = [writer[c] EXCEPT !.pc = "receive", !.isFrameAllowed = e]
         \/ writer'[c] = [writer[c] EXCEPT !.pc = "closing", !.shouldCloseReader = TRUE]
      /\ writer[c].pc = "top"
      /\ DOMAIN writer' = Clients /\ DOMAIN client' = Clients /\ client'[c] = client[c]
      /\ \A r \in Clients : r # c => writer'[r] = writer[r] /\ client'[r] = client[r]
  <2>1. PICK e \in BOOLEAN :
          LET next == [writer[c] EXCEPT !.pc = "receive", !.isFrameAllowed = e]
          IN IF link[c].hostWrites = <<>>
             THEN writer' = [writer EXCEPT ![c] = next] /\ UNCHANGED client
             ELSE Write(c, client[c], next)
    BY DEF StartTurn
  <2>2. CASE link[c].hostWrites = <<>>
    BY <1>0, <2>1, <2>2 DEF StartTurn, SessionOK
  <2>3. CASE link[c].hostWrites # <<>>
    BY <1>0, <2>1, <2>3 DEF StartTurn, Write, SessionOK
  <2>4. QED
    BY <2>2, <2>3
<1>1. /\ LinkTypes(link'[c]) /\ WriterTypes(writer'[c])
      /\ link[c].state = "none" => link'[c] = link[c] /\ writer'[c] = writer[c]
      /\ link'[c].queue = link[c].queue /\ link'[c].held = link[c].held
      /\ link'[c].droppedRuns = link[c].droppedRuns /\ link'[c].state = link[c].state
      /\ link'[c].isReceiverClosed = link[c].isReceiverClosed
  BY <1>0, <1>w, ZenonT(60) DEF StartTurn, SessionOK, Types, Attached, LinkTypes, LinkFields,
                                WriterTypes, WriterFields, WriterPcs
<1>2. /\ UNCHANGED dispatcherVars /\ inbox \subseteq inbox' /\ client'[c] = client[c]
      /\ isLinkUp'[c] => isLinkUp[c]
      /\ reader'[c] # "none" => writer'[c].pc \notin {"none", "accepted", "greeted"}
  BY <1>0, <1>w, ZenonT(60) DEF StartTurn, SessionOK, Types, Attached, WriterTypes, WriterFields
<1>3. QuietWriter(c)
  BY <1>0, <1>w, ZenonT(60) DEF StartTurn, SessionOK, Types, Attached, LinkTypes, LinkFields,
                                WriterTypes, WriterFields, QuietWriter, Reads
<1>4. ClientOK(c)'
  BY <1>1, <1>2, <1>3, QuietStep
<1>5. /\ DOMAIN link' = Clients /\ DOMAIN writer' = Clients /\ DOMAIN client' = Clients
      /\ reader' \in [Clients -> {"none", "reading", "closed", "left", "ended"}]
      /\ isLinkLost' \in [Clients -> BOOLEAN] /\ isLinkUp' \in [Clients -> BOOLEAN]
      /\ \A r \in Clients : r # c =>
           /\ link'[r] = link[r] /\ writer'[r] = writer[r] /\ client'[r] = client[r]
           /\ reader'[r] = reader[r] /\ isLinkUp'[r] = isLinkUp[r]
      /\ inbox' \subseteq inbox \cup {<<"roomFreed", c>>, <<"detached", c>>}
  BY <1>0, <1>w DEF StartTurn, SessionOK
<1>6. QED
  BY <1>1, <1>2, <1>4, <1>5, ConnectionStep

\* A paint report that is taken keeps the invariant.
LEMMA ReceiveReportInv ==
  ASSUME DeliveryInv, NEW c \in Clients, ReceiveReport(c)
  PROVE  DeliveryInv'
<1>0. SessionOK /\ Types(c) /\ Attached(c)
  BY DEF DeliveryInv, ClientOK
<1>1. /\ LinkTypes(link'[c]) /\ WriterTypes(writer'[c])
      /\ link[c].state = "none" => link'[c] = link[c] /\ writer'[c] = writer[c]
      /\ link'[c].queue = link[c].queue /\ link'[c].held = link[c].held
      /\ link'[c].droppedRuns = link[c].droppedRuns /\ link'[c].state = link[c].state
      /\ link'[c].isReceiverClosed = link[c].isReceiverClosed
  BY <1>0 DEF ReceiveReport, SessionOK, Types, Attached, LinkTypes, LinkFields, WriterTypes,
     WriterFields,
              WriterPcs
<1>2. /\ UNCHANGED dispatcherVars /\ inbox \subseteq inbox' /\ client'[c] = client[c]
      /\ isLinkUp'[c] => isLinkUp[c]
      /\ reader'[c] # "none" => writer'[c].pc \notin {"none", "accepted", "greeted"}
  BY <1>0 DEF ReceiveReport, SessionOK, Types, Attached, WriterTypes, WriterFields
<1>3. QuietWriter(c)
  BY <1>0 DEF ReceiveReport, SessionOK, Types, Attached, LinkTypes, LinkFields, WriterTypes,
     WriterFields,
              QuietWriter, Reads
<1>4. ClientOK(c)'
  BY <1>1, <1>2, <1>3, QuietStep
<1>5. /\ DOMAIN link' = Clients /\ DOMAIN writer' = Clients /\ DOMAIN client' = Clients
      /\ reader' \in [Clients -> {"none", "reading", "closed", "left", "ended"}]
      /\ isLinkLost' \in [Clients -> BOOLEAN] /\ isLinkUp' \in [Clients -> BOOLEAN]
      /\ \A r \in Clients : r # c =>
           /\ link'[r] = link[r] /\ writer'[r] = writer[r] /\ client'[r] = client[r]
           /\ reader'[r] = reader[r] /\ isLinkUp'[r] = isLinkUp[r]
      /\ inbox' \subseteq inbox \cup {<<"roomFreed", c>>, <<"detached", c>>}
  BY <1>0 DEF ReceiveReport, SessionOK
<1>6. QED
  BY <1>1, <1>2, <1>4, <1>5, ConnectionStep

\* A pong keeps the invariant.
LEMMA WritePongInv ==
  ASSUME DeliveryInv, NEW c \in Clients, WritePong(c)
  PROVE  DeliveryInv'
<1>0. SessionOK /\ Types(c) /\ Attached(c)
  BY DEF DeliveryInv, ClientOK
<1>w. /\ \/ writer'[c] = [writer[c] EXCEPT !.pc = "top"]
         \/ writer'[c] = [writer[c] EXCEPT !.pc = "closing", !.shouldCloseReader = TRUE]
      /\ writer[c].pc = "receive"
      /\ DOMAIN writer' = Clients /\ DOMAIN client' = Clients /\ client'[c] = client[c]
      /\ \A r \in Clients : r # c => writer'[r] = writer[r] /\ client'[r] = client[r]
  <2>1. \/ /\ client' = IF isLinkUp[c] THEN [client EXCEPT ![c] = client[c]] ELSE client
           /\ writer' = [writer EXCEPT ![c] = [writer[c] EXCEPT !.pc = "top"]]
        \/ /\ writer' = [writer EXCEPT ![c].pc = "closing", ![c].shouldCloseReader = TRUE]
           /\ client' = client
    BY DEF WritePong, Write
  <2>2. QED
    BY <1>0, <2>1 DEF WritePong, SessionOK
<1>1. /\ LinkTypes(link'[c]) /\ WriterTypes(writer'[c])
      /\ link[c].state = "none" => link'[c] = link[c] /\ writer'[c] = writer[c]
      /\ link'[c].queue = link[c].queue /\ link'[c].held = link[c].held
      /\ link'[c].droppedRuns = link[c].droppedRuns /\ link'[c].state = link[c].state
      /\ link'[c].isReceiverClosed = link[c].isReceiverClosed
  BY <1>0, <1>w, ZenonT(60) DEF WritePong, SessionOK, Types, Attached, LinkTypes, LinkFields,
                                WriterTypes, WriterFields, WriterPcs
<1>2. /\ UNCHANGED dispatcherVars /\ inbox \subseteq inbox' /\ client'[c] = client[c]
      /\ isLinkUp'[c] => isLinkUp[c]
      /\ reader'[c] # "none" => writer'[c].pc \notin {"none", "accepted", "greeted"}
  BY <1>0, <1>w, ZenonT(60) DEF WritePong, SessionOK, Types, Attached, WriterTypes, WriterFields
<1>3. QuietWriter(c)
  BY <1>0, <1>w, ZenonT(60) DEF WritePong, SessionOK, Types, Attached, LinkTypes, LinkFields,
                                WriterTypes, WriterFields, QuietWriter, Reads
<1>4. ClientOK(c)'
  BY <1>1, <1>2, <1>3, QuietStep
<1>5. /\ DOMAIN link' = Clients /\ DOMAIN writer' = Clients /\ DOMAIN client' = Clients
      /\ reader' \in [Clients -> {"none", "reading", "closed", "left", "ended"}]
      /\ isLinkLost' \in [Clients -> BOOLEAN] /\ isLinkUp' \in [Clients -> BOOLEAN]
      /\ \A r \in Clients : r # c =>
           /\ link'[r] = link[r] /\ writer'[r] = writer[r] /\ client'[r] = client[r]
           /\ reader'[r] = reader[r] /\ isLinkUp'[r] = isLinkUp[r]
      /\ inbox' \subseteq inbox \cup {<<"roomFreed", c>>, <<"detached", c>>}
  BY <1>0, <1>w DEF WritePong, SessionOK
<1>6. QED
  BY <1>1, <1>2, <1>4, <1>5, ConnectionStep

\* Taking the mark of an owed frame keeps the invariant: its wake is in the inbox.
LEMMA TakeOwedMarkInv ==
  ASSUME DeliveryInv, NEW c \in Clients, TakeOwedMark(c)
  PROVE  DeliveryInv'
<1>0. SessionOK /\ Types(c) /\ Attached(c)
  BY DEF DeliveryInv, ClientOK
<1>1. /\ LinkTypes(link'[c]) /\ WriterTypes(writer'[c])
      /\ link[c].state = "none" => link'[c] = link[c] /\ writer'[c] = writer[c]
      /\ link'[c].queue = link[c].queue /\ link'[c].held = link[c].held
      /\ link'[c].droppedRuns = link[c].droppedRuns /\ link'[c].state = link[c].state
      /\ link'[c].isReceiverClosed = link[c].isReceiverClosed
  BY <1>0 DEF TakeOwedMark, GoTo, SessionOK, Types, Attached, LinkTypes, LinkFields,
     WriterTypes, WriterFields,
              WriterPcs
<1>2. /\ UNCHANGED dispatcherVars /\ inbox \subseteq inbox' /\ client'[c] = client[c]
      /\ isLinkUp'[c] => isLinkUp[c]
      /\ reader'[c] # "none" => writer'[c].pc \notin {"none", "accepted", "greeted"}
  BY <1>0 DEF TakeOwedMark, GoTo, SessionOK, Types, Attached, WriterTypes, WriterFields
<1>3. QuietWriter(c)
  BY <1>0 DEF TakeOwedMark, GoTo, SessionOK, Types, Attached, LinkTypes, LinkFields,
     WriterTypes, WriterFields,
              QuietWriter, Reads
<1>4. ClientOK(c)'
  BY <1>1, <1>2, <1>3, QuietStep
<1>5. /\ DOMAIN link' = Clients /\ DOMAIN writer' = Clients /\ DOMAIN client' = Clients
      /\ reader' \in [Clients -> {"none", "reading", "closed", "left", "ended"}]
      /\ isLinkLost' \in [Clients -> BOOLEAN] /\ isLinkUp' \in [Clients -> BOOLEAN]
      /\ \A r \in Clients : r # c =>
           /\ link'[r] = link[r] /\ writer'[r] = writer[r] /\ client'[r] = client[r]
           /\ reader'[r] = reader[r] /\ isLinkUp'[r] = isLinkUp[r]
      /\ inbox' \subseteq inbox \cup {<<"roomFreed", c>>, <<"detached", c>>}
  BY <1>0 DEF TakeOwedMark, GoTo, SessionOK
<1>6. QED
  BY <1>1, <1>2, <1>4, <1>5, ConnectionStep

\* The requests that are drained for the last frames keep the invariant.
LEMMA DrainForEndingInv ==
  ASSUME DeliveryInv, NEW c \in Clients, DrainForEnding(c)
  PROVE  DeliveryInv'
<1>0. SessionOK /\ Types(c) /\ Attached(c) /\ RequestsOK(c) /\ ReadOK(c)
  BY DEF DeliveryInv, ClientOK
<1>n. RequestCount(link[c].queue) \in Nat /\ link[c].queue \in Seq(Messages)
  <2>1. link[c].queue \in Seq(Messages) /\ Plain("None") \in Messages
    BY <1>0, PlainMessages DEF Types, LinkTypes, PlainKinds
  <2>2. QED
    BY <2>1, CountsAppend
<1>d. UNCHANGED dispatcherVars /\ UNCHANGED <<inbox, isLinkUp, isLinkLost, view, notice, sent, pace>>
  BY DEF DrainForEnding, dispatcherVars, sessionVars
<1>1. Types(c)'
  <2>1. LinkTypes(link'[c])
    <3>1. LinkTypes(link[c]) /\ DOMAIN link = Clients /\ <<>> \in Seq(Messages) /\ Len(<<>>) = 0
      BY <1>0 DEF Types, SessionOK
    <3>2. QED
      BY <3>1, CapacityAssumption DEF DrainForEnding, LinkTypes, LinkFields
  <2>2. WriterTypes(writer'[c])
    BY <1>0, <1>n DEF DrainForEnding, SessionOK, Types, WriterTypes, WriterFields, WriterPcs
  <2>3. ClientTypes(client'[c])
    BY <1>0 DEF DrainForEnding, SessionOK, Types, ClientTypes, ClientFields, Endings,
       WriterTypes,
                RequestsOK
  <2>4. QED
    BY <1>0, <1>d, <2>1, <2>2, <2>3 DEF Types
<1>2. Attached(c)' /\ link'[c].state = link[c].state
  BY <1>0, <1>d
  DEF DrainForEnding, SessionOK, Types, Attached, LinkTypes, LinkFields, WriterTypes, WriterFields, Reads
<1>3. ~Reads(c)' /\ ReadOK(c)'
  BY <1>0
  DEF DrainForEnding, SessionOK, Types, Attached, WriterTypes, WriterFields, Reads, ReadOK,
      ClientTypes, ClientFields
<1>4. RequestsOK(c)'
  <2>1. RequestCount(link[c].queue) \in Nat /\ link[c].queue \in Seq(Messages)
    BY <1>n
  <2>2. /\ client' = client /\ writer'[c].pc \in {"farewell", "goodbye"}
        /\ writer'[c].requests = RequestCount(link[c].queue) /\ link'[c].state = link[c].state
        /\ writer[c].pc = "top" /\ writer[c].taken.kind # "Request" /\ notice # "none"
        /\ client[c].ending = "none"
    BY <1>0 DEF DrainForEnding, SessionOK, Types, Attached, LinkTypes, LinkFields, WriterTypes,
                WriterFields, Reads, RequestsOK
  <2>3. QED
    BY <1>0, <1>d, <2>1, <2>2, SMTT(60) DEF RequestsOK, Reads, Types, ClientTypes
<1>5. ClientOK(c)'
  BY <1>1, <1>2, <1>3, <1>4 DEF ClientOK, ViewsOK, EventsOK, OwedOK, RejectionsOK
<1>6. /\ DOMAIN link' = Clients /\ DOMAIN writer' = Clients /\ DOMAIN client' = Clients
      /\ reader' \in [Clients -> {"none", "reading", "closed", "left", "ended"}]
      /\ isLinkLost' \in [Clients -> BOOLEAN] /\ isLinkUp' \in [Clients -> BOOLEAN]
      /\ \A r \in Clients : r # c =>
           /\ link'[r] = link[r] /\ writer'[r] = writer[r] /\ client'[r] = client[r]
           /\ reader'[r] = reader[r] /\ isLinkUp'[r] = isLinkUp[r]
  BY <1>0, <1>d DEF DrainForEnding, SessionOK
<1>7. QED
  BY <1>d, <1>2, <1>5, <1>6, ConnectionStep

\* The farewell keeps the invariant: the requests were written ahead of it.
LEMMA WriteFarewellInv ==
  ASSUME DeliveryInv, NEW c \in Clients, WriteFarewell(c)
  PROVE  DeliveryInv'
<1>0. SessionOK /\ Types(c) /\ Attached(c) /\ RequestsOK(c) /\ ReadOK(c)
  BY DEF DeliveryInv, ClientOK
<1>d. UNCHANGED dispatcherVars /\ UNCHANGED <<inbox, isLinkUp, isLinkLost, view, notice, sent, pace>>
  BY DEF WriteFarewell, dispatcherVars, sessionVars
<1>1. Types(c)'
  <2>1. LinkTypes(link'[c])
    <3>1. LinkTypes(link[c]) /\ DOMAIN link = Clients /\ <<>> \in Seq(Messages) /\ Len(<<>>) = 0
      BY <1>0 DEF Types, SessionOK
    <3>2. QED
      BY <3>1, CapacityAssumption DEF WriteFarewell, GoTo, LinkTypes, LinkFields
  <2>2. WriterTypes(writer'[c])
    BY <1>0 DEF WriteFarewell, GoTo, SessionOK, Types, WriterTypes, WriterFields, WriterPcs
  <2>3. ClientTypes(client'[c])
    BY <1>0, SMTT(60) DEF WriteFarewell, GoTo, SessionOK, Types, ClientTypes, ClientFields, Endings,
       WriterTypes,
                RequestsOK
  <2>4. QED
    BY <1>0, <1>d, <2>1, <2>2, <2>3 DEF Types
<1>2. Attached(c)' /\ link'[c].state = link[c].state
  BY <1>0, <1>d
  DEF WriteFarewell, GoTo, SessionOK, Types, Attached, LinkTypes, LinkFields, WriterTypes, WriterFields, Reads
<1>3. ~Reads(c)' /\ ReadOK(c)'
  BY <1>0
  DEF WriteFarewell, GoTo, SessionOK, Types, Attached, WriterTypes, WriterFields, Reads, ReadOK,
      ClientTypes, ClientFields
<1>4. RequestsOK(c)'
  BY <1>0, <1>d
  DEF WriteFarewell, GoTo, SessionOK, Types, Attached, LinkTypes, LinkFields, WriterTypes, WriterFields,
      ClientTypes, ClientFields, RequestsOK, Reads
<1>5. ClientOK(c)'
  BY <1>1, <1>2, <1>3, <1>4 DEF ClientOK, ViewsOK, EventsOK, OwedOK, RejectionsOK
<1>6. /\ DOMAIN link' = Clients /\ DOMAIN writer' = Clients /\ DOMAIN client' = Clients
      /\ reader' \in [Clients -> {"none", "reading", "closed", "left", "ended"}]
      /\ isLinkLost' \in [Clients -> BOOLEAN] /\ isLinkUp' \in [Clients -> BOOLEAN]
      /\ \A r \in Clients : r # c =>
           /\ link'[r] = link[r] /\ writer'[r] = writer[r] /\ client'[r] = client[r]
           /\ reader'[r] = reader[r] /\ isLinkUp'[r] = isLinkUp[r]
  BY <1>0, <1>d DEF WriteFarewell, GoTo, SessionOK
<1>7. QED
  BY <1>d, <1>2, <1>5, <1>6, ConnectionStep

\* The goodbye keeps the invariant: nothing was left to read.
LEMMA WriteGoodbyeInv ==
  ASSUME DeliveryInv, NEW c \in Clients, WriteGoodbye(c)
  PROVE  DeliveryInv'
<1>0. SessionOK /\ Types(c) /\ Attached(c) /\ RequestsOK(c) /\ ReadOK(c)
  BY DEF DeliveryInv, ClientOK
<1>d. UNCHANGED dispatcherVars /\ UNCHANGED <<inbox, isLinkUp, isLinkLost, view, notice, sent, pace>>
  BY DEF WriteGoodbye, dispatcherVars, sessionVars
<1>1. Types(c)'
  <2>1. LinkTypes(link'[c])
    <3>1. LinkTypes(link[c]) /\ DOMAIN link = Clients /\ <<>> \in Seq(Messages) /\ Len(<<>>) = 0
      BY <1>0 DEF Types, SessionOK
    <3>2. QED
      BY <3>1, CapacityAssumption DEF WriteGoodbye, GoTo, LinkTypes, LinkFields
  <2>2. WriterTypes(writer'[c])
    BY <1>0 DEF WriteGoodbye, GoTo, SessionOK, Types, WriterTypes, WriterFields, WriterPcs
  <2>3. ClientTypes(client'[c])
    BY <1>0, SMTT(60) DEF WriteGoodbye, GoTo, SessionOK, Types, ClientTypes, ClientFields, Endings,
       WriterTypes,
                RequestsOK
  <2>4. QED
    BY <1>0, <1>d, <2>1, <2>2, <2>3 DEF Types
<1>2. Attached(c)' /\ link'[c].state = link[c].state
  BY <1>0, <1>d
  DEF WriteGoodbye, GoTo, SessionOK, Types, Attached, LinkTypes, LinkFields, WriterTypes, WriterFields, Reads
<1>3. ~Reads(c)' /\ ReadOK(c)'
  BY <1>0
  DEF WriteGoodbye, GoTo, SessionOK, Types, Attached, WriterTypes, WriterFields, Reads, ReadOK,
      ClientTypes, ClientFields
<1>4. RequestsOK(c)'
  BY <1>0, <1>d
  DEF WriteGoodbye, GoTo, SessionOK, Types, Attached, LinkTypes, LinkFields, WriterTypes, WriterFields,
      ClientTypes, ClientFields, RequestsOK, Reads
<1>5. ClientOK(c)'
  BY <1>1, <1>2, <1>3, <1>4 DEF ClientOK, ViewsOK, EventsOK, OwedOK, RejectionsOK
<1>6. /\ DOMAIN link' = Clients /\ DOMAIN writer' = Clients /\ DOMAIN client' = Clients
      /\ reader' \in [Clients -> {"none", "reading", "closed", "left", "ended"}]
      /\ isLinkLost' \in [Clients -> BOOLEAN] /\ isLinkUp' \in [Clients -> BOOLEAN]
      /\ \A r \in Clients : r # c =>
           /\ link'[r] = link[r] /\ writer'[r] = writer[r] /\ client'[r] = client[r]
           /\ reader'[r] = reader[r] /\ isLinkUp'[r] = isLinkUp[r]
  BY <1>0, <1>d DEF WriteGoodbye, GoTo, SessionOK
<1>7. QED
  BY <1>d, <1>2, <1>5, <1>6, ConnectionStep

\* A receiver that is dropped keeps the invariant.
LEMMA DropReceiverInv ==
  ASSUME DeliveryInv, NEW c \in Clients, DropReceiver(c)
  PROVE  DeliveryInv'
<1>0. SessionOK /\ Types(c) /\ Attached(c) /\ RequestsOK(c) /\ ReadOK(c)
  BY DEF DeliveryInv, ClientOK
<1>d. UNCHANGED dispatcherVars /\ UNCHANGED <<inbox, isLinkUp, isLinkLost, view, notice, sent, pace>>
  BY DEF DropReceiver, dispatcherVars, sessionVars
<1>1. Types(c)'
  <2>1. LinkTypes(link'[c])
    <3>1. LinkTypes(link[c]) /\ DOMAIN link = Clients /\ <<>> \in Seq(Messages) /\ Len(<<>>) = 0
      BY <1>0 DEF Types, SessionOK
    <3>2. QED
      BY <3>1, CapacityAssumption DEF DropReceiver, GoTo, LinkTypes, LinkFields
  <2>2. WriterTypes(writer'[c])
    BY <1>0 DEF DropReceiver, GoTo, SessionOK, Types, WriterTypes, WriterFields, WriterPcs
  <2>3. ClientTypes(client'[c])
    BY <1>0 DEF DropReceiver, GoTo, SessionOK, Types, ClientTypes, ClientFields, Endings,
       WriterTypes,
                RequestsOK
  <2>4. QED
    BY <1>0, <1>d, <2>1, <2>2, <2>3 DEF Types
<1>2. Attached(c)' /\ link'[c].state = link[c].state
  BY <1>0, <1>d
  DEF DropReceiver, GoTo, SessionOK, Types, Attached, LinkTypes, LinkFields, WriterTypes, WriterFields, Reads
<1>3. ~Reads(c)' /\ ReadOK(c)'
  BY <1>0
  DEF DropReceiver, GoTo, SessionOK, Types, Attached, WriterTypes, WriterFields, Reads, ReadOK,
      ClientTypes, ClientFields
<1>4. RequestsOK(c)'
  BY <1>0, <1>d
  DEF DropReceiver, GoTo, SessionOK, Types, Attached, LinkTypes, LinkFields, WriterTypes, WriterFields,
      ClientTypes, ClientFields, RequestsOK, Reads
<1>5. ClientOK(c)'
  BY <1>1, <1>2, <1>3, <1>4 DEF ClientOK, ViewsOK, EventsOK, OwedOK, RejectionsOK
<1>6. /\ DOMAIN link' = Clients /\ DOMAIN writer' = Clients /\ DOMAIN client' = Clients
      /\ reader' \in [Clients -> {"none", "reading", "closed", "left", "ended"}]
      /\ isLinkLost' \in [Clients -> BOOLEAN] /\ isLinkUp' \in [Clients -> BOOLEAN]
      /\ \A r \in Clients : r # c =>
           /\ link'[r] = link[r] /\ writer'[r] = writer[r] /\ client'[r] = client[r]
           /\ reader'[r] = reader[r] /\ isLinkUp'[r] = isLinkUp[r]
  BY <1>0, <1>d DEF DropReceiver, GoTo, SessionOK
<1>7. QED
  BY <1>d, <1>2, <1>5, <1>6, ConnectionStep

\* The end of a writing thread keeps the invariant.
LEMMA EndWriterInv ==
  ASSUME DeliveryInv, NEW c \in Clients, EndWriter(c)
  PROVE  DeliveryInv'
<1>0. SessionOK /\ Types(c) /\ Attached(c) /\ RequestsOK(c) /\ ReadOK(c)
  BY DEF DeliveryInv, ClientOK
<1>d. UNCHANGED dispatcherVars /\ UNCHANGED <<inbox, isLinkUp, isLinkLost, view, notice, sent, pace>>
  BY DEF EndWriter, dispatcherVars, sessionVars
<1>1. Types(c)'
  <2>1. LinkTypes(link'[c])
    <3>1. LinkTypes(link[c]) /\ DOMAIN link = Clients /\ <<>> \in Seq(Messages) /\ Len(<<>>) = 0
      BY <1>0 DEF Types, SessionOK
    <3>2. QED
      BY <3>1, CapacityAssumption DEF EndWriter, GoTo, LinkTypes, LinkFields
  <2>2. WriterTypes(writer'[c])
    BY <1>0 DEF EndWriter, GoTo, SessionOK, Types, WriterTypes, WriterFields, WriterPcs
  <2>3. ClientTypes(client'[c])
    BY <1>0 DEF EndWriter, GoTo, SessionOK, Types, ClientTypes, ClientFields, Endings,
       WriterTypes,
                RequestsOK
  <2>4. QED
    BY <1>0, <1>d, <2>1, <2>2, <2>3 DEF Types
<1>2. Attached(c)' /\ link'[c].state = link[c].state
  BY <1>0, <1>d
  DEF EndWriter, GoTo, SessionOK, Types, Attached, LinkTypes, LinkFields, WriterTypes, WriterFields, Reads
<1>3. ~Reads(c)' /\ ReadOK(c)'
  BY <1>0
  DEF EndWriter, GoTo, SessionOK, Types, Attached, WriterTypes, WriterFields, Reads, ReadOK,
      ClientTypes, ClientFields
<1>4. RequestsOK(c)'
  BY <1>0, <1>d
  DEF EndWriter, GoTo, SessionOK, Types, Attached, LinkTypes, LinkFields, WriterTypes, WriterFields,
      ClientTypes, ClientFields, RequestsOK, Reads
<1>5. ClientOK(c)'
  BY <1>1, <1>2, <1>3, <1>4 DEF ClientOK, ViewsOK, EventsOK, OwedOK, RejectionsOK
<1>6. /\ DOMAIN link' = Clients /\ DOMAIN writer' = Clients /\ DOMAIN client' = Clients
      /\ reader' \in [Clients -> {"none", "reading", "closed", "left", "ended"}]
      /\ isLinkLost' \in [Clients -> BOOLEAN] /\ isLinkUp' \in [Clients -> BOOLEAN]
      /\ \A r \in Clients : r # c =>
           /\ link'[r] = link[r] /\ writer'[r] = writer[r] /\ client'[r] = client[r]
           /\ reader'[r] = reader[r] /\ isLinkUp'[r] = isLinkUp[r]
  BY <1>0, <1>d DEF EndWriter, GoTo, SessionOK
<1>7. QED
  BY <1>d, <1>2, <1>5, <1>6, ConnectionStep

\* The writing thread takes the head of the queue, and the way stays what it was.
LEMMA ReceiveHead ==
  ASSUME DeliveryInv, NEW c \in Clients, UNCHANGED dispatcherVars,
         UNCHANGED <<inbox, isLinkUp, reader>>,
         writer[c].pc = "receive", link[c].queue # <<>>, client'[c] = client[c],
         writer'[c] = [writer[c] EXCEPT !.pc = "took", !.taken = Head(link[c].queue),
                                        !.isFrameAllowed = TRUE],
         link'[c] = [link[c] EXCEPT !.queue = Tail(@)]
  PROVE  ClientOK(c)'
<1>0. SessionOK /\ ClientOK(c)
  BY DEF DeliveryInv
<1>t. /\ Types(c) /\ Attached(c) /\ ViewsOK(c) /\ EventsOK(c) /\ OwedOK(c) /\ RejectionsOK(c)
      /\ RequestsOK(c) /\ ReadOK(c)
  BY <1>0 DEF ClientOK
<1>d. UNCHANGED <<view, revision, inputCount, dispatcher, notice, pace, sent>>
  BY DEF dispatcherVars, sessionVars
<1>v. PICK d, q, e, p, k, s, l : /\ d = writer[c].taken /\ q = link[c].queue /\ e = Head(q) /\ p = Tail(q)
                                 /\ k = client[c].shown /\ s = client[c].seen /\ l = writer[c].lastView
  OBVIOUS
<1>q. /\ d \in Messages /\ q \in Seq(Messages) /\ q # <<>> /\ d.kind \in {"None", "HostWrite"}
      /\ e \in Messages /\ p \in Seq(Messages) /\ Len(p) <= Capacity /\ Len(p) \in Nat
      /\ k \in Nat /\ s \in Nat /\ view \in Nat /\ revision \in Nat
  <2>1. /\ d \in Messages /\ q \in Seq(Messages) /\ q # <<>> /\ d.kind \in {"None", "HostWrite"}
        /\ Len(q) <= Capacity /\ Capacity \in Nat
        /\ k \in Nat /\ s \in Nat /\ view \in Nat /\ revision \in Nat
    BY <1>0, <1>t, <1>v, CapacityAssumption
    DEF Types, Attached, Reads, LinkTypes, WriterTypes, ClientTypes, SessionOK
  <2>2. e \in Messages /\ p \in Seq(Messages) /\ Len(p) = Len(q) - 1 /\ Len(q) \in Nat \ {0}
    BY <1>v, <2>1, AtTail
  <2>3. QED
    BY <2>1, <2>2
<1>l. /\ DOMAIN link'[c] = LinkFields /\ link'[c].queue = p /\ link'[c].held = link[c].held
      /\ link'[c].droppedRuns = link[c].droppedRuns /\ link'[c].state = link[c].state
      /\ link'[c].isReceiverClosed = link[c].isReceiverClosed
      /\ link'[c].isFrameOwed = link[c].isFrameOwed /\ link'[c].report = link[c].report
      /\ link'[c].dropped = link[c].dropped
  BY <1>t, <1>v DEF Types, LinkTypes, LinkFields
<1>w. /\ DOMAIN writer'[c] = WriterFields /\ writer'[c].pc = "took" /\ writer'[c].taken = e
      /\ writer'[c].lastView = l /\ writer'[c].requests = writer[c].requests
      /\ writer'[c].lastSent = writer[c].lastSent /\ writer'[c].lastPainted = writer[c].lastPainted
  BY <1>t, <1>v DEF Types, WriterTypes, WriterFields
<1>r. Reads(c) /\ Reads(c)'
  BY <1>w DEF Reads
<1>1. Types(c)'
  <2>1. LinkTypes(link'[c])
    BY <1>t, <1>l, <1>q DEF Types, LinkTypes
  <2>2. WriterTypes(writer'[c])
    BY <1>t, <1>w, <1>q DEF Types, WriterTypes, WriterPcs
  <2>3. QED
    BY <1>t, <1>d, <2>1, <2>2 DEF Types
<1>2. Attached(c)' /\ ReadOK(c)' /\ OwedOK(c)'
  BY <1>t, <1>d, <1>l, <1>w DEF Attached, ReadOK, OwedOK, Reads
<1>3. /\ NothingNewer(view, revision, d, q) => NothingNewer(view, revision, e, p)
      /\ ViewsInOrder(d, q) => ViewsInOrder(e, p)
      /\ ReachesView(view, l, d, q) => ReachesView(view, l, e, p)
      /\ ViewsAreNewer(k, d, q) => ViewsAreNewer(k, e, p)
      /\ EventsInOrder(s, d, q) => EventsInOrder(s, e, p)
      /\ ReachesEvent(revision, s, d, q) => ReachesEvent(revision, s, e, p)
  BY <1>q, <1>v, TakeHead, ZenonT(60)
<1>4. ViewsOK(c)'
  BY <1>t, <1>d, <1>v, <1>l, <1>w, <1>r, <1>3 DEF ViewsOK
<1>5. EventsOK(c)'
  BY <1>t, <1>d, <1>v, <1>l, <1>r, <1>w, <1>3 DEF EventsOK
<1>n. /\ RejectionCount(q) = RejectionsIn(e) + RejectionCount(p)
      /\ DroppedCount(q) = RunsDroppedIn(e) + DroppedCount(p)
      /\ RequestCount(q) = (IF e.kind = "Request" THEN 1 ELSE 0) + RequestCount(p)
      /\ RejectionsIn(d) = 0 /\ RunsDroppedIn(d) = 0
      /\ RejectionsIn(e) \in Nat /\ RunsDroppedIn(e) \in Nat
      /\ RejectionCount(p) \in Nat /\ DroppedCount(p) \in Nat /\ RequestCount(p) \in Nat
  <2>1. RejectionsIn(d) = 0 /\ RunsDroppedIn(d) = 0
    BY <1>q DEF RejectionsIn, RunsDroppedIn
  <2>2. RejectionCount(p) \in Nat /\ DroppedCount(p) \in Nat /\ RequestCount(p) \in Nat
    BY <1>q, CountsAppend
  <2>3. RejectionsIn(e) \in Nat /\ RunsDroppedIn(e) \in Nat
    BY <1>q, MessageCounts
  <2>4. QED
    BY <1>v, <1>q, <2>1, <2>2, <2>3, CountsTail
<1>6. RejectionsOK(c)'
  <2>1. PICK n, m, rq, rp, dq, dp, re, de, h, hd :
          /\ n = sent[c].rejections - client[c].rejections /\ m = client[c].droppedRuns
          /\ rq = RejectionCount(q) /\ rp = RejectionCount(p) /\ dq = DroppedCount(q)
          /\ dp = DroppedCount(p) /\ re = RejectionsIn(e) /\ de = RunsDroppedIn(e)
          /\ h = RepeatCount(link[c].held) /\ hd = link[c].droppedRuns
    OBVIOUS
  <2>2. /\ n \in Int /\ m \in Nat /\ rp \in Nat /\ dp \in Nat /\ re \in Nat /\ de \in Nat
        /\ h \in Nat /\ hd \in Nat /\ rq = re + rp /\ dq = de + dp
    <3>1. sent[c].rejections \in Nat /\ client[c].rejections \in Nat /\ link[c].held \in Seq(Runs)
      BY <1>t DEF Types, LinkTypes, ClientTypes
    <3>2. RepeatCount(link[c].held) \in Nat
      BY <3>1, RepeatsAreNumbers
    <3>3. link[c].droppedRuns \in Nat /\ client[c].droppedRuns \in Nat
      BY <1>t DEF Types, LinkTypes, ClientTypes
    <3>4. QED
      BY <1>n, <2>1, <3>1, <3>2, <3>3, SMTT(60)
  <2>3. n - 0 - rq - h = n - re - rp - h /\ m + 0 + dq + hd = m + de + dp + hd
    BY <2>2
  <2>4. QED
    BY <1>t, <1>n, <1>d, <1>v, <1>l, <1>w, <1>r, <2>1, <2>3, SMTT(60) DEF RejectionsOK
<1>7. RequestsOK(c)'
  <2>1. /\ client[c].requests \in Nat /\ sent[c].requests \in Nat /\ client[c].ending = "none"
        /\ d.kind # "Request"
    BY <1>t, <1>q DEF Types, ClientTypes, RequestsOK
  <2>2. isLinkUp[c] => sent[c].requests <= client[c].requests + RequestCount(q)
    BY <1>t, <1>n, <1>r, <1>v, <2>1 DEF RequestsOK
  <2>3. PICK f : f = IF e.kind = "Request" THEN 1 ELSE 0
    OBVIOUS
  <2>4. f \in Nat /\ RequestCount(q) = f + RequestCount(p)
    BY <1>n, <2>3
  <2>5. isLinkUp[c] => sent[c].requests <= client[c].requests + RequestCount(p) + f
    <3>1. PICK m, x, y : m = RequestCount(p) /\ x = client[c].requests /\ y = RequestCount(q)
      OBVIOUS
    <3>2. m \in Nat /\ x \in Nat /\ x + y = x + m + f
      BY <1>n, <2>1, <2>4, <3>1, SMTT(60)
    <3>3. QED
      BY <2>2, <3>1, <3>2
  <2>6. f = IF writer'[c].taken.kind = "Request" THEN 1 ELSE 0
    BY <1>w, <2>3
  <2>7. writer'[c].pc = "took" /\ link'[c].queue = p /\ client'[c] = client[c] /\ isLinkUp' = isLinkUp
    BY <1>l, <1>w
  <2>8. QED
    BY <1>d, <2>1, <2>5, <2>6, <2>7 DEF RequestsOK
<1>8. QED
  BY <1>1, <1>2, <1>4, <1>5, <1>6, <1>7 DEF ClientOK

\* The writing thread finds a closed and empty queue, and goes to the goodbye.
LEMMA ReceiveClosed ==
  ASSUME DeliveryInv, NEW c \in Clients, UNCHANGED dispatcherVars,
         UNCHANGED <<inbox, isLinkUp, reader>>,
         writer[c].pc = "receive", link[c].queue = <<>>, link[c].state = "gone",
         client'[c] = client[c],
         writer'[c] = [writer[c] EXCEPT !.pc = "goodbye", !.requests = 0, !.isFrameAllowed = TRUE],
         link'[c] = link[c]
  PROVE  ClientOK(c)'
<1>0. SessionOK /\ ClientOK(c)
  BY DEF DeliveryInv
<1>t. Types(c) /\ Attached(c) /\ RequestsOK(c) /\ ReadOK(c)
  BY <1>0 DEF ClientOK
<1>d. UNCHANGED <<view, revision, inputCount, dispatcher, notice, pace, sent>>
  BY DEF dispatcherVars, sessionVars
<1>w. /\ DOMAIN writer'[c] = WriterFields /\ writer'[c].pc = "goodbye" /\ writer'[c].requests = 0
      /\ writer'[c].taken = writer[c].taken
      /\ writer'[c].lastSent = writer[c].lastSent /\ writer'[c].lastPainted = writer[c].lastPainted
  BY <1>t DEF Types, WriterTypes, WriterFields
<1>1. Types(c)' /\ Attached(c)' /\ ReadOK(c)' /\ ~Reads(c)'
  BY <1>t, <1>d, <1>w DEF Types, WriterTypes, WriterPcs, Attached, ReadOK, Reads
<1>2. RequestsOK(c)'
  BY <1>t, <1>d, <1>w, CountsEmpty DEF RequestsOK, Types, ClientTypes, Attached, Reads
<1>3. QED
  BY <1>1, <1>2 DEF ClientOK, ViewsOK, EventsOK, OwedOK, RejectionsOK

\* A receive, of a delivery, of nothing or of the close, keeps the invariant.
LEMMA ReceiveDeliveryInv ==
  ASSUME DeliveryInv, NEW c \in Clients, ReceiveDelivery(c)
  PROVE  DeliveryInv'
<1>0. SessionOK /\ Types(c) /\ Attached(c)
  BY DEF DeliveryInv, ClientOK
<1>d. /\ UNCHANGED dispatcherVars /\ UNCHANGED <<inbox, reader, isLinkLost, isLinkUp, client>>
      /\ writer[c].pc = "receive"
  BY DEF ReceiveDelivery
<1>1. CASE \/ notice # "none"
             \/ /\ ~(link[c].queue # <<>> /\ ~IsHeadHeld(c))
                /\ ~(link[c].queue = <<>> /\ link[c].state = "gone")
  <2>1. \/ link' = link /\ writer' = [writer EXCEPT ![c].pc = "top"]
        \/ writer' = writer /\ link' = [link EXCEPT ![c].isWaiting = TRUE]
    BY <1>1 DEF ReceiveDelivery, GoTo
  <2>2. /\ LinkTypes(link'[c]) /\ WriterTypes(writer'[c])
        /\ link[c].state = "none" => link'[c] = link[c] /\ writer'[c] = writer[c]
        /\ link'[c].queue = link[c].queue /\ link'[c].held = link[c].held
        /\ link'[c].droppedRuns = link[c].droppedRuns /\ link'[c].state = link[c].state
        /\ link'[c].isReceiverClosed = link[c].isReceiverClosed
    <3>1. /\ DOMAIN link = Clients /\ DOMAIN writer = Clients
          /\ LinkTypes(link[c]) /\ WriterTypes(writer[c]) /\ link[c].state # "none"
      BY <1>0, <1>d DEF SessionOK, Types, Attached
    <3>2. CASE link' = link /\ writer' = [writer EXCEPT ![c].pc = "top"]
      BY <3>1, <3>2 DEF WriterTypes, WriterFields, WriterPcs
    <3>3. CASE writer' = writer /\ link' = [link EXCEPT ![c].isWaiting = TRUE]
      BY <3>1, <3>3 DEF LinkTypes, LinkFields
    <3>4. QED
      BY <2>1, <3>2, <3>3
  <2>3. reader'[c] # "none" => writer'[c].pc \notin {"none", "accepted", "greeted"}
    BY <1>0, <1>d, <2>1 DEF SessionOK, Types, WriterTypes, WriterFields
  <2>4. QuietWriter(c)
    BY <1>0, <1>d, <2>1 DEF SessionOK, Types, Attached, LinkTypes, LinkFields, WriterTypes,
                            WriterFields, QuietWriter, Reads
  <2>5. ClientOK(c)'
    BY <1>d, <2>2, <2>3, <2>4, QuietStep
  <2>6. /\ DOMAIN link' = Clients /\ DOMAIN writer' = Clients
        /\ \A r \in Clients : r # c => link'[r] = link[r] /\ writer'[r] = writer[r]
    BY <1>0, <2>1 DEF SessionOK
  <2>7. QED
    BY <1>0, <1>d, <2>2, <2>5, <2>6, ConnectionStep DEF SessionOK
<1>2. CASE notice = "none" /\ link[c].queue # <<>> /\ ~IsHeadHeld(c)
  <2>1. /\ writer' = [writer EXCEPT ![c].pc = "took", ![c].taken = Head(link[c].queue),
                                    ![c].isFrameAllowed = TRUE]
        /\ link' = [link EXCEPT ![c].queue = Tail(@)]
    BY <1>2 DEF ReceiveDelivery
  <2>2. /\ writer'[c] = [writer[c] EXCEPT !.pc = "took", !.taken = Head(link[c].queue),
                                          !.isFrameAllowed = TRUE]
        /\ link'[c] = [link[c] EXCEPT !.queue = Tail(@)]
        /\ link'[c].state = link[c].state
        /\ DOMAIN link' = Clients /\ DOMAIN writer' = Clients
        /\ \A r \in Clients : r # c => link'[r] = link[r] /\ writer'[r] = writer[r]
    BY <1>0, <2>1 DEF SessionOK, Types, LinkTypes, LinkFields
  <2>3. ClientOK(c)'
    BY <1>d, <1>2, <2>2, ReceiveHead
  <2>4. QED
    BY <1>0, <1>d, <2>2, <2>3, ConnectionStep DEF SessionOK
<1>3. CASE notice = "none" /\ link[c].queue = <<>> /\ link[c].state = "gone"
  <2>1. /\ writer' = [writer EXCEPT ![c].pc = "goodbye", ![c].requests = 0,
                                    ![c].isFrameAllowed = TRUE]
        /\ link' = link
    BY <1>3 DEF ReceiveDelivery, IsHeadHeld
  <2>2. /\ writer'[c] = [writer[c] EXCEPT !.pc = "goodbye", !.requests = 0, !.isFrameAllowed = TRUE]
        /\ DOMAIN link' = Clients /\ DOMAIN writer' = Clients
        /\ \A r \in Clients : r # c => link'[r] = link[r] /\ writer'[r] = writer[r]
    BY <1>0, <2>1 DEF SessionOK
  <2>3. ClientOK(c)'
    BY <1>d, <1>3, <2>1, <2>2, ReceiveClosed
  <2>4. QED
    BY <1>0, <1>d, <2>1, <2>2, <2>3, ConnectionStep DEF SessionOK
<1>4. QED
  <2>1. CASE notice # "none"
    BY <1>1, <2>1
  <2>2. CASE notice = "none" /\ IsHeadHeld(c)
    <3>1. link[c].queue # <<>>
      BY <2>2 DEF IsHeadHeld
    <3>2. QED
      BY <1>1, <2>2, <3>1
  <2>3. CASE notice = "none" /\ ~IsHeadHeld(c)
    BY <1>1, <1>2, <1>3, <2>3
  <2>4. QED
    BY <2>1, <2>2, <2>3

\* What `a`, the client `k` after it read `d`, holds.
IsAfter(k, d, a) ==
  /\ ClientTypes(a) /\ a.ending = k.ending
  /\ a.shown = IF IsFrameDelivery(d) THEN d.view ELSE k.shown
  /\ a.seen = IF IsEventful(d) THEN d.event ELSE k.seen
  /\ a.rejections = k.rejections + RejectionsIn(d)
  /\ a.droppedRuns = k.droppedRuns + RunsDroppedIn(d)
  /\ a.requests = k.requests + (IF d.kind = "Request" THEN 1 ELSE 0)
  /\ ~k.hasGoneBack /\ (IsFrameDelivery(d) => k.shown <= d.view) => ~a.hasGoneBack
  /\ (~k.hasGap /\ (d.kind = "Snapshot" => k.seen <= d.event)
                /\ (d.kind = "Event" => d.event = k.seen + 1)) => ~a.hasGap

\* What AfterDelivery makes of a client.
LEMMA AfterFacts ==
  ASSUME NEW k, ClientTypes(k), NEW d \in Messages, NEW a, a = AfterDelivery(k, d)
  PROVE  IsAfter(k, d, a)
<1> USE DEF IsAfter, ClientTypes, ClientFields, IsFrameDelivery, IsEventful, RejectionsIn, RunsDroppedIn
<1>0. Numbers \subseteq Nat
  BY BoundsAssumption DEF Numbers
<1> USE <1>0
<1>1. CASE d \in [kind : {"Frame"}, view : Numbers]
  <2>1. a = [k EXCEPT !.shown = d.view, !.hasGoneBack = @ \/ d.view < k.shown]
    BY <1>1 DEF AfterDelivery, AfterFrame
  <2>2. /\ DOMAIN a = ClientFields /\ a.shown = d.view /\ a.seen = k.seen
        /\ a.rejections = k.rejections /\ a.droppedRuns = k.droppedRuns
        /\ a.requests = k.requests /\ a.ending = k.ending /\ a.hasGap = k.hasGap
    BY <2>1
  <2>3. a.hasGoneBack = (k.hasGoneBack \/ d.view < k.shown)
    BY <2>1
  <2>v. d.view \in Nat
    BY <1>1
  <2>4. k.shown <= d.view => ~(d.view < k.shown)
    BY <2>v
  <2>5. ~k.hasGoneBack /\ (IsFrameDelivery(d) => k.shown <= d.view) => ~a.hasGoneBack
    BY <1>1, <2>3, <2>4
  <2>6. QED
    BY <1>1, <2>2, <2>5
<1>2. CASE d \in [kind : {"Event"}, event : Numbers]
  <2>1. a = [k EXCEPT !.seen = d.event, !.hasGap = @ \/ d.event # k.seen + 1]
    BY <1>2 DEF AfterDelivery
  <2>2. /\ DOMAIN a = ClientFields /\ a.shown = k.shown /\ a.seen = d.event
        /\ a.rejections = k.rejections /\ a.droppedRuns = k.droppedRuns
        /\ a.requests = k.requests /\ a.ending = k.ending /\ a.hasGoneBack = k.hasGoneBack
    BY <2>1
  <2>3. a.hasGap = (k.hasGap \/ d.event # k.seen + 1)
    BY <2>1
  <2>4. ~k.hasGap /\ d.event = k.seen + 1 => ~a.hasGap
    BY <2>3
  <2>5. d.kind = "Event"
    BY <1>2
  <2>6. QED
    BY <1>2, <2>2, <2>4, <2>5
<1>3. CASE d \in [kind : {"Rejection"}, action : RejectedActions]
  BY <1>3 DEF AfterDelivery
<1>4. CASE d \in [kind : PlainKinds]
  BY <1>4 DEF AfterDelivery, PlainKinds
<1>5. CASE d \in [kind : {"Snapshot"}, view : Numbers, event : Numbers, held : Seq(Runs),
                  droppedRuns : Nat]
  <2>1. PICK n : n = RepeatCount(d.held)
    OBVIOUS
  <2>2. n \in Nat
    BY <1>5, <2>1, RepeatsAreNumbers
  <2>3. a = [AfterFrame(k, d.view) EXCEPT
               !.seen = d.event,
               !.hasGap = @ \/ d.event < k.seen,
               !.rejections = @ + n,
               !.droppedRuns = @ + d.droppedRuns]
    BY <1>5, <2>1 DEF AfterDelivery
  <2>4. RejectionsIn(d) = n
    BY <1>5, <2>1
  <2>5. /\ DOMAIN a = ClientFields /\ a.shown = d.view /\ a.seen = d.event
        /\ a.rejections = k.rejections + n /\ a.droppedRuns = k.droppedRuns + d.droppedRuns
        /\ a.requests = k.requests /\ a.ending = k.ending
    BY <2>3 DEF AfterFrame
  <2>6. /\ a.hasGap = (k.hasGap \/ d.event < k.seen)
        /\ a.hasGoneBack = (k.hasGoneBack \/ d.view < k.shown)
    BY <2>3 DEF AfterFrame
  <2>7. d.kind = "Snapshot" /\ d.droppedRuns \in Nat /\ d.view \in Nat /\ d.event \in Nat
    BY <1>5
  <2>8. /\ k.shown <= d.view => ~(d.view < k.shown)
        /\ k.seen <= d.event => ~(d.event < k.seen)
    BY <2>7
  <2>9. /\ ~k.hasGap /\ k.seen <= d.event => ~a.hasGap
        /\ ~k.hasGoneBack /\ k.shown <= d.view => ~a.hasGoneBack
    BY <2>6, <2>8
  <2> HIDE DEF RejectionsIn
  <2>10. QED
    BY <2>2, <2>4, <2>5, <2>7, <2>9
<1>6. QED
  BY <1>1, <1>2, <1>3, <1>4, <1>5 DEF Messages

\* The delivery that was taken is written: the client reads it, or nobody does once
\* the connection is gone.
LEMMA TakenWritten ==
  ASSUME DeliveryInv, NEW c \in Clients, UNCHANGED dispatcherVars,
         UNCHANGED <<inbox, isLinkUp, reader>>,
         writer[c].pc \in {"write", "woken"}, writer'[c].pc = "top", WriterTypes(writer'[c]),
         writer'[c].taken = Plain("None"),
         writer'[c].lastView = IF IsFrameDelivery(writer[c].taken) THEN writer[c].taken.view
                               ELSE writer[c].lastView,
         client'[c] = IF isLinkUp[c] THEN AfterDelivery(client[c], writer[c].taken) ELSE client[c],
         LinkTypes(link'[c]), link'[c].queue = link[c].queue, link'[c].held = link[c].held,
         link'[c].droppedRuns = link[c].droppedRuns, link'[c].state = link[c].state,
         link'[c].isReceiverClosed = link[c].isReceiverClosed,
         link'[c].isFrameOwed = link[c].isFrameOwed
  PROVE  ClientOK(c)'
<1>0. SessionOK /\ ClientOK(c)
  BY DEF DeliveryInv
<1>t. /\ Types(c) /\ Attached(c) /\ ViewsOK(c) /\ EventsOK(c) /\ OwedOK(c) /\ RejectionsOK(c)
      /\ RequestsOK(c) /\ ReadOK(c)
  BY <1>0 DEF ClientOK
<1>d. UNCHANGED <<view, revision, inputCount, dispatcher, notice, pace, sent>>
  BY DEF dispatcherVars, sessionVars
<1>v. PICK d, q, k, s, l, none, a :
        /\ d = writer[c].taken /\ q = link[c].queue /\ k = client[c].shown /\ s = client[c].seen
        /\ l = writer[c].lastView /\ none = Plain("None") /\ a = AfterDelivery(client[c], d)
  OBVIOUS
<1>q. /\ d \in Messages /\ q \in Seq(Messages) /\ ClientTypes(client[c])
      /\ k \in Nat /\ s \in Nat /\ view \in Nat /\ revision \in Nat
      /\ none \in Messages /\ none.kind = "None"
  BY <1>0, <1>t, <1>v, PlainMessages
  DEF Types, LinkTypes, WriterTypes, ClientTypes, SessionOK, PlainKinds
<1>r. Reads(c) /\ Reads(c)'
  BY DEF Reads
<1>f. IsAfter(client[c], d, a)
  BY <1>q, <1>v, AfterFacts
<1>a. /\ ClientTypes(a) /\ a.ending = client[c].ending
      /\ a.shown = IF IsFrameDelivery(d) THEN d.view ELSE k
      /\ a.seen = IF IsEventful(d) THEN d.event ELSE s
      /\ a.rejections = client[c].rejections + RejectionsIn(d)
      /\ a.droppedRuns = client[c].droppedRuns + RunsDroppedIn(d)
      /\ a.requests = client[c].requests + (IF d.kind = "Request" THEN 1 ELSE 0)
      /\ ~client[c].hasGoneBack /\ (IsFrameDelivery(d) => k <= d.view) => ~a.hasGoneBack
      /\ (~client[c].hasGap /\ (d.kind = "Snapshot" => s <= d.event)
                            /\ (d.kind = "Event" => d.event = s + 1)) => ~a.hasGap
  BY <1>f, <1>v DEF IsAfter
<1>k. client'[c] = IF isLinkUp[c] THEN a ELSE client[c]
  BY <1>v
<1>1. Types(c)' /\ Attached(c)'
  <2>1. ClientTypes(client'[c])
    BY <1>q, <1>a, <1>k
  <2>2. Types(c)'
    BY <1>t, <1>d, <2>1 DEF Types
  <2>3. Attached(c)'
    BY <1>t, <1>d, <1>q, <1>v DEF Attached
  <2>4. QED
    BY <2>2, <2>3
<1>2. OwedOK(c)'
  BY <1>t, <1>d, <1>r DEF OwedOK
<1>3. ViewsOK(c)'
  <2>1. NothingNewer(view, revision, d, q) /\ ViewsInOrder(d, q)
    BY <1>t, <1>r, <1>v DEF ViewsOK
  <2>2. /\ NothingNewer(view, revision, none, q) /\ ViewsInOrder(none, q)
        /\ ReachesView(view, l, d, q) =>
             ReachesView(view, IF IsFrameDelivery(d) THEN d.view ELSE l, none, q)
    BY <1>q, <2>1, WriteTaken
  <2>3. QED
    BY <1>t, <1>d, <1>r, <1>v, <2>2 DEF ViewsOK
<1>4. EventsOK(c)' /\ ReadOK(c)'
  <2>1. CASE ~isLinkUp[c]
    BY <1>t, <1>k, <2>1 DEF EventsOK, ReadOK
  <2>2. CASE isLinkUp[c]
    <3>1. /\ NothingNewer(view, revision, d, q) /\ ViewsInOrder(d, q) /\ ViewsAreNewer(k, d, q)
          /\ EventsInOrder(s, d, q) /\ s <= revision /\ k <= view
      BY <1>t, <1>r, <1>v, <2>2 DEF ViewsOK, EventsOK
    <3>2. /\ IsFrameDelivery(d) => k <= d.view
          /\ d.kind = "Snapshot" => s <= d.event
          /\ d.kind = "Event" => d.event = s + 1
          /\ ViewsAreNewer(IF IsFrameDelivery(d) THEN d.view ELSE k, none, q)
          /\ EventsInOrder(IF IsEventful(d) THEN d.event ELSE s, none, q)
          /\ ReachesEvent(revision, s, d, q) =>
               ReachesEvent(revision, IF IsEventful(d) THEN d.event ELSE s, none, q)
      BY <1>q, <3>1, ReadTaken
    <3>3. /\ IsFrameDelivery(d) => d.view <= view
          /\ IsEventful(d) => d.event <= revision
      <4>1. At(d, q, 0) = d /\ 0 \in 0 .. Len(q)
        BY <1>q DEF At
      <4>2. QED
        BY <3>1, <4>1 DEF NothingNewer
    <3>4. ReadOK(c)'
      BY <1>t, <1>a, <1>k, <2>2, <3>2 DEF ReadOK
    <3>5. a.seen <= revision /\ a.shown <= view
      BY <1>a, <3>1, <3>3
    <3>6. /\ ViewsAreNewer(a.shown, none, q) /\ EventsInOrder(a.seen, none, q)
          /\ ReachesEvent(revision, s, d, q) => ReachesEvent(revision, a.seen, none, q)
      BY <1>a, <3>2
    <3>7. EventsOK(c)'
      BY <1>t, <1>d, <1>r, <1>v, <1>k, <2>2, <3>5, <3>6 DEF EventsOK
    <3>8. QED
      BY <3>4, <3>7
  <2>3. QED
    BY <2>1, <2>2
<1>5. RejectionsOK(c)'
  <2>1. CASE ~isLinkUp[c]
    BY <2>1 DEF RejectionsOK
  <2>2. CASE isLinkUp[c]
    <3>1. PICK n, m, x, dx, y, dy, h, hd :
            /\ n = sent[c].rejections /\ m = client[c].rejections /\ x = RejectionsIn(d)
            /\ dx = RunsDroppedIn(d) /\ y = RejectionCount(q) /\ dy = DroppedCount(q)
            /\ h = RepeatCount(link[c].held) /\ hd = link[c].droppedRuns
      OBVIOUS
    <3>2. PICK e : e = client[c].droppedRuns
      OBVIOUS
    <3>3. /\ n \in Nat /\ m \in Nat /\ x \in Nat /\ dx \in Nat /\ y \in Nat /\ dy \in Nat
          /\ h \in Nat /\ hd \in Nat /\ e \in Nat
      <4>1. n \in Nat /\ m \in Nat /\ hd \in Nat /\ e \in Nat /\ link[c].held \in Seq(Runs)
        BY <1>t, <3>1, <3>2 DEF Types, LinkTypes, ClientTypes
      <4>2. x \in Nat /\ dx \in Nat
        BY <1>q, <3>1, MessageCounts
      <4>3. y \in Nat /\ dy \in Nat
        BY <1>q, <3>1, CountsAppend
      <4>4. h \in Nat
        BY <3>1, <4>1, RepeatsAreNumbers
      <4>5. QED
        BY <4>1, <4>2, <4>3, <4>4
    <3>4. /\ n - m - x - y - h >= e + dx + dy + hd
          /\ e + dx + dy + hd = 0 => n - m - x - y - h = 0
      BY <1>t, <1>r, <1>v, <2>2, <3>1, <3>2 DEF RejectionsOK
    <3>5. /\ n - (m + x) - 0 - y - h >= (e + dx) + 0 + dy + hd
          /\ (e + dx) + 0 + dy + hd = 0 => n - (m + x) - 0 - y - h = 0
      BY <3>3, <3>4
    <3>6. RejectionsIn(none) = 0 /\ RunsDroppedIn(none) = 0
      BY <1>q DEF RejectionsIn, RunsDroppedIn
    <3>7. client'[c].rejections = m + x /\ client'[c].droppedRuns = e + dx
      BY <1>a, <1>k, <2>2, <3>1, <3>2
    <3>8. QED
      BY <1>d, <1>v, <3>1, <3>5, <3>6, <3>7 DEF RejectionsOK
  <2>3. QED
    BY <2>1, <2>2
<1>6. RequestsOK(c)'
  <2>1. client[c].ending = "none" /\ client'[c].ending = "none"
    BY <1>t, <1>a, <1>k DEF RequestsOK
  <2>2. CASE ~isLinkUp[c]
    BY <2>1, <2>2 DEF RequestsOK
  <2>3. CASE isLinkUp[c]
    <3>1. PICK f, x, m, n : /\ f = (IF d.kind = "Request" THEN 1 ELSE 0) /\ x = client[c].requests
                            /\ m = RequestCount(q) /\ n = sent[c].requests
      OBVIOUS
    <3>2. f \in Nat /\ x \in Nat /\ m \in Nat /\ n \in Nat
      BY <1>t, <1>q, <3>1, CountsAppend DEF Types, ClientTypes
    <3>3. n <= x + m + f
      BY <1>t, <1>r, <1>v, <2>3, <3>1 DEF RequestsOK
    <3>4. n <= (x + f) + m + 0
      BY <3>2, <3>3
    <3>5. /\ client'[c].requests = x + f /\ RequestCount(link'[c].queue) = m /\ sent'[c].requests = n
          /\ writer'[c].taken.kind # "Request"
      BY <1>a, <1>d, <1>k, <1>q, <1>v, <2>3, <3>1
    <3>6. QED
      BY <2>1, <3>4, <3>5 DEF RequestsOK
  <2>4. QED
    BY <2>2, <2>3
<1>7. QED
  BY <1>1, <1>2, <1>3, <1>4, <1>5, <1>6 DEF ClientOK

\* The delivery that is written keeps the invariant.
LEMMA WriteDeliveryInv ==
  ASSUME DeliveryInv, NEW c \in Clients, WriteDelivery(c)
  PROVE  DeliveryInv'
<1>0. SessionOK /\ Types(c) /\ Attached(c)
  BY DEF DeliveryInv, ClientOK
<1>d. /\ UNCHANGED dispatcherVars /\ UNCHANGED <<inbox, link, reader, isLinkLost, isLinkUp>>
      /\ writer[c].pc = "write"
  BY DEF WriteDelivery
<1>v. PICK d, isUpdate, next :
        /\ d = writer[c].taken /\ isUpdate = (IsFrameDelivery(d) /\ d.view # writer[c].lastView)
        /\ next = [writer[c] EXCEPT !.pc = "top", !.taken = Plain("None"),
                                    !.lastView = IF isUpdate THEN d.view ELSE @,
                                    !.lastSent = IF isUpdate THEN @ + 1 ELSE @]
  OBVIOUS
<1>1. /\ next.pc = "top" /\ WriterTypes(next) /\ next.taken = Plain("None")
      /\ next.lastView = IF IsFrameDelivery(d) THEN d.view ELSE writer[c].lastView
  <2>1. Plain("None") \in Messages
    BY PlainMessages DEF PlainKinds
  <2>2. CASE isUpdate
    <3>1. next = [writer[c] EXCEPT !.pc = "top", !.taken = Plain("None"),
                                   !.lastView = d.view, !.lastSent = @ + 1]
      BY <1>v, <2>2
    <3>2. IsFrameDelivery(d)
      BY <1>v, <2>2
    <3>3. QED
      BY <1>0, <2>1, <3>1, <3>2 DEF Types, WriterTypes, WriterFields, WriterPcs
  <2>3. CASE ~isUpdate
    BY <1>0, <1>v, <2>1, <2>3 DEF Types, WriterTypes, WriterFields, WriterPcs
  <2>4. QED
    BY <2>2, <2>3
<1>w. \/ /\ client' = IF isLinkUp[c] THEN [client EXCEPT ![c] = AfterDelivery(client[c], d)] ELSE client
         /\ writer' = [writer EXCEPT ![c] = next]
      \/ /\ writer' = [writer EXCEPT ![c].pc = "closing", ![c].shouldCloseReader = TRUE]
         /\ client' = client
  BY <1>v DEF WriteDelivery, Write
<1>2. /\ DOMAIN writer' = Clients /\ DOMAIN client' = Clients
      /\ \A r \in Clients : r # c => writer'[r] = writer[r] /\ client'[r] = client[r]
  BY <1>0, <1>w DEF SessionOK
<1>3. ClientOK(c)'
  <2>0. LinkTypes(link[c]) /\ link[c].state # "none"
    BY <1>0, <1>d DEF Types, Attached
  <2>1. CASE /\ client' = IF isLinkUp[c] THEN [client EXCEPT ![c] = AfterDelivery(client[c], d)] ELSE client
             /\ writer' = [writer EXCEPT ![c] = next]
    <3>1. /\ writer'[c] = next
          /\ client'[c] = IF isLinkUp[c] THEN AfterDelivery(client[c], d) ELSE client[c]
      BY <1>0, <2>1 DEF SessionOK
    <3>2. QED
      BY <1>d, <1>v, <1>1, <2>0, <3>1, TakenWritten
  <2>2. CASE /\ writer' = [writer EXCEPT ![c].pc = "closing", ![c].shouldCloseReader = TRUE]
             /\ client' = client
    <3>1. WriterTypes(writer'[c]) /\ writer'[c].pc = "closing"
      BY <1>0, <2>2 DEF SessionOK, Types, WriterTypes, WriterFields, WriterPcs
    <3>2. QuietWriter(c)
      BY <1>d, <3>1 DEF QuietWriter, Reads
    <3>3. QED
      BY <1>0, <1>d, <2>0, <2>2, <3>1, <3>2, QuietStep
  <2>3. QED
    BY <1>w, <2>1, <2>2
<1>4. QED
  BY <1>0, <1>d, <1>2, <1>3, ConnectionStep DEF SessionOK

\* The wake for host writes that is read keeps the invariant.
LEMMA ClearQueuedWakeInv ==
  ASSUME DeliveryInv, NEW c \in Clients, ClearQueuedWake(c)
  PROVE  DeliveryInv'
<1>0. SessionOK /\ Types(c) /\ Attached(c)
  BY DEF DeliveryInv, ClientOK
<1>d. /\ UNCHANGED dispatcherVars /\ UNCHANGED <<inbox, client, reader, isLinkLost, isLinkUp>>
      /\ writer[c].pc = "woken"
  BY DEF ClearQueuedWake
<1>l. /\ LinkTypes(link'[c]) /\ link'[c].queue = link[c].queue /\ link'[c].held = link[c].held
      /\ link'[c].droppedRuns = link[c].droppedRuns /\ link'[c].state = link[c].state
      /\ link'[c].isReceiverClosed = link[c].isReceiverClosed
      /\ link'[c].isFrameOwed = link[c].isFrameOwed
  BY <1>0 DEF ClearQueuedWake, SessionOK, Types, LinkTypes, LinkFields
<1>w. /\ WriterTypes(writer'[c]) /\ writer'[c].pc = "top" /\ writer'[c].taken = Plain("None")
      /\ writer'[c].lastView = writer[c].lastView
  <2>1. Plain("None") \in Messages
    BY PlainMessages DEF PlainKinds
  <2>2. QED
    BY <1>0, <2>1 DEF ClearQueuedWake, SessionOK, Types, WriterTypes, WriterFields, WriterPcs
<1>1. writer[c].taken.kind \in {"None", "HostWrite"}
  BY <1>0, <1>d DEF Attached, Reads
<1>2. ~IsFrameDelivery(writer[c].taken) /\ AfterDelivery(client[c], writer[c].taken) = client[c]
  BY <1>1 DEF IsFrameDelivery, AfterDelivery
<1>3. ClientOK(c)'
  BY <1>d, <1>l, <1>w, <1>2, TakenWritten
<1>4. /\ DOMAIN link' = Clients /\ DOMAIN writer' = Clients
      /\ \A r \in Clients : r # c => link'[r] = link[r] /\ writer'[r] = writer[r]
  BY <1>0 DEF ClearQueuedWake, SessionOK
<1>5. QED
  BY <1>0, <1>d, <1>l, <1>3, <1>4, ConnectionStep DEF SessionOK

\* A pass of the dispatcher that leaves a client's queue as it is.
LEMMA KeptQueue ==
  ASSUME DeliveryInv, NEW c \in Clients, LinkTypes(link'[c]),
         link'[c].queue = link[c].queue, link'[c].held = link[c].held,
         link'[c].droppedRuns = link[c].droppedRuns,
         link'[c].isReceiverClosed = link[c].isReceiverClosed,
         link'[c].state = "Live" => link[c].state = "Live",
         link[c].state = "gone" => link'[c].state = "gone",
         link'[c].state = "none" <=> link[c].state = "none",
         link[c].state = "none" => link'[c] = link[c],
         pace'[c] = pace[c], OwedOK(c)',
         UNCHANGED <<view, revision, notice, writer, reader, isLinkUp, client, sent>>
  PROVE  ClientOK(c)'
<1>0. ClientOK(c)
  BY DEF DeliveryInv
<1>r. Reads(c)' <=> Reads(c)
  BY DEF Reads
<1>1. Types(c)' /\ Attached(c)' /\ ReadOK(c)'
  BY <1>0, <1>r DEF ClientOK, Types, Attached, ReadOK
<1>2. ViewsOK(c)' /\ EventsOK(c)'
  BY <1>0, <1>r DEF ClientOK, ViewsOK, EventsOK
<1>3. RejectionsOK(c)' /\ RequestsOK(c)'
  BY <1>0, <1>r DEF ClientOK, RejectionsOK, RequestsOK
<1>4. QED
  BY <1>1, <1>2, <1>3 DEF ClientOK

\* A snapshot is a message; it counts for the rejections that were held.
LEMMA SnapshotMessages ==
  ASSUME NEW v \in Numbers, NEW r \in Numbers, NEW b, LinkTypes(b), NEW x, x = Snapshot(v, b, r)
  PROVE  /\ x \in Messages /\ x.kind = "Snapshot" /\ x.view = v /\ x.event = r
         /\ IsFrameDelivery(x) /\ IsEventful(x)
         /\ RejectionsIn(x) = RepeatCount(b.held) /\ RunsDroppedIn(x) = b.droppedRuns
<1>1. /\ x.kind = "Snapshot" /\ x.view = v /\ x.event = r /\ x.held = b.held
      /\ x.droppedRuns = b.droppedRuns
  BY DEF Snapshot
<1>2. x \in Messages
  BY DEF Snapshot, Messages, LinkTypes
<1>3. QED
  BY <1>1, <1>2 DEF IsFrameDelivery, IsEventful, RejectionsIn, RunsDroppedIn

\* A snapshot that is queued for a paused client makes it live again: it takes over
\* the held rejections, and the way ends with the session's view and event
\* (`try_resync`).
LEMMA SnapshotQueued ==
  ASSUME DeliveryInv, NEW c \in Clients, NEW x, x = Snapshot(view, link[c], revision),
         link[c].state = "Desynced", ~IsFull(link[c]), ~link[c].isFrameOwed,
         link'[c] = [Queued(link[c], x) EXCEPT !.state = "Live", !.dropped = 0,
                                               !.held = <<>>, !.droppedRuns = 0],
         UNCHANGED <<view, revision, notice, writer, reader, isLinkUp, client, sent>>
  PROVE  ClientOK(c)'
<1>0. SessionOK /\ ClientOK(c)
  BY DEF DeliveryInv
<1>t. /\ Types(c) /\ Attached(c) /\ ViewsOK(c) /\ EventsOK(c) /\ OwedOK(c) /\ RejectionsOK(c)
      /\ RequestsOK(c) /\ ReadOK(c) /\ LinkTypes(link[c])
  BY <1>0 DEF ClientOK, Types
<1>v. PICK d, q, p, k, s, l : /\ d = writer[c].taken /\ q = link[c].queue /\ p = Append(q, x)
                              /\ k = client[c].shown /\ s = client[c].seen /\ l = writer[c].lastView
  OBVIOUS
<1>q. /\ d \in Messages /\ q \in Seq(Messages) /\ k \in Nat /\ s \in Nat
      /\ view \in Nat /\ revision \in Nat
  BY <1>0, <1>t, <1>v DEF Types, LinkTypes, WriterTypes, ClientTypes, SessionOK
<1>x. /\ x \in Messages /\ x.kind = "Snapshot" /\ x.view = view /\ x.event = revision
      /\ IsFrameDelivery(x) /\ IsEventful(x)
      /\ RejectionsIn(x) = RepeatCount(link[c].held) /\ RunsDroppedIn(x) = link[c].droppedRuns
  <2>1. view \in Numbers /\ revision \in Numbers
    BY <1>0, BoundsAssumption DEF SessionOK, Numbers
  <2>2. QED
    BY <1>t, <2>1, SnapshotMessages
<1>l. /\ DOMAIN link'[c] = LinkFields /\ link'[c].queue = p /\ link'[c].held = <<>>
      /\ link'[c].droppedRuns = 0 /\ link'[c].state = "Live" /\ link'[c].dropped = 0
      /\ link'[c].isReceiverClosed = link[c].isReceiverClosed /\ ~link'[c].isFrameOwed
      /\ link'[c].report = link[c].report
  BY <1>t, <1>v DEF Queued, LinkTypes, LinkFields
<1>r. Reads(c)' <=> Reads(c)
  BY DEF Reads
<1>1. Types(c)'
  <2>1. p \in Seq(Messages) /\ Len(p) = Len(q) + 1 /\ Len(q) \in Nat
    BY <1>q, <1>x, <1>v
  <2>0. Len(p) <= Capacity
    BY <1>v, <2>1, CapacityAssumption DEF IsFull
  <2>a. <<>> \in Seq(Runs) /\ Len(<<>>) <= MaxHeldRejections
    BY HeldAssumption
  <2>b. link[c].report \in Nat
    BY <1>t DEF LinkTypes
  <2>2. LinkTypes(link'[c])
    BY <1>l, <2>0, <2>1, <2>a, <2>b DEF LinkTypes
  <2>3. QED
    BY <1>t, <2>2 DEF Types
<1>2. Attached(c)' /\ ReadOK(c)' /\ OwedOK(c)'
  BY <1>t, <1>l, <1>r DEF Attached, ReadOK, OwedOK
<1>3. NothingNewer(view, revision, d, q) /\ ViewsInOrder(d, q) =>
        /\ NothingNewer(view, revision, d, p) /\ ViewsInOrder(d, p)
        /\ ReachesView(view, l, d, p)
        /\ k <= view /\ ViewsAreNewer(k, d, q) => ViewsAreNewer(k, d, p)
  <2>1. revision <= revision
    BY <1>q
  <2>2. QED
    BY <1>q, <1>x, <1>v, <2>1, AppendViews
<1>4. s <= revision /\ NothingNewer(view, revision, d, q) /\ EventsInOrder(s, d, q)
        => EventsInOrder(s, d, p) /\ ReachesEvent(revision, s, d, p)
  BY <1>q, <1>x, <1>v, AppendEvent
<1>5. ViewsOK(c)'
  BY <1>t, <1>r, <1>v, <1>l, <1>3 DEF ViewsOK
<1>6. EventsOK(c)'
  BY <1>t, <1>r, <1>v, <1>l, <1>3, <1>4 DEF EventsOK, ViewsOK
<1>n. /\ RejectionCount(p) = RejectionCount(q) + RepeatCount(link[c].held)
      /\ DroppedCount(p) = DroppedCount(q) + link[c].droppedRuns
      /\ RequestCount(p) = RequestCount(q)
      /\ RejectionCount(q) \in Nat /\ DroppedCount(q) \in Nat /\ RequestCount(q) \in Nat
      /\ RepeatCount(link[c].held) \in Nat
  <2>1. RepeatCount(link[c].held) \in Nat
    BY <1>t, RepeatsAreNumbers DEF LinkTypes
  <2>2. /\ RejectionCount(p) = RejectionCount(q) + RejectionsIn(x)
        /\ DroppedCount(p) = DroppedCount(q) + RunsDroppedIn(x)
        /\ RequestCount(p) = RequestCount(q) + (IF x.kind = "Request" THEN 1 ELSE 0)
        /\ RejectionCount(q) \in Nat /\ DroppedCount(q) \in Nat /\ RequestCount(q) \in Nat
    BY <1>q, <1>x, <1>v, CountsAppend
  <2>3. QED
    BY <1>x, <2>1, <2>2
<1>7. RejectionsOK(c)'
  <2>1. PICK n, m, y, dy, h, hd :
          /\ n = sent[c].rejections - client[c].rejections - RejectionsIn(d)
          /\ m = client[c].droppedRuns + RunsDroppedIn(d)
          /\ y = RejectionCount(q) /\ dy = DroppedCount(q)
          /\ h = RepeatCount(link[c].held) /\ hd = link[c].droppedRuns
    OBVIOUS
  <2>2. /\ n \in Int /\ m \in Nat /\ y \in Nat /\ dy \in Nat /\ h \in Nat /\ hd \in Nat
    <3>1. /\ sent[c].rejections \in Nat /\ client[c].rejections \in Nat
          /\ client[c].droppedRuns \in Nat /\ link[c].droppedRuns \in Nat
      BY <1>t DEF Types, LinkTypes, ClientTypes
    <3>2. RejectionsIn(d) \in Nat /\ RunsDroppedIn(d) \in Nat
      BY <1>q, MessageCounts
    <3>3. QED
      BY <1>n, <2>1, <3>1, <3>2
  <2>4. RejectionCount(p) = y + h /\ DroppedCount(p) = dy + hd
    BY <1>n, <2>1
  <2>5. RepeatCount(link'[c].held) = 0
    BY <1>l, CountsEmpty
  <2>6. Reads(c) /\ isLinkUp[c] => n - y - h >= m + dy + hd /\ (m + dy + hd = 0 => n - y - h = 0)
    BY <1>t, <1>v, <2>1 DEF RejectionsOK
  <2>7. Reads(c) /\ isLinkUp[c] =>
          /\ n - (y + h) - 0 >= m + (dy + hd) + 0
          /\ m + (dy + hd) + 0 = 0 => n - (y + h) - 0 = 0
    BY <2>2, <2>6
  <2>8. /\ RejectionCount(link'[c].queue) = y + h /\ DroppedCount(link'[c].queue) = dy + hd
        /\ link'[c].droppedRuns = 0
        /\ n = sent'[c].rejections - client'[c].rejections - RejectionsIn(writer'[c].taken)
        /\ m = client'[c].droppedRuns + RunsDroppedIn(writer'[c].taken)
    BY <1>l, <1>v, <2>1, <2>4
  <2>9. QED
    BY <1>r, <2>5, <2>7, <2>8 DEF RejectionsOK
<1>8. RequestsOK(c)'
  <2>1. RequestCount(link'[c].queue) = RequestCount(link[c].queue)
    <3>1. RequestCount(p) = RequestCount(q)
      BY <1>n
    <3>2. QED
      BY <1>l, <1>v, <3>1
  <2>2. /\ writer'[c] = writer[c] /\ client'[c] = client[c] /\ sent'[c] = sent[c]
        /\ isLinkUp'[c] = isLinkUp[c] /\ notice' = notice
    OBVIOUS
  <2>3. /\ writer[c].pc \in {"farewell", "goodbye"} => notice # "none"
        /\ client[c].ending # "none" => notice # "none"
    BY <1>t DEF RequestsOK
  <2>4. QED
    BY <1>t, <1>r, <2>1, <2>2, <2>3 DEF RequestsOK
<1>9. QED
  BY <1>1, <1>2, <1>5, <1>6, <1>7, <1>8 DEF ClientOK

\* The resync of the paused clients keeps the invariant (`resync_lagged`).
LEMMA ResyncLaggedInv ==
  ASSUME DeliveryInv, ResyncLagged
  PROVE  DeliveryInv'
<1>0. SessionOK /\ \A r \in Clients : ClientOK(r)
  BY DEF DeliveryInv
<1>d. /\ dispatcher'.pc = "push"
      /\ UNCHANGED <<view, revision, inputCount, inbox, notice, writer, reader, isLinkLost, isLinkUp,
                     client, sent>>
  BY <1>0 DEF ResyncLagged, SessionOK, sessionVars, threadVars
<1>l. /\ DOMAIN link' = Clients
      /\ \A r \in Clients :
           link'[r] = IF link[r].state = "Desynced" /\ ~link[r].isFrameOwed
                      THEN TryResync(link[r], view, revision) ELSE link[r]
  BY DEF ResyncLagged
<1>p. \A r \in Clients :
        pace'[r] = IF link[r].state = "Desynced" /\ ~link[r].isFrameOwed /\ link'[r].state = "Live"
                   THEN RecordFrameSent ELSE pace[r]
  BY <1>l DEF ResyncLagged
<1>1. ASSUME NEW r \in Clients PROVE ClientOK(r)' /\ (link[r].state # "none" => link'[r].state # "none")
  <2>t. LinkTypes(link[r]) /\ OwedOK(r) /\ Attached(r) /\ Capacity \in Nat \ {0}
    BY <1>0, CapacityAssumption DEF ClientOK, Types
  <2>1. CASE ~(link[r].state = "Desynced" /\ ~link[r].isFrameOwed)
    <3>1. link'[r] = link[r] /\ pace'[r] = pace[r]
      BY <1>l, <1>p, <2>1
    <3>2. OwedOK(r)'
      BY <1>d, <2>t, <2>1, <3>1 DEF OwedOK, Reads
    <3>3. QED
      BY <1>d, <2>t, <3>1, <3>2, KeptQueue
  <2>2. CASE link[r].state = "Desynced" /\ ~link[r].isFrameOwed /\ link[r].isReceiverClosed
    <3>1. link'[r] = [link[r] EXCEPT !.state = "gone", !.isWaiting = FALSE]
      BY <1>l, <2>2 DEF TryResync, TrySend, Unsubscribed, IsSubscribed
    <3>2. /\ LinkTypes(link'[r]) /\ link'[r].queue = link[r].queue /\ link'[r].held = link[r].held
          /\ link'[r].droppedRuns = link[r].droppedRuns /\ link'[r].state = "gone"
          /\ link'[r].isReceiverClosed = link[r].isReceiverClosed /\ pace'[r] = pace[r]
      BY <1>p, <2>t, <3>1 DEF LinkTypes, LinkFields
    <3>3. OwedOK(r)'
      BY <1>d, <2>t, <2>2 DEF OwedOK, Reads, Attached
    <3>4. QED
      BY <1>d, <2>2, <3>2, <3>3, KeptQueue
  <2>3. CASE /\ link[r].state = "Desynced" /\ ~link[r].isFrameOwed /\ ~link[r].isReceiverClosed
             /\ IsFull(link[r])
    <3>1. link'[r] = [link[r] EXCEPT !.isFrameOwed = TRUE]
      BY <1>l, <2>3 DEF TryResync, TrySend
    <3>2. /\ LinkTypes(link'[r]) /\ link'[r].queue = link[r].queue /\ link'[r].held = link[r].held
          /\ link'[r].droppedRuns = link[r].droppedRuns /\ link'[r].state = "Desynced"
          /\ link'[r].isReceiverClosed = link[r].isReceiverClosed /\ link'[r].isFrameOwed
          /\ pace'[r] = pace[r]
      BY <1>p, <2>t, <2>3, <3>1 DEF LinkTypes, LinkFields
    <3>3. link[r].queue # <<>>
      BY <2>t, <2>3 DEF IsFull
    <3>4. OwedOK(r)'
      BY <3>2, <3>3 DEF OwedOK
    <3>5. QED
      BY <1>d, <2>3, <3>2, <3>4, KeptQueue
  <2>4. CASE /\ link[r].state = "Desynced" /\ ~link[r].isFrameOwed /\ ~link[r].isReceiverClosed
             /\ ~IsFull(link[r])
    <3>1. PICK x : x = Snapshot(view, link[r], revision)
      OBVIOUS
    <3>2. link'[r] = [Queued(link[r], x) EXCEPT !.state = "Live", !.dropped = 0,
                                                !.held = <<>>, !.droppedRuns = 0]
      BY <1>l, <2>4, <3>1 DEF TryResync
    <3>3. link'[r].state = "Live"
      BY <2>t, <3>2 DEF LinkTypes, LinkFields, Queued
    <3>4. ClientOK(r)'
      BY <1>d, <2>4, <3>1, <3>2, SnapshotQueued
    <3>5. QED
      BY <3>3, <3>4
  <2>5. QED
    BY <2>1, <2>2, <2>3, <2>4
<1>2. SessionOK'
  <2>1. pace' \in [Clients -> [hasViewChange : BOOLEAN, isOpen : BOOLEAN]]
    BY <1>0 DEF ResyncLagged, SessionOK, RecordFrameSent
  <2>2. /\ dispatcher' \in [pc : DispatcherPcs, asked : Endings \cup {"none"},
                            hostClient : SUBSET Clients]
        /\ dispatcher'.pc # "announce" /\ dispatcher'.hostClient = dispatcher.hostClient
    BY <1>0 DEF ResyncLagged, SessionOK, DispatcherPcs
  <2>3. QED
    BY <1>0, <1>d, <1>l, <1>1, <2>1, <2>2 DEF SessionOK
<1>3. QED
  BY <1>1, <1>2 DEF DeliveryInv

\* A frame is a message that counts for nothing.
LEMMA FrameMessages ==
  ASSUME NEW v \in Numbers, NEW x, x = Frame(v)
  PROVE  /\ x \in Messages /\ x.kind = "Frame" /\ x.view = v
         /\ IsFrameDelivery(x) /\ ~IsEventful(x)
         /\ RejectionsIn(x) = 0 /\ RunsDroppedIn(x) = 0
BY DEF Frame, Messages, IsFrameDelivery, IsEventful, RejectionsIn, RunsDroppedIn

IsFrameAdded(q, x, p) ==
  \/ p = Append(q, x)
  \/ q # <<>> /\ q[Len(q)].kind = "Frame" /\ p = [q EXCEPT ![Len(q)] = x]

\* A frame of the present goes on the way, at its end or in the place of the
\* frame there.
LEMMA FrameOnWay ==
  ASSUME NEW d \in Messages, NEW q \in Seq(Messages), NEW v \in Numbers, NEW r \in Nat,
         NEW x, x = Frame(v), NEW p, IsFrameAdded(q, x, p),
         NothingNewer(v, r, d, q), ViewsInOrder(d, q)
  PROVE  /\ NothingNewer(v, r, d, p) /\ ViewsInOrder(d, p)
         /\ \A l : ReachesView(v, l, d, p)
         /\ \A k \in Nat : k <= v /\ ViewsAreNewer(k, d, q) => ViewsAreNewer(k, d, p)
         /\ \A s \in Nat : /\ EventsInOrder(s, d, q) => EventsInOrder(s, d, p)
                           /\ ReachesEvent(r, s, d, q) => ReachesEvent(r, s, d, p)
<1> SUFFICES ASSUME NEW k \in Nat, NEW s \in Nat, NEW l
             PROVE  /\ NothingNewer(v, r, d, p) /\ ViewsInOrder(d, p) /\ ReachesView(v, l, d, p)
                    /\ k <= v /\ ViewsAreNewer(k, d, q) => ViewsAreNewer(k, d, p)
                    /\ EventsInOrder(s, d, q) => EventsInOrder(s, d, p)
                    /\ ReachesEvent(r, s, d, q) => ReachesEvent(r, s, d, p)
  OBVIOUS
<1>x. /\ x \in Messages /\ x.kind = "Frame" /\ x.view = v /\ v \in Nat
      /\ IsFrameDelivery(x) /\ ~IsEventful(x)
  BY FrameMessages, BoundsAssumption DEF Numbers
<1>1. CASE p = Append(q, x)
  BY <1>x, <1>1, AppendViews, AppendQuiet
<1>2. CASE q # <<>> /\ q[Len(q)].kind = "Frame" /\ p = [q EXCEPT ![Len(q)] = x]
  <2>1. PICK n : n = Len(q)
    OBVIOUS
  <2>2. /\ n \in Nat \ {0} /\ p \in Seq(Messages) /\ Len(p) = n /\ p[n] = x
        /\ \A i \in 1 .. n - 1 : p[i] = q[i]
    BY <1>x, <1>2, <2>1
  <2>3. q[n].kind = "Frame"
    BY <1>2, <2>1
  <2>4. QED
    BY <1>x, <2>1, <2>2, <2>3, ReplaceFrame, Zenon
<1>3. QED
  BY <1>1, <1>2 DEF IsFrameAdded

\* A frame at the end of a queue, new or in the place of another, changes no count.
LEMMA FrameCounts ==
  ASSUME NEW q \in Seq(Messages), NEW v \in Numbers, NEW x, x = Frame(v), NEW p,
         IsFrameAdded(q, x, p)
  PROVE  /\ RejectionCount(p) = RejectionCount(q) /\ DroppedCount(p) = DroppedCount(q)
         /\ RequestCount(p) = RequestCount(q) /\ p \in Seq(Messages)
<1>x. /\ x \in Messages /\ x.kind = "Frame" /\ RejectionsIn(x) = 0 /\ RunsDroppedIn(x) = 0
  BY FrameMessages
<1>1. CASE p = Append(q, x)
  <2>1. /\ RejectionCount(p) = RejectionCount(q) + RejectionsIn(x)
        /\ DroppedCount(p) = DroppedCount(q) + RunsDroppedIn(x)
        /\ RequestCount(p) = RequestCount(q) + (IF x.kind = "Request" THEN 1 ELSE 0)
        /\ RejectionCount(q) \in Nat /\ DroppedCount(q) \in Nat /\ RequestCount(q) \in Nat
    BY <1>x, <1>1, CountsAppend
  <2>2. QED
    BY <1>x, <1>1, <2>1
<1>2. CASE q # <<>> /\ q[Len(q)].kind = "Frame" /\ p = [q EXCEPT ![Len(q)] = x]
  <2>1. /\ p \in Seq(Messages) /\ Len(p) = Len(q)
        /\ \A i \in 1 .. Len(q) : p[i] = q[i] \/ (p[i].kind = "Frame" /\ q[i].kind = "Frame")
    BY <1>x, <1>2
  <2>2. QED
    BY <2>1, CountsFrame
<1>3. QED
  BY <1>1, <1>2 DEF IsFrameAdded

\* A frame that is queued keeps a client's part of the invariant, and the way ends
\* with the session's view (`try_send_frame`).
LEMMA FrameQueued ==
  ASSUME DeliveryInv, NEW c \in Clients, NEW x, x = Frame(view), NEW p,
         IsFrameAdded(link[c].queue, x, p),
         link[c].state = "Live", ~link[c].isFrameOwed, LinkTypes(link'[c]), link'[c].queue = p,
         link'[c].held = link[c].held, link'[c].droppedRuns = link[c].droppedRuns,
         link'[c].state = "Live", link'[c].isReceiverClosed = link[c].isReceiverClosed,
         ~link'[c].isFrameOwed,
         UNCHANGED <<view, revision, notice, writer, reader, isLinkUp, client, sent>>
  PROVE  ClientOK(c)'
<1>0. SessionOK /\ ClientOK(c)
  BY DEF DeliveryInv
<1>t. /\ Types(c) /\ Attached(c) /\ ViewsOK(c) /\ EventsOK(c) /\ OwedOK(c) /\ RejectionsOK(c)
      /\ RequestsOK(c) /\ ReadOK(c)
  BY <1>0 DEF ClientOK
<1>v. PICK d, q, k, s, l : /\ d = writer[c].taken /\ q = link[c].queue
                           /\ k = client[c].shown /\ s = client[c].seen /\ l = writer[c].lastView
  OBVIOUS
<1>q. /\ d \in Messages /\ q \in Seq(Messages) /\ k \in Nat /\ s \in Nat
      /\ view \in Numbers /\ revision \in Nat
  BY <1>0, <1>t, <1>v, BoundsAssumption
  DEF Types, LinkTypes, WriterTypes, ClientTypes, SessionOK, Numbers
<1>r. Reads(c)' <=> Reads(c)
  BY DEF Reads
<1>p. IsFrameAdded(q, x, p)
  BY <1>v
<1>1. Types(c)'
  BY <1>t DEF Types
<1>2. Attached(c)' /\ ReadOK(c)' /\ OwedOK(c)'
  BY <1>t, <1>r DEF Attached, ReadOK, OwedOK
<1>3. NothingNewer(view, revision, d, q) /\ ViewsInOrder(d, q) =>
        /\ NothingNewer(view, revision, d, p) /\ ViewsInOrder(d, p) /\ ReachesView(view, l, d, p)
        /\ k <= view /\ ViewsAreNewer(k, d, q) => ViewsAreNewer(k, d, p)
        /\ EventsInOrder(s, d, q) => EventsInOrder(s, d, p)
        /\ ReachesEvent(revision, s, d, q) => ReachesEvent(revision, s, d, p)
  <2> SUFFICES ASSUME NothingNewer(view, revision, d, q), ViewsInOrder(d, q)
               PROVE  /\ NothingNewer(view, revision, d, p) /\ ViewsInOrder(d, p)
                      /\ ReachesView(view, l, d, p)
                      /\ k <= view /\ ViewsAreNewer(k, d, q) => ViewsAreNewer(k, d, p)
                      /\ EventsInOrder(s, d, q) => EventsInOrder(s, d, p)
                      /\ ReachesEvent(revision, s, d, q) => ReachesEvent(revision, s, d, p)
    OBVIOUS
  <2>1. PICK v, r : v = view /\ r = revision
    OBVIOUS
  <2>2. /\ v \in Numbers /\ r \in Nat /\ x = Frame(v)
        /\ NothingNewer(v, r, d, q) /\ ViewsInOrder(d, q)
    BY <1>q, <2>1
  <2>3. /\ NothingNewer(v, r, d, p) /\ ViewsInOrder(d, p)
        /\ \A m : ReachesView(v, m, d, p)
        /\ \A m \in Nat : m <= v /\ ViewsAreNewer(m, d, q) => ViewsAreNewer(m, d, p)
        /\ \A m \in Nat : /\ EventsInOrder(m, d, q) => EventsInOrder(m, d, p)
                          /\ ReachesEvent(r, m, d, q) => ReachesEvent(r, m, d, p)
    BY <1>q, <1>p, <2>2, FrameOnWay
  <2>4. QED
    BY <1>q, <2>1, <2>3
<1>4. ViewsOK(c)'
  BY <1>t, <1>r, <1>v, <1>3 DEF ViewsOK
<1>5. EventsOK(c)'
  BY <1>t, <1>r, <1>v, <1>3 DEF EventsOK, ViewsOK
<1>n. /\ RejectionCount(link'[c].queue) = RejectionCount(link[c].queue)
      /\ DroppedCount(link'[c].queue) = DroppedCount(link[c].queue)
      /\ RequestCount(link'[c].queue) = RequestCount(link[c].queue)
  BY <1>q, <1>p, <1>v, FrameCounts
<1>6. RejectionsOK(c)' /\ RequestsOK(c)'
  BY <1>t, <1>r, <1>n DEF RejectionsOK, RequestsOK
<1>7. QED
  BY <1>1, <1>2, <1>4, <1>5, <1>6 DEF ClientOK

\* The frames that are pushed keep the invariant (`push_frames`).
LEMMA PushFramesInv ==
  ASSUME DeliveryInv, PushFrames
  PROVE  DeliveryInv'
<1>0. SessionOK /\ \A r \in Clients : ClientOK(r)
  BY DEF DeliveryInv
<1>d. /\ dispatcher.pc = "push" /\ dispatcher'.pc \in {"wait", "announce"}
      /\ UNCHANGED <<view, revision, inputCount, inbox, notice, writer, reader, isLinkLost, isLinkUp,
                     client, sent>>
  BY <1>0 DEF PushFrames, SessionOK, sessionVars, threadVars
<1>l. /\ DOMAIN link' = Clients
      /\ \A r \in Clients : link'[r] = IF IsFrameDue(r) THEN TrySendFrame(link[r], view) ELSE link[r]
  BY DEF PushFrames
<1>p. \A r \in Clients :
        pace'[r] = IF IsFrameDue(r) /\ CanTakeFrame(link'[r]) THEN RecordFrameSent ELSE pace[r]
  BY <1>l DEF PushFrames
<1>1. ASSUME NEW r \in Clients PROVE ClientOK(r)' /\ (link[r].state # "none" => link'[r].state # "none")
  <2>t. LinkTypes(link[r]) /\ OwedOK(r) /\ Attached(r) /\ Capacity \in Nat \ {0} /\ view \in Numbers
    BY <1>0, CapacityAssumption, BoundsAssumption DEF ClientOK, Types, SessionOK, Numbers
  <2>v. PICK n, q, x : n = Len(link[r].queue) /\ q = link[r].queue /\ x = Frame(view)
    OBVIOUS
  <2>x. x \in Messages /\ q \in Seq(Messages) /\ n \in Nat /\ n <= Capacity
    BY <2>t, <2>v, FrameMessages DEF LinkTypes
  <2>1. CASE ~IsFrameDue(r)
    <3>1. link'[r] = link[r] /\ pace'[r] = pace[r]
      BY <1>l, <1>p, <2>1
    <3>2. OwedOK(r)'
      BY <1>d, <2>t, <3>1 DEF OwedOK, Reads
    <3>3. QED
      BY <1>d, <2>t, <3>1, <3>2, KeptQueue
  <2>2. CASE IsFrameDue(r) /\ link[r].isReceiverClosed
    <3>1. link[r].state = "Live"
      BY <2>2 DEF IsFrameDue, CanTakeFrame
    <3>2. link'[r] = [link[r] EXCEPT !.state = "gone", !.isWaiting = FALSE]
      BY <1>l, <2>2, <3>1 DEF TrySendFrame, TrySend, Unsubscribed, IsSubscribed
    <3>3. /\ LinkTypes(link'[r]) /\ link'[r].queue = link[r].queue /\ link'[r].held = link[r].held
          /\ link'[r].droppedRuns = link[r].droppedRuns /\ link'[r].state = "gone"
          /\ link'[r].isReceiverClosed = link[r].isReceiverClosed
      BY <2>t, <3>2 DEF LinkTypes, LinkFields
    <3>4. pace'[r] = pace[r]
      BY <1>p, <3>3 DEF CanTakeFrame
    <3>5. OwedOK(r)'
      BY <1>d, <2>t, <2>2 DEF OwedOK, Reads, Attached
    <3>6. QED
      BY <1>d, <3>1, <3>3, <3>4, <3>5, KeptQueue
  <2>3. CASE IsFrameDue(r) /\ ~link[r].isReceiverClosed /\ n > 0 /\ q[n].kind = "Frame"
    <3>1. link[r].state = "Live" /\ ~link[r].isFrameOwed
      BY <2>3 DEF IsFrameDue, CanTakeFrame
    <3>2. PICK p : p = [q EXCEPT ![n] = x]
      OBVIOUS
    <3>3. p \in Seq(Messages) /\ Len(p) = n
      BY <2>v, <2>x, <2>3, <3>2
    <3>4. link'[r] = [link[r] EXCEPT !.queue = p]
      BY <1>l, <2>v, <2>3, <3>1, <3>2 DEF TrySendFrame
    <3>5. /\ LinkTypes(link'[r]) /\ link'[r].queue = p /\ link'[r].held = link[r].held
          /\ link'[r].droppedRuns = link[r].droppedRuns /\ link'[r].state = "Live"
          /\ link'[r].isReceiverClosed = link[r].isReceiverClosed /\ ~link'[r].isFrameOwed
      BY <2>t, <2>x, <3>1, <3>3, <3>4 DEF LinkTypes, LinkFields
    <3>6. q # <<>>
      BY <2>v, <2>3
    <3>7. IsFrameAdded(link[r].queue, x, p)
      BY <2>v, <2>3, <3>2, <3>6 DEF IsFrameAdded
    <3>8. ClientOK(r)'
      BY <1>d, <2>v, <3>1, <3>5, <3>7, FrameQueued
    <3>9. QED
      BY <3>5, <3>8
  <2>4. CASE IsFrameDue(r) /\ ~link[r].isReceiverClosed /\ ~(n > 0 /\ q[n].kind = "Frame") /\ IsFull(link[r])
    <3>1. link[r].state = "Live"
      BY <2>4 DEF IsFrameDue, CanTakeFrame
    <3>2. link'[r] = [link[r] EXCEPT !.isFrameOwed = TRUE]
      BY <1>l, <2>v, <2>4, <3>1 DEF TrySendFrame, TrySend
    <3>3. /\ LinkTypes(link'[r]) /\ link'[r].queue = link[r].queue /\ link'[r].held = link[r].held
          /\ link'[r].droppedRuns = link[r].droppedRuns /\ link'[r].state = "Live"
          /\ link'[r].isReceiverClosed = link[r].isReceiverClosed /\ link'[r].isFrameOwed
      BY <2>t, <3>1, <3>2 DEF LinkTypes, LinkFields
    <3>4. pace'[r] = pace[r]
      BY <1>p, <3>3 DEF CanTakeFrame
    <3>5. link[r].queue # <<>>
      BY <2>t, <2>4 DEF IsFull
    <3>6. OwedOK(r)'
      BY <3>3, <3>5 DEF OwedOK
    <3>7. QED
      BY <1>d, <3>1, <3>3, <3>4, <3>6, KeptQueue
  <2>5. CASE IsFrameDue(r) /\ ~link[r].isReceiverClosed /\ ~(n > 0 /\ q[n].kind = "Frame") /\ ~IsFull(link[r])
    <3>1. link[r].state = "Live" /\ ~link[r].isFrameOwed
      BY <2>5 DEF IsFrameDue, CanTakeFrame
    <3>2. PICK p : p = Append(q, x)
      OBVIOUS
    <3>3. p \in Seq(Messages) /\ Len(p) <= Capacity
      BY <2>t, <2>v, <2>x, <2>5, <3>2 DEF IsFull
    <3>4. link'[r] = [link[r] EXCEPT !.queue = p, !.isWaiting = FALSE]
      BY <1>l, <2>v, <2>5, <3>1, <3>2 DEF TrySendFrame, TrySend, Queued
    <3>5. /\ LinkTypes(link'[r]) /\ link'[r].queue = p /\ link'[r].held = link[r].held
          /\ link'[r].droppedRuns = link[r].droppedRuns /\ link'[r].state = "Live"
          /\ link'[r].isReceiverClosed = link[r].isReceiverClosed /\ ~link'[r].isFrameOwed
      BY <2>t, <3>1, <3>3, <3>4 DEF LinkTypes, LinkFields
    <3>6. IsFrameAdded(link[r].queue, x, p)
      BY <2>v, <3>2 DEF IsFrameAdded
    <3>7. ClientOK(r)'
      BY <1>d, <2>v, <3>1, <3>5, <3>6, FrameQueued
    <3>8. QED
      BY <3>5, <3>7
  <2>6. QED
    BY <2>1, <2>2, <2>3, <2>4, <2>5
<1>2. SessionOK'
  <2>1. pace' \in [Clients -> [hasViewChange : BOOLEAN, isOpen : BOOLEAN]]
    BY <1>0 DEF PushFrames, SessionOK, RecordFrameSent
  <2>2. /\ dispatcher' \in [pc : DispatcherPcs, asked : Endings \cup {"none"},
                            hostClient : SUBSET Clients]
        /\ dispatcher'.pc = "announce" => dispatcher'.asked # "none"
        /\ dispatcher'.hostClient = dispatcher.hostClient
    BY <1>0 DEF PushFrames, SessionOK, DispatcherPcs
  <2>3. QED
    BY <1>0, <1>d, <1>l, <1>1, <2>1, <2>2 DEF SessionOK
<1>3. QED
  BY <1>1, <1>2 DEF DeliveryInv

-----------------------------------------------------------------------------
(* The theorems *)

\* Every step of the dispatcher keeps the invariant.
LEMMA DispatcherInv ==
  ASSUME DeliveryInv, DispatcherStep
  PROVE  DeliveryInv'
<1>1. CASE WakeForFrame
  BY <1>1, WakeForFrameInv
<1>2. CASE FinishHandling
  BY <1>2, FinishHandlingInv
<1>3. CASE ResyncLagged
  BY <1>3, ResyncLaggedInv
<1>4. CASE PushFrames
  BY <1>4, PushFramesInv
<1>5. CASE Announce
  BY <1>5, AnnounceInv
<1>6. CASE \E e \in inbox : HandleInbox(e)
  BY <1>6, HandleInboxInv
<1>7. CASE \E c \in Clients : SwapHostWake(c) \/ SendHostWake(c) \/ ClearHostWake(c)
  BY <1>7, SwapHostWakeInv, SendHostWakeInv, ClearHostWakeInv
<1>8. QED
  BY <1>1, <1>2, <1>3, <1>4, <1>5, <1>6, <1>7 DEF DispatcherStep

\* Every input of the session keeps the invariant.
LEMMA InputInv ==
  ASSUME DeliveryInv, SessionInput
  PROVE  DeliveryInv'
<1>1. CASE ChangeView \/ PublishEvent \/ CloseLastTab
  BY <1>1, ChangeViewInv, PublishEventInv, CloseLastTabInv
<1>2. CASE \E e \in Endings : AskEnding(e)
  BY <1>2, AskEndingInv
<1>3. ASSUME NEW c \in Clients,
             \/ AcceptAttach(c) \/ SendAnswer(c) \/ SendClientActionRequest(c)
             \/ DetachClient(c)
             \/ \E a \in RejectedActions : RejectCommand(c, a)
             \/ \E t \in Targets : AddHostWrite(c, t)
      PROVE  DeliveryInv'
  BY <1>3, AcceptAttachInv, SendAnswerInv, SendClientActionRequestInv, DetachClientInv,
     RejectCommandInv, AddHostWriteInv
<1>4. QED
  BY <1>1, <1>2, <1>3 DEF SessionInput

\* Every step of a connection's threads keeps the invariant.
LEMMA ConnectionInv ==
  ASSUME DeliveryInv, NEW c \in Clients,
         \/ WriterStep(c) \/ ReaderStep(c) \/ WritePong(c) \/ PaceOpens(c)
         \/ LinkBreaks(c) \/ ReadLeaving(c)
         \/ \E n \in 1 .. writer[c].lastSent + 1 : ReportPainted(c, n)
  PROVE  DeliveryInv'
<1>1. CASE WriteAttached(c) \/ StartStream(c) \/ StartTurn(c) \/ DrainForEnding(c)
  BY <1>1, WriteAttachedInv, StartStreamInv, StartTurnInv, DrainForEndingInv
<1>2. CASE WriteFarewell(c) \/ WriteGoodbye(c) \/ ReceiveReport(c) \/ ReceiveDelivery(c)
  BY <1>2, WriteFarewellInv, WriteGoodbyeInv, ReceiveReportInv, ReceiveDeliveryInv
<1>3. CASE TakeOwedMark(c) \/ ClearQueuedWake(c) \/ WriteDelivery(c)
  BY <1>3, TakeOwedMarkInv, ClearQueuedWakeInv, WriteDeliveryInv
<1>4. CASE DropReceiver(c) \/ EndWriter(c)
  BY <1>4, DropReceiverInv, EndWriterInv
<1>5. CASE ReaderStep(c)
  BY <1>5, ReadFailsInv, HandOverDetachInv DEF ReaderStep
<1>6. CASE WritePong(c) \/ PaceOpens(c) \/ LinkBreaks(c) \/ ReadLeaving(c)
  BY <1>6, WritePongInv, PaceOpensInv, LinkBreaksInv, ReadLeavingInv
<1>7. CASE \E n \in 1 .. writer[c].lastSent + 1 : ReportPainted(c, n)
  BY <1>7, ReportPaintedInv
<1>8. QED
  BY <1>1, <1>2, <1>3, <1>4, <1>5, <1>6, <1>7 DEF WriterStep

\* A step that changes nothing keeps the invariant.
LEMMA StutterInv ==
  ASSUME DeliveryInv, UNCHANGED vars
  PROVE  DeliveryInv'
<1>1. SessionOK'
  BY DEF DeliveryInv, SessionOK, vars, sessionVars, threadVars
<1>2. \A c \in Clients : ClientOK(c)'
  BY Untouched DEF DeliveryInv, vars, sessionVars, threadVars
<1>3. QED
  BY <1>1, <1>2 DEF DeliveryInv

\* Delivery's steps, from the accepted attach to the last frame, keep the
\* inductive invariant (bus.rs, delivery_queue.rs, server.rs, ipc_server.rs).
THEOREM DeliveryInvariant == Spec => []DeliveryInv
<1>1. DeliveryInv /\ [Next]_vars => DeliveryInv'
  <2> SUFFICES ASSUME DeliveryInv, [Next]_vars PROVE DeliveryInv'
    OBVIOUS
  <2>1. CASE DispatcherStep \/ SessionInput \/ EndAwait \/ GiveUpAwait
    BY <2>1, DispatcherInv, InputInv, EndAwaitInv, GiveUpAwaitInv
  <2>2. CASE \E c \in Clients :
               \/ WriterStep(c) \/ ReaderStep(c) \/ WritePong(c) \/ PaceOpens(c)
               \/ LinkBreaks(c) \/ ReadLeaving(c)
               \/ \E n \in 1 .. writer[c].lastSent + 1 : ReportPainted(c, n)
    BY <2>2, ConnectionInv
  <2>3. CASE UNCHANGED vars
    BY <2>3, StutterInv
  <2>4. QED
    BY <2>1, <2>2, <2>3 DEF Next
<1>2. QED
  BY <1>1, InitInv, PTL DEF Spec

\* The way of a client: its first place is what the writing thread took.
LEMMA WayOfClient ==
  ASSUME DeliveryInv, NEW c \in Clients, Reads(c)
  PROVE  /\ Taken(c) \in Messages /\ link[c].queue \in Seq(Messages)
         /\ OnWay(c) \in Seq(Messages) /\ OnWay(c) # <<>> /\ Len(OnWay(c)) = Len(link[c].queue) + 1
         /\ Head(OnWay(c)) = Taken(c) /\ Tail(OnWay(c)) = link[c].queue
         /\ \A i \in 1 .. Len(OnWay(c)) : OnWay(c)[i] = At(Taken(c), link[c].queue, i - 1)
         /\ \/ Taken(c) = writer[c].taken
            \/ /\ Taken(c).kind = "None"
               /\ writer[c].taken.kind \in {"None", "HostWrite"}
<1>1. writer[c].taken \in Messages /\ link[c].queue \in Seq(Messages)
  BY DEF DeliveryInv, ClientOK, Types, WriterTypes, LinkTypes
<1>2. Plain("None") \in Messages /\ Plain("None").kind = "None"
  BY DEF Plain, Messages, PlainKinds
<1>3. Taken(c) \in Messages
  BY <1>1, <1>2 DEF Taken
<1>4. \/ Taken(c) = writer[c].taken
      \/ Taken(c).kind = "None" /\ writer[c].taken.kind \in {"None", "HostWrite"}
  BY <1>2 DEF Taken, DeliveryInv, ClientOK, Attached
<1> DEFINE t == Taken(c)  q == link[c].queue
<1>5. <<t>> \o q \in Seq(Messages) /\ <<t>> \o q # <<>> /\ Len(<<t>> \o q) = Len(q) + 1
  BY <1>1, <1>3
<1>6. \A i \in 1 .. Len(<<t>> \o q) : (<<t>> \o q)[i] = At(t, q, i - 1)
  BY <1>1, <1>3, <1>5 DEF At
<1>7. Head(<<t>> \o q) = t /\ Tail(<<t>> \o q) = q
  BY <1>1, <1>3
<1>8. QED
  BY <1>1, <1>3, <1>4, <1>5, <1>6, <1>7 DEF OnWay

\* The rejections and dropped runs on a client's way are the ones of the
\* delivery its writing thread took and the ones in its queue.
LEMMA WayCounts ==
  ASSUME DeliveryInv, NEW c \in Clients, Reads(c)
  PROVE  /\ RejectionsOnWay(c) = RejectionsIn(writer[c].taken) + RejectionCount(link[c].queue)
         /\ RunsDroppedOnWay(c) = RunsDroppedIn(writer[c].taken) + DroppedCount(link[c].queue)
<1>1. /\ OnWay(c) \in Seq(Messages) /\ OnWay(c) # <<>>
      /\ Head(OnWay(c)) = Taken(c) /\ Tail(OnWay(c)) = link[c].queue
  BY WayOfClient
<1>2. /\ RejectionCount(OnWay(c)) = RejectionsIn(Taken(c)) + RejectionCount(link[c].queue)
      /\ DroppedCount(OnWay(c)) = RunsDroppedIn(Taken(c)) + DroppedCount(link[c].queue)
  BY <1>1, CountsTail
<1>3. /\ RejectionsIn(Taken(c)) = RejectionsIn(writer[c].taken)
      /\ RunsDroppedIn(Taken(c)) = RunsDroppedIn(writer[c].taken)
  BY WayOfClient DEF RejectionsIn, RunsDroppedIn
<1>4. QED
  BY <1>2, <1>3 DEF RejectionsOnWay, RunsDroppedOnWay, RejectionCount, DroppedCount

\* A message that is not a snapshot is one of the deliveries.
LEMMA MessagesAreDeliveries ==
  ASSUME NEW d \in Messages
  PROVE  d \in Deliveries \/ IsSnapshot(d)
<1>1. CASE d \in [kind : {"Frame"}, view : Numbers]
  <2>1. d = Frame(d.view) /\ d.view \in 0 .. MaxInputs + 1
    BY <1>1 DEF Frame, Numbers
  <2>2. QED
    BY <2>1 DEF Deliveries
<1>2. CASE d \in [kind : {"Event"}, event : Numbers]
  <2>1. d = EventDelivery(d.event) /\ d.event \in 0 .. MaxInputs + 1
    BY <1>2 DEF EventDelivery, Numbers
  <2>2. QED
    BY <2>1 DEF Deliveries
<1>3. CASE d \in [kind : {"Rejection"}, action : RejectedActions]
  <2>1. d = Rejection(d.action) /\ d.action \in RejectedActions
    BY <1>3 DEF Rejection
  <2>2. QED
    BY <2>1 DEF Deliveries
<1>4. CASE d \in [kind : PlainKinds]
  <2>1. d = Plain(d.kind) /\ d.kind \in PlainKinds
    BY <1>4 DEF Plain
  <2>2. QED
    BY <2>1 DEF Deliveries, PlainKinds
<1>5. CASE d \in [kind : {"Snapshot"}, view : Numbers, event : Numbers, held : Seq(Runs),
                  droppedRuns : Nat]
  BY <1>5 DEF IsSnapshot
<1>6. QED
  BY <1>1, <1>2, <1>3, <1>4, <1>5 DEF Messages

\* The newest view on a client's way, once no view change waits for it, is the
\* session's view.
LEMMA WayEndsWithView ==
  ASSUME DeliveryInv, NEW c \in Clients, Reads(c), ~pace[c].hasViewChange
  PROVE  NewestView(c) = view
<1> DEFINE d == writer[c].taken  q == link[c].queue  way == OnWay(c)
           frames == {i \in DOMAIN way : IsFrameDelivery(way[i])}
<1>1. /\ NothingNewer(view, revision, d, q) /\ ViewsInOrder(d, q)
      /\ ReachesView(view, writer[c].lastView, d, q) /\ view \in Nat
  BY BoundsAssumption DEF DeliveryInv, SessionOK, ClientOK, ViewsOK
<1>2. /\ way \in Seq(Messages) /\ Len(way) = Len(q) + 1 /\ q \in Seq(Messages)
      /\ \A i \in 1 .. Len(way) : way[i] = At(Taken(c), q, i - 1)
      /\ Taken(c) = d \/ (Taken(c).kind = "None" /\ d.kind \in {"None", "HostWrite"})
      /\ d \in Messages
  BY WayOfClient DEF DeliveryInv, ClientOK, Types, WriterTypes
<1> HIDE DEF way, d, q
<1>3. Len(q) \in Nat /\ DOMAIN way = 1 .. Len(way)
  BY <1>2
<1>4. \A i \in 1 .. Len(way) :
        /\ IsFrameDelivery(way[i]) <=> IsFrameDelivery(At(d, q, i - 1))
        /\ IsFrameDelivery(way[i]) => way[i] = At(d, q, i - 1)
  <2> TAKE i \in 1 .. Len(way)
  <2>1. way[i] = At(Taken(c), q, i - 1)
    BY <1>2
  <2>2. CASE i = 1
    BY <1>2, <2>1, <2>2 DEF At, IsFrameDelivery
  <2>3. CASE i # 1
    BY <1>2, <1>3, <2>1, <2>3 DEF At
  <2>4. QED
    BY <2>2, <2>3
<1>5. NewestView(c) = IF frames = {} THEN writer[c].lastView
                      ELSE way[CHOOSE i \in frames : \A j \in frames : j <= i].view
  BY DEF NewestView, way
<1>6. CASE frames = {}
  <2>1. \A i \in 0 .. Len(q) : ~IsFrameDelivery(At(d, q, i))
    <3> TAKE i \in 0 .. Len(q)
    <3>1. i + 1 \in 1 .. Len(way) /\ (i + 1) - 1 = i
      BY <1>2, <1>3
    <3>2. ~IsFrameDelivery(way[i + 1])
      BY <1>3, <1>6, <3>1
    <3>3. QED
      BY <1>4, <3>1, <3>2
  <2>2. QED
    BY <1>1, <1>5, <1>6, <2>1 DEF ReachesView
<1>7. CASE frames # {}
  <2>1. frames \in SUBSET Nat /\ Len(way) \in Nat /\ \A k \in frames : k <= Len(way)
    BY <1>2, <1>3
  <2>2. \E m \in frames : \A k \in frames : k <= m
    <3> HIDE DEF frames
    <3>1. QED
      BY <1>7, <2>1, NatGreatest
  <2>3. PICK m : m = CHOOSE i \in frames : \A j \in frames : j <= i
    OBVIOUS
  <2>4. m \in frames /\ \A j \in frames : j <= m
    BY <2>2, <2>3
  <2>5. m - 1 \in 0 .. Len(q) /\ m \in 1 .. Len(way) /\ IsFrameDelivery(At(d, q, m - 1)) /\ way[m] = At(d, q, m - 1)
    BY <1>2, <1>3, <1>4, <2>4
  <2>6. PICK i \in 0 .. Len(q) : IsFrameDelivery(At(d, q, i)) /\ At(d, q, i).view = view
    BY <1>1, <2>5 DEF ReachesView
  <2>7. i + 1 \in 1 .. Len(way) /\ (i + 1) - 1 = i
    BY <1>2, <1>3
  <2>8. i + 1 \in frames
    BY <1>3, <1>4, <2>6, <2>7
  <2>9. i <= m - 1
    BY <2>1, <2>4, <2>5, <2>8
  <2>10. At(d, q, m - 1).view <= view /\ At(d, q, m - 1).view \in Nat
    <3>1. At(d, q, m - 1) \in Messages
      BY <1>2, <1>3, <2>5 DEF At
    <3>2. QED
      BY <1>1, <2>5, <3>1, MessageFacts DEF NothingNewer
  <2>11. view <= At(d, q, m - 1).view
    <3>1. CASE i = m - 1
      BY <1>1, <2>6, <3>1
    <3>2. CASE i < m - 1
      BY <1>1, <2>5, <2>6, <3>2 DEF ViewsInOrder
    <3>3. QED
      BY <2>5, <2>9, <3>1, <3>2
  <2>12. QED
    BY <1>1, <1>5, <1>7, <2>3, <2>5, <2>10, <2>11
<1>8. QED
  BY <1>6, <1>7

\* The queue holds its capacity and no more, and no rejection of a client's
\* command is lost uncounted (delivery_queue.rs, bus.rs
\* `hold_command_rejection`).
THEOREM QueueConsistent == Spec => []QueueIsConsistent
<1>1. DeliveryInv => QueueIsConsistent
  <2> SUFFICES ASSUME DeliveryInv PROVE QueueIsConsistent
    OBVIOUS
  <2>1. TypeOK
    <3>1. /\ view \in 1 .. MaxInputs + 1 /\ revision \in 0 .. MaxInputs
          /\ inputCount \in 0 .. MaxInputs
      BY BoundsAssumption DEF DeliveryInv, SessionOK
    <3>2. /\ dispatcher.asked \in Endings \cup {"none"} /\ dispatcher.hostClient \subseteq Clients
          /\ inbox \subseteq {"roomFreed", "detached"} \X Clients
          /\ notice \in Endings \cup {"none"}
          /\ pace \in [Clients -> [hasViewChange : BOOLEAN, isOpen : BOOLEAN]]
          /\ reader \in [Clients -> {"none", "reading", "closed", "left", "ended"}]
          /\ isLinkLost \in [Clients -> BOOLEAN]
          /\ isLinkUp \in [Clients -> BOOLEAN]
      BY DEF DeliveryInv, SessionOK
    <3>3. ASSUME NEW c \in Clients
          PROVE  /\ link[c].state \in {"none", "Live", "Desynced", "gone"}
                 /\ Len(link[c].queue) <= Capacity
                 /\ Len(link[c].held) <= MaxHeldRejections
                 /\ link[c].state = "Live" => link[c].held = <<>> /\ link[c].dropped = 0
                 /\ writer[c].pc \in WriterPcs
                 /\ writer[c].lastPainted <= writer[c].lastSent
                 /\ client[c].ending \in Endings \cup {"none", "Detached"}
      BY DEF DeliveryInv, ClientOK, Types, LinkTypes, WriterTypes, ClientTypes
    <3>4. ASSUME NEW c \in Clients, NEW i \in DOMAIN link[c].queue
          PROVE  link[c].queue[i] \in Deliveries \/ IsSnapshot(link[c].queue[i])
      <4>1. link[c].queue \in Seq(Messages)
        BY DEF DeliveryInv, ClientOK, Types, LinkTypes
      <4>2. link[c].queue[i] \in Messages
        BY <4>1
      <4>3. QED
        BY <4>2, MessagesAreDeliveries
    <3>5. QED
      BY <3>1, <3>2, <3>3, <3>4 DEF TypeOK
  <2>2. RejectionsAreAccounted
    <3> SUFFICES ASSUME NEW c \in Clients, IsStreaming(c), isLinkUp[c]
                 PROVE  LET missing == sent[c].rejections - client[c].rejections
                                         - RejectionsOnWay(c) - RepeatCount(link[c].held)
                            runs == client[c].droppedRuns + RunsDroppedOnWay(c)
                                      + link[c].droppedRuns
                        IN missing >= runs /\ (runs = 0 => missing = 0)
      BY DEF RejectionsAreAccounted
    <3>1. Reads(c)
      BY DEF IsStreaming, Reads
    <3>2. RejectionsOK(c) /\ Types(c)
      BY DEF DeliveryInv, ClientOK
    <3>3. /\ sent[c].rejections \in Nat /\ client[c].rejections \in Nat
          /\ client[c].droppedRuns \in Nat /\ link[c].droppedRuns \in Nat
          /\ writer[c].taken \in Messages /\ link[c].queue \in Seq(Messages)
          /\ link[c].held \in Seq(Runs)
      BY <3>2 DEF Types, LinkTypes, WriterTypes, ClientTypes
    <3>4. PICK a, b, r, s, h : /\ a = RejectionsIn(writer[c].taken)
                               /\ b = RejectionCount(link[c].queue)
                               /\ r = RunsDroppedIn(writer[c].taken)
                               /\ s = DroppedCount(link[c].queue)
                               /\ h = RepeatCount(link[c].held)
      OBVIOUS
    <3>5. a \in Nat /\ b \in Nat /\ r \in Nat /\ s \in Nat /\ h \in Nat
      BY <3>3, <3>4, MessageCounts, CountsAppend, RepeatsAreNumbers
    <3>6. RejectionsOnWay(c) = a + b /\ RunsDroppedOnWay(c) = r + s
      BY <3>1, <3>4, WayCounts
    <3>7. /\ sent[c].rejections - client[c].rejections - a - b - h
               >= client[c].droppedRuns + r + s + link[c].droppedRuns
          /\ client[c].droppedRuns + r + s + link[c].droppedRuns = 0 =>
               sent[c].rejections - client[c].rejections - a - b - h = 0
      BY <3>1, <3>2, <3>4 DEF RejectionsOK
    <3>8. PICK x, y, u, v : /\ x = sent[c].rejections /\ y = client[c].rejections
                            /\ u = client[c].droppedRuns /\ v = link[c].droppedRuns
      OBVIOUS
    <3>9. x \in Nat /\ y \in Nat /\ u \in Nat /\ v \in Nat
      BY <3>3, <3>8
    <3>10. x - y - a - b - h >= u + r + s + v /\ (u + r + s + v = 0 => x - y - a - b - h = 0)
      BY <3>7, <3>8
    <3>11. x - y - (a + b) - h >= u + (r + s) + v
           /\ (u + (r + s) + v = 0 => x - y - (a + b) - h = 0)
      BY <3>5, <3>9, <3>10
    <3>12. QED
      BY <3>4, <3>6, <3>8, <3>11
  <2>3. QED
    BY <2>1, <2>2 DEF QueueIsConsistent
<1>2. QED
  BY <1>1, DeliveryInvariant, PTL

\* While the dispatcher sleeps no client is left without a frame it waits for
\* (server.rs `resync_lagged`, `push_frames`).
THEOREM NothingForgotten == Spec => []NoFrameIsForgotten
<1>1. DeliveryInv => NoFrameIsForgotten
  <2> SUFFICES ASSUME DeliveryInv, dispatcher.pc = "wait", NEW c \in Clients, IsStreaming(c)
               PROVE  /\ link[c].isFrameOwed => link[c].queue # <<>> \/ writer[c].pc = "took"
                      /\ link[c].state = "Desynced" =>
                           link[c].isFrameOwed \/ <<"roomFreed", c>> \in inbox
                      /\ link[c].state = "Live" /\ ~pace[c].hasViewChange => NewestView(c) = view
    BY DEF NoFrameIsForgotten
  <2>1. Reads(c) /\ OwedOK(c)
    BY DEF IsStreaming, Reads, DeliveryInv, ClientOK
  <2>2. QED
    BY <2>1, WayEndsWithView DEF OwedOK
<1>2. QED
  BY <1>1, DeliveryInvariant, PTL

\* No client reads a gap in the events, or a frame that takes it back to an
\* older view (bus.rs `try_resync`, delivery_queue.rs `try_send_frame`).
THEOREM StreamContinuous == Spec => []StreamIsContinuous
<1>1. DeliveryInv => StreamIsContinuous
  BY DEF DeliveryInv, ClientOK, ReadOK, StreamIsContinuous
<1>2. QED
  BY <1>1, DeliveryInvariant, PTL

\* A client that reads the session's end has read every viewer action request
\* the session accepted for it (ipc_server.rs `stream_events`).
THEOREM RequestsFirst == Spec => []RequestsPrecedeEnding
<1>1. DeliveryInv => RequestsPrecedeEnding
  <2> SUFFICES ASSUME DeliveryInv, NEW c \in Clients, client[c].ending # "none"
               PROVE  client[c].requests >= sent[c].requests
    BY DEF RequestsPrecedeEnding
  <2>1. sent[c].requests <= client[c].requests
    BY DEF DeliveryInv, ClientOK, RequestsOK
  <2>2. sent[c].requests \in Nat /\ client[c].requests \in Nat
    BY DEF DeliveryInv, ClientOK, Types, ClientTypes
  <2>3. QED
    BY <2>1, <2>2
<1>2. QED
  BY <1>1, DeliveryInvariant, PTL

=============================================================================
