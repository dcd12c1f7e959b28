------------------------ MODULE SupervisorLinkProofs ------------------------
(***************************************************************************)
(* Proofs about SupervisorLink, for any panes, windows, chunks, links,     *)
(* breaks and swaps: a link carries only its own, and what a pane prints   *)
(* reaches the session once and in order over every link.                  *)
(***************************************************************************)
EXTENDS SupervisorLink, FiniteSetTheorems, WellFoundedInduction, TLAPS

-----------------------------------------------------------------------------
(* Numbers *)

NatLess == {ss \in Nat \X Nat : ss[1] < ss[2]}

\* A set of naturals has a least element: what the inductions below rest on.
LEMMA NatLeast ==
  ASSUME NEW T \in SUBSET Nat, T # {}
  PROVE  \E m \in T : \A k \in T : m <= k
<1>1. IsWellFoundedOn(NatLess, Nat)
  BY NatLessThanWellFounded DEF OpToRel, NatLess
<1>2. PICK x \in T : \A y \in T : <<y, x>> \notin NatLess
  BY <1>1, WFMin
<1>3. \A y \in T : ~(y < x)
  <2> TAKE y \in T
  <2>1. <<y, x>> \in Nat \X Nat /\ <<y, x>>[1] = y /\ <<y, x>>[2] = x
    OBVIOUS
  <2>2. QED
    BY <1>2, <2>1, Zenon DEF NatLess
<1>4. QED
  BY <1>3

\* Induction up to a bound, over the set of the numbers that have a property.
LEMMA IntervalInduction ==
  ASSUME NEW b \in Nat, NEW Good, 0 \in Good, \A n \in 1 .. b : n - 1 \in Good => n \in Good
  PROVE  \A n \in 0 .. b : n \in Good
<1> DEFINE Bad == {n \in 0 .. b : n \notin Good}
<1>1. SUFFICES ASSUME Bad # {} PROVE FALSE
  OBVIOUS
<1>2. PICK n \in Bad : \A k \in Bad : n <= k
  <2>1. Bad \in SUBSET Nat
    OBVIOUS
  <2> HIDE DEF Bad
  <2>2. QED
    BY <1>1, <2>1, NatLeast
<1>3. n \in 1 .. b /\ n - 1 \in 0 .. b /\ n - 1 \notin Bad
  BY <1>2
<1>4. QED
  BY <1>2, <1>3

-----------------------------------------------------------------------------
(* Queues *)

\* What lies on a queue, and what lies on it before what.
On(q) == {q[i] : i \in DOMAIN q}
Before(q, f, h) == \E i, j \in DOMAIN q : i < j /\ q[i] = f /\ q[j] = h

\* Whatever lies before something lies on the queue, as that does.
LEMMA BeforeIsOn ==
  ASSUME NEW q, NEW f, NEW h, Before(q, f, h)
  PROVE  f \in On(q) /\ h \in On(q)
BY DEF Before, On

\* An empty queue.
LEMMA QueueEmpty == On(<<>>) = {} /\ \A f, h : ~Before(<<>>, f, h)
<1>1. DOMAIN <<>> = {}
  OBVIOUS
<1>2. QED
  BY <1>1 DEF On, Before

\* A queue with one more frame at its end.
LEMMA QueueAppend ==
  ASSUME NEW S, NEW q \in Seq(S), NEW x \in S
  PROVE  /\ On(Append(q, x)) = On(q) \cup {x}
         /\ \A f, h : Before(Append(q, x), f, h) => Before(q, f, h) \/ (f \in On(q) /\ h = x)
<1> DEFINE t == Append(q, x)  n == Len(q)
<1>1. /\ n \in Nat /\ DOMAIN q = 1 .. n /\ DOMAIN t = 1 .. n + 1 /\ t[n + 1] = x
      /\ \A i \in 1 .. n : t[i] = q[i]
  OBVIOUS
<1>2. /\ n + 1 \in DOMAIN t /\ DOMAIN q \subseteq DOMAIN t
      /\ \A i \in DOMAIN t : i = n + 1 \/ i \in DOMAIN q
  BY <1>1
<1> HIDE DEF t
<1>3. On(t) = On(q) \cup {x}
  BY <1>1, <1>2 DEF On
<1>4. ASSUME NEW f, NEW h, Before(t, f, h) PROVE Before(q, f, h) \/ (f \in On(q) /\ h = x)
  <2>1. PICK i \in DOMAIN t, j \in DOMAIN t : i < j /\ t[i] = f /\ t[j] = h
    BY <1>4 DEF Before
  <2>2. i \in DOMAIN q /\ q[i] = f
    BY <1>1, <2>1
  <2>3. CASE j \in DOMAIN q
    BY <1>1, <2>1, <2>2, <2>3 DEF Before
  <2>4. CASE j = n + 1
    BY <1>1, <2>1, <2>2, <2>4 DEF On
  <2>5. QED
    BY <1>2, <2>3, <2>4
<1>5. QED
  BY <1>3, <1>4 DEF t

\* A queue without its oldest frame.
LEMMA QueueTail ==
  ASSUME NEW S, NEW q \in Seq(S), q # <<>>
  PROVE  /\ Head(q) \in S /\ Tail(q) \in Seq(S)
         /\ On(q) = On(Tail(q)) \cup {Head(q)}
         /\ \A f, h : Before(Tail(q), f, h) => Before(q, f, h)
         /\ \A h \in On(Tail(q)) : Before(q, Head(q), h)
<1> DEFINE t == Tail(q)  n == Len(q)
<1>1. /\ n \in Nat /\ n >= 1 /\ Head(q) = q[1] /\ DOMAIN q = 1 .. n
      /\ DOMAIN t = 1 .. n - 1 /\ \A i \in 1 .. n - 1 : t[i] = q[i + 1]
      /\ Head(q) \in S /\ t \in Seq(S)
  OBVIOUS
<1> HIDE DEF t, n
<1>2. \A i \in DOMAIN t : i + 1 \in DOMAIN q /\ q[i + 1] = t[i] /\ 1 < i + 1 /\ 1 \in DOMAIN q
  BY <1>1
<1>3. \A i \in DOMAIN q : i = 1 \/ (i - 1 \in DOMAIN t /\ t[i - 1] = q[i])
  BY <1>1
<1>4. On(q) = On(t) \cup {Head(q)}
  <2>1. \A x \in On(t) : x \in On(q)
    BY <1>2 DEF On
  <2>2. \A x \in On(q) : x = Head(q) \/ x \in On(t)
    BY <1>1, <1>3 DEF On
  <2>3. Head(q) \in On(q)
    BY <1>1 DEF On
  <2>4. QED
    BY <2>1, <2>2, <2>3
<1>5. ASSUME NEW f, NEW h, Before(t, f, h) PROVE Before(q, f, h)
  <2>1. PICK i \in DOMAIN t, j \in DOMAIN t : i < j /\ t[i] = f /\ t[j] = h
    BY <1>5 DEF Before
  <2>2. /\ i + 1 \in DOMAIN q /\ j + 1 \in DOMAIN q /\ i + 1 < j + 1
        /\ q[i + 1] = f /\ q[j + 1] = h
    BY <1>1, <1>2, <2>1
  <2>3. QED
    BY <2>2 DEF Before
<1>6. ASSUME NEW h \in On(t) PROVE Before(q, Head(q), h)
  <2>1. PICK i \in DOMAIN t : t[i] = h
    BY <1>6 DEF On
  <2>2. 1 \in DOMAIN q /\ i + 1 \in DOMAIN q /\ 1 < i + 1 /\ q[1] = Head(q) /\ q[i + 1] = h
    BY <1>1, <1>2, <2>1
  <2>3. QED
    BY <2>2 DEF Before
<1>7. QED
  BY <1>1, <1>4, <1>5, <1>6 DEF t

\* What lies on a queue of a type is of that type.
LEMMA OnType ==
  ASSUME NEW S, NEW q \in Seq(S)
  PROVE  On(q) \subseteq S
<1>1. \A i \in DOMAIN q : q[i] \in S
  OBVIOUS
<1>2. QED
  BY <1>1 DEF On

-----------------------------------------------------------------------------
(* The inductive invariant *)

\* The requests on link g, and the frames on the link of the image.
ToSup(g) == On(link[g].toSup)
SupBefore(g, r, s) == Before(link[g].toSup, r, s)
Carried == On(link[Newest].toImage)
CarriedBefore(f, h) == Before(link[Newest].toImage, f, h)

PlainKinds == {"hello", "list", "pause", "resume", "shutdown"}
PaneKinds == {"spawn", "kill", "grant"}

Requests ==
  [kind : PlainKinds, pane : {NoPane}, count : {0}]
    \cup [kind : PaneKinds, pane : Panes, count : Nat]
Outputs == [kind : {"output"}, pane : Panes, from : Nat, count : Nat \ {0}]
Exits == [kind : {"exited"}, pane : Panes]
Answers ==
  [kind : {"answer"}, of : PlainKinds \cup PaneKinds, pane : Panes \cup {NoPane}, gen : Nat,
   panes : SUBSET Panes, version : Versions \cup {"none"}]
Frames == Outputs \cup Exits \cup Answers

LinkType ==
  [state : {"none", "queued", "up", "down"}, version : Versions \cup {"none"},
   toSup : Seq(Requests), toImage : Seq(Frames)]
KillType == [pane : Panes, gen : 1 .. LinkLimit, pc : {"mark", "join", "answer"}]

RunPcs == {"run", "spawning", "pausing", "held", "resuming"}
LinkPcs == {"connect", "hello", "list", "killUnknown", "killing", "killEnded", "killingEnded"}
EndPcs == {"endKill", "endKilling", "ending"}

\* The components have their types.
Shapes ==
  /\ TypeOK
  /\ link \in [1 .. LinkLimit -> LinkType]
  /\ kills \subseteq KillType
  /\ imagePc \in RunPcs \cup LinkPcs \cup EndPcs \cup {"gone"}
  /\ ungranted \in [Panes -> Nat] /\ unparsed \in [Panes -> Nat]
  /\ listed \subseteq Panes /\ toKill \subseteq Panes /\ exitsAtConnect \subseteq Panes
  /\ rejected \subseteq Panes /\ exited \subseteq Panes
  /\ killWaits \subseteq Panes /\ killDone \subseteq Panes /\ torn \subseteq Panes
  /\ isReconciled \in BOOLEAN /\ isClosed \in BOOLEAN /\ answered \in BOOLEAN
  /\ spawning \in Panes \cup {NoPane}
  /\ told \in [Panes -> {"none", "real", "lost"}]

\* A pane that was opened; one whose reader and exit are over; one the session
\* has let go of, which its link may close.
Known(p) == readerPc[p] # "none"
Over(p) == readerPc[p] = "ended" /\ exitPc[p] = "done"
LetGo(p) ==
  /\ Known(p)
  /\ p \in torn \/ told[p] # "none" \/ imagePc = "gone" \/ p \notin Wanted

\* Links are opened one after the other, and only the newest carries anything
\* to the image, until its reader has seen its end.
LinksOK ==
  /\ \E n \in 1 .. LinkLimit : Links = 1 .. n
  /\ generation <= Newest
  /\ \A g \in Links : g # Newest => link[g].state = "down" /\ link[g].toImage = <<>>
  /\ isClosed \/ imagePc \in {"connect", "gone"} =>
       link[Newest].state = "down" /\ link[Newest].toImage = <<>>

\* A pane in the supervisor: what its reader and its exit are at.
PaneOK(p) ==
  /\ unsent[p] > 0 => readerPc[p] \in {"send", "parked"}
  /\ unsent[p] <= taken[p]
  /\ readerPc[p] = "none" => taken[p] = 0 /\ fed[p] = 0 /\ told[p] = "none"
  /\ exitPc[p] # "none" <=> readerPc[p] = "ended"
  /\ Known(p) /\ p \notin held => Over(p)
  /\ p \in running => readerPc[p] \notin {"none", "ended"}
  /\ p \in endedPanes => exitPc[p] = "done"

\* What the image and the supervisor speak of are panes that were opened.
KnownOK ==
  \A p \in held \cup live \cup driven \cup listed \cup torn \cup rejected \cup exited
          \cup exitsAtConnect : Known(p)

\* The session the image serves will not ask again.
IsOver == imagePc = "gone" \/ (isClosed /\ ~IsLinking)

\* What a request on link g says of both ends.
RequestOK(g, r) ==
  /\ r.kind = "kill" => LetGo(r.pane)
  /\ r.kind = "shutdown" => imagePc \in {"ending", "gone"}
  /\ r.kind = "spawn" =>
       /\ g = Newest /\ ~Known(r.pane)
       /\ IsOver \/ (imagePc = "spawning" /\ spawning = r.pane /\ ~answered)
  /\ r.kind \in {"pause", "resume"} =>
       /\ g = Newest
       /\ IsOver \/ (imagePc \in {"pausing", "resuming"} /\ ~answered)

RequestsOK ==
  \A g \in Links : \A r \in ToSup(g) :
    /\ RequestOK(g, r)
    /\ \A s \in ToSup(g) : SupBefore(g, r, s) => ~(r.kind = "spawn" /\ s.kind = "spawn")

\* What a frame on the image's link says of both ends.
FrameOK(f) ==
  /\ f.kind = "output" => f.from + f.count <= taken[f.pane]
  /\ f.kind = "exited" => readerPc[f.pane] = "ended"
  /\ f.kind = "answer" =>
       /\ f.gen = Newest
       /\ f.of = "kill" => f.pane \in Panes /\ Over(f.pane)
       /\ f.of = "list" => \A p \in f.panes : Known(p)
       /\ f.of = "spawn" => imagePc = "spawning" /\ spawning = f.pane /\ Known(spawning) /\ ~answered
       /\ f.of = "pause" => imagePc \in {"pausing", "resuming"} /\ ~answered
       /\ f.of = "resume" => imagePc = "resuming" /\ ~answered

\* Nothing of a pane follows its kill's answer, no output follows its exit, and
\* the answer to a spawn is the only one.
FollowsOK(f, h) ==
  /\ f.kind = "exited" /\ h.kind = "output" => f.pane # h.pane
  /\ f.kind = "answer" /\ h.kind \in {"output", "exited"} /\ f.of = "kill" => f.pane # h.pane
  /\ f.kind = "answer" /\ h.kind = "answer" => ~(f.of = "spawn" /\ h.of = "spawn")

FramesOK ==
  \A f \in Carried :
    /\ FrameOK(f)
    /\ \A h \in Carried : CarriedBefore(f, h) => FollowsOK(f, h)

\* What the session was told or has closed says that the pane is at its end.
EndsOK ==
  /\ \A p \in Panes : told[p] = "real" => readerPc[p] = "ended"
  /\ \A p \in killDone : Over(p)
  /\ \A f \in Carried :
       /\ f.kind = "output" => told[f.pane] # "real" /\ f.pane \notin killDone
       /\ f.kind = "exited" => f.pane \notin killDone

\* The threads that close panes, and the panes that are closed.
ClosingOK ==
  /\ \A k \in kills : LetGo(k.pane) /\ (k.pc = "answer" => Over(k.pane))
  /\ \A p \in toKill : LetGo(p)
  /\ \A p \in closingPanes : LetGo(p) \/ Over(p)
  /\ supPc = "stop" => imagePc \in {"ending", "gone"}
  /\ isClosing \/ supPc \in {"closing", "joining", "ending", "gone"} =>
       imagePc \in {"ending", "gone"} \/ (IsOver /\ imagePc # "spawning")

\* What the image knows of its panes: one it serves is driven, or has ended.
ImageOK ==
  /\ imagePc \in EndPcs => live = {}
  /\ imagePc \in RunPcs => \A p \in live : told[p] = "none" => p \in driven
  /\ \A p \in rejected : p \notin Wanted
  /\ \A p \in exited \cup exitsAtConnect : p \in Wanted => told[p] # "none"
  /\ isClosed => driven = {}
  /\ spawning # NoPane <=> imagePc = "spawning"
  /\ imagePc = "spawning" /\ answered => Known(spawning)
  /\ imagePc = "connect" => ~isClosed

IsHold(r) == r.kind \in {"pause", "resume"}
IsHoldAnswer(f) == f.kind = "answer" /\ f.of \in {"pause", "resume"}

\* The output is held: nothing of it is on the link, and none will be.
Held == isPaused /\ generation = Newest /\ \A f \in Carried : f.kind # "output"

\* A swap that is pausing: the pause is on one queue once, or was answered.
PausingOK ==
  /\ \A r \in ToSup(Newest) : r.kind # "resume"
  /\ \A r, s \in ToSup(Newest) : SupBefore(Newest, r, s) => ~(IsHold(r) /\ IsHold(s))
  /\ \A f \in Carried : IsHoldAnswer(f) =>
       /\ isPaused /\ generation = Newest
       /\ \A r \in ToSup(Newest) : ~IsHold(r)
       /\ \A h \in Carried : CarriedBefore(f, h) => h.kind # "output" /\ ~IsHoldAnswer(h)
  /\ answered => Held

\* One that is given up: nothing of the swap is behind the resume.
ResumingOK ==
  /\ \A r, s \in ToSup(Newest) : SupBefore(Newest, r, s) => ~(r.kind = "resume" /\ IsHold(s))
  /\ \A f \in Carried : f.kind = "answer" /\ f.of = "resume" =>
       /\ \A r \in ToSup(Newest) : ~IsHold(r)
       /\ \A h \in Carried : CarriedBefore(f, h) => ~IsHoldAnswer(h)

SwapOK ==
  ~isClosed =>
    /\ imagePc = "pausing" => PausingOK
    /\ imagePc = "held" => Held
    /\ imagePc = "resuming" => ResumingOK

\* The numbers from a up to b.
Run(a, b) == [i \in 1 .. b - a |-> a + i - 1]

\* The invariant.
LinkInv ==
  /\ Shapes /\ LinksOK /\ (\A p \in Panes : PaneOK(p)) /\ KnownOK /\ RequestsOK
  /\ FramesOK /\ EndsOK /\ ClosingOK /\ ImageOK /\ SwapOK
-----------------------------------------------------------------------------
(* What a step does to the links *)

Typed(l) == l \in [1 .. LinkLimit -> LinkType]
IsDown(g) == link[g].state = "down" /\ link[g].toImage = <<>>

\* No link is opened, and one that is down and read stays so.
LinkStep ==
  /\ Typed(link') /\ Links' = Links /\ Newest' = Newest
  /\ \A g \in Links : IsDown(g) => IsDown(g)'

\* No request is added, or r is on the image's link at most.
SupFewer ==
  \A g \in Links :
    ToSup(g)' \subseteq ToSup(g) /\ \A r, s : SupBefore(g, r, s)' => SupBefore(g, r, s)
SupMore(r) ==
  \A g \in Links :
    /\ \A x \in ToSup(g)' : x \in ToSup(g) \/ (g = Newest /\ x = r)
    /\ \A x, y : SupBefore(g, x, y)' =>
         SupBefore(g, x, y) \/ (g = Newest /\ x \in ToSup(g) /\ y = r)

\* No frame is added, or f is.
ImgFewer ==
  Carried' \subseteq Carried /\ \A f, h : CarriedBefore(f, h)' => CarriedBefore(f, h)
ImgMore(f) ==
  /\ Carried' = Carried \cup {f}
  /\ \A x, h : CarriedBefore(x, h)' => CarriedBefore(x, h) \/ (x \in Carried /\ h = f)

\* The newest link, and the one that can be written to.
LEMMA NewestFacts ==
  ASSUME Shapes, LinksOK
  PROVE  /\ Newest \in Nat /\ Newest \in 1 .. LinkLimit /\ Links = 1 .. Newest
         /\ Newest \in Links /\ generation \in Links /\ generation \in 1 .. LinkLimit
         /\ link[generation].state # "down" => generation = Newest
<1>1. PICK n \in 1 .. LinkLimit : Links = 1 .. n
  BY DEF LinksOK
<1>2. n \in Nat /\ n \in Links /\ \A h \in Links : h <= n
  BY <1>1, WindowAssumption
<1>3. Newest \in Links /\ \A h \in Links : h <= Newest
  BY <1>2 DEF Newest
<1>4. \A g \in Links : g \in Nat
  BY <1>1
<1>5. Newest = n
  BY <1>2, <1>3, <1>4
<1>6. generation \in 1 .. LinkLimit /\ generation <= Newest
  BY DEF Shapes, TypeOK, LinksOK
<1>7. generation \in Links
  BY <1>1, <1>5, <1>6, WindowAssumption
<1>8. link[generation].state # "down" => generation = Newest
  BY <1>7 DEF LinksOK
<1>9. QED
  BY <1>1, <1>2, <1>3, <1>5, <1>6, <1>7, <1>8

\* The parts of a link.
LEMMA LinkParts ==
  ASSUME Shapes, NEW g \in 1 .. LinkLimit
  PROVE  /\ link[g] \in LinkType /\ link[g].toSup \in Seq(Requests)
         /\ link[g].toImage \in Seq(Frames) /\ ToSup(g) \subseteq Requests
<1>1. /\ link[g] \in LinkType /\ link[g].toSup \in Seq(Requests)
      /\ link[g].toImage \in Seq(Frames)
  BY DEF Shapes, LinkType
<1>2. QED
  BY <1>1, OnType DEF ToSup

\* The frames on the image's link.
LEMMA CarriedType ==
  ASSUME Shapes, LinksOK
  PROVE  Carried \subseteq Frames
BY NewestFacts, LinkParts, OnType DEF Carried

\* When the same links are open, the newest is the same.
LEMMA SameNewest ==
  ASSUME Shapes, Typed(link'),
         \A g \in 1 .. LinkLimit : link'[g].state = "none" <=> link[g].state = "none"
  PROVE  Links' = Links /\ Newest' = Newest
<1>1. Links' = Links
  BY DEF Links
<1>2. QED
  BY <1>1 DEF Newest

\* Only states change, and no link is opened or comes up again.
LEMMA StatesStep ==
  ASSUME Shapes, LinksOK, Typed(link'),
         \A g \in 1 .. LinkLimit :
           /\ link'[g].toSup = link[g].toSup /\ link'[g].toImage = link[g].toImage
           /\ link'[g].state = "none" <=> link[g].state = "none"
           /\ link[g].state = "down" => link'[g].state = "down"
  PROVE  LinkStep /\ SupFewer /\ ImgFewer
<1>1. Links' = Links /\ Newest' = Newest
  BY SameNewest
<1>2. Newest \in 1 .. LinkLimit /\ \A g \in Links : g \in 1 .. LinkLimit
  BY NewestFacts DEF Links
<1>3. SupFewer
  BY <1>2 DEF SupFewer, ToSup, SupBefore
<1>4. ImgFewer
  BY <1>1, <1>2 DEF ImgFewer, Carried, CarriedBefore
<1>5. \A g \in Links : IsDown(g) => IsDown(g)'
  BY <1>2 DEF IsDown
<1>6. QED
  BY <1>1, <1>3, <1>4, <1>5 DEF LinkStep

\* The links are left alone.
LEMMA SameStep ==
  ASSUME Shapes, LinksOK, UNCHANGED link
  PROVE  LinkStep /\ SupFewer /\ ImgFewer
<1>1. Typed(link')
  BY DEF Shapes, Typed
<1>2. QED
  BY <1>1, StatesStep

\* One part of a link is replaced.
LEMMA WithImage ==
  \A x \in LinkType, q \in Seq(Frames) :
    LET y == [x EXCEPT !.toImage = q]
    IN y \in LinkType /\ y.toImage = q /\ y.toSup = x.toSup /\ y.state = x.state
BY DEF LinkType

\* What changing the supervisor's side of a link leaves.
LEMMA WithSup ==
  \A x \in LinkType, q \in Seq(Requests) :
    LET y == [x EXCEPT !.toSup = q]
    IN y \in LinkType /\ y.toImage = x.toImage /\ y.toSup = q /\ y.state = x.state
BY DEF LinkType

\* One link is replaced, and with it the frames to the image and the requests.
LEMMA OneLink ==
  ASSUME Shapes, LinksOK, NEW n \in Links, NEW y \in LinkType, link' = [link EXCEPT ![n] = y],
         y.state # "none"
  PROVE  /\ Typed(link') /\ link'[n] = y /\ Links' = Links /\ Newest' = Newest
         /\ \A g \in Links : g # n => link'[g] = link[g]
         /\ Carried' = On(link'[Newest].toImage)
         /\ \A f, h : CarriedBefore(f, h)' <=> Before(link'[Newest].toImage, f, h)
         /\ \A g \in Links : ToSup(g)' = On(link'[g].toSup)
         /\ \A g \in Links : \A r, s : SupBefore(g, r, s)' <=> Before(link'[g].toSup, r, s)
<1>1. n \in 1 .. LinkLimit /\ link \in [1 .. LinkLimit -> LinkType]
  BY DEF Links, Shapes
<1>2. /\ Typed(link') /\ link'[n] = y
      /\ \A g \in 1 .. LinkLimit : g # n => link'[g] = link[g]
  BY <1>1 DEF Typed
<1>3. \A g \in 1 .. LinkLimit : link'[g].state = "none" <=> link[g].state = "none"
  BY <1>2 DEF Links
<1>4. Links' = Links /\ Newest' = Newest
  BY <1>2, <1>3, SameNewest
<1>5. \A g \in Links : g \in 1 .. LinkLimit
  BY DEF Links
<1>6. Carried' = On(link'[Newest].toImage)
  BY <1>4 DEF Carried
<1>7. \A f, h : CarriedBefore(f, h)' <=> Before(link'[Newest].toImage, f, h)
  BY <1>4 DEF CarriedBefore
<1>8. QED
  BY <1>2, <1>4, <1>5, <1>6, <1>7 DEF ToSup, SupBefore

\* A frame is written to the image.
LEMMA SentStep ==
  ASSUME Shapes, LinksOK, NEW f \in Frames, link[generation].state = "up", link' = Sent(f)
  PROVE  LinkStep /\ SupFewer /\ ImgMore(f) /\ generation = Newest
<1>1. /\ generation \in 1 .. LinkLimit /\ generation = Newest
      /\ \A g \in Links : g \in 1 .. LinkLimit
  BY NewestFacts DEF Links
<1>2. /\ link[generation] \in LinkType /\ link[generation].toImage \in Seq(Frames)
  BY <1>1, LinkParts
<1> DEFINE q == link[generation].toImage
<1>3. Append(q, f) \in Seq(Frames)
  BY <1>2
<1> DEFINE y == [link[generation] EXCEPT !.toImage = Append(q, f)]
<1>4. link' = [link EXCEPT ![generation] = y]
  BY DEF Sent
<1>5. /\ y \in LinkType /\ y.toImage = Append(q, f) /\ y.toSup = link[generation].toSup
      /\ y.state = link[generation].state
  BY <1>2, <1>3, WithImage, Zenon
<1> HIDE DEF y
<1>6. /\ Typed(link') /\ link'[generation] = y /\ Links' = Links /\ Newest' = Newest
      /\ \A g \in Links : g # generation => link'[g] = link[g]
      /\ Carried' = On(link'[Newest].toImage)
      /\ \A x, h : CarriedBefore(x, h)' <=> Before(link'[Newest].toImage, x, h)
      /\ \A g \in Links : ToSup(g)' = On(link'[g].toSup)
      /\ \A g \in Links : \A r, s : SupBefore(g, r, s)' <=> Before(link'[g].toSup, r, s)
  BY <1>4, <1>5, OneLink, NewestFacts DEF Links
<1>7. SupFewer
  <2>1. \A g \in Links : link'[g].toSup = link[g].toSup
    BY <1>5, <1>6
  <2>2. QED
    BY <1>6, <2>1 DEF SupFewer, ToSup, SupBefore
<1>8. ImgMore(f)
  <2>1. /\ On(Append(q, f)) = On(q) \cup {f}
        /\ \A x, h : Before(Append(q, f), x, h) => Before(q, x, h) \/ (x \in On(q) /\ h = f)
    BY <1>2, QueueAppend
  <2>2. link'[Newest].toImage = Append(q, f) /\ q = link[Newest].toImage
    BY <1>1, <1>5, <1>6
  <2>3. Carried' = On(Append(q, f)) /\ Carried = On(q)
    BY <1>6, <2>2 DEF Carried
  <2>4. \A x, h : CarriedBefore(x, h)' => Before(Append(q, f), x, h)
    BY <1>6, <2>2
  <2>5. \A x, h : CarriedBefore(x, h) <=> Before(q, x, h)
    BY <2>2 DEF CarriedBefore
  <2> HIDE DEF q
  <2>6. QED
    BY <2>1, <2>3, <2>4, <2>5 DEF ImgMore
<1>9. \A g \in Links : IsDown(g) => IsDown(g)'
  BY <1>5, <1>6 DEF IsDown
<1>10. QED
  BY <1>1, <1>6, <1>7, <1>8, <1>9 DEF LinkStep

\* The oldest request on the supervisor's link is served.
Served(r) ==
  /\ r \in Requests /\ r \in ToSup(generation)
  /\ \A g \in Links : g = generation => \A s \in ToSup(g)' : SupBefore(g, r, s)

\* Taking a request off the serving link.
LEMMA ConsumedStep ==
  ASSUME Shapes, LinksOK, link[generation].toSup # <<>>, link' = Consumed
  PROVE  LinkStep /\ SupFewer /\ ImgFewer /\ Served(Head(link[generation].toSup))
<1>1. generation \in 1 .. LinkLimit /\ \A g \in Links : g \in 1 .. LinkLimit
  BY NewestFacts DEF Links
<1>2. /\ link[generation] \in LinkType /\ link[generation].toSup \in Seq(Requests)
  BY <1>1, LinkParts
<1> DEFINE q == link[generation].toSup
<1>3. /\ Head(q) \in Requests /\ Tail(q) \in Seq(Requests)
      /\ On(q) = On(Tail(q)) \cup {Head(q)}
      /\ \A f, h : Before(Tail(q), f, h) => Before(q, f, h)
      /\ \A h \in On(Tail(q)) : Before(q, Head(q), h)
  BY <1>2, QueueTail
<1> DEFINE y == [link[generation] EXCEPT !.toSup = Tail(q)]
<1>4. link' = [link EXCEPT ![generation] = y]
  BY DEF Consumed
<1>5. /\ y \in LinkType /\ y.toImage = link[generation].toImage /\ y.toSup = Tail(q)
      /\ y.state = link[generation].state
  BY <1>2, <1>3, WithSup, Zenon
<1> HIDE DEF y
<1>6. /\ Typed(link') /\ link'[generation] = y /\ Links' = Links /\ Newest' = Newest
      /\ \A g \in Links : g # generation => link'[g] = link[g]
      /\ Carried' = On(link'[Newest].toImage)
      /\ \A f, h : CarriedBefore(f, h)' <=> Before(link'[Newest].toImage, f, h)
      /\ \A g \in Links : ToSup(g)' = On(link'[g].toSup)
      /\ \A g \in Links : \A r, s : SupBefore(g, r, s)' <=> Before(link'[g].toSup, r, s)
      /\ generation \in Links /\ Newest \in Links
  BY <1>4, <1>5, OneLink, NewestFacts DEF Links
<1>7. SupFewer
  <2> SUFFICES ASSUME NEW g \in Links
               PROVE  /\ ToSup(g)' \subseteq ToSup(g)
                      /\ \A r, s : SupBefore(g, r, s)' => SupBefore(g, r, s)
    BY DEF SupFewer
  <2>1. CASE g = generation
    BY <1>3, <1>5, <1>6, <2>1 DEF ToSup, SupBefore
  <2>2. CASE g # generation
    BY <1>6, <2>2 DEF ToSup, SupBefore
  <2>3. QED
    BY <2>1, <2>2
<1>8. ImgFewer
  <2>1. link'[Newest].toImage = link[Newest].toImage
    BY <1>5, <1>6
  <2>2. QED
    BY <1>6, <2>1 DEF ImgFewer, Carried, CarriedBefore
<1>9. \A g \in Links : IsDown(g) => IsDown(g)'
  BY <1>5, <1>6 DEF IsDown
<1>10. \A s \in On(link'[generation].toSup) : SupBefore(generation, Head(q), s)
  BY <1>3, <1>5, <1>6 DEF SupBefore
<1>11. Served(Head(q))
  <2>1. Head(q) \in ToSup(generation)
    BY <1>3 DEF ToSup
  <2>2. QED
    BY <1>3, <1>6, <1>10, <2>1 DEF Served
<1>12. QED
  BY <1>6, <1>7, <1>8, <1>9, <1>11 DEF LinkStep

\* It is served, and the answer f is written unless the link is gone.
LEMMA RespondStep ==
  ASSUME Shapes, LinksOK, link[generation].toSup # <<>>, NEW f \in Frames, NEW then,
         RespondWith(f, then)
  PROVE  /\ LinkStep /\ SupFewer /\ Served(Head(link[generation].toSup))
         /\ \/ /\ ImgMore(f) /\ generation = Newest /\ supPc' = then
               /\ link[generation].state = "up"
            \/ ImgFewer /\ supPc' = "broken"
<1>1. CASE ~(link[generation].state = "up" /\ hasWriter)
  <2>1. link' = Consumed /\ supPc' = "broken"
    BY <1>1 DEF RespondWith
  <2>2. QED
    BY <2>1, ConsumedStep
<1>2. CASE link[generation].state = "up" /\ hasWriter
  <2> DEFINE q == link[generation].toSup  e == link[generation].toImage
             x == [link[generation] EXCEPT !.toSup = Tail(q)]
             y == [x EXCEPT !.toImage = Append(e, f)]
  <2>1. generation \in Links /\ generation = Newest /\ generation \in 1 .. LinkLimit
    BY <1>2, NewestFacts
  <2>2. link[generation] \in LinkType /\ q \in Seq(Requests) /\ e \in Seq(Frames)
    BY <2>1, LinkParts
  <2>3. /\ Head(q) \in Requests /\ Tail(q) \in Seq(Requests)
        /\ On(q) = On(Tail(q)) \cup {Head(q)}
        /\ \A a, b : Before(Tail(q), a, b) => Before(q, a, b)
        /\ \A b \in On(Tail(q)) : Before(q, Head(q), b)
    BY <2>2, QueueTail
  <2>4. /\ Append(e, f) \in Seq(Frames) /\ On(Append(e, f)) = On(e) \cup {f}
        /\ \A a, b : Before(Append(e, f), a, b) => Before(e, a, b) \/ (a \in On(e) /\ b = f)
    BY <2>2, QueueAppend
  <2>5. /\ x \in LinkType /\ x.toImage = e /\ x.toSup = Tail(q)
        /\ x.state = link[generation].state
    BY <2>2, <2>3, WithSup, Zenon
  <2>6. Consumed = [link EXCEPT ![generation] = x]
    BY DEF Consumed
  <2>7. Consumed[generation] = x
    BY <2>1, <2>6 DEF Shapes
  <2>8. link' = [Consumed EXCEPT ![generation].toImage = Append(@, f)] /\ supPc' = then
    BY <1>2 DEF RespondWith
  <2>9. link' = [link EXCEPT ![generation] = y]
    <3>1. link' = [Consumed EXCEPT ![generation] = [x EXCEPT !.toImage = Append(x.toImage, f)]]
      BY <2>7, <2>8
    <3>2. [x EXCEPT !.toImage = Append(x.toImage, f)] = y
      BY <2>5
    <3> HIDE DEF x, y
    <3>3. QED
      BY <2>1, <2>6, <3>1, <3>2 DEF Shapes
  <2>10. /\ y \in LinkType /\ y.toImage = Append(e, f) /\ y.toSup = x.toSup /\ y.state = x.state
    BY <2>4, <2>5, WithImage, Zenon
  <2> HIDE DEF x, y
  <2>11. y \in LinkType /\ y.toImage = Append(e, f) /\ y.toSup = Tail(q) /\ y.state = "up"
    BY <1>2, <2>5, <2>10
  <2>12. /\ Typed(link') /\ link'[generation] = y /\ Links' = Links /\ Newest' = Newest
         /\ \A g \in Links : g # generation => link'[g] = link[g]
         /\ Carried' = On(link'[Newest].toImage)
         /\ \A a, b : CarriedBefore(a, b)' <=> Before(link'[Newest].toImage, a, b)
         /\ \A g \in Links : ToSup(g)' = On(link'[g].toSup)
         /\ \A g \in Links : \A r, s : SupBefore(g, r, s)' <=> Before(link'[g].toSup, r, s)
    BY <2>1, <2>9, <2>11, OneLink
  <2>13. SupFewer
    <3> SUFFICES ASSUME NEW g \in Links
                 PROVE  /\ ToSup(g)' \subseteq ToSup(g)
                        /\ \A r, s : SupBefore(g, r, s)' => SupBefore(g, r, s)
      BY DEF SupFewer
    <3>1. CASE g = generation
      BY <2>3, <2>11, <2>12, <3>1 DEF ToSup, SupBefore
    <3>2. CASE g # generation
      BY <2>12, <3>2 DEF ToSup, SupBefore
    <3>3. QED
      BY <3>1, <3>2
  <2>14. ImgMore(f)
    <3>1. link'[Newest].toImage = Append(e, f) /\ e = link[Newest].toImage
      BY <2>1, <2>11, <2>12
    <3>2. Carried' = On(Append(e, f)) /\ Carried = On(e)
      BY <2>12, <3>1 DEF Carried
    <3>3. \A a, b : CarriedBefore(a, b)' => Before(Append(e, f), a, b)
      BY <2>12, <3>1
    <3>4. \A a, b : CarriedBefore(a, b) <=> Before(e, a, b)
      BY <3>1 DEF CarriedBefore
    <3> HIDE DEF e
    <3>5. QED
      BY <2>4, <3>2, <3>3, <3>4 DEF ImgMore
  <2>15. \A g \in Links : IsDown(g) => IsDown(g)'
    BY <1>2, <2>12 DEF IsDown
  <2>16. Served(Head(q))
    <3>1. Head(q) \in ToSup(generation)
      BY <2>3 DEF ToSup
    <3>2. \A s \in On(link'[generation].toSup) : SupBefore(generation, Head(q), s)
      BY <2>3, <2>11, <2>12 DEF SupBefore
    <3>3. QED
      BY <2>3, <2>12, <3>1, <3>2 DEF Served
  <2>17. QED
    BY <1>2, <2>1, <2>8, <2>12, <2>13, <2>14, <2>15, <2>16 DEF LinkStep
<1>3. QED
  BY <1>1, <1>2

\* The reader of the image takes the oldest frame.
LEMMA ReadLinkStep ==
  ASSUME Shapes, LinksOK, link[Newest].toImage # <<>>,
         link' = Read \/ \E v \in Versions \cup {"none"} : link' = [Read EXCEPT ![Newest].version = v]
  PROVE  /\ LinkStep /\ SupFewer /\ ImgFewer /\ Frame \in Frames /\ Frame \in Carried
         /\ \A h \in Carried' : CarriedBefore(Frame, h)
         /\ \A h \in Carried : h = Frame \/ h \in Carried'
<1> DEFINE q == link[Newest].toImage  x == [link[Newest] EXCEPT !.toImage = Tail(q)]
<1>1. Newest \in Links /\ Newest \in 1 .. LinkLimit
  BY NewestFacts
<1>2. link[Newest] \in LinkType /\ q \in Seq(Frames)
  BY <1>1, LinkParts
<1>3. /\ Head(q) \in Frames /\ Tail(q) \in Seq(Frames)
      /\ On(q) = On(Tail(q)) \cup {Head(q)}
      /\ \A f, h : Before(Tail(q), f, h) => Before(q, f, h)
      /\ \A h \in On(Tail(q)) : Before(q, Head(q), h)
  BY <1>2, QueueTail
<1>4. /\ x \in LinkType /\ x.toImage = Tail(q) /\ x.toSup = link[Newest].toSup
      /\ x.state = link[Newest].state
  BY <1>2, <1>3, WithImage, Zenon
<1>5. Read = [link EXCEPT ![Newest] = x] /\ Read[Newest] = x
  BY <1>1 DEF Read, Shapes
<1>6. PICK y \in LinkType : /\ link' = [link EXCEPT ![Newest] = y]
                            /\ y.toImage = Tail(q) /\ y.toSup = link[Newest].toSup
                            /\ y.state = link[Newest].state
  <2>1. CASE link' = Read
    BY <1>4, <1>5, <2>1
  <2>2. ASSUME NEW v \in Versions \cup {"none"}, link' = [Read EXCEPT ![Newest].version = v]
        PROVE  \E y \in LinkType : /\ link' = [link EXCEPT ![Newest] = y]
                                   /\ y.toImage = Tail(q) /\ y.toSup = link[Newest].toSup
                                   /\ y.state = link[Newest].state
    <3> DEFINE y == [x EXCEPT !.version = v]
    <3>1. /\ y \in LinkType /\ y.toImage = x.toImage /\ y.toSup = x.toSup /\ y.state = x.state
      <4> HIDE DEF x
      <4>1. QED
        BY <1>4 DEF LinkType
    <3>2. link' = [Read EXCEPT ![Newest] = y]
      <4> HIDE DEF x
      <4>1. QED
        BY <1>5, <2>2
    <3> HIDE DEF x, y
    <3>3. link' = [link EXCEPT ![Newest] = y]
      BY <1>1, <1>5, <3>2 DEF Shapes
    <3>4. QED
      BY <1>4, <3>1, <3>3
  <2>3. QED
    BY <2>1, <2>2
<1>7. /\ Typed(link') /\ link'[Newest] = y /\ Links' = Links /\ Newest' = Newest
      /\ \A g \in Links : g # Newest => link'[g] = link[g]
      /\ Carried' = On(link'[Newest].toImage)
      /\ \A f, h : CarriedBefore(f, h)' <=> Before(link'[Newest].toImage, f, h)
      /\ \A g \in Links : ToSup(g)' = On(link'[g].toSup)
      /\ \A g \in Links : \A r, s : SupBefore(g, r, s)' <=> Before(link'[g].toSup, r, s)
  BY <1>1, <1>6, OneLink DEF Links
<1>8. SupFewer
  <2>1. \A g \in Links : link'[g].toSup = link[g].toSup
    BY <1>6, <1>7
  <2>2. QED
    BY <1>7, <2>1 DEF SupFewer, ToSup, SupBefore
<1>9. Frame = Head(q) /\ Carried = On(q) /\ \A f, h : CarriedBefore(f, h) <=> Before(q, f, h)
  BY DEF Frame, Carried, CarriedBefore
<1>10. /\ Carried' = On(Tail(q)) /\ \A f, h : CarriedBefore(f, h)' <=> Before(Tail(q), f, h)
  BY <1>6, <1>7
<1>11. \A g \in Links : IsDown(g) => IsDown(g)'
  BY <1>6, <1>7 DEF IsDown
<1>12. LinkStep
  BY <1>7, <1>11 DEF LinkStep
<1> HIDE DEF q, x
<1>13. QED
  BY <1>3, <1>8, <1>9, <1>10, <1>12 DEF ImgFewer

\* The image asks for r.
LEMMA AskedStep ==
  ASSUME Shapes, LinksOK, NEW r \in Requests, link' = Asked(r)
  PROVE  LinkStep /\ SupMore(r) /\ ImgFewer
<1>1. CASE link[Newest].state = "down"
  <2>1. UNCHANGED link
    BY <1>1 DEF Asked
  <2>2. LinkStep /\ SupFewer /\ ImgFewer
    BY <2>1, SameStep
  <2>3. QED
    BY <2>2 DEF SupFewer, SupMore
<1>2. CASE link[Newest].state # "down"
  <2> DEFINE q == link[Newest].toSup  y == [link[Newest] EXCEPT !.toSup = Append(q, r)]
  <2>1. Newest \in Links /\ Newest \in 1 .. LinkLimit
    BY NewestFacts
  <2>2. link[Newest] \in LinkType /\ q \in Seq(Requests)
    BY <2>1, LinkParts
  <2>3. /\ Append(q, r) \in Seq(Requests) /\ On(Append(q, r)) = On(q) \cup {r}
        /\ \A a, b : Before(Append(q, r), a, b) => Before(q, a, b) \/ (a \in On(q) /\ b = r)
    BY <2>2, QueueAppend
  <2>4. /\ y \in LinkType /\ y.toImage = link[Newest].toImage /\ y.toSup = Append(q, r)
        /\ y.state = link[Newest].state
    BY <2>2, <2>3, WithSup, Zenon
  <2>5. link' = [link EXCEPT ![Newest] = y]
    BY <1>2 DEF Asked
  <2> HIDE DEF y
  <2>6. /\ Typed(link') /\ link'[Newest] = y /\ Links' = Links /\ Newest' = Newest
        /\ \A g \in Links : g # Newest => link'[g] = link[g]
        /\ Carried' = On(link'[Newest].toImage)
        /\ \A f, h : CarriedBefore(f, h)' <=> Before(link'[Newest].toImage, f, h)
        /\ \A g \in Links : ToSup(g)' = On(link'[g].toSup)
        /\ \A g \in Links : \A a, b : SupBefore(g, a, b)' <=> Before(link'[g].toSup, a, b)
    BY <2>1, <2>4, <2>5, OneLink DEF Links
  <2>7. SupMore(r)
    <3> SUFFICES ASSUME NEW g \in Links
                 PROVE  /\ \A x \in ToSup(g)' : x \in ToSup(g) \/ (g = Newest /\ x = r)
                        /\ \A x, z : SupBefore(g, x, z)' =>
                             SupBefore(g, x, z) \/ (g = Newest /\ x \in ToSup(g) /\ z = r)
      BY DEF SupMore
    <3>1. CASE g = Newest
      <4>1. ToSup(g)' = On(Append(q, r)) /\ ToSup(g) = On(q)
        BY <2>4, <2>6, <3>1 DEF ToSup
      <4>2. \A a, b : SupBefore(g, a, b)' => Before(Append(q, r), a, b)
        BY <2>4, <2>6, <3>1
      <4>3. \A a, b : SupBefore(g, a, b) <=> Before(q, a, b)
        BY <3>1 DEF SupBefore
      <4> HIDE DEF q
      <4>4. QED
        BY <2>3, <3>1, <4>1, <4>2, <4>3
    <3>2. CASE g # Newest
      BY <2>6, <3>2 DEF ToSup, SupBefore
    <3>3. QED
      BY <3>1, <3>2
  <2>8. ImgFewer
    <3>1. link'[Newest].toImage = link[Newest].toImage
      BY <2>4, <2>6
    <3>2. QED
      BY <2>6, <3>1 DEF ImgFewer, Carried, CarriedBefore
  <2>9. \A g \in Links : IsDown(g) => IsDown(g)'
    BY <2>4, <2>6 DEF IsDown
  <2>10. QED
    BY <2>6, <2>7, <2>8, <2>9 DEF LinkStep
<1>3. QED
  BY <1>1, <1>2

\* The image's link goes down, with what was on it or without.
LEMMA DropStep ==
  ASSUME Shapes, LinksOK, NEW y \in LinkType, link' = [link EXCEPT ![Newest] = y],
         y.state = "down", y.toSup \in {link[Newest].toSup, <<>>},
         y.toImage \in {link[Newest].toImage, <<>>}
  PROVE  /\ LinkStep /\ SupFewer /\ ImgFewer /\ link'[Newest] = y
         /\ y.toImage = <<>> => Carried' = {} /\ IsDown(Newest)'
<1>1. Newest \in Links /\ Newest \in 1 .. LinkLimit
  BY NewestFacts
<1>2. /\ Typed(link') /\ link'[Newest] = y /\ Links' = Links /\ Newest' = Newest
      /\ \A g \in Links : g # Newest => link'[g] = link[g]
      /\ Carried' = On(link'[Newest].toImage)
      /\ \A f, h : CarriedBefore(f, h)' <=> Before(link'[Newest].toImage, f, h)
      /\ \A g \in Links : ToSup(g)' = On(link'[g].toSup)
      /\ \A g \in Links : \A r, s : SupBefore(g, r, s)' <=> Before(link'[g].toSup, r, s)
  BY <1>1, OneLink DEF Links
<1>3. On(<<>>) = {} /\ \A f, h : ~Before(<<>>, f, h)
  BY QueueEmpty
<1>4. \A g \in Links : link'[g].toSup \in {link[g].toSup, <<>>}
  BY <1>2
<1>5. SupFewer
  <2> SUFFICES ASSUME NEW g \in Links
               PROVE  /\ ToSup(g)' \subseteq ToSup(g)
                      /\ \A r, s : SupBefore(g, r, s)' => SupBefore(g, r, s)
    BY DEF SupFewer
  <2>1. CASE link'[g].toSup = link[g].toSup
    BY <1>2, <2>1 DEF ToSup, SupBefore
  <2>2. CASE link'[g].toSup = <<>>
    BY <1>2, <1>3, <2>2
  <2>3. QED
    BY <1>4, <2>1, <2>2
<1>6. ImgFewer
  <2>1. CASE y.toImage = link[Newest].toImage
    BY <1>2, <2>1 DEF ImgFewer, Carried, CarriedBefore
  <2>2. CASE y.toImage = <<>>
    BY <1>2, <1>3, <2>2 DEF ImgFewer
  <2>3. QED
    BY <2>1, <2>2
<1>7. \A g \in Links : IsDown(g) => IsDown(g)'
  BY <1>2 DEF IsDown
<1>8. y.toImage = <<>> => Carried' = {} /\ link'[Newest'].state = "down" /\ link'[Newest'].toImage = <<>>
  BY <1>2, <1>3
<1>9. QED
  BY <1>2, <1>5, <1>6, <1>7, <1>8 DEF LinkStep, IsDown

\* The image lets its link go down, with all that was on it.
LEMMA CutStep ==
  ASSUME Shapes, LinksOK,
         link' = [link EXCEPT ![Newest].state = "down", ![Newest].toImage = <<>>]
  PROVE  LinkStep /\ SupFewer /\ ImgFewer /\ Carried' = {} /\ IsDown(Newest)'
<1> DEFINE y == [link[Newest] EXCEPT !.state = "down", !.toImage = <<>>]
<1>1. Newest \in 1 .. LinkLimit /\ link[Newest] \in LinkType
  BY NewestFacts, LinkParts
<1>2. link' = [link EXCEPT ![Newest] = y]
  BY <1>1 DEF Shapes
<1>3. <<>> \in Seq(Frames)
  OBVIOUS
<1>4. y \in LinkType /\ y.state = "down" /\ y.toSup = link[Newest].toSup /\ y.toImage = <<>>
  BY <1>1, <1>3 DEF LinkType
<1> HIDE DEF y
<1>5. QED
  BY <1>2, <1>4, DropStep

\* A link breaks under both ends.
LEMMA BreakStep ==
  ASSUME Shapes, LinksOK, LinkBreaks
  PROVE  /\ LinkStep /\ SupFewer /\ ImgFewer
         /\ \/ torn' = torn \cup PanesOnLink /\ Carried' = {}
            \/ UNCHANGED torn /\ link'[Newest].toImage = link[Newest].toImage
<1>1. Newest \in 1 .. LinkLimit /\ link[Newest] \in LinkType
  BY NewestFacts, LinkParts
<1>2. <<>> \in Seq(Frames) /\ <<>> \in Seq(Requests)
  OBVIOUS
<1>3. CASE /\ link' = [link EXCEPT ![Newest].state = "down", ![Newest].toImage = <<>>,
                                   ![Newest].toSup = <<>>]
           /\ torn' = torn \cup PanesOnLink
  <2> DEFINE y == [link[Newest] EXCEPT !.state = "down", !.toImage = <<>>, !.toSup = <<>>]
  <2>1. link' = [link EXCEPT ![Newest] = y]
    BY <1>1, <1>3 DEF Shapes
  <2>2. y \in LinkType /\ y.state = "down" /\ y.toSup = <<>> /\ y.toImage = <<>>
    BY <1>1, <1>2 DEF LinkType
  <2> HIDE DEF y
  <2>3. QED
    BY <1>3, <2>1, <2>2, DropStep
<1>4. CASE link' = [link EXCEPT ![Newest].state = "down"] /\ UNCHANGED torn
  <2> DEFINE y == [link[Newest] EXCEPT !.state = "down"]
  <2>1. link' = [link EXCEPT ![Newest] = y]
    BY <1>1, <1>4 DEF Shapes
  <2>2. /\ y \in LinkType /\ y.state = "down" /\ y.toSup = link[Newest].toSup
        /\ y.toImage = link[Newest].toImage
    BY <1>1, <1>2 DEF LinkType
  <2> HIDE DEF y
  <2>3. QED
    BY <1>4, <2>1, <2>2, DropStep
<1>5. QED
  BY <1>3, <1>4 DEF LinkBreaks

\* A link is opened: it is the newest, and carries the Hello.
LEMMA ConnectStep ==
  ASSUME Shapes, LinksOK, Connect
  PROVE  /\ Typed(link') /\ Newest' = Newest + 1 /\ Links' = 1 .. Newest + 1
         /\ Newest + 1 \in 1 .. LinkLimit /\ Newest + 1 \notin Links /\ Newest \in Nat
         /\ Carried' = {} /\ link'[Newest + 1].toImage = <<>>
         /\ \A g \in Links : g \in Links' /\ link'[g] = link[g]
         /\ \A g \in Links' : g \notin Links => \A r \in ToSup(g)' : r.kind = "hello"
<1> DEFINE n == Newest + 1  y == [Unopened EXCEPT !.state = "queued",
                                                  !.toSup = <<Request("hello", NoPane, 0)>>]
<1>1. /\ Newest \in Nat /\ Newest \in 1 .. LinkLimit /\ Links = 1 .. Newest /\ Newest < LinkLimit
      /\ n \in 1 .. LinkLimit /\ n \notin Links /\ n \in Nat /\ LinkLimit \in Nat
  BY NewestFacts, WindowAssumption DEF Connect
<1>2. Request("hello", NoPane, 0) \in Requests
  BY DEF Request, Requests, PlainKinds
<1>3. <<Request("hello", NoPane, 0)>> \in Seq(Requests) /\ <<>> \in Seq(Frames)
      /\ On(<<Request("hello", NoPane, 0)>>) = {Request("hello", NoPane, 0)}
  BY <1>2 DEF On
<1>4. /\ y.state = "queued" /\ y.toSup = <<Request("hello", NoPane, 0)>> /\ y.toImage = <<>>
      /\ y \in LinkType
  BY <1>3 DEF LinkType, Unopened
<1>5. link' = [link EXCEPT ![n] = y]
  BY DEF Connect
<1> HIDE DEF y
<1>6. Typed(link') /\ link'[n] = y /\ \A g \in 1 .. LinkLimit : g # n => link'[g] = link[g]
  BY <1>1, <1>4, <1>5 DEF Typed, Shapes
<1>7. Links' = Links \cup {n}
  BY <1>1, <1>4, <1>6 DEF Links
<1>8. Links' = 1 .. n
  BY <1>1, <1>7
<1>9. Newest' = n
  <2>1. n \in Links' /\ \A h \in Links' : h <= n
    BY <1>1, <1>8
  <2>2. Newest' \in Links' /\ \A h \in Links' : h <= Newest'
    BY <2>1 DEF Newest
  <2>3. QED
    BY <1>1, <1>8, <2>1, <2>2
<1>10. Carried' = {}
  BY <1>4, <1>6, <1>9, QueueEmpty DEF Carried
<1>11. On(link'[n].toSup) = {Request("hello", NoPane, 0)}
  BY <1>3, <1>4, <1>6
<1>12. n = Newest + 1
  OBVIOUS
<1> HIDE DEF n
<1>13. \A r \in On(link'[n].toSup) : r.kind = "hello"
  BY <1>11 DEF Request
<1>14. \A g \in Links : g \in Links' /\ link'[g] = link[g]
  BY <1>1, <1>6, <1>7 DEF Links
<1>15. \A g \in Links' : g \notin Links => \A r \in ToSup(g)' : r.kind = "hello"
  BY <1>7, <1>13 DEF ToSup
<1>16. QED
  BY <1>1, <1>4, <1>6, <1>8, <1>9, <1>10, <1>12, <1>14, <1>15

-----------------------------------------------------------------------------
(* Steps of the supervisor and of its panes *)

\* The image and the session are left alone.
ImageSame == UNCHANGED <<bookVars, imageVars, sessionVars>>

\* A pane that is opened, ended or over stays so, and takes no unit back.
PaneMono ==
  \A p \in Panes :
    /\ Known(p) => Known(p)'
    /\ readerPc[p] = "ended" => readerPc'[p] = "ended"
    /\ Over(p) => Over(p)'
    /\ taken[p] <= taken'[p]

NoneOpened == \A p \in Panes : Known(p)' => Known(p)

\* What the session has let go of stays so, and what the image knows is right.
LEMMA SupSide ==
  ASSUME LinkInv, Shapes', ImageSame, LinkStep, PaneMono, generation' <= Newest
  PROVE  /\ LinksOK' /\ ImageOK'
         /\ \A p \in Panes : LetGo(p) => LetGo(p)'
         /\ IsOver' <=> IsOver
<1> USE DEF ImageSame, bookVars, imageVars, sessionVars
<1>1. LinksOK'
  <2>1. Links' = Links /\ Newest' = Newest /\ \A g \in Links : IsDown(g) => IsDown(g)'
    BY DEF LinkStep
  <2>2. Newest \in Links /\ LinksOK
    BY NewestFacts DEF LinkInv
  <2>3. \E n \in 1 .. LinkLimit : Links' = 1 .. n
    BY <2>1, <2>2 DEF LinksOK
  <2>4. \A g \in Links' : g # Newest' => link'[g].state = "down" /\ link'[g].toImage = <<>>
    BY <2>1, <2>2 DEF LinksOK, IsDown
  <2>5. isClosed' \/ imagePc' \in {"connect", "gone"} =>
          link'[Newest'].state = "down" /\ link'[Newest'].toImage = <<>>
    <3>1. isClosed \/ imagePc \in {"connect", "gone"} => IsDown(Newest)
      BY <2>2 DEF LinksOK, IsDown
    <3>2. IsDown(Newest) => link'[Newest].state = "down" /\ link'[Newest].toImage = <<>>
      BY <2>1, <2>2 DEF IsDown
    <3>3. QED
      BY <2>1, <3>1, <3>2
  <2>6. QED
    BY <2>1, <2>3, <2>4, <2>5 DEF LinksOK
<1>2. Wanted' = Wanted
  BY DEF Wanted
<1>3. \A p \in Panes : LetGo(p) => LetGo(p)'
  BY <1>2 DEF LetGo, PaneMono
<1>4. ImageOK'
  <2>1. spawning # NoPane => spawning \in Panes
    BY DEF LinkInv, Shapes
  <2>2. ImageOK
    BY DEF LinkInv
  <2>3. imagePc' = "spawning" /\ answered' => Known(spawning)'
    BY <2>1, <2>2 DEF ImageOK, PaneMono, Known
  <2>4. QED
    BY <1>2, <2>2, <2>3 DEF ImageOK
<1>5. IsOver' <=> IsOver
  BY DEF IsOver, IsLinking
<1>6. QED
  BY <1>1, <1>3, <1>4, <1>5

\* The requests that are left mean what they meant.
LEMMA SupSideRequests ==
  ASSUME LinkInv, Shapes', ImageSame, LinkStep, PaneMono, generation' <= Newest, SupFewer,
         NoneOpened
  PROVE  RequestsOK'
<1>1. /\ \A p \in Panes : LetGo(p) => LetGo(p)'
      /\ IsOver' <=> IsOver
  BY SupSide
<1>2. Links' = Links /\ Newest' = Newest
  BY DEF LinkStep
<1>3. RequestsOK
  BY DEF LinkInv
<1> SUFFICES ASSUME NEW g \in Links, NEW r \in ToSup(g)'
             PROVE  /\ RequestOK(g, r)'
                    /\ \A s \in ToSup(g)' : SupBefore(g, r, s)' =>
                         ~(r.kind = "spawn" /\ s.kind = "spawn")
  BY <1>2 DEF RequestsOK
<1>4. r \in ToSup(g) /\ RequestOK(g, r)
  BY <1>3 DEF SupFewer, RequestsOK
<1>5. \A s \in ToSup(g)' : SupBefore(g, r, s)' => ~(r.kind = "spawn" /\ s.kind = "spawn")
  BY <1>3, <1>4 DEF SupFewer, RequestsOK
<1>6. r \in Requests
  BY <1>4, LinkParts DEF LinkInv, Links
<1>7. r.kind \in {"kill", "spawn"} => r.pane \in Panes
  BY <1>6 DEF Requests, PlainKinds, PaneKinds
<1>8. RequestOK(g, r)'
  BY <1>1, <1>2, <1>4, <1>7
     DEF RequestOK, NoneOpened, ImageSame, bookVars, imageVars, sessionVars
<1>9. QED
  BY <1>5, <1>8

\* The frames that are left mean what they meant.
LEMMA FrameStays ==
  ASSUME LinkInv, Shapes', ImageSame, LinkStep, PaneMono, NEW f \in Frames, FrameOK(f)
  PROVE  FrameOK(f)'
<1>1. Newest' = Newest /\ imagePc' = imagePc /\ spawning' = spawning /\ answered' = answered
  BY DEF LinkStep, ImageSame, imageVars, sessionVars
<1>2. /\ f.kind \in {"output", "exited"} => f.pane \in Panes
      /\ f.kind = "output" => f.from \in Nat /\ f.count \in Nat
      /\ f.kind = "answer" => f.panes \subseteq Panes
  BY DEF Frames, Outputs, Exits, Answers
<1>3. \A p \in Panes : taken[p] \in Nat /\ taken'[p] \in Nat
  BY WindowAssumption DEF LinkInv, Shapes, TypeOK
<1>4. f.kind = "output" => f.from + f.count <= taken'[f.pane]
  BY <1>2, <1>3 DEF FrameOK, PaneMono
<1>5. f.kind = "exited" => readerPc'[f.pane] = "ended"
  BY <1>2 DEF FrameOK, PaneMono
<1>6. f.kind = "answer" /\ f.of = "spawn" => Known(spawning)'
  <2>1. imagePc = "spawning" => spawning \in Panes
    BY DEF LinkInv, ImageOK, Shapes
  <2>2. QED
    BY <1>1, <2>1 DEF FrameOK, PaneMono, Known
<1>7. f.kind = "answer" /\ f.of = "list" => \A p \in f.panes : Known(p)'
  BY <1>2 DEF FrameOK, PaneMono
<1>8. f.kind = "answer" /\ f.of = "kill" => f.pane \in Panes /\ Over(f.pane)'
  BY DEF FrameOK, PaneMono
<1>9. QED
  BY <1>1, <1>4, <1>5, <1>6, <1>7, <1>8 DEF FrameOK

\* The supervisor's side when frames go.
LEMMA SupSideFewer ==
  ASSUME LinkInv, Shapes', ImageSame, LinkStep, PaneMono, ImgFewer
  PROVE  FramesOK' /\ EndsOK'
<1>1. Carried \subseteq Frames /\ FramesOK /\ EndsOK
  BY CarriedType DEF LinkInv
<1>2. FramesOK'
  <2>1. \A f \in Carried' : f \in Carried /\ f \in Frames /\ FrameOK(f)
    BY <1>1 DEF ImgFewer, FramesOK
  <2>2. \A f \in Carried' : FrameOK(f)'
    BY <2>1, FrameStays
  <2>3. \A f, h \in Carried' : CarriedBefore(f, h)' => FollowsOK(f, h)
    BY <1>1 DEF ImgFewer, FramesOK
  <2>4. QED
    BY <2>2, <2>3 DEF FramesOK, FollowsOK
<1>3. EndsOK'
  <2>1. told' = told /\ killDone' = killDone /\ killDone \subseteq Panes
    BY DEF ImageSame, imageVars, sessionVars, LinkInv, Shapes
  <2>2. \A p \in Panes : told'[p] = "real" => readerPc'[p] = "ended"
    BY <1>1, <2>1 DEF EndsOK, PaneMono
  <2>3. \A p \in killDone' : Over(p)'
    BY <1>1, <2>1 DEF EndsOK, PaneMono
  <2>4. QED
    BY <1>1, <2>1, <2>2, <2>3 DEF EndsOK, ImgFewer
<1>4. QED
  BY <1>2, <1>3

\* The supervisor's side when a frame is added.
LEMMA SupSideMore ==
  ASSUME LinkInv, Shapes', ImageSame, LinkStep, PaneMono, NEW f \in Frames, ImgMore(f),
         FrameOK(f)', \A h \in Carried : FollowsOK(h, f),
         f.kind = "output" => told[f.pane] # "real" /\ f.pane \notin killDone,
         f.kind = "exited" => f.pane \notin killDone
  PROVE  FramesOK' /\ EndsOK'
<1>1. Carried \subseteq Frames /\ FramesOK /\ EndsOK
  BY CarriedType DEF LinkInv
<1>2. FramesOK'
  <2>1. \A h \in Carried : h \in Frames /\ FrameOK(h)
    BY <1>1 DEF FramesOK
  <2>2. \A h \in Carried' : FrameOK(h)'
    BY <2>1, FrameStays DEF ImgMore
  <2>3. \A x, h : CarriedBefore(x, h) => x \in Carried /\ h \in Carried
    BY BeforeIsOn DEF CarriedBefore, Carried
  <2>4. \A x, h \in Carried' : CarriedBefore(x, h)' => FollowsOK(x, h)
    BY <1>1, <2>3 DEF ImgMore, FramesOK
  <2>5. QED
    BY <2>2, <2>4 DEF FramesOK, FollowsOK
<1>3. EndsOK'
  <2>1. told' = told /\ killDone' = killDone /\ killDone \subseteq Panes
    BY DEF ImageSame, imageVars, sessionVars, LinkInv, Shapes
  <2>2. \A p \in Panes : told'[p] = "real" => readerPc'[p] = "ended"
    BY <1>1, <2>1 DEF EndsOK, PaneMono
  <2>3. \A p \in killDone' : Over(p)'
    BY <1>1, <2>1 DEF EndsOK, PaneMono
  <2>4. QED
    BY <1>1, <2>1, <2>2, <2>3 DEF EndsOK, ImgMore
<1>4. QED
  BY <1>2, <1>3

\* The swap is where it was, when nothing that is held goes out.
LEMMA SupSideSwap ==
  ASSUME LinkInv, ImageSame, LinkStep, SupFewer, UNCHANGED <<isPaused, generation>>,
         \/ ImgFewer
         \/ \E f \in Frames : ImgMore(f) /\ ~IsHoldAnswer(f) /\ (f.kind = "output" => ~isPaused)
  PROVE  SwapOK'
<1>1. /\ UNCHANGED <<isClosed, imagePc, answered, isPaused, generation>>
      /\ Links' = Links /\ Newest' = Newest /\ Newest \in Links
  BY NewestFacts DEF ImageSame, bookVars, imageVars, LinkStep, LinkInv
<1>2. /\ ToSup(Newest)' = On(link'[Newest].toSup)
      /\ \A r, s : SupBefore(Newest, r, s)' <=> Before(link'[Newest].toSup, r, s)
  BY <1>1 DEF ToSup, SupBefore
<1>3. /\ ToSup(Newest)' \subseteq ToSup(Newest)
      /\ \A r, s : SupBefore(Newest, r, s)' => SupBefore(Newest, r, s)
  BY <1>1, <1>2 DEF SupFewer, ToSup, SupBefore
<1>4. SwapOK
  BY DEF LinkInv
<1>5. CASE ImgFewer
  BY <1>1, <1>3, <1>4, <1>5 DEF SwapOK, PausingOK, ResumingOK, Held, ImgFewer
<1>6. ASSUME NEW f \in Frames, ImgMore(f), ~IsHoldAnswer(f), f.kind = "output" => ~isPaused
      PROVE  SwapOK'
  <2>1. \A x, h : CarriedBefore(x, h) => x \in Carried /\ h \in Carried
    BY BeforeIsOn DEF CarriedBefore, Carried
  <2>2. Held => Held'
    BY <1>1, <1>6 DEF Held, ImgMore
  <2>3. PausingOK => PausingOK'
    BY <1>1, <1>3, <1>6, <2>1, <2>2 DEF PausingOK, ImgMore
  <2>4. ResumingOK => ResumingOK'
    BY <1>1, <1>3, <1>6, <2>1 DEF ResumingOK, ImgMore, IsHoldAnswer
  <2>5. QED
    BY <1>1, <1>4, <2>2, <2>3, <2>4 DEF SwapOK
<1>7. QED
  BY <1>5, <1>6

\* A step of a pane that adds nothing to a link.
LEMMA SupKeeps ==
  ASSUME LinkInv, Shapes', ImageSame, LinkStep, SupFewer, ImgFewer, PaneMono, NoneOpened,
         UNCHANGED <<isPaused, generation>>, \A p \in Panes : PaneOK(p)', held' \subseteq held,
         ClosingOK'
  PROVE  LinkInv'
<1>1. generation' <= Newest
  BY DEF LinkInv, LinksOK
<1>2. LinksOK' /\ ImageOK'
  BY <1>1, SupSide
<1>3. RequestsOK'
  BY <1>1, SupSideRequests
<1>4. FramesOK' /\ EndsOK'
  BY SupSideFewer
<1>5. SwapOK'
  BY SupSideSwap
<1>6. KnownOK'
  BY DEF LinkInv, KnownOK, ImageSame, bookVars, imageVars, sessionVars, PaneMono, Shapes, TypeOK
<1>7. QED
  BY <1>2, <1>3, <1>4, <1>5, <1>6 DEF LinkInv

\* No pane is closed by the step.
LEMMA SupClosing ==
  ASSUME LinkInv, Shapes', ImageSame, LinkStep, PaneMono, generation' <= Newest,
         UNCHANGED <<kills, closingPanes, isClosing, supPc>>
  PROVE  ClosingOK'
<1>1. (\A p \in Panes : LetGo(p) => LetGo(p)') /\ (IsOver' <=> IsOver)
  BY SupSide
<1>2. /\ imagePc' = imagePc /\ toKill' = toKill /\ toKill \subseteq Panes
      /\ closingPanes \subseteq Panes /\ \A k \in kills : k.pane \in Panes
  BY DEF ImageSame, imageVars, LinkInv, Shapes, TypeOK, KillType
<1>3. ClosingOK
  BY DEF LinkInv
<1>4. QED
  BY <1>1, <1>2, <1>3 DEF ClosingOK, PaneMono

\* The types of the supervisor's parts; those of the image's are left alone.
SinkTypes ==
  /\ supPc \in {"accept", "serve", "broken", "stop", "closing", "joining", "ending", "gone"}
  /\ hasWriter \in BOOLEAN /\ isPaused \in BOOLEAN /\ isClosing \in BOOLEAN
  /\ generation \in 1 .. LinkLimit
  /\ version \in Versions \cup {"none"}
  /\ credit \in [Panes -> 0 .. Window]
  /\ closingPanes \subseteq Panes /\ endedPanes \subseteq Panes
PaneTypes ==
  /\ held \subseteq Panes /\ running \subseteq held
  /\ readerPc \in [Panes -> ReaderPcs] /\ exitPc \in [Panes -> ExitPcs]
  /\ unsent \in [Panes -> 0 .. PrintLimit] /\ taken \in [Panes -> 0 .. PrintLimit]

\* The types the supervisor's steps need.
LEMMA SupTyped ==
  ASSUME Shapes
  PROVE  SinkTypes /\ PaneTypes /\ kills \subseteq KillType /\ Typed(link)
BY DEF Shapes, TypeOK, SinkTypes, PaneTypes, Typed

\* The supervisor's steps keep the types.
LEMMA SupShapes ==
  ASSUME Shapes, ImageSame, Typed(link'), SinkTypes', PaneTypes', kills' \subseteq KillType
  PROVE  Shapes'
<1>1. TypeOK'
  BY DEF Shapes, TypeOK, ImageSame, SinkTypes, PaneTypes, bookVars, sessionVars
<1>2. QED
  BY <1>1 DEF Shapes, ImageSame, Typed, bookVars, imageVars, sessionVars

\* A step that only a pane p takes part in.
OthersSame(p) ==
  \A q \in Panes : q # p =>
    /\ readerPc'[q] = readerPc[q] /\ exitPc'[q] = exitPc[q]
    /\ unsent'[q] = unsent[q] /\ taken'[q] = taken[q]
    /\ (q \in held' <=> q \in held) /\ (q \in running' <=> q \in running)
    /\ (q \in endedPanes' <=> q \in endedPanes)

\* The panes of a step that one takes part in, which is open already.
LEMMA OnePane ==
  ASSUME LinkInv, ImageSame, NEW p \in Panes, OthersSame(p), PaneOK(p)', Known(p), Known(p)',
         readerPc[p] = "ended" => readerPc'[p] = "ended", Over(p) => Over(p)',
         taken[p] <= taken'[p]
  PROVE  PaneMono /\ NoneOpened /\ \A q \in Panes : PaneOK(q)'
<1>1. \A q \in Panes : PaneOK(q) /\ taken[q] <= taken[q]
  BY WindowAssumption DEF LinkInv, Shapes, TypeOK
<1>2. fed' = fed /\ told' = told
  BY DEF ImageSame, sessionVars
<1>3. \A q \in Panes : q # p => PaneOK(q)'
  BY <1>1, <1>2 DEF PaneOK, OthersSame, Known, Over
<1>4. PaneMono /\ NoneOpened
  BY <1>1 DEF PaneMono, NoneOpened, OthersSame, Known, Over
<1>5. QED
  BY <1>3, <1>4

\* A step of one pane that leaves the links and what closes panes alone.
LEMMA OnePaneKeeps ==
  ASSUME LinkInv, ImageSame, NEW p \in Panes, OthersSame(p), PaneOK(p)', Known(p), Known(p)',
         readerPc[p] = "ended" => readerPc'[p] = "ended", Over(p) => Over(p)',
         taken[p] <= taken'[p], SinkTypes', PaneTypes',
         UNCHANGED <<link, held, isPaused, generation, kills, closingPanes, isClosing, supPc>>
  PROVE  LinkInv'
<1>1. Shapes /\ LinksOK /\ generation' <= Newest
  BY DEF LinkInv, LinksOK
<1>2. LinkStep /\ SupFewer /\ ImgFewer
  BY <1>1, SameStep
<1>3. Shapes'
  BY <1>1, SupShapes, SupTyped
<1>4. PaneMono /\ NoneOpened /\ \A q \in Panes : PaneOK(q)'
  BY OnePane
<1>5. ClosingOK'
  BY <1>1, <1>2, <1>3, <1>4, SupClosing
<1>6. QED
  BY <1>2, <1>3, <1>4, <1>5, SupKeeps

\* ReaderReads keeps the invariant.
LEMMA ReaderReadsInv ==
  ASSUME LinkInv, NEW p \in Panes, ReaderReads(p)
  PROVE  LinkInv'
<1>1. SinkTypes /\ PaneTypes /\ PaneOK(p)
  BY SupTyped DEF LinkInv
<1>2. PICK n \in ChunkSizes : /\ taken[p] + n <= PrintLimit
                              /\ taken' = [taken EXCEPT ![p] = @ + n]
                              /\ unsent' = [unsent EXCEPT ![p] = n]
  BY DEF ReaderReads
<1>3. /\ ImageSame
      /\ UNCHANGED <<supPc, hasWriter, generation, version, credit, isPaused, closingPanes,
                     endedPanes, isClosing, held, running, exitPc, kills, link, fed, told>>
  BY DEF ReaderReads, sinkVars, ImageSame, sessionVars
<1>4. readerPc[p] = "read" /\ readerPc' = [readerPc EXCEPT ![p] = "send"]
  BY DEF ReaderReads
<1>5. n \in Nat /\ n > 0 /\ taken[p] \in Nat /\ PrintLimit \in Nat
  BY WindowAssumption, <1>1 DEF PaneTypes
<1>6. SinkTypes'
  BY <1>1, <1>3 DEF SinkTypes
<1>7. PaneTypes'
  BY <1>1, <1>2, <1>3, <1>4, <1>5 DEF PaneTypes, ReaderPcs
<1>8. /\ readerPc'[p] = "send" /\ unsent'[p] = n /\ taken'[p] = taken[p] + n
      /\ OthersSame(p)
  BY <1>1, <1>2, <1>3, <1>4 DEF PaneTypes, OthersSame
<1>9. PaneOK(p)' /\ Known(p) /\ Known(p)' /\ ~Over(p)
  BY <1>1, <1>3, <1>4, <1>5, <1>8 DEF PaneOK, Known, Over
<1>10. QED
  BY <1>3, <1>4, <1>5, <1>6, <1>7, <1>8, <1>9, OnePaneKeeps

\* ChildEnds keeps the invariant.
LEMMA ChildEndsInv ==
  ASSUME LinkInv, NEW p \in Panes, ChildEnds(p)
  PROVE  LinkInv'
<1>1. SinkTypes /\ PaneTypes /\ PaneOK(p)
  BY SupTyped DEF LinkInv
<1>2. /\ ImageSame /\ p \in running /\ running' = running \ {p}
      /\ UNCHANGED <<supPc, hasWriter, generation, version, credit, isPaused, closingPanes,
                     endedPanes, isClosing, held, readerPc, unsent, taken, exitPc, kills, link,
                     fed, told>>
  BY DEF ChildEnds, sinkVars, ImageSame, sessionVars
<1>3. SinkTypes'
  BY <1>1, <1>2 DEF SinkTypes
<1>4. PaneTypes'
  BY <1>1, <1>2 DEF PaneTypes
<1>5. OthersSame(p) /\ taken[p] <= taken'[p]
  BY <1>1, <1>2, WindowAssumption DEF PaneTypes, OthersSame
<1>6. PaneOK(p)' /\ Known(p) /\ Known(p)' /\ ~Over(p)
  BY <1>1, <1>2 DEF PaneOK, Known, Over
<1>7. QED
  BY <1>2, <1>3, <1>4, <1>5, <1>6, OnePaneKeeps

\* ReaderEnds keeps the invariant.
LEMMA ReaderEndsInv ==
  ASSUME LinkInv, NEW p \in Panes, ReaderEnds(p)
  PROVE  LinkInv'
<1>1. SinkTypes /\ PaneTypes /\ PaneOK(p)
  BY SupTyped DEF LinkInv
<1>2. /\ ImageSame /\ p \notin running /\ readerPc[p] \in {"read", "drain"}
      /\ readerPc' = [readerPc EXCEPT ![p] = "ended"]
      /\ exitPc' = [exitPc EXCEPT ![p] = "send"]
      /\ UNCHANGED <<supPc, hasWriter, generation, version, credit, isPaused, closingPanes,
                     endedPanes, isClosing, held, running, unsent, taken, kills, link, fed, told>>
  BY DEF ReaderEnds, sinkVars, ImageSame, sessionVars
<1>3. SinkTypes'
  BY <1>1, <1>2 DEF SinkTypes
<1>4. PaneTypes'
  BY <1>1, <1>2 DEF PaneTypes, ReaderPcs, ExitPcs
<1>5. /\ OthersSame(p) /\ taken[p] <= taken'[p] /\ readerPc'[p] = "ended" /\ exitPc'[p] = "send"
      /\ unsent[p] \in Nat
  BY <1>1, <1>2, WindowAssumption DEF PaneTypes, OthersSame
<1>6. PaneOK(p)' /\ Known(p) /\ Known(p)' /\ ~Over(p)
  BY <1>1, <1>2, <1>5 DEF PaneOK, Known, Over
<1>7. QED
  BY <1>2, <1>3, <1>4, <1>5, <1>6, OnePaneKeeps

\* OutputGivesUp keeps the invariant.
LEMMA OutputGivesUpInv ==
  ASSUME LinkInv, NEW p \in Panes, OutputGivesUp(p)
  PROVE  LinkInv'
<1>1. SinkTypes /\ PaneTypes /\ PaneOK(p)
  BY SupTyped DEF LinkInv
<1>2. /\ ImageSame /\ readerPc[p] = "send" /\ readerPc' = [readerPc EXCEPT ![p] = "drain"]
      /\ unsent' = [unsent EXCEPT ![p] = 0]
      /\ UNCHANGED <<supPc, hasWriter, generation, version, credit, isPaused, closingPanes,
                     endedPanes, isClosing, held, running, taken, exitPc, kills, link, fed, told>>
  BY DEF OutputGivesUp, sinkVars, ImageSame, sessionVars
<1>3. SinkTypes'
  BY <1>1, <1>2 DEF SinkTypes
<1>4. PaneTypes'
  BY <1>1, <1>2, WindowAssumption DEF PaneTypes, ReaderPcs
<1>5. /\ OthersSame(p) /\ taken[p] <= taken'[p] /\ readerPc'[p] = "drain" /\ unsent'[p] = 0
      /\ taken[p] \in Nat
  BY <1>1, <1>2, WindowAssumption DEF PaneTypes, OthersSame
<1>6. PaneOK(p)' /\ Known(p) /\ Known(p)' /\ ~Over(p)
  BY <1>1, <1>2, <1>5 DEF PaneOK, Known, Over
<1>7. QED
  BY <1>2, <1>3, <1>4, <1>5, <1>6, OnePaneKeeps

\* OutputParks keeps the invariant.
LEMMA OutputParksInv ==
  ASSUME LinkInv, NEW p \in Panes, OutputParks(p)
  PROVE  LinkInv'
<1>1. SinkTypes /\ PaneTypes /\ PaneOK(p)
  BY SupTyped DEF LinkInv
<1>2. /\ ImageSame /\ readerPc[p] = "send" /\ readerPc' = [readerPc EXCEPT ![p] = "parked"]
      /\ UNCHANGED <<supPc, generation, version, credit, isPaused, closingPanes, endedPanes,
                     isClosing, held, running, unsent, taken, exitPc, kills, link, fed, told>>
  BY DEF OutputParks, ImageSame, sessionVars
<1>3. SinkTypes'
  <2>1. hasWriter' \in BOOLEAN
    BY DEF OutputParks
  <2>2. QED
    BY <1>1, <1>2, <2>1 DEF SinkTypes
<1>4. PaneTypes'
  BY <1>1, <1>2 DEF PaneTypes, ReaderPcs
<1>5. OthersSame(p) /\ taken[p] <= taken'[p] /\ readerPc'[p] = "parked"
  BY <1>1, <1>2, WindowAssumption DEF PaneTypes, OthersSame
<1>6. PaneOK(p)' /\ Known(p) /\ Known(p)' /\ ~Over(p)
  BY <1>1, <1>2, <1>5 DEF PaneOK, Known, Over
<1>7. QED
  BY <1>2, <1>3, <1>4, <1>5, <1>6, OnePaneKeeps

\* RecordExit keeps the invariant.
LEMMA RecordExitInv ==
  ASSUME LinkInv, NEW p \in Panes, RecordExit(p)
  PROVE  LinkInv'
<1>1. SinkTypes /\ PaneTypes /\ PaneOK(p)
  BY SupTyped DEF LinkInv
<1>2. /\ ImageSame /\ exitPc[p] = "record" /\ exitPc' = [exitPc EXCEPT ![p] = "done"]
      /\ endedPanes' = endedPanes \cup {p}
      /\ UNCHANGED <<supPc, hasWriter, generation, version, credit, isPaused, closingPanes,
                     isClosing, held, running, readerPc, unsent, taken, kills, link, fed, told>>
  BY DEF RecordExit, ImageSame, sessionVars
<1>3. SinkTypes'
  BY <1>1, <1>2 DEF SinkTypes
<1>4. PaneTypes'
  BY <1>1, <1>2 DEF PaneTypes, ExitPcs
<1>5. OthersSame(p) /\ taken[p] <= taken'[p] /\ exitPc'[p] = "done"
  BY <1>1, <1>2, WindowAssumption DEF PaneTypes, OthersSame
<1>6. PaneOK(p)' /\ Known(p) /\ Known(p)' /\ ~Over(p)
  BY <1>1, <1>2, <1>5 DEF PaneOK, Known, Over
<1>7. QED
  BY <1>2, <1>3, <1>4, <1>5, <1>6, OnePaneKeeps

\* A step of the supervisor, from what it does to each part.
LEMMA SupStep ==
  ASSUME LinkInv, ImageSame, LinkStep, SinkTypes', PaneTypes', kills' \subseteq KillType,
         generation' <= Newest, PaneMono, \A p \in Panes : PaneOK(p)', \A p \in held' : Known(p)',
         RequestsOK', ClosingOK', SwapOK',
         \/ ImgFewer
         \/ \E f \in Frames :
              /\ ImgMore(f) /\ FrameOK(f)' /\ \A h \in Carried : FollowsOK(h, f)
              /\ f.kind = "output" => told[f.pane] # "real" /\ f.pane \notin killDone
              /\ f.kind = "exited" => f.pane \notin killDone
  PROVE  LinkInv'
<1>1. Shapes
  BY DEF LinkInv
<1>2. Typed(link')
  BY DEF LinkStep
<1>3. Shapes'
  BY <1>1, <1>2, SupShapes
<1>4. LinksOK' /\ ImageOK'
  BY <1>3, SupSide
<1>5. FramesOK' /\ EndsOK'
  <2>1. CASE ImgFewer
    BY <1>3, <2>1, SupSideFewer
  <2>2. CASE ~ImgFewer
    <3>1. PICK f \in Frames :
              /\ ImgMore(f) /\ FrameOK(f)' /\ \A h \in Carried : FollowsOK(h, f)
              /\ f.kind = "output" => told[f.pane] # "real" /\ f.pane \notin killDone
              /\ f.kind = "exited" => f.pane \notin killDone
      BY <2>2
    <3>2. QED
      BY <1>3, <3>1, SupSideMore
  <2>3. QED
    BY <2>1, <2>2
<1>6. KnownOK'
  <2>1. \A p \in live \cup driven \cup listed \cup torn \cup rejected \cup exited
                \cup exitsAtConnect : Known(p) /\ p \in Panes
    BY DEF LinkInv, KnownOK, Shapes, TypeOK
  <2>2. QED
    BY <2>1 DEF KnownOK, ImageSame, bookVars, imageVars, sessionVars, PaneMono
<1>7. QED
  BY <1>3, <1>4, <1>5, <1>6 DEF LinkInv

\* What a step closes, it may close.
LEMMA SupCloses ==
  ASSUME LinkInv, ImageSame, LinkStep, SinkTypes', PaneTypes', kills' \subseteq KillType, PaneMono,
         generation' <= Newest,
         \A k \in kills' : k \in kills \/ (LetGo(k.pane) /\ (k.pc = "answer" => Over(k.pane)')),
         \A p \in closingPanes' : p \in closingPanes \/ LetGo(p) \/ Over(p),
         supPc' = "stop" => supPc = "stop" \/ imagePc \in {"ending", "gone"},
         isClosing' \/ supPc' \in {"closing", "joining", "ending", "gone"} =>
           \/ isClosing \/ supPc \in {"closing", "joining", "ending", "gone"}
           \/ imagePc \in {"ending", "gone"} \/ (IsOver /\ imagePc # "spawning")
  PROVE  ClosingOK'
<1>1. Shapes /\ Typed(link')
  BY DEF LinkInv, LinkStep
<1>2. Shapes'
  BY <1>1, SupShapes
<1>3. (\A p \in Panes : LetGo(p) => LetGo(p)') /\ (IsOver' <=> IsOver)
  BY <1>2, SupSide
<1>4. /\ imagePc' = imagePc /\ toKill' = toKill /\ toKill \subseteq Panes
      /\ closingPanes' \subseteq Panes /\ \A k \in kills' : k.pane \in Panes
  BY DEF ImageSame, imageVars, LinkInv, Shapes, SinkTypes, KillType
<1>5. ClosingOK
  BY DEF LinkInv
<1>6. \A k \in kills' : LetGo(k.pane)' /\ (k.pc = "answer" => Over(k.pane)')
  BY <1>3, <1>4, <1>5 DEF ClosingOK, PaneMono
<1>7. \A p \in closingPanes' : LetGo(p)' \/ Over(p)'
  BY <1>3, <1>4, <1>5 DEF ClosingOK, PaneMono
<1>8. \A p \in toKill' : LetGo(p)'
  BY <1>3, <1>4, <1>5 DEF ClosingOK
<1>9. supPc' = "stop" => imagePc' \in {"ending", "gone"}
  BY <1>4, <1>5 DEF ClosingOK
<1>10. isClosing' \/ supPc' \in {"closing", "joining", "ending", "gone"} =>
         imagePc' \in {"ending", "gone"} \/ (IsOver' /\ imagePc' # "spawning")
  BY <1>3, <1>4, <1>5 DEF ClosingOK
<1>11. QED
  BY <1>6, <1>7, <1>8, <1>9, <1>10 DEF ClosingOK

\* A pane writes a frame of its own.
LEMMA OnePaneSends ==
  ASSUME LinkInv, ImageSame, NEW p \in Panes, OthersSame(p), PaneOK(p)', Known(p), Known(p)',
         readerPc[p] = "ended" => readerPc'[p] = "ended", ~Over(p), taken[p] <= taken'[p],
         SinkTypes', PaneTypes',
         UNCHANGED <<held, isPaused, generation, kills, closingPanes, isClosing, supPc>>,
         NEW f \in Frames, link' = Sent(f), link[generation].state = "up", f.pane = p,
         \/ f.kind = "output" /\ readerPc[p] # "ended" /\ ~isPaused
         \/ f.kind = "exited",
         FrameOK(f)'
  PROVE  LinkInv'
<1>1. Shapes /\ LinksOK /\ generation' <= Newest
  BY DEF LinkInv, LinksOK
<1>2. LinkStep /\ SupFewer /\ ImgMore(f)
  BY <1>1, SentStep
<1>3. PaneMono /\ NoneOpened /\ \A q \in Panes : PaneOK(q)'
  BY OnePane
<1>4. kills' \subseteq KillType /\ Shapes'
  BY <1>1, <1>2, SupShapes, SupTyped DEF LinkStep
<1>5. RequestsOK'
  BY <1>1, <1>2, <1>3, <1>4, SupSideRequests
<1>6. ClosingOK'
  BY <1>1, <1>2, <1>3, <1>4, SupCloses
<1>7. SwapOK'
  BY <1>2, SupSideSwap DEF IsHoldAnswer
<1>8. \A q \in held' : Known(q)'
  BY <1>1, <1>3 DEF LinkInv, KnownOK, PaneMono, Shapes, TypeOK
<1>9. \A h \in Carried : FollowsOK(h, f)
  BY DEF LinkInv, FramesOK, FrameOK, FollowsOK
<1>10. /\ f.kind = "output" => told[f.pane] # "real"
       /\ f.pane \notin killDone
  BY DEF LinkInv, EndsOK
<1>11. QED
  BY <1>1, <1>2, <1>3, <1>4, <1>5, <1>6, <1>7, <1>8, <1>9, <1>10, SupStep

\* WriteOutputPart keeps the invariant.
LEMMA WriteOutputPartInv ==
  ASSUME LinkInv, NEW p \in Panes, WriteOutputPart(p)
  PROVE  LinkInv'
<1> DEFINE n == PartCount(p)  f == Output(p, taken[p] - unsent[p], n)
<1>1. SinkTypes /\ PaneTypes /\ PaneOK(p)
  BY SupTyped DEF LinkInv
<1>2. /\ ImageSame /\ readerPc[p] = "send" /\ IsLinkOpen /\ n > 0 /\ link[generation].state = "up"
      /\ link' = Sent(f) /\ unsent' = [unsent EXCEPT ![p] = @ - n]
      /\ credit' = IF version = "whole" THEN credit ELSE [credit EXCEPT ![p] = @ - n]
      /\ readerPc' = [readerPc EXCEPT ![p] = IF unsent[p] = n THEN "read" ELSE "send"]
      /\ UNCHANGED <<supPc, hasWriter, generation, version, isPaused, closingPanes, endedPanes,
                     isClosing, held, running, taken, exitPc, kills, fed, told>>
  BY DEF WriteOutputPart, ImageSame, sessionVars
<1>3. /\ unsent[p] \in Nat /\ taken[p] \in Nat /\ credit[p] \in Nat /\ unsent[p] <= taken[p]
      /\ unsent[p] <= PrintLimit /\ credit[p] <= Window /\ PrintLimit \in Nat /\ Window \in Nat
  BY <1>1, WindowAssumption DEF SinkTypes, PaneTypes, PaneOK
<1>4. n \in Nat /\ n <= unsent[p] /\ (version = "whole" \/ n <= credit[p])
  BY <1>3 DEF PartCount, Least
<1> HIDE DEF n
<1>5. SinkTypes'
  BY <1>1, <1>2, <1>3, <1>4 DEF SinkTypes
<1>6. PaneTypes'
  BY <1>1, <1>2, <1>3, <1>4 DEF PaneTypes, ReaderPcs
<1>7. /\ unsent'[p] = unsent[p] - n /\ taken'[p] = taken[p] /\ OthersSame(p)
      /\ readerPc'[p] = IF unsent[p] = n THEN "read" ELSE "send"
  BY <1>1, <1>2 DEF PaneTypes, OthersSame
<1>8. PaneOK(p)' /\ Known(p) /\ Known(p)' /\ ~Over(p)
  BY <1>1, <1>2, <1>3, <1>4, <1>7 DEF PaneOK, Known, Over
<1>9. PICK e \in Frames : /\ link' = Sent(e) /\ e.kind = "output" /\ e.pane = p
                          /\ e.from = taken[p] - unsent[p] /\ e.count = n
  <2>1. /\ f \in Frames /\ f.kind = "output" /\ f.pane = p /\ f.from = taken[p] - unsent[p]
        /\ f.count = n
    BY <1>2, <1>3, <1>4 DEF Frames, Outputs, Output
  <2> HIDE DEF f
  <2>2. QED
    BY <1>2, <2>1
<1>10. FrameOK(e)'
  BY <1>3, <1>4, <1>7, <1>9 DEF FrameOK
<1>11. ~isPaused
  BY <1>2 DEF IsLinkOpen
<1>12. QED
  BY <1>2, <1>3, <1>5, <1>6, <1>7, <1>8, <1>9, <1>10, <1>11, OnePaneSends

\* SendExit keeps the invariant.
LEMMA SendExitInv ==
  ASSUME LinkInv, NEW p \in Panes, SendExit(p)
  PROVE  LinkInv'
<1>1. SinkTypes /\ PaneTypes /\ PaneOK(p)
  BY SupTyped DEF LinkInv
<1>2. /\ ImageSame /\ exitPc[p] = "send"
      /\ UNCHANGED <<supPc, generation, version, credit, isPaused, closingPanes, endedPanes,
                     isClosing, held, running, readerPc, unsent, taken, kills, fed, told>>
  BY DEF SendExit, ImageSame, sessionVars
<1>3. \/ exitPc' = [exitPc EXCEPT ![p] = "done"] /\ UNCHANGED link
      \/ exitPc' = [exitPc EXCEPT ![p] = "parked"] /\ UNCHANGED link
      \/ /\ exitPc' = [exitPc EXCEPT ![p] = "record"] /\ link[generation].state = "up"
         /\ link' = Sent(Exited(p))
  BY DEF SendExit
<1>4. hasWriter' \in BOOLEAN
  BY <1>1 DEF SendExit, SinkTypes
<1>5. SinkTypes'
  BY <1>1, <1>2, <1>4 DEF SinkTypes
<1>6. PaneTypes'
  BY <1>1, <1>2, <1>3 DEF PaneTypes, ExitPcs
<1>7. OthersSame(p) /\ taken[p] <= taken'[p] /\ exitPc'[p] \in {"done", "parked", "record"}
  BY <1>1, <1>2, <1>3, WindowAssumption DEF PaneTypes, OthersSame
<1>8. readerPc[p] = "ended"
  BY <1>1, <1>2 DEF PaneOK
<1>9. PaneOK(p)' /\ Known(p) /\ Known(p)' /\ ~Over(p)
  BY <1>1, <1>2, <1>7, <1>8 DEF PaneOK, Known, Over
<1>10. CASE UNCHANGED link
  BY <1>2, <1>5, <1>6, <1>7, <1>8, <1>9, <1>10, OnePaneKeeps
<1>11. CASE link[generation].state = "up" /\ link' = Sent(Exited(p))
  <2>1. Exited(p) \in Frames /\ Exited(p).kind = "exited" /\ Exited(p).pane = p
    BY DEF Exited, Frames, Exits
  <2>2. FrameOK(Exited(p))'
    BY <1>2, <1>8, <2>1 DEF FrameOK, Exited
  <2>3. QED
    BY <1>2, <1>5, <1>6, <1>7, <1>8, <1>9, <1>11, <2>1, <2>2, OnePaneSends
<1>12. QED
  BY <1>3, <1>10, <1>11

\* Sends that wait are woken, and panes that are over are let go of.
LEMMA Notified ==
  ASSUME LinkInv, ImageSame, NotifyAll \/ UNCHANGED <<readerPc, exitPc>>,
         UNCHANGED <<unsent, taken>>, held' \subseteq held, running' \subseteq running,
         endedPanes' \subseteq endedPanes, \A p \in held : p \notin held' => Over(p)
  PROVE  PaneTypes' /\ PaneMono /\ NoneOpened /\ \A p \in Panes : PaneOK(p)'
<1>1. PaneTypes /\ (\A p \in Panes : PaneOK(p)) /\ fed' = fed /\ told' = told
  BY SupTyped DEF LinkInv, ImageSame, sessionVars
<1>2. \A p \in Panes :
        /\ readerPc'[p] = readerPc[p] \/ (readerPc[p] = "parked" /\ readerPc'[p] = "send")
        /\ exitPc'[p] = exitPc[p] \/ (exitPc[p] = "parked" /\ exitPc'[p] = "send")
  BY DEF NotifyAll, Woken
<1>3. readerPc' \in [Panes -> ReaderPcs] /\ exitPc' \in [Panes -> ExitPcs]
  BY <1>1 DEF PaneTypes, NotifyAll, Woken, ReaderPcs, ExitPcs
<1>4. running' \subseteq held'
  BY <1>1 DEF PaneTypes, PaneOK, Over
<1>5. PaneTypes'
  BY <1>1, <1>3, <1>4 DEF PaneTypes
<1>6. \A p \in Panes : taken[p] <= taken'[p]
  BY <1>1, WindowAssumption DEF PaneTypes
<1>7. PaneMono /\ NoneOpened
  BY <1>2, <1>6 DEF PaneMono, NoneOpened, Known, Over
<1>8. ASSUME NEW p \in Panes PROVE PaneOK(p)'
  BY <1>1, <1>2 DEF PaneOK, Known, Over
<1>9. QED
  BY <1>5, <1>7, <1>8

\* A step of the supervisor that writes nothing.
LEMMA SupQuiet ==
  ASSUME LinkInv, ImageSame, LinkStep, SupFewer, ImgFewer, SinkTypes', PaneTypes',
         kills' \subseteq KillType, generation' <= Newest, PaneMono, NoneOpened,
         \A p \in Panes : PaneOK(p)', held' \subseteq held, ClosingOK', SwapOK'
  PROVE  LinkInv'
<1>1. Shapes /\ Typed(link')
  BY DEF LinkInv, LinkStep
<1>2. Shapes'
  BY <1>1, SupShapes
<1>3. RequestsOK'
  BY <1>2, SupSideRequests
<1>4. \A p \in held' : Known(p)'
  BY <1>1 DEF LinkInv, KnownOK, PaneMono, Shapes, TypeOK
<1>5. QED
  BY <1>3, <1>4, SupStep

\* The next link is not the image's last word: nothing is held on an older one.
LEMMA AcceptLinkInv ==
  ASSUME LinkInv, AcceptLink
  PROVE  LinkInv'
<1>1. SinkTypes /\ PaneTypes /\ Shapes /\ LinksOK /\ kills \subseteq KillType
  BY SupTyped DEF LinkInv
<1>2. /\ ImageSame /\ generation + 1 \in Links /\ generation' = generation + 1 /\ hasWriter' = TRUE
      /\ version' = "none" /\ isPaused' = FALSE /\ credit' = [p \in Panes |-> Window]
      /\ link' = [link EXCEPT ![generation + 1].state = IF @ = "queued" THEN "up" ELSE @]
      /\ supPc' = "serve" /\ UNCHANGED <<closingPanes, endedPanes, isClosing, kills, held, running,
                                         readerPc, unsent, taken, exitPc>>
  BY DEF AcceptLink, ImageSame, paneVars
<1>3. /\ Newest \in Nat /\ Links = 1 .. Newest /\ generation \in Nat /\ generation < Newest
      /\ generation + 1 <= Newest /\ generation + 1 \in 1 .. LinkLimit /\ Newest \in Links
  BY <1>1, <1>2, NewestFacts DEF Links
<1>4. LinkStep /\ SupFewer /\ ImgFewer
  <2> DEFINE n == generation + 1  x == link[n]
             y == [x EXCEPT !.state = IF x.state = "queued" THEN "up" ELSE x.state]
  <2>1. x \in LinkType /\ x.state # "none"
    BY <1>1, <1>2, <1>3, LinkParts DEF Links
  <2>2. /\ y \in LinkType /\ y.toImage = x.toImage /\ y.toSup = x.toSup /\ y.state # "none"
        /\ x.state = "down" => y.state = "down"
    BY <2>1 DEF LinkType
  <2>3. link' = [link EXCEPT ![n] = y]
    BY <1>2
  <2> HIDE DEF n, y
  <2>4. n \in 1 .. LinkLimit
    BY <1>3 DEF n
  <2>5. Typed(link')
    BY <1>1, <2>2, <2>3, <2>4 DEF Shapes, Typed
  <2>6. link'[n] = y /\ \A g \in 1 .. LinkLimit : g # n => link'[g] = link[g]
    BY <1>1, <2>3, <2>4 DEF Shapes
  <2>7. QED
    BY <1>1, <2>1, <2>2, <2>5, <2>6, StatesStep
<1>5. SinkTypes'
  <2>1. credit' \in [Panes -> 0 .. Window]
    BY <1>2, WindowAssumption
  <2>2. generation' \in 1 .. LinkLimit
    BY <1>2, <1>3
  <2>3. QED
    BY <1>1, <1>2, <2>1, <2>2 DEF SinkTypes
<1>6. PaneTypes' /\ PaneMono /\ NoneOpened /\ \A p \in Panes : PaneOK(p)'
  BY <1>2, Notified
<1>7. ClosingOK'
  BY <1>1, <1>2, <1>3, <1>4, <1>5, <1>6, SupCloses
<1>8. SwapOK'
  <2>1. SwapOK /\ ImageSame
    BY <1>2 DEF LinkInv
  <2>2. /\ UNCHANGED <<isClosed, imagePc, answered>>
        /\ Links' = Links /\ Newest' = Newest
    BY <1>2, <1>4 DEF ImageSame, bookVars, imageVars, LinkStep
  <2>3. /\ ToSup(Newest)' \subseteq ToSup(Newest)
        /\ \A r, s : SupBefore(Newest, r, s)' => SupBefore(Newest, r, s)
    BY <1>3, <1>4, <2>2 DEF SupFewer, ToSup, SupBefore
  <2>4. generation # Newest
    BY <1>3
  <2>5. ~Held
    BY <2>4 DEF Held
  <2>6. PausingOK => PausingOK'
    BY <1>4, <2>2, <2>3, <2>4, <2>5 DEF PausingOK, ImgFewer
  <2>7. ResumingOK => ResumingOK'
    BY <1>4, <2>2, <2>3 DEF ResumingOK, ImgFewer
  <2>8. QED
    BY <2>1, <2>2, <2>5, <2>6, <2>7 DEF SwapOK
<1>9. QED
  BY <1>1, <1>2, <1>3, <1>4, <1>5, <1>6, <1>7, <1>8, SupQuiet

\* IdleExit keeps the invariant.
LEMMA IdleExitInv ==
  ASSUME LinkInv, IdleExit
  PROVE  LinkInv'
<1>1. SinkTypes /\ PaneTypes /\ Shapes /\ LinksOK /\ kills \subseteq KillType /\ ImageOK
  BY SupTyped DEF LinkInv
<1>2. /\ ImageSame /\ supPc' = "closing"
      /\ imagePc = "gone" \/ (isClosed /\ ~IsLinking /\ spawning = NoPane)
      /\ UNCHANGED <<hasWriter, generation, version, credit, isPaused, closingPanes, endedPanes,
                     isClosing, held, running, readerPc, unsent, taken, exitPc, kills, link>>
  BY DEF IdleExit, ImageSame, sinkVars, paneVars
<1>3. LinkStep /\ SupFewer /\ ImgFewer /\ generation' <= Newest
  BY <1>1, <1>2, SameStep DEF LinksOK
<1>4. SinkTypes'
  BY <1>1, <1>2 DEF SinkTypes
<1>5. PaneTypes' /\ PaneMono /\ NoneOpened /\ \A p \in Panes : PaneOK(p)'
  BY <1>2, Notified
<1>6. imagePc = "gone" \/ (IsOver /\ imagePc # "spawning")
  BY <1>1, <1>2 DEF IsOver, ImageOK
<1>7. ClosingOK'
  BY <1>1, <1>2, <1>3, <1>4, <1>5, <1>6, SupCloses
<1>8. SwapOK'
  BY <1>2, <1>3, SupSideSwap
<1>9. QED
  BY <1>1, <1>2, <1>3, <1>4, <1>5, <1>7, <1>8, SupQuiet

\* LinkEnds keeps the invariant.
LEMMA LinkEndsInv ==
  ASSUME LinkInv, LinkEnds
  PROVE  LinkInv'
<1>1. SinkTypes /\ PaneTypes /\ Shapes /\ LinksOK /\ kills \subseteq KillType /\ ClosingOK
  BY SupTyped DEF LinkInv
<1>2. /\ ImageSame /\ supPc' = IF supPc = "stop" THEN "closing" ELSE "accept"
      /\ hasWriter' = FALSE /\ version' = "none"
      /\ link' = [link EXCEPT ![generation].state = "down"]
      /\ UNCHANGED <<generation, credit, isPaused, closingPanes, endedPanes, isClosing, held,
                     running, readerPc, unsent, taken, exitPc, kills>>
  BY DEF LinkEnds, ClearLink, ImageSame, paneVars
<1>3. LinkStep /\ SupFewer /\ ImgFewer
  <2> DEFINE y == [link[generation] EXCEPT !.state = "down"]
  <2>1. generation \in 1 .. LinkLimit /\ link[generation] \in LinkType
        /\ link[generation].state # "none"
    BY <1>1, NewestFacts, LinkParts DEF Links
  <2>2. /\ y \in LinkType /\ y.toImage = link[generation].toImage /\ y.state = "down"
        /\ y.toSup = link[generation].toSup
    BY <2>1 DEF LinkType
  <2>3. link' = [link EXCEPT ![generation] = y]
    BY <1>2
  <2> HIDE DEF y
  <2>4. Typed(link')
    BY <1>1, <2>1, <2>2, <2>3 DEF Shapes, Typed
  <2>5. link'[generation] = y /\ \A g \in 1 .. LinkLimit : g # generation => link'[g] = link[g]
    BY <1>1, <2>1, <2>3 DEF Shapes
  <2>6. QED
    BY <1>1, <2>1, <2>2, <2>4, <2>5, StatesStep
<1>4. SinkTypes' /\ generation' <= Newest
  BY <1>1, <1>2 DEF SinkTypes, LinksOK
<1>5. PaneTypes' /\ PaneMono /\ NoneOpened /\ \A p \in Panes : PaneOK(p)'
  BY <1>2, Notified
<1>6. ClosingOK'
  <2>1. supPc = "stop" => imagePc \in {"ending", "gone"}
    BY <1>1 DEF ClosingOK
  <2>2. QED
    BY <1>1, <1>2, <1>3, <1>4, <1>5, <2>1, SupCloses
<1>7. SwapOK'
  BY <1>2, <1>3, SupSideSwap
<1>8. QED
  BY <1>1, <1>2, <1>3, <1>4, <1>5, <1>6, <1>7, SupQuiet

\* CloseSends keeps the invariant.
LEMMA CloseSendsInv ==
  ASSUME LinkInv, CloseSends
  PROVE  LinkInv'
<1>1. SinkTypes /\ PaneTypes /\ Shapes /\ LinksOK /\ kills \subseteq KillType
  BY SupTyped DEF LinkInv
<1>2. /\ ImageSame /\ supPc = "closing" /\ supPc' = "joining" /\ isClosing' = TRUE /\ NotifyAll
      /\ UNCHANGED <<hasWriter, generation, version, credit, isPaused, closingPanes, endedPanes,
                     held, running, unsent, taken, kills, link>>
  BY DEF CloseSends, ImageSame
<1>3. LinkStep /\ SupFewer /\ ImgFewer /\ generation' <= Newest
  BY <1>1, <1>2, SameStep DEF LinksOK
<1>4. SinkTypes'
  BY <1>1, <1>2 DEF SinkTypes
<1>5. PaneTypes' /\ PaneMono /\ NoneOpened /\ \A p \in Panes : PaneOK(p)'
  BY <1>2, Notified
<1>6. ClosingOK'
  BY <1>1, <1>2, <1>3, <1>4, <1>5, SupCloses
<1>7. SwapOK'
  BY <1>2, <1>3, SupSideSwap
<1>8. QED
  BY <1>1, <1>2, <1>3, <1>4, <1>5, <1>6, <1>7, SupQuiet

\* CloseChildren keeps the invariant.
LEMMA CloseChildrenInv ==
  ASSUME LinkInv, CloseChildren
  PROVE  LinkInv'
<1>1. SinkTypes /\ PaneTypes /\ Shapes /\ LinksOK /\ kills \subseteq KillType
  BY SupTyped DEF LinkInv
<1>2. /\ ImageSame /\ supPc = "joining" /\ supPc' = "ending" /\ running' = {}
      /\ UNCHANGED <<hasWriter, generation, version, credit, isPaused, closingPanes, endedPanes,
                     isClosing, held, readerPc, unsent, taken, exitPc, kills, link>>
  BY DEF CloseChildren, ImageSame, sinkVars
<1>3. LinkStep /\ SupFewer /\ ImgFewer /\ generation' <= Newest
  BY <1>1, <1>2, SameStep DEF LinksOK
<1>4. SinkTypes'
  BY <1>1, <1>2 DEF SinkTypes
<1>5. PaneTypes' /\ PaneMono /\ NoneOpened /\ \A p \in Panes : PaneOK(p)'
  BY <1>2, Notified
<1>6. ClosingOK'
  BY <1>1, <1>2, <1>3, <1>4, <1>5, SupCloses
<1>7. SwapOK'
  BY <1>2, <1>3, SupSideSwap
<1>8. QED
  BY <1>1, <1>2, <1>3, <1>4, <1>5, <1>6, <1>7, SupQuiet

\* A pane that is waited for is over once nothing is left of it to wait for.
LEMMA PaneOverIsOver ==
  ASSUME LinkInv, NEW p \in Panes, Known(p), IsPaneOver(p)
  PROVE  Over(p)
BY DEF LinkInv, PaneOK, IsPaneOver, Over

\* CloseDone keeps the invariant.
LEMMA CloseDoneInv ==
  ASSUME LinkInv, CloseDone
  PROVE  LinkInv'
<1>1. SinkTypes /\ PaneTypes /\ Shapes /\ LinksOK /\ kills \subseteq KillType
  BY SupTyped DEF LinkInv
<1>2. /\ ImageSame /\ supPc = "ending" /\ supPc' = "gone" /\ held' = {}
      /\ link' = [g \in DOMAIN link |-> IF link[g].state = "none" THEN link[g]
                                        ELSE [link[g] EXCEPT !.state = "down"]]
      /\ UNCHANGED <<hasWriter, generation, version, credit, isPaused, closingPanes, endedPanes,
                     isClosing, running, readerPc, unsent, taken, exitPc, kills>>
  BY DEF CloseDone, ImageSame, sinkVars
<1>3. LinkStep /\ SupFewer /\ ImgFewer
  <2>1. \A g \in 1 .. LinkLimit :
          /\ link'[g] \in LinkType
          /\ link'[g].toSup = link[g].toSup /\ link'[g].toImage = link[g].toImage
          /\ link'[g].state = "none" <=> link[g].state = "none"
          /\ link[g].state = "down" => link'[g].state = "down"
    <3> TAKE g \in 1 .. LinkLimit
    <3>1. link[g] \in LinkType
      BY <1>1, LinkParts
    <3>2. link'[g] = IF link[g].state = "none" THEN link[g] ELSE [link[g] EXCEPT !.state = "down"]
      BY <1>1, <1>2 DEF Shapes
    <3>3. QED
      BY <3>1, <3>2 DEF LinkType
  <2>2. Typed(link')
    <3>1. DOMAIN link = 1 .. LinkLimit
      BY <1>1 DEF Shapes
    <3>2. link' = [g \in 1 .. LinkLimit |-> link'[g]]
      BY <1>2, <3>1
    <3>3. QED
      BY <2>1, <3>2 DEF Typed
  <2>3. QED
    BY <1>1, <2>1, <2>2, StatesStep
<1>4. SinkTypes' /\ generation' <= Newest
  BY <1>1, <1>2 DEF SinkTypes, LinksOK
<1>5. \A p \in held : Over(p)
  BY <1>1, PaneOverIsOver DEF CloseDone, LinkInv, KnownOK, PaneTypes
<1>6. PaneTypes' /\ PaneMono /\ NoneOpened /\ \A p \in Panes : PaneOK(p)'
  BY <1>2, <1>5, Notified
<1>7. ClosingOK'
  BY <1>1, <1>2, <1>3, <1>4, <1>6, SupCloses
<1>8. SwapOK'
  BY <1>2, <1>3, SupSideSwap
<1>9. QED
  BY <1>1, <1>2, <1>3, <1>4, <1>6, <1>7, <1>8, SupQuiet

\* The kill threads close only what the session let go of.
LEMMA KillMarkInv ==
  ASSUME LinkInv, NEW k \in kills, KillMark(k)
  PROVE  LinkInv'
<1>1. SinkTypes /\ PaneTypes /\ Shapes /\ LinksOK /\ kills \subseteq KillType /\ ClosingOK
  BY SupTyped DEF LinkInv
<1>2. /\ ImageSame /\ NotifyAll /\ running' = running \ {k.pane}
      /\ closingPanes' = closingPanes \cup {k.pane} /\ credit' = [credit EXCEPT ![k.pane] = Window]
      /\ kills' = (kills \ {k}) \cup {[k EXCEPT !.pc = "join"]}
      /\ UNCHANGED <<supPc, hasWriter, generation, version, isPaused, endedPanes, isClosing, held,
                     unsent, taken, link>>
  BY DEF KillMark, ImageSame
<1>3. LinkStep /\ SupFewer /\ ImgFewer /\ generation' <= Newest
  BY <1>1, <1>2, SameStep DEF LinksOK
<1>4. k \in KillType /\ k.pane \in Panes /\ LetGo(k.pane)
  BY <1>1 DEF KillType, ClosingOK
<1>5. PICK m \in KillType : kills' = (kills \ {k}) \cup {m} /\ m.pane = k.pane /\ m.pc = "join"
  <2> DEFINE m == [k EXCEPT !.pc = "join"]
  <2>1. m \in KillType /\ m.pane = k.pane /\ m.pc = "join"
    BY <1>4 DEF KillType
  <2> HIDE DEF m
  <2>2. kills' = (kills \ {k}) \cup {m}
    BY <1>2 DEF m
  <2>3. QED
    BY <2>1, <2>2
<1>6. SinkTypes'
  BY <1>1, <1>2, <1>4, WindowAssumption DEF SinkTypes
<1>7. PaneTypes' /\ PaneMono /\ NoneOpened /\ \A p \in Panes : PaneOK(p)'
  BY <1>2, Notified
<1>8. kills' \subseteq KillType
  BY <1>1, <1>5
<1>9. ClosingOK'
  <2>1. \A j \in kills' : j \in kills \/ (LetGo(j.pane) /\ (j.pc = "answer" => Over(j.pane)'))
    BY <1>4, <1>5
  <2>2. \A p \in closingPanes' : p \in closingPanes \/ LetGo(p) \/ Over(p)
    BY <1>2, <1>4
  <2>3. supPc' = supPc /\ isClosing' = isClosing
    BY <1>2
  <2>4. QED
    BY <1>2, <1>3, <1>6, <1>7, <1>8, <2>1, <2>2, <2>3, SupCloses
<1>10. SwapOK'
  BY <1>2, <1>3, SupSideSwap
<1>11. QED
  BY <1>2, <1>3, <1>6, <1>7, <1>8, <1>9, <1>10, SupQuiet

\* KillJoin keeps the invariant.
LEMMA KillJoinInv ==
  ASSUME LinkInv, NEW k \in kills, KillJoin(k)
  PROVE  LinkInv'
<1>1. SinkTypes /\ PaneTypes /\ Shapes /\ LinksOK /\ kills \subseteq KillType /\ ClosingOK
  BY SupTyped DEF LinkInv
<1>2. /\ ImageSame /\ IsPaneOver(k.pane) /\ held' = held \ {k.pane}
      /\ endedPanes' = endedPanes \ {k.pane}
      /\ kills' = (kills \ {k}) \cup {[k EXCEPT !.pc = "answer"]}
      /\ UNCHANGED <<supPc, hasWriter, generation, version, credit, isPaused, closingPanes,
                     isClosing, running, readerPc, unsent, taken, exitPc, link>>
  BY DEF KillJoin, ImageSame
<1>3. LinkStep /\ SupFewer /\ ImgFewer /\ generation' <= Newest
  BY <1>1, <1>2, SameStep DEF LinksOK
<1>4. k \in KillType /\ k.pane \in Panes /\ LetGo(k.pane)
  BY <1>1 DEF KillType, ClosingOK
<1>5. PICK m \in KillType : kills' = (kills \ {k}) \cup {m} /\ m.pane = k.pane
  <2> DEFINE m == [k EXCEPT !.pc = "answer"]
  <2>1. m \in KillType /\ m.pane = k.pane /\ m.pc = "answer"
    BY <1>4 DEF KillType
  <2> HIDE DEF m
  <2>2. kills' = (kills \ {k}) \cup {m}
    BY <1>2 DEF m
  <2>3. QED
    BY <2>1, <2>2
<1>6. SinkTypes'
  BY <1>1, <1>2 DEF SinkTypes
<1>7. Over(k.pane)
  BY <1>2, <1>4, PaneOverIsOver DEF LetGo
<1>8. PaneTypes' /\ PaneMono /\ NoneOpened /\ \A p \in Panes : PaneOK(p)'
  <2>1. /\ held' \subseteq held /\ endedPanes' \subseteq endedPanes
        /\ \A p \in held : p \notin held' => Over(p)
    BY <1>2, <1>7
  <2>2. QED
    BY <1>2, <2>1, Notified
<1>9. kills' \subseteq KillType
  BY <1>1, <1>5
<1>10. ClosingOK'
  <2>1. Over(k.pane)'
    BY <1>4, <1>7, <1>8 DEF PaneMono
  <2>2. \A j \in kills' : j \in kills \/ (LetGo(j.pane) /\ (j.pc = "answer" => Over(j.pane)'))
    <3>1. Over(m.pane)'
      BY <1>2, <1>5, <1>7 DEF Over
    <3>2. QED
      BY <1>4, <1>5, <3>1
  <2>3. UNCHANGED <<supPc, isClosing, closingPanes>>
    BY <1>2
  <2>4. QED
    BY <1>2, <1>3, <1>6, <1>8, <1>9, <2>2, <2>3, SupCloses
<1>11. SwapOK'
  BY <1>2, <1>3, SupSideSwap
<1>12. held' \subseteq held
  BY <1>2
<1>13. QED
  BY <1>2, <1>3, <1>6, <1>8, <1>9, <1>10, <1>11, <1>12, SupQuiet

\* KillAnswer keeps the invariant.
LEMMA KillAnswerInv ==
  ASSUME LinkInv, NEW k \in kills, KillAnswer(k)
  PROVE  LinkInv'
<1>1. /\ SinkTypes /\ PaneTypes /\ Shapes /\ LinksOK /\ kills \subseteq KillType /\ ClosingOK
      /\ version \in Versions \cup {"none"}
  BY SupTyped DEF LinkInv, SinkTypes
<1>2. /\ ImageSame /\ k.pc = "answer" /\ kills' = kills \ {k} /\ hasWriter' \in BOOLEAN
      /\ UNCHANGED <<supPc, generation, version, credit, isPaused, closingPanes, endedPanes,
                     isClosing, held, running, readerPc, unsent, taken, exitPc>>
  BY <1>1 DEF KillAnswer, ImageSame, paneVars, SinkTypes
<1>3. k \in KillType /\ k.pane \in Panes /\ k.gen \in Nat /\ Over(k.pane)
  BY <1>1, <1>2, WindowAssumption DEF KillType, ClosingOK
<1>4. SinkTypes' /\ generation' <= Newest /\ kills' \subseteq KillType
  BY <1>1, <1>2 DEF SinkTypes, LinksOK
<1>5. PaneTypes' /\ PaneMono /\ NoneOpened /\ \A p \in Panes : PaneOK(p)'
  BY <1>2, Notified
<1>6. CASE UNCHANGED link
  <2>1. LinkStep /\ SupFewer /\ ImgFewer
    BY <1>1, <1>6, SameStep
  <2>2. ClosingOK'
    BY <1>2, <1>4, <1>5, <2>1, SupCloses
  <2>3. SwapOK'
    BY <1>2, <2>1, SupSideSwap
  <2>4. QED
    BY <1>2, <1>4, <1>5, <2>1, <2>2, <2>3, SupQuiet
<1>7. CASE /\ k.gen = generation /\ link[generation].state = "up"
           /\ link' = Sent(Answer("kill", k.pane, k.gen, {}))
  <2>1. PICK f \in Frames : /\ link' = Sent(f) /\ f.kind = "answer" /\ f.of = "kill"
                            /\ f.pane = k.pane /\ f.gen = k.gen
    BY <1>1, <1>3, <1>7 DEF Answer, Frames, Answers, PaneKinds
  <2>2. LinkStep /\ SupFewer /\ ImgMore(f) /\ generation = Newest
    BY <1>1, <1>7, <2>1, SentStep
  <2>3. ClosingOK'
    BY <1>2, <1>4, <1>5, <2>2, SupCloses
  <2>4. SwapOK'
    BY <1>2, <2>1, <2>2, SupSideSwap DEF IsHoldAnswer
  <2>5. FrameOK(f)'
    <3>1. f.pane \in Panes /\ Over(f.pane)'
      BY <1>2, <1>3, <2>1 DEF Over
    <3>2. f.gen = Newest'
      BY <1>7, <2>1, <2>2 DEF LinkStep
    <3>3. QED
      BY <2>1, <3>1, <3>2 DEF FrameOK
  <2>6. \A h \in Carried : FollowsOK(h, f)
    BY <2>1 DEF FollowsOK
  <2>7. RequestsOK'
    <3>1. Shapes'
      BY <1>1, <1>2, <1>4, <1>5, <2>2, SupShapes DEF LinkStep
    <3>2. QED
      BY <1>2, <1>4, <1>5, <2>2, <3>1, SupSideRequests
  <2>8. \A p \in held' : Known(p)'
    BY <1>1, <1>2, <1>5 DEF LinkInv, KnownOK, PaneMono, PaneTypes
  <2>9. QED
    BY <1>2, <1>4, <1>5, <2>1, <2>2, <2>3, <2>4, <2>5, <2>6, <2>7, <2>8, SupStep
<1>8. QED
  BY <1>6, <1>7 DEF KillAnswer

\* The request the supervisor serves.
LEMMA AskedRequest ==
  ASSUME LinkInv, NEW kind, Asks(kind)
  PROVE  \E r \in Requests :
           /\ r = Head(link[generation].toSup) /\ r.kind = kind /\ r.pane = AskedPane
           /\ link[generation].toSup # <<>> /\ supPc = "serve"
           /\ generation \in Links /\ generation <= Newest
           /\ r \in ToSup(generation) /\ RequestOK(generation, r)
           /\ kind \in PaneKinds => r.pane \in Panes
           /\ r.count \in Nat
<1> DEFINE q == link[generation].toSup
<1>1. generation \in Links /\ generation \in 1 .. LinkLimit /\ generation <= Newest
  BY NewestFacts DEF LinkInv, LinksOK
<1>2. q \in Seq(Requests) /\ q # <<>> /\ Head(q).kind = kind /\ supPc = "serve"
  BY <1>1, LinkParts DEF LinkInv, Asks
<1>3. Head(q) \in Requests /\ Head(q) \in On(q)
  BY <1>2, QueueTail
<1>4. Head(q) \in ToSup(generation) /\ RequestOK(generation, Head(q))
  BY <1>1, <1>3 DEF ToSup, LinkInv, RequestsOK
<1>5. Head(q).pane = AskedPane
  BY DEF AskedPane
<1> HIDE DEF q
<1>6. (kind \in PaneKinds => Head(q).pane \in Panes) /\ Head(q).count \in Nat
  BY <1>2, <1>3 DEF Requests, PlainKinds, PaneKinds
<1>7. QED
  BY <1>1, <1>2, <1>3, <1>4, <1>5, <1>6 DEF q

\* A request is answered, with f or not at all.
LEMMA Responds ==
  ASSUME LinkInv, ImageSame, NEW kind, Asks(kind), NEW f \in Frames, NEW then,
         RespondWith(f, then), SinkTypes', PaneTypes', UNCHANGED <<generation, kills>>, PaneMono,
         \A p \in Panes : PaneOK(p)', \A p \in held' : Known(p)', RequestsOK', ClosingOK', SwapOK',
         f.kind = "answer",
         ImgMore(f) /\ generation = Newest /\ link[generation].state = "up" =>
           FrameOK(f)' /\ \A h \in Carried : FollowsOK(h, f)
  PROVE  LinkInv'
<1>1. Shapes /\ LinksOK /\ generation' <= Newest /\ kills' \subseteq KillType
      /\ link[generation].toSup # <<>>
  BY SupTyped DEF LinkInv, LinksOK, Asks
<1>2. /\ LinkStep
      /\ \/ /\ ImgMore(f) /\ generation = Newest
            /\ link[generation].state = "up"
         \/ ImgFewer
  BY <1>1, RespondStep
<1>3. QED
  BY <1>1, <1>2, SupStep

\* An answer that no swap waits for.
LEMMA RespondsPlain ==
  ASSUME LinkInv, ImageSame, NEW kind, Asks(kind), NEW f \in Frames, NEW then,
         RespondWith(f, then), SinkTypes', PaneTypes', UNCHANGED <<generation, kills, isPaused>>,
         PaneMono, NoneOpened, \A p \in Panes : PaneOK(p)', held' \subseteq held, ClosingOK',
         f.kind = "answer", f.of \in {"hello", "list", "shutdown"}, f.gen = generation,
         f.of = "list" => \A p \in f.panes : Known(p)'
  PROVE  LinkInv'
<1>1. Shapes /\ LinksOK /\ generation' <= Newest /\ kills' \subseteq KillType
      /\ link[generation].toSup # <<>>
  BY SupTyped DEF LinkInv, LinksOK, Asks
<1>2. /\ LinkStep /\ SupFewer /\ Newest' = Newest
      /\ \/ ImgMore(f) /\ generation = Newest
         \/ ImgFewer
  BY <1>1, RespondStep DEF LinkStep
<1>3. SwapOK'
  BY <1>2, SupSideSwap DEF IsHoldAnswer
<1>4. Shapes'
  BY <1>1, <1>2, SupShapes DEF LinkStep
<1>5. RequestsOK'
  BY <1>1, <1>2, <1>4, SupSideRequests
<1>6. \A p \in held' : Known(p)'
  BY <1>1 DEF LinkInv, KnownOK, PaneMono, Shapes, TypeOK
<1>7. generation = Newest => FrameOK(f)'
  BY <1>2 DEF FrameOK
<1>8. \A h \in Carried : FollowsOK(h, f)
  BY DEF FollowsOK
<1>9. QED
  BY <1>3, <1>5, <1>6, <1>7, <1>8, Responds

\* ServeHello keeps the invariant.
LEMMA ServeHelloInv ==
  ASSUME LinkInv, ServeHello
  PROVE  LinkInv'
<1>1. SinkTypes /\ PaneTypes /\ Shapes /\ LinksOK /\ kills \subseteq KillType
  BY SupTyped DEF LinkInv
<1> DEFINE e == [Answer("hello", NoPane, generation, {}) EXCEPT !.version = version']
<1>2. /\ ImageSame /\ Asks("hello") /\ NotifyAll /\ version' \in Versions
      /\ RespondWith(e, "serve")
      /\ UNCHANGED <<hasWriter, generation, credit, isPaused, closingPanes, endedPanes, isClosing,
                     held, running, unsent, taken, kills>>
  BY DEF ServeHello, ImageSame
<1>3. e \in Frames /\ e.kind = "answer" /\ e.of = "hello" /\ e.gen = generation
  BY <1>1, <1>2 DEF Answer, Frames, Answers, PlainKinds, SinkTypes
<1> HIDE DEF e
<1>4. /\ LinkStep /\ supPc' \in {"serve", "broken"} /\ generation' <= Newest
  BY <1>1, <1>2, <1>3, RespondStep DEF Asks, LinksOK
<1>5. SinkTypes'
  BY <1>1, <1>2, <1>4 DEF SinkTypes
<1>6. PaneTypes' /\ PaneMono /\ NoneOpened /\ \A p \in Panes : PaneOK(p)'
  BY <1>2, Notified
<1>7. ClosingOK'
  BY <1>1, <1>2, <1>4, <1>5, <1>6, SupCloses
<1>8. QED
  BY <1>2, <1>3, <1>5, <1>6, <1>7, RespondsPlain

\* ServeListPanes keeps the invariant.
LEMMA ServeListPanesInv ==
  ASSUME LinkInv, ServeListPanes
  PROVE  LinkInv'
<1>1. SinkTypes /\ PaneTypes /\ Shapes /\ LinksOK /\ kills \subseteq KillType
  BY SupTyped DEF LinkInv
<1> DEFINE e == Answer("list", NoPane, generation, held')
<1>2. /\ ImageSame /\ Asks("list") /\ RespondWith(e, "serve")
      /\ closingPanes' = closingPanes \cup endedPanes /\ held' = held \ endedPanes
      /\ endedPanes' = {}
      /\ credit' = [p \in Panes |-> IF p \in endedPanes THEN Window ELSE credit[p]]
      /\ NotifyAll \/ UNCHANGED <<readerPc, exitPc>>
      /\ UNCHANGED <<hasWriter, generation, version, isPaused, isClosing, running, unsent, taken,
                     kills>>
  BY DEF ServeListPanes, ImageSame
<1>3. e \in Frames /\ e.kind = "answer" /\ e.of = "list" /\ e.gen = generation /\ e.panes = held'
  BY <1>1, <1>2 DEF Answer, Frames, Answers, PlainKinds, SinkTypes, PaneTypes
<1> HIDE DEF e
<1>4. /\ LinkStep /\ supPc' \in {"serve", "broken"} /\ generation' <= Newest
  BY <1>1, <1>2, <1>3, RespondStep DEF Asks, LinksOK
<1>5. SinkTypes'
  <2>1. credit' \in [Panes -> 0 .. Window]
    BY <1>1, <1>2, WindowAssumption DEF SinkTypes
  <2>2. QED
    BY <1>1, <1>2, <1>4, <2>1 DEF SinkTypes
<1>6. \A p \in endedPanes : Over(p)
  BY <1>1 DEF LinkInv, PaneOK, Over, SinkTypes
<1>7. PaneTypes' /\ PaneMono /\ NoneOpened /\ \A p \in Panes : PaneOK(p)'
  BY <1>2, <1>6, Notified
<1>8. ClosingOK'
  BY <1>1, <1>2, <1>4, <1>5, <1>6, <1>7, SupCloses
<1>9. held' \subseteq held /\ \A p \in held' : Known(p)'
  BY <1>1, <1>2, <1>7 DEF LinkInv, KnownOK, PaneMono, PaneTypes
<1>10. QED
  BY <1>2, <1>3, <1>5, <1>7, <1>8, <1>9, RespondsPlain

\* ServeShutdown keeps the invariant.
LEMMA ServeShutdownInv ==
  ASSUME LinkInv, ServeShutdown
  PROVE  LinkInv'
<1>1. SinkTypes /\ PaneTypes /\ Shapes /\ LinksOK /\ kills \subseteq KillType
  BY SupTyped DEF LinkInv
<1> DEFINE e == Answer("shutdown", NoPane, generation, {})
<1>2. /\ ImageSame /\ Asks("shutdown") /\ RespondWith(e, "stop")
      /\ UNCHANGED <<hasWriter, generation, version, credit, isPaused, closingPanes, endedPanes,
                     isClosing, held, running, readerPc, unsent, taken, exitPc, kills>>
  BY DEF ServeShutdown, ImageSame, sinkVars, paneVars
<1>3. e \in Frames /\ e.kind = "answer" /\ e.of = "shutdown" /\ e.gen = generation
  BY <1>1, <1>2 DEF Answer, Frames, Answers, PlainKinds, SinkTypes
<1> HIDE DEF e
<1>4. /\ LinkStep /\ supPc' \in {"stop", "broken"} /\ generation' <= Newest
  BY <1>1, <1>2, <1>3, RespondStep DEF Asks, LinksOK
<1>5. SinkTypes'
  BY <1>1, <1>2, <1>4 DEF SinkTypes
<1>6. PaneTypes' /\ PaneMono /\ NoneOpened /\ \A p \in Panes : PaneOK(p)'
  BY <1>2, Notified
<1>7. imagePc \in {"ending", "gone"}
  BY <1>2, AskedRequest DEF RequestOK
<1>8. ClosingOK'
  BY <1>1, <1>2, <1>4, <1>5, <1>6, <1>7, SupCloses
<1>9. QED
  BY <1>2, <1>3, <1>5, <1>6, <1>8, RespondsPlain

\* ServeGrant keeps the invariant.
LEMMA ServeGrantInv ==
  ASSUME LinkInv, ServeGrant
  PROVE  LinkInv'
<1>1. SinkTypes /\ PaneTypes /\ Shapes /\ LinksOK /\ kills \subseteq KillType
  BY SupTyped DEF LinkInv
<1>2. /\ ImageSame /\ Asks("grant") /\ link' = Consumed
      /\ NotifyAll \/ UNCHANGED <<readerPc, exitPc>>
      /\ UNCHANGED <<supPc, hasWriter, generation, version, isPaused, closingPanes, endedPanes,
                     isClosing, held, running, unsent, taken, kills>>
      /\ \/ UNCHANGED credit
         \/ credit' = [credit EXCEPT ![AskedPane] =
                         Least(@ + Head(link[generation].toSup).count, Window)]
  BY DEF ServeGrant, ImageSame
<1>3. AskedPane \in Panes /\ Head(link[generation].toSup).count \in Nat
  BY <1>2, AskedRequest DEF PaneKinds
<1>4. LinkStep /\ SupFewer /\ ImgFewer /\ generation' <= Newest
  BY <1>1, <1>2, ConsumedStep DEF Asks, LinksOK
<1>5. SinkTypes'
  <2>1. \A c \in 0 .. Window, n \in Nat : Least(c + n, Window) \in 0 .. Window
    BY WindowAssumption DEF Least
  <2>2. credit' \in [Panes -> 0 .. Window]
    BY <1>1, <1>2, <1>3, <2>1, SMTT(60) DEF SinkTypes
  <2>3. QED
    BY <1>1, <1>2, <2>2 DEF SinkTypes
<1>6. PaneTypes' /\ PaneMono /\ NoneOpened /\ \A p \in Panes : PaneOK(p)'
  BY <1>2, Notified
<1>7. ClosingOK'
  BY <1>1, <1>2, <1>4, <1>5, <1>6, SupCloses
<1>8. SwapOK'
  BY <1>2, <1>4, SupSideSwap
<1>9. QED
  BY <1>1, <1>2, <1>4, <1>5, <1>6, <1>7, <1>8, SupQuiet

\* ServeKill keeps the invariant.
LEMMA ServeKillInv ==
  ASSUME LinkInv, ServeKill
  PROVE  LinkInv'
<1>1. SinkTypes /\ PaneTypes /\ Shapes /\ LinksOK /\ kills \subseteq KillType
  BY SupTyped DEF LinkInv
<1>2. /\ ImageSame /\ Asks("kill") /\ link' = Consumed
      /\ kills' = kills \cup {[pane |-> AskedPane, gen |-> generation, pc |-> "mark"]}
      /\ UNCHANGED <<supPc, hasWriter, generation, version, credit, isPaused, closingPanes,
                     endedPanes, isClosing, held, running, readerPc, unsent, taken, exitPc>>
  BY DEF ServeKill, ImageSame, sinkVars, paneVars
<1>3. AskedPane \in Panes /\ LetGo(AskedPane)
  BY <1>2, AskedRequest DEF PaneKinds, RequestOK
<1>4. LinkStep /\ SupFewer /\ ImgFewer /\ generation' <= Newest
  BY <1>1, <1>2, ConsumedStep DEF Asks, LinksOK
<1>5. SinkTypes'
  BY <1>1, <1>2 DEF SinkTypes
<1>6. PaneTypes' /\ PaneMono /\ NoneOpened /\ \A p \in Panes : PaneOK(p)'
  BY <1>2, Notified
<1>7. PICK m \in KillType : kills' = kills \cup {m} /\ LetGo(m.pane) /\ m.pc = "mark"
  <2> DEFINE m == [pane |-> AskedPane, gen |-> generation, pc |-> "mark"]
  <2>1. m \in KillType /\ m.pane = AskedPane /\ m.pc = "mark"
    BY <1>1, <1>3 DEF KillType, SinkTypes
  <2> HIDE DEF m
  <2>2. kills' = kills \cup {m}
    BY <1>2 DEF m
  <2>3. QED
    BY <1>3, <2>1, <2>2
<1>8. kills' \subseteq KillType
      /\ \A k \in kills' : k \in kills \/ (LetGo(k.pane) /\ (k.pc = "answer" => Over(k.pane)'))
  BY <1>1, <1>7
<1>9. ClosingOK'
  BY <1>2, <1>4, <1>5, <1>6, <1>8, SupCloses
<1>10. SwapOK'
  BY <1>2, <1>4, SupSideSwap
<1>11. QED
  BY <1>2, <1>4, <1>5, <1>6, <1>8, <1>9, <1>10, SupQuiet

\* A pause or a resume that is served was not answered before, and nothing of
\* the swap is behind it.
LEMMA ServedHold ==
  ASSUME LinkInv, NEW r \in Requests, r \in ToSup(generation), RequestOK(generation, r),
         IsHold(r), generation \in Links
  PROVE  /\ generation = Newest
         /\ ~isClosed => /\ imagePc # "held" /\ (imagePc \in RunPcs => ~answered)
                         /\ imagePc = "pausing" => r.kind = "pause"
                                                   /\ \A f \in Carried : ~IsHoldAnswer(f)
                         /\ imagePc = "resuming" =>
                              \A f \in Carried : ~(f.kind = "answer" /\ f.of = "resume")
<1>1. generation = Newest /\ (IsOver \/ (imagePc \in {"pausing", "resuming"} /\ ~answered))
  BY DEF IsHold, RequestOK
<1>2. r \in ToSup(Newest)
  BY <1>1
<1>3. ~isClosed /\ imagePc \in RunPcs => ~IsOver
  BY DEF IsOver, RunPcs
<1>4. SwapOK
  BY DEF LinkInv
<1>5. QED
  BY <1>1, <1>2, <1>3, <1>4 DEF SwapOK, PausingOK, ResumingOK, IsHold, RunPcs

\* ServePause keeps the invariant.
LEMMA ServePauseInv ==
  ASSUME LinkInv, ServePause
  PROVE  LinkInv'
<1>1. SinkTypes /\ PaneTypes /\ Shapes /\ LinksOK /\ kills \subseteq KillType
  BY SupTyped DEF LinkInv
<1> DEFINE e == Answer("pause", NoPane, generation, {})
<1>2. /\ ImageSame /\ Asks("pause") /\ RespondWith(e, "serve") /\ isPaused' = TRUE
      /\ UNCHANGED <<hasWriter, generation, version, credit, closingPanes, endedPanes, isClosing,
                     held, running, readerPc, unsent, taken, exitPc, kills>>
  BY DEF ServePause, ImageSame, paneVars
<1>3. PICK f \in Frames : /\ f.kind = "answer" /\ f.of = "pause" /\ f.gen = generation
                          /\ RespondWith(f, "serve")
  <2>1. e \in Frames /\ e.kind = "answer" /\ e.of = "pause" /\ e.gen = generation
    BY <1>1, <1>2 DEF Answer, Frames, Answers, PlainKinds, SinkTypes
  <2> HIDE DEF e
  <2>2. QED
    BY <1>2, <2>1
<1> HIDE DEF e
<1>4. PICK r \in Requests :
        /\ r = Head(link[generation].toSup) /\ r.kind = "pause"
        /\ link[generation].toSup # <<>> /\ supPc = "serve"
        /\ generation \in Links /\ r \in ToSup(generation) /\ RequestOK(generation, r)
  BY <1>2, AskedRequest
<1>5. /\ LinkStep /\ SupFewer /\ Served(r) /\ supPc' \in {"serve", "broken"}
      /\ ImgMore(f) \/ ImgFewer
  BY <1>1, <1>3, <1>4, RespondStep
<1>6. SinkTypes' /\ generation' <= Newest
  BY <1>1, <1>2, <1>5 DEF SinkTypes, LinksOK
<1>7. PaneTypes' /\ PaneMono /\ NoneOpened /\ \A p \in Panes : PaneOK(p)'
  BY <1>2, Notified
<1>8. ClosingOK'
  BY <1>1, <1>2, <1>4, <1>5, <1>6, <1>7, SupCloses
<1>9. RequestsOK'
  <2>1. Shapes'
    BY <1>1, <1>2, <1>5, <1>6, <1>7, SupShapes DEF LinkStep
  <2>2. QED
    BY <1>2, <1>5, <1>6, <1>7, <2>1, SupSideRequests
<1>10. /\ generation = Newest /\ Newest' = Newest /\ Newest \in Links
       /\ UNCHANGED <<isClosed, imagePc, answered, generation>>
       /\ ~isClosed => /\ imagePc # "held" /\ (imagePc \in RunPcs => ~answered)
                       /\ imagePc = "pausing" => \A h \in Carried : ~IsHoldAnswer(h)
                       /\ imagePc = "resuming" =>
                            \A h \in Carried : ~(h.kind = "answer" /\ h.of = "resume")
  BY <1>2, <1>4, <1>5, ServedHold
     DEF IsHold, LinkStep, ImageSame, bookVars, imageVars
<1>11. /\ ToSup(Newest)' \subseteq ToSup(Newest)
       /\ \A a, b : SupBefore(Newest, a, b)' => SupBefore(Newest, a, b)
       /\ \A s \in ToSup(Newest)' : SupBefore(Newest, r, s)
  <2>1. /\ ToSup(Newest)' = On(link'[Newest].toSup)
        /\ \A a, b : SupBefore(Newest, a, b)' <=> Before(link'[Newest].toSup, a, b)
    BY <1>10 DEF ToSup, SupBefore
  <2>2. QED
    BY <1>5, <1>10, <2>1 DEF SupFewer, Served, ToSup, SupBefore
<1>12. SwapOK'
  <2>1. SwapOK /\ r \in ToSup(Newest)
    BY <1>4, <1>10 DEF LinkInv
  <2>2. ASSUME ~isClosed, imagePc = "pausing" PROVE PausingOK'
    <3>1. PausingOK /\ ~answered /\ \A h \in Carried : ~IsHoldAnswer(h)
      BY <1>10, <2>1, <2>2 DEF SwapOK, RunPcs
    <3>2. /\ \A s \in ToSup(Newest)' : s.kind # "resume" /\ ~IsHold(s)
          /\ \A a, b \in ToSup(Newest)' : SupBefore(Newest, a, b)' => ~(IsHold(a) /\ IsHold(b))
      BY <1>4, <1>11, <2>1, <3>1 DEF PausingOK, IsHold
    <3>3. \A h \in Carried' : IsHoldAnswer(h) =>
            h = f /\ \A x \in Carried' : ~CarriedBefore(h, x)'
      <4>1. \A x, h : CarriedBefore(x, h) => x \in Carried
        BY BeforeIsOn DEF CarriedBefore, Carried
      <4>2. QED
        BY <1>5, <3>1, <4>1 DEF ImgMore, ImgFewer
    <3>4. QED
      BY <1>2, <1>10, <3>1, <3>2, <3>3 DEF PausingOK
  <2>3. ASSUME ~isClosed, imagePc = "resuming" PROVE ResumingOK'
    <3>1. ResumingOK /\ \A h \in Carried : ~(h.kind = "answer" /\ h.of = "resume")
      BY <1>10, <2>1, <2>3 DEF SwapOK
    <3>2. \A h \in Carried' : ~(h.kind = "answer" /\ h.of = "resume")
      BY <1>3, <1>5, <3>1 DEF ImgMore, ImgFewer
    <3>3. QED
      BY <1>11, <3>1, <3>2 DEF ResumingOK
  <2>4. QED
    BY <1>10, <2>2, <2>3 DEF SwapOK
<1>13. ASSUME link[generation].state = "up" PROVE FrameOK(f)'
  <2>1. ~isClosed /\ imagePc # "gone"
    BY <1>1, <1>10, <1>13 DEF LinksOK
  <2>2. imagePc \in {"pausing", "resuming"} /\ ~answered
    BY <1>4, <2>1 DEF RequestOK, IsOver
  <2>3. QED
    BY <1>3, <1>10, <2>2 DEF FrameOK
<1>14. \A h \in Carried : FollowsOK(h, f)
  BY <1>3 DEF FollowsOK
<1>15. \A p \in held' : Known(p)'
  BY <1>1, <1>2, <1>7 DEF LinkInv, KnownOK, PaneMono, PaneTypes
<1>16. QED
  BY <1>2, <1>3, <1>6, <1>7, <1>8, <1>9, <1>12, <1>13, <1>14, <1>15, Responds

\* ServeResume keeps the invariant.
LEMMA ServeResumeInv ==
  ASSUME LinkInv, ServeResume
  PROVE  LinkInv'
<1>1. SinkTypes /\ PaneTypes /\ Shapes /\ LinksOK /\ kills \subseteq KillType
  BY SupTyped DEF LinkInv
<1> DEFINE e == Answer("resume", NoPane, generation, {})
<1>2. /\ ImageSame /\ Asks("resume") /\ RespondWith(e, "serve") /\ isPaused' = FALSE
      /\ NotifyAll
      /\ UNCHANGED <<hasWriter, generation, version, credit, closingPanes, endedPanes, isClosing,
                     held, running, unsent, taken, kills>>
  BY DEF ServeResume, ImageSame
<1>3. PICK f \in Frames : /\ f.kind = "answer" /\ f.of = "resume" /\ f.gen = generation
                          /\ RespondWith(f, "serve")
  <2>1. e \in Frames /\ e.kind = "answer" /\ e.of = "resume" /\ e.gen = generation
    BY <1>1, <1>2 DEF Answer, Frames, Answers, PlainKinds, SinkTypes
  <2> HIDE DEF e
  <2>2. QED
    BY <1>2, <2>1
<1> HIDE DEF e
<1>4. PICK r \in Requests :
        /\ r = Head(link[generation].toSup) /\ r.kind = "resume"
        /\ link[generation].toSup # <<>> /\ supPc = "serve"
        /\ generation \in Links /\ r \in ToSup(generation) /\ RequestOK(generation, r)
  BY <1>2, AskedRequest
<1>5. /\ LinkStep /\ SupFewer /\ Served(r) /\ supPc' \in {"serve", "broken"}
      /\ ImgMore(f) \/ ImgFewer
  BY <1>1, <1>3, <1>4, RespondStep
<1>6. SinkTypes' /\ generation' <= Newest
  BY <1>1, <1>2, <1>5 DEF SinkTypes, LinksOK
<1>7. PaneTypes' /\ PaneMono /\ NoneOpened /\ \A p \in Panes : PaneOK(p)'
  BY <1>2, Notified
<1>8. ClosingOK'
  BY <1>1, <1>2, <1>4, <1>5, <1>6, <1>7, SupCloses
<1>9. RequestsOK'
  <2>1. Shapes'
    BY <1>1, <1>2, <1>5, <1>6, <1>7, SupShapes DEF LinkStep
  <2>2. QED
    BY <1>2, <1>5, <1>6, <1>7, <2>1, SupSideRequests
<1>10. /\ generation = Newest /\ Newest' = Newest /\ Newest \in Links
       /\ UNCHANGED <<isClosed, imagePc, answered, generation>>
       /\ ~isClosed => /\ imagePc \notin {"held", "pausing"}
                       /\ imagePc = "resuming" =>
                            \A h \in Carried : ~(h.kind = "answer" /\ h.of = "resume")
  BY <1>2, <1>4, <1>5, ServedHold
     DEF IsHold, LinkStep, ImageSame, bookVars, imageVars
<1>11. /\ ToSup(Newest)' \subseteq ToSup(Newest)
       /\ \A a, b : SupBefore(Newest, a, b)' => SupBefore(Newest, a, b)
       /\ \A s \in ToSup(Newest)' : SupBefore(Newest, r, s)
  <2>1. /\ ToSup(Newest)' = On(link'[Newest].toSup)
        /\ \A a, b : SupBefore(Newest, a, b)' <=> Before(link'[Newest].toSup, a, b)
    BY <1>10 DEF ToSup, SupBefore
  <2>2. QED
    BY <1>5, <1>10, <2>1 DEF SupFewer, Served, ToSup, SupBefore
<1>12. SwapOK'
  <2>1. SwapOK /\ r \in ToSup(Newest)
    BY <1>4, <1>10 DEF LinkInv
  <2>2. ASSUME ~isClosed, imagePc = "resuming" PROVE ResumingOK'
    <3>1. ResumingOK /\ \A h \in Carried : ~(h.kind = "answer" /\ h.of = "resume")
      BY <1>10, <2>1, <2>2 DEF SwapOK
    <3>2. /\ \A s \in ToSup(Newest)' : ~IsHold(s)
          /\ \A a, b \in ToSup(Newest)' :
               SupBefore(Newest, a, b)' => ~(a.kind = "resume" /\ IsHold(b))
      BY <1>4, <1>11, <2>1, <3>1 DEF ResumingOK
    <3>3. \A h \in Carried' : h.kind = "answer" /\ h.of = "resume" =>
            \A x \in Carried' : ~CarriedBefore(h, x)'
      <4>1. \A x, h : CarriedBefore(x, h) => x \in Carried
        BY BeforeIsOn DEF CarriedBefore, Carried
      <4>2. QED
        BY <1>5, <3>1, <4>1 DEF ImgMore, ImgFewer
    <3>4. QED
      BY <1>10, <3>2, <3>3 DEF ResumingOK
  <2>3. QED
    BY <1>10, <2>2 DEF SwapOK
<1>13. ASSUME link[generation].state = "up" PROVE FrameOK(f)'
  <2>1. ~isClosed /\ imagePc # "gone"
    BY <1>1, <1>10, <1>13 DEF LinksOK
  <2>2. imagePc = "resuming" /\ ~answered
    BY <1>4, <1>10, <2>1 DEF RequestOK, IsOver
  <2>3. QED
    BY <1>3, <1>10, <2>2 DEF FrameOK
<1>14. \A h \in Carried : FollowsOK(h, f)
  BY <1>3 DEF FollowsOK
<1>15. \A p \in held' : Known(p)'
  BY <1>1, <1>2, <1>7 DEF LinkInv, KnownOK, PaneMono, PaneTypes
<1>16. QED
  BY <1>2, <1>3, <1>6, <1>7, <1>8, <1>9, <1>12, <1>13, <1>14, <1>15, Responds

\* The pane of a spawn is opened once, and its answer is the only one.
LEMMA ServeSpawnInv ==
  ASSUME LinkInv, ServeSpawn
  PROVE  LinkInv'
<1>1. SinkTypes /\ PaneTypes /\ Shapes /\ LinksOK /\ kills \subseteq KillType
  BY SupTyped DEF LinkInv
<1>2. PICK r \in Requests :
        /\ r = Head(link[generation].toSup) /\ r.kind = "spawn" /\ r.pane = AskedPane
        /\ link[generation].toSup # <<>> /\ supPc = "serve"
        /\ generation \in Links /\ r \in ToSup(generation) /\ RequestOK(generation, r)
        /\ r.pane \in Panes
  BY AskedRequest DEF ServeSpawn, PaneKinds
<1> DEFINE p == r.pane  e == Answer("spawn", p, generation, {})
<1>3. /\ ImageSame /\ Asks("spawn") /\ RespondWith(e, "serve")
      /\ held' = held \cup {p} /\ running' = running \cup {p}
      /\ readerPc' = [readerPc EXCEPT ![p] = "read"]
      /\ UNCHANGED <<hasWriter, generation, version, credit, isPaused, closingPanes, endedPanes,
                     isClosing, unsent, taken, exitPc, kills, fed, told>>
  BY <1>2 DEF ServeSpawn, ImageSame, sinkVars, sessionVars
<1>4. PICK f \in Frames : /\ f.kind = "answer" /\ f.of = "spawn" /\ f.gen = generation
                          /\ f.pane = p /\ RespondWith(f, "serve")
  <2>1. e \in Frames /\ e.kind = "answer" /\ e.of = "spawn" /\ e.gen = generation /\ e.pane = p
    BY <1>1, <1>2, <1>3 DEF Answer, Frames, Answers, PaneKinds, SinkTypes
  <2> HIDE DEF e, p
  <2>2. QED
    BY <1>3, <2>1
<1>5. p \in Panes /\ p = r.pane
  BY <1>2
<1> HIDE DEF e, p
<1>6. /\ generation = Newest /\ ~Known(p)
      /\ IsOver \/ (imagePc = "spawning" /\ spawning = p /\ ~answered)
  BY <1>2, <1>5 DEF RequestOK
<1>7. /\ LinkStep /\ SupFewer /\ Served(r) /\ supPc' \in {"serve", "broken"}
      /\ ImgMore(f) \/ ImgFewer
  BY <1>1, <1>2, <1>4, RespondStep
<1>8. SinkTypes' /\ generation' <= Newest
  BY <1>1, <1>3, <1>7 DEF SinkTypes, LinksOK
<1>9. PaneTypes'
  BY <1>1, <1>3, <1>5 DEF PaneTypes, ReaderPcs
<1>10. /\ readerPc[p] = "none" /\ readerPc'[p] = "read" /\ unsent[p] \in Nat /\ taken[p] \in Nat
       /\ \A q \in Panes : q # p => readerPc'[q] = readerPc[q]
       /\ \A q \in Panes : taken[q] <= taken'[q]
  BY <1>1, <1>3, <1>5, <1>6, WindowAssumption DEF PaneTypes, Known
<1>11. PaneMono
  BY <1>3, <1>10 DEF PaneMono, Known, Over
<1>12. ASSUME NEW q \in Panes PROVE PaneOK(q)'
  <2>1. PaneOK(q)
    BY DEF LinkInv
  <2>2. CASE q = p
    BY <1>3, <1>10, <2>1, <2>2 DEF PaneOK, Known
  <2>3. CASE q # p
    BY <1>3, <1>10, <2>1, <2>3 DEF PaneOK, Known, Over
  <2>4. QED
    BY <2>2, <2>3
<1>13. \A q \in held' : Known(q)'
  BY <1>1, <1>3, <1>10, <1>11 DEF LinkInv, KnownOK, PaneMono, PaneTypes, Known
<1>14. ClosingOK'
  BY <1>1, <1>2, <1>3, <1>7, <1>8, <1>9, <1>11, SupCloses
<1>15. SwapOK'
  BY <1>3, <1>4, <1>7, SupSideSwap DEF IsHoldAnswer
<1>16. Links' = Links /\ Newest' = Newest
  BY <1>7 DEF LinkStep
<1>17. RequestsOK'
  <2>1. /\ \A q \in Panes : LetGo(q) => LetGo(q)'
        /\ IsOver' <=> IsOver
    <3>1. Shapes'
      BY <1>1, <1>3, <1>7, <1>8, <1>9, SupShapes DEF LinkStep
    <3>2. QED
      BY <1>3, <1>7, <1>8, <1>11, <3>1, SupSide
  <2>2. RequestsOK
    BY DEF LinkInv
  <2> SUFFICES ASSUME NEW g \in Links, NEW s \in ToSup(g)'
               PROVE  /\ RequestOK(g, s)'
                      /\ \A t \in ToSup(g)' : SupBefore(g, s, t)' =>
                           ~(s.kind = "spawn" /\ t.kind = "spawn")
    BY <1>16 DEF RequestsOK
  <2>3. s \in ToSup(g) /\ RequestOK(g, s)
    BY <1>7, <2>2 DEF SupFewer, RequestsOK
  <2>4. s.kind # "spawn"
    <3>1. SUFFICES ASSUME s.kind = "spawn" PROVE FALSE
      OBVIOUS
    <3>2. g = generation
      BY <1>6, <2>3, <3>1 DEF RequestOK
    <3>3. SupBefore(g, r, s) /\ r \in ToSup(g)
      BY <1>2, <1>7, <3>2 DEF Served
    <3>4. QED
      BY <1>2, <2>2, <2>3, <3>1, <3>3 DEF RequestsOK
  <2>5. s \in Requests
    BY <1>1, <2>3, LinkParts DEF Links
  <2>6. s.kind = "kill" => s.pane \in Panes
    BY <2>5 DEF Requests, PlainKinds, PaneKinds
  <2>7. RequestOK(g, s)'
    BY <1>3, <1>16, <2>1, <2>3, <2>4, <2>6
       DEF RequestOK, ImageSame, bookVars, imageVars, sessionVars
  <2>8. QED
    BY <2>4, <2>7
<1>18. ASSUME link[generation].state = "up"
       PROVE  FrameOK(f)' /\ \A h \in Carried : FollowsOK(h, f)
  <2>1. ~IsOver
    BY <1>1, <1>6, <1>18 DEF LinksOK, IsOver
  <2>2. imagePc = "spawning" /\ spawning = p /\ ~answered
    BY <1>6, <2>1
  <2>3. UNCHANGED <<imagePc, spawning, answered>>
    BY <1>3 DEF ImageSame, imageVars, sessionVars
  <2>4. FrameOK(f)'
    BY <1>3, <1>4, <1>6, <1>10, <1>16, <2>2, <2>3 DEF FrameOK, Known
  <2>5. \A h \in Carried : FollowsOK(h, f)
    BY <1>4, <1>6, <2>2 DEF LinkInv, FramesOK, FrameOK, FollowsOK
  <2>6. QED
    BY <2>4, <2>5
<1>19. QED
  BY <1>3, <1>4, <1>8, <1>9, <1>11, <1>12, <1>13, <1>14, <1>15, <1>17, <1>18, Responds

-----------------------------------------------------------------------------
(* Steps of the image *)

\* The supervisor and its panes are left alone.
SupSame == UNCHANGED <<supPc, sinkVars, paneVars, kills>>

BookTypes ==
  /\ driven \subseteq Panes /\ ungranted \in [Panes -> Nat] /\ exitsAtConnect \subseteq Panes
  /\ isReconciled \in BOOLEAN /\ rejected \subseteq Panes /\ exited \subseteq Panes
  /\ isClosed \in BOOLEAN
CallTypes ==
  /\ imagePc \in RunPcs \cup LinkPcs \cup EndPcs \cup {"gone"}
  /\ listed \subseteq Panes /\ toKill \subseteq Panes /\ answered \in BOOLEAN
  /\ killWaits \subseteq Panes /\ killDone \subseteq Panes
SessionTypes ==
  /\ live \subseteq Panes /\ spawning \in Panes \cup {NoPane} /\ torn \subseteq Panes
  /\ unparsed \in [Panes -> Nat] /\ fed \in [Panes -> 0 .. PrintLimit]
  /\ told \in [Panes -> {"none", "real", "lost"}]

\* The types the image's steps need.
LEMMA ImgTyped ==
  ASSUME Shapes
  PROVE  BookTypes /\ CallTypes /\ SessionTypes /\ Typed(link)
BY DEF Shapes, TypeOK, BookTypes, CallTypes, SessionTypes, Typed

\* The image's steps keep the types.
LEMMA ImgShapes ==
  ASSUME Shapes, SupSame, Typed(link'), BookTypes', CallTypes', SessionTypes'
  PROVE  Shapes'
<1>1. UNCHANGED <<supPc, hasWriter, generation, version, credit, isPaused, closingPanes, endedPanes,
                  isClosing, held, running, readerPc, unsent, taken, exitPc, kills>>
  BY DEF SupSame, sinkVars, paneVars
<1>2. TypeOK'
  BY <1>1 DEF Shapes, TypeOK, BookTypes, SessionTypes
<1>3. QED
  BY <1>1, <1>2 DEF Shapes, Typed, BookTypes, CallTypes, SessionTypes

\* What is over stays over, and what the session let go of it does not take back.
Steady ==
  /\ \A p \in Panes : LetGo(p) => LetGo(p)'
  /\ IsOver => IsOver'
  /\ imagePc \in {"ending", "gone"} => imagePc' \in {"ending", "gone"}
  /\ IsOver /\ imagePc # "spawning" => imagePc' # "spawning"

\* Whoever waits for what a request or an answer is about still does.
RequestKept(r) ==
  /\ r.kind = "spawn" =>
       IsOver' \/ (imagePc' = "spawning" /\ spawning' = r.pane /\ ~answered')
  /\ IsHold(r) => IsOver' \/ (imagePc' \in {"pausing", "resuming"} /\ ~answered')
AnswerKept(f) ==
  f.kind = "answer" =>
    /\ f.of = "spawn" => imagePc' = "spawning" /\ spawning' = f.pane /\ ~answered'
    /\ f.of = "pause" => imagePc' \in {"pausing", "resuming"} /\ ~answered'
    /\ f.of = "resume" => imagePc' = "resuming" /\ ~answered'

\* A request of the image joins those under way.
LEMMA ImgRequests ==
  ASSUME LinkInv, SupSame, LinkStep, Steady, \A r \in ToSup(Newest) : RequestKept(r),
         \/ SupFewer
         \/ \E r \in Requests : /\ SupMore(r) /\ RequestOK(Newest, r)'
                                /\ r.kind = "spawn" => \A s \in ToSup(Newest) : s.kind # "spawn"
  PROVE  RequestsOK'
<1>1. Links' = Links /\ Newest' = Newest /\ Newest \in Links /\ Shapes /\ RequestsOK
  BY NewestFacts DEF LinkStep, LinkInv
<1>2. \A p \in Panes : Known(p)' <=> Known(p)
  BY DEF SupSame, paneVars, Known
<1>3. ASSUME NEW g \in Links, NEW s \in ToSup(g) PROVE RequestOK(g, s)'
  <2>1. RequestOK(g, s) /\ s \in Requests
    BY <1>1, LinkParts DEF RequestsOK, Links
  <2>2. s.kind \in {"kill", "spawn"} => s.pane \in Panes
    BY <2>1 DEF Requests, PlainKinds, PaneKinds
  <2>3. s.kind = "kill" => LetGo(s.pane)'
    BY <2>1, <2>2 DEF RequestOK, Steady
  <2>4. s.kind = "shutdown" => imagePc' \in {"ending", "gone"}
    BY <2>1 DEF RequestOK, Steady
  <2>5. s.kind = "spawn" \/ IsHold(s) => g = Newest /\ RequestKept(s)
    BY <2>1 DEF RequestOK, IsHold
  <2>6. s.kind = "spawn" => ~Known(s.pane)'
    BY <1>2, <2>1, <2>2 DEF RequestOK
  <2>7. QED
    BY <1>1, <2>3, <2>4, <2>5, <2>6 DEF RequestOK, RequestKept, IsHold
<1>4. CASE SupFewer
  BY <1>1, <1>3, <1>4 DEF SupFewer, RequestsOK
<1>5. ASSUME NEW r \in Requests, SupMore(r), RequestOK(Newest, r)',
             r.kind = "spawn" => \A s \in ToSup(Newest) : s.kind # "spawn"
      PROVE  RequestsOK'
  <2> SUFFICES ASSUME NEW g \in Links, NEW s \in ToSup(g)'
               PROVE  /\ RequestOK(g, s)'
                      /\ \A t \in ToSup(g)' : SupBefore(g, s, t)' =>
                           ~(s.kind = "spawn" /\ t.kind = "spawn")
    BY <1>1 DEF RequestsOK
  <2>1. RequestOK(g, s)'
    <3>1. CASE s \in ToSup(g)
      BY <1>3, <3>1
    <3>2. CASE g = Newest /\ s = r
      <4>1. RequestOK(Newest, s)'
        BY <1>5, <3>2
      <4>2. QED
        BY <1>1, <3>2, <4>1 DEF RequestOK
    <3>3. QED
      BY <1>5, <3>1, <3>2 DEF SupMore
  <2>2. \A x, y : SupBefore(g, x, y) => x \in ToSup(g) /\ y \in ToSup(g)
    BY BeforeIsOn DEF SupBefore, ToSup
  <2>3. \A t \in ToSup(g)' : SupBefore(g, s, t)' => ~(s.kind = "spawn" /\ t.kind = "spawn")
    BY <1>1, <1>5, <2>2 DEF SupMore, RequestsOK
  <2>4. QED
    BY <2>1, <2>3
<1>6. QED
  BY <1>4, <1>5

\* The frames that are left mean what they meant.
LEMMA ImgFrames ==
  ASSUME LinkInv, SupSame, LinkStep, ImgFewer, \A f \in Carried' : AnswerKept(f)
  PROVE  FramesOK'
<1>1. Newest' = Newest /\ FramesOK
  BY DEF LinkStep, LinkInv
<1>2. taken' = taken /\ readerPc' = readerPc /\ exitPc' = exitPc
  BY DEF SupSame, paneVars
<1>3. ASSUME NEW f \in Carried' PROVE FrameOK(f)'
  <2>1. f \in Carried /\ FrameOK(f) /\ AnswerKept(f)
    BY <1>1 DEF ImgFewer, FramesOK
  <2>2. f.kind = "answer" /\ f.of = "spawn" => Known(spawning)'
    BY <1>2, <2>1 DEF FrameOK, AnswerKept, Known
  <2>3. f.kind = "answer" =>
          /\ f.of = "kill" => f.pane \in Panes /\ Over(f.pane)'
          /\ f.of = "list" => \A p \in f.panes : Known(p)'
    BY <1>2, <2>1 DEF FrameOK, Known, Over
  <2>4. QED
    BY <1>1, <1>2, <2>1, <2>2, <2>3 DEF FrameOK, AnswerKept
<1>4. \A f, h \in Carried' : CarriedBefore(f, h)' => FollowsOK(f, h)
  BY <1>1 DEF ImgFewer, FramesOK
<1>5. QED
  BY <1>3, <1>4 DEF FramesOK, FollowsOK

\* Nobody is told more of what has ended, and nothing more is killed.
LEMMA EndsFewer ==
  ASSUME LinkInv, SupSame, ImgFewer, killDone' \subseteq killDone,
         \A p \in Panes : told'[p] = "real" => told[p] = "real"
  PROVE  EndsOK'
<1>1. EndsOK /\ Carried' \subseteq Carried /\ Carried \subseteq Frames
  BY CarriedType DEF LinkInv, ImgFewer
<1>2. readerPc' = readerPc /\ exitPc' = exitPc
  BY DEF SupSame, paneVars
<1>3. \A f \in Carried : f.kind = "output" => f.pane \in Panes
  BY <1>1 DEF Frames, Outputs, Exits, Answers
<1>4. \A p \in Panes : told'[p] = "real" => readerPc'[p] = "ended"
  BY <1>1, <1>2 DEF EndsOK
<1>5. \A p \in killDone' : Over(p)'
  BY <1>1, <1>2 DEF EndsOK, Over
<1>6. QED
  BY <1>1, <1>3, <1>4, <1>5 DEF EndsOK

\* The image's steps keep what a closing supervisor owes.
LEMMA ImgClosing ==
  ASSUME LinkInv, SupSame, Steady, \A p \in toKill' : LetGo(p)'
  PROVE  ClosingOK'
<1>1. UNCHANGED <<supPc, kills, closingPanes, isClosing, readerPc, exitPc>>
  BY DEF SupSame, sinkVars, paneVars
<1>2. ClosingOK /\ closingPanes \subseteq Panes /\ \A k \in kills : k.pane \in Panes
  BY DEF LinkInv, Shapes, TypeOK, KillType
<1>3. \A p \in Panes : Over(p)' <=> Over(p)
  BY <1>1 DEF Over
<1>4. \A k \in kills' : LetGo(k.pane)' /\ (k.pc = "answer" => Over(k.pane)')
  BY <1>1, <1>2, <1>3 DEF ClosingOK, Steady
<1>5. \A p \in closingPanes' : LetGo(p)' \/ Over(p)'
  BY <1>1, <1>2, <1>3 DEF ClosingOK, Steady
<1>6. supPc' = "stop" => imagePc' \in {"ending", "gone"}
  BY <1>1, <1>2 DEF ClosingOK, Steady
<1>7. isClosing' \/ supPc' \in {"closing", "joining", "ending", "gone"} =>
         imagePc' \in {"ending", "gone"} \/ (IsOver' /\ imagePc' # "spawning")
  BY <1>1, <1>2 DEF ClosingOK, Steady
<1>8. QED
  BY <1>4, <1>5, <1>6, <1>7 DEF ClosingOK

\* The panes the image speaks of are open.
KnownHere ==
  \A p \in live \cup driven \cup listed \cup torn \cup rejected \cup exited
          \cup exitsAtConnect : Known(p)

\* A step of the image, from what it does to each part.
LEMMA ImgStep ==
  ASSUME LinkInv, SupSame, LinkStep, ImgFewer, BookTypes', CallTypes', SessionTypes', Steady,
         isClosed' \/ imagePc' \in {"connect", "gone"} =>
           link'[Newest].state = "down" /\ link'[Newest].toImage = <<>>,
         RequestsOK', \A f \in Carried' : AnswerKept(f), EndsOK',
         \A p \in Panes : (fed'[p] = fed[p] /\ told'[p] = told[p]) \/ Known(p),
         KnownHere', \A p \in toKill' : LetGo(p)', ImageOK', SwapOK'
  PROVE  LinkInv'
<1>1. Shapes /\ LinksOK /\ Links' = Links /\ Newest' = Newest /\ Newest \in Links
  BY NewestFacts DEF LinkInv, LinkStep
<1>2. Shapes'
  BY <1>1, ImgShapes DEF LinkStep
<1>3. LinksOK'
  <2>1. generation' = generation /\ \A g \in Links : IsDown(g) => IsDown(g)'
    BY DEF SupSame, sinkVars, LinkStep
  <2>2. \A g \in Links' : g # Newest' => link'[g].state = "down" /\ link'[g].toImage = <<>>
    BY <1>1, <2>1 DEF LinksOK, IsDown
  <2>3. \E n \in 1 .. LinkLimit : Links' = 1 .. n
    BY <1>1 DEF LinksOK
  <2>4. generation' <= Newest'
    BY <1>1, <2>1 DEF LinksOK
  <2>5. QED
    BY <1>1, <2>2, <2>3, <2>4 DEF LinksOK
<1>4. UNCHANGED <<held, running, readerPc, unsent, taken, exitPc, endedPanes>>
  BY DEF SupSame, paneVars, sinkVars
<1>5. ASSUME NEW p \in Panes PROVE PaneOK(p)'
  <2>1. PaneOK(p)
    BY DEF LinkInv
  <2>2. QED
    BY <1>4, <2>1 DEF PaneOK, Known, Over
<1>6. KnownOK'
  <2>1. \A p \in held : Known(p)
    BY DEF LinkInv, KnownOK
  <2>2. QED
    BY <1>4, <2>1 DEF KnownOK, KnownHere, Known
<1>7. FramesOK'
  BY ImgFrames
<1>8. ClosingOK'
  BY ImgClosing
<1>9. QED
  BY <1>2, <1>3, <1>5, <1>6, <1>7, <1>8 DEF LinkInv

\* What holds of an image before each of its steps.
LEMMA ImgBefore ==
  ASSUME LinkInv
  PROVE  /\ Shapes /\ LinksOK /\ BookTypes /\ CallTypes /\ SessionTypes /\ KnownHere /\ ImageOK
         /\ ClosingOK /\ Newest \in Links
         /\ isClosed \/ imagePc \in {"connect", "gone"} =>
              link[Newest].state = "down" /\ link[Newest].toImage = <<>>
         /\ link[Newest].toImage = <<>> => Carried = {}
         /\ imagePc # "spawning" => spawning = NoPane /\ Wanted = live
<1>1. Shapes /\ LinksOK /\ ImageOK /\ ClosingOK /\ KnownHere
  BY DEF LinkInv, KnownOK, KnownHere
<1>2. BookTypes /\ CallTypes /\ SessionTypes /\ Newest \in Links
  BY <1>1, ImgTyped, NewestFacts
<1>3. link[Newest].toImage = <<>> => Carried = {}
  BY QueueEmpty DEF Carried
<1>4. imagePc # "spawning" => spawning = NoPane /\ Wanted = live
  BY <1>1, PaneAssumption DEF ImageOK, Wanted
<1>5. QED
  BY <1>1, <1>2, <1>3, <1>4 DEF LinksOK

\* The session does not take back what it let go of.
LEMMA LetGoStays ==
  ASSUME SupSame, torn \subseteq torn', \A p \in Panes : told[p] # "none" => told'[p] # "none",
         imagePc = "gone" => imagePc' = "gone",
         \A p \in Panes : p \in Wanted' /\ Known(p) => p \in Wanted
  PROVE  \A p \in Panes : LetGo(p) => LetGo(p)'
<1>1. \A p \in Panes : Known(p)' <=> Known(p)
  BY DEF SupSame, paneVars, Known
<1>2. QED
  BY <1>1 DEF LetGo

\* Nobody waits, or whoever does is answered or fails.
LEMMA CallOverAll ==
  ASSUME LinkInv, IsOver => IsOver',
         imagePc \notin {"spawning", "pausing", "resuming"} \/ answered \/ isClosed
  PROVE  (\A r \in ToSup(Newest) : RequestKept(r)) /\ \A f \in Carried : AnswerKept(f)
<1>1. /\ Newest \in Links /\ RequestsOK /\ FramesOK /\ (isClosed => Carried = {})
  BY ImgBefore DEF LinkInv
<1>2. \A r \in ToSup(Newest) : (r.kind = "spawn" \/ IsHold(r)) => IsOver
  BY <1>1 DEF RequestsOK, RequestOK, IsHold, IsOver, IsLinking
<1>3. \A f \in Carried : AnswerKept(f)
  BY <1>1 DEF FramesOK, FrameOK, AnswerKept
<1>4. QED
  BY <1>2, <1>3 DEF RequestKept

\* The call under way is over.
LEMMA CallOver ==
  ASSUME LinkInv, ImgFewer, IsOver => IsOver',
         imagePc \notin {"spawning", "pausing", "resuming"} \/ answered \/ isClosed
  PROVE  (\A r \in ToSup(Newest) : RequestKept(r)) /\ \A f \in Carried' : AnswerKept(f)
BY CallOverAll DEF ImgFewer

\* Whoever waits goes on waiting.
LEMMA CallSame ==
  ASSUME LinkInv, ImgFewer, IsOver => IsOver', UNCHANGED <<imagePc, spawning, answered>>
  PROVE  (\A r \in ToSup(Newest) : RequestKept(r)) /\ \A f \in Carried' : AnswerKept(f)
<1>1. Newest \in Links /\ RequestsOK /\ FramesOK
  BY ImgBefore DEF LinkInv
<1>2. \A f \in Carried' : AnswerKept(f)
  BY <1>1 DEF ImgFewer, FramesOK, FrameOK, AnswerKept
<1>3. QED
  BY <1>1, <1>2 DEF RequestsOK, RequestOK, RequestKept, IsHold

\* A swap goes on, or there is none.
LEMMA SwapSame ==
  ASSUME LinkInv, SupSame, LinkStep, ImgFewer, UNCHANGED <<imagePc, answered, isClosed>>,
         SupFewer \/ \E r \in Requests : SupMore(r) /\ ~IsHold(r)
  PROVE  SwapOK'
<1>1. /\ UNCHANGED <<isPaused, generation>> /\ Newest' = Newest /\ Newest \in Links /\ SwapOK
  BY ImgBefore DEF SupSame, sinkVars, LinkStep, LinkInv
<1>2. PICK r : ~IsHold(r) /\ (SupFewer \/ SupMore(r))
  <2>1. ~IsHold([kind |-> "hello"])
    BY DEF IsHold
  <2>2. QED
    BY <2>1
<1>3. /\ ToSup(Newest)' = On(link'[Newest].toSup)
      /\ \A a, b : SupBefore(Newest, a, b)' <=> Before(link'[Newest].toSup, a, b)
  BY <1>1 DEF ToSup, SupBefore
<1>4. /\ \A x \in ToSup(Newest)' : x \in ToSup(Newest) \/ x = r
      /\ \A x, y : SupBefore(Newest, x, y)' => SupBefore(Newest, x, y) \/ y = r
  BY <1>1, <1>2, <1>3 DEF SupFewer, SupMore, ToSup, SupBefore
<1>5. \A x, y : SupBefore(Newest, x, y) => x \in ToSup(Newest) /\ y \in ToSup(Newest)
  BY BeforeIsOn DEF SupBefore, ToSup
<1>6. Held => Held'
  BY <1>1 DEF Held, ImgFewer
<1>7. ~IsHold(r) /\ r.kind # "resume"
  BY <1>2 DEF IsHold
<1>8. PausingOK => PausingOK'
  BY <1>1, <1>4, <1>5, <1>6, <1>7 DEF PausingOK, ImgFewer
<1>9. ResumingOK => ResumingOK'
  BY <1>1, <1>4, <1>5, <1>7 DEF ResumingOK, ImgFewer
<1>10. QED
  BY <1>1, <1>6, <1>8, <1>9 DEF SwapOK

\* A step of the calls that leaves the links alone.
LEMMA ImgQuiet ==
  ASSUME LinkInv, SupSame, UNCHANGED <<link, fed, told, torn, rejected, exited>>,
         BookTypes', CallTypes', SessionTypes', KnownHere', killDone' \subseteq killDone,
         \A p \in Panes : p \in Wanted' /\ Known(p) => p \in Wanted,
         IsOver => IsOver', imagePc \in {"ending", "gone"} => imagePc' \in {"ending", "gone"},
         imagePc = "gone" => imagePc' = "gone",
         IsOver /\ imagePc # "spawning" => imagePc' # "spawning",
         imagePc \notin {"spawning", "pausing", "resuming"} \/ answered \/ isClosed,
         isClosed' \/ imagePc' \in {"connect", "gone"} => isClosed \/ imagePc \in {"connect", "gone"},
         \A p \in toKill' : LetGo(p)', ImageOK', SwapOK'
  PROVE  LinkInv'
<1>1. Shapes /\ LinksOK
      /\ (isClosed \/ imagePc \in {"connect", "gone"} =>
              link[Newest].state = "down" /\ link[Newest].toImage = <<>>)
  BY ImgBefore
<1>2. LinkStep /\ SupFewer /\ ImgFewer
  BY <1>1, SameStep
<1>3. Steady
  BY LetGoStays DEF Steady
<1>4. (\A r \in ToSup(Newest) : RequestKept(r)) /\ \A f \in Carried' : AnswerKept(f)
  BY <1>2, CallOver
<1>5. RequestsOK'
  BY <1>2, <1>3, <1>4, ImgRequests
<1>6. EndsOK'
  BY <1>2, EndsFewer
<1>7. QED
  BY <1>1, <1>2, <1>3, <1>4, <1>5, <1>6, ImgStep

\* The image gives its panes up.
LEMMA GiveUpLinkingInv ==
  ASSUME LinkInv, GiveUpLinking
  PROVE  LinkInv'
<1>1. /\ BookTypes /\ CallTypes /\ SessionTypes /\ KnownHere /\ ImageOK /\ ClosingOK
      /\ imagePc # "spawning" => spawning = NoPane /\ Wanted = live
  BY ImgBefore
<1>2. /\ SupSame /\ imagePc = "connect"
      /\ imagePc' = "gone"
      /\ UNCHANGED <<link, driven, ungranted, exitsAtConnect, isReconciled, rejected,
                      exited, isClosed, listed, toKill, answered, killWaits, killDone,
                      live, spawning, unparsed, fed, told, torn>>
  BY DEF GiveUpLinking, SupSame, bookVars, imageVars, sessionVars
<1>3. BookTypes' /\ CallTypes' /\ SessionTypes'
  BY <1>1, <1>2 DEF BookTypes, CallTypes, SessionTypes, RunPcs, LinkPcs, EndPcs
<1>4. \A p \in Panes : (Known(p)' <=> Known(p)) /\ (Over(p)' <=> Over(p))
  BY <1>2 DEF SupSame, paneVars, Known, Over
<1>5. \A p \in Wanted' : p \in Wanted
  BY <1>1, <1>2 DEF Wanted
<1>6. KnownHere'
  BY <1>1, <1>2, <1>3, <1>4 DEF KnownHere, BookTypes, CallTypes, SessionTypes
<1>7. /\ IsOver => IsOver'
      /\ isClosed' \/ imagePc' \in {"connect", "gone"} => isClosed \/ imagePc \in {"connect", "gone"}
  BY <1>2 DEF IsOver, IsLinking
<1>8. ImageOK'
  BY <1>1, <1>2, <1>5 DEF ImageOK, RunPcs, LinkPcs, EndPcs
<1>9. \A p \in toKill' : LetGo(p)'
  BY <1>1, <1>2, <1>4, <1>5, LetGoStays DEF ClosingOK, CallTypes
<1>10. SwapOK'
  BY <1>2 DEF SwapOK
<1>11. QED
  BY <1>2, <1>3, <1>5, <1>6, <1>7, <1>8, <1>9, <1>10, ImgQuiet

\* A pane that is listed and is not of the session may be killed.
LEMMA PanesListedInv ==
  ASSUME LinkInv, PanesListed
  PROVE  LinkInv'
<1>1. /\ BookTypes /\ CallTypes /\ SessionTypes /\ KnownHere /\ ImageOK /\ ClosingOK
      /\ imagePc # "spawning" => spawning = NoPane /\ Wanted = live
  BY ImgBefore
<1>2. /\ SupSame /\ imagePc = "list"
      /\ imagePc' = "killUnknown" /\ toKill' = listed \ live
      /\ UNCHANGED <<link, driven, ungranted, exitsAtConnect, isReconciled, rejected,
                      exited, isClosed, listed, answered, killWaits, killDone, live,
                      spawning, unparsed, fed, told, torn>>
  BY DEF PanesListed, SupSame, bookVars, imageVars, sessionVars
<1>3. BookTypes' /\ CallTypes' /\ SessionTypes'
  BY <1>1, <1>2 DEF BookTypes, CallTypes, SessionTypes, RunPcs, LinkPcs, EndPcs
<1>4. \A p \in Panes : (Known(p)' <=> Known(p)) /\ (Over(p)' <=> Over(p))
  BY <1>2 DEF SupSame, paneVars, Known, Over
<1>5. \A p \in Wanted' : p \in Wanted
  BY <1>1, <1>2 DEF Wanted
<1>6. KnownHere'
  BY <1>1, <1>2, <1>3, <1>4 DEF KnownHere, BookTypes, CallTypes, SessionTypes
<1>7. /\ IsOver => IsOver'
      /\ isClosed' \/ imagePc' \in {"connect", "gone"} => isClosed \/ imagePc \in {"connect", "gone"}
  BY <1>2 DEF IsOver, IsLinking
<1>8. ImageOK'
  BY <1>1, <1>2, <1>5 DEF ImageOK, RunPcs, LinkPcs, EndPcs
<1>9. \A p \in toKill' : LetGo(p)'
  BY <1>1, <1>2, <1>3, <1>4, <1>5 DEF LetGo, KnownHere, CallTypes
<1>10. SwapOK'
  BY <1>2 DEF SwapOK
<1>11. QED
  BY <1>2, <1>3, <1>5, <1>6, <1>7, <1>8, <1>9, <1>10, ImgQuiet

\* UnknownKilled keeps the invariant.
LEMMA UnknownKilledInv ==
  ASSUME LinkInv, UnknownKilled
  PROVE  LinkInv'
<1>1. /\ BookTypes /\ CallTypes /\ SessionTypes /\ KnownHere /\ ImageOK /\ ClosingOK
      /\ imagePc # "spawning" => spawning = NoPane /\ Wanted = live
  BY ImgBefore
<1>2. /\ SupSame /\ imagePc = "killing"
      /\ imagePc' = "killUnknown"
      /\ UNCHANGED <<link, driven, ungranted, exitsAtConnect, isReconciled, rejected,
                      exited, isClosed, listed, toKill, answered, killWaits, killDone,
                      live, spawning, unparsed, fed, told, torn>>
  BY DEF UnknownKilled, SupSame, bookVars, imageVars, sessionVars
<1>3. BookTypes' /\ CallTypes' /\ SessionTypes'
  BY <1>1, <1>2 DEF BookTypes, CallTypes, SessionTypes, RunPcs, LinkPcs, EndPcs
<1>4. \A p \in Panes : (Known(p)' <=> Known(p)) /\ (Over(p)' <=> Over(p))
  BY <1>2 DEF SupSame, paneVars, Known, Over
<1>5. \A p \in Wanted' : p \in Wanted
  BY <1>1, <1>2 DEF Wanted
<1>6. KnownHere'
  BY <1>1, <1>2, <1>3, <1>4 DEF KnownHere, BookTypes, CallTypes, SessionTypes
<1>7. /\ IsOver => IsOver'
      /\ isClosed' \/ imagePc' \in {"connect", "gone"} => isClosed \/ imagePc \in {"connect", "gone"}
  BY <1>2 DEF IsOver, IsLinking
<1>8. ImageOK'
  BY <1>1, <1>2, <1>5 DEF ImageOK, RunPcs, LinkPcs, EndPcs
<1>9. \A p \in toKill' : LetGo(p)'
  BY <1>1, <1>2, <1>4, <1>5, LetGoStays DEF ClosingOK, CallTypes
<1>10. SwapOK'
  BY <1>2 DEF SwapOK
<1>11. QED
  BY <1>2, <1>3, <1>5, <1>6, <1>7, <1>8, <1>9, <1>10, ImgQuiet

\* EndedKilled keeps the invariant.
LEMMA EndedKilledInv ==
  ASSUME LinkInv, EndedKilled
  PROVE  LinkInv'
<1>1. /\ BookTypes /\ CallTypes /\ SessionTypes /\ KnownHere /\ ImageOK /\ ClosingOK
      /\ imagePc # "spawning" => spawning = NoPane /\ Wanted = live
  BY ImgBefore
<1>2. /\ SupSame /\ imagePc = "killingEnded"
      /\ imagePc' = "killEnded"
      /\ UNCHANGED <<link, driven, ungranted, exitsAtConnect, isReconciled, rejected,
                      exited, isClosed, listed, toKill, answered, killWaits, killDone,
                      live, spawning, unparsed, fed, told, torn>>
  BY DEF EndedKilled, SupSame, bookVars, imageVars, sessionVars
<1>3. BookTypes' /\ CallTypes' /\ SessionTypes'
  BY <1>1, <1>2 DEF BookTypes, CallTypes, SessionTypes, RunPcs, LinkPcs, EndPcs
<1>4. \A p \in Panes : (Known(p)' <=> Known(p)) /\ (Over(p)' <=> Over(p))
  BY <1>2 DEF SupSame, paneVars, Known, Over
<1>5. \A p \in Wanted' : p \in Wanted
  BY <1>1, <1>2 DEF Wanted
<1>6. KnownHere'
  BY <1>1, <1>2, <1>3, <1>4 DEF KnownHere, BookTypes, CallTypes, SessionTypes
<1>7. /\ IsOver => IsOver'
      /\ isClosed' \/ imagePc' \in {"connect", "gone"} => isClosed \/ imagePc \in {"connect", "gone"}
  BY <1>2 DEF IsOver, IsLinking
<1>8. ImageOK'
  BY <1>1, <1>2, <1>5 DEF ImageOK, RunPcs, LinkPcs, EndPcs
<1>9. \A p \in toKill' : LetGo(p)'
  BY <1>1, <1>2, <1>4, <1>5, LetGoStays DEF ClosingOK, CallTypes
<1>10. SwapOK'
  BY <1>2 DEF SwapOK
<1>11. QED
  BY <1>2, <1>3, <1>5, <1>6, <1>7, <1>8, <1>9, <1>10, ImgQuiet

\* EndKilled keeps the invariant.
LEMMA EndKilledInv ==
  ASSUME LinkInv, EndKilled
  PROVE  LinkInv'
<1>1. /\ BookTypes /\ CallTypes /\ SessionTypes /\ KnownHere /\ ImageOK /\ ClosingOK
      /\ imagePc # "spawning" => spawning = NoPane /\ Wanted = live
  BY ImgBefore
<1>2. /\ SupSame /\ imagePc = "endKilling"
      /\ imagePc' = "endKill"
      /\ UNCHANGED <<link, driven, ungranted, exitsAtConnect, isReconciled, rejected,
                      exited, isClosed, listed, toKill, answered, killWaits, killDone,
                      live, spawning, unparsed, fed, told, torn>>
  BY DEF EndKilled, SupSame, bookVars, imageVars, sessionVars
<1>3. BookTypes' /\ CallTypes' /\ SessionTypes'
  BY <1>1, <1>2 DEF BookTypes, CallTypes, SessionTypes, RunPcs, LinkPcs, EndPcs
<1>4. \A p \in Panes : (Known(p)' <=> Known(p)) /\ (Over(p)' <=> Over(p))
  BY <1>2 DEF SupSame, paneVars, Known, Over
<1>5. \A p \in Wanted' : p \in Wanted
  BY <1>1, <1>2 DEF Wanted
<1>6. KnownHere'
  BY <1>1, <1>2, <1>3, <1>4 DEF KnownHere, BookTypes, CallTypes, SessionTypes
<1>7. /\ IsOver => IsOver'
      /\ isClosed' \/ imagePc' \in {"connect", "gone"} => isClosed \/ imagePc \in {"connect", "gone"}
  BY <1>2 DEF IsOver, IsLinking
<1>8. ImageOK'
  BY <1>1, <1>2, <1>5 DEF ImageOK, RunPcs, LinkPcs, EndPcs
<1>9. \A p \in toKill' : LetGo(p)'
  BY <1>1, <1>2, <1>4, <1>5, LetGoStays DEF ClosingOK, CallTypes
<1>10. SwapOK'
  BY <1>2 DEF SwapOK
<1>11. QED
  BY <1>2, <1>3, <1>5, <1>6, <1>7, <1>8, <1>9, <1>10, ImgQuiet

\* A pane whose exit came while the image linked may be killed.
LEMMA TakeExitsInv ==
  ASSUME LinkInv, TakeExits
  PROVE  LinkInv'
<1>1. /\ BookTypes /\ CallTypes /\ SessionTypes /\ KnownHere /\ ImageOK /\ ClosingOK
      /\ imagePc # "spawning" => spawning = NoPane /\ Wanted = live
  BY ImgBefore
<1>2. /\ SupSame /\ imagePc = "killUnknown"
      /\ imagePc' = "killEnded" /\ isReconciled' = TRUE /\ listed' = (listed \cap live) \ exitsAtConnect
      /\ toKill' = listed \cap live \cap exitsAtConnect
      /\ UNCHANGED <<link, driven, ungranted, exitsAtConnect, rejected, exited,
                      isClosed, answered, killWaits, killDone, live, spawning,
                      unparsed, fed, told, torn>>
  BY DEF TakeExits, SupSame, bookVars, imageVars, sessionVars
<1>3. BookTypes' /\ CallTypes' /\ SessionTypes'
  BY <1>1, <1>2 DEF BookTypes, CallTypes, SessionTypes, RunPcs, LinkPcs, EndPcs
<1>4. \A p \in Panes : (Known(p)' <=> Known(p)) /\ (Over(p)' <=> Over(p))
  BY <1>2 DEF SupSame, paneVars, Known, Over
<1>5. \A p \in Wanted' : p \in Wanted
  BY <1>1, <1>2 DEF Wanted
<1>6. KnownHere'
  BY <1>1, <1>2, <1>3, <1>4 DEF KnownHere, BookTypes, CallTypes, SessionTypes
<1>7. /\ IsOver => IsOver'
      /\ isClosed' \/ imagePc' \in {"connect", "gone"} => isClosed \/ imagePc \in {"connect", "gone"}
  BY <1>2 DEF IsOver, IsLinking
<1>8. ImageOK'
  BY <1>1, <1>2, <1>5 DEF ImageOK, RunPcs, LinkPcs, EndPcs
<1>9. \A p \in toKill' : LetGo(p)'
  BY <1>1, <1>2, <1>3, <1>4 DEF LetGo, KnownHere, ImageOK, CallTypes
<1>10. SwapOK'
  BY <1>2 DEF SwapOK
<1>11. QED
  BY <1>2, <1>3, <1>5, <1>6, <1>7, <1>8, <1>9, <1>10, ImgQuiet

\* ResumeAnswered keeps the invariant.
LEMMA ResumeAnsweredInv ==
  ASSUME LinkInv, ResumeAnswered
  PROVE  LinkInv'
<1>1. /\ BookTypes /\ CallTypes /\ SessionTypes /\ KnownHere /\ ImageOK /\ ClosingOK
      /\ imagePc # "spawning" => spawning = NoPane /\ Wanted = live
  BY ImgBefore
<1>2. /\ SupSame /\ imagePc = "resuming" /\ (answered \/ isClosed)
      /\ imagePc' = "run"
      /\ UNCHANGED <<link, driven, ungranted, exitsAtConnect, isReconciled, rejected,
                      exited, isClosed, listed, toKill, answered, killWaits, killDone,
                      live, spawning, unparsed, fed, told, torn>>
  BY DEF ResumeAnswered, SupSame, bookVars, imageVars, sessionVars
<1>3. BookTypes' /\ CallTypes' /\ SessionTypes'
  BY <1>1, <1>2 DEF BookTypes, CallTypes, SessionTypes, RunPcs, LinkPcs, EndPcs
<1>4. \A p \in Panes : (Known(p)' <=> Known(p)) /\ (Over(p)' <=> Over(p))
  BY <1>2 DEF SupSame, paneVars, Known, Over
<1>5. \A p \in Wanted' : p \in Wanted
  BY <1>1, <1>2 DEF Wanted
<1>6. KnownHere'
  BY <1>1, <1>2, <1>3, <1>4 DEF KnownHere, BookTypes, CallTypes, SessionTypes
<1>7. /\ IsOver => IsOver'
      /\ isClosed' \/ imagePc' \in {"connect", "gone"} => isClosed \/ imagePc \in {"connect", "gone"}
  BY <1>2 DEF IsOver, IsLinking
<1>8. ImageOK'
  BY <1>1, <1>2, <1>5 DEF ImageOK, RunPcs, LinkPcs, EndPcs
<1>9. \A p \in toKill' : LetGo(p)'
  BY <1>1, <1>2, <1>4, <1>5, LetGoStays DEF ClosingOK, CallTypes
<1>10. SwapOK'
  BY <1>2 DEF SwapOK
<1>11. QED
  BY <1>2, <1>3, <1>5, <1>6, <1>7, <1>8, <1>9, <1>10, ImgQuiet

\* SpawnFails keeps the invariant.
LEMMA SpawnFailsInv ==
  ASSUME LinkInv, SpawnFails
  PROVE  LinkInv'
<1>1. /\ BookTypes /\ CallTypes /\ SessionTypes /\ KnownHere /\ ImageOK /\ ClosingOK
      /\ imagePc # "spawning" => spawning = NoPane /\ Wanted = live
  BY ImgBefore
<1>2. /\ SupSame /\ imagePc = "spawning" /\ isClosed
      /\ imagePc' = "run" /\ spawning' = NoPane
      /\ UNCHANGED <<link, driven, ungranted, exitsAtConnect, isReconciled, rejected,
                      exited, isClosed, listed, toKill, answered, killWaits, killDone,
                      live, unparsed, fed, told, torn>>
  BY DEF SpawnFails, SupSame, bookVars, imageVars, sessionVars
<1>3. BookTypes' /\ CallTypes' /\ SessionTypes'
  BY <1>1, <1>2 DEF BookTypes, CallTypes, SessionTypes, RunPcs, LinkPcs, EndPcs
<1>4. \A p \in Panes : (Known(p)' <=> Known(p)) /\ (Over(p)' <=> Over(p))
  BY <1>2 DEF SupSame, paneVars, Known, Over
<1>5. \A p \in Wanted' : p \in Wanted
  BY <1>1, <1>2, PaneAssumption DEF Wanted
<1>6. KnownHere'
  BY <1>1, <1>2, <1>3, <1>4 DEF KnownHere, BookTypes, CallTypes, SessionTypes
<1>7. /\ IsOver => IsOver'
      /\ isClosed' \/ imagePc' \in {"connect", "gone"} => isClosed \/ imagePc \in {"connect", "gone"}
  BY <1>2 DEF IsOver, IsLinking
<1>8. ImageOK'
  BY <1>1, <1>2, <1>5, PaneAssumption DEF ImageOK, RunPcs, LinkPcs, EndPcs
<1>9. \A p \in toKill' : LetGo(p)'
  BY <1>1, <1>2, <1>4, <1>5, LetGoStays DEF ClosingOK, CallTypes
<1>10. SwapOK'
  BY <1>2 DEF SwapOK
<1>11. QED
  BY <1>2, <1>3, <1>5, <1>6, <1>7, <1>8, <1>9, <1>10, ImgQuiet

\* The panes the session still drives when it ends may be killed.
LEMMA EndSessionInv ==
  ASSUME LinkInv, EndSession
  PROVE  LinkInv'
<1>1. /\ BookTypes /\ CallTypes /\ SessionTypes /\ KnownHere /\ ImageOK /\ ClosingOK
      /\ imagePc # "spawning" => spawning = NoPane /\ Wanted = live
  BY ImgBefore
<1>2. /\ SupSame /\ imagePc = "run"
      /\ imagePc' = "endKill" /\ live' = {} /\ unparsed' = [p \in Panes |-> 0] /\ toKill' = driven /\ driven' = {}
      /\ UNCHANGED <<link, ungranted, exitsAtConnect, isReconciled, rejected, exited,
                      isClosed, listed, answered, killWaits, killDone, spawning, fed,
                      told, torn>>
  BY DEF EndSession, SupSame, bookVars, imageVars, sessionVars
<1>3. BookTypes' /\ CallTypes' /\ SessionTypes'
  BY <1>1, <1>2 DEF BookTypes, CallTypes, SessionTypes, RunPcs, LinkPcs, EndPcs
<1>4. \A p \in Panes : (Known(p)' <=> Known(p)) /\ (Over(p)' <=> Over(p))
  BY <1>2 DEF SupSame, paneVars, Known, Over
<1>5. \A p \in Wanted' : p \in Wanted
  BY <1>1, <1>2 DEF Wanted
<1>6. KnownHere'
  BY <1>1, <1>2, <1>3, <1>4 DEF KnownHere, BookTypes, CallTypes, SessionTypes
<1>7. /\ IsOver => IsOver'
      /\ isClosed' \/ imagePc' \in {"connect", "gone"} => isClosed \/ imagePc \in {"connect", "gone"}
  BY <1>2 DEF IsOver, IsLinking
<1>8. ImageOK'
  BY <1>1, <1>2, <1>5 DEF ImageOK, RunPcs, LinkPcs, EndPcs
<1>9. \A p \in toKill' : LetGo(p)'
  <2>1. Wanted' = {}
    BY <1>1, <1>2, PaneAssumption DEF Wanted
  <2>2. QED
    BY <1>1, <1>2, <1>4, <2>1 DEF LetGo, KnownHere, BookTypes
<1>10. SwapOK'
  BY <1>2 DEF SwapOK
<1>11. QED
  BY <1>2, <1>3, <1>5, <1>6, <1>7, <1>8, <1>9, <1>10, ImgQuiet

\* The pause was answered: the output is held.
LEMMA OutputHeldInv ==
  ASSUME LinkInv, OutputHeld
  PROVE  LinkInv'
<1>1. /\ BookTypes /\ CallTypes /\ SessionTypes /\ KnownHere /\ ImageOK /\ ClosingOK
      /\ imagePc # "spawning" => spawning = NoPane /\ Wanted = live
  BY ImgBefore
<1>2. /\ SupSame /\ imagePc = "pausing" /\ answered
      /\ imagePc' = "held"
      /\ UNCHANGED <<link, driven, ungranted, exitsAtConnect, isReconciled, rejected,
                      exited, isClosed, listed, toKill, answered, killWaits, killDone,
                      live, spawning, unparsed, fed, told, torn>>
  BY DEF OutputHeld, SupSame, bookVars, imageVars, sessionVars
<1>3. BookTypes' /\ CallTypes' /\ SessionTypes'
  BY <1>1, <1>2 DEF BookTypes, CallTypes, SessionTypes, RunPcs, LinkPcs, EndPcs
<1>4. \A p \in Panes : (Known(p)' <=> Known(p)) /\ (Over(p)' <=> Over(p))
  BY <1>2 DEF SupSame, paneVars, Known, Over
<1>5. \A p \in Wanted' : p \in Wanted
  BY <1>1, <1>2 DEF Wanted
<1>6. KnownHere'
  BY <1>1, <1>2, <1>3, <1>4 DEF KnownHere, BookTypes, CallTypes, SessionTypes
<1>7. /\ IsOver => IsOver'
      /\ isClosed' \/ imagePc' \in {"connect", "gone"} => isClosed \/ imagePc \in {"connect", "gone"}
  BY <1>2 DEF IsOver, IsLinking
<1>8. ImageOK'
  BY <1>1, <1>2, <1>5 DEF ImageOK, RunPcs, LinkPcs, EndPcs
<1>9. \A p \in toKill' : LetGo(p)'
  BY <1>1, <1>2, <1>4, <1>5, LetGoStays DEF ClosingOK, CallTypes
<1>10. SwapOK'
  <2>1. ~isClosed => Held
    BY <1>2 DEF LinkInv, SwapOK, PausingOK
  <2>2. Held' <=> Held
    BY <1>2 DEF Held, Carried, Newest, Links, SupSame, sinkVars
  <2>3. QED
    BY <1>2, <2>1, <2>2 DEF SwapOK
<1>11. QED
  BY <1>2, <1>3, <1>5, <1>6, <1>7, <1>8, <1>9, <1>10, ImgQuiet

\* The answer to a spawn: the session drives the pane, unless its link is gone.
LEMMA SpawnedInv ==
  ASSUME LinkInv, Spawned
  PROVE  LinkInv'
<1>1. /\ BookTypes /\ CallTypes /\ SessionTypes /\ KnownHere /\ ImageOK /\ ClosingOK
  BY ImgBefore
<1>2. /\ SupSame /\ imagePc = "spawning" /\ answered /\ imagePc' = "run" /\ spawning' = NoPane
      /\ \/ isClosed /\ UNCHANGED <<driven, live>>
         \/ ~isClosed /\ driven' = driven \cup {spawning} /\ live' = live \cup {spawning}
      /\ UNCHANGED <<link, ungranted, exitsAtConnect, isReconciled, rejected, exited, isClosed,
                     listed, toKill, answered, killWaits, killDone, unparsed, fed, told, torn>>
  BY DEF Spawned, SupSame
<1>3. spawning \in Panes /\ Known(spawning)
  BY <1>1, <1>2 DEF ImageOK, SessionTypes
<1>4. BookTypes' /\ CallTypes' /\ SessionTypes'
  BY <1>1, <1>2, <1>3 DEF BookTypes, CallTypes, SessionTypes, RunPcs
<1>5. \A p \in Panes : (Known(p)' <=> Known(p)) /\ (Over(p)' <=> Over(p))
  BY <1>2 DEF SupSame, paneVars, Known, Over
<1>6. \A p \in Wanted' : p \in Wanted
  BY <1>1, <1>2, <1>3, PaneAssumption DEF Wanted
<1>7. KnownHere'
  BY <1>1, <1>2, <1>3, <1>4, <1>5 DEF KnownHere, BookTypes, CallTypes, SessionTypes
<1>8. IsOver => IsOver'
  BY <1>2 DEF IsOver, IsLinking
<1>9. ImageOK'
  BY <1>1, <1>2, <1>6 DEF ImageOK, RunPcs, LinkPcs, EndPcs
<1>10. \A p \in toKill' : LetGo(p)'
  BY <1>1, <1>2, <1>5, <1>6, LetGoStays DEF ClosingOK, CallTypes
<1>11. SwapOK'
  BY <1>2 DEF SwapOK
<1>12. QED
  BY <1>2, <1>4, <1>6, <1>7, <1>8, <1>9, <1>10, <1>11, ImgQuiet

\* The image asks for r and waits, nobody waiting for anything else.
LEMMA ImgAsks ==
  ASSUME LinkInv, SupSame, UNCHANGED <<fed, told, torn, rejected, exited, isClosed>>,
         NEW r \in Requests, link' = Asked(r), RequestOK(Newest, r)', r.kind # "spawn" \/ ~IsOver,
         BookTypes', CallTypes', SessionTypes', KnownHere', killDone' \subseteq killDone,
         \A p \in Panes : p \in Wanted' /\ Known(p) => p \in Wanted,
         IsOver => IsOver', imagePc \in {"ending", "gone"} => imagePc' \in {"ending", "gone"},
         imagePc = "gone" => imagePc' = "gone",
         IsOver /\ imagePc # "spawning" => imagePc' # "spawning",
         \A q \in ToSup(Newest) : RequestKept(q), \A f \in Carried : AnswerKept(f),
         r.kind = "spawn" => imagePc # "spawning",
         imagePc' \notin {"connect", "gone"},
         \A p \in toKill' : LetGo(p)', ImageOK', SwapOK'
  PROVE  LinkInv'
<1>1. /\ Shapes /\ LinksOK /\ Newest \in Links /\ RequestsOK
      /\ (isClosed => link[Newest].state = "down" /\ link[Newest].toImage = <<>>)
  BY ImgBefore DEF LinkInv
<1>2. LinkStep /\ SupMore(r) /\ ImgFewer
  BY <1>1, AskedStep
<1>3. Steady
  BY LetGoStays DEF Steady
<1>4. r.kind = "spawn" => \A s \in ToSup(Newest) : s.kind # "spawn"
  BY <1>1 DEF RequestsOK, RequestOK
<1>5. RequestsOK'
  BY <1>2, <1>3, <1>4, ImgRequests
<1>6. EndsOK'
  BY <1>2, EndsFewer
<1>7. isClosed' => link'[Newest].state = "down" /\ link'[Newest].toImage = <<>>
  BY <1>1 DEF Asked
<1>8. \A f \in Carried' : AnswerKept(f)
  BY <1>2 DEF ImgFewer
<1>9. QED
  BY <1>2, <1>3, <1>5, <1>6, <1>7, <1>8, ImgStep

\* HelloAnswered keeps the invariant.
LEMMA HelloAnsweredInv ==
  ASSUME LinkInv, HelloAnswered
  PROVE  LinkInv'
<1>1. /\ BookTypes /\ CallTypes /\ SessionTypes /\ KnownHere /\ ImageOK /\ ClosingOK
      /\ imagePc # "spawning" => spawning = NoPane /\ Wanted = live
  BY ImgBefore
<1> DEFINE r == Request("list", NoPane, 0)
<1>2. /\ SupSame /\ imagePc = "hello" /\ answered' = FALSE /\ imagePc' = "list" /\ link' = Asked(r)
      /\ UNCHANGED <<driven, ungranted, exitsAtConnect, isReconciled, rejected, exited, isClosed,
                     listed, toKill, killWaits, killDone, live, spawning, unparsed, fed, told,
                     torn>>
  BY DEF HelloAnswered, Ask, SupSame, bookVars, sessionVars
<1>3. r \in Requests /\ r.kind = "list"
  BY DEF Request, Requests, PlainKinds
<1> HIDE DEF r
<1>4. BookTypes' /\ CallTypes' /\ SessionTypes'
  BY <1>1, <1>2 DEF BookTypes, CallTypes, SessionTypes, LinkPcs
<1>5. \A p \in Panes : Known(p)' <=> Known(p)
  BY <1>2 DEF SupSame, paneVars, Known
<1>6. Wanted' = Wanted
  BY <1>2 DEF Wanted
<1>7. KnownHere'
  BY <1>1, <1>2, <1>5 DEF KnownHere, BookTypes, CallTypes, SessionTypes
<1>8. IsOver => IsOver'
  BY <1>2 DEF IsOver, IsLinking
<1>9. ImageOK'
  BY <1>1, <1>2, <1>6 DEF ImageOK, RunPcs, LinkPcs, EndPcs
<1>10. \A p \in toKill' : LetGo(p)'
  BY <1>1, <1>2, <1>5, <1>6, LetGoStays DEF ClosingOK, CallTypes
<1>11. SwapOK'
  BY <1>2 DEF SwapOK
<1>12. RequestOK(Newest, r)'
  BY <1>3 DEF RequestOK
<1>13. (\A q \in ToSup(Newest) : RequestKept(q)) /\ \A f \in Carried : AnswerKept(f)
  BY <1>2, <1>8, CallOverAll
<1>14. QED
  BY <1>2, <1>3, <1>4, <1>6, <1>7, <1>8, <1>9, <1>10, <1>11, <1>12, <1>13, ImgAsks

\* The image asks for the kill of a pane it may kill.
LEMMA KillUnknownNextInv ==
  ASSUME LinkInv, KillNext("killUnknown", "killing")
  PROVE  LinkInv'
<1>1. /\ BookTypes /\ CallTypes /\ SessionTypes /\ KnownHere /\ ImageOK /\ ClosingOK
      /\ imagePc # "spawning" => spawning = NoPane /\ Wanted = live
  BY ImgBefore
<1>0. PICK p \in toKill : toKill' = toKill \ {p} /\ Ask("kill", p, "killing")
  BY DEF KillNext
<1> DEFINE r == Request("kill", p, 0)
<1>2. /\ SupSame /\ imagePc = "killUnknown"
      /\ answered' = FALSE /\ link' = Asked(r)
      /\ imagePc' = "killing" /\ toKill' = toKill \ {p}
      /\ UNCHANGED <<driven, ungranted, exitsAtConnect, isReconciled, rejected,
                      exited, isClosed, listed, killWaits, killDone, live, spawning,
                      unparsed, fed, told, torn>>
  BY <1>0 DEF KillNext, Ask, SupSame, bookVars, sessionVars
<1>3. r \in Requests /\ r.kind = "kill" /\ r.pane = p
  BY <1>0, <1>1 DEF CallTypes, Request, Requests, PlainKinds, PaneKinds
<1> HIDE DEF r
<1>4. BookTypes' /\ CallTypes' /\ SessionTypes'
  BY <1>1, <1>2 DEF BookTypes, CallTypes, SessionTypes, RunPcs, LinkPcs, EndPcs
<1>5. \A q \in Panes : Known(q)' <=> Known(q)
  BY <1>2 DEF SupSame, paneVars, Known
<1>6. Wanted' = Wanted
  BY <1>2 DEF Wanted
<1>7. KnownHere'
  BY <1>1, <1>2, <1>5 DEF KnownHere, BookTypes, CallTypes, SessionTypes
<1>8. IsOver => IsOver'
  BY <1>2 DEF IsOver, IsLinking
<1>9. ImageOK'
  BY <1>1, <1>2, <1>6 DEF ImageOK, RunPcs, LinkPcs, EndPcs
<1>10. \A q \in toKill' : LetGo(q)'
  BY <1>1, <1>2, <1>5, <1>6, LetGoStays DEF ClosingOK, CallTypes
<1>11. SwapOK'
  BY <1>2 DEF SwapOK
<1>12. RequestOK(Newest, r)'
  <2>1. LetGo(p)'
    BY <1>0, <1>1, <1>2, <1>6, LetGoStays DEF ClosingOK, CallTypes
  <2>2. QED
    BY <1>3, <2>1 DEF RequestOK
<1>13. (\A q \in ToSup(Newest) : RequestKept(q)) /\ \A f \in Carried : AnswerKept(f)
  BY <1>2, <1>8, CallOverAll
<1>14. QED
  BY <1>2, <1>3, <1>4, <1>6, <1>7, <1>8, <1>9, <1>10, <1>11, <1>12, <1>13, ImgAsks

\* KillEndedNext keeps the invariant.
LEMMA KillEndedNextInv ==
  ASSUME LinkInv, KillNext("killEnded", "killingEnded")
  PROVE  LinkInv'
<1>1. /\ BookTypes /\ CallTypes /\ SessionTypes /\ KnownHere /\ ImageOK /\ ClosingOK
      /\ imagePc # "spawning" => spawning = NoPane /\ Wanted = live
  BY ImgBefore
<1>0. PICK p \in toKill : toKill' = toKill \ {p} /\ Ask("kill", p, "killingEnded")
  BY DEF KillNext
<1> DEFINE r == Request("kill", p, 0)
<1>2. /\ SupSame /\ imagePc = "killEnded"
      /\ answered' = FALSE /\ link' = Asked(r)
      /\ imagePc' = "killingEnded" /\ toKill' = toKill \ {p}
      /\ UNCHANGED <<driven, ungranted, exitsAtConnect, isReconciled, rejected,
                      exited, isClosed, listed, killWaits, killDone, live, spawning,
                      unparsed, fed, told, torn>>
  BY <1>0 DEF KillNext, Ask, SupSame, bookVars, sessionVars
<1>3. r \in Requests /\ r.kind = "kill" /\ r.pane = p
  BY <1>0, <1>1 DEF CallTypes, Request, Requests, PlainKinds, PaneKinds
<1> HIDE DEF r
<1>4. BookTypes' /\ CallTypes' /\ SessionTypes'
  BY <1>1, <1>2 DEF BookTypes, CallTypes, SessionTypes, RunPcs, LinkPcs, EndPcs
<1>5. \A q \in Panes : Known(q)' <=> Known(q)
  BY <1>2 DEF SupSame, paneVars, Known
<1>6. Wanted' = Wanted
  BY <1>2 DEF Wanted
<1>7. KnownHere'
  BY <1>1, <1>2, <1>5 DEF KnownHere, BookTypes, CallTypes, SessionTypes
<1>8. IsOver => IsOver'
  BY <1>2 DEF IsOver, IsLinking
<1>9. ImageOK'
  BY <1>1, <1>2, <1>6 DEF ImageOK, RunPcs, LinkPcs, EndPcs
<1>10. \A q \in toKill' : LetGo(q)'
  BY <1>1, <1>2, <1>5, <1>6, LetGoStays DEF ClosingOK, CallTypes
<1>11. SwapOK'
  BY <1>2 DEF SwapOK
<1>12. RequestOK(Newest, r)'
  <2>1. LetGo(p)'
    BY <1>0, <1>1, <1>2, <1>6, LetGoStays DEF ClosingOK, CallTypes
  <2>2. QED
    BY <1>3, <2>1 DEF RequestOK
<1>13. (\A q \in ToSup(Newest) : RequestKept(q)) /\ \A f \in Carried : AnswerKept(f)
  BY <1>2, <1>8, CallOverAll
<1>14. QED
  BY <1>2, <1>3, <1>4, <1>6, <1>7, <1>8, <1>9, <1>10, <1>11, <1>12, <1>13, ImgAsks

\* EndKillNext keeps the invariant.
LEMMA EndKillNextInv ==
  ASSUME LinkInv, KillNext("endKill", "endKilling")
  PROVE  LinkInv'
<1>1. /\ BookTypes /\ CallTypes /\ SessionTypes /\ KnownHere /\ ImageOK /\ ClosingOK
      /\ imagePc # "spawning" => spawning = NoPane /\ Wanted = live
  BY ImgBefore
<1>0. PICK p \in toKill : toKill' = toKill \ {p} /\ Ask("kill", p, "endKilling")
  BY DEF KillNext
<1> DEFINE r == Request("kill", p, 0)
<1>2. /\ SupSame /\ imagePc = "endKill"
      /\ answered' = FALSE /\ link' = Asked(r)
      /\ imagePc' = "endKilling" /\ toKill' = toKill \ {p}
      /\ UNCHANGED <<driven, ungranted, exitsAtConnect, isReconciled, rejected,
                      exited, isClosed, listed, killWaits, killDone, live, spawning,
                      unparsed, fed, told, torn>>
  BY <1>0 DEF KillNext, Ask, SupSame, bookVars, sessionVars
<1>3. r \in Requests /\ r.kind = "kill" /\ r.pane = p
  BY <1>0, <1>1 DEF CallTypes, Request, Requests, PlainKinds, PaneKinds
<1> HIDE DEF r
<1>4. BookTypes' /\ CallTypes' /\ SessionTypes'
  BY <1>1, <1>2 DEF BookTypes, CallTypes, SessionTypes, RunPcs, LinkPcs, EndPcs
<1>5. \A q \in Panes : Known(q)' <=> Known(q)
  BY <1>2 DEF SupSame, paneVars, Known
<1>6. Wanted' = Wanted
  BY <1>2 DEF Wanted
<1>7. KnownHere'
  BY <1>1, <1>2, <1>5 DEF KnownHere, BookTypes, CallTypes, SessionTypes
<1>8. IsOver => IsOver'
  BY <1>2 DEF IsOver, IsLinking
<1>9. ImageOK'
  BY <1>1, <1>2, <1>6 DEF ImageOK, RunPcs, LinkPcs, EndPcs
<1>10. \A q \in toKill' : LetGo(q)'
  BY <1>1, <1>2, <1>5, <1>6, LetGoStays DEF ClosingOK, CallTypes
<1>11. SwapOK'
  BY <1>2 DEF SwapOK
<1>12. RequestOK(Newest, r)'
  <2>1. LetGo(p)'
    BY <1>0, <1>1, <1>2, <1>6, LetGoStays DEF ClosingOK, CallTypes
  <2>2. QED
    BY <1>3, <2>1 DEF RequestOK
<1>13. (\A q \in ToSup(Newest) : RequestKept(q)) /\ \A f \in Carried : AnswerKept(f)
  BY <1>2, <1>8, CallOverAll
<1>14. QED
  BY <1>2, <1>3, <1>4, <1>6, <1>7, <1>8, <1>9, <1>10, <1>11, <1>12, <1>13, ImgAsks

\* AskShutdown keeps the invariant.
LEMMA AskShutdownInv ==
  ASSUME LinkInv, AskShutdown
  PROVE  LinkInv'
<1>1. /\ BookTypes /\ CallTypes /\ SessionTypes /\ KnownHere /\ ImageOK /\ ClosingOK
      /\ imagePc # "spawning" => spawning = NoPane /\ Wanted = live
  BY ImgBefore
<1> DEFINE r == Request("shutdown", NoPane, 0)
<1>2. /\ SupSame /\ imagePc = "endKill"
      /\ answered' = FALSE /\ link' = Asked(r)
      /\ imagePc' = "ending"
      /\ UNCHANGED <<driven, ungranted, exitsAtConnect, isReconciled, rejected,
                      exited, isClosed, listed, toKill, killWaits, killDone, live,
                      spawning, unparsed, fed, told, torn>>
  BY DEF AskShutdown, Ask, SupSame, bookVars, sessionVars
<1>3. r \in Requests /\ r.kind = "shutdown"
  BY DEF Request, Requests, PlainKinds, PaneKinds
<1> HIDE DEF r
<1>4. BookTypes' /\ CallTypes' /\ SessionTypes'
  BY <1>1, <1>2 DEF BookTypes, CallTypes, SessionTypes, RunPcs, LinkPcs, EndPcs
<1>5. \A p \in Panes : Known(p)' <=> Known(p)
  BY <1>2 DEF SupSame, paneVars, Known
<1>6. Wanted' = Wanted
  BY <1>2 DEF Wanted
<1>7. KnownHere'
  BY <1>1, <1>2, <1>5 DEF KnownHere, BookTypes, CallTypes, SessionTypes
<1>8. IsOver => IsOver'
  BY <1>2 DEF IsOver, IsLinking
<1>9. ImageOK'
  BY <1>1, <1>2, <1>6 DEF ImageOK, RunPcs, LinkPcs, EndPcs
<1>10. \A q \in toKill' : LetGo(q)'
  BY <1>1, <1>2, <1>5, <1>6, LetGoStays DEF ClosingOK, CallTypes
<1>11. SwapOK'
  BY <1>2 DEF SwapOK
<1>12. RequestOK(Newest, r)'
  BY <1>2, <1>3 DEF RequestOK
<1>13. (\A q \in ToSup(Newest) : RequestKept(q)) /\ \A f \in Carried : AnswerKept(f)
  BY <1>2, <1>8, CallOverAll
<1>14. QED
  BY <1>2, <1>3, <1>4, <1>6, <1>7, <1>8, <1>9, <1>10, <1>11, <1>12, <1>13, ImgAsks

\* A swap asks for the pause: nothing of an earlier swap is on the link.
LEMMA PauseOutputInv ==
  ASSUME LinkInv, PauseOutput
  PROVE  LinkInv'
<1>1. /\ BookTypes /\ CallTypes /\ SessionTypes /\ KnownHere /\ ImageOK /\ ClosingOK
      /\ imagePc # "spawning" => spawning = NoPane /\ Wanted = live
  BY ImgBefore
<1> DEFINE r == Request("pause", NoPane, 0)
<1>2. /\ SupSame /\ imagePc = "run" /\ ~isClosed
      /\ answered' = FALSE /\ link' = Asked(r)
      /\ imagePc' = "pausing"
      /\ UNCHANGED <<driven, ungranted, exitsAtConnect, isReconciled, rejected,
                      exited, isClosed, listed, toKill, killWaits, killDone, live,
                      spawning, unparsed, fed, told, torn>>
  BY DEF PauseOutput, CanAsk, Ask, SupSame, bookVars, sessionVars
<1>3. r \in Requests /\ r.kind = "pause"
  BY DEF Request, Requests, PlainKinds, PaneKinds
<1> HIDE DEF r
<1>4. BookTypes' /\ CallTypes' /\ SessionTypes'
  BY <1>1, <1>2 DEF BookTypes, CallTypes, SessionTypes, RunPcs, LinkPcs, EndPcs
<1>5. \A p \in Panes : Known(p)' <=> Known(p)
  BY <1>2 DEF SupSame, paneVars, Known
<1>6. Wanted' = Wanted
  BY <1>2 DEF Wanted
<1>7. KnownHere'
  BY <1>1, <1>2, <1>5 DEF KnownHere, BookTypes, CallTypes, SessionTypes
<1>8. IsOver => IsOver'
  BY <1>2 DEF IsOver, IsLinking
<1>9. ImageOK'
  BY <1>1, <1>2, <1>6 DEF ImageOK, RunPcs, LinkPcs, EndPcs
<1>10. \A q \in toKill' : LetGo(q)'
  BY <1>1, <1>2, <1>5, <1>6, LetGoStays DEF ClosingOK, CallTypes
<1>11. SwapOK'
  <2>1. Newest' = Newest /\ SupMore(r) /\ ImgFewer /\ Newest \in Links
    BY <1>2, <1>3, AskedStep, ImgBefore DEF LinkStep
  <2>2. ~IsOver
    BY <1>2 DEF IsOver
  <2>3. \A q \in ToSup(Newest) : ~IsHold(q)
    BY <1>2, <2>1, <2>2 DEF LinkInv, RequestsOK, RequestOK, IsHold
  <2>4. \A f \in Carried' : ~IsHoldAnswer(f)
    BY <1>2, <2>1 DEF LinkInv, FramesOK, FrameOK, IsHoldAnswer, ImgFewer
  <2>5. /\ ToSup(Newest)' = On(link'[Newest].toSup)
        /\ \A a, b : SupBefore(Newest, a, b)' <=> Before(link'[Newest].toSup, a, b)
    BY <2>1 DEF ToSup, SupBefore
  <2>6. /\ \A x \in ToSup(Newest)' : x \in ToSup(Newest) \/ x = r
        /\ \A x, y : SupBefore(Newest, x, y)' => SupBefore(Newest, x, y) \/ x \in ToSup(Newest)
    BY <2>1, <2>5 DEF SupMore, ToSup, SupBefore
  <2>7. \A x, y : SupBefore(Newest, x, y) => x \in ToSup(Newest)
    BY BeforeIsOn DEF SupBefore, ToSup
  <2>8. r.kind # "resume"
    BY <1>3
  <2>9. PausingOK'
    BY <1>2, <2>3, <2>4, <2>6, <2>7, <2>8 DEF PausingOK, IsHold
  <2>10. QED
    BY <1>2, <2>9 DEF SwapOK
<1>12. RequestOK(Newest, r)'
  <2>1. Newest' = Newest
    BY <1>2, <1>3, AskedStep, ImgBefore DEF LinkStep
  <2>2. QED
    BY <1>2, <1>3, <2>1 DEF RequestOK
<1>13. (\A q \in ToSup(Newest) : RequestKept(q)) /\ \A f \in Carried : AnswerKept(f)
  BY <1>2, <1>8, CallOverAll
<1>14. QED
  BY <1>2, <1>3, <1>4, <1>6, <1>7, <1>8, <1>9, <1>10, <1>11, <1>12, <1>13, ImgAsks

\* A pane is asked for that was never open.
LEMMA SpawnPaneInv ==
  ASSUME LinkInv, NEW p \in Panes, SpawnPane(p)
  PROVE  LinkInv'
<1>1. /\ BookTypes /\ CallTypes /\ SessionTypes /\ KnownHere /\ ImageOK /\ ClosingOK
      /\ imagePc # "spawning" => spawning = NoPane /\ Wanted = live
  BY ImgBefore
<1> DEFINE r == Request("spawn", p, 0)
<1>2. /\ SupSame /\ imagePc = "run" /\ ~isClosed /\ readerPc[p] = "none"
      /\ answered' = FALSE /\ link' = Asked(r)
      /\ imagePc' = "spawning" /\ spawning' = p
      /\ UNCHANGED <<driven, ungranted, exitsAtConnect, isReconciled, rejected,
                      exited, isClosed, listed, toKill, killWaits, killDone, live,
                      unparsed, fed, told, torn>>
  BY DEF SpawnPane, CanAsk, Ask, SupSame, bookVars, sessionVars
<1>3. r \in Requests /\ r.kind = "spawn" /\ r.pane = p
  BY DEF Request, Requests, PlainKinds, PaneKinds
<1> HIDE DEF r
<1>4. BookTypes' /\ CallTypes' /\ SessionTypes'
  BY <1>1, <1>2 DEF BookTypes, CallTypes, SessionTypes, RunPcs, LinkPcs, EndPcs
<1>5. \A q \in Panes : Known(q)' <=> Known(q)
  BY <1>2 DEF SupSame, paneVars, Known
<1>6. Wanted' = Wanted \cup {p} /\ ~Known(p)
  BY <1>1, <1>2 DEF Wanted, Known
<1>7. KnownHere'
  BY <1>1, <1>2, <1>5 DEF KnownHere, BookTypes, CallTypes, SessionTypes
<1>8. ~IsOver
  BY <1>2 DEF IsOver
<1>9. ImageOK'
  BY <1>1, <1>2, <1>6, PaneAssumption DEF KnownHere, ImageOK, RunPcs, LinkPcs, EndPcs
<1>10. \A q \in toKill' : LetGo(q)'
  BY <1>1, <1>2, <1>5, <1>6, LetGoStays DEF ClosingOK, CallTypes
<1>11. SwapOK'
  BY <1>2 DEF SwapOK
<1>12. RequestOK(Newest, r)'
  <2>1. Newest' = Newest
    BY <1>2, <1>3, AskedStep, ImgBefore DEF LinkStep
  <2>2. QED
    BY <1>2, <1>3, <1>5, <1>6, <2>1 DEF RequestOK
<1>13. (\A q \in ToSup(Newest) : RequestKept(q)) /\ \A f \in Carried : AnswerKept(f)
  BY <1>2, <1>8, CallOverAll
<1>14. QED
  BY <1>2, <1>3, <1>4, <1>6, <1>7, <1>8, <1>9, <1>10, <1>11, <1>12, <1>13, ImgAsks

\* A swap is given up: the resume follows all that the swap asked for.
LEMMA AbandonSwapInv ==
  ASSUME LinkInv, AbandonSwap
  PROVE  LinkInv'
<1>1. /\ BookTypes /\ CallTypes /\ SessionTypes /\ KnownHere /\ ImageOK /\ ClosingOK
      /\ imagePc # "spawning" => spawning = NoPane /\ Wanted = live
  BY ImgBefore
<1> DEFINE r == Request("resume", NoPane, 0)
<1>2. /\ SupSame /\ imagePc \in {"pausing", "held"}
      /\ \/ ~isClosed /\ link' = Asked(r) /\ imagePc' = "resuming" /\ answered' = FALSE
         \/ isClosed /\ imagePc' = "run" /\ UNCHANGED <<link, answered>>
      /\ UNCHANGED <<driven, ungranted, exitsAtConnect, isReconciled, rejected, exited, isClosed,
                     listed, toKill, killWaits, killDone, live, spawning, unparsed, fed, told,
                     torn>>
  BY DEF AbandonSwap, CanAsk, Ask, SupSame, bookVars, sessionVars
<1>3. r \in Requests /\ r.kind = "resume"
  BY DEF Request, Requests, PlainKinds
<1> HIDE DEF r
<1>4. BookTypes' /\ CallTypes' /\ SessionTypes'
  BY <1>1, <1>2 DEF BookTypes, CallTypes, SessionTypes, RunPcs
<1>5. \A p \in Panes : Known(p)' <=> Known(p)
  BY <1>2 DEF SupSame, paneVars, Known
<1>6. Wanted' = Wanted
  BY <1>2 DEF Wanted
<1>7. KnownHere'
  BY <1>1, <1>2, <1>5 DEF KnownHere, BookTypes, CallTypes, SessionTypes
<1>8. (IsOver => IsOver') /\ (~isClosed => ~IsOver)
  BY <1>2 DEF IsOver, IsLinking
<1>9. ImageOK'
  BY <1>1, <1>2, <1>6 DEF ImageOK, RunPcs, LinkPcs, EndPcs
<1>10. \A q \in toKill' : LetGo(q)'
  BY <1>1, <1>2, <1>5, <1>6, LetGoStays DEF ClosingOK, CallTypes
<1>11. CASE isClosed
  <2>1. SwapOK'
    BY <1>2, <1>11 DEF SwapOK
  <2>2. QED
    BY <1>2, <1>4, <1>6, <1>7, <1>8, <1>9, <1>10, <1>11, <2>1, ImgQuiet
<1>12. CASE ~isClosed
  <2>1. Newest' = Newest /\ SupMore(r) /\ ImgFewer /\ Newest \in Links
    BY <1>2, <1>3, <1>12, AskedStep, ImgBefore DEF LinkStep
  <2>2. RequestOK(Newest, r)'
    BY <1>2, <1>3, <1>12, <2>1 DEF RequestOK
  <2>3. RequestsOK /\ FramesOK /\ SwapOK
    BY DEF LinkInv
  <2>4. \A q \in ToSup(Newest) : RequestKept(q) /\ q.kind # "resume"
    <3>1. \A q \in ToSup(Newest) : RequestKept(q)
      BY <1>2, <1>8, <1>12, <2>1, <2>3 DEF RequestsOK, RequestOK, RequestKept, IsHold
    <3>2. CASE imagePc = "pausing"
      BY <1>12, <2>3, <3>1, <3>2 DEF SwapOK, PausingOK
    <3>3. CASE imagePc = "held"
      BY <1>8, <1>12, <2>1, <2>3, <3>1, <3>3 DEF RequestsOK, RequestOK
    <3>4. QED
      BY <1>2, <3>2, <3>3
  <2>5. \A f \in Carried : AnswerKept(f) /\ ~(f.kind = "answer" /\ f.of = "resume")
    BY <1>2, <1>12, <2>3 DEF FramesOK, FrameOK, AnswerKept
  <2>6. /\ ToSup(Newest)' = On(link'[Newest].toSup)
        /\ \A a, b : SupBefore(Newest, a, b)' <=> Before(link'[Newest].toSup, a, b)
    BY <2>1 DEF ToSup, SupBefore
  <2>7. \A x, y : SupBefore(Newest, x, y)' => x \in ToSup(Newest)
    <3>1. \A x, y : SupBefore(Newest, x, y) => x \in ToSup(Newest)
      BY BeforeIsOn DEF SupBefore, ToSup
    <3>2. QED
      BY <2>1, <2>6, <3>1 DEF SupMore, ToSup, SupBefore
  <2>8. ResumingOK'
    BY <2>1, <2>4, <2>5, <2>7 DEF ResumingOK, ImgFewer
  <2>9. SwapOK'
    BY <1>2, <1>12, <2>8 DEF SwapOK
  <2>10. QED
    BY <1>2, <1>3, <1>4, <1>6, <1>7, <1>8, <1>9, <1>10, <1>12, <2>2, <2>4, <2>5, <2>9, ImgAsks
<1>13. QED
  BY <1>11, <1>12

\* A pane whose output is on the link was opened.
LEMMA OutputIsKnown ==
  ASSUME LinkInv, NEW f \in Carried, f.kind = "output"
  PROVE  /\ f.pane \in Panes /\ Known(f.pane) /\ f.from \in Nat /\ f.count \in Nat \ {0}
         /\ f.from + f.count \in 0 .. PrintLimit
<1>1. f \in Frames /\ FrameOK(f)
  BY CarriedType DEF LinkInv, FramesOK
<1>2. f.pane \in Panes /\ f.from \in Nat /\ f.count \in Nat \ {0}
  BY <1>1 DEF Frames, Outputs, Exits, Answers
<1>3. taken[f.pane] \in 0 .. PrintLimit /\ f.from + f.count <= taken[f.pane]
  BY <1>1, <1>2 DEF LinkInv, Shapes, TypeOK, FrameOK
<1>4. Known(f.pane)
  BY <1>2, <1>3, WindowAssumption DEF LinkInv, PaneOK, Known
<1>5. QED
  BY <1>2, <1>3, <1>4, WindowAssumption

\* A pane with output on the link is known to the supervisor.
LEMMA PanesOnLinkKnown ==
  ASSUME LinkInv
  PROVE  \A p \in PanesOnLink : p \in Panes /\ Known(p)
<1> TAKE p \in PanesOnLink
<1>1. PICK i \in DOMAIN link[Newest].toImage :
        link[Newest].toImage[i].kind = "output" /\ link[Newest].toImage[i].pane = p
  BY DEF PanesOnLink
<1>2. PICK f \in Carried : f.kind = "output" /\ f.pane = p
  BY <1>1 DEF Carried, On
<1>3. QED
  BY <1>2, OutputIsKnown

\* What one link's book kept is over: nothing is driven or to be killed.
LEMMA BookOver ==
  ASSUME BookIsOver
  PROVE  /\ BookTypes'
         /\ driven' = {} /\ exitsAtConnect' = {} /\ rejected' = {} /\ exited' = {} /\ listed' = {}
         /\ toKill' = {} /\ killWaits' = {} /\ isClosed' = FALSE /\ answered' = FALSE
BY DEF BookIsOver, BookTypes

\* The image lets its link and its book go.
LEMMA ImgCut ==
  ASSUME LinkInv, SupSame, BookIsOver, CallTypes', SessionTypes', UNCHANGED <<fed, told>>,
         link' = [link EXCEPT ![Newest].state = "down", ![Newest].toImage = <<>>],
         \/ /\ imagePc \notin {"spawning", "pausing", "resuming", "ending"} /\ ~IsOver
            /\ imagePc' = "connect" /\ UNCHANGED <<live, spawning>>
         \/ imagePc' = "gone" /\ live' = {} /\ spawning' = NoPane,
         torn \subseteq torn', \A p \in torn' : Known(p), killDone' \subseteq killDone
  PROVE  LinkInv'
<1>1. /\ Shapes /\ LinksOK /\ Newest \in Links /\ RequestsOK /\ ImageOK /\ KnownHere
      /\ imagePc # "spawning" => spawning = NoPane /\ Wanted = live
  BY ImgBefore DEF LinkInv
<1>2. LinkStep /\ SupFewer /\ ImgFewer /\ Carried' = {} /\ IsDown(Newest)'
  BY <1>1, CutStep
<1>3. link'[Newest].state = "down" /\ link'[Newest].toImage = <<>>
  BY <1>2 DEF IsDown, LinkStep
<1>4. /\ BookTypes'
      /\ driven' = {} /\ exitsAtConnect' = {} /\ rejected' = {} /\ exited' = {} /\ listed' = {}
      /\ toKill' = {} /\ isClosed' = FALSE /\ answered' = FALSE
  BY BookOver
<1>5. \A p \in Panes : Known(p)' <=> Known(p)
  BY DEF SupSame, paneVars, Known
<1>6. \A p \in Wanted' : p \in Wanted
  BY PaneAssumption DEF Wanted
<1>7. KnownHere'
  BY <1>1, <1>4, <1>5 DEF KnownHere, SessionTypes
<1>8. /\ IsOver => IsOver'
      /\ imagePc = "gone" => imagePc' = "gone"
      /\ imagePc \in {"ending", "gone"} => imagePc' \in {"ending", "gone"}
  BY DEF IsOver
<1>9. Steady
  BY <1>6, <1>8, LetGoStays DEF Steady
<1>10. ImageOK'
  BY <1>1, <1>4 DEF ImageOK, RunPcs, LinkPcs, EndPcs
<1>11. SwapOK'
  BY DEF SwapOK
<1>12. \A q \in ToSup(Newest) : RequestKept(q)
  <2>1. CASE imagePc' = "gone"
    BY <2>1 DEF RequestKept, IsOver
  <2>2. CASE imagePc \notin {"spawning", "pausing", "resuming"} \/ answered \/ isClosed
    BY <1>8, <2>2, CallOverAll
  <2>3. QED
    BY <2>1, <2>2
<1>13. RequestsOK'
  BY <1>2, <1>9, <1>12, ImgRequests
<1>14. EndsOK'
  BY <1>2, EndsFewer
<1>15. QED
  BY <1>2, <1>3, <1>4, <1>7, <1>9, <1>10, <1>11, <1>13, <1>14, ImgStep

\* ExecImage keeps the invariant.
LEMMA ExecImageInv ==
  ASSUME LinkInv, ExecImage
  PROVE  LinkInv'
<1>1. CallTypes /\ SessionTypes /\ KnownHere
  BY ImgBefore
<1>2. /\ SupSame /\ imagePc = "held" /\ ~isClosed /\ BookIsOver /\ imagePc' = "connect"
      /\ link' = [link EXCEPT ![Newest].state = "down", ![Newest].toImage = <<>>]
      /\ UNCHANGED <<killDone, live, spawning, unparsed, fed, told, torn>>
  BY DEF ExecImage, SupSame
<1>3. CallTypes' /\ SessionTypes'
  BY <1>1, <1>2 DEF CallTypes, SessionTypes, BookIsOver, LinkPcs
<1>4. ~IsOver
  BY <1>2 DEF IsOver
<1>5. \A p \in torn' : Known(p)
  BY <1>1, <1>2 DEF KnownHere
<1>6. QED
  BY <1>2, <1>3, <1>4, <1>5, ImgCut

\* ConnectFails keeps the invariant.
LEMMA ConnectFailsInv ==
  ASSUME LinkInv, ConnectFails
  PROVE  LinkInv'
<1>1. CallTypes /\ SessionTypes /\ KnownHere
  BY ImgBefore
<1>2. /\ SupSame /\ imagePc \in {"hello", "list", "killingEnded"} /\ BookIsOver
      /\ imagePc' = "connect" /\ torn' = torn \cup PanesOnLink
      /\ link' = [link EXCEPT ![Newest].state = "down", ![Newest].toImage = <<>>]
      /\ UNCHANGED <<killDone, live, spawning, unparsed, fed, told>>
  BY DEF ConnectFails, SupSame
<1>3. \A p \in torn' : Known(p) /\ p \in Panes
  BY <1>1, <1>2, PanesOnLinkKnown DEF KnownHere, SessionTypes
<1>4. CallTypes' /\ SessionTypes'
  BY <1>1, <1>2, <1>3 DEF CallTypes, SessionTypes, BookIsOver, LinkPcs
<1>5. ~IsOver
  BY <1>2 DEF IsOver, IsLinking
<1>6. QED
  BY <1>2, <1>3, <1>4, <1>5, ImgCut

\* ImageGoes keeps the invariant.
LEMMA ImageGoesInv ==
  ASSUME LinkInv, ImageGoes
  PROVE  LinkInv'
<1>1. CallTypes /\ SessionTypes /\ KnownHere
  BY ImgBefore
<1>2. /\ SupSame /\ BookIsOver /\ imagePc' = "gone" /\ live' = {} /\ spawning' = NoPane
      /\ killDone' = {} /\ unparsed' = [p \in Panes |-> 0]
      /\ link' = [link EXCEPT ![Newest].state = "down", ![Newest].toImage = <<>>]
      /\ UNCHANGED <<fed, told, torn>>
  BY DEF ImageGoes, SupSame
<1>3. CallTypes' /\ SessionTypes'
  BY <1>1, <1>2 DEF CallTypes, SessionTypes, BookIsOver
<1>4. \A p \in torn' : Known(p)
  BY <1>1, <1>2 DEF KnownHere
<1>5. QED
  BY <1>2, <1>3, <1>4, ImgCut

\* What Told tells, and to whom.
LEMMA ToldFacts ==
  ASSUME SessionTypes, NEW S, NEW how \in {"real", "lost"}, told' = Told(S, how)
  PROVE  /\ told' \in [Panes -> {"none", "real", "lost"}]
         /\ \A p \in Panes :
              /\ told[p] # "none" => told'[p] = told[p]
              /\ told'[p] # told[p] => p \in S /\ p \in Wanted /\ told'[p] = how
              /\ p \in S /\ p \in Wanted => told'[p] # "none"
BY DEF Told, SessionTypes

\* The panes are reconciled: one the session has is driven or was told of.
LEMMA ReconciledInv ==
  ASSUME LinkInv, Reconciled
  PROVE  LinkInv'
<1>1. /\ BookTypes /\ CallTypes /\ SessionTypes /\ KnownHere /\ ImageOK /\ ClosingOK
      /\ imagePc # "spawning" => spawning = NoPane /\ Wanted = live
      /\ Shapes /\ LinksOK
      /\ isClosed => link[Newest].state = "down" /\ link[Newest].toImage = <<>>
  BY ImgBefore
<1> DEFINE S == live \ (listed \cup exitsAtConnect)
<1>2. /\ SupSame /\ imagePc = "killEnded" /\ toKill = {} /\ told' = Told(S, "lost")
      /\ \/ isClosed /\ imagePc' = "connect" /\ BookIsOver
         \/ /\ ~isClosed /\ imagePc' = "run" /\ driven' = listed /\ listed' = {}
            /\ exitsAtConnect' = {}
            /\ UNCHANGED <<ungranted, isReconciled, rejected, exited, isClosed, toKill, answered,
                           killWaits>>
      /\ UNCHANGED <<link, killDone, live, spawning, unparsed, fed, torn>>
  BY DEF Reconciled, SupSame
<1>3. /\ told' \in [Panes -> {"none", "real", "lost"}]
      /\ \A p \in Panes :
           /\ told[p] # "none" => told'[p] = told[p]
           /\ told'[p] # told[p] => p \in S /\ p \in Wanted /\ told'[p] = "lost"
           /\ p \in S /\ p \in Wanted => told'[p] # "none"
  BY <1>1, <1>2, ToldFacts, ZenonT(60)
<1>4. BookTypes' /\ CallTypes' /\ SessionTypes'
  <2>1. SessionTypes'
    BY <1>1, <1>2, <1>3 DEF SessionTypes
  <2>2. CASE isClosed
    BY <1>1, <1>2, <2>1, <2>2, BookOver DEF CallTypes, LinkPcs
  <2>3. CASE ~isClosed
    BY <1>1, <1>2, <2>1, <2>3 DEF BookTypes, CallTypes, RunPcs
  <2>4. QED
    BY <2>2, <2>3
<1>5. \A p \in Panes : Known(p)' <=> Known(p)
  BY <1>2 DEF SupSame, paneVars, Known
<1>6. Wanted' = Wanted /\ Wanted = live
  BY <1>1, <1>2 DEF Wanted
<1>7. /\ toKill' = {}
      /\ isClosed => /\ isClosed' = FALSE /\ driven' = {} /\ exitsAtConnect' = {}
                     /\ rejected' = {} /\ exited' = {} /\ listed' = {}
  BY <1>2, BookOver
<1>8. KnownHere'
  BY <1>1, <1>2, <1>4, <1>5, <1>7 DEF KnownHere, BookTypes, CallTypes, SessionTypes
<1>9. ~IsOver
  BY <1>2 DEF IsOver, IsLinking
<1>10. ImageOK'
  <2>1. CASE isClosed
    BY <1>1, <1>2, <1>7, <2>1 DEF ImageOK, RunPcs, LinkPcs, EndPcs
  <2>2. CASE ~isClosed
    <3>1. \A p \in live' : told'[p] = "none" => p \in driven'
      <4> TAKE p \in live'
      <4>1. p \in live /\ p \in Panes /\ p \in Wanted
        BY <1>1, <1>2, <1>6 DEF SessionTypes
      <4>2. p \in exitsAtConnect => told'[p] # "none"
        BY <1>1, <1>3, <4>1 DEF ImageOK
      <4>3. QED
        BY <1>2, <1>3, <2>2, <4>1, <4>2
    <3>2. \A p \in exited' \cup exitsAtConnect' : p \in Wanted' => told'[p] # "none"
      BY <1>1, <1>2, <1>3, <1>6, <2>2 DEF ImageOK, SessionTypes
    <3>3. imagePc' = "run" /\ spawning' = NoPane /\ isClosed' = FALSE /\ rejected' = rejected
      BY <1>1, <1>2, <2>2 DEF BookTypes
    <3>4. \A p \in rejected' : p \notin Wanted'
      BY <1>1, <1>6, <3>3 DEF ImageOK
    <3>5. QED
      BY <3>1, <3>2, <3>3, <3>4 DEF ImageOK, EndPcs
  <2>3. QED
    BY <2>1, <2>2
<1>11. SwapOK'
  BY <1>2 DEF SwapOK
<1>12. LinkStep /\ SupFewer /\ ImgFewer
  BY <1>1, <1>2, SameStep
<1>13. Steady
  BY <1>2, <1>3, <1>6, <1>9, LetGoStays DEF Steady
<1>14. (\A r \in ToSup(Newest) : RequestKept(r)) /\ \A f \in Carried' : AnswerKept(f)
  BY <1>2, <1>9, <1>12, CallOver
<1>15. RequestsOK'
  BY <1>2, <1>12, <1>13, <1>14, ImgRequests
<1>16. EndsOK'
  BY <1>2, <1>3, <1>12, EndsFewer
<1>17. \A p \in Panes : (fed'[p] = fed[p] /\ told'[p] = told[p]) \/ Known(p)
  BY <1>1, <1>2, <1>3 DEF KnownHere
<1>18. isClosed' \/ imagePc' \in {"connect", "gone"} =>
         link'[Newest].state = "down" /\ link'[Newest].toImage = <<>>
  BY <1>1, <1>2, <1>7
<1>19. QED
  BY <1>2, <1>4, <1>7, <1>8, <1>10, <1>11, <1>12, <1>13, <1>14, <1>15, <1>16, <1>17, <1>18, ImgStep

\* The link's end is seen: every pane that is driven was told of, or is now.
LEMMA ReaderClosesInv ==
  ASSUME LinkInv, ReaderCloses
  PROVE  LinkInv'
<1>1. /\ BookTypes /\ CallTypes /\ SessionTypes /\ KnownHere /\ ImageOK /\ ClosingOK
      /\ Shapes /\ LinksOK
  BY ImgBefore
<1> DEFINE S == driven \ (rejected \cup exited)
<1>2. /\ SupSame /\ imagePc \notin {"connect", "gone"} /\ ~isClosed /\ isClosed' = TRUE
      /\ link[Newest].state = "down" /\ link[Newest].toImage = <<>>
      /\ driven' = {} /\ told' = Told(S, "lost") /\ killWaits' = {}
      /\ UNCHANGED <<link, ungranted, exitsAtConnect, isReconciled, rejected, exited, imagePc,
                     listed, toKill, answered, killDone, live, spawning, unparsed, fed, torn>>
  BY DEF ReaderCloses, SupSame
<1>3. /\ told' \in [Panes -> {"none", "real", "lost"}]
      /\ \A p \in Panes :
           /\ told[p] # "none" => told'[p] = told[p]
           /\ told'[p] # told[p] => p \in S /\ p \in Wanted /\ told'[p] = "lost"
           /\ p \in S /\ p \in Wanted => told'[p] # "none"
  BY <1>1, <1>2, ToldFacts
<1>4. BookTypes' /\ CallTypes' /\ SessionTypes'
  BY <1>1, <1>2, <1>3 DEF BookTypes, CallTypes, SessionTypes
<1>5. \A p \in Panes : Known(p)' <=> Known(p)
  BY <1>2 DEF SupSame, paneVars, Known
<1>6. Wanted' = Wanted /\ \A p \in live : p \in Wanted
  BY <1>2 DEF Wanted
<1>7. KnownHere'
  BY <1>1, <1>2, <1>5 DEF KnownHere, BookTypes, CallTypes, SessionTypes
<1>8. (IsOver => IsOver') /\ ~IsOver
  BY <1>2 DEF IsOver
<1>9. ImageOK'
  <2>1. imagePc \in RunPcs => \A p \in live : told'[p] # "none"
    <3> SUFFICES ASSUME imagePc \in RunPcs, NEW p \in live PROVE told'[p] # "none"
      OBVIOUS
    <3>1. p \in Panes /\ p \in Wanted
      BY <1>1, <1>6 DEF SessionTypes
    <3>2. told[p] = "none" => p \in S
      BY <1>1, <3>1 DEF ImageOK
    <3>3. QED
      BY <1>3, <3>1, <3>2
  <2>2. \A p \in exited \cup exitsAtConnect : p \in Wanted => told'[p] # "none"
    BY <1>1, <1>3 DEF ImageOK, BookTypes
  <2>3. imagePc = "spawning" /\ answered => Known(spawning)'
    BY <1>1, <1>2, <1>5 DEF ImageOK, Known, SupSame, paneVars
  <2>4. QED
    BY <1>1, <1>2, <1>6, <2>1, <2>2, <2>3 DEF ImageOK
<1>10. SwapOK'
  BY <1>2 DEF SwapOK
<1>11. LinkStep /\ SupFewer /\ ImgFewer
  BY <1>1, <1>2, SameStep
<1>12. Steady
  BY <1>2, <1>3, <1>6, <1>8, LetGoStays DEF Steady
<1>13. (\A r \in ToSup(Newest) : RequestKept(r)) /\ \A f \in Carried' : AnswerKept(f)
  BY <1>2, <1>8, <1>11, CallSame
<1>14. RequestsOK'
  BY <1>2, <1>11, <1>12, <1>13, ImgRequests
<1>15. EndsOK'
  BY <1>2, <1>3, <1>11, EndsFewer
<1>16. \A p \in Panes : (fed'[p] = fed[p] /\ told'[p] = told[p]) \/ Known(p)
  BY <1>1, <1>2, <1>3 DEF KnownHere
<1>17. \A p \in toKill' : LetGo(p)'
  BY <1>1, <1>2, <1>12 DEF Steady, ClosingOK, CallTypes
<1>18. link'[Newest].state = "down" /\ link'[Newest].toImage = <<>>
  BY <1>2
<1>19. QED
  BY <1>2, <1>4, <1>7, <1>9, <1>10, <1>11, <1>12, <1>13, <1>14, <1>15, <1>16, <1>17, <1>18, ImgStep

\* A link that breaks is still read, or its open streams are torn.
LEMMA LinkBreaksInv ==
  ASSUME LinkInv, LinkBreaks
  PROVE  LinkInv'
<1>1. /\ BookTypes /\ CallTypes /\ SessionTypes /\ KnownHere /\ ImageOK /\ ClosingOK
      /\ Shapes /\ LinksOK
      /\ isClosed \/ imagePc \in {"connect", "gone"} => link[Newest].state = "down"
  BY ImgBefore
<1>2. /\ SupSame /\ link[Newest].state = "up"
      /\ UNCHANGED <<driven, ungranted, exitsAtConnect, isReconciled, rejected, exited, isClosed,
                     imagePc, listed, toKill, answered, killWaits, killDone, live, spawning,
                     unparsed, fed, told>>
  BY DEF LinkBreaks, SupSame, bookVars, imageVars
<1>3. LinkStep /\ SupFewer /\ ImgFewer /\ (torn' = torn \cup PanesOnLink \/ torn' = torn)
  BY <1>1, BreakStep
<1>4. torn \subseteq torn' /\ \A p \in torn' : Known(p) /\ p \in Panes
  BY <1>1, <1>3, PanesOnLinkKnown DEF KnownHere, SessionTypes
<1>5. BookTypes' /\ CallTypes' /\ SessionTypes'
  BY <1>1, <1>2, <1>4 DEF BookTypes, CallTypes, SessionTypes
<1>6. \A p \in Panes : Known(p)' <=> Known(p)
  BY <1>2 DEF SupSame, paneVars, Known
<1>7. Wanted' = Wanted
  BY <1>2 DEF Wanted
<1>8. KnownHere'
  BY <1>1, <1>2, <1>4, <1>6 DEF KnownHere, BookTypes, CallTypes, SessionTypes
<1>9. IsOver' <=> IsOver
  BY <1>2 DEF IsOver, IsLinking
<1>10. ImageOK'
  <2>1. imagePc = "spawning" /\ answered => Known(spawning)'
    BY <1>1, <1>2 DEF ImageOK, Known, SupSame, paneVars
  <2>2. QED
    BY <1>1, <1>2, <1>7, <2>1 DEF ImageOK
<1>11. SwapOK'
  BY <1>2, <1>3, SwapSame
<1>12. Steady
  BY <1>2, <1>4, <1>7, <1>9, LetGoStays DEF Steady
<1>13. (\A r \in ToSup(Newest) : RequestKept(r)) /\ \A f \in Carried' : AnswerKept(f)
  BY <1>2, <1>3, <1>9, CallSame
<1>14. RequestsOK'
  BY <1>2, <1>3, <1>12, <1>13, ImgRequests
<1>15. EndsOK'
  BY <1>2, <1>3, EndsFewer
<1>16. \A p \in toKill' : LetGo(p)'
  BY <1>1, <1>2, <1>12 DEF Steady, ClosingOK, CallTypes
<1>17. ~(isClosed' \/ imagePc' \in {"connect", "gone"})
  BY <1>1, <1>2
<1>18. QED
  BY <1>2, <1>3, <1>5, <1>8, <1>10, <1>11, <1>12, <1>13, <1>14, <1>15, <1>16, <1>17, ImgStep

\* A step of the reader that hands a frame to the session.
LEMMA ImgReads ==
  ASSUME LinkInv, SupSame, imagePc \notin {"connect", "gone"}, ~isClosed,
         link[Newest].toImage # <<>>, link' = Read,
         UNCHANGED <<driven, ungranted, isReconciled, isClosed, imagePc, listed, toKill, answered,
                     killWaits, killDone, live, spawning, torn>>,
         BookTypes', SessionTypes', \A p \in Panes : told[p] # "none" => told'[p] # "none",
         \A p \in Panes : (fed'[p] = fed[p] /\ told'[p] = told[p]) \/ Known(p),
         \A p \in rejected' \cup exited' \cup exitsAtConnect' : Known(p), EndsOK',
         \A p \in rejected' : p \notin Wanted,
         \A p \in exited' \cup exitsAtConnect' : p \in Wanted => told'[p] # "none"
  PROVE  LinkInv'
<1>1. /\ BookTypes /\ CallTypes /\ SessionTypes /\ KnownHere /\ ImageOK /\ ClosingOK
      /\ Shapes /\ LinksOK
  BY ImgBefore
<1>2. LinkStep /\ SupFewer /\ ImgFewer
  BY <1>1, ReadLinkStep
<1>3. CallTypes'
  BY <1>1 DEF CallTypes
<1>4. \A p \in Panes : Known(p)' <=> Known(p)
  BY DEF SupSame, paneVars, Known
<1>5. Wanted' = Wanted
  BY DEF Wanted
<1>6. KnownHere'
  BY <1>1, <1>4 DEF KnownHere, BookTypes, CallTypes, SessionTypes
<1>7. IsOver' <=> IsOver
  BY DEF IsOver, IsLinking
<1>8. ImageOK'
  <2>1. imagePc = "spawning" /\ answered => Known(spawning)'
    BY <1>1 DEF ImageOK, Known, SupSame, paneVars
  <2>2. imagePc \in RunPcs => \A p \in live : told'[p] = "none" => p \in driven
    BY <1>1 DEF ImageOK, SessionTypes
  <2>3. QED
    BY <1>1, <1>5, <2>1, <2>2 DEF ImageOK
<1>9. SwapOK'
  BY <1>2, SwapSame
<1>10. Steady
  BY <1>5, <1>7, LetGoStays DEF Steady
<1>11. (\A r \in ToSup(Newest) : RequestKept(r)) /\ \A f \in Carried' : AnswerKept(f)
  BY <1>2, <1>7, CallSame
<1>12. RequestsOK'
  BY <1>2, <1>10, <1>11, ImgRequests
<1>13. \A p \in toKill' : LetGo(p)'
  BY <1>1, <1>10 DEF Steady, ClosingOK, CallTypes
<1>14. QED
  BY <1>2, <1>3, <1>6, <1>8, <1>9, <1>10, <1>11, <1>12, <1>13, ImgStep

\* ReadOutput keeps the invariant.
LEMMA ReadOutputInv ==
  ASSUME LinkInv, ReadOutput
  PROVE  LinkInv'
<1>1. BookTypes /\ SessionTypes /\ KnownHere /\ ImageOK /\ Shapes /\ LinksOK
  BY ImgBefore
<1> DEFINE p == Frame.pane
<1>2. /\ SupSame /\ imagePc \notin {"connect", "gone"} /\ ~isClosed /\ link[Newest].toImage # <<>>
      /\ Frame.kind = "output" /\ link' = Read
      /\ \/ rejected' = rejected \cup {p} /\ p \in rejected \cup (Panes \ Wanted)
            /\ UNCHANGED <<fed, unparsed>>
         \/ /\ p \notin Panes /\ UNCHANGED fed
         \/ /\ p \in Wanted /\ fed' = [fed EXCEPT ![p] = Frame.from + Frame.count]
            /\ unparsed' = [unparsed EXCEPT ![p] = @ + Frame.count]
            /\ UNCHANGED rejected
      /\ UNCHANGED <<driven, ungranted, exitsAtConnect, isReconciled, exited, isClosed, imagePc,
                     listed, toKill, answered, killWaits, killDone, live, spawning, told, torn>>
  BY DEF ReadOutput, HasFrame, SupSame, imageVars
<1>3. Frame \in Carried /\ ImgFewer
  BY <1>1, <1>2, ReadLinkStep
<1>4. /\ p \in Panes /\ Known(p) /\ Frame.count \in Nat
      /\ Frame.from + Frame.count \in 0 .. PrintLimit
  BY <1>2, <1>3, OutputIsKnown
<1> HIDE DEF p
<1>5. BookTypes' /\ SessionTypes'
  BY <1>1, <1>2, <1>4, SMTT(60) DEF BookTypes, SessionTypes
<1>6. \A q \in Panes : (fed'[q] = fed[q] /\ told'[q] = told[q]) \/ Known(q)
  BY <1>1, <1>2, <1>4 DEF SessionTypes
<1>7. /\ \A q \in rejected' \cup exited' \cup exitsAtConnect' : Known(q)
      /\ \A q \in rejected' : q \notin Wanted
  BY <1>1, <1>2, <1>4 DEF KnownHere, ImageOK
<1>8. EndsOK'
  BY <1>2, <1>3, EndsFewer
<1>9. \A q \in exited' \cup exitsAtConnect' : q \in Wanted => told'[q] # "none"
  BY <1>1, <1>2 DEF ImageOK
<1>10. QED
  BY <1>2, <1>5, <1>6, <1>7, <1>8, <1>9, ImgReads

\* An exit is told once, and after all of the pane's output.
LEMMA ReadExitedInv ==
  ASSUME LinkInv, ReadExited
  PROVE  LinkInv'
<1>1. BookTypes /\ SessionTypes /\ KnownHere /\ ImageOK /\ Shapes /\ LinksOK /\ EndsOK /\ FramesOK
  BY ImgBefore DEF LinkInv
<1> DEFINE p == Frame.pane
<1>2. /\ SupSame /\ imagePc \notin {"connect", "gone"} /\ ~isClosed /\ link[Newest].toImage # <<>>
      /\ Frame.kind = "exited" /\ link' = Read
      /\ \/ exitsAtConnect' = exitsAtConnect
         \/ exitsAtConnect' = exitsAtConnect \cup {p}
      /\ \/ p \in rejected /\ UNCHANGED <<exited, told>>
         \/ p \notin rejected /\ exited' = exited \cup {p} /\ told' = Told({p} \ exited, "real")
      /\ UNCHANGED <<driven, ungranted, isReconciled, rejected, isClosed, imagePc, listed, toKill,
                     answered, killWaits, killDone, live, spawning, unparsed, fed, torn>>
  BY DEF ReadExited, HasFrame, SupSame, imageVars
<1>3. /\ Frame \in Carried /\ Frame \in Frames /\ Carried' \subseteq Carried
      /\ \A h \in Carried' : CarriedBefore(Frame, h)
  BY <1>1, <1>2, ReadLinkStep DEF ImgFewer
<1>4. p \in Panes /\ readerPc[p] = "ended" /\ Known(p)
  BY <1>1, <1>2, <1>3 DEF FramesOK, FrameOK, Known, Frames, Outputs, Exits, Answers
<1>5. \A h \in Carried' : h.kind = "output" => h.pane # p /\ h.pane \in Panes
  <2>1. \A h \in Carried' : h \in Frames /\ FollowsOK(Frame, h)
    BY <1>1, <1>3, CarriedType DEF FramesOK
  <2>2. QED
    BY <1>2, <2>1 DEF FollowsOK, Frames, Outputs, Exits, Answers
<1> HIDE DEF p
<1>6. /\ told' \in [Panes -> {"none", "real", "lost"}]
      /\ \A q \in Panes : told[q] # "none" => told'[q] = told[q]
      /\ \A q \in Panes : q # p => told'[q] = told[q]
      /\ p \notin rejected /\ p \in Wanted => p \in exited \/ told'[p] # "none"
  <2>1. CASE p \in rejected
    BY <1>1, <1>2, <2>1 DEF SessionTypes
  <2>2. CASE p \notin rejected
    <3>1. told' = Told({p} \ exited, "real")
      BY <1>2, <2>2
    <3>2. /\ told' \in [Panes -> {"none", "real", "lost"}]
          /\ \A q \in Panes :
               /\ told[q] # "none" => told'[q] = told[q]
               /\ told'[q] # told[q] =>
                    q \in {p} \ exited /\ q \in Wanted /\ told'[q] = "real"
               /\ q \in {p} \ exited /\ q \in Wanted => told'[q] # "none"
      BY <1>1, <3>1, ToldFacts
    <3>3. QED
      BY <1>4, <3>2
  <2>3. QED
    BY <2>1, <2>2
<1>7. BookTypes'
  BY <1>1, <1>2, <1>4 DEF BookTypes
<1>8. SessionTypes'
  BY <1>1, <1>2, <1>6 DEF SessionTypes
<1>9. \A q \in Panes : (fed'[q] = fed[q] /\ told'[q] = told[q]) \/ Known(q)
  BY <1>2, <1>4, <1>6
<1>10. \A q \in rejected' \cup exited' \cup exitsAtConnect' : Known(q)
  BY <1>1, <1>2, <1>4 DEF KnownHere
<1>11. \A q \in rejected' : q \notin Wanted
  BY <1>1, <1>2 DEF ImageOK
<1>12. \A q \in exited' \cup exitsAtConnect' : q \in Wanted => told'[q] # "none"
  <2>1. p \in Wanted => told'[p] # "none"
    BY <1>1, <1>4, <1>6 DEF ImageOK
  <2>2. \A q \in exited \cup exitsAtConnect : q \in Wanted => told'[q] # "none"
    BY <1>1, <1>6 DEF ImageOK, BookTypes
  <2>3. QED
    BY <1>2, <2>1, <2>2
<1>13. EndsOK'
  <2>1. readerPc' = readerPc /\ exitPc' = exitPc /\ killDone' = killDone
    BY <1>2 DEF SupSame, paneVars
  <2>2. \A q \in Panes : told'[q] = "real" => readerPc'[q] = "ended"
    BY <1>1, <1>4, <1>6, <2>1 DEF EndsOK
  <2>3. \A q \in killDone' : Over(q)'
    BY <1>1, <2>1 DEF EndsOK, Over
  <2>4. \A f \in Carried' : f.kind = "output" => told'[f.pane] # "real"
    BY <1>1, <1>3, <1>5, <1>6 DEF EndsOK
  <2>5. QED
    BY <1>1, <1>3, <2>1, <2>2, <2>3, <2>4 DEF EndsOK
<1>14. QED
  BY <1>2, <1>6, <1>7, <1>8, <1>9, <1>10, <1>11, <1>12, <1>13, ImgReads

\* An answer goes to whoever waits for it: one who does is told of nothing that
\* is still on its way.
LEMMA ReadAnswerInv ==
  ASSUME LinkInv, ReadAnswer
  PROVE  LinkInv'
<1>1. /\ BookTypes /\ CallTypes /\ SessionTypes /\ KnownHere /\ ImageOK /\ ClosingOK
      /\ Shapes /\ LinksOK /\ Newest \in Links
  BY ImgBefore
<1>2. EndsOK /\ FramesOK /\ RequestsOK /\ SwapOK
  BY DEF LinkInv
<1>3. /\ SupSame /\ imagePc \notin {"connect", "gone"} /\ ~isClosed /\ link[Newest].toImage # <<>>
      /\ Frame.kind = "answer"
      /\ link' = Read \/ link' = [Read EXCEPT ![Newest].version = Frame.version]
      /\ \/ /\ Frame.of = "kill" /\ Frame.pane \in killWaits
            /\ killWaits' = killWaits \ {Frame.pane}
            /\ killDone' = killDone \cup {Frame.pane}
            /\ UNCHANGED answered
         \/ /\ answered' = (answered \/ Frame.of = Awaited)
            /\ UNCHANGED <<killWaits, killDone>>
      /\ (listed' = Frame.panes /\ Frame.of = "list") \/ listed' = listed
      /\ UNCHANGED <<driven, ungranted, exitsAtConnect, isReconciled, rejected, exited, isClosed,
                     imagePc, toKill, live, spawning, unparsed, fed, told, torn>>
  BY DEF ReadAnswer, HasFrame, SupSame, bookVars, sessionVars
<1>4. Frame \in Frames
  <2>1. Newest \in 1 .. LinkLimit
    BY <1>1, NewestFacts
  <2>2. link[Newest].toImage \in Seq(Frames)
    BY <1>1, <2>1, LinkParts
  <2>3. QED
    BY <1>3, <2>2, QueueTail DEF Frame
<1>5. /\ Frame.version \in Versions \cup {"none"} /\ Frame.panes \subseteq Panes
  BY <1>3, <1>4 DEF Frames, Outputs, Exits, Answers
<1>6. /\ LinkStep /\ SupFewer /\ ImgFewer /\ Frame \in Carried
      /\ \A h \in Carried' : h \in Carried /\ CarriedBefore(Frame, h)
  BY <1>1, <1>3, <1>5, ReadLinkStep DEF ImgFewer
<1>7. FrameOK(Frame) /\ \A h \in Carried' : FollowsOK(Frame, h)
  BY <1>2, <1>6 DEF FramesOK
<1> DEFINE a == Frame
<1>8. /\ a.kind = "answer" /\ a \in Carried /\ FrameOK(a)
      /\ \A h \in Carried' : h \in Carried /\ CarriedBefore(a, h) /\ FollowsOK(a, h)
      /\ answered' => answered \/ a.of = Awaited
      /\ answered => answered'
      /\ killDone' \subseteq killDone \cup {a.pane}
      /\ a.of # "kill" => killDone' = killDone
      /\ listed' = listed \/ (listed' = a.panes /\ a.of = "list")
  <2>1. (answered' => answered \/ Frame.of = Awaited) /\ (answered => answered')
    <3>1. answered' = answered \/ answered' = (answered \/ Frame.of = Awaited)
      BY <1>3
    <3>2. CASE answered' = answered
      BY <3>2
    <3>3. CASE answered' = (answered \/ Frame.of = Awaited)
      BY <3>3
    <3>4. QED
      BY <3>1, <3>2, <3>3
  <2>2. /\ killDone' \subseteq killDone \cup {a.pane} /\ (a.of # "kill" => killDone' = killDone)
        /\ listed' = listed \/ (listed' = a.panes /\ a.of = "list")
    BY <1>3
  <2>3. QED
    BY <1>3, <1>6, <1>7, <2>1, <2>2
<1>9. BookTypes' /\ CallTypes' /\ SessionTypes'
  BY <1>1, <1>3, <1>5 DEF BookTypes, CallTypes, SessionTypes
<1> HIDE DEF a
<1>10. \A p \in Panes : Known(p)' <=> Known(p)
  BY <1>3 DEF SupSame, paneVars, Known
<1>11. Wanted' = Wanted
  BY <1>3 DEF Wanted
<1>12. KnownHere'
  <2>1. \A p \in listed' : Known(p)
    BY <1>1, <1>8 DEF KnownHere, FrameOK
  <2>2. QED
    BY <1>1, <1>3, <1>9, <1>10, <2>1 DEF KnownHere, BookTypes, CallTypes, SessionTypes
<1>13. (IsOver' <=> IsOver) /\ ~IsOver
  BY <1>3 DEF IsOver, IsLinking
<1>14. Steady
  BY <1>3, <1>11, <1>13, LetGoStays DEF Steady
<1>15. ASSUME NEW r \in ToSup(Newest) PROVE RequestKept(r)
  <2>1. RequestOK(Newest, r)
    BY <1>1, <1>2 DEF RequestsOK
  <2>2. CASE r.kind = "spawn"
    <3>1. imagePc = "spawning" /\ spawning = r.pane /\ ~answered /\ ~Known(r.pane)
      BY <1>13, <2>1, <2>2 DEF RequestOK
    <3>2. a.of # "spawn"
      BY <1>8, <3>1 DEF FrameOK
    <3>3. ~answered'
      BY <1>8, <3>1, <3>2 DEF Awaited
    <3>4. QED
      BY <1>3, <2>2, <3>1, <3>3 DEF RequestKept, IsHold
  <2>3. CASE IsHold(r)
    <3>1. imagePc \in {"pausing", "resuming"} /\ ~answered
      BY <1>13, <2>1, <2>3 DEF RequestOK, IsHold
    <3>2. imagePc = "pausing" => a.of # "pause"
      BY <1>2, <1>3, <1>8, <2>3 DEF SwapOK, PausingOK, IsHoldAnswer
    <3>3. imagePc = "resuming" => a.of # "resume"
      BY <1>2, <1>3, <1>8, <2>3 DEF SwapOK, ResumingOK
    <3>4. ~answered'
      BY <1>8, <3>1, <3>2, <3>3 DEF Awaited
    <3>5. QED
      BY <1>3, <2>3, <3>1, <3>4 DEF RequestKept, IsHold
  <2>4. QED
    BY <2>2, <2>3 DEF RequestKept
<1>16. ASSUME NEW f \in Carried' PROVE AnswerKept(f)
  <2>1. /\ f \in Carried /\ FrameOK(f) /\ CarriedBefore(a, f) /\ FollowsOK(a, f)
    BY <1>2, <1>8 DEF FramesOK
  <2>2. SUFFICES ASSUME f.kind = "answer" PROVE AnswerKept(f)
    BY DEF AnswerKept
  <2>3. CASE f.of = "spawn"
    <3>1. imagePc = "spawning" /\ spawning = f.pane /\ ~answered /\ a.of # "spawn"
      BY <1>8, <2>1, <2>2, <2>3 DEF FrameOK, FollowsOK
    <3>2. ~answered'
      BY <1>8, <3>1 DEF Awaited
    <3>3. QED
      BY <1>3, <2>3, <3>1, <3>2 DEF AnswerKept
  <2>4. CASE IsHoldAnswer(f)
    <3>1. /\ imagePc \in {"pausing", "resuming"} /\ ~answered
          /\ f.of = "resume" => imagePc = "resuming"
      BY <2>1, <2>2, <2>4 DEF FrameOK, IsHoldAnswer
    <3>2. imagePc = "pausing" => a.of # "pause"
      BY <1>2, <1>3, <1>8, <2>1, <2>4 DEF SwapOK, PausingOK, IsHoldAnswer
    <3>3. imagePc = "resuming" => a.of # "resume"
      BY <1>2, <1>3, <1>8, <2>1, <2>4 DEF SwapOK, ResumingOK
    <3>4. ~answered'
      BY <1>8, <3>1, <3>2, <3>3 DEF Awaited
    <3>5. QED
      BY <1>3, <2>4, <3>1, <3>4 DEF AnswerKept, IsHoldAnswer
  <2>5. QED
    BY <2>2, <2>3, <2>4 DEF AnswerKept, IsHoldAnswer
<1>17. RequestsOK'
  BY <1>3, <1>6, <1>14, <1>15, ImgRequests
<1>18. EndsOK'
  <2>1. readerPc' = readerPc /\ exitPc' = exitPc /\ told' = told
    BY <1>3 DEF SupSame, paneVars
  <2>2. \A q \in killDone' : Over(q)'
    BY <1>2, <1>8, <2>1 DEF EndsOK, FrameOK, Over
  <2>3. \A f \in Carried' : f.kind \in {"output", "exited"} => f.pane \notin killDone'
    BY <1>2, <1>8 DEF EndsOK, FollowsOK
  <2>4. QED
    BY <1>2, <1>8, <2>1, <2>2, <2>3 DEF EndsOK
<1>19. ImageOK'
  <2>1. imagePc = "spawning" /\ answered' => Known(spawning)'
    <3>1. imagePc = "spawning" /\ answered' => Known(spawning)
      BY <1>1, <1>8 DEF ImageOK, FrameOK, Awaited
    <3>2. QED
      BY <1>3, <3>1 DEF Known, SupSame, paneVars
  <2>2. QED
    BY <1>1, <1>3, <1>11, <2>1 DEF ImageOK
<1>20. SwapOK'
  <2>1. /\ UNCHANGED <<isPaused, generation>> /\ Newest' = Newest
    BY <1>3, <1>6 DEF SupSame, sinkVars, LinkStep
  <2>2. /\ \A x \in ToSup(Newest)' : x \in ToSup(Newest)
        /\ \A x, y : SupBefore(Newest, x, y)' => SupBefore(Newest, x, y)
    BY <1>1, <1>6, <2>1 DEF SupFewer, ToSup, SupBefore
  <2>3. /\ Carried' \subseteq Carried
        /\ \A x, y : CarriedBefore(x, y)' => CarriedBefore(x, y)
    BY <1>6 DEF ImgFewer
  <2>4. Held => Held'
    BY <2>1, <2>3 DEF Held
  <2>5. CASE imagePc = "pausing"
    <3>1. PausingOK
      BY <1>2, <1>3, <2>5 DEF SwapOK
    <3>2. answered' => Held'
      <4>1. CASE answered
        BY <2>4, <3>1, <4>1 DEF PausingOK
      <4>2. CASE ~answered /\ answered'
        <5>1. IsHoldAnswer(a)
          BY <1>8, <2>5, <4>2 DEF Awaited, IsHoldAnswer
        <5>2. QED
          BY <1>8, <2>1, <3>1, <5>1 DEF PausingOK, Held
      <4>3. QED
        BY <4>1, <4>2
    <3>3. PausingOK'
      BY <2>1, <2>2, <2>3, <3>1, <3>2 DEF PausingOK
    <3>4. QED
      BY <1>3, <2>5, <3>3 DEF SwapOK
  <2>6. CASE imagePc = "resuming"
    <3>1. ResumingOK
      BY <1>2, <1>3, <2>6 DEF SwapOK
    <3>2. ResumingOK'
      BY <2>1, <2>2, <2>3, <3>1 DEF ResumingOK
    <3>3. QED
      BY <1>3, <2>6, <3>2 DEF SwapOK
  <2>7. CASE imagePc \notin {"pausing", "resuming"}
    BY <1>2, <1>3, <2>4, <2>7 DEF SwapOK
  <2>8. QED
    BY <2>5, <2>6, <2>7
<1>21. \A p \in toKill' : LetGo(p)'
  BY <1>1, <1>3, <1>14 DEF Steady, ClosingOK, CallTypes
<1>22. QED
  BY <1>3, <1>6, <1>9, <1>12, <1>14, <1>16, <1>17, <1>18, <1>19, <1>20, <1>21, ImgStep

\* What was parsed is granted back, to a pane that asks for nothing else.
LEMMA ParseInv ==
  ASSUME LinkInv, NEW p \in Panes, Parse(p)
  PROVE  LinkInv'
<1>1. /\ BookTypes /\ CallTypes /\ SessionTypes /\ KnownHere /\ ImageOK /\ ClosingOK
      /\ Shapes /\ LinksOK /\ Newest \in Links
  BY ImgBefore
<1>2. /\ SupSame /\ imagePc \in {"run", "pausing", "held"}
      /\ unparsed' = [unparsed EXCEPT ![p] = 0]
      /\ \/ UNCHANGED link
         \/ ~isClosed /\ link' = Asked(Request("grant", p, ungranted[p] + unparsed[p]))
      /\ \/ ungranted' = ungranted \/ ungranted' = [ungranted EXCEPT ![p] = 0]
         \/ ungranted' = [ungranted EXCEPT ![p] = @ + unparsed[p]]
      /\ UNCHANGED <<driven, exitsAtConnect, isReconciled, rejected, exited, isClosed, imagePc,
                     listed, toKill, answered, killWaits, killDone, live, spawning, fed, told, torn>>
  BY DEF Parse, CanAsk, SupSame, imageVars
<1>21. PICK r \in Requests : r = Request("grant", p, ungranted[p] + unparsed[p])
  <2>1. ungranted[p] + unparsed[p] \in Nat
    BY <1>1 DEF BookTypes, SessionTypes
  <2>2. QED
    BY <2>1 DEF Request, Requests, PlainKinds, PaneKinds
<1>3. r \in Requests /\ r.kind = "grant"
  BY <1>21 DEF Request
<1>4. UNCHANGED link \/ (~isClosed /\ link' = Asked(r))
  BY <1>2, <1>21
<1>5. LinkStep /\ ImgFewer /\ (SupFewer \/ SupMore(r))
  BY <1>1, <1>3, <1>4, SameStep, AskedStep
<1>6. BookTypes' /\ CallTypes' /\ SessionTypes'
  <2>1. ungranted' \in [Panes -> Nat] /\ unparsed' \in [Panes -> Nat]
    BY <1>1, <1>2 DEF BookTypes, SessionTypes
  <2>2. QED
    BY <1>1, <1>2, <2>1 DEF BookTypes, CallTypes, SessionTypes
<1>7. \A q \in Panes : Known(q)' <=> Known(q)
  BY <1>2 DEF SupSame, paneVars, Known
<1>8. Wanted' = Wanted
  BY <1>2 DEF Wanted
<1>9. KnownHere'
  BY <1>1, <1>2, <1>7 DEF KnownHere, BookTypes, CallTypes, SessionTypes
<1>10. IsOver' <=> IsOver
  BY <1>2 DEF IsOver, IsLinking
<1>11. Steady
  BY <1>2, <1>8, <1>10, LetGoStays DEF Steady
<1>12. (\A s \in ToSup(Newest) : RequestKept(s)) /\ \A f \in Carried' : AnswerKept(f)
  BY <1>2, <1>5, <1>10, CallSame
<1>13. RequestOK(Newest, r)'
  BY <1>3 DEF RequestOK
<1>14. RequestsOK'
  BY <1>2, <1>3, <1>5, <1>11, <1>12, <1>13, ImgRequests
<1>15. EndsOK'
  BY <1>2, <1>5, EndsFewer
<1>16. ImageOK'
  BY <1>1, <1>2, <1>8 DEF ImageOK
<1>17. SwapOK'
  <2>1. ~IsHold(r)
    BY <1>3 DEF IsHold
  <2>2. QED
    BY <1>2, <1>3, <1>5, <2>1, SwapSame
<1>18. isClosed' \/ imagePc' \in {"connect", "gone"} =>
          link'[Newest].state = "down" /\ link'[Newest].toImage = <<>>
  BY <1>2, <1>4, ImgBefore
<1>19. \A q \in toKill' : LetGo(q)'
  BY <1>1, <1>2, <1>11 DEF Steady, ClosingOK, CallTypes
<1>20. QED
  BY <1>2, <1>5, <1>6, <1>9, <1>11, <1>12, <1>14, <1>15, <1>16, <1>17, <1>18, <1>19, ImgStep

\* A pane leaves the session; what was let go of may be killed.
LEMMA PaneLeavesInv ==
  ASSUME LinkInv, NEW p \in Panes, PaneLeaves(p)
  PROVE  LinkInv'
<1>1. /\ BookTypes /\ CallTypes /\ SessionTypes /\ KnownHere /\ ImageOK /\ ClosingOK
      /\ Shapes /\ LinksOK /\ Newest \in Links
      /\ imagePc # "spawning" => spawning = NoPane /\ Wanted = live
  BY ImgBefore
<1> DEFINE r == Request("kill", p, 0)
<1>2. /\ SupSame /\ imagePc = "run" /\ p \in live /\ live' = live \ {p}
      /\ unparsed' = [unparsed EXCEPT ![p] = 0] /\ driven' = driven \ {p}
      /\ UNCHANGED link \/ (~isClosed /\ link' = Asked(r))
      /\ killWaits' = killWaits \/ killWaits' = killWaits \cup {p}
      /\ UNCHANGED <<ungranted, exitsAtConnect, isReconciled, rejected, exited, isClosed, imagePc,
                     listed, toKill, answered, killDone, spawning, fed, told, torn>>
  BY DEF PaneLeaves, KillPane, CanAsk, SupSame
<1>3. r \in Requests /\ r.kind = "kill" /\ r.pane = p
  BY DEF Request, Requests, PlainKinds, PaneKinds
<1> HIDE DEF r
<1>4. LinkStep /\ ImgFewer /\ (SupFewer \/ SupMore(r))
  BY <1>1, <1>2, <1>3, SameStep, AskedStep
<1>5. BookTypes' /\ CallTypes' /\ SessionTypes'
  BY <1>1, <1>2 DEF BookTypes, CallTypes, SessionTypes
<1>6. \A q \in Panes : Known(q)' <=> Known(q)
  BY <1>2 DEF SupSame, paneVars, Known
<1>7. Wanted' = Wanted \ {p}
  BY <1>1, <1>2, PaneAssumption DEF Wanted
<1>8. KnownHere'
  BY <1>1, <1>2, <1>6 DEF KnownHere, BookTypes, CallTypes, SessionTypes
<1>9. IsOver' <=> IsOver
  BY <1>2 DEF IsOver, IsLinking
<1>10. Steady
  BY <1>2, <1>7, <1>9, LetGoStays DEF Steady
<1>11. (\A s \in ToSup(Newest) : RequestKept(s)) /\ \A f \in Carried' : AnswerKept(f)
  BY <1>2, <1>4, <1>9, CallOver
<1>12. RequestOK(Newest, r)'
  <2>1. LetGo(p)'
    <3>1. Known(p)
      BY <1>1, <1>2 DEF KnownHere
    <3>2. QED
      BY <1>6, <1>7, <3>1 DEF LetGo
  <2>2. QED
    BY <1>3, <2>1 DEF RequestOK
<1>13. RequestsOK'
  BY <1>2, <1>3, <1>4, <1>10, <1>11, <1>12, ImgRequests
<1>14. EndsOK'
  BY <1>2, <1>4, EndsFewer
<1>15. ImageOK'
  BY <1>1, <1>2, <1>7 DEF ImageOK, RunPcs, EndPcs
<1>16. SwapOK'
  BY <1>2 DEF SwapOK
<1>17. isClosed' \/ imagePc' \in {"connect", "gone"} =>
          link'[Newest].state = "down" /\ link'[Newest].toImage = <<>>
  BY <1>2, ImgBefore
<1>18. \A q \in toKill' : LetGo(q)'
  BY <1>1, <1>2, <1>10 DEF Steady, ClosingOK, CallTypes
<1>19. QED
  BY <1>2, <1>4, <1>5, <1>8, <1>10, <1>11, <1>13, <1>14, <1>15, <1>16, <1>17, <1>18, ImgStep

\* A new link is opened on which nothing was asked but the Hello.
LEMMA ConnectInv ==
  ASSUME LinkInv, Connect
  PROVE  LinkInv'
<1>1. /\ BookTypes /\ CallTypes /\ SessionTypes /\ KnownHere /\ ImageOK /\ ClosingOK
      /\ Shapes /\ LinksOK /\ Newest \in Links /\ RequestsOK /\ EndsOK
      /\ link[Newest].state = "down" /\ link[Newest].toImage = <<>>
  BY ImgBefore DEF Connect, LinkInv
<1>2. /\ SupSame /\ imagePc = "connect" /\ imagePc' = "hello" /\ ~isClosed
      /\ UNCHANGED <<driven, ungranted, exitsAtConnect, isReconciled, rejected, exited, isClosed,
                     listed, toKill, answered, killWaits, killDone, live, spawning, unparsed, fed,
                     told, torn>>
  BY <1>1 DEF Connect, SupSame, bookVars, sessionVars, ImageOK
<1>3. /\ Typed(link') /\ Newest' = Newest + 1 /\ Links' = 1 .. Newest + 1
      /\ Newest + 1 \in 1 .. LinkLimit /\ Newest + 1 \notin Links /\ Newest \in Nat
      /\ Carried' = {}
      /\ \A g \in Links : g \in Links' /\ link'[g] = link[g]
      /\ \A g \in Links' : g \notin Links => \A r \in ToSup(g)' : r.kind = "hello"
  BY <1>1, ConnectStep
<1>4. Links = 1 .. Newest
  BY <1>1, NewestFacts
<1>5. \A g \in Links' : g # Newest' => g \in Links
  BY <1>3, <1>4
<1>6. Shapes'
  <2>1. BookTypes' /\ CallTypes' /\ SessionTypes'
    BY <1>1, <1>2 DEF BookTypes, CallTypes, SessionTypes, LinkPcs
  <2>2. QED
    BY <1>1, <1>2, <1>3, <2>1, ImgShapes
<1>7. UNCHANGED <<supPc, kills, held, running, readerPc, unsent, taken, exitPc, endedPanes,
                  generation, closingPanes, isClosing>>
  BY <1>2 DEF SupSame, paneVars, sinkVars
<1>8. LinksOK'
  <2>1. \A g \in Links' : g # Newest' => link'[g].state = "down" /\ link'[g].toImage = <<>>
    BY <1>1, <1>3, <1>5 DEF LinksOK
  <2>2. \E n \in 1 .. LinkLimit : Links' = 1 .. n
    BY <1>3
  <2>3. generation' <= Newest'
    BY <1>1, <1>3, <1>7 DEF LinksOK, Shapes, TypeOK
  <2>4. ~(isClosed' \/ imagePc' \in {"connect", "gone"})
    BY <1>2
  <2>5. QED
    BY <2>1, <2>2, <2>3, <2>4 DEF LinksOK
<1>9. ASSUME NEW p \in Panes PROVE PaneOK(p)'
  <2>1. PaneOK(p)
    BY DEF LinkInv
  <2>2. QED
    BY <1>2, <1>7, <2>1 DEF PaneOK, Known, Over
<1>10. KnownOK'
  <2>1. KnownOK
    BY DEF LinkInv
  <2>2. QED
    BY <1>2, <1>7, <2>1 DEF KnownOK, Known
<1>11. Wanted' = Wanted /\ ~IsOver /\ ~IsOver'
  BY <1>2 DEF Wanted, IsOver, IsLinking
<1>12. \A p \in Panes : LetGo(p) => LetGo(p)'
  BY <1>2, <1>11, LetGoStays
<1>13. RequestsOK'
  <2>1. ASSUME NEW g \in Links
        PROVE  /\ ToSup(g)' = On(link'[g].toSup) /\ On(link'[g].toSup) = ToSup(g)
               /\ ToSup(g) \subseteq Requests
               /\ \A r, s : SupBefore(g, r, s)' => SupBefore(g, r, s)
    BY <1>1, <1>3, LinkParts DEF ToSup, SupBefore, Links
  <2>2. ASSUME NEW g \in Links, NEW r \in ToSup(g) PROVE RequestOK(g, r)'
    <3>1. RequestOK(g, r) /\ r \in Requests
      BY <1>1, <2>1 DEF RequestsOK
    <3>2. r.kind \notin {"spawn", "pause", "resume", "shutdown"}
      BY <1>2, <1>11, <3>1 DEF RequestOK
    <3>3. r.kind = "kill" => LetGo(r.pane)'
      BY <1>12, <3>1 DEF RequestOK, Requests, PlainKinds, PaneKinds
    <3>4. QED
      BY <3>2, <3>3 DEF RequestOK
  <2>3. ASSUME NEW g \in Links', g \notin Links, NEW r \in ToSup(g)'
        PROVE  RequestOK(g, r)' /\ r.kind # "spawn"
    <3>1. r.kind = "hello"
      BY <1>3, <2>3
    <3>2. QED
      BY <3>1 DEF RequestOK
  <2>4. ASSUME NEW g \in Links', NEW r \in ToSup(g)'
        PROVE  /\ RequestOK(g, r)'
               /\ \A s \in ToSup(g)' : SupBefore(g, r, s)' => ~(r.kind = "spawn" /\ s.kind = "spawn")
    <3>1. CASE g \in Links
      <4>1. r \in ToSup(g) /\ RequestOK(g, r)
        BY <1>1, <2>1, <3>1 DEF RequestsOK
      <4>2. r.kind # "spawn"
        BY <1>2, <1>11, <4>1 DEF RequestOK
      <4>3. QED
        BY <2>2, <3>1, <4>1, <4>2
    <3>2. CASE g \notin Links
      BY <2>3, <3>2
    <3>3. QED
      BY <3>1, <3>2
  <2>5. QED
    BY <2>4 DEF RequestsOK
<1>14. FramesOK'
  BY <1>3 DEF FramesOK
<1>15. EndsOK'
  BY <1>1, <1>2, <1>3, <1>7 DEF EndsOK, Over
<1>16. ClosingOK'
  <2>1. Steady
    BY <1>2, <1>11, <1>12 DEF Steady
  <2>2. \A p \in toKill' : LetGo(p)'
    BY <1>1, <1>2, <1>12 DEF ClosingOK, CallTypes
  <2>3. QED
    BY <1>2, <2>1, <2>2, ImgClosing
<1>17. ImageOK'
  BY <1>1, <1>2, <1>11 DEF ImageOK, RunPcs, EndPcs
<1>18. SwapOK'
  BY <1>2 DEF SwapOK
<1>19. QED
  BY <1>6, <1>8, <1>9, <1>10, <1>13, <1>14, <1>15, <1>16, <1>17, <1>18 DEF LinkInv

-----------------------------------------------------------------------------
(* The invariant, and that a link carries only its own *)

\* The invariant holds at the start.
LEMMA InitInv == ASSUME Init PROVE LinkInv
<1>1. /\ 1 \in 1 .. LinkLimit /\ LinkLimit \in Nat /\ Window \in Nat /\ 0 \in 0 .. PrintLimit
      /\ Window \in 0 .. Window
  BY WindowAssumption
<1>2. version \in Versions
  BY DEF Init
<1> DEFINE x == [Unopened EXCEPT !.state = "up", !.version = version]
<1>3. <<>> \in Seq(Requests) /\ <<>> \in Seq(Frames) /\ On(<<>>) = {}
  BY QueueEmpty
<1>4. /\ x \in LinkType /\ Unopened \in LinkType /\ x.state = "up" /\ x.toSup = <<>>
      /\ x.toImage = <<>> /\ Unopened.state = "none"
  BY <1>2, <1>3 DEF LinkType, Unopened
<1>5. link = [g \in 1 .. LinkLimit |-> IF g = 1 THEN x ELSE Unopened]
  BY DEF Init
<1> HIDE DEF x
<1>6. /\ link \in [1 .. LinkLimit -> LinkType] /\ link[1] = x
      /\ \A g \in 1 .. LinkLimit : g # 1 => link[g].state = "none"
  BY <1>1, <1>4, <1>5
<1>7. Links = {1}
  BY <1>1, <1>4, <1>6 DEF Links
<1>8. Newest = 1
  BY <1>7 DEF Newest
<1>9. Carried = {} /\ ToSup(1) = {}
  BY <1>3, <1>4, <1>6, <1>8 DEF Carried, ToSup
<1>10. Shapes
  <2>1. TypeOK
    BY <1>1 DEF Init, TypeOK, ReaderPcs, ExitPcs
  <2>2. QED
    BY <1>6, <2>1 DEF Init, Shapes, RunPcs
<1>11. LinksOK
  <2>1. Links = 1 .. 1
    BY <1>7
  <2>2. QED
    BY <1>1, <1>7, <1>8, <2>1 DEF Init, LinksOK
<1>12. \A p \in Panes : PaneOK(p)
  BY DEF Init, PaneOK, Known, Over
<1>13. KnownOK /\ RequestsOK /\ FramesOK /\ EndsOK
  BY <1>7, <1>9 DEF Init, KnownOK, RequestsOK, FramesOK, EndsOK
<1>14. ClosingOK /\ ImageOK /\ SwapOK
  BY PaneAssumption DEF Init, ClosingOK, ImageOK, SwapOK, EndPcs
<1>15. QED
  BY <1>10, <1>11, <1>12, <1>13, <1>14 DEF LinkInv

\* A step that changes nothing.
LEMMA StutterInv == ASSUME LinkInv, UNCHANGED vars PROVE LinkInv'
<1>1. UNCHANGED <<supPc, hasWriter, generation, version, credit, isPaused, closingPanes, endedPanes,
                  isClosing, held, running, readerPc, unsent, taken, exitPc, kills, link, driven,
                  ungranted, exitsAtConnect, isReconciled, rejected, exited, isClosed, imagePc,
                  listed, toKill, answered, killWaits, killDone, live, spawning, unparsed, fed, told,
                  torn>>
  BY DEF vars, sinkVars, paneVars, bookVars, imageVars, sessionVars
<1>2. SupSame /\ BookTypes /\ CallTypes /\ SessionTypes /\ KnownHere /\ ImageOK /\ ClosingOK
  BY <1>1, ImgBefore DEF SupSame, sinkVars, paneVars
<1>3. Shapes /\ LinksOK
      /\ (isClosed \/ imagePc \in {"connect", "gone"} =>
              link[Newest].state = "down" /\ link[Newest].toImage = <<>>)
  BY ImgBefore
<1>4. LinkStep /\ SupFewer /\ ImgFewer
  BY <1>1, <1>3, SameStep
<1>5. BookTypes' /\ CallTypes' /\ SessionTypes'
  BY <1>1, <1>2 DEF BookTypes, CallTypes, SessionTypes
<1>6. (IsOver' <=> IsOver) /\ Wanted' = Wanted
  BY <1>1 DEF IsOver, IsLinking, Wanted
<1>7. Steady
  BY <1>1, <1>2, <1>6, LetGoStays DEF Steady
<1>8. (\A r \in ToSup(Newest) : RequestKept(r)) /\ \A f \in Carried' : AnswerKept(f)
  BY <1>1, <1>4, <1>6, CallSame
<1>9. RequestsOK' /\ EndsOK' /\ SwapOK'
  BY <1>1, <1>2, <1>4, <1>7, <1>8, ImgRequests, EndsFewer, SwapSame
<1>10. KnownHere' /\ ImageOK'
  BY <1>1, <1>2, <1>6 DEF KnownHere, ImageOK, Known
<1>11. \A p \in toKill' : LetGo(p)'
  BY <1>1, <1>2, <1>7 DEF Steady, ClosingOK, CallTypes
<1>12. QED
  BY <1>1, <1>2, <1>3, <1>4, <1>5, <1>7, <1>8, <1>9, <1>10, <1>11, ImgStep

\* Every step keeps the invariant.
LEMMA StepInv == ASSUME LinkInv, [Next]_vars PROVE LinkInv'
<1>1. ASSUME NEW p \in Panes, PaneStep(p) PROVE LinkInv'
  BY <1>1, ReaderReadsInv, ReaderEndsInv, OutputGivesUpInv, WriteOutputPartInv, OutputParksInv,
     SendExitInv, RecordExitInv DEF PaneStep
<1>2. ASSUME SupervisorStep PROVE LinkInv'
  <2>1. ASSUME NEW k \in kills, KillMark(k) \/ KillJoin(k) \/ KillAnswer(k) PROVE LinkInv'
    BY <2>1, KillMarkInv, KillJoinInv, KillAnswerInv
  <2>2. QED
    BY <1>2, <2>1, AcceptLinkInv, IdleExitInv, LinkEndsInv, ServeHelloInv, ServeListPanesInv,
       ServeSpawnInv, ServeGrantInv, ServePauseInv, ServeResumeInv, ServeKillInv, ServeShutdownInv,
       CloseSendsInv, CloseChildrenInv, CloseDoneInv DEF SupervisorStep
<1>3. ASSUME ReaderStep PROVE LinkInv'
  BY <1>3, ReadOutputInv, ReadExitedInv, ReadAnswerInv, ReaderClosesInv DEF ReaderStep
<1>4. ASSUME ImageStep PROVE LinkInv'
  <2>1. ASSUME NEW p \in Panes, Parse(p) \/ ApplyExit(p) PROVE LinkInv'
    BY <2>1, ParseInv, PaneLeavesInv DEF ApplyExit
  <2>2. ASSUME SessionEnded PROVE LinkInv'
    BY <2>2, ImageGoesInv DEF SessionEnded
  <2>3. QED
    BY <1>4, <2>1, <2>2, ConnectInv, GiveUpLinkingInv, HelloAnsweredInv, PanesListedInv,
       KillUnknownNextInv, UnknownKilledInv, TakeExitsInv, KillEndedNextInv, EndedKilledInv,
       ReconciledInv, SpawnedInv, SpawnFailsInv, OutputHeldInv, ResumeAnsweredInv, EndKillNextInv,
       EndKilledInv, AskShutdownInv DEF ImageStep
<1>5. ASSUME Outside PROVE LinkInv'
  <2>1. ASSUME NEW p \in Panes, ChildEnds(p) \/ ClosePane(p) \/ SpawnPane(p) PROVE LinkInv'
    BY <2>1, ChildEndsInv, PaneLeavesInv, SpawnPaneInv DEF ClosePane
  <2>2. ASSUME ImageDies PROVE LinkInv'
    BY <2>2, ImageGoesInv DEF ImageDies
  <2>3. QED
    BY <1>5, <2>1, <2>2, PauseOutputInv, ExecImageInv, EndSessionInv, AbandonSwapInv,
       ConnectFailsInv, LinkBreaksInv DEF Outside
<1>6. QED
  BY <1>1, <1>2, <1>3, <1>4, <1>5, StutterInv DEF Next

\* Whatever the panes, the links, the swaps and the breaks, both ends of the
\* link (`LinkState` of the supervisor, `LinkBook` and the calls of the image)
\* and what is on it agree in every state.
THEOREM LinkInvariant == Spec => []LinkInv
<1>1. Init => LinkInv
  BY InitInv
<1>2. LinkInv /\ [Next]_vars => LinkInv'
  BY StepInv
<1>3. QED
  BY <1>1, <1>2, PTL DEF Spec

\* A link carries only answers to requests made on it, also when a kill asked
\* for on an earlier link ends late (`send_response` of a kill thread); and once
\* `kill_pane` returned Done nothing of that pane is left on a link.
THEOREM LinkConsistent == Spec => []LinkIsConsistent
<1>1. LinkInv => LinkIsConsistent
  <2> SUFFICES ASSUME LinkInv PROVE LinkIsConsistent
    OBVIOUS
  <2>1. TypeOK /\ LinksOK /\ FramesOK /\ EndsOK
    BY DEF LinkInv, Shapes
  <2>2. ASSUME NEW g \in Links, link[g].state # "down", NEW i \in DOMAIN link[g].toImage
        PROVE  LET f == link[g].toImage[i]
               IN /\ f.kind = "answer" => f.gen = g
                  /\ f.kind \in {"output", "exited"} => f.pane \notin killDone
    <3>1. g = Newest
      BY <2>1, <2>2 DEF LinksOK
    <3>2. link[g].toImage[i] \in Carried
      BY <3>1 DEF Carried, On
    <3>3. QED
      BY <2>1, <3>1, <3>2 DEF FramesOK, FrameOK, EndsOK
  <2>3. LinkCarriesItsOwn
    BY <2>2 DEF LinkCarriesItsOwn
  <2>4. QED
    BY <2>1, <2>3 DEF LinkIsConsistent
<1>2. QED
  BY <1>1, LinkInvariant, PTL

-----------------------------------------------------------------------------
(* Sequences of units *)

Units == Seq(Int)

\* Two sequences of one length with the same elements are the same.
LEMMA SameUnits ==
  ASSUME NEW s \in Units, NEW t \in Units, Len(s) = Len(t), \A i \in 1 .. Len(s) : s[i] = t[i]
  PROVE  s = t
BY DEF Units

\* Two sequences put together, element by element.
LEMMA Joined ==
  ASSUME NEW s \in Units, NEW t \in Units
  PROVE  /\ s \o t \in Units /\ Len(s \o t) = Len(s) + Len(t)
         /\ \A i \in 1 .. Len(s) : (s \o t)[i] = s[i]
         /\ \A i \in 1 .. Len(s \o t) : i > Len(s) => (s \o t)[i] = t[i - Len(s)]
BY DEF Units

\* Joining the empty sequence.
LEMMA JoinedNone ==
  ASSUME NEW s \in Units
  PROVE  s \o <<>> = s /\ <<>> \o s = s /\ <<>> \in Units
BY DEF Units

\* Joining is associative.
LEMMA JoinedThree ==
  ASSUME NEW s \in Units, NEW t \in Units, NEW u \in Units
  PROVE  (s \o t) \o u = s \o (t \o u)
<1> DEFINE a == s \o t  b == t \o u  l == a \o u  r == s \o b
<1>1. /\ Len(s) \in Nat /\ Len(t) \in Nat /\ Len(u) \in Nat
  BY DEF Units
<1>2. /\ a \in Units /\ Len(a) = Len(s) + Len(t) /\ \A i \in 1 .. Len(s) : a[i] = s[i]
      /\ \A i \in 1 .. Len(a) : i > Len(s) => a[i] = t[i - Len(s)]
  BY Joined
<1>3. /\ b \in Units /\ Len(b) = Len(t) + Len(u) /\ \A i \in 1 .. Len(t) : b[i] = t[i]
      /\ \A i \in 1 .. Len(b) : i > Len(t) => b[i] = u[i - Len(t)]
  BY Joined
<1> HIDE DEF a, b
<1>4. /\ l \in Units /\ Len(l) = Len(a) + Len(u) /\ \A i \in 1 .. Len(a) : l[i] = a[i]
      /\ \A i \in 1 .. Len(l) : i > Len(a) => l[i] = u[i - Len(a)]
  BY <1>2, Joined
<1>5. /\ r \in Units /\ Len(r) = Len(s) + Len(b) /\ \A i \in 1 .. Len(s) : r[i] = s[i]
      /\ \A i \in 1 .. Len(r) : i > Len(s) => r[i] = b[i - Len(s)]
  BY <1>3, Joined
<1> HIDE DEF l, r
<1>6. ASSUME NEW i \in 1 .. Len(l) PROVE l[i] = r[i]
  <2>1. CASE i \in 1 .. Len(s)
    BY <1>1, <1>2, <1>4, <1>5, <2>1
  <2>2. CASE i > Len(s) /\ i <= Len(a)
    <3>1. l[i] = t[i - Len(s)] /\ r[i] = b[i - Len(s)] /\ i - Len(s) \in 1 .. Len(t)
      BY <1>1, <1>2, <1>3, <1>4, <1>5, <2>2
    <3>2. QED
      BY <1>3, <3>1
  <2>3. CASE i > Len(a)
    <3>1. /\ l[i] = u[i - Len(a)] /\ r[i] = b[i - Len(s)] /\ i - Len(s) \in 1 .. Len(b)
          /\ i - Len(s) > Len(t) /\ i - Len(s) - Len(t) = i - Len(a)
      BY <1>1, <1>2, <1>3, <1>4, <1>5, <2>3
    <3>2. QED
      BY <1>3, <3>1
  <2>4. QED
    BY <1>1, <1>2, <1>4, <2>1, <2>2, <2>3
<1>7. Len(l) = Len(r)
  BY <1>1, <1>2, <1>3, <1>4, <1>5
<1>8. l = r
  BY <1>4, <1>5, <1>6, <1>7, SameUnits
<1>9. QED
  BY <1>8 DEF l, r, a, b

\* The first n of ss, put together one after the other.
Then(s, t) == s \o t
JoinAt(f, ss, i) == IF i = 1 THEN ss[i] ELSE Then(f[i - 1], ss[i])
IsJoin(f, ss, n) ==
  f \in [1 .. n -> Units] /\ \A i \in 1 .. n : f[i] = JoinAt(f, ss, i)

\* A join of units is units.
LEMMA ThenUnits == ASSUME NEW s \in Units, NEW t \in Units PROVE Then(s, t) \in Units
BY Joined DEF Then

\* Every list of sequences has a running join.
LEMMA JoinExists ==
  ASSUME NEW ss \in Seq(Units)
  PROVE  \E f : IsJoin(f, ss, Len(ss))
<1> DEFINE Good == {n \in Nat : \E f : IsJoin(f, ss, n)}
<1>1. Len(ss) \in Nat /\ \A i \in 1 .. Len(ss) : ss[i] \in Units
  OBVIOUS
<1>2. 0 \in Good
  <2>1. IsJoin([i \in 1 .. 0 |-> <<>>], ss, 0)
    BY DEF IsJoin
  <2>2. QED
    BY <2>1
<1>3. ASSUME NEW n \in 1 .. Len(ss), n - 1 \in Good PROVE n \in Good
  <2>1. PICK f : IsJoin(f, ss, n - 1)
    BY <1>3
  <2> DEFINE last == JoinAt(f, ss, n)
             g == [i \in 1 .. n |-> IF i = n THEN last ELSE f[i]]
  <2>2. last \in Units
    <3>1. CASE n = 1
      BY <1>1, <3>1 DEF JoinAt
    <3>2. CASE n # 1
      <4>1. n - 1 \in 1 .. n - 1 /\ f[n - 1] \in Units /\ ss[n] \in Units
        BY <1>1, <2>1, <3>2 DEF IsJoin
      <4>2. QED
        BY <3>2, <4>1, ThenUnits DEF JoinAt
    <3>3. QED
      BY <3>1, <3>2
  <2>3. /\ f \in [1 .. n - 1 -> Units]
        /\ \A i \in 1 .. n - 1 : f[i] = JoinAt(f, ss, i)
    BY <2>1 DEF IsJoin
  <2>4. /\ \A i \in 1 .. n - 1 : g[i] = f[i]
        /\ g[n] = JoinAt(f, ss, n)
    BY <2>3
  <2>5. g \in [1 .. n -> Units]
    <3> HIDE DEF last
    <3>1. QED
      BY <2>2, <2>3
  <2> HIDE DEF g, last
  <2>6. ASSUME NEW i \in 1 .. n PROVE g[i] = JoinAt(g, ss, i)
    <3>1. CASE i = n
      <4>1. n # 1 => n - 1 \in 1 .. n - 1
        OBVIOUS
      <4>2. QED
        BY <2>4, <3>1, <4>1 DEF JoinAt
    <3>2. CASE i # n
      <4>1. i \in 1 .. n - 1 /\ (i # 1 => i - 1 \in 1 .. n - 1)
        BY <3>2
      <4>2. QED
        BY <2>3, <2>4, <4>1 DEF JoinAt
    <3>3. QED
      BY <3>1, <3>2
  <2>7. IsJoin(g, ss, n)
    BY <2>5, <2>6 DEF IsJoin
  <2>8. QED
    BY <2>7
<1>4. Len(ss) \in Good
  <2> HIDE DEF Good
  <2>1. \A n \in 1 .. Len(ss) : n - 1 \in Good => n \in Good
    BY <1>3
  <2>2. \A n \in 0 .. Len(ss) : n \in Good
    BY <1>1, <1>2, <2>1, IntervalInduction, Zenon
  <2>3. QED
    BY <1>1, <2>2
<1>5. QED
  BY <1>4

\* FlattenSeq joins them all.
LEMMA FlattenIsJoin ==
  ASSUME NEW ss \in Seq(Units), Len(ss) # 0
  PROVE  \E f : IsJoin(f, ss, Len(ss)) /\ FlattenSeq(ss) = f[Len(ss)]
<1> DEFINE Eqn(f) == f = [i \in 1 .. Len(ss) |-> JoinAt(f, ss, i)]
           F == CHOOSE f : Eqn(f)
<1>1. Len(ss) \in Nat /\ \A i \in 1 .. Len(ss) : ss[i] \in Units
  OBVIOUS
<1>2. PICK g : IsJoin(g, ss, Len(ss))
  BY JoinExists
<1>3. Eqn(g)
  BY <1>2 DEF IsJoin
<1>4. FlattenSeq(ss) = F[Len(ss)]
  BY DEF FlattenSeq, JoinAt, Then
<1>5. Eqn(F)
  BY <1>3
<1> HIDE DEF F
<1>6. /\ DOMAIN F = 1 .. Len(ss)
      /\ \A i \in 1 .. Len(ss) : F[i] = JoinAt(F, ss, i)
  BY <1>5
<1> DEFINE Good == {n \in 0 .. Len(ss) : n # 0 => F[n] \in Units}
<1>7. \A n \in 0 .. Len(ss) : n \in Good
  <2>1. 0 \in Good
    BY <1>1
  <2>2. ASSUME NEW n \in 1 .. Len(ss), n - 1 \in Good PROVE n \in Good
    <3>1. CASE n = 1
      BY <1>1, <1>6, <3>1 DEF JoinAt
    <3>2. CASE n # 1
      <4>1. F[n - 1] \in Units /\ ss[n] \in Units /\ F[n] = Then(F[n - 1], ss[n])
        BY <1>1, <1>6, <2>2, <3>2 DEF JoinAt
      <4>2. QED
        BY <4>1, ThenUnits
    <3>3. QED
      BY <3>1, <3>2
  <2> HIDE DEF Good
  <2>3. QED
    BY <1>1, <2>1, <2>2, IntervalInduction
<1>8. F \in [1 .. Len(ss) -> Units]
  <2>1. \A i \in 1 .. Len(ss) : F[i] \in Units
    BY <1>1, <1>7
  <2> DEFINE x(i) == JoinAt(F, ss, i)
  <2>2. F = [i \in 1 .. Len(ss) |-> x(i)]
    BY <1>5
  <2>3. \A i \in 1 .. Len(ss) : x(i) = F[i]
    BY <1>6
  <2> HIDE DEF x
  <2>4. QED
    BY <2>1, <2>2, <2>3
<1>9. IsJoin(F, ss, Len(ss))
  BY <1>6, <1>8 DEF IsJoin
<1>10. QED
  BY <1>4, <1>9

\* The same for the named join.
LEMMA ThenThree ==
  ASSUME NEW s \in Units, NEW t \in Units, NEW u \in Units
  PROVE  Then(Then(s, t), u) = Then(s, Then(t, u))
BY JoinedThree DEF Then

\* With one more at the end.
LEMMA FlattenAppend ==
  ASSUME NEW ss \in Seq(Units), NEW t \in Units, FlattenSeq(ss) \in Units
  PROVE  FlattenSeq(Append(ss, t)) = FlattenSeq(ss) \o t
<1> DEFINE tt == Append(ss, t)  n == Len(ss)
<1>1. /\ n \in Nat /\ tt \in Seq(Units) /\ Len(tt) = n + 1 /\ tt[n + 1] = t
      /\ \A i \in 1 .. n : tt[i] = ss[i]
  OBVIOUS
<1> HIDE DEF tt
<1>2. PICK g : IsJoin(g, tt, n + 1) /\ FlattenSeq(tt) = g[n + 1]
  BY <1>1, FlattenIsJoin
<1>3. g[n + 1] = JoinAt(g, tt, n + 1)
  BY <1>1, <1>2 DEF IsJoin
<1>4. CASE n = 0
  <2>1. g[n + 1] = t
    BY <1>1, <1>3, <1>4 DEF JoinAt
  <2>2. FlattenSeq(ss) = <<>>
    BY <1>4 DEF FlattenSeq
  <2>3. QED
    BY <1>2, <2>1, <2>2, JoinedNone DEF tt
<1>5. CASE n # 0
  <2>1. PICK f : IsJoin(f, ss, n) /\ FlattenSeq(ss) = f[n]
    BY <1>5, FlattenIsJoin
  <2>2. f[n] = g[n]
    <3>1. /\ \A i \in 1 .. n : f[i] = JoinAt(f, ss, i)
          /\ \A i \in 1 .. n : g[i] = JoinAt(g, tt, i)
      BY <1>1, <1>2, <2>1 DEF IsJoin
    <3> DEFINE Good == {i \in 0 .. n : i # 0 => f[i] = g[i]}
    <3>2. 0 \in Good
      BY <1>1
    <3>3. ASSUME NEW i \in 1 .. n, i - 1 \in Good PROVE i \in Good
      BY <1>1, <3>1, <3>3 DEF JoinAt
    <3>4. n \in Good
      <4> HIDE DEF Good, n
      <4>1. \A i \in 0 .. n : i \in Good
        BY <1>1, <3>2, <3>3, IntervalInduction
      <4>2. QED
        BY <1>1, <4>1
    <3>5. QED
      BY <1>5, <3>4
  <2>3. g[n + 1] = Then(g[n], t)
    BY <1>1, <1>3, <1>5 DEF JoinAt
  <2>4. QED
    BY <1>2, <2>1, <2>2, <2>3 DEF Then, tt
<1>6. QED
  BY <1>4, <1>5

\* It is a sequence of units.
LEMMA FlattenUnits ==
  ASSUME NEW ss \in Seq(Units)
  PROVE  FlattenSeq(ss) \in Units
<1>1. Len(ss) \in Nat
  OBVIOUS
<1>2. CASE Len(ss) = 0
  <2>1. FlattenSeq(ss) = <<>>
    BY <1>2 DEF FlattenSeq
  <2>2. QED
    BY <2>1 DEF Units
<1>3. CASE Len(ss) # 0
  <2>1. PICK f : IsJoin(f, ss, Len(ss)) /\ FlattenSeq(ss) = f[Len(ss)]
    BY <1>3, FlattenIsJoin
  <2>2. QED
    BY <1>1, <1>3, <2>1 DEF IsJoin
<1>4. QED
  BY <1>2, <1>3

\* Without its first.
LEMMA FlattenTail ==
  ASSUME NEW ss \in Seq(Units), ss # <<>>
  PROVE  FlattenSeq(ss) = Head(ss) \o FlattenSeq(Tail(ss))
<1> DEFINE tt == Tail(ss)  n == Len(ss)  h == Head(ss)
<1>1. /\ n \in Nat /\ n # 0 /\ tt \in Seq(Units) /\ Len(tt) = n - 1 /\ h \in Units /\ ss[1] = h
      /\ \A i \in 1 .. n - 1 : tt[i] = ss[i + 1] /\ ss[i + 1] \in Units
  OBVIOUS
<1> HIDE DEF tt, h
<1>2. PICK f : IsJoin(f, ss, n) /\ FlattenSeq(ss) = f[n]
  BY <1>1, FlattenIsJoin
<1>3. f \in [1 .. n -> Units] /\ \A i \in 1 .. n : f[i] = JoinAt(f, ss, i)
  BY <1>2 DEF IsJoin
<1>4. f[1] = h
  BY <1>1, <1>3 DEF JoinAt
<1>5. CASE n = 1
  <2>1. FlattenSeq(tt) = <<>>
    <3>1. Len(tt) = 0 /\ tt = <<>>
      BY <1>1, <1>5
    <3>2. QED
      BY <3>1 DEF FlattenSeq
  <2>2. QED
    BY <1>1, <1>2, <1>4, <1>5, <2>1, JoinedNone DEF tt, h
<1>6. CASE n # 1
  <2>1. Len(tt) # 0 /\ n - 1 \in Nat /\ n - 1 \in 0 .. n - 1 /\ n - 1 # 0
    BY <1>1, <1>6
  <2>2. PICK g : IsJoin(g, tt, n - 1) /\ FlattenSeq(tt) = g[n - 1]
    BY <1>1, <2>1, FlattenIsJoin
  <2>3. g \in [1 .. n - 1 -> Units] /\ \A i \in 1 .. n - 1 : g[i] = JoinAt(g, tt, i)
    BY <2>2 DEF IsJoin
  <2> DEFINE Good == {i \in 0 .. n - 1 : i # 0 => f[i + 1] = Then(h, g[i])}
  <2>4. 0 \in Good
    BY <2>1
  <2>5. ASSUME NEW i \in 1 .. n - 1, i - 1 \in Good PROVE i \in Good
    <3>1. /\ i + 1 \in 1 .. n /\ i + 1 # 1 /\ i + 1 - 1 = i /\ i \in 0 .. n - 1 /\ i \in 1 .. n
          /\ tt[i] = ss[i + 1] /\ ss[i + 1] \in Units
      BY <1>1
    <3>2. f[i + 1] = Then(f[i], tt[i])
      BY <1>3, <3>1 DEF JoinAt
    <3>3. CASE i = 1
      <4>1. g[i] = tt[i] /\ f[i] = h
        BY <1>4, <2>3, <3>3 DEF JoinAt
      <4>2. QED
        BY <3>1, <3>2, <4>1
    <3>4. CASE i # 1
      <4>1. i - 1 \in 1 .. n - 1 /\ i - 1 # 0 /\ i - 1 + 1 = i
        BY <3>4
      <4>2. f[i] = Then(h, g[i - 1]) /\ g[i] = Then(g[i - 1], tt[i]) /\ g[i - 1] \in Units
        BY <2>3, <2>5, <3>4, <4>1 DEF JoinAt
      <4>3. Then(Then(h, g[i - 1]), tt[i]) = Then(h, Then(g[i - 1], tt[i]))
        BY <1>1, <3>1, <4>2, ThenThree
      <4>4. QED
        BY <3>1, <3>2, <4>2, <4>3
    <3>5. QED
      BY <3>3, <3>4
  <2>6. n - 1 \in Good
    <3> HIDE DEF Good, n
    <3>1. \A i \in 0 .. n - 1 : i \in Good
      BY <2>1, <2>4, <2>5, IntervalInduction
    <3>2. QED
      BY <2>1, <3>1
  <2>7. f[n] = Then(h, g[n - 1])
    BY <1>1, <2>1, <2>6
  <2>8. QED
    BY <1>2, <2>2, <2>7 DEF Then, tt, h
<1>7. QED
  BY <1>5, <1>6

\* Nothing, put together.
LEMMA FlattenNone ==
  ASSUME NEW ss \in Seq(Units), \A i \in 1 .. Len(ss) : ss[i] = <<>>
  PROVE  FlattenSeq(ss) = <<>>
<1> DEFINE n == Len(ss)
<1>1. n \in Nat
  OBVIOUS
<1>2. CASE n = 0
  BY <1>2 DEF FlattenSeq
<1>3. CASE n # 0
  <2>1. PICK f : IsJoin(f, ss, n) /\ FlattenSeq(ss) = f[n]
    BY <1>3, FlattenIsJoin
  <2>2. \A i \in 1 .. n : f[i] = JoinAt(f, ss, i)
    BY <2>1 DEF IsJoin
  <2> DEFINE Good == {i \in 0 .. n : i # 0 => f[i] = <<>>}
  <2>3. 0 \in Good
    BY <1>1
  <2>4. Then(<<>>, <<>>) = <<>>
    BY JoinedNone DEF Then
  <2>5. ASSUME NEW i \in 1 .. n, i - 1 \in Good PROVE i \in Good
    BY <1>1, <2>2, <2>4, <2>5 DEF JoinAt
  <2>6. n \in Good
    <3> HIDE DEF Good, n
    <3>1. \A i \in 0 .. n : i \in Good
      BY <1>1, <2>3, <2>5, IntervalInduction
    <3>2. QED
      BY <1>1, <3>1
  <2>7. QED
    BY <1>3, <2>1, <2>6
<1>4. QED
  BY <1>2, <1>3

-----------------------------------------------------------------------------
(* The units on a link *)

\* The units of p on a queue of frames.
UnitsOn(q, p) == FlattenSeq([i \in DOMAIN q |-> UnitsOf(q[i], p)])

\* A run of units.
LEMMA RunFacts ==
  ASSUME NEW a \in Nat, NEW b \in Nat, a <= b
  PROVE  /\ Run(a, b) \in Units /\ Len(Run(a, b)) = b - a
         /\ \A i \in 1 .. b - a : Run(a, b)[i] = a + i - 1
BY DEF Run, Units

\* Runs that follow each other are one run.
LEMMA RunJoined ==
  ASSUME NEW a \in Nat, NEW b \in Nat, NEW c \in Nat, a <= b, b <= c
  PROVE  Run(a, b) \o Run(b, c) = Run(a, c)
<1> DEFINE s == Run(a, b)  t == Run(b, c)  u == Run(a, c)
<1>1. /\ s \in Units /\ Len(s) = b - a /\ \A i \in 1 .. b - a : s[i] = a + i - 1
      /\ t \in Units /\ Len(t) = c - b /\ \A i \in 1 .. c - b : t[i] = b + i - 1
      /\ u \in Units /\ Len(u) = c - a /\ \A i \in 1 .. c - a : u[i] = a + i - 1
  <2>1. s \in Units /\ Len(s) = b - a /\ \A i \in 1 .. b - a : s[i] = a + i - 1
    BY RunFacts, Zenon
  <2>2. t \in Units /\ Len(t) = c - b /\ \A i \in 1 .. c - b : t[i] = b + i - 1
    BY RunFacts, Zenon
  <2>3. a <= c
    OBVIOUS
  <2>4. u \in Units /\ Len(u) = c - a /\ \A i \in 1 .. c - a : u[i] = a + i - 1
    BY <2>3, RunFacts, Zenon
  <2>5. QED
    BY <2>1, <2>2, <2>4
<1> HIDE DEF s, t, u
<1>2. /\ s \o t \in Units /\ Len(s \o t) = Len(s) + Len(t)
      /\ \A i \in 1 .. Len(s) : (s \o t)[i] = s[i]
      /\ \A i \in 1 .. Len(s \o t) : i > Len(s) => (s \o t)[i] = t[i - Len(s)]
  BY <1>1, Joined
<1> DEFINE v == s \o t
<1> HIDE DEF v
<1>3. /\ v \in Units /\ Len(v) = c - a /\ \A i \in 1 .. b - a : v[i] = s[i]
      /\ \A i \in 1 .. c - a : i > b - a => v[i] = t[i - (b - a)]
  <2>1. b - a + (c - b) = c - a
    OBVIOUS
  <2>2. QED
    BY <1>1, <1>2, <2>1 DEF v
<1>4. ASSUME NEW i \in 1 .. c - a PROVE v[i] = u[i]
  <2>1. CASE i <= b - a
    BY <1>1, <1>3, <2>1
  <2>2. CASE i > b - a
    <3>1. i - (b - a) \in 1 .. c - b /\ b + (i - (b - a)) - 1 = a + i - 1
      BY <2>2
    <3>2. QED
      BY <1>1, <1>3, <2>2, <3>1
  <2>3. QED
    BY <2>1, <2>2
<1>5. v = u
  BY <1>1, <1>3, <1>4, SameUnits
<1>6. QED
  BY <1>5 DEF v, s, t, u

\* The run from a to c is the run from x to b, and then t.
SplitsOff(a, c, x, b, t) ==
  /\ a \in Nat /\ c \in Nat /\ a <= c /\ x \in Nat /\ b \in Nat /\ x < b
  /\ t \in Units /\ Run(a, c) = Run(x, b) \o t

\* A run that starts with a run: it starts where that starts, and goes on
\* where that ends.
LEMMA RunSplit ==
  ASSUME NEW a, NEW c, NEW x, NEW b, NEW t, SplitsOff(a, c, x, b, t)
  PROVE  x = a /\ b <= c /\ t = Run(b, c)
<1> DEFINE s == Run(x, b)  u == Run(a, c)
<1>0. a \in Nat /\ c \in Nat /\ a <= c /\ x \in Nat /\ b \in Nat /\ x < b /\ x <= b /\ t \in Units
  BY DEF SplitsOff
<1>1. /\ s \in Units /\ Len(s) = b - x /\ \A i \in 1 .. b - x : s[i] = x + i - 1
      /\ u \in Units /\ Len(u) = c - a /\ \A i \in 1 .. c - a : u[i] = a + i - 1
  <2>1. s \in Units /\ Len(s) = b - x /\ \A i \in 1 .. b - x : s[i] = x + i - 1
    BY <1>0, RunFacts, Zenon
  <2>2. u \in Units /\ Len(u) = c - a /\ \A i \in 1 .. c - a : u[i] = a + i - 1
    BY <1>0, RunFacts, Zenon
  <2>3. QED
    BY <2>1, <2>2
<1>2. /\ Len(u) = Len(s) + Len(t) /\ \A i \in 1 .. Len(s) : u[i] = s[i]
      /\ \A i \in 1 .. Len(u) : i > Len(s) => u[i] = t[i - Len(s)]
  <2>1. u = s \o t
    BY DEF SplitsOff
  <2> HIDE DEF s, u
  <2>2. QED
    BY <1>0, <1>1, <2>1, Joined, ZenonT(60)
<1> HIDE DEF s, u
<1>3. Len(t) \in Nat
  BY <1>0 DEF Units
<1>4. x = a
  <2>1. 1 \in 1 .. b - x /\ 1 \in 1 .. c - a
    BY <1>0, <1>1, <1>2, <1>3
  <2>2. x + 1 - 1 = a + 1 - 1
    BY <1>0, <1>1, <1>2, <2>1
  <2>3. QED
    BY <1>0, <2>2
<1>5. b <= c /\ Len(t) = c - b
  <2>1. c - a = b - x + Len(t)
    BY <1>0, <1>1, <1>2
  <2>2. QED
    BY <1>0, <1>3, <1>4, <2>1
<1>6. /\ Run(b, c) \in Units /\ Len(Run(b, c)) = c - b
      /\ \A i \in 1 .. c - b : Run(b, c)[i] = b + i - 1
  BY <1>0, <1>5, RunFacts, Zenon
<1>7. ASSUME NEW i \in 1 .. Len(t) PROVE t[i] = Run(b, c)[i]
  <2>1. PICK k : k = (b - a) + i
    OBVIOUS
  <2>2. k \in 1 .. c - a /\ k > b - a /\ k - (b - a) = i /\ b + i - 1 = a + k - 1
    BY <1>0, <1>4, <1>5, <2>1
  <2>3. u[k] = t[i]
    BY <1>0, <1>1, <1>2, <1>4, <2>2
  <2>4. QED
    BY <1>1, <1>5, <1>6, <2>2, <2>3
<1>8. t = Run(b, c)
  BY <1>0, <1>5, <1>6, <1>7, SameUnits
<1>9. QED
  BY <1>4, <1>5, <1>8

\* The units one frame carries.
LEMMA UnitsOfFrame ==
  ASSUME NEW f \in Frames, NEW p \in Panes
  PROVE  /\ UnitsOf(f, p) \in Units
         /\ f.kind = "output" /\ f.pane = p =>
              UnitsOf(f, p) = Run(f.from, f.from + f.count) /\ f.from \in Nat /\ f.count \in Nat \ {0}
         /\ ~(f.kind = "output" /\ f.pane = p) => UnitsOf(f, p) = <<>>
<1>1. CASE ~(f.kind = "output" /\ f.pane = p)
  BY <1>1, JoinedNone DEF UnitsOf, Units
<1>2. CASE f.kind = "output" /\ f.pane = p
  <2>1. f.from \in Nat /\ f.count \in Nat \ {0}
    BY <1>2 DEF Frames, Outputs, Exits, Answers
  <2>2. f.from + f.count - f.from = f.count /\ f.from + f.count \in Nat /\ f.from <= f.from + f.count
    BY <2>1
  <2>3. UnitsOf(f, p) = Run(f.from, f.from + f.count)
    <3>1. UnitsOf(f, p) = [j \in 1 .. f.count |-> f.from + j - 1]
      BY <1>2, Zenon DEF UnitsOf
    <3> DEFINE b == f.from + f.count
    <3>2. b - f.from = f.count
      BY <2>1
    <3> HIDE DEF b
    <3>3. Run(f.from, b) = [i \in 1 .. f.count |-> f.from + i - 1]
      BY <3>2 DEF Run
    <3>4. QED
      BY <3>1, <3>3 DEF b
  <2>4. QED
    BY <1>2, <2>1, <2>2, <2>3, RunFacts
<1>3. QED
  BY <1>1, <1>2

\* The units of each frame of a queue.
LEMMA UnitsList ==
  ASSUME NEW q \in Seq(Frames), NEW p \in Panes
  PROVE  /\ [i \in DOMAIN q |-> UnitsOf(q[i], p)] \in Seq(Units)
         /\ Len([i \in DOMAIN q |-> UnitsOf(q[i], p)]) = Len(q)
<1>1. Len(q) \in Nat /\ DOMAIN q = 1 .. Len(q) /\ \A i \in 1 .. Len(q) : q[i] \in Frames
  OBVIOUS
<1> DEFINE x(i) == UnitsOf(q[i], p)
<1>2. \A i \in 1 .. Len(q) : x(i) \in Units
  BY <1>1, UnitsOfFrame
<1> HIDE DEF x
<1>3. /\ [i \in DOMAIN q |-> x(i)] \in Seq(Units) /\ Len([i \in DOMAIN q |-> x(i)]) = Len(q)
  BY <1>1, <1>2
<1>4. QED
  BY <1>3 DEF x

\* What a queue carries of a pane is a sequence of units.
LEMMA UnitsOnUnits ==
  ASSUME NEW q \in Seq(Frames), NEW p \in Panes
  PROVE  UnitsOn(q, p) \in Units
BY UnitsList, FlattenUnits DEF UnitsOn

\* A frame is written.
LEMMA UnitsOnAppend ==
  ASSUME NEW q \in Seq(Frames), NEW f \in Frames, NEW p \in Panes
  PROVE  UnitsOn(Append(q, f), p) = UnitsOn(q, p) \o UnitsOf(f, p)
<1> DEFINE x(g) == UnitsOf(g, p)  r == Append(q, f)
           ss == [i \in DOMAIN q |-> x(q[i])]  tt == [i \in DOMAIN r |-> x(r[i])]
<1>1. ss \in Seq(Units) /\ Len(ss) = Len(q) /\ x(f) \in Units /\ Len(q) \in Nat
  BY UnitsList, UnitsOfFrame
<1>2. r \in Seq(Frames) /\ Len(r) = Len(q) + 1 /\ r[Len(q) + 1] = f
      /\ \A i \in 1 .. Len(q) : r[i] = q[i]
  OBVIOUS
<1>3. tt \in Seq(Units) /\ Len(tt) = Len(r)
  BY <1>2, UnitsList
<1>4. tt = Append(ss, x(f))
  <2> HIDE DEF x, r
  <2>1. \A i \in 1 .. Len(q) : ss[i] = x(q[i])
    BY <1>1
  <2>2. \A i \in 1 .. Len(r) : tt[i] = x(r[i])
    BY <1>2
  <2> HIDE DEF ss, tt
  <2>3. \A i \in 1 .. Len(tt) : tt[i] = Append(ss, x(f))[i]
    BY <1>1, <1>2, <1>3, <2>1, <2>2
  <2>4. Append(ss, x(f)) \in Seq(Units) /\ Len(Append(ss, x(f))) = Len(tt)
    BY <1>1, <1>2, <1>3
  <2>5. QED
    BY <1>3, <2>3, <2>4
<1>5. FlattenSeq(ss) \in Units
  BY <1>1, FlattenUnits
<1>6. FlattenSeq(tt) = FlattenSeq(ss) \o x(f)
  <2> HIDE DEF ss, tt, x
  <2>1. QED
    BY <1>1, <1>4, <1>5, FlattenAppend
<1>7. QED
  BY <1>6 DEF UnitsOn

\* A frame is read.
LEMMA UnitsOnTail ==
  ASSUME NEW q \in Seq(Frames), q # <<>>, NEW p \in Panes
  PROVE  UnitsOn(q, p) = UnitsOf(Head(q), p) \o UnitsOn(Tail(q), p)
<1> DEFINE x(g) == UnitsOf(g, p)  r == Tail(q)
           ss == [i \in DOMAIN q |-> x(q[i])]  tt == [i \in DOMAIN r |-> x(r[i])]
<1>1. ss \in Seq(Units) /\ Len(ss) = Len(q) /\ Len(q) \in Nat /\ Len(q) # 0 /\ Head(q) = q[1]
  BY UnitsList
<1>2. r \in Seq(Frames) /\ Len(r) = Len(q) - 1 /\ \A i \in 1 .. Len(q) - 1 : r[i] = q[i + 1]
  OBVIOUS
<1>3. tt \in Seq(Units) /\ Len(tt) = Len(r)
  BY <1>2, UnitsList
<1>4. tt = Tail(ss) /\ Head(ss) = x(Head(q)) /\ ss # <<>>
  <2> HIDE DEF x, r
  <2>1. \A i \in 1 .. Len(q) : ss[i] = x(q[i])
    BY <1>1
  <2>2. \A i \in 1 .. Len(r) : tt[i] = x(r[i])
    BY <1>2
  <2> HIDE DEF ss, tt
  <2>3. \A i \in 1 .. Len(tt) : tt[i] = Tail(ss)[i]
    BY <1>1, <1>2, <1>3, <2>1, <2>2
  <2>4. Tail(ss) \in Seq(Units) /\ Len(Tail(ss)) = Len(tt)
    BY <1>1, <1>2, <1>3
  <2>5. tt = Tail(ss)
    BY <1>3, <2>3, <2>4
  <2>6. QED
    BY <1>1, <2>1, <2>5
<1>5. FlattenSeq(ss) = x(Head(q)) \o FlattenSeq(tt)
  <2> HIDE DEF ss, tt, x
  <2>1. QED
    BY <1>1, <1>4, FlattenTail
<1>6. QED
  BY <1>5 DEF UnitsOn

\* No frame carries output of the pane.
LEMMA UnitsOnNone ==
  ASSUME NEW q \in Seq(Frames), NEW p \in Panes,
         \A f \in On(q) : ~(f.kind = "output" /\ f.pane = p)
  PROVE  UnitsOn(q, p) = <<>>
<1> DEFINE x(g) == UnitsOf(g, p)  ss == [i \in DOMAIN q |-> x(q[i])]
<1>1. ss \in Seq(Units) /\ Len(ss) = Len(q) /\ Len(q) \in Nat
  BY UnitsList
<1>2. \A i \in 1 .. Len(q) : q[i] \in Frames /\ q[i] \in On(q)
  BY DEF On
<1>3. \A i \in 1 .. Len(q) : x(q[i]) = <<>>
  BY <1>2, UnitsOfFrame
<1>4. \A i \in 1 .. Len(ss) : ss[i] = <<>>
  <2> HIDE DEF x
  <2>1. QED
    BY <1>1, <1>3
<1>5. FlattenSeq(ss) = <<>>
  <2> HIDE DEF ss
  <2>1. QED
    BY <1>1, <1>4, FlattenNone
<1>6. QED
  BY <1>5 DEF UnitsOn

-----------------------------------------------------------------------------
(* The stream of a pane *)

ImageQueue == link[Newest].toImage

\* What is on its way to the image is what the newest link carries of the pane.
LEMMA OnLinkIs ==
  /\ \A p : OnLink(p) = UnitsOn(ImageQueue, p)
  /\ \A p : OnLink(p)' = UnitsOn(ImageQueue', p)
BY DEF OnLink, UnitsOn, ImageQueue

\* The queue to the image, and the frames carried on it.
LEMMA QueueType ==
  ASSUME LinkInv
  PROVE  ImageQueue \in Seq(Frames) /\ Carried = On(ImageQueue)
BY NewestFacts, LinkParts DEF LinkInv, ImageQueue, Carried

\* The phase of a pane's stream, now and after a step.
IsOpen(p) ==
  /\ p \notin torn /\ told[p] = "none" /\ imagePc # "gone"
  /\ p \in Wanted \/ readerPc[p] = "none"
HasExited(p) == p \notin torn /\ told[p] = "real"

\* The phase of a pane, in a state.
LEMMA PhaseIs ==
  ASSUME NEW p
  PROVE  /\ StreamPhase(p) = "open" <=> IsOpen(p)
         /\ StreamPhase(p) = "exited" <=> HasExited(p)
         /\ StreamPhase(p) \in {"open", "exited", "left"}
BY DEF StreamPhase, IsOpen, HasExited

\* The phase of a pane, after a step.
LEMMA PhaseIsNext ==
  ASSUME NEW p
  PROVE  /\ StreamPhase(p)' = "open" <=> IsOpen(p)'
         /\ StreamPhase(p)' = "exited" <=> HasExited(p)'
         /\ StreamPhase(p)' \in {"open", "exited", "left"}
BY DEF StreamPhase, IsOpen, HasExited

\* The numbers of a pane.
LEMMA PaneNumbers ==
  ASSUME LinkInv, NEW p \in Panes
  PROVE  /\ taken[p] \in 0 .. PrintLimit /\ fed[p] \in 0 .. PrintLimit /\ unsent[p] \in 0 .. PrintLimit
         /\ taken[p] - unsent[p] \in Nat /\ taken[p] - unsent[p] <= taken[p]
         /\ taken[p] \in Nat /\ fed[p] \in Nat /\ unsent[p] \in Nat /\ PrintLimit \in Nat
<1>1. /\ taken[p] \in 0 .. PrintLimit /\ fed[p] \in 0 .. PrintLimit /\ unsent[p] \in 0 .. PrintLimit
      /\ unsent[p] <= taken[p] /\ PrintLimit \in Nat
  BY WindowAssumption DEF LinkInv, Shapes, TypeOK, PaneOK
<1>2. QED
  BY <1>1

\* What an open pane has on its way: all that was read of it and not taken.
Whole(p) == fed[p] <= taken[p] - unsent[p] /\ OnLink(p) = Run(fed[p], taken[p] - unsent[p])
StreamsWhole == \A p \in Panes : IsOpen(p) => Whole(p)

\* The units of a whole stream that the session has not taken are one run.
LEMMA UnfedIs ==
  ASSUME LinkInv, NEW p \in Panes, Whole(p)
  PROVE  UnfedUnits(p) = Run(fed[p], taken[p]) /\ fed[p] <= taken[p]
<1> DEFINE a == fed[p]  b == taken[p] - unsent[p]  c == taken[p]
<1>1. /\ a \in Nat /\ b \in Nat /\ c \in Nat /\ a <= b /\ b <= c /\ c - b = unsent[p]
  BY PaneNumbers DEF Whole
<1>2. OnLink(p) = Run(a, b)
  BY DEF Whole
<1>3. UnfedUnits(p) = OnLink(p) \o Run(b, c)
  <2>1. UnfedUnits(p) = OnLink(p) \o [i \in 1 .. unsent[p] |-> b + i - 1]
    BY DEF UnfedUnits
  <2> HIDE DEF b, c
  <2>2. Run(b, c) = [i \in 1 .. unsent[p] |-> b + i - 1]
    BY <1>1 DEF Run
  <2>3. QED
    BY <2>1, <2>2
<1> HIDE DEF a, b, c
<1>4. UnfedUnits(p) = Run(a, c)
  <2>1. Run(a, b) \o Run(b, c) = Run(a, c)
    BY <1>1, RunJoined, Zenon
  <2>2. QED
    BY <1>2, <1>3, <2>1, Zenon
<1>5. a <= c
  BY <1>1
<1>6. QED
  BY <1>4, <1>5 DEF a, c

\* The same after a step.
LEMMA UnfedIsNext ==
  ASSUME LinkInv', NEW p \in Panes, Whole(p)'
  PROVE  UnfedUnits(p)' = Run(fed'[p], taken'[p]) /\ fed'[p] <= taken'[p]
<1> DEFINE a == fed'[p]  b == taken'[p] - unsent'[p]  c == taken'[p]
<1>1. /\ a \in Nat /\ b \in Nat /\ c \in Nat /\ a <= b /\ b <= c /\ c - b = unsent'[p]
  <2>1. /\ taken'[p] \in 0 .. PrintLimit /\ fed'[p] \in 0 .. PrintLimit /\ unsent'[p] \in 0 .. PrintLimit
        /\ unsent'[p] <= taken'[p] /\ PrintLimit \in Nat
    BY WindowAssumption DEF LinkInv, Shapes, TypeOK, PaneOK
  <2>2. QED
    BY <2>1 DEF Whole
<1>2. OnLink(p)' = Run(a, b)
  BY DEF Whole
<1>3. UnfedUnits(p)' = OnLink(p)' \o Run(b, c)
  <2>1. UnfedUnits(p)' = OnLink(p)' \o [i \in 1 .. unsent'[p] |-> b + i - 1]
    BY DEF UnfedUnits
  <2> HIDE DEF b, c
  <2>2. Run(b, c) = [i \in 1 .. unsent'[p] |-> b + i - 1]
    BY <1>1 DEF Run
  <2>3. QED
    BY <2>1, <2>2
<1> HIDE DEF a, b, c
<1>4. UnfedUnits(p)' = Run(a, c)
  <2>1. Run(a, b) \o Run(b, c) = Run(a, c)
    BY <1>1, RunJoined, Zenon
  <2>2. QED
    BY <1>2, <1>3, <2>1, Zenon
<1>5. a <= c
  BY <1>1
<1>6. QED
  BY <1>4, <1>5 DEF a, c

-----------------------------------------------------------------------------
(* The abstract stream *)

PhaseOf == [p \in Panes |-> StreamPhase(p)]
NextOf == [p \in Panes |-> CASE StreamPhase(p) = "open" -> taken[p]
                             [] StreamPhase(p) = "exited" -> fed[p]
                             [] OTHER -> 0]
FedOf == [p \in Panes |-> IF StreamPhase(p) = "left" THEN 0 ELSE fed[p]]
UnfedOf == [p \in Panes |-> IF StreamPhase(p) = "open" THEN UnfedUnits(p) ELSE <<>>]

\* The abstract stream of one pane, by its phase.
LEMMA PhaseCases ==
  ASSUME LinkInv, StreamsWhole, NEW p \in Panes
  PROVE  \/ /\ PhaseOf[p] = "open" /\ IsOpen(p) /\ ~HasExited(p)
            /\ NextOf[p] = taken[p] /\ FedOf[p] = fed[p] /\ UnfedOf[p] = Run(fed[p], taken[p])
            /\ fed[p] <= taken[p]
         \/ /\ PhaseOf[p] = "exited" /\ ~IsOpen(p) /\ HasExited(p)
            /\ NextOf[p] = fed[p] /\ FedOf[p] = fed[p] /\ UnfedOf[p] = <<>>
         \/ /\ PhaseOf[p] = "left" /\ ~IsOpen(p) /\ ~HasExited(p)
            /\ NextOf[p] = 0 /\ FedOf[p] = 0 /\ UnfedOf[p] = <<>>
<1>1. /\ PhaseOf[p] = StreamPhase(p)
      /\ NextOf[p] = CASE StreamPhase(p) = "open" -> taken[p]
                       [] StreamPhase(p) = "exited" -> fed[p]
                       [] OTHER -> 0
      /\ FedOf[p] = IF StreamPhase(p) = "left" THEN 0 ELSE fed[p]
      /\ UnfedOf[p] = IF StreamPhase(p) = "open" THEN UnfedUnits(p) ELSE <<>>
  BY DEF PhaseOf, NextOf, FedOf, UnfedOf
<1>2. /\ StreamPhase(p) = "open" <=> IsOpen(p)
      /\ StreamPhase(p) = "exited" <=> HasExited(p)
      /\ StreamPhase(p) \in {"open", "exited", "left"}
  BY PhaseIs, Zenon
<1>3. IsOpen(p) => UnfedUnits(p) = Run(fed[p], taken[p]) /\ fed[p] <= taken[p]
  BY UnfedIs DEF StreamsWhole
<1>4. QED
  BY <1>1, <1>2, <1>3

\* The same of the state after a step.
LEMMA PhaseCasesNext ==
  ASSUME LinkInv', StreamsWhole', NEW p \in Panes
  PROVE  \/ /\ PhaseOf'[p] = "open" /\ IsOpen(p)' /\ ~HasExited(p)'
            /\ NextOf'[p] = taken'[p] /\ FedOf'[p] = fed'[p] /\ UnfedOf'[p] = Run(fed'[p], taken'[p])
            /\ fed'[p] <= taken'[p]
         \/ /\ PhaseOf'[p] = "exited" /\ ~IsOpen(p)' /\ HasExited(p)'
            /\ NextOf'[p] = fed'[p] /\ FedOf'[p] = fed'[p] /\ UnfedOf'[p] = <<>>
         \/ /\ PhaseOf'[p] = "left" /\ ~IsOpen(p)' /\ ~HasExited(p)'
            /\ NextOf'[p] = 0 /\ FedOf'[p] = 0 /\ UnfedOf'[p] = <<>>
<1>1. /\ PhaseOf'[p] = StreamPhase(p)'
      /\ NextOf'[p] = CASE StreamPhase(p)' = "open" -> taken'[p]
                       [] StreamPhase(p)' = "exited" -> fed'[p]
                       [] OTHER -> 0
      /\ FedOf'[p] = IF StreamPhase(p)' = "left" THEN 0 ELSE fed'[p]
      /\ UnfedOf'[p] = IF StreamPhase(p)' = "open" THEN UnfedUnits(p)' ELSE <<>>
  BY DEF PhaseOf, NextOf, FedOf, UnfedOf
<1>2. /\ StreamPhase(p)' = "open" <=> IsOpen(p)'
      /\ StreamPhase(p)' = "exited" <=> HasExited(p)'
      /\ StreamPhase(p)' \in {"open", "exited", "left"}
  BY PhaseIsNext, Zenon
<1>3. IsOpen(p)' => Whole(p)'
  BY DEF StreamsWhole
<1>4. IsOpen(p)' => UnfedUnits(p)' = Run(fed'[p], taken'[p]) /\ fed'[p] <= taken'[p]
  BY <1>3, UnfedIsNext
<1>5. QED
  BY <1>1, <1>2, <1>4

\* The abstract stream's variables are functions on the panes.
LEMMA StreamFunctions ==
  /\ PhaseOf = [p \in Panes |-> PhaseOf[p]] /\ PhaseOf' = [p \in Panes |-> PhaseOf'[p]]
  /\ NextOf = [p \in Panes |-> NextOf[p]] /\ NextOf' = [p \in Panes |-> NextOf'[p]]
  /\ FedOf = [p \in Panes |-> FedOf[p]] /\ FedOf' = [p \in Panes |-> FedOf'[p]]
  /\ UnfedOf = [p \in Panes |-> UnfedOf[p]] /\ UnfedOf' = [p \in Panes |-> UnfedOf'[p]]
BY DEF PhaseOf, NextOf, FedOf, UnfedOf

\* A pane's stream is as it was.
StreamSame(p) ==
  /\ PhaseOf'[p] = PhaseOf[p] /\ NextOf'[p] = NextOf[p]
  /\ FedOf'[p] = FedOf[p] /\ UnfedOf'[p] = UnfedOf[p]

\* A step that leaves every pane's stream alone is a step of the abstract
\* stream in which it stays as it is.
LEMMA StreamStays ==
  ASSUME \A p \in Panes : StreamSame(p)
  PROVE  UNCHANGED Stream!vars
<1>1. PhaseOf' = PhaseOf /\ NextOf' = NextOf /\ FedOf' = FedOf /\ UnfedOf' = UnfedOf
  BY StreamFunctions DEF StreamSame
<1>2. QED
  BY <1>1, Zenon DEF Stream!vars, PhaseOf, NextOf, FedOf, UnfedOf

\* A pane whose stream is in the same phase, with the same units.
LEMMA PaneStays ==
  ASSUME LinkInv, LinkInv', StreamsWhole, StreamsWhole', NEW p \in Panes,
         IsOpen(p)' <=> IsOpen(p), HasExited(p)' <=> HasExited(p),
         (IsOpen(p) \/ HasExited(p)) => fed'[p] = fed[p],
         IsOpen(p) => taken'[p] = taken[p]
  PROVE  StreamSame(p)
<1>1. \/ /\ PhaseOf[p] = "open" /\ IsOpen(p) /\ ~HasExited(p)
         /\ NextOf[p] = taken[p] /\ FedOf[p] = fed[p] /\ UnfedOf[p] = Run(fed[p], taken[p])
         /\ fed[p] <= taken[p]
      \/ /\ PhaseOf[p] = "exited" /\ ~IsOpen(p) /\ HasExited(p)
         /\ NextOf[p] = fed[p] /\ FedOf[p] = fed[p] /\ UnfedOf[p] = <<>>
      \/ /\ PhaseOf[p] = "left" /\ ~IsOpen(p) /\ ~HasExited(p)
         /\ NextOf[p] = 0 /\ FedOf[p] = 0 /\ UnfedOf[p] = <<>>
  BY PhaseCases
<1>2. \/ /\ PhaseOf'[p] = "open" /\ IsOpen(p)' /\ ~HasExited(p)'
         /\ NextOf'[p] = taken'[p] /\ FedOf'[p] = fed'[p] /\ UnfedOf'[p] = Run(fed'[p], taken'[p])
         /\ fed'[p] <= taken'[p]
      \/ /\ PhaseOf'[p] = "exited" /\ ~IsOpen(p)' /\ HasExited(p)'
         /\ NextOf'[p] = fed'[p] /\ FedOf'[p] = fed'[p] /\ UnfedOf'[p] = <<>>
      \/ /\ PhaseOf'[p] = "left" /\ ~IsOpen(p)' /\ ~HasExited(p)'
         /\ NextOf'[p] = 0 /\ FedOf'[p] = 0 /\ UnfedOf'[p] = <<>>
  BY PhaseCasesNext
<1>3. QED
  BY <1>1, <1>2 DEF StreamSame

\* What a step may do to a stream that takes and feeds nothing: panes leave.
PhasesKept ==
  /\ \A p \in Panes : IsOpen(p)' => IsOpen(p)
  /\ \A p \in Panes : HasExited(p)' <=> HasExited(p)

\* A step that leaves every pane alone or takes it out of the session is a stutter or a Leave.
LEMMA LeaveRefines ==
  ASSUME LinkInv, LinkInv', StreamsWhole, StreamsWhole', PhasesKept, UNCHANGED <<taken, fed>>
  PROVE  [Stream!Next]_(Stream!vars)
<1>1. PICK L \in SUBSET Panes : L = {p \in Panes : IsOpen(p) /\ ~IsOpen(p)'}
  <2>1. {p \in Panes : IsOpen(p) /\ ~IsOpen(p)'} \in SUBSET Panes
    OBVIOUS
  <2>2. QED
    BY <2>1
<1>2. ASSUME NEW p \in L
      PROVE  /\ p \in Panes /\ PhaseOf[p] = "open" /\ PhaseOf'[p] = "left" /\ NextOf'[p] = 0
             /\ FedOf'[p] = 0 /\ UnfedOf'[p] = <<>>
  <2>1. p \in Panes /\ IsOpen(p) /\ ~IsOpen(p)'
    BY <1>1
  <2>2. PhaseOf[p] = "open" /\ ~HasExited(p)
    BY <2>1, PhaseCases
  <2>3. ~HasExited(p)'
    BY <2>1, <2>2 DEF PhasesKept
  <2>4. QED
    BY <2>1, <2>2, <2>3, PhaseCasesNext
<1>3. ASSUME NEW p \in Panes, p \notin L PROVE StreamSame(p)
  <2>1. (IsOpen(p)' <=> IsOpen(p)) /\ (HasExited(p)' <=> HasExited(p))
    BY <1>1, <1>3 DEF PhasesKept
  <2>2. QED
    BY <2>1, PaneStays
<1>4. CASE L = {}
  BY <1>3, <1>4, StreamStays
<1>5. CASE L # {}
  <2>1. /\ PhaseOf' = [p \in Panes |-> IF p \in L THEN "left" ELSE PhaseOf[p]]
        /\ NextOf' = [p \in Panes |-> IF p \in L THEN 0 ELSE NextOf[p]]
        /\ FedOf' = [p \in Panes |-> IF p \in L THEN 0 ELSE FedOf[p]]
        /\ UnfedOf' = [p \in Panes |-> IF p \in L THEN <<>> ELSE UnfedOf[p]]
    BY <1>2, <1>3, StreamFunctions DEF StreamSame
  <2>2. L \in SUBSET Panes /\ \A p \in L : PhaseOf[p] = "open"
    BY <1>2
  <2>3. Stream!Leave(L)
    BY <1>5, <2>1, <2>2, Zenon DEF Stream!Leave, PhaseOf, NextOf, FedOf, UnfedOf
  <2>4. QED
    BY <2>2, <2>3, Zenon DEF Stream!Next
<1>6. QED
  BY <1>4, <1>5

\* The stream stays whole, and does a step of the abstract one.
StreamStep == StreamsWhole' /\ [Stream!Next]_(Stream!vars)

\* What the session, and the readers, may do in a step that moves no unit.
SessionStep ==
  /\ \A p \in Panes : told'[p] = told[p] \/ (told[p] = "none" /\ told'[p] = "lost")
  /\ torn \subseteq torn' /\ \A p \in torn' : p \in torn \/ told[p] = "none"
  /\ imagePc = "gone" => imagePc' = "gone"
  /\ \A p \in Panes : Known(p) => Known(p)' /\ (p \in Wanted' => p \in Wanted)
  /\ UNCHANGED <<taken, fed>>

\* A step that leaves the session's record alone keeps the phases.
LEMMA SessionKeeps == ASSUME SessionStep PROVE PhasesKept
<1> SUFFICES ASSUME NEW p \in Panes
             PROVE  (IsOpen(p)' => IsOpen(p)) /\ (HasExited(p)' <=> HasExited(p))
  BY DEF PhasesKept
<1>1. /\ told'[p] = told[p] \/ (told[p] = "none" /\ told'[p] = "lost")
      /\ p \in torn => p \in torn'
      /\ p \in torn' => p \in torn \/ told[p] = "none"
      /\ imagePc = "gone" => imagePc' = "gone"
      /\ readerPc[p] # "none" => readerPc'[p] # "none"
      /\ readerPc[p] # "none" => (p \in Wanted' => p \in Wanted)
  BY DEF SessionStep, Known
<1>2. HasExited(p)' <=> HasExited(p)
  BY <1>1 DEF HasExited
<1>3. IsOpen(p)' => IsOpen(p)
  BY <1>1 DEF IsOpen
<1>4. QED
  BY <1>2, <1>3

\* No unit of an open pane moves.
LEMMA QuietRefines ==
  ASSUME LinkInv, LinkInv', StreamsWhole, SessionStep,
         \A p \in Panes : IsOpen(p) /\ IsOpen(p)' => OnLink(p)' = OnLink(p) /\ unsent'[p] = unsent[p]
  PROVE  StreamStep
<1>1. PhasesKept /\ UNCHANGED <<taken, fed>>
  BY SessionKeeps DEF SessionStep
<1>2. StreamsWhole'
  <2> SUFFICES ASSUME NEW p \in Panes, IsOpen(p)' PROVE Whole(p)'
    BY DEF StreamsWhole
  <2>1. IsOpen(p)
    BY <1>1 DEF PhasesKept
  <2>2. OnLink(p)' = OnLink(p) /\ unsent'[p] = unsent[p] /\ Whole(p)
    BY <2>1 DEF StreamsWhole
  <2>3. QED
    BY <1>1, <2>2 DEF Whole
<1>3. QED
  BY <1>1, <1>2, LeaveRefines DEF StreamStep
-----------------------------------------------------------------------------
(* What a step does to the units on the link *)

\* No output is added and none is taken.
QueueQuiet ==
  \/ ImageQueue' = ImageQueue
  \/ \E f : f.kind # "output" /\ ImageQueue' = Append(ImageQueue, f)
  \/ ImageQueue # <<>> /\ Head(ImageQueue).kind # "output" /\ ImageQueue' = Tail(ImageQueue)

\* The queue after a step.
LEMMA QueueTypeNext ==
  ASSUME LinkInv'
  PROVE  ImageQueue' \in Seq(Frames)
<1>1. PICK n \in 1 .. LinkLimit : Links' = 1 .. n
  BY DEF LinkInv, LinksOK
<1>2. n \in Links' /\ \A h \in Links' : h <= n
  BY <1>1, WindowAssumption
<1>3. Newest' \in Links'
  BY <1>2 DEF Newest
<1>4. Newest' \in 1 .. LinkLimit /\ link' \in [1 .. LinkLimit -> LinkType]
  BY <1>3 DEF Links, LinkInv, Shapes
<1>5. QED
  BY <1>4 DEF ImageQueue, LinkType

\* A frame is written at the end of the queue, or read at its head.
LEMMA UnitsWritten ==
  ASSUME LinkInv, LinkInv', NEW f, ImageQueue' = Append(ImageQueue, f), NEW p \in Panes
  PROVE  /\ f \in Frames /\ OnLink(p)' = OnLink(p) \o UnitsOf(f, p)
         /\ ~(f.kind = "output" /\ f.pane = p) => OnLink(p)' = OnLink(p)
<1>1. PICK q, r : q = ImageQueue /\ r = ImageQueue'
  OBVIOUS
<1>2. q \in Seq(Frames)
  BY <1>1, QueueType
<1>3. r \in Seq(Frames)
  BY <1>1, QueueTypeNext
<1>4. r = Append(q, f)
  BY <1>1
<1>5. f \in Frames
  <2>1. Len(q) \in Nat /\ Len(q) + 1 \in 1 .. Len(Append(q, f)) /\ Append(q, f)[Len(q) + 1] = f
    BY <1>2
  <2>2. QED
    BY <1>3, <1>4, <2>1
<1>6. OnLink(p) = UnitsOn(q, p) /\ OnLink(p)' = UnitsOn(r, p)
  BY <1>1, OnLinkIs
<1>7. UnitsOn(r, p) = UnitsOn(q, p) \o UnitsOf(f, p)
  BY <1>2, <1>4, <1>5, UnitsOnAppend
<1>8. ~(f.kind = "output" /\ f.pane = p) => UnitsOn(r, p) = UnitsOn(q, p)
  BY <1>2, <1>5, <1>7, UnitsOfFrame, UnitsOnUnits, JoinedNone
<1>9. QED
  BY <1>5, <1>6, <1>7, <1>8

\* The frame at the head is read: its units are the first ones.
LEMMA UnitsRead ==
  ASSUME LinkInv, ImageQueue # <<>>, ImageQueue' = Tail(ImageQueue), NEW p \in Panes
  PROVE  /\ Head(ImageQueue) \in Frames
         /\ OnLink(p) = UnitsOf(Head(ImageQueue), p) \o OnLink(p)' /\ OnLink(p)' \in Units
         /\ ~(Head(ImageQueue).kind = "output" /\ Head(ImageQueue).pane = p) => OnLink(p)' = OnLink(p)
<1>1. PICK q, r : q = ImageQueue /\ r = ImageQueue'
  OBVIOUS
<1>2. q \in Seq(Frames) /\ q # <<>> /\ r = Tail(q)
  BY <1>1, QueueType
<1>3. Head(q) \in Frames /\ r \in Seq(Frames)
  BY <1>2
<1>4. OnLink(p) = UnitsOn(q, p) /\ OnLink(p)' = UnitsOn(r, p)
  BY <1>1, OnLinkIs
<1>5. UnitsOn(q, p) = UnitsOf(Head(q), p) \o UnitsOn(r, p)
  BY <1>2, UnitsOnTail
<1>6. UnitsOn(r, p) \in Units
  BY <1>3, UnitsOnUnits
<1>7. ~(Head(q).kind = "output" /\ Head(q).pane = p) => UnitsOn(r, p) = UnitsOn(q, p)
  BY <1>3, <1>5, <1>6, UnitsOfFrame, JoinedNone
<1>8. QED
  BY <1>1, <1>3, <1>4, <1>5, <1>6, <1>7

\* A step quiet on the queue leaves the units of every pane.
LEMMA QueueUnits ==
  ASSUME LinkInv, LinkInv', QueueQuiet, NEW p \in Panes
  PROVE  OnLink(p)' = OnLink(p)
<1>1. CASE ImageQueue' = ImageQueue
  BY <1>1, OnLinkIs
<1>2. ASSUME NEW f, f.kind # "output", ImageQueue' = Append(ImageQueue, f)
      PROVE  OnLink(p)' = OnLink(p)
  BY <1>2, UnitsWritten
<1>3. CASE ImageQueue # <<>> /\ Head(ImageQueue).kind # "output" /\ ImageQueue' = Tail(ImageQueue)
  BY <1>3, UnitsRead
<1>4. QED
  BY <1>1, <1>2, <1>3 DEF QueueQuiet

\* The queue after a step that opens no link.
LEMMA QueueAt ==
  ASSUME LinkInv, LinkInv',
         \A g \in 1 .. LinkLimit : link'[g].state = "none" <=> link[g].state = "none"
  PROVE  Newest' = Newest /\ ImageQueue' = link'[Newest].toImage /\ ImageQueue = link[Newest].toImage
<1>1. Newest' = Newest
  BY SameNewest DEF LinkInv, Shapes, Typed
<1>2. QED
  BY <1>1 DEF ImageQueue

\* The links stay.
LEMMA QueueStays == ASSUME UNCHANGED link PROVE QueueQuiet
BY DEF QueueQuiet, ImageQueue, Newest, Links

\* The links, one by one.
LEMMA LinkFacts ==
  ASSUME LinkInv
  PROVE  /\ link \in [1 .. LinkLimit -> LinkType]
         /\ Newest \in 1 .. LinkLimit /\ generation \in 1 .. LinkLimit
         /\ link[generation].state = "up" => generation = Newest
         /\ link[Newest].state # "none" /\ link[generation].state # "none"
BY NewestFacts DEF LinkInv, Shapes, Links

\* The supervisor sends a frame on the serving link.
LEMMA QueueSent ==
  ASSUME LinkInv, LinkInv', NEW f, link[generation].state = "up", link' = Sent(f)
  PROVE  ImageQueue' = Append(ImageQueue, f) /\ (f.kind # "output" => QueueQuiet)
<1>1. /\ link \in [1 .. LinkLimit -> LinkType] /\ Newest \in 1 .. LinkLimit /\ generation = Newest
  BY LinkFacts
<1>2. /\ \A g \in 1 .. LinkLimit : link'[g].state = link[g].state
      /\ link'[Newest].toImage = Append(link[Newest].toImage, f)
  BY <1>1 DEF Sent, LinkType
<1>3. QED
  BY <1>2, QueueAt DEF QueueQuiet

\* The supervisor takes a request.
LEMMA QueueConsumed ==
  ASSUME LinkInv, LinkInv', link' = Consumed
  PROVE  QueueQuiet
<1>1. /\ link \in [1 .. LinkLimit -> LinkType] /\ Newest \in 1 .. LinkLimit
      /\ generation \in 1 .. LinkLimit
  BY LinkFacts
<1>2. /\ \A g \in 1 .. LinkLimit : link'[g].state = link[g].state
      /\ link'[Newest].toImage = link[Newest].toImage
  BY <1>1 DEF Consumed, LinkType
<1>3. QED
  BY <1>2, QueueAt DEF QueueQuiet

\* The supervisor answers a request.
LEMMA QueueResponds ==
  ASSUME LinkInv, LinkInv', NEW f, NEW then, f.kind # "output", RespondWith(f, then),
         link[generation].toSup # <<>>
  PROVE  QueueQuiet
<1>1. /\ link \in [1 .. LinkLimit -> LinkType] /\ Newest \in 1 .. LinkLimit
      /\ generation \in 1 .. LinkLimit /\ (link[generation].state = "up" => generation = Newest)
  BY LinkFacts
<1>2. CASE link[generation].state = "up" /\ hasWriter
  <2>1. /\ Consumed \in [1 .. LinkLimit -> LinkType]
        /\ \A g \in 1 .. LinkLimit : Consumed[g].state = link[g].state /\ Consumed[g].toImage = link[g].toImage
    <3> DEFINE q == link[generation].toSup  y == [link[generation] EXCEPT !.toSup = Tail(q)]
    <3>1. link[generation] \in LinkType /\ Tail(q) \in Seq(Requests)
      BY <1>1 DEF LinkType
    <3>2. /\ y \in LinkType /\ y.state = link[generation].state
          /\ y.toImage = link[generation].toImage
      BY <3>1, WithSup, Zenon
    <3>3. Consumed = [link EXCEPT ![generation] = y]
      BY DEF Consumed
    <3> HIDE DEF y
    <3>4. QED
      BY <1>1, <3>2, <3>3
  <2>2. link' = [Consumed EXCEPT ![generation].toImage = Append(@, f)] /\ generation = Newest
    BY <1>1, <1>2 DEF RespondWith
  <2>3. /\ \A g \in 1 .. LinkLimit : link'[g].state = link[g].state
        /\ link'[Newest].toImage = Append(link[Newest].toImage, f)
    BY <1>1, <2>1, <2>2 DEF LinkType
  <2>4. QED
    BY <2>3, QueueAt DEF QueueQuiet
<1>3. CASE ~(link[generation].state = "up" /\ hasWriter)
  BY <1>3, QueueConsumed DEF RespondWith
<1>4. QED
  BY <1>2, <1>3

\* The image sends a request.
LEMMA QueueAsked ==
  ASSUME LinkInv, LinkInv', NEW r, link' = Asked(r)
  PROVE  QueueQuiet
<1>1. link \in [1 .. LinkLimit -> LinkType] /\ Newest \in 1 .. LinkLimit
  BY LinkFacts
<1>2. /\ \A g \in 1 .. LinkLimit : link'[g].state = link[g].state
      /\ link'[Newest].toImage = link[Newest].toImage
  BY <1>1 DEF Asked, LinkType
<1>3. QED
  BY <1>2, QueueAt DEF QueueQuiet

\* The link reader takes the frame at the head.
LEMMA QueueRead ==
  ASSUME LinkInv, LinkInv', link[Newest].toImage # <<>>,
         link' = Read \/ \E v : link' = [Read EXCEPT ![Newest].version = v]
  PROVE  /\ ImageQueue # <<>> /\ Head(ImageQueue) = Frame /\ ImageQueue' = Tail(ImageQueue)
         /\ Frame.kind # "output" => QueueQuiet
<1>1. link \in [1 .. LinkLimit -> LinkType] /\ Newest \in 1 .. LinkLimit
  BY LinkFacts
<1>2. /\ \A g \in 1 .. LinkLimit : Read[g].state = link[g].state
      /\ Read[Newest].toImage = Tail(link[Newest].toImage) /\ Read \in [1 .. LinkLimit -> LinkType]
  <2> DEFINE q == link[Newest].toImage  y == [link[Newest] EXCEPT !.toImage = Tail(q)]
  <2>1. link[Newest] \in LinkType /\ Tail(q) \in Seq(Frames)
    BY <1>1 DEF LinkType
  <2>2. y \in LinkType /\ y.state = link[Newest].state /\ y.toImage = Tail(q)
    BY <2>1, WithImage, Zenon
  <2>3. Read = [link EXCEPT ![Newest] = y]
    BY DEF Read
  <2> HIDE DEF y
  <2>4. QED
    BY <1>1, <2>2, <2>3
<1>3. /\ \A g \in 1 .. LinkLimit : link'[g].state = link[g].state
      /\ link'[Newest].toImage = Tail(link[Newest].toImage)
  BY <1>1, <1>2 DEF LinkType
<1>4. QED
  BY <1>3, QueueAt DEF QueueQuiet, ImageQueue, Frame
-----------------------------------------------------------------------------
(* Steps that move no unit *)

\* A step of the supervisor or of a pane in it.
LEMMA SupRefines ==
  ASSUME LinkInv, LinkInv', StreamsWhole, QueueQuiet,
         UNCHANGED <<imagePc, live, spawning, fed, told, torn, unsent, taken>>,
         \A p \in Panes : Known(p) => Known(p)'
  PROVE  StreamStep
<1>1. Wanted' = Wanted
  BY DEF Wanted
<1>2. SessionStep
  BY <1>1 DEF SessionStep
<1>3. QED
  BY <1>2, QueueUnits, QuietRefines

\* A step of the image.
LEMMA ImgRefines ==
  ASSUME LinkInv, LinkInv', StreamsWhole, QueueQuiet,
         UNCHANGED <<readerPc, unsent, taken, fed, torn>>,
         UNCHANGED told \/ \E ps : told' = Told(ps, "lost"),
         imagePc = "gone" => imagePc' = "gone",
         \A p \in Panes : Known(p) /\ p \in Wanted' => p \in Wanted
  PROVE  StreamStep
<1>1. \A p \in Panes : told'[p] = told[p] \/ (told[p] = "none" /\ told'[p] = "lost")
  BY DEF Told
<1>2. SessionStep
  BY <1>1 DEF SessionStep, Known
<1>3. QED
  BY <1>2, QueueUnits, QuietRefines

\* The readers and the exits of the panes.
LEMMA PaneQuiet ==
  ASSUME LinkInv, LinkInv', StreamsWhole, NEW p \in Panes,
         ChildEnds(p) \/ ReaderEnds(p) \/ OutputParks(p) \/ SendExit(p) \/ RecordExit(p)
  PROVE  StreamStep
<1>1. /\ UNCHANGED <<imagePc, live, spawning, fed, told, torn, unsent, taken>>
      /\ \/ UNCHANGED readerPc
         \/ readerPc' = [readerPc EXCEPT ![p] = "ended"]
         \/ readerPc' = [readerPc EXCEPT ![p] = "parked"]
      /\ \/ UNCHANGED link
         \/ link[generation].state = "up" /\ link' = Sent(Exited(p))
  BY DEF ChildEnds, ReaderEnds, OutputParks, SendExit, RecordExit, imageVars, sessionVars
<1>2. readerPc \in [Panes -> ReaderPcs]
  BY DEF LinkInv, Shapes, TypeOK
<1>3. \A r \in Panes : Known(r) => Known(r)'
  BY <1>1, <1>2 DEF Known
<1>4. Exited(p).kind # "output"
  BY DEF Exited
<1>5. QueueQuiet
  BY <1>1, <1>4, QueueStays, QueueSent
<1>6. QED
  BY <1>1, <1>3, <1>5, SupRefines

\* A send is given up only for a pane the session has let go of.
LEMMA OutputGivesUpRefines ==
  ASSUME LinkInv, LinkInv', StreamsWhole, NEW p \in Panes, OutputGivesUp(p)
  PROVE  StreamStep
<1>1. /\ UNCHANGED <<imagePc, live, spawning, fed, told, torn, taken, link>>
      /\ unsent' = [unsent EXCEPT ![p] = 0] /\ readerPc' = [readerPc EXCEPT ![p] = "drain"]
      /\ readerPc[p] = "send" /\ (isClosing \/ p \in closingPanes)
  BY DEF OutputGivesUp, GivesUp, imageVars, sessionVars
<1>2. readerPc \in [Panes -> ReaderPcs] /\ unsent \in [Panes -> 0 .. PrintLimit]
  BY DEF LinkInv, Shapes, TypeOK
<1>3. \A r \in Panes : Known(r) => Known(r)'
  BY <1>1, <1>2 DEF Known
<1>4. Wanted' = Wanted
  BY <1>1 DEF Wanted
<1>5. SessionStep
  BY <1>1, <1>3, <1>4 DEF SessionStep
<1>6. ~IsOpen(p)
  <2>1. CASE p \in closingPanes
    <3>1. LetGo(p)
      BY <1>1, <2>1 DEF LinkInv, ClosingOK, Over
    <3>2. QED
      BY <3>1 DEF LetGo, IsOpen, Known
  <2>2. CASE isClosing
    <3>1. imagePc \in {"ending", "gone"} \/ (isClosed /\ ~IsLinking /\ imagePc # "spawning")
      BY <2>2 DEF LinkInv, ClosingOK, IsOver
    <3>2. spawning # NoPane <=> imagePc = "spawning"
      BY DEF LinkInv, ImageOK
    <3>3. imagePc # "spawning"
      BY <3>1
    <3>4. Wanted = live
      BY <3>2, <3>3, PaneAssumption DEF Wanted
    <3>5. CASE imagePc \in {"ending", "gone"}
      <4>1. imagePc = "ending" => live = {}
        BY DEF LinkInv, ImageOK, EndPcs
      <4>2. QED
        BY <1>1, <3>4, <3>5, <4>1 DEF IsOpen
    <3>6. CASE isClosed /\ ~IsLinking /\ imagePc \notin {"ending", "gone"}
      <4>1. imagePc \in RunPcs \/ imagePc \in EndPcs
        BY <3>6 DEF LinkInv, Shapes, IsLinking, LinkPcs
      <4>2. CASE imagePc \in EndPcs
        BY <1>1, <3>4, <4>2 DEF LinkInv, ImageOK, IsOpen
      <4>3. CASE imagePc \in RunPcs
        <5>1. driven = {} /\ \A r \in live : told[r] = "none" => r \in driven
          BY <3>6, <4>3 DEF LinkInv, ImageOK
        <5>2. QED
          BY <1>1, <3>4, <5>1 DEF IsOpen
      <4>4. QED
        BY <4>1, <4>2, <4>3
    <3>7. QED
      BY <3>1, <3>5, <3>6
  <2>3. QED
    BY <1>1, <2>1, <2>2
<1>7. \A r \in Panes : r # p => unsent'[r] = unsent[r]
  BY <1>1, <1>2
<1>8. \A r \in Panes : OnLink(r)' = OnLink(r)
  BY <1>1, QueueStays, QueueUnits
<1>9. QED
  BY <1>5, <1>6, <1>7, <1>8, QuietRefines

\* A woken reader is one that was opened.
LEMMA StaysKnown ==
  ASSUME NotifyAll \/ UNCHANGED readerPc
  PROVE  \A p \in Panes : Known(p) => Known(p)'
BY DEF NotifyAll, Woken, Known

\* The loop of the supervisor takes a link, leaves one or ends.
LEMMA LoopQuiet ==
  ASSUME LinkInv, LinkInv', StreamsWhole, AcceptLink \/ LinkEnds \/ CloseDone
  PROVE  StreamStep
<1>1. /\ UNCHANGED <<imagePc, live, spawning, fed, told, torn, unsent, taken, readerPc>>
  BY DEF AcceptLink, LinkEnds, CloseDone, paneVars, imageVars, sessionVars
<1>2. /\ link \in [1 .. LinkLimit -> LinkType] /\ Newest \in 1 .. LinkLimit
      /\ generation \in 1 .. LinkLimit /\ link[generation].state # "none"
  BY LinkFacts
<1>3. /\ \A g \in 1 .. LinkLimit : link'[g].state = "none" <=> link[g].state = "none"
      /\ link'[Newest].toImage = link[Newest].toImage
  <2>1. CASE AcceptLink
    <3>1. generation + 1 \in 1 .. LinkLimit /\ link[generation + 1].state # "none"
      BY <2>1 DEF AcceptLink, Links
    <3>2. link' = [link EXCEPT ![generation + 1].state = IF @ = "queued" THEN "up" ELSE @]
      BY <2>1 DEF AcceptLink
    <3>3. QED
      BY <1>2, <3>1, <3>2 DEF LinkType
  <2>2. CASE LinkEnds
    <3>1. link' = [link EXCEPT ![generation].state = "down"]
      BY <2>2 DEF LinkEnds
    <3>2. QED
      BY <1>2, <3>1 DEF LinkType
  <2>3. CASE CloseDone
    <3>1. link' = [g \in DOMAIN link |-> IF link[g].state = "none" THEN link[g]
                                         ELSE [link[g] EXCEPT !.state = "down"]]
      BY <2>3 DEF CloseDone
    <3>2. QED
      BY <1>2, <3>1 DEF LinkType
  <2>4. QED
    BY <2>1, <2>2, <2>3
<1>4. QueueQuiet
  BY <1>3, QueueAt DEF QueueQuiet
<1>5. QED
  BY <1>1, <1>4, SupRefines DEF Known

\* It writes nothing.
LEMMA SupervisorSilent ==
  ASSUME LinkInv, LinkInv', StreamsWhole,
         \/ IdleExit \/ ServeGrant \/ ServeKill \/ CloseSends \/ CloseChildren
         \/ \E k \in kills : KillMark(k) \/ KillJoin(k)
  PROVE  StreamStep
<1>1. /\ UNCHANGED <<imagePc, live, spawning, fed, told, torn, unsent, taken>>
      /\ NotifyAll \/ UNCHANGED readerPc
      /\ UNCHANGED link \/ link' = Consumed
  BY DEF IdleExit, ServeGrant, ServeKill, CloseSends, CloseChildren, KillMark, KillJoin, paneVars,
         imageVars, sessionVars
<1>2. QueueQuiet
  BY <1>1, QueueStays, QueueConsumed
<1>3. QED
  BY <1>1, <1>2, StaysKnown, SupRefines

\* It answers.
LEMMA SupervisorAnswers ==
  ASSUME LinkInv, LinkInv', StreamsWhole,
         \/ ServeHello \/ ServeListPanes \/ ServeSpawn \/ ServePause \/ ServeResume \/ ServeShutdown
         \/ \E k \in kills : KillAnswer(k)
  PROVE  StreamStep
<1>1. UNCHANGED <<imagePc, live, spawning, fed, told, torn, unsent, taken>>
  BY DEF ServeHello, ServeListPanes, ServeSpawn, ServePause, ServeResume, ServeShutdown, KillAnswer,
         paneVars, imageVars, sessionVars
<1>2. \A p \in Panes : Known(p) => Known(p)'
  <2>1. CASE NotifyAll \/ UNCHANGED readerPc
    BY <2>1, StaysKnown
  <2>2. CASE readerPc' = [readerPc EXCEPT ![AskedPane] = "read"]
    <3>1. readerPc \in [Panes -> ReaderPcs]
      BY DEF LinkInv, Shapes, TypeOK
    <3>2. QED
      BY <2>2, <3>1 DEF Known
  <2>3. QED
    BY <2>1, <2>2
       DEF ServeHello, ServeListPanes, ServeSpawn, ServePause, ServeResume, ServeShutdown, KillAnswer,
           paneVars
<1>3. \A of, p, g, ps : Answer(of, p, g, ps).kind # "output"
  BY DEF Answer
<1>4. [Answer("hello", NoPane, generation, {}) EXCEPT !.version = version'].kind # "output"
  BY DEF Answer
<1>5. \/ \E kind, f, then : Asks(kind) /\ f.kind # "output" /\ RespondWith(f, then)
      \/ \E f : link[generation].state = "up" /\ f.kind # "output" /\ link' = Sent(f)
      \/ UNCHANGED link
  <2>1. CASE ServeHello
    BY <1>4, <2>1, Zenon DEF ServeHello
  <2>2. CASE ServeListPanes
    BY <1>3, <2>2, Zenon DEF ServeListPanes
  <2>3. CASE ServeSpawn
    BY <1>3, <2>3, Zenon DEF ServeSpawn
  <2>4. CASE ServePause
    BY <1>3, <2>4, Zenon DEF ServePause
  <2>5. CASE ServeResume
    BY <1>3, <2>5, Zenon DEF ServeResume
  <2>6. CASE ServeShutdown
    BY <1>3, <2>6, Zenon DEF ServeShutdown
  <2>7. ASSUME NEW k \in kills, KillAnswer(k)
        PROVE  \/ \E f : link[generation].state = "up" /\ f.kind # "output" /\ link' = Sent(f)
               \/ UNCHANGED link
    BY <1>3, <2>7, Zenon DEF KillAnswer
  <2>8. QED
    BY <2>1, <2>2, <2>3, <2>4, <2>5, <2>6, <2>7, Zenon
<1>6. QueueQuiet
  BY <1>5, QueueStays, QueueSent, QueueResponds DEF Asks
<1>7. QED
  BY <1>1, <1>2, <1>6, SupRefines
\* The image takes note of what it was answered, or of the end of its link.
LEMMA ImageSilent ==
  ASSUME LinkInv, LinkInv', StreamsWhole,
         \/ GiveUpLinking \/ PanesListed \/ UnknownKilled \/ TakeExits \/ EndedKilled \/ Reconciled
         \/ Spawned \/ SpawnFails \/ OutputHeld \/ ResumeAnswered \/ EndKilled \/ EndSession
         \/ ReaderCloses
  PROVE  StreamStep
<1>1. /\ UNCHANGED <<readerPc, unsent, taken, fed, torn, link>>
      /\ UNCHANGED told \/ \E ps : told' = Told(ps, "lost")
      /\ imagePc # "gone" \/ UNCHANGED imagePc
  BY DEF GiveUpLinking, PanesListed, UnknownKilled, TakeExits, EndedKilled, Reconciled, Spawned,
         SpawnFails, OutputHeld, ResumeAnswered, EndKilled, EndSession, ReaderCloses, paneVars,
         imageVars, sessionVars
<1>2. Wanted' \subseteq Wanted
  <2>1. /\ live' \subseteq live \cup {p \in Panes : p = spawning}
        /\ UNCHANGED spawning \/ spawning' = NoPane
    <3>1. CASE Spawned
      <4>1. spawning \in Panes \cup {NoPane} /\ spawning # NoPane
        BY <3>1 DEF LinkInv, Shapes, ImageOK, Spawned
      <4>2. QED
        BY <3>1, <4>1 DEF Spawned
    <3>2. CASE ~Spawned
      BY <3>2 DEF GiveUpLinking, PanesListed, UnknownKilled, TakeExits, EndedKilled, Reconciled,
         SpawnFails, OutputHeld, ResumeAnswered, EndKilled, EndSession, ReaderCloses, sessionVars
    <3>3. QED
      BY <3>1, <3>2
  <2>2. QED
    BY <2>1, PaneAssumption DEF Wanted
<1>3. QueueQuiet
  BY <1>1, QueueStays
<1>4. QED
  BY <1>1, <1>2, <1>3, ImgRefines

\* It asks, or reads an answer.
LEMMA ImageAsks ==
  ASSUME LinkInv, LinkInv', StreamsWhole,
         \/ HelloAnswered \/ AskShutdown \/ PauseOutput \/ AbandonSwap
         \/ KillNext("killUnknown", "killing") \/ KillNext("killEnded", "killingEnded")
         \/ KillNext("endKill", "endKilling")
         \/ \E p \in Panes : Parse(p) \/ PaneLeaves(p) \/ SpawnPane(p)
  PROVE  StreamStep
<1>1. /\ UNCHANGED <<readerPc, unsent, taken, fed, torn, told>> /\ imagePc # "gone"
      /\ UNCHANGED link \/ \E r : link' = Asked(r)
  BY DEF HelloAnswered, AskShutdown, PauseOutput, AbandonSwap, KillNext, Parse, PaneLeaves, SpawnPane,
         KillPane, Ask, paneVars, imageVars, sessionVars
<1>2. ASSUME NEW p \in Panes, Known(p), p \in Wanted' PROVE p \in Wanted
  <2>1. live' \subseteq live /\ (UNCHANGED spawning \/ readerPc[spawning'] = "none")
    BY DEF HelloAnswered, AskShutdown, PauseOutput, AbandonSwap, KillNext, Parse, PaneLeaves,
           SpawnPane, sessionVars
  <2>2. QED
    BY <1>2, <2>1 DEF Wanted, Known
<1>3. QueueQuiet
  BY <1>1, QueueStays, QueueAsked
<1>4. QED
  BY <1>1, <1>2, <1>3, ImgRefines

\* The link reader takes an answer.
LEMMA ReadAnswerRefines ==
  ASSUME LinkInv, LinkInv', StreamsWhole, ReadAnswer
  PROVE  StreamStep
<1>1. /\ UNCHANGED <<readerPc, unsent, taken, fed, torn, told, imagePc, live, spawning>>
      /\ link[Newest].toImage # <<>> /\ Frame.kind = "answer"
      /\ link' = Read \/ \E v : link' = [Read EXCEPT ![Newest].version = v]
  BY DEF ReadAnswer, HasFrame, paneVars, sessionVars
<1>2. QueueQuiet
  BY <1>1, QueueRead
<1>3. Wanted' = Wanted
  BY <1>1 DEF Wanted
<1>4. QED
  BY <1>1, <1>2, <1>3, ImgRefines

\* A pane of which no output is on the link.
LEMMA NoUnits ==
  ASSUME LinkInv, NEW p \in Panes, \A f \in Carried : ~(f.kind = "output" /\ f.pane = p)
  PROVE  OnLink(p) = <<>>
<1>1. PICK q : q = ImageQueue
  OBVIOUS
<1>2. q \in Seq(Frames) /\ \A f \in On(q) : ~(f.kind = "output" /\ f.pane = p)
  BY <1>1, QueueType
<1>3. UnitsOn(q, p) = <<>>
  BY <1>2, UnitsOnNone
<1>4. QED
  BY <1>1, <1>3, OnLinkIs

\* After a step: no frame of the pane, no unit of it.
LEMMA NoUnitsNext ==
  ASSUME ImageQueue' = <<>>, NEW p \in Panes
  PROVE  OnLink(p)' = <<>>
<1>1. <<>> \in Seq(Frames) /\ \A f \in On(<<>>) : ~(f.kind = "output" /\ f.pane = p)
  BY QueueEmpty
<1>2. UnitsOn(<<>>, p) = <<>>
  BY <1>1, UnitsOnNone
<1>3. QED
  BY <1>2, OnLinkIs

\* The link goes down with what is on it: that is output of panes whose stream
\* is not open, or is torn with it.
LEMMA DropRefines ==
  ASSUME LinkInv, LinkInv', StreamsWhole, SessionStep, UNCHANGED unsent, ImageQueue' = <<>>,
         \A p \in Panes : IsOpen(p) /\ IsOpen(p)' =>
           \A f \in Carried : ~(f.kind = "output" /\ f.pane = p)
  PROVE  StreamStep
<1>1. \A p \in Panes : IsOpen(p) /\ IsOpen(p)' => OnLink(p)' = OnLink(p) /\ unsent'[p] = unsent[p]
  BY NoUnits, NoUnitsNext
<1>2. QED
  BY <1>1, QuietRefines

\* An open pane with output on the link is one of those a cut tears.
LEMMA OpenOnLink ==
  ASSUME LinkInv, NEW p \in Panes, IsOpen(p), NEW f \in Carried, f.kind = "output", f.pane = p
  PROVE  p \in PanesOnLink
<1>1. Known(p)
  BY OutputIsKnown
<1>2. p \in Wanted /\ told[p] = "none"
  BY <1>1 DEF IsOpen, Known
<1>3. \E i \in DOMAIN link[Newest].toImage :
        link[Newest].toImage[i].kind = "output" /\ link[Newest].toImage[i].pane = p
  BY DEF Carried, On
<1>4. QED
  BY <1>2, <1>3 DEF PanesOnLink

\* The queue of a link that is cut.
LEMMA QueueCut ==
  ASSUME LinkInv, LinkInv',
         \/ link' = [link EXCEPT ![Newest].state = "down", ![Newest].toImage = <<>>]
         \/ link' = [link EXCEPT ![Newest].state = "down", ![Newest].toImage = <<>>,
                                 ![Newest].toSup = <<>>]
  PROVE  ImageQueue' = <<>>
<1>1. /\ link \in [1 .. LinkLimit -> LinkType] /\ Newest \in 1 .. LinkLimit
      /\ link[Newest].state # "none"
  BY LinkFacts
<1>2. /\ \A g \in 1 .. LinkLimit : link'[g].state = "none" <=> link[g].state = "none"
      /\ link'[Newest].toImage = <<>>
  <2>1. CASE link' = [link EXCEPT ![Newest].state = "down", ![Newest].toImage = <<>>]
    BY <1>1, <2>1 DEF LinkType
  <2>2. CASE link' = [link EXCEPT ![Newest].state = "down", ![Newest].toImage = <<>>,
                                  ![Newest].toSup = <<>>]
    BY <1>1, <2>2 DEF LinkType
  <2>3. QED
    BY <2>1, <2>2
<1>3. QED
  BY <1>2, QueueAt

\* The session's view of a step that leaves it alone but for torn panes.
LEMMA TornStep ==
  ASSUME LinkInv, UNCHANGED <<readerPc, taken, fed, told, live, spawning>>,
         UNCHANGED torn \/ torn' = torn \cup PanesOnLink,
         imagePc = "gone" => imagePc' = "gone"
  PROVE  SessionStep
<1>1. Wanted' = Wanted
  BY DEF Wanted
<1>2. torn \subseteq torn' /\ \A p \in torn' : p \in torn \/ told[p] = "none"
  BY DEF PanesOnLink
<1>3. QED
  BY <1>1, <1>2 DEF SessionStep, Known

\* A connect that fails.
LEMMA ConnectFailsRefines ==
  ASSUME LinkInv, LinkInv', StreamsWhole, ConnectFails
  PROVE  StreamStep
<1>1. /\ UNCHANGED <<readerPc, unsent, taken, fed, told, live, spawning>>
      /\ torn' = torn \cup PanesOnLink /\ imagePc # "gone"
      /\ link' = [link EXCEPT ![Newest].state = "down", ![Newest].toImage = <<>>]
  BY DEF ConnectFails, paneVars
<1>2. SessionStep /\ ImageQueue' = <<>>
  BY <1>1, TornStep, QueueCut
<1>3. \A p \in Panes : IsOpen(p) /\ IsOpen(p)' =>
        \A f \in Carried : ~(f.kind = "output" /\ f.pane = p)
  <2>1. \A p \in Panes : IsOpen(p)' => p \notin PanesOnLink
    BY <1>1 DEF IsOpen
  <2>2. QED
    BY <2>1, OpenOnLink
<1>4. QED
  BY <1>1, <1>2, <1>3, DropRefines

\* A link breaks: the panes with frames on it are torn.
LEMMA LinkBreaksRefines ==
  ASSUME LinkInv, LinkInv', StreamsWhole, LinkBreaks
  PROVE  StreamStep
<1>1. /\ UNCHANGED <<readerPc, unsent, taken, fed, told, live, spawning, imagePc>>
  BY DEF LinkBreaks, paneVars, imageVars
<1>2. CASE /\ link' = [link EXCEPT ![Newest].state = "down", ![Newest].toImage = <<>>,
                                   ![Newest].toSup = <<>>]
           /\ torn' = torn \cup PanesOnLink
  <2>1. SessionStep /\ ImageQueue' = <<>>
    BY <1>1, <1>2, TornStep, QueueCut
  <2>2. \A p \in Panes : IsOpen(p) /\ IsOpen(p)' =>
          \A f \in Carried : ~(f.kind = "output" /\ f.pane = p)
    <3>1. \A p \in Panes : IsOpen(p)' => p \notin PanesOnLink
      BY <1>2 DEF IsOpen
    <3>2. QED
      BY <3>1, OpenOnLink
  <2>3. QED
    BY <1>1, <2>1, <2>2, DropRefines
<1>3. CASE link' = [link EXCEPT ![Newest].state = "down"] /\ UNCHANGED torn
  <2>1. SessionStep
    BY <1>1, <1>3, TornStep
  <2>2. /\ link \in [1 .. LinkLimit -> LinkType] /\ Newest \in 1 .. LinkLimit
        /\ link[Newest].state # "none"
    BY LinkFacts
  <2>3. /\ \A g \in 1 .. LinkLimit : link'[g].state = "none" <=> link[g].state = "none"
        /\ link'[Newest].toImage = link[Newest].toImage
    BY <1>3, <2>2 DEF LinkType
  <2>4. QueueQuiet
    BY <2>3, QueueAt DEF QueueQuiet
  <2>5. QED
    BY <1>1, <2>1, <2>4, QueueUnits, QuietRefines
<1>4. QED
  BY <1>2, <1>3 DEF LinkBreaks

\* The next image starts: the output is held, so nothing goes down with the
\* link of this one.
LEMMA ExecImageRefines ==
  ASSUME LinkInv, LinkInv', StreamsWhole, ExecImage
  PROVE  StreamStep
<1>1. /\ UNCHANGED <<readerPc, unsent, taken, fed, told, live, spawning, torn>>
      /\ imagePc = "held" /\ ~isClosed
      /\ link' = [link EXCEPT ![Newest].state = "down", ![Newest].toImage = <<>>]
  BY DEF ExecImage, paneVars
<1>2. \A f \in Carried : f.kind # "output"
  BY <1>1 DEF LinkInv, SwapOK, Held
<1>3. SessionStep /\ ImageQueue' = <<>>
  BY <1>1, TornStep, QueueCut
<1>4. QED
  BY <1>1, <1>2, <1>3, DropRefines

\* The process is over, and with it every open stream.
LEMMA ImageGoesRefines ==
  ASSUME LinkInv, LinkInv', StreamsWhole, ImageGoes
  PROVE  StreamStep
<1>1. /\ UNCHANGED <<readerPc, unsent, taken, fed, told, torn>> /\ imagePc' = "gone"
      /\ link' = [link EXCEPT ![Newest].state = "down", ![Newest].toImage = <<>>]
      /\ live' = {} /\ spawning' = NoPane
  BY DEF ImageGoes, paneVars
<1>2. ImageQueue' = <<>> /\ \A p \in Panes : p \notin Wanted' /\ ~IsOpen(p)'
  BY <1>1, QueueCut, PaneAssumption DEF Wanted, IsOpen
<1>3. SessionStep
  BY <1>1, <1>2 DEF SessionStep, Known
<1>4. QED
  BY <1>1, <1>2, <1>3, DropRefines

\* A link is opened: nothing is on the last one, and nothing on this one.
LEMMA ConnectRefines ==
  ASSUME LinkInv, LinkInv', StreamsWhole, Connect
  PROVE  StreamStep
<1>1. /\ UNCHANGED <<readerPc, unsent, taken, fed, told, torn, live, spawning>>
      /\ imagePc = "connect"
  BY DEF Connect, paneVars, sessionVars
<1>2. ImageQueue' = <<>>
  BY ConnectStep DEF LinkInv, ImageQueue
<1>3. Carried = {}
  BY <1>1, QueueEmpty DEF LinkInv, LinksOK, Carried
<1>4. SessionStep
  BY <1>1, TornStep
<1>5. QED
  BY <1>1, <1>2, <1>3, <1>4, DropRefines
-----------------------------------------------------------------------------
(* Steps that move units *)

\* A number below m is its own remainder.
LEMMA ModSmall ==
  ASSUME NEW m \in Nat \ {0}, NEW x \in 0 .. (m - 1)
  PROVE  x % m = x
OBVIOUS

\* The numbers of the units are below the modulus.
LEMMA UnitsAreSmall ==
  /\ PrintLimit + 1 \in Nat \ {0}
  /\ \A x \in 0 .. PrintLimit : x % (PrintLimit + 1) = x
<1>1. PrintLimit \in Nat
  BY WindowAssumption
<1> DEFINE m == PrintLimit + 1
<1>2. m \in Nat \ {0} /\ m - 1 = PrintLimit
  BY <1>1
<1> HIDE DEF m
<1>3. \A x \in 0 .. PrintLimit : x % m = x
  BY <1>2, ModSmall
<1>4. QED
  BY <1>2, <1>3 DEF m

\* The units of an open pane: what is taken is added at the end.
LEMMA TakeRefines ==
  ASSUME LinkInv, LinkInv', StreamsWhole, StreamsWhole', NEW p \in Panes, NEW n \in Nat \ {0},
         IsOpen(p), IsOpen(p)', taken'[p] = taken[p] + n, fed'[p] = fed[p],
         \A r \in Panes : r # p => StreamSame(r)
  PROVE  [Stream!Next]_(Stream!vars)
<1>1. PICK a, b : a = fed[p] /\ b = taken[p]
  OBVIOUS
<1>2. a \in Nat /\ b \in Nat /\ b + n \in 0 .. PrintLimit /\ PrintLimit \in Nat
  <2>1. taken'[p] \in 0 .. PrintLimit
    BY DEF LinkInv, Shapes, TypeOK
  <2>2. QED
    BY <1>1, <2>1, PaneNumbers
<1>3. /\ PhaseOf[p] = "open" /\ NextOf[p] = b /\ FedOf[p] = a /\ UnfedOf[p] = Run(a, b) /\ a <= b
  BY <1>1, PhaseCases
<1>4. /\ PhaseOf'[p] = "open" /\ NextOf'[p] = b + n /\ FedOf'[p] = a /\ UnfedOf'[p] = Run(a, b + n)
  BY <1>1, PhaseCasesNext
<1>5. Run(a, b + n) = Run(a, b) \o [i \in 1 .. n |-> (b + i - 1) % (PrintLimit + 1)]
  <2>2a. PICK c : c = b + n
    OBVIOUS
  <2>1. c \in Nat /\ b <= c /\ c - b = n /\ a \in Nat /\ b \in Nat /\ a <= b
    BY <1>2, <1>3, <2>2a
  <2>2. \A i \in 1 .. n : (b + i - 1) % (PrintLimit + 1) = b + i - 1
    <3> TAKE i \in 1 .. n
    <3>1. b + i - 1 \in 0 .. PrintLimit
      BY <1>2
    <3>2. QED
      BY <3>1, UnitsAreSmall, Zenon
  <2>3. Run(b, c) = [i \in 1 .. n |-> (b + i - 1) % (PrintLimit + 1)]
    <3>1. Run(b, c) = [i \in 1 .. n |-> b + i - 1]
      BY <2>1 DEF Run
    <3> HIDE DEF Run
    <3>2. [i \in 1 .. n |-> b + i - 1] = [i \in 1 .. n |-> (b + i - 1) % (PrintLimit + 1)]
      BY <2>2, Zenon
    <3>3. QED
      BY <3>1, <3>2, Zenon
  <2>4. Run(a, b) \o Run(b, c) = Run(a, c)
    BY <2>1, RunJoined, Zenon
  <2>5. QED
    BY <2>2a, <2>3, <2>4, Zenon
<1>6. (b + n) % (PrintLimit + 1) = b + n
  BY <1>2, UnitsAreSmall, Zenon
<1>7. PhaseOf' = PhaseOf /\ FedOf' = FedOf
  BY <1>3, <1>4, StreamFunctions DEF StreamSame
<1>8. NextOf' = [NextOf EXCEPT ![p] = (NextOf[p] + n) % (PrintLimit + 1)]
  <2>1. NextOf'[p] = (NextOf[p] + n) % (PrintLimit + 1)
    BY <1>3, <1>4, <1>6, Zenon
  <2>2. \A r \in Panes : r # p => NextOf'[r] = NextOf[r]
    BY DEF StreamSame
  <2> DEFINE v == (NextOf[p] + n) % (PrintLimit + 1)
  <2> HIDE DEF v
  <2>3. NextOf' = [NextOf EXCEPT ![p] = v]
    BY <2>1, <2>2, StreamFunctions DEF v
  <2>4. QED
    BY <2>3 DEF v
<1>9. UnfedOf' = [UnfedOf EXCEPT ![p] = UnfedOf[p] \o
                     [i \in 1 .. n |-> (NextOf[p] + i - 1) % (PrintLimit + 1)]]
  <2> DEFINE v == UnfedOf[p] \o [i \in 1 .. n |-> (NextOf[p] + i - 1) % (PrintLimit + 1)]
  <2>1. UnfedOf'[p] = v
    BY <1>3, <1>4, <1>5, Zenon
  <2>2. \A r \in Panes : r # p => UnfedOf'[r] = UnfedOf[r]
    BY DEF StreamSame
  <2> HIDE DEF v
  <2>3. UnfedOf' = [UnfedOf EXCEPT ![p] = v]
    BY <2>1, <2>2, StreamFunctions
  <2>4. QED
    BY <2>3 DEF v
<1>10. Stream!Take(p, n)
  BY <1>3, <1>7, <1>8, <1>9, Zenon DEF Stream!Take, PhaseOf, NextOf, FedOf, UnfedOf
<1>11. n \in 1 .. PrintLimit + 1
  BY <1>2
<1>12. QED
  BY <1>10, <1>11, Zenon DEF Stream!Next

\* What is left of a run after its n oldest units.
LEMMA RunRest ==
  ASSUME NEW a \in Nat, NEW b \in Nat, NEW n \in Nat, a + n <= b
  PROVE  /\ Len(Run(a, b)) = b - a /\ \A i \in 1 .. n : Run(a, b)[i] = a + i - 1
         /\ SubSeq(Run(a, b), n + 1, Len(Run(a, b))) = Run(a + n, b)
<1> DEFINE s == Run(a, b)  t == Run(a + n, b)  u == SubSeq(s, n + 1, Len(s))
<1>1. s \in Units /\ Len(s) = b - a /\ \A i \in 1 .. b - a : s[i] = a + i - 1
  BY RunFacts
<1>2. t \in Units /\ Len(t) = b - (a + n) /\ \A i \in 1 .. b - (a + n) : t[i] = a + n + i - 1
  <2>1. a + n \in Nat
    OBVIOUS
  <2>2. QED
    BY <2>1, RunFacts
<1> HIDE DEF s, t
<1>3. /\ u \in Units /\ Len(u) = b - (a + n)
      /\ \A i \in 1 .. b - (a + n) : u[i] = s[n + i]
  <2>1. b - a \in Nat /\ n + 1 \in Nat /\ b - (a + n) \in Nat
    OBVIOUS
  <2>2. QED
    BY <1>1, <2>1 DEF Units
<1> HIDE DEF u
<1>4. \A i \in 1 .. b - (a + n) : u[i] = t[i]
  <2> TAKE i \in 1 .. b - (a + n)
  <2>1. n + i \in 1 .. b - a /\ a + (n + i) - 1 = a + n + i - 1
    OBVIOUS
  <2>2. QED
    BY <1>1, <1>2, <1>3, <2>1
<1>5. u = t
  BY <1>2, <1>3, <1>4, SameUnits
<1>6. \A i \in 1 .. n : i \in 1 .. b - a
  OBVIOUS
<1>7. QED
  BY <1>1, <1>5, <1>6 DEF s, t, u

\* The consumer takes the oldest units.
LEMMA FeedRefines ==
  ASSUME LinkInv, LinkInv', StreamsWhole, StreamsWhole', NEW p \in Panes, NEW n \in Nat \ {0},
         IsOpen(p), IsOpen(p)', taken'[p] = taken[p], fed'[p] = fed[p] + n, fed[p] + n <= taken[p],
         \A r \in Panes : r # p => StreamSame(r)
  PROVE  [Stream!Next]_(Stream!vars)
<1>1. PICK a, b : a = fed[p] /\ b = taken[p]
  OBVIOUS
<1>2. a \in Nat /\ b \in 0 .. PrintLimit /\ b \in Nat /\ PrintLimit \in Nat /\ a + n <= b
  BY <1>1, PaneNumbers
<1>3. /\ PhaseOf[p] = "open" /\ NextOf[p] = b /\ FedOf[p] = a /\ UnfedOf[p] = Run(a, b) /\ a <= b
  BY <1>1, PhaseCases
<1>4. /\ PhaseOf'[p] = "open" /\ NextOf'[p] = b /\ FedOf'[p] = a + n /\ UnfedOf'[p] = Run(a + n, b)
  BY <1>1, PhaseCasesNext
<1>5. /\ Len(Run(a, b)) = b - a /\ \A i \in 1 .. n : Run(a, b)[i] = a + i - 1
      /\ SubSeq(Run(a, b), n + 1, Len(Run(a, b))) = Run(a + n, b)
  BY <1>2, RunRest
<1>6. \A i \in 1 .. n : UnfedOf[p][i] = (FedOf[p] + i - 1) % (PrintLimit + 1)
  <2> TAKE i \in 1 .. n
  <2>1. a + i - 1 \in 0 .. PrintLimit
    BY <1>2
  <2>2. (a + i - 1) % (PrintLimit + 1) = a + i - 1
    BY <2>1, UnitsAreSmall, Zenon
  <2>3. QED
    BY <1>3, <1>5, <2>2, Zenon
<1>7. (a + n) % (PrintLimit + 1) = a + n
  <2>1. a + n \in 0 .. PrintLimit
    BY <1>2
  <2>2. QED
    BY <2>1, UnitsAreSmall, Zenon
<1>8. PhaseOf' = PhaseOf /\ NextOf' = NextOf
  BY <1>3, <1>4, StreamFunctions DEF StreamSame
<1>9. FedOf' = [FedOf EXCEPT ![p] = (FedOf[p] + n) % (PrintLimit + 1)]
  <2> DEFINE v == (FedOf[p] + n) % (PrintLimit + 1)
  <2>1. FedOf'[p] = v
    BY <1>3, <1>4, <1>7, Zenon
  <2>2. \A r \in Panes : r # p => FedOf'[r] = FedOf[r]
    BY DEF StreamSame
  <2> HIDE DEF v
  <2>3. FedOf' = [FedOf EXCEPT ![p] = v]
    BY <2>1, <2>2, StreamFunctions
  <2>4. QED
    BY <2>3 DEF v
<1>10. UnfedOf' = [UnfedOf EXCEPT ![p] = SubSeq(UnfedOf[p], n + 1, Len(UnfedOf[p]))]
  <2> DEFINE v == SubSeq(UnfedOf[p], n + 1, Len(UnfedOf[p]))
  <2>1. UnfedOf'[p] = v
    BY <1>3, <1>4, <1>5, Zenon
  <2>2. \A r \in Panes : r # p => UnfedOf'[r] = UnfedOf[r]
    BY DEF StreamSame
  <2> HIDE DEF v
  <2>3. UnfedOf' = [UnfedOf EXCEPT ![p] = v]
    BY <2>1, <2>2, StreamFunctions
  <2>4. QED
    BY <2>3 DEF v
<1>11. Stream!Feed(p, n)
  BY <1>3, <1>6, <1>8, <1>9, <1>10, Zenon
     DEF Stream!Feed, Stream!FeedUnits, PhaseOf, NextOf, FedOf, UnfedOf
<1>12. n \in 1 .. Len(UnfedOf[p])
  <2>1. n \in 1 .. b - a
    BY <1>2
  <2>2. QED
    BY <1>3, <1>5, <2>1, Zenon
<1>13. QED
  BY <1>11, <1>12, Zenon DEF Stream!Next, UnfedOf

\* The consumer took every unit, and takes the exit.
LEMMA ExitRefines ==
  ASSUME LinkInv, LinkInv', StreamsWhole, StreamsWhole', NEW p \in Panes,
         IsOpen(p), HasExited(p)', fed[p] = taken[p], UNCHANGED fed,
         \A r \in Panes : r # p => StreamSame(r)
  PROVE  [Stream!Next]_(Stream!vars)
<1>1. PICK a : a = fed[p]
  OBVIOUS
<1>2. a \in 0 .. PrintLimit /\ a \in Nat
  BY <1>1, PaneNumbers
<1>3. /\ PhaseOf[p] = "open" /\ NextOf[p] = a /\ FedOf[p] = a /\ UnfedOf[p] = Run(a, a)
  BY <1>1, PhaseCases
<1>4. /\ PhaseOf'[p] = "exited" /\ NextOf'[p] = a /\ FedOf'[p] = a /\ UnfedOf'[p] = <<>>
  BY <1>1, PhaseCasesNext
<1>5. UnfedOf[p] = <<>>
  <2>1. Run(a, a) \in Units /\ Len(Run(a, a)) = 0
    BY <1>2, RunFacts
  <2>2. QED
    BY <1>3, <2>1 DEF Units
<1>6. Len(UnfedOf[p]) = 0
  BY <1>5
<1>7. \A i \in 1 .. Len(UnfedOf[p]) : UnfedOf[p][i] = (FedOf[p] + i - 1) % (PrintLimit + 1)
  BY <1>6
<1>8. (FedOf[p] + Len(UnfedOf[p])) % (PrintLimit + 1) = a
  <2>1. FedOf[p] + Len(UnfedOf[p]) = a
    BY <1>2, <1>3, <1>6
  <2>2. QED
    BY <1>2, <2>1, UnitsAreSmall, Zenon
<1>9. SubSeq(UnfedOf[p], Len(UnfedOf[p]) + 1, Len(UnfedOf[p])) = <<>>
  BY <1>5, <1>6
<1>10. NextOf' = NextOf /\ PhaseOf' = [PhaseOf EXCEPT ![p] = "exited"]
  BY <1>3, <1>4, StreamFunctions DEF StreamSame
<1>11. FedOf' = [FedOf EXCEPT ![p] = (FedOf[p] + Len(UnfedOf[p])) % (PrintLimit + 1)]
  <2> DEFINE v == (FedOf[p] + Len(UnfedOf[p])) % (PrintLimit + 1)
  <2>1. FedOf'[p] = v
    BY <1>4, <1>8, Zenon
  <2>2. \A r \in Panes : r # p => FedOf'[r] = FedOf[r]
    BY DEF StreamSame
  <2> HIDE DEF v
  <2>3. FedOf' = [FedOf EXCEPT ![p] = v]
    BY <2>1, <2>2, StreamFunctions
  <2>4. QED
    BY <2>3 DEF v
<1>12. UnfedOf' = [UnfedOf EXCEPT ![p] =
                     SubSeq(UnfedOf[p], Len(UnfedOf[p]) + 1, Len(UnfedOf[p]))]
  <2> DEFINE v == SubSeq(UnfedOf[p], Len(UnfedOf[p]) + 1, Len(UnfedOf[p]))
  <2>1. UnfedOf'[p] = v
    BY <1>4, <1>9, Zenon
  <2>2. \A r \in Panes : r # p => UnfedOf'[r] = UnfedOf[r]
    BY DEF StreamSame
  <2> HIDE DEF v
  <2>3. UnfedOf' = [UnfedOf EXCEPT ![p] = v]
    BY <2>1, <2>2, StreamFunctions
  <2>4. QED
    BY <2>3 DEF v
<1>13. Stream!Exit(p)
  BY <1>3, <1>7, <1>10, <1>11, <1>12, Zenon
     DEF Stream!Exit, Stream!FeedUnits, PhaseOf, NextOf, FedOf, UnfedOf
<1>14. QED
  BY <1>13, Zenon DEF Stream!Next
\* A step that leaves the session alone leaves every other pane alone.
LEMMA OthersStay ==
  ASSUME LinkInv, LinkInv', StreamsWhole, StreamsWhole', NEW p \in Panes,
         UNCHANGED <<imagePc, live, spawning, torn>>,
         \A r \in Panes : r # p =>
           /\ told'[r] = told[r] /\ fed'[r] = fed[r] /\ taken'[r] = taken[r]
           /\ readerPc'[r] = readerPc[r]
  PROVE  \A r \in Panes : r # p => StreamSame(r)
<1> SUFFICES ASSUME NEW r \in Panes, r # p PROVE StreamSame(r)
  OBVIOUS
<1>1. Wanted' = Wanted
  BY DEF Wanted
<1>2. (IsOpen(r)' <=> IsOpen(r)) /\ (HasExited(r)' <=> HasExited(r))
  BY <1>1 DEF IsOpen, HasExited
<1>3. QED
  BY <1>2, PaneStays

\* The other panes' streams stay whole too.
LEMMA OthersWhole ==
  ASSUME StreamsWhole, NEW p \in Panes, UNCHANGED <<imagePc, live, spawning, torn>>,
         \A r \in Panes : r # p =>
           /\ told'[r] = told[r] /\ fed'[r] = fed[r] /\ taken'[r] = taken[r]
           /\ readerPc'[r] = readerPc[r] /\ unsent'[r] = unsent[r] /\ OnLink(r)' = OnLink(r),
         IsOpen(p)' => Whole(p)'
  PROVE  StreamsWhole'
<1>1. Wanted' = Wanted
  BY DEF Wanted
<1>2. ASSUME NEW r \in Panes, r # p, IsOpen(r)' PROVE Whole(r)'
  <2>1. IsOpen(r)
    BY <1>1, <1>2 DEF IsOpen
  <2>2. Whole(r)
    BY <2>1 DEF StreamsWhole
  <2>3. QED
    BY <1>2, <2>2 DEF Whole
<1>3. QED
  BY <1>2 DEF StreamsWhole

\* A reader brings a chunk.
LEMMA ReaderReadsRefines ==
  ASSUME LinkInv, LinkInv', StreamsWhole, NEW p \in Panes, ReaderReads(p)
  PROVE  StreamStep
<1>1. PICK n \in ChunkSizes : /\ taken' = [taken EXCEPT ![p] = @ + n]
                              /\ unsent' = [unsent EXCEPT ![p] = n]
  BY DEF ReaderReads
<1>2. /\ UNCHANGED <<imagePc, live, spawning, fed, told, torn, link>> /\ readerPc[p] = "read"
      /\ readerPc' = [readerPc EXCEPT ![p] = "send"]
  BY DEF ReaderReads, imageVars, sessionVars
<1>3. /\ readerPc \in [Panes -> ReaderPcs] /\ unsent \in [Panes -> 0 .. PrintLimit]
      /\ taken \in [Panes -> 0 .. PrintLimit] /\ n \in Nat \ {0} /\ unsent[p] = 0
      /\ PrintLimit \in Nat
  <2>1. /\ readerPc \in [Panes -> ReaderPcs] /\ unsent \in [Panes -> 0 .. PrintLimit]
        /\ taken \in [Panes -> 0 .. PrintLimit] /\ PaneOK(p)
    BY SupTyped DEF LinkInv, PaneTypes
  <2>2. PrintLimit \in Nat /\ n \in Nat \ {0}
    BY WindowAssumption
  <2>3. unsent[p] = 0
    BY <1>2, <2>1, <2>2 DEF PaneOK
  <2>4. QED
    BY <2>1, <2>2, <2>3
<1>4. /\ taken'[p] = taken[p] + n /\ unsent'[p] = n /\ readerPc'[p] = "send" /\ fed'[p] = fed[p]
      /\ \A r \in Panes : r # p => /\ taken'[r] = taken[r] /\ unsent'[r] = unsent[r]
                                   /\ readerPc'[r] = readerPc[r]
  BY <1>1, <1>2, <1>3
<1>5. \A r \in Panes : OnLink(r)' = OnLink(r)
  BY <1>2, QueueStays, QueueUnits
<1>6. (IsOpen(p)' <=> IsOpen(p)) /\ (HasExited(p)' <=> HasExited(p))
  BY <1>2, <1>4 DEF IsOpen, HasExited, Wanted
<1>7. IsOpen(p)' => Whole(p)'
  <2>1. taken'[p] - unsent'[p] = taken[p] - unsent[p]
    BY <1>3, <1>4
  <2>2. IsOpen(p)' => Whole(p)
    BY <1>6 DEF StreamsWhole
  <2>3. QED
    BY <1>4, <1>5, <2>1, <2>2 DEF Whole
<1>8. StreamsWhole'
  BY <1>2, <1>4, <1>5, <1>7, OthersWhole
<1>9. \A r \in Panes : r # p => StreamSame(r)
  BY <1>2, <1>4, <1>8, OthersStay
<1>10. CASE IsOpen(p)
  BY <1>3, <1>4, <1>6, <1>8, <1>9, <1>10, TakeRefines DEF StreamStep
<1>11. CASE ~IsOpen(p)
  <2>1. StreamSame(p)
    BY <1>4, <1>6, <1>8, <1>11, PaneStays
  <2>2. QED
    BY <1>8, <1>9, <2>1, StreamStays DEF StreamStep
<1>12. QED
  BY <1>10, <1>11

\* A part of a chunk goes out: what the reader held is on the link.
LEMMA WriteOutputPartRefines ==
  ASSUME LinkInv, LinkInv', StreamsWhole, NEW p \in Panes, WriteOutputPart(p)
  PROVE  StreamStep
<1>1. PICK n, f : /\ n = PartCount(p) /\ f = Output(p, taken[p] - unsent[p], n)
  OBVIOUS
<1>2. /\ UNCHANGED <<imagePc, live, spawning, fed, told, torn, taken>> /\ readerPc[p] = "send"
      /\ n > 0 /\ link[generation].state = "up" /\ link' = Sent(f)
      /\ unsent' = [unsent EXCEPT ![p] = @ - n]
      /\ readerPc' = [readerPc EXCEPT ![p] = IF unsent[p] = n THEN "read" ELSE "send"]
  BY <1>1 DEF WriteOutputPart, imageVars, sessionVars
<1>3. /\ readerPc \in [Panes -> ReaderPcs] /\ unsent \in [Panes -> 0 .. PrintLimit]
      /\ credit[p] \in Nat
  BY SupTyped, WindowAssumption DEF LinkInv, PaneTypes, SinkTypes
<1>4. /\ taken[p] - unsent[p] \in Nat /\ taken[p] \in Nat /\ unsent[p] \in Nat /\ fed[p] \in Nat
  BY PaneNumbers
<1>5. n \in Nat \ {0} /\ n <= unsent[p]
  BY <1>1, <1>2, <1>3, <1>4 DEF PartCount, Least
<1>6. /\ unsent'[p] = unsent[p] - n /\ readerPc'[p] # "none"
      /\ \A r \in Panes : r # p => unsent'[r] = unsent[r] /\ readerPc'[r] = readerPc[r]
  BY <1>2, <1>3
<1>7. /\ f.kind = "output" /\ f.pane = p /\ f.from = taken[p] - unsent[p] /\ f.count = n
  BY <1>1 DEF Output
<1>8. ImageQueue' = Append(ImageQueue, f)
  BY <1>2, QueueSent
<1>9. \A r \in Panes : r # p => OnLink(r)' = OnLink(r)
  BY <1>7, <1>8, UnitsWritten
<1>10. IsOpen(p)' => Whole(p)'
  <2> SUFFICES ASSUME IsOpen(p)' PROVE Whole(p)'
    OBVIOUS
  <2>1. IsOpen(p)
    BY <1>2 DEF IsOpen, Wanted
  <2>2. PICK a, b, c : a = fed[p] /\ b = taken[p] - unsent[p] /\ c = b + n
    OBVIOUS
  <2>3. a \in Nat /\ b \in Nat /\ c \in Nat /\ b <= c /\ a <= b /\ OnLink(p) = Run(a, b)
    BY <1>4, <1>5, <2>1, <2>2 DEF StreamsWhole, Whole
  <2>4. f \in Frames /\ OnLink(p)' = OnLink(p) \o UnitsOf(f, p)
    BY <1>8, UnitsWritten
  <2>5. UnitsOf(f, p) = Run(b, c)
    BY <1>7, <2>2, <2>4, UnitsOfFrame
  <2>6. OnLink(p)' = Run(a, b) \o Run(b, c)
    BY <2>3, <2>4, <2>5, Zenon
  <2>7. OnLink(p)' = Run(a, c)
    BY <2>3, <2>6, RunJoined, Zenon
  <2>8. taken'[p] - unsent'[p] = c /\ fed'[p] = a /\ a <= c
    BY <1>2, <1>4, <1>5, <1>6, <2>2, <2>3
  <2>9. QED
    BY <2>7, <2>8 DEF Whole
<1>11. StreamsWhole'
  BY <1>2, <1>6, <1>9, <1>10, OthersWhole
<1>12. \A r \in Panes : Known(r) => Known(r)'
  BY <1>6 DEF Known
<1>13. Wanted' = Wanted
  BY <1>2 DEF Wanted
<1>14. SessionStep
  BY <1>2, <1>12, <1>13 DEF SessionStep
<1>15. PhasesKept
  BY <1>14, SessionKeeps
<1>16. QED
  BY <1>2, <1>11, <1>15, LeaveRefines DEF StreamStep

\* The link reader takes a frame of output.
LEMMA ReadOutputRefines ==
  ASSUME LinkInv, LinkInv', StreamsWhole, ReadOutput
  PROVE  StreamStep
<1>1. PICK f, p : f = Frame /\ p = f.pane
  OBVIOUS
<1>2. /\ UNCHANGED <<readerPc, unsent, taken, imagePc, live, spawning, told, torn>>
      /\ imagePc # "gone" /\ link[Newest].toImage # <<>> /\ f.kind = "output" /\ link' = Read
      /\ \/ (p \in rejected \/ p \notin Wanted) /\ UNCHANGED fed
         \/ p \notin rejected /\ p \in Wanted /\ fed' = [fed EXCEPT ![p] = f.from + f.count]
  BY <1>1 DEF ReadOutput, HasFrame, paneVars, imageVars
<1>3. ImageQueue # <<>> /\ Head(ImageQueue) = f /\ ImageQueue' = Tail(ImageQueue)
  BY <1>1, <1>2, QueueRead
<1>4. f \in Carried
  BY <1>1, <1>2, ReadLinkStep DEF LinkInv
<1>5. /\ p \in Panes /\ Known(p) /\ f.from \in Nat /\ f.count \in Nat \ {0} /\ told[p] # "real"
  BY <1>1, <1>2, <1>4, OutputIsKnown DEF LinkInv, EndsOK
<1>6. PICK n : n = f.count
  OBVIOUS
<1>7. /\ \A r \in Panes : r # p => OnLink(r)' = OnLink(r)
      /\ f \in Frames /\ OnLink(p) = UnitsOf(f, p) \o OnLink(p)' /\ OnLink(p)' \in Units
  BY <1>1, <1>3, <1>5, UnitsRead
<1>8. Wanted' = Wanted /\ (IsOpen(p)' <=> IsOpen(p)) /\ (HasExited(p)' <=> HasExited(p))
  BY <1>2 DEF Wanted, IsOpen, HasExited
<1>9. fed \in [Panes -> 0 .. PrintLimit]
  BY DEF LinkInv, Shapes, TypeOK
<1>10. \A r \in Panes : r # p => fed'[r] = fed[r]
  BY <1>2, <1>9
<1>11. CASE ~IsOpen(p)
  <2>1. StreamsWhole'
    BY <1>2, <1>5, <1>7, <1>8, <1>10, <1>11, OthersWhole
  <2>2. \A r \in Panes : r # p => StreamSame(r)
    BY <1>2, <1>5, <1>10, <2>1, OthersStay
  <2>3. ~HasExited(p)
    BY <1>5 DEF HasExited
  <2>4. StreamSame(p)
    BY <1>5, <1>8, <1>11, <2>1, <2>3, PaneStays
  <2>5. QED
    BY <2>1, <2>2, <2>4, StreamStays DEF StreamStep
<1>12. CASE IsOpen(p)
  <2>1. p \in Wanted /\ p \notin rejected
    BY <1>5, <1>12 DEF IsOpen, Known, LinkInv, ImageOK
  <2>2. PICK a, c, x : a = fed[p] /\ c = taken[p] - unsent[p] /\ x = f.from
    OBVIOUS
  <2>2a. OnLink(p) = Run(a, c) /\ a <= c
    BY <1>5, <1>12, <2>2 DEF StreamsWhole, Whole
  <2>3. a \in Nat /\ c \in Nat /\ a <= c /\ x \in Nat /\ n \in Nat \ {0}
    BY <1>5, <1>6, <2>2a, <2>2, PaneNumbers
  <2>4. UnitsOf(f, p) = Run(x, x + n)
    BY <1>1, <1>2, <1>5, <1>6, <1>7, <2>2, UnitsOfFrame
  <2>5. PICK t \in Units : t = OnLink(p)'
    BY <1>7
  <2>6. Run(a, c) = Run(x, x + n) \o t /\ t \in Units
    BY <1>7, <2>2a, <2>4, <2>5, Zenon
  <2>7. x = a /\ a + n <= c /\ t = Run(a + n, c)
    <3>1. PICK b : b = x + n
      OBVIOUS
    <3>2. SplitsOff(a, c, x, b, t)
      BY <2>3, <2>6, <3>1 DEF SplitsOff
    <3>3. x = a /\ b <= c /\ t = Run(b, c)
      BY <3>2, RunSplit
    <3>4. QED
      BY <3>1, <3>3
  <2>8. fed'[p] = a + n
    BY <1>2, <1>5, <1>6, <1>9, <2>1, <2>2, <2>7
  <2>9. taken'[p] - unsent'[p] = c
    BY <1>2, <2>2
  <2>10. Whole(p)'
    BY <2>5, <2>7, <2>8, <2>9 DEF Whole
  <2>11. StreamsWhole'
    BY <1>2, <1>5, <1>7, <1>10, <2>10, OthersWhole
  <2>12. \A r \in Panes : r # p => StreamSame(r)
    BY <1>2, <1>5, <1>10, <2>11, OthersStay
  <2>13. fed'[p] = fed[p] + n /\ fed[p] + n <= taken[p] /\ taken'[p] = taken[p]
    <3>1. c <= taken[p] /\ taken[p] \in Nat
      BY <1>5, <2>2, PaneNumbers
    <3>2. QED
      BY <1>2, <2>2, <2>3, <2>7, <2>8, <3>1
  <2>14. [Stream!Next]_(Stream!vars)
    BY <1>5, <1>8, <1>12, <2>3, <2>11, <2>12, <2>13, FeedRefines
  <2>15. QED
    BY <2>11, <2>14 DEF StreamStep
<1>13. QED
  BY <1>11, <1>12
\* The link reader takes an exit: everything before it was taken.
LEMMA ReadExitedRefines ==
  ASSUME LinkInv, LinkInv', StreamsWhole, ReadExited
  PROVE  StreamStep
<1>1. PICK f, p : f = Frame /\ p = f.pane
  OBVIOUS
<1>2. /\ UNCHANGED <<readerPc, unsent, taken, imagePc, live, spawning, fed, torn>>
      /\ imagePc # "gone" /\ link[Newest].toImage # <<>> /\ f.kind = "exited" /\ link' = Read
      /\ \/ UNCHANGED told
         \/ told' = Told({p} \ exited, "real")
  BY <1>1 DEF ReadExited, HasFrame, paneVars, imageVars
<1>3. /\ f \in Carried /\ f \in Frames /\ Carried' \subseteq Carried
      /\ \A h \in Carried' : CarriedBefore(f, h)
      /\ \A h \in Carried : h = f \/ h \in Carried'
  BY <1>1, <1>2, ReadLinkStep DEF LinkInv, ImgFewer
<1>4. p \in Panes /\ readerPc[p] = "ended"
  BY <1>1, <1>2, <1>3 DEF LinkInv, FramesOK, FrameOK, Frames, Outputs, Exits, Answers
<1>5. QueueQuiet
  BY <1>1, <1>2, QueueRead
<1>6. \A r \in Panes : OnLink(r)' = OnLink(r)
  BY <1>5, QueueUnits
<1>7. Wanted' = Wanted
  BY <1>2 DEF Wanted
<1>8. told \in [Panes -> {"none", "real", "lost"}]
  BY DEF LinkInv, Shapes
<1>9. CASE UNCHANGED told
  BY <1>2, <1>5, <1>7, <1>9, ImgRefines
<1>10. CASE told' # told
  <2>1. told' = Told({p} \ exited, "real")
    BY <1>2, <1>10
  <2>2. \A r \in Panes : told'[r] = IF r \in ({p} \ exited) \cap Wanted /\ told[r] = "none"
                                    THEN "real" ELSE told[r]
    BY <2>1 DEF Told
  <2>3. told' \in [Panes -> {"none", "real", "lost"}]
    BY DEF LinkInv, Shapes
  <2>4. \A r \in Panes : r # p => told'[r] = told[r]
    BY <2>2
  <2>5. told[p] = "none" /\ told'[p] = "real" /\ p \in Wanted
    BY <1>4, <1>8, <1>10, <2>2, <2>3
  <2>6. ~IsOpen(p)'
    BY <2>5 DEF IsOpen
  <2>7. StreamsWhole'
    BY <1>2, <1>4, <1>6, <2>4, <2>6, OthersWhole
  <2>8. \A r \in Panes : r # p => StreamSame(r)
    BY <1>2, <1>4, <2>4, <2>7, OthersStay
  <2>9. CASE p \in torn
    <3>1. ~IsOpen(p) /\ ~HasExited(p) /\ ~HasExited(p)'
      BY <1>2, <2>9 DEF IsOpen, HasExited
    <3>2. StreamSame(p)
      BY <1>4, <2>6, <2>7, <3>1, PaneStays
    <3>3. QED
      BY <2>7, <2>8, <3>2, StreamStays DEF StreamStep
  <2>10. CASE p \notin torn
    <3>1. IsOpen(p) /\ HasExited(p)'
      BY <1>2, <2>5, <2>10 DEF IsOpen, HasExited
    <3>2. \A h \in Carried : ~(h.kind = "output" /\ h.pane = p)
      <4>1. \A h \in Carried' : FollowsOK(f, h)
        BY <1>3 DEF LinkInv, FramesOK
      <4>2. QED
        BY <1>1, <1>2, <1>3, <4>1 DEF FollowsOK
    <3>3. OnLink(p) = <<>>
      BY <1>4, <3>2, NoUnits
    <3>4. PICK a, b : a = fed[p] /\ b = taken[p] - unsent[p]
      OBVIOUS
    <3>5. a <= b /\ Run(a, b) = <<>> /\ a \in Nat /\ b \in Nat
      BY <1>4, <3>1, <3>3, <3>4, PaneNumbers DEF StreamsWhole, Whole
    <3>6. a = b
      <4>1. Len(Run(a, b)) = b - a /\ Len(<<>>) = 0
        BY <3>5, RunFacts
      <4>2. QED
        BY <3>5, <4>1
    <3>7. unsent[p] = 0
      <4>1. PaneOK(p) /\ unsent[p] \in Nat
        BY <1>4, PaneNumbers DEF LinkInv
      <4>2. QED
        BY <1>4, <4>1 DEF PaneOK
    <3>8. fed[p] = taken[p]
      BY <1>4, <3>4, <3>6, <3>7, PaneNumbers
    <3>9. [Stream!Next]_(Stream!vars)
      BY <1>2, <1>4, <2>7, <2>8, <3>1, <3>8, ExitRefines
    <3>10. QED
      BY <2>7, <3>9 DEF StreamStep
  <2>11. QED
    BY <2>9, <2>10
<1>11. QED
  BY <1>9, <1>10

\* At the start every pane's stream is open and empty.
LEMMA StreamInitRefines == ASSUME Init PROVE StreamsWhole /\ Stream!Init
<1>1. LinkInv
  BY InitInv
<1>2. \A p \in Panes : /\ taken[p] = 0 /\ unsent[p] = 0 /\ fed[p] = 0 /\ told[p] = "none"
                       /\ readerPc[p] = "none" /\ p \notin torn /\ imagePc # "gone"
  BY DEF Init
<1>3. \A f \in Carried : f.kind # "output"
  <2>1. \A f \in Carried : f.kind = "output" => f.pane \in Panes /\ Known(f.pane)
    BY <1>1, OutputIsKnown
  <2>2. QED
    BY <1>2, <2>1 DEF Known
<1>4. \A p \in Panes : OnLink(p) = <<>>
  BY <1>1, <1>3, NoUnits
<1>5. Run(0, 0) = <<>>
  <2>1. Run(0, 0) \in Units /\ Len(Run(0, 0)) = 0
    BY RunFacts
  <2>2. QED
    BY <2>1 DEF Units
<1>6. \A p \in Panes : Whole(p)
  <2> TAKE p \in Panes
  <2>1. taken[p] - unsent[p] = 0 /\ fed[p] = 0 /\ OnLink(p) = <<>>
    BY <1>2, <1>4
  <2>2. QED
    BY <1>5, <2>1 DEF Whole
<1>7. StreamsWhole
  BY <1>6 DEF StreamsWhole
<1>8. \A p \in Panes : IsOpen(p)
  BY <1>2 DEF IsOpen
<1>9. \A p \in Panes : /\ PhaseOf[p] = "open" /\ NextOf[p] = 0 /\ FedOf[p] = 0 /\ UnfedOf[p] = <<>>
  <2> TAKE p \in Panes
  <2>1. /\ PhaseOf[p] = "open" /\ NextOf[p] = taken[p] /\ FedOf[p] = fed[p]
        /\ UnfedOf[p] = Run(fed[p], taken[p])
    BY <1>1, <1>7, <1>8, PhaseCases
  <2>2. QED
    BY <1>2, <1>5, <2>1
<1>10. /\ PhaseOf = [p \in Panes |-> "open"] /\ NextOf = [p \in Panes |-> 0]
       /\ FedOf = [p \in Panes |-> 0] /\ UnfedOf = [p \in Panes |-> <<>>]
  BY <1>9, StreamFunctions
<1>11. Stream!Init
  BY <1>10, Zenon DEF Stream!Init, PhaseOf, NextOf, FedOf, UnfedOf
<1>12. QED
  BY <1>7, <1>11

\* A step that changes nothing.
LEMMA StutterRefines ==
  ASSUME LinkInv, LinkInv', StreamsWhole, UNCHANGED vars
  PROVE  StreamStep
<1>1. UNCHANGED <<imagePc, live, spawning, fed, told, torn, unsent, taken, readerPc, link>>
  BY DEF vars, paneVars, imageVars, sessionVars
<1>2. QED
  BY <1>1, QueueStays, SupRefines DEF Known

\* Every step keeps the streams whole, and is a step of the abstract stream.
LEMMA StepRefines ==
  ASSUME LinkInv, LinkInv', StreamsWhole, [Next]_vars
  PROVE  StreamStep
<1>1. ASSUME NEW p \in Panes, PaneStep(p) PROVE StreamStep
  BY <1>1, PaneQuiet, ReaderReadsRefines, OutputGivesUpRefines, WriteOutputPartRefines DEF PaneStep
<1>2. ASSUME SupervisorStep PROVE StreamStep
  BY <1>2, LoopQuiet, SupervisorSilent, SupervisorAnswers DEF SupervisorStep
<1>3. ASSUME ReaderStep PROVE StreamStep
  BY <1>3, ReadOutputRefines, ReadExitedRefines, ReadAnswerRefines, ImageSilent DEF ReaderStep
<1>4. ASSUME ImageStep PROVE StreamStep
  BY <1>4, ConnectRefines, ImageSilent, ImageAsks, ImageGoesRefines
     DEF ImageStep, ApplyExit, SessionEnded
<1>5. ASSUME Outside PROVE StreamStep
  BY <1>5, PaneQuiet, ImageAsks, ImageSilent, ExecImageRefines, ConnectFailsRefines, ImageGoesRefines,
     LinkBreaksRefines DEF Outside, ClosePane, ImageDies
<1>6. QED
  BY <1>1, <1>2, <1>3, <1>4, <1>5, StutterRefines DEF Next

\* What a pane prints reaches the session once and in order and its exit once
\* and after it (`send_output`, `write_output_part` and `send_event` of the
\* supervisor, `read_supervisor_frames` of the image), over every link and every
\* image swap, until frames of it go down with a link that breaks.
THEOREM OutputStreamImplemented == Spec => ImplementsOutputStream
<1>1. Init => StreamsWhole /\ Stream!Init
  BY StreamInitRefines
<1>2. LinkInv /\ LinkInv' /\ StreamsWhole /\ [Next]_vars => StreamsWhole' /\ [Stream!Next]_(Stream!vars)
  BY StepRefines DEF StreamStep
<1>3. QED
  BY <1>1, <1>2, LinkInvariant, PTL DEF Spec, ImplementsOutputStream, Stream!Spec
=============================================================================
