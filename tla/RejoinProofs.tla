---------------------------- MODULE RejoinProofs ----------------------------
(***************************************************************************)
(* Proofs about Rejoin, for any viewers, connections, swaps and limits:    *)
(* records, tokens and filed views agree, a viewer that comes back finds   *)
(* the view it left, and no old timer closes a grace window.               *)
(***************************************************************************)
EXTENDS Rejoin, FiniteSetTheorems, WellFoundedInduction, TLAPS

-----------------------------------------------------------------------------
(* Numbers *)

NatLess == {ss \in Nat \X Nat : ss[1] < ss[2]}

\* A set of naturals has a least element: what the inductions below rest on.
LEMMA NatLeast ==
  ASSUME NEW T \in SUBSET Nat, T # {}
  PROVE  \E m \in T : \A k \in T : m <= k
<1>1. IsWellFoundedOn(NatLess, Nat)
  BY NatLessThanWellFounded DEF OpToRel, NatLess
<1>2. PICK x \in T : \A y \in T : <<y, x>> \notin NatLess
  BY <1>1, WFMin
<1>3. \A y \in T : ~(y < x)
  <2> TAKE y \in T
  <2>1. <<y, x>> \in Nat \X Nat /\ <<y, x>>[1] = y /\ <<y, x>>[2] = x
    OBVIOUS
  <2>2. QED
    BY <1>2, <2>1, Zenon DEF NatLess
<1>4. QED
  BY <1>3

\* Induction up to a bound, over the set of the numbers that have a property.
LEMMA IntervalInduction ==
  ASSUME NEW b \in Nat, NEW Good, 0 \in Good, \A n \in 1 .. b : n - 1 \in Good => n \in Good
  PROVE  \A n \in 0 .. b : n \in Good
<1> DEFINE Bad == {n \in 0 .. b : n \notin Good}
<1>1. SUFFICES ASSUME Bad # {} PROVE FALSE
  OBVIOUS
<1>2. PICK n \in Bad : \A k \in Bad : n <= k
  <2>1. Bad \in SUBSET Nat
    OBVIOUS
  <2> HIDE DEF Bad
  <2>2. QED
    BY <1>1, <2>1, NatLeast
<1>3. n \in 1 .. b /\ n - 1 \in 0 .. b /\ n - 1 \notin Bad
  BY <1>2
<1>4. QED
  BY <1>2, <1>3

\* A bounded set of naturals has a greatest element.
LEMMA NatGreatest ==
  ASSUME NEW T \in SUBSET Nat, T # {}, NEW b \in Nat, \A k \in T : k <= b
  PROVE  \E m \in T : \A k \in T : k <= m
<1> DEFINE D == {b - k : k \in T}
<1>1. D \in SUBSET Nat /\ D # {}
  <2>1. \A k \in T : b - k \in Nat
    OBVIOUS
  <2>2. QED
    BY <2>1
<1>2. PICK d \in D : \A e \in D : d <= e
  BY <1>1, NatLeast
<1>3. PICK m \in T : d = b - m
  OBVIOUS
<1>4. \A k \in T : d <= b - k
  BY <1>2
<1>5. QED
  BY <1>3, <1>4

-----------------------------------------------------------------------------
(* The inductive invariant *)

ConnType ==
  [viewer : Viewers \cup {None}, state : ConnStates, link : Links, claim : Numbers \cup {None},
   token : Numbers \cup {None}, client : Numbers \cup {None}, isOfOldSocket : BOOLEAN,
   told : BOOLEAN]
ViewerType ==
  [state : ViewerStates, client : Numbers \cup {None}, token : Numbers \cup {None},
   conn : Numbers \cup {None}, isTokenNew : BOOLEAN, looked : BOOLEAN]
ClientType == [view : Views, stream : Numbers \cup {None}]
RecordType == [token : Numbers, view : Views]
Events ==
  [kind : {"attach"}, conn : Numbers]
    \cup [kind : {"detached"}, client : Numbers, streamed : BOOLEAN, returning : BOOLEAN]
    \cup [kind : {"drop"}, id : Nat]

\* The components have their types, and there are at most so many connections.
Shapes ==
  /\ conns \in Seq(ConnType) /\ Len(conns) <= MaxConnections
  /\ viewers \in [Viewers -> ViewerType]
  /\ DOMAIN clients \subseteq Numbers /\ \A c \in DOMAIN clients : clients[c] \in ClientType
  /\ DOMAIN hashes \subseteq Numbers /\ \A c \in DOMAIN hashes : hashes[c] \in Numbers
  /\ filed \in Seq(RecordType) /\ Len(filed) <= RecordLimit
  /\ inbox \in Seq(Events)
  /\ phase \in Phases /\ isQuit \in BOOLEAN

\* A token the session accepted: its connection asked, and was answered.
IsMinted(k) == k \in DOMAIN conns /\ conns[k].state # "asking"

\* A token its viewer has read.
IsRead(t) == t \in DOMAIN conns /\ conns[t].state \in {"streaming", "done"}

\* What a connection knows is its own viewer's: the token it presents, and the
\* client it was given, which until the answer is written has the hash of this
\* connection if it has one.
ConnOK(k) ==
  /\ conns[k].viewer \in Viewers
  /\ conns[k].token # None =>
       IsRead(conns[k].token) /\ conns[conns[k].token].viewer = conns[k].viewer
  /\ conns[k].state \in {"accepted", "streaming"} => IsMinted(conns[k].client)
  /\ conns[k].state = "accepted" /\ conns[k].client \in DOMAIN hashes =>
       hashes[conns[k].client] = k

\* What a viewer holds is its own: its connection, and a token it has read,
\* which it has presented to nobody while it is on.
ViewerOK(v) ==
  /\ viewers[v].token # None =>
       IsRead(viewers[v].token) /\ conns[viewers[v].token].viewer = v
  /\ viewers[v].state \notin {"new", "gone"} =>
       viewers[v].conn \in DOMAIN conns /\ conns[viewers[v].conn].viewer = v
  /\ viewers[v].state \in {"new", "gone"} => ~viewers[v].looked
  /\ viewers[v].state = "on" =>
       /\ viewers[v].token = viewers[v].conn
       /\ \A k \in DOMAIN conns : conns[k].token # viewers[v].token
  /\ viewers[v].state = "joining" =>
       /\ conns[viewers[v].conn].state # "streaming"
       /\ conns[viewers[v].conn].state = "asking" =>
            conns[viewers[v].conn].token = viewers[v].token

\* A record is of one viewer: the one its client was minted for set its view,
\* streams for it, and holds its hash, which is that of the stream.
ClientOK(c) ==
  /\ IsMinted(c) /\ clients[c].view \in {Fresh, conns[c].viewer}
  /\ clients[c].stream # None =>
       c \in DOMAIN hashes /\ hashes[c] = clients[c].stream

HashOK(c) ==
  IsMinted(c) /\ IsMinted(hashes[c]) /\ conns[hashes[c]].viewer = conns[c].viewer

RecordOK(r) == IsMinted(r.token) /\ r.view \in {Fresh, conns[r.token].viewer}

\* A token nobody can present: the answer that carried it was never written.
IsDead(t) ==
  /\ conns[t].state = "done"
  /\ \A v \in Viewers : viewers[v].token # t
  /\ \A k \in DOMAIN conns : conns[k].token # t

\* An attach waits for its connection, a detach names a client that was minted,
\* and one without a stream a client whose hash is dead.
EventOK(e) ==
  \/ e.kind = "attach" /\ e.conn \in DOMAIN conns /\ conns[e.conn].state = "asking"
  \/ /\ e.kind = "detached" /\ IsMinted(e.client)
     /\ ~e.streamed /\ e.client \in DOMAIN hashes => IsDead(hashes[e.client])
  \/ e.kind = "drop"

EventsOK ==
  /\ \A i \in DOMAIN inbox : EventOK(inbox[i])
  /\ \A i, j \in DOMAIN inbox :
       inbox[i].kind = "attach" /\ inbox[j].kind = "attach" /\ inbox[i].conn = inbox[j].conn
         => i = j

Owned ==
  /\ \A k \in DOMAIN conns : ConnOK(k)
  /\ \A v \in Viewers : ViewerOK(v)
  /\ \A c \in DOMAIN clients : ClientOK(c)
  /\ \A c \in DOMAIN hashes : HashOK(c)
  /\ \A i \in DOMAIN filed : RecordOK(filed[i])

\* Awaited clients are held, and away.
Awaited == awaiting \subseteq DOMAIN clients /\ AwaitedAreAway

\* The token behind which a viewer's view is: the one it has read, or the one
\* that is on its way to it.
Place(v) ==
  IF viewers[v].state = "joining" /\ conns[viewers[v].conn].state # "asking"
  THEN viewers[v].conn ELSE viewers[v].token

\* The view v set is at the place the token opens.
IsKept(t, v) ==
  \/ \E c \in DOMAIN hashes \cap DOMAIN clients : hashes[c] = t /\ clients[c].view = v
  \/ \E i \in DOMAIN filed : filed[i].token = t /\ filed[i].view = v

\* The answer the viewer waits for, if it waits for one, may still come.
Expects(v) == ~(viewers[v].state = "joining" /\ conns[viewers[v].conn].state = "done")

\* A viewer that set its view, and whose answer may still come, has it kept at
\* its place, and nobody but itself is about to take it from there.
KeptOK(v) ==
  viewers[v].looked /\ Expects(v) =>
    /\ IsKept(Place(v), v)
    /\ \A k \in DOMAIN conns :
         conns[k].state = "asking" /\ conns[k].token = Place(v) =>
           viewers[v].state = "joining" /\ viewers[v].conn = k

\* Grace windows are numbered upwards, and the event that closes the present
\* one comes of its own timer.
WindowsOK ==
  /\ opening \in 0 .. MaxSwaps /\ (phase \in {"told", "refusing"} => opening < MaxSwaps)
  /\ window \in Nat /\ nextWindow \in 1 .. opening + 2 /\ window < nextWindow
  /\ hasRunOut \in BOOLEAN
  /\ timers \subseteq [id : 0 .. nextWindow - 1, opening : 0 .. opening]
  /\ \A t \in timers : t.id = window => t.opening = opening
  /\ \A i \in DOMAIN inbox :
       inbox[i].kind = "drop" =>
         inbox[i].id \in 0 .. nextWindow - 1 /\ (inbox[i].id = window => hasRunOut)

RejoinInv ==
  /\ Shapes /\ Owned /\ EventsOK /\ Awaited /\ WindowsOK
  /\ TokenOpensOnePlace /\ \A v \in Viewers : KeptOK(v)

-----------------------------------------------------------------------------
(* The store *)

\* The records have different tokens.
Apart(f) == \A i, j \in DOMAIN f : f[i].token = f[j].token => i = j

\* What TokenOpensOnePlace says.
LEMMA OnePlace ==
  TokenOpensOnePlace <=>
    /\ \A c, d \in DOMAIN hashes : hashes[c] = hashes[d] => c = d
    /\ \A c \in DOMAIN hashes, i \in DOMAIN filed : hashes[c] # filed[i].token
    /\ Apart(filed)
BY DEF TokenOpensOnePlace, TokensOf, IsInjective, Apart

\* Clients can be put in order.
LEMMA InOrderFacts ==
  ASSUME NEW S \in SUBSET Numbers
  PROVE  InOrder(S) \in Seq(S) /\ Range(InOrder(S)) = S /\ IsInjective(InOrder(S))
<1> DEFINE Ordered(seq, R) ==
             Range(seq) = R /\ \A i, j \in DOMAIN seq : i < j => seq[i] < seq[j]
           Good == {n \in Nat : \A R \in SUBSET Numbers :
                      Cardinality(R) = n => \E seq \in [1 .. n -> R] : Ordered(seq, R)}
<1>1. /\ IsFiniteSet(Numbers) /\ Numbers \subseteq Nat /\ Cardinality(Numbers) \in Nat
      /\ \A R \in SUBSET Numbers : IsFiniteSet(R) /\ Cardinality(R) \in 0 .. Cardinality(Numbers)
  <2>1. IsFiniteSet(Numbers) /\ Numbers \subseteq Nat
    BY RejoinAssumption, FS_Interval DEF Numbers
  <2>2. Cardinality(Numbers) \in Nat
    BY <2>1, FS_CardinalityType
  <2>3. ASSUME NEW R \in SUBSET Numbers
        PROVE  IsFiniteSet(R) /\ Cardinality(R) \in 0 .. Cardinality(Numbers)
    <3>1. IsFiniteSet(R) /\ Cardinality(R) <= Cardinality(Numbers)
      BY <2>1, FS_Subset
    <3>2. Cardinality(R) \in Nat
      BY <3>1, FS_CardinalityType
    <3>3. QED
      BY <2>2, <3>1, <3>2
  <2>4. QED
    BY <2>1, <2>2, <2>3
<1>2. 0 \in Good
  <2>1. ASSUME NEW R \in SUBSET Numbers, Cardinality(R) = 0
        PROVE  \E seq \in [1 .. 0 -> R] : Ordered(seq, R)
    <3>1. R = {}
      BY <1>1, <2>1, FS_EmptySet
    <3>2. Ordered([i \in 1 .. 0 |-> 0], R) /\ [i \in 1 .. 0 |-> 0] \in [1 .. 0 -> R]
      BY <3>1 DEF Range
    <3>3. QED
      BY <3>2
  <2>2. QED
    BY <2>1
<1>3. ASSUME NEW n \in 1 .. Cardinality(Numbers), n - 1 \in Good PROVE n \in Good
  <2>1. ASSUME NEW R \in SUBSET Numbers, Cardinality(R) = n
        PROVE  \E seq \in [1 .. n -> R] : Ordered(seq, R)
    <3>1. R # {} /\ R \in SUBSET Nat /\ \A k \in R : k <= MaxConnections
      <4>1. R # {}
        BY <1>1, <2>1, FS_EmptySet
      <4>2. QED
        BY <4>1, RejoinAssumption DEF Numbers
    <3>2. PICK m \in R : \A k \in R : k <= m
      BY <3>1, RejoinAssumption, NatGreatest
    <3>3. Cardinality(R \ {m}) = n - 1
      BY <1>1, <2>1, <3>2, FS_RemoveElement
    <3>4. PICK old \in [1 .. n - 1 -> R \ {m}] : Ordered(old, R \ {m})
      BY <1>3, <3>3
    <3> DEFINE seq == [i \in 1 .. n |-> IF i = n THEN m ELSE old[i]]
    <3>5. seq \in [1 .. n -> R]
      BY <3>4
    <3>6. Range(seq) = R
      BY <3>4 DEF Range
    <3>7. ASSUME NEW i \in 1 .. n, NEW j \in 1 .. n, i < j PROVE seq[i] < seq[j]
      <4>1. i \in 1 .. n - 1 /\ seq[i] = old[i] /\ old[i] \in R \ {m}
        BY <3>4, <3>7
      <4>2. CASE j = n
        <5>1. seq[j] = m /\ m \in Nat /\ old[i] \in Nat /\ old[i] <= m /\ old[i] # m
          BY <3>1, <3>2, <4>1, <4>2
        <5> HIDE DEF seq
        <5>2. QED
          BY <4>1, <5>1
      <4>3. CASE j # n
        BY <3>4, <3>7, <4>1, <4>3
      <4>4. QED
        BY <4>2, <4>3
    <3>8. QED
      BY <3>5, <3>6, <3>7
  <2>2. QED
    BY <2>1
<1>4. Cardinality(S) \in Good
  <2> HIDE DEF Good
  <2>1. \A n \in 1 .. Cardinality(Numbers) : n - 1 \in Good => n \in Good
    BY <1>3
  <2>2. \A n \in 0 .. Cardinality(Numbers) : n \in Good
    BY <1>1, <1>2, <2>1, IntervalInduction, Zenon
  <2>3. QED
    BY <1>1, <2>2
<1>5. PICK seq \in [1 .. Cardinality(S) -> S] : Ordered(seq, S)
  BY <1>4
<1>6. InOrder(S) = CHOOSE f \in [1 .. Cardinality(S) -> S] : Ordered(f, S)
  BY DEF InOrder
<1>7. InOrder(S) \in [1 .. Cardinality(S) -> S] /\ Ordered(InOrder(S), S)
  BY <1>5, <1>6
<1>8. Cardinality(S) \in Nat /\ S \subseteq Nat
  BY <1>1
<1>9. IsInjective(InOrder(S))
  <2> SUFFICES ASSUME NEW i \in 1 .. Cardinality(S), NEW j \in 1 .. Cardinality(S),
                      InOrder(S)[i] = InOrder(S)[j], i # j
               PROVE  FALSE
    BY <1>7 DEF IsInjective
  <2>1. InOrder(S)[i] \in Nat /\ InOrder(S)[j] \in Nat
    BY <1>7, <1>8
  <2>2. InOrder(S)[i] < InOrder(S)[j] \/ InOrder(S)[j] < InOrder(S)[i]
    BY <1>7, <1>8
  <2>3. QED
    BY <2>1, <2>2
<1>10. QED
  BY <1>7, <1>8, <1>9

\* What is left of a sequence without its first n members.
LEMMA SuffixFacts ==
  ASSUME NEW T, NEW seq \in Seq(T), NEW n \in 0 .. Len(seq)
  PROVE  LET g == SubSeq(seq, n + 1, Len(seq))
         IN  /\ g \in Seq(T) /\ Len(g) = Len(seq) - n /\ Len(g) \in Nat /\ DOMAIN g = 1 .. Len(g)
             /\ \A i \in 1 .. Len(g) : g[i] = seq[n + i] /\ n + i \in 1 .. Len(seq)
OBVIOUS

\* The record of a client's view.
Recorded(c) == [token |-> hashes[c], view |-> clients[c].view]

\* What filing the views of some clients leaves: filed views and theirs, under
\* different tokens; all there was when nobody files, and last the view of the
\* only one that does.
LEMMA FileFacts ==
  ASSUME Shapes, TokenOpensOnePlace, NEW S \in SUBSET Numbers
  PROVE  LET g == FileAll(S)
         IN  /\ g \in Seq(RecordType) /\ Len(g) <= RecordLimit /\ Apart(g)
             /\ \A i \in DOMAIN g :
                  \/ \E j \in DOMAIN filed : g[i] = filed[j]
                  \/ \E c \in Filers(S) : g[i] = Recorded(c)
             /\ Filers(S) = {} => g = filed
             /\ \A c \in Filers(S) : Filers(S) = {c} =>
                  \E i \in DOMAIN g : g[i] = Recorded(c)
<1> DEFINE F == Filers(S)
<1>1. F \in SUBSET Numbers /\ F \subseteq DOMAIN hashes /\ F \subseteq DOMAIN clients
  BY DEF Filers
<1>2. PICK cs \in Seq(F) : cs = InOrder(F) /\ Range(cs) = F /\ IsInjective(cs)
  BY <1>1, InOrderFacts
<1> DEFINE new == [i \in DOMAIN cs |-> Recorded(cs[i])]
<1>3. \A c \in F : Recorded(c) \in RecordType
  BY <1>1 DEF Shapes, Recorded, RecordType, ClientType
<1>4. /\ new \in Seq(RecordType) /\ Len(new) = Len(cs) /\ Len(cs) \in Nat /\ DOMAIN cs = 1 .. Len(cs)
      /\ \A i \in 1 .. Len(cs) : new[i] = Recorded(cs[i]) /\ cs[i] \in F
  <2>1. Len(cs) \in Nat /\ DOMAIN cs = 1 .. Len(cs) /\ \A i \in 1 .. Len(cs) : cs[i] \in F
    OBVIOUS
  <2>2. QED
    BY <1>3, <2>1
<1> DEFINE all == filed \o new
           g == FileAll(S)
<1> HIDE DEF F, new
<1>5. /\ filed \in Seq(RecordType) /\ Len(filed) \in Nat /\ Len(filed) <= RecordLimit
      /\ RecordLimit \in Nat /\ RecordLimit >= 1 /\ DOMAIN filed = 1 .. Len(filed)
  BY RejoinAssumption DEF Shapes
<1>6. /\ all \in Seq(RecordType) /\ Len(all) = Len(filed) + Len(cs) /\ Len(all) \in Nat
      /\ \A i \in 1 .. Len(filed) : all[i] = filed[i]
      /\ \A i \in 1 .. Len(cs) : all[Len(filed) + i] = Recorded(cs[i])
  BY <1>4, <1>5
<1>9. g = IF Len(all) > RecordLimit THEN SubSeq(all, Len(all) - RecordLimit + 1, Len(all)) ELSE all
  BY <1>2 DEF FileAll, File, F, new, Recorded
<1> HIDE DEF all, g
<1>7. \A i \in 1 .. Len(all) :
        i \in 1 .. Len(filed) \/ (i - Len(filed) \in 1 .. Len(cs) /\ all[i] = Recorded(cs[i - Len(filed)]))
  <2> TAKE i \in 1 .. Len(all)
  <2>1. CASE i > Len(filed)
    <3>1. i - Len(filed) \in 1 .. Len(cs) /\ i = Len(filed) + (i - Len(filed))
      BY <1>4, <1>5, <1>6, <2>1
    <3>2. QED
      BY <1>6, <3>1
  <2>2. CASE ~(i > Len(filed))
    BY <1>5, <1>6, <2>2
  <2>3. QED
    BY <2>1, <2>2
<1>8. ASSUME NEW i \in 1 .. Len(all), NEW j \in 1 .. Len(all), all[i].token = all[j].token
      PROVE  i = j
  <2>0. /\ \A c, d \in DOMAIN hashes : hashes[c] = hashes[d] => c = d
        /\ \A c \in DOMAIN hashes, k \in DOMAIN filed : hashes[c] # filed[k].token
        /\ \A k, l \in DOMAIN filed : filed[k].token = filed[l].token => k = l
    BY OnePlace DEF Apart
  <2>1. \A k \in 1 .. Len(cs) : cs[k] \in DOMAIN hashes /\ Recorded(cs[k]).token = hashes[cs[k]]
    BY <1>1, <1>4 DEF Recorded, F
  <2>2. CASE i \in 1 .. Len(filed) /\ j \in 1 .. Len(filed)
    BY <1>5, <1>6, <1>8, <2>0, <2>2
  <2>3. CASE i \in 1 .. Len(filed) /\ j \notin 1 .. Len(filed)
    <3>1. all[i] = filed[i] /\ all[j].token = hashes[cs[j - Len(filed)]]
      BY <1>6, <1>7, <2>1, <2>3
    <3>2. cs[j - Len(filed)] \in DOMAIN hashes /\ i \in DOMAIN filed
      BY <1>5, <1>7, <2>1, <2>3
    <3>3. QED
      BY <1>8, <2>0, <3>1, <3>2
  <2>4. CASE i \notin 1 .. Len(filed) /\ j \in 1 .. Len(filed)
    <3>1. all[j] = filed[j] /\ all[i].token = hashes[cs[i - Len(filed)]]
      BY <1>6, <1>7, <2>1, <2>4
    <3>2. cs[i - Len(filed)] \in DOMAIN hashes /\ j \in DOMAIN filed
      BY <1>5, <1>7, <2>1, <2>4
    <3>3. QED
      BY <1>8, <2>0, <3>1, <3>2
  <2>5. CASE i \notin 1 .. Len(filed) /\ j \notin 1 .. Len(filed)
    <3>1. hashes[cs[i - Len(filed)]] = hashes[cs[j - Len(filed)]]
      BY <1>7, <1>8, <2>1, <2>5
    <3>2. cs[i - Len(filed)] = cs[j - Len(filed)]
      BY <1>7, <2>0, <2>1, <2>5, <3>1
    <3>3. i - Len(filed) = j - Len(filed)
      BY <1>2, <1>4, <1>7, <2>5, <3>2 DEF IsInjective
    <3>4. QED
      BY <1>5, <3>3
  <2>6. QED
    BY <2>2, <2>3, <2>4, <2>5
<1>10. PICK n \in Nat :
       /\ g \in Seq(RecordType) /\ Len(g) <= RecordLimit /\ Len(g) = Len(all) - n
       /\ Len(g) \in Nat /\ DOMAIN g = 1 .. Len(g) /\ (Len(all) >= 1 => Len(g) >= 1)
       /\ \A i \in 1 .. Len(g) : g[i] = all[n + i] /\ n + i \in 1 .. Len(all)
  <2>1. CASE Len(all) > RecordLimit
    <3>1. Len(all) - RecordLimit \in 0 .. Len(all) /\ Len(all) - (Len(all) - RecordLimit) = RecordLimit
      BY <1>5, <1>6, <2>1
    <3>2. g = SubSeq(all, (Len(all) - RecordLimit) + 1, Len(all))
      BY <1>9, <2>1
    <3>3. PICK n \in 0 .. Len(all) : n = Len(all) - RecordLimit
      BY <3>1
    <3>4. g = SubSeq(all, n + 1, Len(all))
      BY <3>2, <3>3
    <3>5. /\ g \in Seq(RecordType) /\ Len(g) = Len(all) - n /\ Len(g) \in Nat
          /\ DOMAIN g = 1 .. Len(g)
          /\ \A i \in 1 .. Len(g) : g[i] = all[n + i] /\ n + i \in 1 .. Len(all)
      BY <1>6, <3>4, SuffixFacts
    <3>6. Len(g) <= RecordLimit /\ Len(g) >= 1 /\ n \in Nat
      BY <1>5, <1>6, <3>3, <3>5
    <3>7. QED
      BY <3>5, <3>6
  <2>2. CASE ~(Len(all) > RecordLimit)
    <3>1. g = all /\ Len(all) <= RecordLimit /\ DOMAIN all = 1 .. Len(all)
      BY <1>5, <1>6, <1>9, <2>2
    <3>2. 0 \in Nat /\ Len(g) = Len(all) - 0 /\ \A i \in 1 .. Len(g) : g[i] = all[0 + i] /\ 0 + i \in 1 .. Len(all)
      BY <1>6, <3>1
    <3>3. QED
      BY <1>6, <3>1, <3>2
  <2>3. QED
    BY <2>1, <2>2
<1>11. Apart(g)
  <2> SUFFICES ASSUME NEW i \in 1 .. Len(g), NEW j \in 1 .. Len(g), g[i].token = g[j].token
               PROVE  i = j
    BY <1>10 DEF Apart
  <2>1. n + i = n + j
    BY <1>8, <1>10, SMTT(60)
  <2>2. QED
    BY <1>10, <2>1
<1>12. ASSUME NEW i \in DOMAIN g
       PROVE  \/ \E j \in DOMAIN filed : g[i] = filed[j]
              \/ \E c \in F : g[i] = Recorded(c)
  <2>1. PICK k \in 1 .. Len(all) : g[i] = all[k]
    BY <1>10
  <2>2. CASE k \in 1 .. Len(filed)
    BY <1>5, <1>6, <2>1, <2>2
  <2>3. CASE k \notin 1 .. Len(filed)
    BY <1>4, <1>7, <2>1, <2>3
  <2>4. QED
    BY <2>2, <2>3
<1>13. F = {} => g = filed
  <2> SUFFICES ASSUME F = {} PROVE g = filed
    OBVIOUS
  <2>1. Len(cs) = 0
    BY <1>4
  <2>2. Len(all) = Len(filed)
    BY <1>5, <1>6, <2>1
  <2>3. all = filed
    BY <1>5, <1>6, <2>2
  <2>4. QED
    BY <1>5, <1>9, <2>2, <2>3
<1>14. ASSUME NEW c \in F, F = {c} PROVE \E i \in DOMAIN g : g[i] = Recorded(c)
  <2>1. Len(cs) >= 1 /\ \A i \in 1 .. Len(cs) : cs[i] = c
    <3>1. c \in Range(cs)
      BY <1>2
    <3>2. PICK i \in 1 .. Len(cs) : cs[i] = c
      BY <1>4, <3>1 DEF Range
    <3>3. QED
      BY <1>4, <1>14, <3>2
  <2>2. Len(g) \in 1 .. Len(g) /\ n + Len(g) = Len(filed) + Len(cs) /\ Len(cs) \in 1 .. Len(cs)
    BY <1>4, <1>5, <1>6, <1>10, <2>1
  <2>3. g[Len(g)] = Recorded(cs[Len(cs)])
    BY <1>4, <1>6, <1>10, <2>1, <2>2
  <2>4. QED
    BY <1>4, <1>10, <2>1, <2>2, <2>3
<1>15. QED
  BY <1>10, <1>11, <1>12, <1>13, <1>14 DEF F, g

\* What taking a token's record out leaves, and the view it gives.
LEMMA TakeFacts ==
  ASSUME NEW f \in Seq(RecordType), Apart(f), NEW t
  PROVE  /\ TakenFrom(f, t) \in Seq(RecordType) /\ Len(TakenFrom(f, t)) <= Len(f)
         /\ Apart(TakenFrom(f, t))
         /\ \A i \in DOMAIN TakenFrom(f, t) :
              TakenFrom(f, t)[i].token # t /\ \E j \in DOMAIN f : TakenFrom(f, t)[i] = f[j]
         /\ \A j \in DOMAIN f : f[j].token # t =>
              \E i \in DOMAIN TakenFrom(f, t) : TakenFrom(f, t)[i] = f[j]
         /\ (\A j \in DOMAIN f : f[j].token # t) => ViewUnder(f, t) = Fresh
         /\ \A j \in DOMAIN f : f[j].token = t => ViewUnder(f, t) = f[j].view
<1>0. Len(f) \in Nat /\ DOMAIN f = 1 .. Len(f) /\ \A i \in 1 .. Len(f) : f[i] \in RecordType
  OBVIOUS
<1>1. CASE Under(f, t) = {}
  <2>1. TakenFrom(f, t) = f /\ ViewUnder(f, t) = Fresh /\ \A i \in DOMAIN f : f[i].token # t
    BY <1>1 DEF TakenFrom, ViewUnder, Under
  <2>2. QED
    BY <1>0, <2>1
<1>2. CASE Under(f, t) # {}
  <2>1. PICK m \in DOMAIN f : f[m].token = t
    BY <1>2 DEF Under
  <2>2. Under(f, t) = {m}
    BY <2>1 DEF Under, Apart
  <2>3. Max({m}) = m
    BY <1>0, <2>1 DEF Max
  <2>4. PICK g : g = SubSeq(f, 1, m - 1) \o SubSeq(f, m + 1, Len(f))
    OBVIOUS
  <2>5. TakenFrom(f, t) = g /\ ViewUnder(f, t) = f[m].view
    BY <2>2, <2>3, <2>4 DEF TakenFrom, ViewUnder, RemoveAt
  <2>6. /\ g \in Seq(RecordType) /\ Len(g) = Len(f) - 1 /\ DOMAIN g = 1 .. Len(f) - 1
        /\ \A i \in 1 .. Len(f) - 1 : g[i] = IF i < m THEN f[i] ELSE f[i + 1]
    <3>1. m \in 1 .. Len(f)
      BY <1>0, <2>1
    <3>2. PICK a, b : a = SubSeq(f, 1, m - 1) /\ b = SubSeq(f, m + 1, Len(f))
      OBVIOUS
    <3>3. a \in Seq(RecordType) /\ Len(a) = m - 1 /\ \A i \in 1 .. m - 1 : a[i] = f[i]
      BY <1>0, <3>1, <3>2
    <3>4. b \in Seq(RecordType) /\ Len(b) = Len(f) - m /\ \A i \in 1 .. Len(f) - m : b[i] = f[m + i]
      BY <1>0, <3>1, <3>2
    <3>5. g = a \o b
      BY <2>4, <3>2
    <3>6. g \in Seq(RecordType) /\ Len(g) = Len(f) - 1 /\ DOMAIN g = 1 .. Len(f) - 1
      <4>1. g \in Seq(RecordType) /\ Len(g) = Len(a) + Len(b)
        <5>1. a \in Seq(RecordType) /\ b \in Seq(RecordType)
          BY <3>3, <3>4
        <5>2. QED
          BY <3>5, <5>1
      <4>2. Len(g) = Len(f) - 1
        BY <1>0, <3>1, <3>3, <3>4, <4>1
      <4>3. QED
        BY <4>1, <4>2
    <3>7. ASSUME NEW i \in 1 .. Len(f) - 1 PROVE g[i] = IF i < m THEN f[i] ELSE f[i + 1]
      <4>1. CASE i < m
        BY <1>0, <3>1, <3>3, <3>4, <3>5, <4>1
      <4>2. CASE ~(i < m)
        <5>1. i - (m - 1) \in 1 .. Len(f) - m /\ i > Len(a) /\ i - Len(a) = i - (m - 1)
          BY <1>0, <3>1, <3>3, <4>2
        <5>2. g[i] = b[i - Len(a)]
          BY <1>0, <3>1, <3>3, <3>4, <3>5, <4>2, <5>1, SMTT(60)
        <5>3. b[i - (m - 1)] = f[m + (i - (m - 1))] /\ m + (i - (m - 1)) = i + 1
          BY <3>1, <3>4, <5>1, SMTT(60)
        <5>4. QED
          BY <4>2, <5>1, <5>2, <5>3
      <4>3. QED
        BY <4>1, <4>2
    <3>8. QED
      BY <3>6, <3>7
  <2> DEFINE at(i) == IF i < m THEN i ELSE i + 1
  <2>7. \A i \in 1 .. Len(f) - 1 : at(i) \in 1 .. Len(f) /\ at(i) # m /\ g[i] = f[at(i)]
    BY <1>0, <2>1, <2>6
  <2>8. \A i \in 1 .. Len(f) - 1 : g[i].token # t
    BY <1>0, <2>1, <2>7 DEF Apart
  <2>9. Apart(g)
    <3> SUFFICES ASSUME NEW i \in 1 .. Len(f) - 1, NEW j \in 1 .. Len(f) - 1,
                        g[i].token = g[j].token
                 PROVE  i = j
      BY <2>6 DEF Apart
    <3>1. at(i) = at(j)
      BY <1>0, <2>7, SMTT(60) DEF Apart
    <3>2. QED
      BY <1>0, <2>1, <3>1
  <2>10. ASSUME NEW j \in DOMAIN f, f[j].token # t PROVE \E i \in DOMAIN g : g[i] = f[j]
    <3>1. CASE j < m
      <4>1. j \in 1 .. Len(f) - 1 /\ g[j] = f[j]
        BY <1>0, <2>1, <2>6, <3>1
      <4>2. QED
        BY <2>6, <4>1
    <3>2. CASE j > m
      <4>1. j - 1 \in 1 .. Len(f) - 1 /\ ~(j - 1 < m) /\ (j - 1) + 1 = j
        BY <1>0, <2>1, <3>2
      <4>2. g[j - 1] = f[j]
        BY <2>6, <4>1
      <4>3. QED
        BY <2>6, <4>1, <4>2
    <3>3. QED
      BY <1>0, <2>1, <2>10, <3>1, <3>2
  <2>11. \A j \in DOMAIN f : f[j].token = t => j = m
    BY <2>1 DEF Apart
  <2>12. Len(g) <= Len(f) /\ \A i \in DOMAIN g : g[i].token # t /\ \E j \in DOMAIN f : g[i] = f[j]
    BY <1>0, <2>6, <2>7, <2>8, SMTT(60)
  <2> HIDE DEF at
  <2>13. QED
    BY <2>1, <2>5, <2>6, <2>9, <2>10, <2>11, <2>12
<1>3. QED
  BY <1>1, <1>2

-----------------------------------------------------------------------------
(* What every step does to connections and tokens *)

\* Connections come and none is taken back: one keeps its viewer, an answered
\* one stays answered, a done one done.  A viewer learns a token only from the
\* answer of that connection, and presents none it has not learned.
Orderly ==
  /\ DOMAIN conns \subseteq DOMAIN conns'
  /\ \A k \in DOMAIN conns :
       /\ conns'[k].viewer = conns[k].viewer
       /\ conns[k].state # "asking" => conns'[k].state # "asking"
       /\ conns[k].state \in {"streaming", "done"} => conns'[k].state \in {"streaming", "done"}
       /\ conns[k].state = "done" => conns'[k].state = "done"
  /\ \A v \in Viewers :
       \/ viewers'[v].token \in {None, viewers[v].token}
       \/ viewers'[v].token \in DOMAIN conns /\ conns[viewers'[v].token].state = "accepted"
  /\ \A k \in DOMAIN conns' :
       \/ conns'[k].token = None
       \/ k \in DOMAIN conns /\ conns'[k].token = conns[k].token
       \/ \E v \in Viewers : conns'[k].token = viewers[v].token

\* What is known of a token stays known.
LEMMA KnownStays ==
  ASSUME Orderly, NEW k
  PROVE  /\ IsMinted(k) => IsMinted(k)' /\ conns'[k].viewer = conns[k].viewer
         /\ IsRead(k) => IsRead(k)' /\ conns'[k].viewer = conns[k].viewer
         /\ IsRead(k) => IsMinted(k)
BY DEF Orderly, IsMinted, IsRead

\* A token nobody can present stays so.
LEMMA DeadStays ==
  ASSUME Orderly, NEW t \in DOMAIN conns, t # None, IsDead(t)
  PROVE  IsDead(t)'
<1>1. conns'[t].state = "done"
  BY DEF Orderly, IsDead
<1>2. ASSUME NEW v \in Viewers PROVE viewers'[v].token # t
  <2>1. viewers[v].token # t /\ conns[t].state # "accepted"
    BY DEF IsDead
  <2>2. QED
    BY <2>1 DEF Orderly
<1>3. ASSUME NEW k \in DOMAIN conns' PROVE conns'[k].token # t
  <2>1. /\ \A v \in Viewers : viewers[v].token # t
        /\ k \in DOMAIN conns => conns[k].token # t
    BY DEF IsDead
  <2>2. QED
    BY <2>1 DEF Orderly
<1>4. QED
  BY <1>1, <1>2, <1>3 DEF IsDead

\* An event that waits stays in order, while its connection asks and unless its
\* client gets another hash.
LEMMA EventStays ==
  ASSUME Shapes, Orderly, NEW e, EventOK(e), \A c \in DOMAIN hashes : HashOK(c),
         e.kind = "attach" => conns'[e.conn].state = "asking",
         e.kind = "detached" /\ ~e.streamed /\ e.client \in DOMAIN hashes' =>
             e.client \in DOMAIN hashes /\ hashes'[e.client] = hashes[e.client]
  PROVE  EventOK(e)'
<1>1. CASE e.kind = "attach"
  BY <1>1 DEF EventOK, Orderly
<1>2. CASE e.kind = "detached"
  <2>1. IsMinted(e.client)'
    BY <1>2, KnownStays DEF EventOK
  <2>2. ASSUME ~e.streamed, e.client \in DOMAIN hashes' PROVE IsDead(hashes[e.client])'
    <3>1. e.client \in DOMAIN hashes /\ hashes'[e.client] = hashes[e.client]
      BY <1>2, <2>2
    <3>2. IsDead(hashes[e.client])
      BY <1>2, <2>2, <3>1 DEF EventOK
    <3>3. hashes[e.client] \in DOMAIN conns /\ hashes[e.client] # None
      BY <3>1, RejoinAssumption DEF HashOK, IsMinted, Shapes, Numbers
    <3>4. PICK t : t = hashes[e.client]
      OBVIOUS
    <3>5. IsDead(t)'
      BY <3>2, <3>3, <3>4, DeadStays
    <3>6. QED
      BY <3>1, <3>4, <3>5
  <2>3. QED
    BY <1>2, <2>1, <2>2 DEF EventOK
<1>3. CASE e.kind = "drop"
  BY <1>3 DEF EventOK
<1>4. QED
  BY <1>1, <1>2, <1>3 DEF EventOK

\* A viewer's view stays kept while nobody new asks for it, its connection goes
\* no further than to its end, and what its token opens is not lost.
LEMMA KeptStays ==
  ASSUME NEW v \in Viewers, KeptOK(v), ViewerOK(v), Shapes,
         viewers'[v].looked =>
           /\ viewers[v].looked /\ viewers'[v].state = viewers[v].state
           /\ viewers'[v].conn = viewers[v].conn /\ viewers'[v].token = viewers[v].token,
         \A k \in DOMAIN conns' :
           conns'[k].state = "asking" =>
             k \in DOMAIN conns /\ conns[k].state = "asking" /\ conns'[k].token = conns[k].token,
         \A k \in DOMAIN conns : conns'[k].state \in {conns[k].state, "streaming", "done"},
         viewers[v].state = "joining" =>
           conns'[viewers[v].conn].state \in {conns[viewers[v].conn].state, "done"},
         \A t : viewers'[v].looked /\ Expects(v) /\ t = Place(v) /\ IsKept(t, v) => IsKept(t, v)'
  PROVE  KeptOK(v)'
<1> SUFFICES ASSUME viewers'[v].looked,
                    ~(viewers'[v].state = "joining" /\ conns'[viewers'[v].conn].state = "done")
             PROVE  /\ IsKept(Place(v), v)'
                    /\ \A k \in DOMAIN conns' :
                         conns'[k].state = "asking" /\ conns'[k].token = Place(v)' =>
                           viewers'[v].state = "joining" /\ viewers'[v].conn = k
  BY DEF KeptOK, Expects
<1>1. /\ viewers[v].looked /\ viewers'[v].state = viewers[v].state
      /\ viewers'[v].conn = viewers[v].conn /\ viewers'[v].token = viewers[v].token
  OBVIOUS
<1>2. viewers[v].state = "joining" =>
        conns'[viewers[v].conn].state = conns[viewers[v].conn].state
          /\ conns[viewers[v].conn].state # "done"
  BY <1>1
<1>3. Place(v)' = Place(v)
  BY <1>1, <1>2 DEF Place
<1>4. PICK t : t = Place(v)
  OBVIOUS
<1>5. /\ IsKept(t, v)
      /\ \A k \in DOMAIN conns :
           conns[k].state = "asking" /\ conns[k].token = t =>
             viewers[v].state = "joining" /\ viewers[v].conn = k
  BY <1>1, <1>2, <1>4 DEF KeptOK, Expects
<1>6. IsKept(t, v)'
  BY <1>2, <1>4, <1>5 DEF Expects
<1>7. Place(v)' = t
  BY <1>3, <1>4
<1>8. IsKept(Place(v), v)'
  BY <1>6, <1>7 DEF IsKept
<1>9. QED
  BY <1>1, <1>5, <1>7, <1>8

\* The events left when the first is taken.
LEMMA EventsTail ==
  ASSUME Shapes, EventsOK, inbox # <<>>, inbox' = Tail(inbox),
         \A e : (\E i \in 2 .. Len(inbox) : e = inbox[i]) => EventOK(e)'
  PROVE  /\ EventsOK' /\ inbox' \in Seq(Events)
         /\ \A i \in DOMAIN inbox' : \E j \in 2 .. Len(inbox) : inbox'[i] = inbox[j]
<1>1. /\ inbox' \in Seq(Events) /\ Len(inbox) \in Nat /\ DOMAIN inbox' = 1 .. Len(inbox) - 1
      /\ DOMAIN inbox = 1 .. Len(inbox) /\ Len(inbox) >= 1
      /\ \A i \in 1 .. Len(inbox) - 1 : inbox'[i] = inbox[i + 1] /\ i + 1 \in 2 .. Len(inbox)
  <2>1. PICK q : q = inbox
    OBVIOUS
  <2>2. q \in Seq(Events) /\ q # <<>> /\ inbox' = Tail(q)
    BY <2>1 DEF Shapes
  <2>3. QED
    BY <2>1, <2>2
<1>2. ASSUME NEW i \in DOMAIN inbox' PROVE EventOK(inbox[i])'
  <2>1. PICK e : e = inbox'[i]
    OBVIOUS
  <2>2. EventOK(e)'
    BY <1>1, <2>1
  <2>3. QED
    BY <2>1, <2>2 DEF EventOK
<1>3. ASSUME NEW i \in DOMAIN inbox', NEW j \in DOMAIN inbox',
             inbox'[i].kind = "attach", inbox'[j].kind = "attach", inbox'[i].conn = inbox'[j].conn
      PROVE  i = j
  <2>1. /\ inbox'[i] = inbox[i + 1] /\ inbox'[j] = inbox[j + 1]
        /\ i + 1 \in DOMAIN inbox /\ j + 1 \in DOMAIN inbox
    BY <1>1
  <2>2. i + 1 = j + 1
    BY <1>3, <2>1 DEF EventsOK
  <2>3. QED
    BY <1>1, <2>2
<1>4. QED
  BY <1>1, <1>2, <1>3 DEF EventsOK

\* The events when one is added.
LEMMA EventsAppend ==
  ASSUME Shapes, EventsOK, NEW new \in Events, inbox' = Append(inbox, new), EventOK(new)',
         new.kind = "attach" =>
           \A i \in DOMAIN inbox : inbox[i].kind = "attach" => inbox[i].conn # new.conn,
         \A e : (\E i \in DOMAIN inbox : e = inbox[i]) => EventOK(e)'
  PROVE  /\ EventsOK' /\ inbox' \in Seq(Events)
         /\ \A i \in DOMAIN inbox' : inbox'[i] = new \/ \E j \in DOMAIN inbox : inbox'[i] = inbox[j]
<1>1. /\ inbox' \in Seq(Events) /\ Len(inbox) \in Nat /\ DOMAIN inbox' = 1 .. Len(inbox) + 1
      /\ DOMAIN inbox = 1 .. Len(inbox) /\ inbox'[Len(inbox) + 1] = new
      /\ \A i \in 1 .. Len(inbox) : inbox'[i] = inbox[i]
  <2>1. PICK q : q = inbox
    OBVIOUS
  <2>2. q \in Seq(Events) /\ inbox' = Append(q, new)
    BY <2>1 DEF Shapes
  <2>3. QED
    BY <2>1, <2>2
<1>2. \A i \in DOMAIN inbox' : i = Len(inbox) + 1 \/ i \in DOMAIN inbox
  BY <1>1
<1>3. ASSUME NEW i \in DOMAIN inbox' PROVE EventOK(inbox[i])'
  <2>1. PICK e : e = inbox'[i]
    OBVIOUS
  <2>2. EventOK(e)'
    BY <1>1, <1>2, <2>1
  <2>3. QED
    BY <2>1, <2>2 DEF EventOK
<1>4. ASSUME NEW i \in DOMAIN inbox', NEW j \in DOMAIN inbox',
             inbox'[i].kind = "attach", inbox'[j].kind = "attach", inbox'[i].conn = inbox'[j].conn
      PROVE  i = j
  <2>1. CASE i \in DOMAIN inbox /\ j \in DOMAIN inbox
    BY <1>1, <1>4, <2>1 DEF EventsOK
  <2>2. CASE i = Len(inbox) + 1 \/ j = Len(inbox) + 1
    BY <1>1, <1>2, <1>4, <2>2
  <2>3. QED
    BY <1>2, <2>1, <2>2
<1>5. QED
  BY <1>1, <1>2, <1>3, <1>4 DEF EventsOK

\* The events when none comes and none goes.
LEMMA EventsStay ==
  ASSUME Shapes, EventsOK, UNCHANGED inbox,
         \A e : (\E i \in DOMAIN inbox : e = inbox[i]) => EventOK(e)'
  PROVE  EventsOK' /\ inbox' \in Seq(Events)
<1>1. ASSUME NEW i \in DOMAIN inbox' PROVE EventOK(inbox[i])'
  <2>1. PICK e : e = inbox'[i]
    OBVIOUS
  <2>2. EventOK(e)'
    BY <2>1
  <2>3. QED
    BY <2>1, <2>2 DEF EventOK
<1>2. QED
  BY <1>1 DEF EventsOK, Shapes

\* Every event that waits stays in order when no connection stops asking and no
\* client gets another hash.
LEMMA AllEventsStay ==
  ASSUME Shapes, EventsOK, Orderly, \A c \in DOMAIN hashes : HashOK(c),
         \A c \in DOMAIN hashes' : c \in DOMAIN hashes /\ hashes'[c] = hashes[c],
         \A k \in DOMAIN conns : conns[k].state = "asking" => conns'[k].state = "asking",
         NEW e, \E i \in DOMAIN inbox : e = inbox[i]
  PROVE  EventOK(e)'
<1>1. EventOK(e)
  BY DEF EventsOK
<1>2. e.kind = "attach" => conns'[e.conn].state = "asking"
  BY <1>1 DEF EventOK
<1>3. QED
  BY <1>1, <1>2, EventStays

-----------------------------------------------------------------------------
(* Steps of the store *)

\* What a step that files, drops or forgets does: connections are as they were,
\* viewers may lose their view, and records, hashes and filed views go, or a
\* record goes to the filed views.
Stored ==
  /\ UNCHANGED conns
  /\ viewers' \in [Viewers -> ViewerType]
  /\ \A v \in Viewers :
       /\ viewers'[v].state = viewers[v].state /\ viewers'[v].conn = viewers[v].conn
       /\ viewers'[v].token = viewers[v].token
       /\ viewers'[v].looked => viewers[v].looked
  /\ \A c \in DOMAIN clients' : c \in DOMAIN clients /\ clients'[c] = clients[c]
  /\ \A c \in DOMAIN hashes' : c \in DOMAIN hashes /\ hashes'[c] = hashes[c]
  /\ \A c \in DOMAIN clients' : clients[c].stream # None => c \in DOMAIN hashes'
  /\ awaiting' \subseteq awaiting \cap DOMAIN clients'
  /\ filed' \in Seq(RecordType) /\ Len(filed') <= RecordLimit /\ Apart(filed')
  /\ \A i \in DOMAIN filed' :
       \/ \E j \in DOMAIN filed : filed'[i] = filed[j]
       \/ \E c \in DOMAIN hashes \cap DOMAIN clients :
            c \notin DOMAIN hashes' /\ filed'[i] = Recorded(c)
  /\ \A v \in Viewers : \A t :
       viewers'[v].looked /\ Expects(v) /\ t = Place(v) /\ IsKept(t, v) => IsKept(t, v)'

\* Such a step keeps everything about the store and its owners.
LEMMA StoredStep ==
  ASSUME RejoinInv, Stored
  PROVE  /\ Orderly /\ Owned' /\ Awaited' /\ TokenOpensOnePlace'
         /\ \A v \in Viewers : KeptOK(v)'
<1>1. Orderly
  BY DEF Stored, Orderly
<1>2. ASSUME NEW k \in DOMAIN conns' PROVE ConnOK(k)'
  <2>1. ConnOK(k)
    BY DEF RejoinInv, Owned, Stored
  <2>2. QED
    BY <2>1 DEF Stored, ConnOK, IsRead, IsMinted
<1>3. ASSUME NEW v \in Viewers PROVE ViewerOK(v)'
  <2>1. ViewerOK(v)
    BY DEF RejoinInv, Owned
  <2>2. QED
    BY <2>1 DEF Stored, ViewerOK, IsRead, RejoinInv, Shapes, ViewerType
<1>4. ASSUME NEW c \in DOMAIN clients' PROVE ClientOK(c)'
  <2>1. c \in DOMAIN clients /\ ClientOK(c)
    BY DEF RejoinInv, Owned, Stored
  <2>2. QED
    BY <2>1 DEF Stored, ClientOK, IsMinted
<1>5. ASSUME NEW c \in DOMAIN hashes' PROVE HashOK(c)'
  <2>1. c \in DOMAIN hashes /\ HashOK(c)
    BY DEF RejoinInv, Owned, Stored
  <2>2. QED
    BY <2>1 DEF Stored, HashOK, IsMinted
<1>6. ASSUME NEW i \in DOMAIN filed' PROVE RecordOK(filed[i])'
  <2>1. CASE \E j \in DOMAIN filed : filed'[i] = filed[j]
    <3>1. PICK j \in DOMAIN filed : filed'[i] = filed[j]
      BY <2>1
    <3>2. RecordOK(filed[j])
      BY DEF RejoinInv, Owned
    <3>3. QED
      BY <3>1, <3>2 DEF Stored, RecordOK, IsMinted
  <2>2. CASE \E c \in DOMAIN hashes \cap DOMAIN clients : filed'[i] = Recorded(c)
    <3>1. PICK c \in DOMAIN hashes \cap DOMAIN clients : filed'[i] = Recorded(c)
      BY <2>2
    <3>2. HashOK(c) /\ ClientOK(c)
      BY DEF RejoinInv, Owned
    <3>3. filed'[i].token = hashes[c] /\ filed'[i].view = clients[c].view
      BY <3>1 DEF Recorded
    <3>4. QED
      BY <3>2, <3>3 DEF Stored, RecordOK, HashOK, ClientOK, IsMinted
  <2>3. QED
    BY <2>1, <2>2 DEF Stored
<1>7. Owned'
  BY <1>2, <1>3, <1>4, <1>5, <1>6 DEF Owned
<1>8. Awaited'
  BY DEF RejoinInv, Awaited, AwaitedAreAway, Stored
<1>9. TokenOpensOnePlace'
  <2>1. /\ \A c, d \in DOMAIN hashes : hashes[c] = hashes[d] => c = d
        /\ \A c \in DOMAIN hashes, i \in DOMAIN filed : hashes[c] # filed[i].token
    BY OnePlace DEF RejoinInv
  <2>2. \A c, d \in DOMAIN hashes' : hashes'[c] = hashes'[d] => c = d
    BY <2>1 DEF Stored
  <2>3. ASSUME NEW c \in DOMAIN hashes', NEW i \in DOMAIN filed' PROVE hashes'[c] # filed'[i].token
    <3>1. c \in DOMAIN hashes /\ hashes'[c] = hashes[c]
      BY DEF Stored
    <3>2. \A d \in DOMAIN hashes : Recorded(d).token = hashes[d]
      BY DEF Recorded
    <3>3. QED
      BY <2>1, <3>1, <3>2 DEF Stored
  <2>4. \A i, j \in DOMAIN filed' : filed'[i].token = filed'[j].token => i = j
    BY DEF Stored, Apart
  <2>5. QED
    BY <2>2, <2>3, <2>4 DEF TokenOpensOnePlace, TokensOf, IsInjective
<1>10. ASSUME NEW v \in Viewers PROVE KeptOK(v)'
  <2>1. KeptOK(v) /\ ViewerOK(v) /\ Shapes
    BY DEF RejoinInv, Owned
  <2>2. QED
    BY <2>1, KeptStays DEF Stored
<1>11. QED
  BY <1>1, <1>7, <1>8, <1>9, <1>10

\* What losing the views behind some tokens does.
LEMMA LoseFacts ==
  ASSUME Shapes, NEW T, Lose(T)
  PROVE  /\ viewers' \in [Viewers -> ViewerType]
         /\ \A v \in Viewers :
              /\ viewers'[v].state = viewers[v].state /\ viewers'[v].conn = viewers[v].conn
              /\ viewers'[v].token = viewers[v].token /\ viewers'[v].client = viewers[v].client
              /\ viewers'[v].looked =>
                   viewers[v].looked /\ viewers[v].token \notin T /\ viewers[v].conn \notin T
<1> DEFINE b(v) == viewers[v].looked /\ {viewers[v].token, viewers[v].conn} \cap T = {}
<1>1. viewers' = [v \in Viewers |-> [viewers[v] EXCEPT !.looked = b(v)]]
  BY DEF Lose
<1>2. ASSUME NEW v \in Viewers
      PROVE  /\ viewers'[v] = [viewers[v] EXCEPT !.looked = b(v)]
             /\ viewers[v] \in ViewerType /\ b(v) \in BOOLEAN
  BY <1>1 DEF Shapes, ViewerType
<1>3. ASSUME NEW v \in Viewers
      PROVE  /\ viewers'[v] \in ViewerType
             /\ viewers'[v].state = viewers[v].state /\ viewers'[v].conn = viewers[v].conn
             /\ viewers'[v].token = viewers[v].token /\ viewers'[v].client = viewers[v].client
             /\ viewers'[v].looked = b(v)
  <2> HIDE DEF b
  <2>1. QED
    BY <1>2 DEF ViewerType
<1>4. QED
  BY <1>1, <1>3

\* Clients that file their views and go.
LEMMA FilingStores ==
  ASSUME RejoinInv, NEW S \in SUBSET Numbers, filed' = FileAll(S),
         hashes' = Drop(hashes, S), clients' = Drop(clients, S), UNCHANGED conns,
         awaiting' \subseteq awaiting \ S,
         Lose(PushedOut(S)) \/ (S \cap DOMAIN clients = {} /\ UNCHANGED viewers)
  PROVE  Stored
<1>0. Shapes /\ TokenOpensOnePlace /\ Awaited
  BY DEF RejoinInv
<1>1. /\ filed' \in Seq(RecordType) /\ Len(filed') <= RecordLimit /\ Apart(filed')
      /\ \A i \in DOMAIN filed' :
           \/ \E j \in DOMAIN filed : filed'[i] = filed[j]
           \/ \E c \in Filers(S) : filed'[i] = Recorded(c)
      /\ Filers(S) = {} => filed' = filed
  BY <1>0, FileFacts
<1>2. /\ DOMAIN hashes' = DOMAIN hashes \ S /\ \A c \in DOMAIN hashes' : hashes'[c] = hashes[c]
      /\ DOMAIN clients' = DOMAIN clients \ S /\ \A c \in DOMAIN clients' : clients'[c] = clients[c]
  BY DEF Drop
<1>3. \A c \in Filers(S) : c \in DOMAIN hashes \cap DOMAIN clients /\ c \notin DOMAIN hashes' /\ c \in S
  BY <1>2 DEF Filers
<1>4. /\ viewers' \in [Viewers -> ViewerType]
      /\ \A v \in Viewers :
           /\ viewers'[v].state = viewers[v].state /\ viewers'[v].conn = viewers[v].conn
           /\ viewers'[v].token = viewers[v].token
           /\ viewers'[v].looked => viewers[v].looked
  BY <1>0, LoseFacts DEF Shapes
<1>5. \A c \in DOMAIN clients' : clients[c].stream # None => c \in DOMAIN hashes'
  BY <1>2 DEF RejoinInv, Owned, ClientOK
<1>6. awaiting' \subseteq awaiting \cap DOMAIN clients'
  BY <1>0, <1>2 DEF Awaited
<1>7. ASSUME NEW v \in Viewers, NEW t, viewers'[v].looked, t = Place(v), IsKept(t, v)
      PROVE  IsKept(t, v)'
  <2>0. /\ \A c, d \in DOMAIN hashes : hashes[c] = hashes[d] => c = d
        /\ \A c \in DOMAIN hashes, i \in DOMAIN filed : hashes[c] # filed[i].token
        /\ \A i, j \in DOMAIN filed : filed[i].token = filed[j].token => i = j
    BY <1>0, OnePlace DEF Apart
  <2>1. CASE S \cap DOMAIN clients = {} /\ UNCHANGED viewers
    <3>1. filed' = filed
      BY <1>1, <2>1 DEF Filers
    <3>2. QED
      BY <1>2, <1>7, <2>1, <3>1 DEF IsKept
  <2>2. CASE Lose(PushedOut(S))
    <3>1. t \notin PushedOut(S)
      BY <1>0, <1>7, <2>2, LoseFacts DEF Place
    <3>2. \A c \in DOMAIN hashes : Recorded(c).token = hashes[c] /\ Recorded(c).view = clients[c].view
      BY DEF Recorded
    <3>3. CASE \E c \in DOMAIN hashes \cap DOMAIN clients : hashes[c] = t /\ clients[c].view = v
      <4>1. PICK c \in DOMAIN hashes \cap DOMAIN clients : hashes[c] = t /\ clients[c].view = v
        BY <3>3
      <4>2. CASE c \notin S
        BY <1>2, <4>1, <4>2 DEF IsKept
      <4>3. CASE c \in S
        <5>1. t \in TokensOf(filed')
          BY <3>1, <4>1, <4>3 DEF PushedOut
        <5>2. PICK i \in DOMAIN filed' : filed'[i].token = t
          BY <5>1 DEF TokensOf
        <5>3. filed'[i] = Recorded(c)
          BY <1>1, <1>3, <2>0, <3>2, <4>1, <5>2
        <5>4. QED
          BY <3>2, <4>1, <5>2, <5>3 DEF IsKept
      <4>4. QED
        BY <4>2, <4>3
    <3>4. CASE \E i \in DOMAIN filed : filed[i].token = t /\ filed[i].view = v
      <4>1. PICK j \in DOMAIN filed : filed[j].token = t /\ filed[j].view = v
        BY <3>4
      <4>2. t \in TokensOf(filed')
        BY <3>1, <4>1 DEF PushedOut, TokensOf
      <4>3. PICK i \in DOMAIN filed' : filed'[i].token = t
        BY <4>2 DEF TokensOf
      <4>4. filed'[i] = filed[j]
        BY <1>1, <1>3, <2>0, <3>2, <4>1, <4>3
      <4>5. QED
        BY <4>1, <4>3, <4>4 DEF IsKept
    <3>5. QED
      BY <1>7, <3>3, <3>4 DEF IsKept
  <2>3. QED
    BY <2>1, <2>2
<1>8. QED
  BY <1>1, <1>2, <1>3, <1>4, <1>5, <1>6, <1>7 DEF Stored

\* A client whose token was never read is forgotten.
LEMMA ForgettingStores ==
  ASSUME RejoinInv, NEW c, IsMinted(c), c \in DOMAIN hashes => IsDead(hashes[c]),
         hashes' = Drop(hashes, {c}), UNCHANGED <<filed, viewers, conns, awaiting>>,
         \/ clients' = Drop(clients, {c}) /\ c \notin awaiting
         \/ UNCHANGED clients /\ c \in awaiting
  PROVE  Stored
<1>0. Shapes /\ TokenOpensOnePlace /\ Awaited
  BY DEF RejoinInv
<1>1. /\ DOMAIN hashes' = DOMAIN hashes \ {c} /\ \A d \in DOMAIN hashes' : hashes'[d] = hashes[d]
      /\ DOMAIN clients' \in {DOMAIN clients, DOMAIN clients \ {c}}
      /\ \A d \in DOMAIN clients' : clients'[d] = clients[d]
      /\ c \in DOMAIN clients' => c \in awaiting
      /\ awaiting \subseteq DOMAIN clients'
  BY <1>0 DEF Drop, Awaited
<1>2. \A d \in DOMAIN clients' : clients[d].stream # None => d \in DOMAIN hashes'
  <2>1. \A d \in DOMAIN clients : clients[d].stream # None => d \in DOMAIN hashes
    BY DEF RejoinInv, Owned, ClientOK
  <2>2. c \in awaiting => clients[c].stream = None
    BY <1>0 DEF Awaited, AwaitedAreAway
  <2>3. QED
    BY <1>1, <2>1, <2>2
<1>3. ASSUME NEW v \in Viewers, NEW t, Expects(v), t = Place(v), IsKept(t, v)
      PROVE  IsKept(t, v)'
  <2>1. c \in DOMAIN hashes => hashes[c] # t
    BY <1>3 DEF IsDead, Expects, Place
  <2>2. QED
    BY <1>1, <1>3, <2>1 DEF IsKept
<1>4. QED
  BY <1>0, <1>1, <1>2, <1>3, OnePlace DEF Stored, Shapes

\* A client that is detached by a command: the viewer loses what its hash opens.
LEMMA DetachingStores ==
  ASSUME RejoinInv, NEW c \in DOMAIN clients \ awaiting, clients' = Drop(clients, {c}),
         Lose({hashes[d] : d \in DOMAIN hashes \cap {c}}),
         UNCHANGED <<awaiting, hashes, filed, conns>>
  PROVE  Stored
<1>0. Shapes /\ TokenOpensOnePlace /\ Awaited
  BY DEF RejoinInv
<1>1. DOMAIN clients' = DOMAIN clients \ {c} /\ \A d \in DOMAIN clients' : clients'[d] = clients[d]
  BY DEF Drop
<1>2. /\ viewers' \in [Viewers -> ViewerType]
      /\ \A v \in Viewers :
           /\ viewers'[v].state = viewers[v].state /\ viewers'[v].conn = viewers[v].conn
           /\ viewers'[v].token = viewers[v].token
           /\ viewers'[v].looked =>
                viewers[v].looked /\ (c \in DOMAIN hashes => hashes[c] \notin {viewers[v].token, viewers[v].conn})
  BY <1>0, LoseFacts
<1>3. \A d \in DOMAIN clients' : clients[d].stream # None => d \in DOMAIN hashes
  BY <1>1 DEF RejoinInv, Owned, ClientOK
<1>4. awaiting' \subseteq awaiting \cap DOMAIN clients'
  BY <1>0, <1>1 DEF Awaited
<1>5. ASSUME NEW v \in Viewers, NEW t, viewers'[v].looked, t = Place(v), IsKept(t, v)
      PROVE  IsKept(t, v)'
  <2>1. c \in DOMAIN hashes => hashes[c] # t
    BY <1>2, <1>5 DEF Place
  <2>2. QED
    BY <1>1, <1>5, <2>1 DEF IsKept
<1>6. QED
  BY <1>0, <1>1, <1>2, <1>3, <1>4, <1>5, OnePlace DEF Stored, Shapes

\* The oldest filed view is over.
LEMMA ExpiryStores ==
  ASSUME RejoinInv, ViewExpires
  PROVE  Stored
<1>0. Shapes /\ TokenOpensOnePlace /\ Awaited /\ filed \in Seq(RecordType) /\ filed # <<>>
      /\ filed' = Tail(filed) /\ Lose({filed[1].token})
      /\ UNCHANGED <<clients, awaiting, hashes, conns>>
  BY DEF RejoinInv, ViewExpires, Shapes
<1>1. /\ filed' \in Seq(RecordType) /\ Len(filed) \in Nat /\ Len(filed) >= 1
      /\ DOMAIN filed = 1 .. Len(filed) /\ DOMAIN filed' = 1 .. Len(filed) - 1
      /\ Len(filed') = Len(filed) - 1
      /\ \A i \in 1 .. Len(filed) - 1 : filed'[i] = filed[i + 1] /\ i + 1 \in 1 .. Len(filed)
  <2>1. PICK q : q = filed
    OBVIOUS
  <2>2. q \in Seq(RecordType) /\ q # <<>> /\ filed' = Tail(q)
    BY <1>0, <2>1
  <2>3. QED
    BY <2>1, <2>2
<1>2. Apart(filed')
  <2> SUFFICES ASSUME NEW i \in DOMAIN filed', NEW j \in DOMAIN filed', filed'[i].token = filed'[j].token
               PROVE  i = j
    BY DEF Apart
  <2>1. i + 1 = j + 1
    BY <1>0, <1>1, OnePlace DEF Apart
  <2>2. QED
    BY <1>1, <2>1
<1>3. /\ viewers' \in [Viewers -> ViewerType]
      /\ \A v \in Viewers :
           /\ viewers'[v].state = viewers[v].state /\ viewers'[v].conn = viewers[v].conn
           /\ viewers'[v].token = viewers[v].token
           /\ viewers'[v].looked =>
                viewers[v].looked /\ filed[1].token \notin {viewers[v].token, viewers[v].conn}
  BY <1>0, LoseFacts
<1>4. ASSUME NEW v \in Viewers, NEW t, viewers'[v].looked, t = Place(v), IsKept(t, v)
      PROVE  IsKept(t, v)'
  <2>1. filed[1].token # t
    BY <1>3, <1>4 DEF Place
  <2>2. CASE \E i \in DOMAIN filed : filed[i].token = t /\ filed[i].view = v
    <3>1. PICK i \in DOMAIN filed : filed[i].token = t /\ filed[i].view = v
      BY <2>2
    <3>2. i - 1 \in DOMAIN filed' /\ (i - 1) + 1 = i
      BY <1>1, <2>1, <3>1
    <3>3. filed'[i - 1] = filed[i]
      BY <1>1, <3>2
    <3>4. QED
      BY <3>1, <3>2, <3>3 DEF IsKept
  <2>3. CASE \E c \in DOMAIN hashes \cap DOMAIN clients : hashes[c] = t /\ clients[c].view = v
    BY <1>0, <2>3 DEF IsKept
  <2>4. QED
    BY <1>4, <2>2, <2>3 DEF IsKept
<1>5. Len(filed') <= RecordLimit
  BY <1>0, <1>1, RejoinAssumption DEF Shapes
<1>6. \A c \in DOMAIN clients' : clients[c].stream # None => c \in DOMAIN hashes'
  BY <1>0 DEF RejoinInv, Owned, ClientOK
<1>7. \A i \in DOMAIN filed' : \E j \in DOMAIN filed : filed'[i] = filed[j]
  BY <1>1
<1>8. QED
  BY <1>0, <1>1, <1>2, <1>3, <1>4, <1>5, <1>6, <1>7 DEF Stored, Awaited

\* A step that leaves the store, the viewers and the connections alone.
LEMMA QuietStores ==
  ASSUME RejoinInv, UNCHANGED <<clients, awaiting, hashes, filed, viewers, conns>>
  PROVE  Stored
<1>1. Shapes /\ Apart(filed) /\ awaiting \subseteq DOMAIN clients
  BY OnePlace DEF RejoinInv, Awaited
<1>2. \A c \in DOMAIN clients : clients[c].stream # None => c \in DOMAIN hashes
  BY DEF RejoinInv, Owned, ClientOK
<1>3. Apart(filed') /\ \A v \in Viewers : \A t : IsKept(t, v) => IsKept(t, v)'
  BY <1>1 DEF Apart, IsKept
<1>4. QED
  BY <1>1, <1>2, <1>3 DEF Stored, Shapes

-----------------------------------------------------------------------------
(* Steps of the dispatcher on the store *)

\* The windows stay in order while none opens, no timer fires and no swap starts.
LEMMA WindowStays ==
  ASSUME WindowsOK, UNCHANGED windowVars,
         phase' \in {"told", "refusing"} => opening < MaxSwaps,
         \A i \in DOMAIN inbox' :
           inbox'[i].kind = "drop" => \E j \in DOMAIN inbox : inbox'[i] = inbox[j]
  PROVE  WindowsOK'
BY DEF WindowsOK, windowVars

\* A step on the store keeps the invariant, whether it takes an event or not.
LEMMA StoredInv ==
  ASSUME RejoinInv, Stored, UNCHANGED windowVars, isQuit' \in BOOLEAN, phase' \in Phases,
         phase' \in {"told", "refusing"} => opening < MaxSwaps,
         UNCHANGED inbox \/ (inbox # <<>> /\ inbox' = Tail(inbox))
  PROVE  RejoinInv'
<1>1. /\ Orderly /\ Owned' /\ Awaited' /\ TokenOpensOnePlace'
      /\ \A v \in Viewers : KeptOK(v)'
  BY StoredStep
<1>2. Shapes /\ EventsOK /\ WindowsOK /\ \A c \in DOMAIN hashes : HashOK(c)
  BY DEF RejoinInv, Owned
<1>3. /\ \A c \in DOMAIN hashes' : c \in DOMAIN hashes /\ hashes'[c] = hashes[c]
      /\ \A k \in DOMAIN conns : conns[k].state = "asking" => conns'[k].state = "asking"
  BY DEF Stored
<1>4. ASSUME NEW e, \E i \in DOMAIN inbox : e = inbox[i] PROVE EventOK(e)'
  BY <1>1, <1>2, <1>3, <1>4, AllEventsStay
<1>5. /\ EventsOK' /\ inbox' \in Seq(Events)
      /\ \A i \in DOMAIN inbox' : \E j \in DOMAIN inbox : inbox'[i] = inbox[j]
  <2>1. CASE UNCHANGED inbox
    <3>1. EventsOK' /\ inbox' \in Seq(Events)
      BY <1>2, <1>4, <2>1, EventsStay
    <3>2. QED
      BY <2>1, <3>1
  <2>2. CASE inbox # <<>> /\ inbox' = Tail(inbox)
    <3>1. DOMAIN inbox = 1 .. Len(inbox) /\ Len(inbox) \in Nat
      BY <1>2 DEF Shapes
    <3>2. \A i \in 2 .. Len(inbox) : i \in DOMAIN inbox
      BY <3>1
    <3>3. \A e : (\E i \in 2 .. Len(inbox) : e = inbox[i]) => EventOK(e)'
      BY <1>4, <3>2
    <3>4. /\ EventsOK' /\ inbox' \in Seq(Events)
          /\ \A i \in DOMAIN inbox' : \E j \in 2 .. Len(inbox) : inbox'[i] = inbox[j]
      BY <1>2, <2>2, <3>3, EventsTail
    <3>5. QED
      BY <3>2, <3>4
  <2>3. QED
    BY <2>1, <2>2
<1>6. WindowsOK'
  BY <1>2, <1>5, WindowStays
<1>7. Shapes'
  BY <1>2, <1>5 DEF Shapes, Stored
<1>8. QED
  BY <1>1, <1>5, <1>6, <1>7 DEF RejoinInv

\* The first event, and what the invariant says of it.
LEMMA HeadFacts ==
  ASSUME Shapes, EventsOK, inbox # <<>>
  PROVE  /\ Head(inbox) = inbox[1] /\ 1 \in DOMAIN inbox
         /\ EventOK(Head(inbox)) /\ Head(inbox) \in Events
<1>1. Head(inbox) = inbox[1] /\ 1 \in DOMAIN inbox /\ Head(inbox) \in Events
  <2>1. PICK q : q = inbox
    OBVIOUS
  <2>2. q \in Seq(Events) /\ q # <<>>
    BY <2>1 DEF Shapes
  <2>3. QED
    BY <2>1, <2>2
<1>2. QED
  BY <1>1 DEF EventsOK

LEMMA QuitType ==
  ASSUME RejoinInv, NEW c, NEW b, RemoveRecord(c, b)
  PROVE  isQuit' \in BOOLEAN
BY DEF RemoveRecord

\* A detach is handled.
LEMMA HandleDetachedStep ==
  ASSUME RejoinInv, NEW e, e = Head(inbox), e.kind = "detached", HandleDetached(e),
         inbox # <<>>, inbox' = Tail(inbox), UNCHANGED phase
  PROVE  RejoinInv'
<1>0. Shapes /\ EventsOK /\ WindowsOK /\ phase \in Phases /\ isQuit \in BOOLEAN
  BY DEF RejoinInv, Shapes
<1>1. IsMinted(e.client) /\ (~e.streamed /\ e.client \in DOMAIN hashes => IsDead(hashes[e.client]))
  <2>1. EventOK(e)
    BY <1>0, HeadFacts
  <2>2. QED
    BY <2>1 DEF EventOK
<1>2. UNCHANGED windowVars
  BY DEF HandleDetached
<1>3. isQuit' \in BOOLEAN
  BY <1>0, QuitType DEF HandleDetached
<1>4. Stored
  <2>1. CASE IsPassedOver
    BY <2>1, QuietStores DEF HandleDetached, storeVars
  <2>2. CASE ~IsPassedOver /\ ~e.streamed
    <3>1. /\ hashes' = Drop(hashes, {e.client})
          /\ UNCHANGED <<filed, viewers, conns, awaiting>>
          /\ \/ clients' = Drop(clients, {e.client}) /\ e.client \notin awaiting
             \/ UNCHANGED clients /\ e.client \in awaiting
      BY <2>2 DEF HandleDetached, HashGone, RemoveRecord
    <3>2. QED
      BY <1>1, <2>2, <3>1, ForgettingStores
  <2>3. CASE ~IsPassedOver /\ e.streamed /\ e.client \in awaiting
    BY <2>3, QuietStores DEF HandleDetached, storeVars
  <2>4. CASE ~IsPassedOver /\ e.streamed /\ e.client \notin awaiting
    <3>1. /\ filed' = FileAll({e.client}) /\ hashes' = Drop(hashes, {e.client})
          /\ clients' = Drop(clients, {e.client}) /\ UNCHANGED <<conns, awaiting>>
          /\ Lose(PushedOut({e.client})) \/ (e.client \notin DOMAIN clients /\ UNCHANGED viewers)
      BY <2>4 DEF HandleDetached, HashGone, RemoveRecord
    <3>2. {e.client} \in SUBSET Numbers
      <4>1. e.client \in DOMAIN conns
        BY <1>1 DEF IsMinted
      <4>2. QED
        BY <1>0, <4>1, RejoinAssumption DEF Shapes, Numbers
    <3>3. awaiting' \subseteq awaiting \ {e.client}
      BY <2>4, <3>1
    <3>4. QED
      BY <3>1, <3>2, <3>3, FilingStores
  <2>5. QED
    BY <2>1, <2>2, <2>3, <2>4
<1>5. QED
  BY <1>0, <1>2, <1>3, <1>4, StoredInv DEF WindowsOK

\* The event of a timer is handled.
LEMMA HandleDropStep ==
  ASSUME RejoinInv, NEW e, HandleDrop(e), inbox # <<>>, inbox' = Tail(inbox), UNCHANGED phase
  PROVE  RejoinInv'
<1>0. Shapes /\ WindowsOK /\ Awaited /\ phase \in Phases /\ isQuit \in BOOLEAN
  BY DEF RejoinInv, Shapes
<1>1. UNCHANGED windowVars /\ UNCHANGED isQuit
  BY DEF HandleDrop
<1>2. Stored
  <2>1. CASE ~IsOwnWindow(e)
    BY <2>1, QuietStores DEF HandleDrop, storeVars
  <2>2. CASE IsOwnWindow(e)
    <3>1. /\ awaiting' = {} /\ filed' = FileAll(awaiting) /\ Lose(PushedOut(awaiting))
          /\ hashes' = Drop(hashes, awaiting) /\ clients' = Drop(clients, awaiting)
          /\ UNCHANGED conns
      BY <2>2 DEF HandleDrop
    <3>2. awaiting \in SUBSET Numbers
      BY <1>0 DEF Awaited, Shapes
    <3>3. awaiting' \subseteq awaiting \ awaiting
      BY <3>1
    <3>4. QED
      BY <3>1, <3>2, <3>3, FilingStores
  <2>3. QED
    BY <2>1, <2>2
<1>3. QED
  BY <1>0, <1>1, <1>2, StoredInv DEF WindowsOK

\* A view expires, a client is detached by a command, a quit comes, the session
\* ends, or its requests are refused.
LEMMA StoreStep ==
  ASSUME RejoinInv,
         \/ ViewExpires
         \/ \E c \in DOMAIN clients : DetachCommand(c)
         \/ KillCommand \/ SessionEnds \/ StartRefusingRequests
  PROVE  RejoinInv'
<1>0. Shapes /\ WindowsOK /\ phase \in Phases /\ isQuit \in BOOLEAN
  BY DEF RejoinInv, Shapes
<1>1. CASE ViewExpires
  <2>1. Stored
    BY <1>1, ExpiryStores
  <2>2. UNCHANGED <<inbox, windowVars, phase, isQuit>>
    BY <1>1 DEF ViewExpires
  <2>3. QED
    BY <1>0, <2>1, <2>2, StoredInv DEF WindowsOK
<1>2. CASE \E c \in DOMAIN clients : DetachCommand(c)
  <2>1. PICK c \in DOMAIN clients : DetachCommand(c)
    BY <1>2
  <2>2. Stored
    BY <2>1, DetachingStores DEF DetachCommand, RemoveRecord
  <2>3. UNCHANGED <<inbox, windowVars, phase>> /\ isQuit' \in BOOLEAN
    BY <2>1, QuitType DEF DetachCommand
  <2>4. QED
    BY <1>0, <2>2, <2>3, StoredInv DEF WindowsOK
<1>3. CASE KillCommand
  <2>1. Stored
    BY <1>3, QuietStores DEF KillCommand, storeVars
  <2>2. UNCHANGED <<inbox, windowVars, phase>> /\ isQuit' \in BOOLEAN
    BY <1>3 DEF KillCommand
  <2>3. QED
    BY <1>0, <2>1, <2>2, StoredInv DEF WindowsOK
<1>4. CASE SessionEnds
  <2>1. Stored
    BY <1>4, QuietStores DEF SessionEnds, storeVars
  <2>2. UNCHANGED <<inbox, windowVars, isQuit>> /\ phase' = "ended"
    BY <1>4 DEF SessionEnds
  <2>3. QED
    BY <1>0, <2>1, <2>2, StoredInv DEF Phases
<1>5. CASE StartRefusingRequests
  <2>1. Stored
    BY <1>5, QuietStores DEF StartRefusingRequests, storeVars
  <2>2. UNCHANGED <<inbox, windowVars, isQuit>> /\ phase' = "refusing" /\ opening < MaxSwaps
    BY <1>0, <1>5 DEF StartRefusingRequests, WindowsOK
  <2>3. QED
    BY <1>0, <2>1, <2>2, StoredInv DEF Phases
<1>6. QED
  BY <1>1, <1>2, <1>3, <1>4, <1>5

\* A timer fires.
LEMMA TimerStep ==
  ASSUME RejoinInv, NEW t \in timers, TimerFires(t)
  PROVE  RejoinInv'
<1>0. Shapes /\ EventsOK /\ WindowsOK /\ \A c \in DOMAIN hashes : HashOK(c)
  BY DEF RejoinInv, Owned
<1>1. Stored
  BY QuietStores DEF TimerFires, storeVars
<1>2. /\ Orderly /\ Owned' /\ Awaited' /\ TokenOpensOnePlace'
      /\ \A v \in Viewers : KeptOK(v)'
  BY <1>1, StoredStep
<1> DEFINE e == [kind |-> "drop", id |-> t.id]
<1>3. /\ t.id \in 0 .. nextWindow - 1 /\ t.id \in Nat /\ (t.id = window => t.opening = opening)
  BY <1>0 DEF WindowsOK
<1>4. e \in Events /\ e.kind = "drop" /\ e.id = t.id
  BY <1>3 DEF Events
<1>5. inbox' = Append(inbox, e) /\ timers' = timers \ {t}
      /\ hasRunOut' = (hasRunOut \/ t.opening = opening)
      /\ UNCHANGED <<clients, awaiting, hashes, filed, window, nextWindow, opening,
                     phase, isQuit, conns, viewers>>
  BY DEF TimerFires, storeVars
<1> HIDE DEF e
<1>6. \A x : (\E i \in DOMAIN inbox : x = inbox[i]) => EventOK(x)'
  BY <1>0, <1>2, <1>5, AllEventsStay
<1>7. EventOK(e)'
  BY <1>4 DEF EventOK
<1>8. /\ EventsOK' /\ inbox' \in Seq(Events)
      /\ \A i \in DOMAIN inbox' : inbox'[i] = e \/ \E j \in DOMAIN inbox : inbox'[i] = inbox[j]
  BY <1>0, <1>4, <1>5, <1>6, <1>7, EventsAppend
<1>9. WindowsOK'
  <2>1. hasRunOut' \in BOOLEAN /\ (hasRunOut => hasRunOut') /\ (t.id = window => hasRunOut')
    BY <1>0, <1>3, <1>5 DEF WindowsOK
  <2>2. \A i \in DOMAIN inbox' :
          inbox'[i].kind = "drop" =>
            inbox'[i].id \in 0 .. nextWindow - 1 /\ (inbox'[i].id = window => hasRunOut')
    BY <1>0, <1>3, <1>4, <1>8, <2>1 DEF WindowsOK
  <2>3. QED
    BY <1>0, <1>5, <2>1, <2>2 DEF WindowsOK
<1>10. Shapes'
  BY <1>0, <1>5, <1>8 DEF Shapes
<1>11. QED
  BY <1>2, <1>8, <1>9, <1>10 DEF RejoinInv

-----------------------------------------------------------------------------
(* Steps of connections and viewers *)

\* Hashes and filed views are as they were, and so are the records, but that a
\* stream may have ended.
StoreSame ==
  /\ UNCHANGED <<hashes, filed>>
  /\ DOMAIN clients' = DOMAIN clients
  /\ \A c \in DOMAIN clients :
       /\ clients'[c] \in ClientType /\ clients'[c].view = clients[c].view
       /\ clients'[c].stream \in {clients[c].stream, None}

LEMMA StoreSameStep ==
  ASSUME RejoinInv, Orderly, StoreSame
  PROVE  /\ \A c \in DOMAIN clients' : ClientOK(c)'
         /\ \A c \in DOMAIN hashes' : HashOK(c)'
         /\ \A i \in DOMAIN filed' : RecordOK(filed[i])'
         /\ TokenOpensOnePlace'
         /\ \A t, v : IsKept(t, v) => IsKept(t, v)'
<1>1. ASSUME NEW c \in DOMAIN clients' PROVE ClientOK(c)'
  <2>1. c \in DOMAIN clients /\ ClientOK(c)
    BY DEF RejoinInv, Owned, StoreSame
  <2>2. IsMinted(c)' /\ conns'[c].viewer = conns[c].viewer
    BY <2>1, KnownStays DEF ClientOK
  <2>3. QED
    BY <2>1, <2>2 DEF ClientOK, StoreSame
<1>2. ASSUME NEW c \in DOMAIN hashes' PROVE HashOK(c)'
  <2>1. c \in DOMAIN hashes /\ HashOK(c) /\ hashes'[c] = hashes[c]
    BY DEF RejoinInv, Owned, StoreSame
  <2>2. PICK t : t = hashes[c]
    OBVIOUS
  <2>3. IsMinted(c)' /\ IsMinted(t)' /\ conns'[c].viewer = conns'[t].viewer
    BY <2>1, <2>2, KnownStays DEF HashOK
  <2>4. QED
    BY <2>1, <2>2, <2>3 DEF HashOK, IsMinted
<1>3. ASSUME NEW i \in DOMAIN filed' PROVE RecordOK(filed[i])'
  <2>1. i \in DOMAIN filed /\ RecordOK(filed[i]) /\ filed'[i] = filed[i]
    BY DEF RejoinInv, Owned, StoreSame
  <2>2. PICK t : t = filed[i].token
    OBVIOUS
  <2>3. IsMinted(t)' /\ conns'[t].viewer = conns[t].viewer
    BY <2>1, <2>2, KnownStays DEF RecordOK
  <2>4. QED
    BY <2>1, <2>2, <2>3 DEF RecordOK, IsMinted
<1>4. TokenOpensOnePlace'
  BY DEF RejoinInv, TokenOpensOnePlace, TokensOf, StoreSame
<1>5. \A t, v : IsKept(t, v) => IsKept(t, v)'
  BY DEF IsKept, StoreSame
<1>6. QED
  BY <1>1, <1>2, <1>3, <1>4, <1>5

\* What a place opens is in the store.
LEMMA KeptIsNumber ==
  ASSUME Shapes, NEW t, NEW v, IsKept(t, v)
  PROVE  t \in Numbers /\ t # None
<1>1. \A i \in DOMAIN filed : filed[i] \in RecordType
  BY DEF Shapes
<1>2. \A i \in DOMAIN filed : filed[i].token \in Numbers
  BY <1>1 DEF RecordType
<1>3. t \in Numbers
  BY <1>2 DEF IsKept, Shapes
<1>4. QED
  BY <1>3, RejoinAssumption DEF Numbers

\* A place is its viewer's own.
LEMMA PlaceIsOwn ==
  ASSUME RejoinInv, NEW v \in Viewers, NEW t, t = Place(v), IsKept(t, v)
  PROVE  t \in DOMAIN conns /\ conns[t].viewer = v
<1>1. t # None
  BY KeptIsNumber DEF RejoinInv
<1>2. ViewerOK(v)
  BY DEF RejoinInv, Owned
<1>3. QED
  BY <1>1, <1>2 DEF Place, ViewerOK, IsRead

\* Connections stay as they were, or close.
Settling ==
  /\ conns' \in Seq(ConnType) /\ DOMAIN conns' = DOMAIN conns
  /\ \A k \in DOMAIN conns :
       /\ conns'[k].viewer = conns[k].viewer
       /\ \/ /\ conns'[k].state = conns[k].state /\ conns'[k].token = conns[k].token
             /\ conns'[k].client = conns[k].client
          \/ conns'[k].state = "done" /\ conns'[k].token = None

\* A viewer does nothing but perhaps lose its view.
Idle(v) ==
  /\ viewers'[v].state = viewers[v].state /\ viewers'[v].conn = viewers[v].conn
  /\ viewers'[v].token = viewers[v].token /\ viewers'[v].looked = viewers[v].looked

LEMMA SettlingStep ==
  ASSUME RejoinInv, Settling, StoreSame,
         \A v \in Viewers : viewers'[v].token \in {None, viewers[v].token}
  PROVE  /\ Orderly /\ \A k \in DOMAIN conns' : ConnOK(k)'
         /\ \A v \in Viewers : Idle(v) => ViewerOK(v)' /\ KeptOK(v)'
<1>1. Orderly
  BY DEF Settling, Orderly
<1>2. ASSUME NEW k \in DOMAIN conns' PROVE ConnOK(k)'
  <2>1. k \in DOMAIN conns /\ ConnOK(k)
    BY DEF RejoinInv, Owned, Settling
  <2>2. PICK t, c : t = conns[k].token /\ c = conns[k].client
    OBVIOUS
  <2>3. /\ t # None => IsRead(t)' /\ conns'[t].viewer = conns[k].viewer
        /\ conns[k].state \in {"accepted", "streaming"} => IsMinted(c)'
    BY <1>1, <2>1, <2>2, KnownStays DEF ConnOK
  <2>4. QED
    BY <2>1, <2>2, <2>3 DEF ConnOK, Settling, StoreSame, IsRead, IsMinted
<1>3. ASSUME NEW v \in Viewers, Idle(v) PROVE ViewerOK(v)' /\ KeptOK(v)'
  <2>1. ViewerOK(v) /\ KeptOK(v) /\ Shapes
    BY DEF RejoinInv, Owned
  <2>2. viewers[v].token # None =>
          /\ viewers[v].token \in DOMAIN conns' /\ conns'[viewers[v].token].viewer = v
          /\ conns'[viewers[v].token].state \in {"streaming", "done"}
    BY <1>1, <2>1 DEF ViewerOK, IsRead, Orderly
  <2>3. viewers[v].state = "on" => \A k \in DOMAIN conns' : conns'[k].token # viewers[v].token
    <3> SUFFICES ASSUME viewers[v].state = "on", NEW k \in DOMAIN conns
                 PROVE  conns'[k].token # viewers[v].token
      BY DEF Settling
    <3>1. viewers[v].token \in DOMAIN conns /\ conns[k].token # viewers[v].token
      BY <2>1 DEF ViewerOK
    <3>2. viewers[v].token # None
      BY <2>1, <3>1, RejoinAssumption DEF Shapes
    <3>3. QED
      BY <3>1, <3>2 DEF Settling
  <2>4. ViewerOK(v)'
    BY <1>3, <2>1, <2>2, <2>3 DEF ViewerOK, IsRead, Settling, Idle
  <2>5. \A t : IsKept(t, v) => IsKept(t, v)'
    BY <1>1, StoreSameStep
  <2>6. KeptOK(v)'
    <3>1. /\ \A k \in DOMAIN conns' :
               conns'[k].state = "asking" =>
                 k \in DOMAIN conns /\ conns[k].state = "asking" /\ conns'[k].token = conns[k].token
          /\ \A k \in DOMAIN conns : conns'[k].state \in {conns[k].state, "done"}
      BY DEF Settling
    <3>2. viewers[v].state = "joining" => viewers[v].conn \in DOMAIN conns
      BY <2>1 DEF ViewerOK
    <3>3. QED
      BY <1>3, <2>1, <2>5, <3>1, <3>2, KeptStays DEF Idle
  <2>7. QED
    BY <2>4, <2>6
<1>4. QED
  BY <1>1, <1>2, <1>3

\* Every event that waits stays in order when connections settle and no
\* attach waits, or none of them closes before its answer.
LEMMA SettlingEvents ==
  ASSUME RejoinInv, Settling, StoreSame, Orderly,
         \A k \in DOMAIN conns : conns[k].state = "asking" => conns'[k].state = "asking",
         NEW e, \E i \in DOMAIN inbox : e = inbox[i]
  PROVE  EventOK(e)'
<1>1. Shapes /\ EventsOK /\ \A c \in DOMAIN hashes : HashOK(c)
  BY DEF RejoinInv, Owned
<1>2. \A c \in DOMAIN hashes' : c \in DOMAIN hashes /\ hashes'[c] = hashes[c]
  BY DEF StoreSame
<1>3. QED
  BY <1>1, <1>2, AllEventsStay

\* What has to be seen of a step on which connections settle.
LEMMA SettlingInv ==
  ASSUME RejoinInv, Settling, StoreSame, viewers' \in [Viewers -> ViewerType],
         \A v \in Viewers : viewers'[v].token \in {None, viewers[v].token},
         \A v \in Viewers : Idle(v) \/ (ViewerOK(v)' /\ KeptOK(v)'),
         EventsOK', inbox' \in Seq(Events), Awaited', WindowsOK', phase' \in Phases,
         isQuit' \in BOOLEAN
  PROVE  RejoinInv'
<1>1. /\ Orderly /\ \A k \in DOMAIN conns' : ConnOK(k)'
      /\ \A v \in Viewers : ViewerOK(v)' /\ KeptOK(v)'
  BY SettlingStep
<1>2. /\ \A c \in DOMAIN clients' : ClientOK(c)'
      /\ \A c \in DOMAIN hashes' : HashOK(c)'
      /\ \A i \in DOMAIN filed' : RecordOK(filed[i])'
      /\ TokenOpensOnePlace'
  BY <1>1, StoreSameStep
<1>3. Owned'
  BY <1>1, <1>2 DEF Owned
<1>4. Shapes'
  <2>1. Shapes
    BY DEF RejoinInv
  <2>2. Len(conns') = Len(conns)
    BY <2>1 DEF Shapes, Settling
  <2>3. QED
    BY <2>1, <2>2 DEF Shapes, Settling, StoreSame
<1>5. QED
  BY <1>1, <1>2, <1>3, <1>4 DEF RejoinInv

\* Records, hashes and filed views that stay as they are.
LEMMA SameStore ==
  ASSUME RejoinInv, UNCHANGED <<clients, hashes, filed>>
  PROVE  StoreSame
BY DEF RejoinInv, Shapes, StoreSame

\* A viewer's own step, away from its connection.
LEMMA ViewerStepInv ==
  ASSUME RejoinInv, NEW v \in Viewers, viewers[v].state \notin {"new", "gone"},
         NEW state \in {"gone", "rejoin", "redial"}, NEW link \in Links, ViewerStep(v, state, link)
  PROVE  RejoinInv'
<1>0. /\ Shapes /\ ViewerOK(v) /\ KeptOK(v) /\ EventsOK /\ WindowsOK /\ Awaited
      /\ viewers \in [Viewers -> ViewerType] /\ conns \in Seq(ConnType)
  BY DEF RejoinInv, Owned, Shapes
<1>1. /\ UNCHANGED <<clients, awaiting, hashes, filed, inbox, windowVars, phase, isQuit>>
      /\ conns' = [conns EXCEPT ![viewers[v].conn].link = IF @ = "up" THEN link ELSE @]
  BY DEF ViewerStep, storeVars
<1>2. StoreSame
  BY <1>1, SameStore
<1>3. /\ Settling
      /\ \A k \in DOMAIN conns : conns'[k].state = conns[k].state /\ conns'[k].token = conns[k].token
  <2>1. viewers[v].conn \in DOMAIN conns
    BY <1>0 DEF ViewerOK
  <2>2. PICK m, l : m = viewers[v].conn /\ l = IF conns[m].link = "up" THEN link ELSE conns[m].link
    OBVIOUS
  <2>3. conns' = [conns EXCEPT ![m] = [conns[m] EXCEPT !.link = l]]
    BY <1>1, <2>2
  <2>4. conns[m] \in ConnType /\ l \in Links
    <3>1. conns[m] \in ConnType
      BY <1>0, <2>1, <2>2
    <3>2. conns[m].link \in Links
      BY <3>1 DEF ConnType
    <3>3. QED
      BY <2>2, <3>1, <3>2
  <2>5. /\ [conns[m] EXCEPT !.link = l] \in ConnType
        /\ [conns[m] EXCEPT !.link = l].viewer = conns[m].viewer
        /\ [conns[m] EXCEPT !.link = l].state = conns[m].state
        /\ [conns[m] EXCEPT !.link = l].token = conns[m].token
        /\ [conns[m] EXCEPT !.link = l].client = conns[m].client
    BY <2>4 DEF ConnType
  <2>6. /\ DOMAIN conns' = DOMAIN conns
        /\ \A k \in DOMAIN conns : conns'[k] = IF k = m THEN [conns[m] EXCEPT !.link = l] ELSE conns[k]
    BY <2>1, <2>2, <2>3
  <2>7. conns' \in Seq(ConnType)
    BY <1>0, <2>1, <2>2, <2>3, <2>5
  <2>8. QED
    BY <2>5, <2>6, <2>7 DEF Settling
<1>4. /\ viewers' \in [Viewers -> ViewerType]
      /\ \A u \in Viewers \ {v} : viewers'[u] = viewers[u]
      /\ state = "gone" => viewers'[v] = NoViewer
      /\ state # "gone" =>
           /\ viewers'[v].state = state /\ viewers'[v].token = viewers[v].token
           /\ viewers'[v].conn = viewers[v].conn
           /\ viewers'[v].looked = (viewers[v].looked /\ viewers[v].state # "joining")
  <2>1. PICK b \in BOOLEAN : b = (viewers[v].looked /\ viewers[v].state # "joining")
    OBVIOUS
  <2>2. PICK w : w = IF state = "gone" THEN NoViewer
                     ELSE [viewers[v] EXCEPT !.state = state, !.looked = b]
    OBVIOUS
  <2>3. viewers' = [viewers EXCEPT ![v] = w]
    BY <2>1, <2>2 DEF ViewerStep
  <2>4. viewers[v] \in ViewerType /\ NoViewer \in ViewerType
    BY <1>0 DEF NoViewer, ViewerType, ViewerStates
  <2>5. w \in ViewerType /\ (state = "gone" => w = NoViewer)
        /\ (state # "gone" => /\ w.state = state /\ w.token = viewers[v].token
                              /\ w.conn = viewers[v].conn /\ w.looked = b)
    BY <2>2, <2>4 DEF ViewerType, ViewerStates
  <2>6. QED
    BY <1>0, <2>1, <2>3, <2>5
<1>5. \A u \in Viewers : viewers'[u].token \in {None, viewers[u].token}
  BY <1>4 DEF NoViewer
<1>6. Orderly
  BY <1>2, <1>3, <1>5, SettlingStep
<1>7. ViewerOK(v)' /\ KeptOK(v)'
  <2>1. CASE state = "gone"
    BY <1>4, <2>1 DEF ViewerOK, KeptOK, NoViewer
  <2>2. CASE state # "gone"
    <3>1. viewers[v].token # None =>
            /\ viewers[v].token \in DOMAIN conns' /\ conns'[viewers[v].token].viewer = v
            /\ conns'[viewers[v].token].state \in {"streaming", "done"}
      BY <1>0, <1>6 DEF ViewerOK, IsRead, Orderly
    <3>2. ViewerOK(v)'
      BY <1>0, <1>3, <1>4, <2>2, <3>1 DEF ViewerOK, IsRead, Settling
    <3>3. ASSUME viewers'[v].looked
          PROVE  /\ IsKept(Place(v), v)'
                 /\ \A k \in DOMAIN conns' :
                      ~(conns'[k].state = "asking" /\ conns'[k].token = Place(v)')
      <4>1. viewers[v].looked /\ viewers[v].state # "joining"
        BY <1>4, <2>2, <3>3
      <4>2. PICK t : t = Place(v)
        OBVIOUS
      <4>3. /\ IsKept(t, v)
            /\ \A k \in DOMAIN conns : ~(conns[k].state = "asking" /\ conns[k].token = t)
        BY <1>0, <4>1, <4>2 DEF KeptOK, Expects
      <4>4. Place(v)' = t
        BY <1>4, <2>2, <4>1, <4>2 DEF Place
      <4>5. IsKept(t, v)'
        BY <1>2, <1>6, <4>3, StoreSameStep
      <4>6. IsKept(Place(v), v)'
        BY <4>4, <4>5 DEF IsKept
      <4>7. QED
        BY <1>3, <4>3, <4>4, <4>6 DEF Settling
    <3>4. QED
      BY <3>2, <3>3 DEF KeptOK
  <2>3. QED
    BY <2>1, <2>2
<1>8. \A u \in Viewers : Idle(u) \/ (ViewerOK(u)' /\ KeptOK(u)')
  BY <1>4, <1>7 DEF Idle
<1>9. \A e : (\E i \in DOMAIN inbox : e = inbox[i]) => EventOK(e)'
  BY <1>2, <1>3, <1>6, SettlingEvents
<1>10. EventsOK' /\ inbox' \in Seq(Events)
  BY <1>0, <1>1, <1>9, EventsStay
<1>11. WindowsOK' /\ Awaited'
  BY <1>0, <1>1 DEF WindowsOK, windowVars, Awaited, AwaitedAreAway
<1>12. phase' \in Phases /\ isQuit' \in BOOLEAN
  BY <1>0, <1>1 DEF Shapes
<1>13. QED
  BY <1>2, <1>3, <1>4, <1>5, <1>8, <1>10, <1>11, <1>12, SettlingInv

\* What a viewer does away from its session: it reads of the restart, its link
\* dies, its join breaks, it leaves, it is told goodbye, or it gives up.
LEMMA ViewerLeaves ==
  ASSUME RejoinInv, NEW v \in Viewers,
         \/ ReadRestarting(v) \/ LinkDies(v) \/ JoinBreaks(v)
         \/ Leave(v) \/ ReadGoodbye(v) \/ GiveUp(v)
  PROVE  RejoinInv'
<1>1. /\ viewers[v].state \notin {"new", "gone"}
      /\ \E state \in {"gone", "rejoin", "redial"}, link \in Links : ViewerStep(v, state, link)
  BY DEF ReadRestarting, LinkDies, JoinBreaks, Leave, ReadGoodbye, GiveUp, Links
<1>2. QED
  BY <1>1, ViewerStepInv

\* What is left of a connection that closes.
LEMMA ClosedFacts ==
  ASSUME RejoinInv, NEW k \in DOMAIN conns
  PROVE  /\ Closed(k) \in ConnType /\ Closed(k).viewer = conns[k].viewer
         /\ Closed(k).state = "done" /\ Closed(k).token = None
<1>1. conns[k].viewer \in Viewers
  BY DEF RejoinInv, Owned, ConnOK
<1>2. PICK b \in BOOLEAN :
        b = (conns[k].told /\ viewers[conns[k].viewer].conn = k /\ viewers[conns[k].viewer].state = "on")
  OBVIOUS
<1>3. Closed(k) = [NoConnection EXCEPT !.viewer = conns[k].viewer, !.told = b]
  BY <1>2 DEF Closed
<1>4. QED
  BY <1>1, <1>3 DEF NoConnection, ConnType, ConnStates, Links

\* The thread of a connection that was answered, or whose answer fails, ends.
LEMMA HandOverDetachInv ==
  ASSUME RejoinInv, NEW k \in DOMAIN conns, NEW streamed \in BOOLEAN, NEW returning \in BOOLEAN,
         conns[k].state = IF streamed THEN "streaming" ELSE "accepted",
         HandOverDetach(k, streamed, returning)
  PROVE  RejoinInv'
<1>0. /\ Shapes /\ ConnOK(k) /\ EventsOK /\ WindowsOK /\ Awaited
      /\ conns \in Seq(ConnType) /\ k # None /\ conns[k].state # "asking"
  BY RejoinAssumption DEF RejoinInv, Owned, Shapes
<1>1. /\ UNCHANGED <<clients, awaiting, hashes, filed, windowVars, phase, isQuit, viewers>>
      /\ conns' = [conns EXCEPT ![k] = Closed(k)]
  BY DEF HandOverDetach, storeVars
<1>2. StoreSame
  BY <1>1, SameStore
<1>3. /\ Closed(k) \in ConnType /\ Closed(k).viewer = conns[k].viewer
      /\ Closed(k).state = "done" /\ Closed(k).token = None
  BY ClosedFacts
<1>4. /\ Settling /\ conns'[k].state = "done"
      /\ \A j \in DOMAIN conns : conns[j].state = "asking" => conns'[j].state = "asking"
  <2>1. conns' \in Seq(ConnType)
    BY <1>0, <1>1, <1>3
  <2>2. DOMAIN conns' = DOMAIN conns /\ \A j \in DOMAIN conns : conns'[j] = IF j = k THEN Closed(k) ELSE conns[j]
    BY <1>1
  <2>3. QED
    BY <1>0, <1>3, <2>1, <2>2 DEF Settling
<1>5. \A u \in Viewers : viewers'[u].token \in {None, viewers[u].token}
  BY <1>1
<1>6. Orderly
  BY <1>2, <1>4, <1>5, SettlingStep
<1>7. \A e : (\E i \in DOMAIN inbox : e = inbox[i]) => EventOK(e)'
  BY <1>2, <1>4, <1>6, SettlingEvents
<1> DEFINE e == [kind |-> "detached", client |-> conns[k].client, streamed |-> streamed,
                 returning |-> returning]
<1>8. PICK c : c = conns[k].client
  OBVIOUS
<1>9. IsMinted(c) /\ c \in Numbers
  <2>1. IsMinted(c)
    BY <1>0, <1>8 DEF ConnOK
  <2>2. QED
    BY <1>0, <2>1, RejoinAssumption DEF IsMinted, Shapes, Numbers
<1>10. PICK x : x = e
  OBVIOUS
<1>11. x \in Events /\ x.kind = "detached" /\ x.client = c /\ x.streamed = streamed
  BY <1>8, <1>9, <1>10 DEF Events
<1>12. EventOK(x)'
  <2>1. IsMinted(c)'
    BY <1>6, <1>9, KnownStays
  <2>2. ASSUME ~streamed, c \in DOMAIN hashes' PROVE hashes'[c] = k /\ IsDead(k)'
    <3>1. hashes'[c] = k /\ conns[k].state = "accepted"
      BY <1>0, <1>1, <1>8, <2>2 DEF ConnOK
    <3>2. \A v \in Viewers : viewers[v].token # k
      BY <1>0, <3>1 DEF RejoinInv, Owned, ViewerOK, IsRead
    <3>3. \A j \in DOMAIN conns : conns[j].token # k
      BY <1>0, <3>1 DEF RejoinInv, Owned, ConnOK, IsRead
    <3>4. QED
      BY <1>0, <1>1, <1>4, <3>1, <3>2, <3>3 DEF IsDead, Settling
  <2>3. QED
    BY <1>11, <2>1, <2>2 DEF EventOK, IsDead
<1>13. /\ EventsOK' /\ inbox' \in Seq(Events)
       /\ \A i \in DOMAIN inbox' : inbox'[i].kind = "drop" => \E j \in DOMAIN inbox : inbox'[i] = inbox[j]
  <2>1. inbox' = IF IsHeard(k) THEN Append(inbox, x) ELSE inbox
    BY <1>10 DEF HandOverDetach, HandedOver
  <2>2. CASE IsHeard(k)
    <3>1. /\ EventsOK' /\ inbox' \in Seq(Events)
          /\ \A i \in DOMAIN inbox' : inbox'[i] = x \/ \E j \in DOMAIN inbox : inbox'[i] = inbox[j]
      BY <1>0, <1>7, <1>11, <1>12, <2>1, <2>2, EventsAppend
    <3>2. QED
      BY <1>11, <3>1
  <2>3. CASE ~IsHeard(k)
    <3>1. EventsOK' /\ inbox' \in Seq(Events)
      BY <1>0, <1>7, <2>1, <2>3, EventsStay
    <3>2. QED
      BY <2>1, <2>3, <3>1
  <2>4. QED
    BY <2>2, <2>3
<1>14. WindowsOK'
  BY <1>0, <1>1, <1>13, WindowStays DEF WindowsOK
<1>15. /\ Awaited' /\ phase' \in Phases /\ isQuit' \in BOOLEAN
       /\ viewers' \in [Viewers -> ViewerType] /\ \A u \in Viewers : Idle(u)
  BY <1>0, <1>1 DEF Awaited, AwaitedAreAway, Shapes, Idle
<1>16. QED
  BY <1>2, <1>4, <1>5, <1>13, <1>14, <1>15, SettlingInv

LEMMA ThreadEnds ==
  ASSUME RejoinInv, NEW k \in DOMAIN conns, AnswerFails(k) \/ StreamEnds(k)
  PROVE  RejoinInv'
<1>1. CASE AnswerFails(k)
  <2>1. PICK r \in BOOLEAN : r = (IsRemoteConn(k) \/ conns[k].claim # None)
    OBVIOUS
  <2>2. conns[k].state = "accepted" /\ HandOverDetach(k, FALSE, r)
    BY <1>1, <2>1 DEF AnswerFails
  <2>3. QED
    BY <2>2, HandOverDetachInv
<1>2. CASE StreamEnds(k)
  <2>1. PICK spoken \in BOOLEAN :
          HandOverDetach(k, TRUE,
            CASE conns[k].link = "returning" -> TRUE
              [] conns[k].link = "leaving"   -> FALSE
              [] OTHER -> IsRemoteConn(k) \/ (~spoken /\ conns[k].claim # None))
    BY <1>2 DEF StreamEnds
  <2>2. PICK r : r = CASE conns[k].link = "returning" -> TRUE
                       [] conns[k].link = "leaving"   -> FALSE
                       [] OTHER -> IsRemoteConn(k) \/ (~spoken /\ conns[k].claim # None)
    OBVIOUS
  <2>3. r \in BOOLEAN
    BY <2>2
  <2>4. conns[k].state = "streaming" /\ HandOverDetach(k, TRUE, r)
    BY <1>2, <2>1, <2>2 DEF StreamEnds
  <2>5. QED
    BY <2>3, <2>4, HandOverDetachInv
<1>3. QED
  BY <1>1, <1>2

\* Every client is told of the restart.
LEMMA AnnounceStep ==
  ASSUME RejoinInv, AnnounceRestarting
  PROVE  RejoinInv'
<1>0. Shapes /\ EventsOK /\ WindowsOK /\ Awaited /\ conns \in Seq(ConnType)
  BY DEF RejoinInv, Shapes
<1>1. /\ UNCHANGED <<clients, awaiting, hashes, filed, inbox, windowVars, isQuit, viewers>>
      /\ phase' = "told" /\ opening < MaxSwaps
      /\ conns' = [k \in DOMAIN conns |->
                     [conns[k] EXCEPT !.told = conns[k].state \in {"accepted", "streaming"}]]
  BY DEF AnnounceRestarting, storeVars
<1>2. StoreSame
  BY <1>1, SameStore
<1>3. Settling /\ \A k \in DOMAIN conns : conns'[k].state = conns[k].state
  <2>1. ASSUME NEW k \in DOMAIN conns
        PROVE  /\ conns'[k] \in ConnType /\ conns'[k].viewer = conns[k].viewer
               /\ conns'[k].state = conns[k].state /\ conns'[k].token = conns[k].token
               /\ conns'[k].client = conns[k].client
    <3> DEFINE b == conns[k].state \in {"accepted", "streaming"}
    <3>1. b \in BOOLEAN
      OBVIOUS
    <3>2. conns'[k] = [conns[k] EXCEPT !.told = b] /\ conns[k] \in ConnType
      BY <1>0, <1>1
    <3> HIDE DEF b
    <3>3. QED
      BY <3>1, <3>2 DEF ConnType
  <2>2. conns' \in Seq(ConnType) /\ DOMAIN conns' = DOMAIN conns
    <3>1. Len(conns) \in Nat /\ DOMAIN conns = 1 .. Len(conns)
      BY <1>0
    <3>2. conns' = [k \in 1 .. Len(conns) |-> conns'[k]]
      BY <1>1, <3>1
    <3>3. QED
      BY <2>1, <3>1, <3>2
  <2>3. QED
    BY <2>1, <2>2 DEF Settling
<1>4. \A u \in Viewers : viewers'[u].token \in {None, viewers[u].token}
  BY <1>1
<1>5. Orderly
  BY <1>2, <1>3, <1>4, SettlingStep
<1>6. \A e : (\E i \in DOMAIN inbox : e = inbox[i]) => EventOK(e)'
  BY <1>2, <1>3, <1>5, SettlingEvents
<1>7. EventsOK' /\ inbox' \in Seq(Events)
  BY <1>0, <1>1, <1>6, EventsStay
<1>8. WindowsOK'
  BY <1>0, <1>1, WindowStays
<1>9. /\ Awaited' /\ phase' \in Phases /\ isQuit' \in BOOLEAN
      /\ viewers' \in [Viewers -> ViewerType] /\ \A u \in Viewers : Idle(u)
  BY <1>0, <1>1 DEF Awaited, AwaitedAreAway, Shapes, Idle, Phases
<1>10. QED
  BY <1>2, <1>3, <1>4, <1>7, <1>8, <1>9, SettlingInv

\* The window a swap opens, with its timer.
LEMMA SwapWindows ==
  ASSUME RejoinInv, NEW how \in Outcomes, Swap(how)
  PROVE  WindowsOK'
<1>0. WindowsOK /\ phase = "refusing" /\ phase' = "serving" /\ inbox' = <<>>
      /\ hasRunOut' = FALSE /\ opening' = opening + 1
  BY RejoinAssumption DEF RejoinInv, Swap, SwapByExec, SwapRebuilds, SwapKeepsSocket, Resume
<1>1. opening \in Nat /\ opening < MaxSwaps /\ MaxSwaps \in Nat /\ nextWindow \in 1 .. opening + 2
      /\ window \in Nat
  BY <1>0, RejoinAssumption DEF WindowsOK
<1>5. hasRunOut' \in BOOLEAN
  BY <1>0
<1>2. CASE how = "exec"
  <2>1. window' = 0 /\ nextWindow' = 1 /\ timers' = {[id |-> 0, opening |-> opening + 1]}
    BY <1>2 DEF Swap, SwapByExec, Resume, ArmTimer
  <2>2. timers' \subseteq [id : 0 .. nextWindow' - 1, opening : 0 .. opening']
    BY <1>0, <1>1, <2>1
  <2>3. \A t \in timers' : t.opening = opening'
    BY <1>0, <2>1
  <2>4. DOMAIN inbox' = {}
    BY <1>0
  <2>5. /\ opening' \in 0 .. MaxSwaps /\ window' \in Nat /\ nextWindow' \in 1 .. opening' + 2
        /\ window' < nextWindow'
    BY <1>0, <1>1, <2>1
  <2>6. QED
    BY <1>0, <1>5, <2>2, <2>3, <2>4, <2>5 DEF WindowsOK
<1>3. CASE how # "exec"
  <2>1. /\ window' = nextWindow /\ nextWindow' = nextWindow + 1
        /\ timers' = timers \cup {[id |-> nextWindow, opening |-> opening + 1]}
    BY <1>3, RejoinAssumption DEF Swap, SwapRebuilds, SwapKeepsSocket, Resume, ArmTimer
  <2>2. /\ timers \subseteq [id : 0 .. nextWindow - 1, opening : 0 .. opening]
        /\ \A t \in timers : t.id \in 0 .. nextWindow - 1 /\ t.id # nextWindow
    BY <1>0, <1>1 DEF WindowsOK
  <2>3. timers' \subseteq [id : 0 .. nextWindow' - 1, opening : 0 .. opening']
    BY <1>0, <1>1, <2>1, <2>2
  <2>4. \A t \in timers' : t.id = window' => t.opening = opening'
    BY <1>0, <2>1, <2>2
  <2>5. DOMAIN inbox' = {}
    BY <1>0
  <2>6. /\ opening' \in 0 .. MaxSwaps /\ window' \in Nat /\ nextWindow' \in 1 .. opening' + 2
        /\ window' < nextWindow'
    BY <1>0, <1>1, <2>1
  <2>7. QED
    BY <1>0, <1>5, <2>3, <2>4, <2>5, <2>6 DEF WindowsOK
<1>4. QED
  BY <1>2, <1>3

\* The connections when the image is swapped: closed, of the old socket, or
\* as they were.
LEMMA SwapConns ==
  ASSUME RejoinInv, NEW how \in Outcomes, Swap(how)
  PROVE  Settling
<1>0. Shapes /\ conns \in Seq(ConnType)
  BY DEF RejoinInv, Shapes
<1>1. CASE how = "exec"
  <2>1. conns' = [k \in DOMAIN conns |-> Closed(k)]
    BY <1>1 DEF Swap, SwapByExec
  <2>2. \A k \in DOMAIN conns :
          /\ conns'[k] \in ConnType /\ conns'[k].viewer = conns[k].viewer
          /\ conns'[k].state = "done" /\ conns'[k].token = None
    BY <2>1, ClosedFacts
  <2>3. conns' \in Seq(ConnType) /\ DOMAIN conns' = DOMAIN conns
    BY <1>0, <2>1, <2>2
  <2>4. QED
    BY <2>2, <2>3 DEF Settling
<1>2. CASE how = "rebuild"
  <2>1. conns' = [k \in DOMAIN conns |-> [conns[k] EXCEPT !.isOfOldSocket = TRUE]]
    BY <1>2 DEF Swap, SwapRebuilds
  <2>2. ASSUME NEW k \in DOMAIN conns
        PROVE  /\ conns'[k] \in ConnType /\ conns'[k].viewer = conns[k].viewer
               /\ conns'[k].state = conns[k].state /\ conns'[k].token = conns[k].token
               /\ conns'[k].client = conns[k].client
    <3>1. conns'[k] = [conns[k] EXCEPT !.isOfOldSocket = TRUE] /\ conns[k] \in ConnType
      BY <1>0, <2>1
    <3>2. QED
      BY <3>1 DEF ConnType
  <2>3. conns' \in Seq(ConnType) /\ DOMAIN conns' = DOMAIN conns
    BY <1>0, <2>1, <2>2
  <2>4. QED
    BY <2>2, <2>3 DEF Settling
<1>3. CASE how = "keep"
  BY <1>0, <1>3 DEF Swap, SwapKeepsSocket, Settling
<1>4. QED
  BY <1>1, <1>2, <1>3, RejoinAssumption

\* The image is swapped: every client is awaited.
LEMMA SwapInv ==
  ASSUME RejoinInv, NEW how \in Outcomes, Swap(how)
  PROVE  RejoinInv'
<1>0. Shapes /\ viewers \in [Viewers -> ViewerType]
  BY DEF RejoinInv, Shapes
<1>1. /\ UNCHANGED <<hashes, filed, inbox>> /\ inbox = <<>> /\ phase' = "serving" /\ isQuit' = isQuit
      /\ clients' = [c \in DOMAIN clients |-> [clients[c] EXCEPT !.stream = None]]
      /\ awaiting' = DOMAIN clients
      /\ viewers' = [v \in Viewers |->
           [viewers[v] EXCEPT !.isTokenNew = viewers[v].state \notin {"new", "gone"}]]
  BY RejoinAssumption DEF Swap, SwapByExec, SwapRebuilds, SwapKeepsSocket, Resume, CarriedQuit, storeVars
<1>2. ASSUME NEW c \in DOMAIN clients
      PROVE  clients'[c] \in ClientType /\ clients'[c].view = clients[c].view /\ clients'[c].stream = None
  <2>1. clients[c] \in ClientType /\ clients'[c] = [clients[c] EXCEPT !.stream = None]
    BY <1>0, <1>1 DEF Shapes
  <2>2. QED
    BY <2>1 DEF ClientType
<1>3. DOMAIN clients' = DOMAIN clients
  BY <1>1
<1>4. StoreSame /\ Awaited'
  BY <1>1, <1>2, <1>3 DEF StoreSame, Awaited, AwaitedAreAway
<1>5. ASSUME NEW v \in Viewers PROVE viewers'[v] \in ViewerType /\ Idle(v)
  <2>1. PICK b \in BOOLEAN : b = (viewers[v].state \notin {"new", "gone"})
    OBVIOUS
  <2>2. viewers'[v] = [viewers[v] EXCEPT !.isTokenNew = b] /\ viewers[v] \in ViewerType
    BY <1>0, <1>1, <2>1
  <2>3. QED
    BY <2>2 DEF ViewerType, Idle
<1>6. viewers' \in [Viewers -> ViewerType]
  BY <1>1, <1>5
<1>7. EventsOK' /\ inbox' \in Seq(Events)
  BY <1>1 DEF EventsOK
<1>8. phase' \in Phases /\ isQuit' \in BOOLEAN
  BY <1>0, <1>1 DEF Shapes, Phases
<1>9. \A v \in Viewers : viewers'[v].token \in {None, viewers[v].token}
  BY <1>5 DEF Idle
<1>10. QED
  BY <1>4, <1>5, <1>6, <1>7, <1>8, <1>9, SwapConns, SwapWindows, SettlingInv

\* The answer is written, and its viewer, if it still reads, has its token.
LEMMA AnswerAttachInv ==
  ASSUME RejoinInv, NEW k \in DOMAIN conns, AnswerAttach(k)
  PROVE  RejoinInv'
<1>0. /\ Shapes /\ ConnOK(k) /\ EventsOK /\ WindowsOK /\ Awaited /\ conns[k].state = "accepted"
      /\ conns \in Seq(ConnType) /\ viewers \in [Viewers -> ViewerType]
      /\ \A c \in DOMAIN hashes : HashOK(c)
  BY DEF RejoinInv, Owned, Shapes, AnswerAttach
<1>1. /\ UNCHANGED <<clients, awaiting, hashes, filed, inbox, windowVars, phase, isQuit>>
      /\ conns' = [conns EXCEPT ![k].state = "streaming"]
      /\ viewers' = [v \in Viewers |->
           IF v = ViewerOf(k) /\ viewers[v].state = "joining" /\ viewers[v].conn = k
           THEN [viewers[v] EXCEPT !.state = "on", !.client = conns[k].client, !.token = k]
           ELSE viewers[v]]
  BY DEF AnswerAttach, storeVars
<1>2. /\ conns' \in Seq(ConnType) /\ DOMAIN conns' = DOMAIN conns /\ Len(conns') = Len(conns)
      /\ \A j \in DOMAIN conns :
           /\ conns'[j].viewer = conns[j].viewer /\ conns'[j].token = conns[j].token
           /\ conns'[j].client = conns[j].client
           /\ conns'[j].state = IF j = k THEN "streaming" ELSE conns[j].state
  <2>1. conns[k] \in ConnType
    BY <1>0
  <2>2. PICK x : x = [conns[k] EXCEPT !.state = "streaming"]
    OBVIOUS
  <2>3. /\ x \in ConnType /\ x.viewer = conns[k].viewer /\ x.token = conns[k].token
        /\ x.client = conns[k].client /\ x.state = "streaming"
    BY <2>1, <2>2 DEF ConnType, ConnStates
  <2>4. conns' = [conns EXCEPT ![k] = x]
    BY <1>1, <2>2
  <2>5. QED
    BY <1>0, <2>3, <2>4
<1>3. k # None /\ k \in Numbers /\ conns[k].client \in Numbers
  <2>1. k \in Numbers
    BY <1>0, RejoinAssumption DEF Shapes, Numbers
  <2>2. conns[k].client \in DOMAIN conns
    BY <1>0 DEF ConnOK, IsMinted
  <2>3. conns[k].client \in Numbers
    BY <1>0, <2>2, RejoinAssumption DEF Shapes, Numbers
  <2>4. QED
    BY <2>1, <2>3, RejoinAssumption DEF Numbers
<1> DEFINE Answered(v) == v = ViewerOf(k) /\ viewers[v].state = "joining" /\ viewers[v].conn = k
<1>4. /\ viewers' \in [Viewers -> ViewerType]
      /\ \A v \in Viewers :
           /\ ~Answered(v) => viewers'[v] = viewers[v]
           /\ Answered(v) =>
                /\ viewers'[v].state = "on" /\ viewers'[v].conn = k /\ viewers'[v].token = k
                /\ viewers'[v].looked = viewers[v].looked
  <2>1. ASSUME NEW v \in Viewers
        PROVE  /\ viewers'[v] \in ViewerType
               /\ ~Answered(v) => viewers'[v] = viewers[v]
               /\ Answered(v) =>
                    /\ viewers'[v].state = "on" /\ viewers'[v].conn = k /\ viewers'[v].token = k
                    /\ viewers'[v].looked = viewers[v].looked
    <3>1. viewers[v] \in ViewerType
      BY <1>0
    <3>2. PICK x : x = [viewers[v] EXCEPT !.state = "on", !.client = conns[k].client, !.token = k]
      OBVIOUS
    <3>3. viewers'[v] = IF Answered(v) THEN x ELSE viewers[v]
      BY <1>1, <3>2
    <3>4. /\ x \in ViewerType /\ x.state = "on" /\ x.conn = viewers[v].conn /\ x.token = k
          /\ x.looked = viewers[v].looked
      BY <1>3, <3>1, <3>2 DEF ViewerType, ViewerStates
    <3>5. QED
      BY <3>1, <3>3, <3>4
  <2>2. viewers' = [v \in Viewers |-> viewers'[v]]
    BY <1>1
  <2>3. QED
    BY <2>1, <2>2
<1>5. Orderly
  BY <1>0, <1>2, <1>4 DEF Orderly
<1>6. StoreSame
  BY <1>1, SameStore
<1>7. ASSUME NEW j \in DOMAIN conns' PROVE ConnOK(j)'
  <2>1. j \in DOMAIN conns /\ ConnOK(j)
    BY <1>2 DEF RejoinInv, Owned
  <2>2. PICK t, c : t = conns[j].token /\ c = conns[j].client
    OBVIOUS
  <2>3. /\ t # None => IsRead(t)' /\ conns'[t].viewer = conns[j].viewer
        /\ conns[j].state \in {"accepted", "streaming"} => IsMinted(c)'
    BY <1>5, <2>1, <2>2, KnownStays DEF ConnOK
  <2>4. QED
    BY <1>0, <1>1, <1>2, <2>1, <2>2, <2>3, ZenonT(60) DEF ConnOK, IsRead, IsMinted
<1>8. \A j \in DOMAIN conns : conns[j].token # k
  BY <1>0, <1>3 DEF RejoinInv, Owned, ConnOK, IsRead
<1>9. ASSUME NEW v \in Viewers PROVE ViewerOK(v)'
  <2>1. ViewerOK(v)
    BY DEF RejoinInv, Owned
  <2>2. CASE Answered(v)
    <3>1. conns'[k].viewer = v /\ conns'[k].state = "streaming" /\ k \in DOMAIN conns'
      BY <1>2, <2>2 DEF ViewerOf
    <3>2. QED
      BY <1>2, <1>4, <1>8, <2>2, <3>1 DEF ViewerOK, IsRead
  <2>3. CASE ~Answered(v)
    <3>1. viewers[v].token # None =>
            /\ viewers[v].token \in DOMAIN conns' /\ conns'[viewers[v].token].viewer = v
            /\ conns'[viewers[v].token].state \in {"streaming", "done"}
      BY <1>5, <2>1 DEF ViewerOK, IsRead, Orderly
    <3>2. viewers[v].state = "joining" => viewers[v].conn # k
      BY <2>1, <2>3 DEF ViewerOK, ViewerOf
    <3>3. viewers'[v] = viewers[v]
      BY <1>4, <2>3
    <3>4. QED
      BY <1>2, <2>1, <3>1, <3>2, <3>3 DEF ViewerOK, IsRead
  <2>4. QED
    BY <2>2, <2>3
<1>10. ASSUME NEW v \in Viewers PROVE KeptOK(v)'
  <2>1. ViewerOK(v) /\ KeptOK(v)
    BY DEF RejoinInv, Owned
  <2>2. \A t : IsKept(t, v) => IsKept(t, v)'
    BY <1>5, <1>6, StoreSameStep
  <2>3. CASE Answered(v)
    <3>1. Place(v) = k /\ Expects(v) /\ Place(v)' = k
      BY <1>0, <1>4, <2>3 DEF Place, Expects
    <3>2. viewers[v].looked => IsKept(k, v)
      BY <2>1, <3>1 DEF KeptOK
    <3>3. viewers[v].looked => IsKept(Place(v), v)'
      BY <2>2, <3>1, <3>2 DEF IsKept
    <3>4. \A j \in DOMAIN conns' : conns'[j].token # Place(v)'
      BY <1>2, <1>8, <3>1
    <3>5. QED
      BY <1>4, <2>3, <3>3, <3>4 DEF KeptOK
  <2>4. CASE ~Answered(v)
    <3>1. viewers'[v] = viewers[v]
      BY <1>4, <2>4
    <3>2. viewers[v].state = "joining" => viewers[v].conn # k /\ viewers[v].conn \in DOMAIN conns
      BY <2>1, <2>4 DEF ViewerOK, ViewerOf
    <3>3. /\ \A j \in DOMAIN conns' :
               conns'[j].state = "asking" =>
                 j \in DOMAIN conns /\ conns[j].state = "asking" /\ conns'[j].token = conns[j].token
          /\ \A j \in DOMAIN conns : conns'[j].state \in {conns[j].state, "streaming", "done"}
          /\ viewers[v].state = "joining" =>
               conns'[viewers[v].conn].state \in {conns[viewers[v].conn].state, "done"}
      BY <1>2, <3>2
    <3>4. QED
      BY <1>0, <2>1, <2>2, <3>1, <3>3, KeptStays
  <2>5. QED
    BY <2>3, <2>4
<1>11. /\ \A c \in DOMAIN clients' : ClientOK(c)'
       /\ \A c \in DOMAIN hashes' : HashOK(c)'
       /\ \A i \in DOMAIN filed' : RecordOK(filed[i])'
       /\ TokenOpensOnePlace'
  BY <1>5, <1>6, StoreSameStep
<1>12. Owned'
  BY <1>7, <1>9, <1>11 DEF Owned
<1>13. \A e : (\E i \in DOMAIN inbox : e = inbox[i]) => EventOK(e)'
  BY <1>0, <1>1, <1>2, <1>5, AllEventsStay
<1>14. EventsOK' /\ inbox' \in Seq(Events)
  BY <1>0, <1>1, <1>13, EventsStay
<1>15. WindowsOK' /\ Awaited'
  BY <1>0, <1>1 DEF WindowsOK, windowVars, Awaited, AwaitedAreAway
<1>16. Shapes'
  BY <1>0, <1>1, <1>2, <1>4, <1>14 DEF Shapes
<1>17. QED
  BY <1>10, <1>11, <1>12, <1>14, <1>15, <1>16 DEF RejoinInv

\* A command of the viewer moves its view.
LEMMA LookInv ==
  ASSUME RejoinInv, NEW v \in Viewers, Look(v)
  PROVE  RejoinInv'
<1>0. /\ Shapes /\ ViewerOK(v) /\ EventsOK /\ WindowsOK /\ Awaited /\ TokenOpensOnePlace
      /\ viewers \in [Viewers -> ViewerType] /\ \A c \in DOMAIN hashes : HashOK(c)
  BY DEF RejoinInv, Owned, Shapes
<1>1. PICK c \in DOMAIN clients : c = viewers[v].client
  BY DEF Look, IsStreaming
<1>2. /\ viewers[v].state = "on" /\ clients[c].stream = viewers[v].conn
      /\ UNCHANGED <<awaiting, hashes, filed, inbox, windowVars, phase, isQuit, conns>>
      /\ clients' = [clients EXCEPT ![c].view = v]
      /\ viewers' = [viewers EXCEPT ![v].looked = TRUE]
  BY <1>1 DEF Look, IsStreaming, storeVars
<1>3. PICK t \in DOMAIN conns : t = viewers[v].token /\ t = viewers[v].conn /\ conns[t].viewer = v
  BY <1>0, <1>2 DEF ViewerOK
<1>4. t # None
  BY <1>0, <1>3, RejoinAssumption DEF Shapes
<1>5. /\ c \in DOMAIN hashes /\ hashes[c] = t /\ IsMinted(c) /\ conns[c].viewer = v
  <2>1. ClientOK(c)
    BY DEF RejoinInv, Owned
  <2>2. c \in DOMAIN hashes /\ hashes[c] = t /\ IsMinted(c)
    BY <1>2, <1>3, <1>4, <2>1 DEF ClientOK
  <2>3. QED
    BY <1>0, <1>3, <2>2 DEF HashOK
<1>6. /\ DOMAIN clients' = DOMAIN clients /\ \A d \in DOMAIN clients \ {c} : clients'[d] = clients[d]
      /\ clients'[c] \in ClientType /\ clients'[c].view = v /\ clients'[c].stream = clients[c].stream
  <2>1. clients[c] \in ClientType
    BY <1>0 DEF Shapes
  <2>2. PICK x : x = [clients[c] EXCEPT !.view = v]
    OBVIOUS
  <2>3. x \in ClientType /\ x.view = v /\ x.stream = clients[c].stream
    BY <2>1, <2>2 DEF ClientType, Views
  <2>4. clients' = [clients EXCEPT ![c] = x]
    BY <1>2, <2>2
  <2>5. QED
    BY <2>3, <2>4
<1>7. /\ viewers' \in [Viewers -> ViewerType] /\ \A u \in Viewers \ {v} : viewers'[u] = viewers[u]
      /\ viewers'[v].state = "on" /\ viewers'[v].conn = t /\ viewers'[v].token = t
      /\ viewers'[v].looked
  <2>1. viewers[v] \in ViewerType
    BY <1>0
  <2>2. PICK x : x = [viewers[v] EXCEPT !.looked = TRUE]
    OBVIOUS
  <2>3. x \in ViewerType /\ x.state = "on" /\ x.conn = t /\ x.token = t /\ x.looked = TRUE
    BY <1>2, <1>3, <2>1, <2>2 DEF ViewerType
  <2>4. viewers' = [viewers EXCEPT ![v] = x]
    BY <1>2, <2>2
  <2>5. QED
    BY <1>0, <2>3, <2>4
<1>8. Orderly
  BY <1>2, <1>3, <1>7 DEF Orderly
<1>9. \A k \in DOMAIN conns' : ConnOK(k)'
  BY <1>2 DEF RejoinInv, Owned, ConnOK, IsRead, IsMinted
<1>10. ASSUME NEW u \in Viewers PROVE ViewerOK(u)'
  <2>1. ViewerOK(u)
    BY DEF RejoinInv, Owned
  <2>2. CASE u = v
    BY <1>2, <1>3, <1>7, <2>1, <2>2 DEF ViewerOK, IsRead
  <2>3. CASE u # v
    BY <1>2, <1>7, <2>1, <2>3 DEF ViewerOK, IsRead
  <2>4. QED
    BY <2>2, <2>3
<1>11. ASSUME NEW d \in DOMAIN clients' PROVE ClientOK(d)'
  <2>1. d \in DOMAIN clients /\ ClientOK(d)
    BY <1>6 DEF RejoinInv, Owned
  <2>2. QED
    BY <1>2, <1>5, <1>6, <2>1 DEF ClientOK, IsMinted
<1>12. (\A d \in DOMAIN hashes' : HashOK(d)') /\ (\A i \in DOMAIN filed' : RecordOK(filed[i])')
  BY <1>2 DEF RejoinInv, Owned, HashOK, RecordOK, IsMinted
<1>13. Owned'
  BY <1>9, <1>10, <1>11, <1>12 DEF Owned
<1>14. KeptOK(v)'
  <2>1. Place(v)' = t
    BY <1>7 DEF Place
  <2>2. IsKept(t, v)'
    BY <1>2, <1>5, <1>6 DEF IsKept
  <2>3. IsKept(Place(v), v)'
    BY <2>1, <2>2 DEF IsKept
  <2>4. \A k \in DOMAIN conns' : conns'[k].token # t
    BY <1>0, <1>2, <1>3 DEF ViewerOK
  <2>5. QED
    BY <2>1, <2>3, <2>4 DEF KeptOK
<1>15. ASSUME NEW u \in Viewers, u # v PROVE KeptOK(u)'
  <2>1. KeptOK(u) /\ ViewerOK(u) /\ viewers'[u] = viewers[u]
    BY <1>7, <1>15 DEF RejoinInv, Owned
  <2>2. ASSUME NEW p, p = Place(u), IsKept(p, u) PROVE IsKept(p, u)'
    <3>1. p # t
      BY <1>3, <1>15, <2>2, PlaceIsOwn
    <3>2. QED
      BY <1>2, <1>5, <1>6, <2>2, <3>1 DEF IsKept
  <2>3. QED
    BY <1>0, <1>2, <2>1, <2>2, KeptStays
<1>16. Awaited' /\ TokenOpensOnePlace'
  <2>1. Awaited'
    BY <1>0, <1>2, <1>6 DEF Awaited, AwaitedAreAway
  <2>2. TokenOpensOnePlace'
    BY <1>0, <1>2 DEF TokenOpensOnePlace, TokensOf
  <2>3. QED
    BY <2>1, <2>2
<1>17. \A e : (\E i \in DOMAIN inbox : e = inbox[i]) => EventOK(e)'
  BY <1>0, <1>2, <1>8, AllEventsStay
<1>18. EventsOK' /\ inbox' \in Seq(Events)
  BY <1>0, <1>2, <1>17, EventsStay
<1>19. WindowsOK'
  BY <1>0, <1>2 DEF WindowsOK, windowVars
<1>20. Shapes'
  BY <1>0, <1>2, <1>6, <1>7, <1>18 DEF Shapes
<1>21. QED
  BY <1>13, <1>14, <1>15, <1>16, <1>18, <1>19, <1>20 DEF RejoinInv

\* A viewer dials, for the first time or again.
LEMMA JoinInv ==
  ASSUME RejoinInv, NEW v \in Viewers, viewers[v].state \in {"new", "rejoin", "redial"},
         NEW claim \in Numbers \cup {None}, Join(v, claim)
  PROVE  RejoinInv'
<1>0. /\ Shapes /\ ViewerOK(v) /\ KeptOK(v) /\ EventsOK /\ WindowsOK /\ Awaited
      /\ viewers \in [Viewers -> ViewerType] /\ \A c \in DOMAIN hashes : HashOK(c)
      /\ conns \in Seq(ConnType) /\ Len(conns) \in Nat /\ DOMAIN conns = 1 .. Len(conns)
      /\ MaxConnections \in Nat
  BY RejoinAssumption DEF RejoinInv, Owned, Shapes
<1>1. PICK k \in Numbers : k = Len(conns) + 1
  <2>1. Len(conns) < MaxConnections
    BY DEF Join
  <2>2. QED
    BY <1>0, <2>1 DEF Numbers
<1>2. PICK x : x = [NoConnection EXCEPT !.viewer = v, !.state = "asking",
                     !.link = "up", !.claim = claim, !.token = viewers[v].token]
  OBVIOUS
<1>3. /\ UNCHANGED <<clients, awaiting, hashes, filed, windowVars, phase, isQuit>>
      /\ conns' = Append(conns, x) /\ inbox' = Append(inbox, [kind |-> "attach", conn |-> k])
      /\ viewers' = [viewers EXCEPT ![v].state = "joining", ![v].conn = k, ![v].isTokenNew = FALSE]
  BY <1>1, <1>2 DEF Join, storeVars
<1>4. /\ x \in ConnType /\ x.viewer = v /\ x.state = "asking" /\ x.token = viewers[v].token
  <2>1. viewers[v].token \in Numbers \cup {None}
    BY <1>0 DEF ViewerType
  <2>2. QED
    BY <1>2, <2>1 DEF NoConnection, ConnType, ConnStates, Links
<1>5. /\ conns' \in Seq(ConnType) /\ Len(conns') = k /\ DOMAIN conns' = DOMAIN conns \cup {k}
      /\ k \notin DOMAIN conns /\ conns'[k] = x /\ \A j \in DOMAIN conns : conns'[j] = conns[j]
      /\ k # None /\ Len(conns') <= MaxConnections
  <2>1. /\ conns' \in Seq(ConnType) /\ Len(conns') = k /\ conns'[k] = x
        /\ \A j \in DOMAIN conns : conns'[j] = conns[j]
    BY <1>0, <1>1, <1>3, <1>4
  <2>2. DOMAIN conns' = DOMAIN conns \cup {k} /\ k \notin DOMAIN conns
    BY <1>0, <1>1, <2>1
  <2>3. QED
    BY <1>1, <2>1, <2>2, RejoinAssumption DEF Numbers
<1>6. /\ viewers' \in [Viewers -> ViewerType] /\ \A u \in Viewers \ {v} : viewers'[u] = viewers[u]
      /\ viewers'[v].state = "joining" /\ viewers'[v].conn = k
      /\ viewers'[v].token = viewers[v].token /\ viewers'[v].looked = viewers[v].looked
  <2>1. viewers[v] \in ViewerType
    BY <1>0
  <2>2. PICK w : w = [viewers[v] EXCEPT !.state = "joining", !.conn = k, !.isTokenNew = FALSE]
    OBVIOUS
  <2>3. /\ w \in ViewerType /\ w.state = "joining" /\ w.conn = k /\ w.token = viewers[v].token
        /\ w.looked = viewers[v].looked
    BY <2>1, <2>2 DEF ViewerType, ViewerStates
  <2>4. viewers' = [viewers EXCEPT ![v] = w]
    BY <1>0, <1>3, <2>2
  <2>5. QED
    BY <1>0, <2>3, <2>4
<1>7. Orderly
  BY <1>4, <1>5, <1>6 DEF Orderly
<1>8. StoreSame
  BY <1>3, SameStore
<1>9. PICK t : t = viewers[v].token
  OBVIOUS
<1>10. t # None => IsRead(t) /\ IsRead(t)' /\ conns[t].viewer = v /\ conns'[t].viewer = v
  BY <1>0, <1>7, <1>9, KnownStays DEF ViewerOK
<1>11. ASSUME NEW j \in DOMAIN conns' PROVE ConnOK(j)'
  <2>1. CASE j = k
    BY <1>4, <1>5, <1>9, <1>10, <2>1 DEF ConnOK, IsRead
  <2>2. CASE j # k
    <3>1. j \in DOMAIN conns /\ ConnOK(j) /\ conns'[j] = conns[j]
      BY <1>5, <2>2 DEF RejoinInv, Owned
    <3>2. PICK s, c : s = conns[j].token /\ c = conns[j].client
      OBVIOUS
    <3>3. /\ s # None => IsRead(s)' /\ conns'[s].viewer = conns[j].viewer
          /\ conns[j].state \in {"accepted", "streaming"} => IsMinted(c)'
      BY <1>7, <3>1, <3>2, KnownStays DEF ConnOK
    <3>4. QED
      BY <1>3, <3>1, <3>2, <3>3 DEF ConnOK, IsRead, IsMinted
  <2>3. QED
    BY <2>1, <2>2
<1>12. ViewerOK(v)'
  BY <1>4, <1>5, <1>6, <1>9, <1>10 DEF ViewerOK, IsRead
<1>13. ASSUME NEW u \in Viewers, u # v PROVE ViewerOK(u)'
  <2>1. ViewerOK(u) /\ viewers'[u] = viewers[u]
    BY <1>6, <1>13 DEF RejoinInv, Owned
  <2>2. PICK s : s = viewers[u].token
    OBVIOUS
  <2>3. s # None => IsRead(s)' /\ conns'[s].viewer = u
    BY <1>7, <2>1, <2>2, KnownStays DEF ViewerOK
  <2>4. ASSUME viewers[u].state = "on" PROVE x.token # s
    <3>1. s \in DOMAIN conns /\ conns[s].viewer = u
      BY <2>1, <2>2, <2>4 DEF ViewerOK
    <3>2. s # None
      BY <1>0, <3>1, RejoinAssumption
    <3>3. QED
      BY <1>4, <1>9, <1>10, <1>13, <3>1, <3>2
  <2>5. \A j \in DOMAIN conns' : viewers[u].state = "on" => conns'[j].token # s
    BY <1>5, <2>1, <2>2, <2>4 DEF ViewerOK
  <2>6. QED
    BY <1>5, <2>1, <2>2, <2>3, <2>5 DEF ViewerOK, IsRead
<1>14. KeptOK(v)'
  <2>1. viewers[v].looked => viewers[v].state \in {"rejoin", "redial"}
    BY <1>0 DEF ViewerOK
  <2>2. Place(v)' = t /\ Place(v) = t /\ Expects(v)
    BY <1>4, <1>5, <1>6, <1>9 DEF Place, Expects
  <2>3. ASSUME viewers[v].looked
        PROVE  IsKept(t, v) /\ \A j \in DOMAIN conns : ~(conns[j].state = "asking" /\ conns[j].token = t)
    BY <1>0, <2>1, <2>2, <2>3 DEF KeptOK
  <2>4. viewers[v].looked => IsKept(t, v)'
    BY <1>7, <1>8, <2>3, StoreSameStep
  <2>5. viewers[v].looked => IsKept(Place(v), v)'
    BY <2>2, <2>4 DEF IsKept
  <2>6. QED
    BY <1>5, <1>6, <2>2, <2>3, <2>5 DEF KeptOK
<1>15. ASSUME NEW u \in Viewers, u # v PROVE KeptOK(u)'
  <2>1. KeptOK(u) /\ ViewerOK(u) /\ viewers'[u] = viewers[u]
    BY <1>6, <1>15 DEF RejoinInv, Owned
  <2>2. viewers[u].state = "joining" => viewers[u].conn \in DOMAIN conns
    BY <2>1 DEF ViewerOK
  <2>3. PICK s : s = Place(u)
    OBVIOUS
  <2>4. Place(u)' = s /\ (Expects(u)' => Expects(u))
    BY <1>5, <2>1, <2>2, <2>3 DEF Place, Expects
  <2>5. ASSUME viewers[u].looked, Expects(u)
        PROVE  /\ IsKept(s, u) /\ IsKept(s, u)' /\ x.token # s
               /\ \A j \in DOMAIN conns : conns[j].state = "asking" /\ conns[j].token = s =>
                    viewers[u].state = "joining" /\ viewers[u].conn = j
    <3>1. IsKept(s, u) /\ \A j \in DOMAIN conns : conns[j].state = "asking" /\ conns[j].token = s =>
                             viewers[u].state = "joining" /\ viewers[u].conn = j
      BY <2>1, <2>3, <2>5 DEF KeptOK
    <3>2. IsKept(s, u)'
      BY <1>7, <1>8, <3>1, StoreSameStep
    <3>3. s # None /\ conns[s].viewer = u
      BY <1>0, <2>3, <3>1, PlaceIsOwn, KeptIsNumber
    <3>4. x.token # s
      BY <1>4, <1>9, <1>10, <1>15, <3>3
    <3>5. QED
      BY <3>1, <3>2, <3>4
  <2>6. viewers[u].looked /\ Expects(u) => IsKept(Place(u), u)'
    BY <2>4, <2>5 DEF IsKept
  <2>7. QED
    BY <1>5, <2>1, <2>4, <2>5, <2>6 DEF KeptOK
<1>16. /\ \A c \in DOMAIN clients' : ClientOK(c)'
       /\ \A c \in DOMAIN hashes' : HashOK(c)'
       /\ \A i \in DOMAIN filed' : RecordOK(filed[i])'
       /\ TokenOpensOnePlace'
  BY <1>7, <1>8, StoreSameStep
<1>17. Owned'
  BY <1>11, <1>12, <1>13, <1>16 DEF Owned
<1>18. PICK e : e = [kind |-> "attach", conn |-> k]
  OBVIOUS
<1>19. e \in Events /\ e.kind = "attach" /\ e.conn = k /\ inbox' = Append(inbox, e)
  BY <1>1, <1>3, <1>18 DEF Events
<1>20. \A y : (\E i \in DOMAIN inbox : y = inbox[i]) => EventOK(y)'
  BY <1>0, <1>3, <1>5, <1>7, AllEventsStay
<1>21. EventOK(e)'
  BY <1>4, <1>5, <1>19 DEF EventOK
<1>22. \A i \in DOMAIN inbox : inbox[i].kind = "attach" => inbox[i].conn # k
  BY <1>0, <1>5 DEF EventsOK, EventOK
<1>23. /\ EventsOK' /\ inbox' \in Seq(Events)
       /\ \A i \in DOMAIN inbox' : inbox'[i] = e \/ \E j \in DOMAIN inbox : inbox'[i] = inbox[j]
  BY <1>0, <1>19, <1>20, <1>21, <1>22, EventsAppend
<1>24. \A i \in DOMAIN inbox' : inbox'[i].kind = "drop" => \E j \in DOMAIN inbox : inbox'[i] = inbox[j]
  BY <1>19, <1>23
<1>25. WindowsOK'
  BY <1>0, <1>3, <1>24, WindowStays DEF WindowsOK
<1>26. Awaited'
  BY <1>0, <1>3 DEF Awaited, AwaitedAreAway
<1>27. Shapes'
  BY <1>0, <1>3, <1>5, <1>6, <1>23 DEF Shapes
<1>28. QED
  BY <1>14, <1>15, <1>16, <1>17, <1>23, <1>25, <1>26, <1>27 DEF RejoinInv

LEMMA Dials ==
  ASSUME RejoinInv, NEW v \in Viewers, Dial(v) \/ RejoinSession(v) \/ Redial(v)
  PROVE  RejoinInv'
<1>1. viewers[v] \in ViewerType
  BY DEF RejoinInv, Shapes
<1>2. viewers[v].client \in Numbers \cup {None}
  BY <1>1 DEF ViewerType
<1>3. /\ viewers[v].state \in {"new", "rejoin", "redial"}
      /\ \E claim \in Numbers \cup {None} : Join(v, claim)
  BY <1>2 DEF Dial, RejoinSession, Redial
<1>4. QED
  BY <1>3, JoinInv

-----------------------------------------------------------------------------
(* An attach is handled *)

\* What is filed once the clients of a token have filed and the token has taken
\* its record out: nothing new, nothing of the token, and what is not pushed out.
LEMMA FiledAfterTaking ==
  ASSUME RejoinInv, NEW t, NEW P \in SUBSET FindByToken(t),
         filed' = TakenFrom(FileAll(P), t), Lose(PushedOut(P) \ {t})
  PROVE  /\ filed' \in Seq(RecordType) /\ Len(filed') <= RecordLimit /\ Apart(filed')
         /\ \A i \in DOMAIN filed' : filed'[i].token # t /\ \E j \in DOMAIN filed : filed'[i] = filed[j]
         /\ \A v \in Viewers : \A j \in DOMAIN filed :
              viewers'[v].looked /\ filed[j].token \in {viewers[v].token, viewers[v].conn} \ {t} =>
                \E i \in DOMAIN filed' : filed'[i] = filed[j]
<1>0. Shapes /\ TokenOpensOnePlace
  BY DEF RejoinInv
<1>1. P \in SUBSET Numbers /\ \A c \in P : c \in DOMAIN hashes /\ hashes[c] = t
  BY <1>0 DEF FindByToken, Shapes
<1>2. PICK g : g = FileAll(P)
  OBVIOUS
<1>3. /\ g \in Seq(RecordType) /\ Len(g) <= RecordLimit /\ Apart(g)
      /\ \A i \in DOMAIN g :
           \/ \E j \in DOMAIN filed : g[i] = filed[j]
           \/ \E c \in Filers(P) : g[i] = Recorded(c)
  BY <1>0, <1>1, <1>2, FileFacts
<1>4. \A c \in Filers(P) : Recorded(c).token = t
  BY <1>1 DEF Filers, Recorded
<1>5. /\ filed' \in Seq(RecordType) /\ Len(filed') <= Len(g) /\ Apart(filed')
      /\ \A i \in DOMAIN filed' : filed'[i].token # t /\ \E j \in DOMAIN g : filed'[i] = g[j]
      /\ \A j \in DOMAIN g : g[j].token # t => \E i \in DOMAIN filed' : filed'[i] = g[j]
  BY <1>2, <1>3, TakeFacts
<1>6. Len(filed') <= RecordLimit
  <2>1. Len(filed') \in Nat /\ Len(g) \in Nat /\ RecordLimit \in Nat
    BY <1>3, <1>5, RejoinAssumption
  <2>2. QED
    BY <1>3, <1>5, <2>1
<1>7. ASSUME NEW i \in DOMAIN filed'
      PROVE  filed'[i].token # t /\ \E j \in DOMAIN filed : filed'[i] = filed[j]
  <2>1. filed'[i].token # t
    BY <1>5
  <2>2. PICK m \in DOMAIN g : filed'[i] = g[m]
    BY <1>5
  <2>3. ~\E c \in Filers(P) : g[m] = Recorded(c)
    BY <1>4, <2>1, <2>2
  <2>4. QED
    BY <1>3, <2>1, <2>2, <2>3
<1>8. ASSUME NEW v \in Viewers, NEW j \in DOMAIN filed, viewers'[v].looked,
             filed[j].token \in {viewers[v].token, viewers[v].conn} \ {t}
      PROVE  \E i \in DOMAIN filed' : filed'[i] = filed[j]
  <2>1. viewers[v].token \notin PushedOut(P) \ {t} /\ viewers[v].conn \notin PushedOut(P) \ {t}
    BY <1>0, <1>8, LoseFacts
  <2>2. filed[j].token \notin PushedOut(P)
    BY <1>8, <2>1
  <2>3. filed[j].token \in TokensOf(g)
    BY <1>2, <2>2 DEF PushedOut, TokensOf
  <2>4. PICK m \in DOMAIN g : g[m].token = filed[j].token
    BY <2>3 DEF TokensOf
  <2>5. PICK i \in DOMAIN filed : g[m] = filed[i]
    BY <1>3, <1>4, <1>8, <2>4
  <2>6. i = j
    BY <1>0, <2>4, <2>5, OnePlace DEF Apart
  <2>7. QED
    BY <1>5, <1>8, <2>4, <2>5, <2>6
<1>9. QED
  BY <1>5, <1>6, <1>7, <1>8

\* The view a token takes, when its client has filed, is the one at its place.
LEMMA ViewAtPlace ==
  ASSUME RejoinInv, NEW t, NEW view, view = ViewUnder(FileAll(FindByToken(t)), t)
  PROVE  /\ \A w : IsKept(t, w) => view = w
         /\ view = Fresh \/ IsKept(t, view)
<1>0. Shapes /\ TokenOpensOnePlace
  BY DEF RejoinInv
<1>1. PICK P : P = FindByToken(t)
  OBVIOUS
<1>2. P \in SUBSET Numbers /\ \A c \in P : c \in DOMAIN hashes /\ hashes[c] = t
  BY <1>0, <1>1 DEF FindByToken, Shapes
<1>3. PICK g : g = FileAll(P)
  OBVIOUS
<1>4. /\ g \in Seq(RecordType) /\ Apart(g)
      /\ \A i \in DOMAIN g :
           \/ \E j \in DOMAIN filed : g[i] = filed[j]
           \/ \E c \in Filers(P) : g[i] = Recorded(c)
      /\ Filers(P) = {} => g = filed
      /\ \A c \in Filers(P) : Filers(P) = {c} => \E i \in DOMAIN g : g[i] = Recorded(c)
  BY <1>0, <1>2, <1>3, FileFacts
<1>5. /\ (\A j \in DOMAIN g : g[j].token # t) => view = Fresh
      /\ \A j \in DOMAIN g : g[j].token = t => view = g[j].view
  BY <1>1, <1>3, <1>4, TakeFacts, SMTT(60)
<1>6. /\ \A c, d \in DOMAIN hashes : hashes[c] = hashes[d] => c = d
      /\ \A c \in DOMAIN hashes, i \in DOMAIN filed : hashes[c] # filed[i].token
  BY <1>0, OnePlace
<1>7. \A c : Recorded(c).token = hashes[c] /\ Recorded(c).view = clients[c].view
  BY DEF Recorded
<1>8. ASSUME NEW w, IsKept(t, w) PROVE view = w
  <2>1. CASE \E c \in DOMAIN hashes \cap DOMAIN clients : hashes[c] = t /\ clients[c].view = w
    <3>1. PICK c \in DOMAIN hashes \cap DOMAIN clients : hashes[c] = t /\ clients[c].view = w
      BY <2>1
    <3>2. P = {c}
      BY <1>1, <1>2, <1>6, <3>1 DEF FindByToken
    <3>3. Filers(P) = {c}
      BY <3>1, <3>2 DEF Filers
    <3>4. PICK i \in DOMAIN g : g[i] = Recorded(c)
      BY <1>4, <3>3
    <3>5. QED
      BY <1>5, <1>7, <3>1, <3>4
  <2>2. CASE \E i \in DOMAIN filed : filed[i].token = t /\ filed[i].view = w
    <3>1. PICK i \in DOMAIN filed : filed[i].token = t /\ filed[i].view = w
      BY <2>2
    <3>2. P = {}
      BY <1>2, <1>6, <3>1
    <3>3. g = filed
      BY <1>4, <3>2 DEF Filers
    <3>4. QED
      BY <1>5, <3>1, <3>3
  <2>3. QED
    BY <1>8, <2>1, <2>2 DEF IsKept
<1>9. view = Fresh \/ IsKept(t, view)
  <2>1. SUFFICES ASSUME NEW j \in DOMAIN g, g[j].token = t PROVE IsKept(t, view)
    BY <1>5
  <2>2. view = g[j].view
    BY <1>5, <2>1
  <2>3. CASE \E i \in DOMAIN filed : g[j] = filed[i]
    BY <2>1, <2>2, <2>3 DEF IsKept
  <2>4. CASE \E c \in Filers(P) : g[j] = Recorded(c)
    <3>1. PICK c \in Filers(P) : g[j] = Recorded(c)
      BY <2>4
    <3>2. c \in DOMAIN hashes \cap DOMAIN clients
      BY DEF Filers
    <3>3. QED
      BY <1>7, <2>1, <2>2, <3>1, <3>2 DEF IsKept
  <2>5. QED
    BY <1>4, <2>3, <2>4
<1>10. QED
  BY <1>8, <1>9

\* What is at a place was set by the viewer whose token opens it.
LEMMA KeptIsOwn ==
  ASSUME RejoinInv, NEW t, NEW w, IsKept(t, w)
  PROVE  w \in Views /\ w \in {Fresh, conns[t].viewer}
<1>0. Shapes
  BY DEF RejoinInv
<1>1. CASE \E c \in DOMAIN hashes \cap DOMAIN clients : hashes[c] = t /\ clients[c].view = w
  <2>1. PICK c \in DOMAIN hashes \cap DOMAIN clients : hashes[c] = t /\ clients[c].view = w
    BY <1>1
  <2>2. ClientOK(c) /\ HashOK(c) /\ clients[c] \in ClientType
    BY <1>0 DEF RejoinInv, Owned, Shapes
  <2>3. QED
    BY <2>1, <2>2 DEF ClientOK, HashOK, ClientType
<1>2. CASE \E i \in DOMAIN filed : filed[i].token = t /\ filed[i].view = w
  <2>1. PICK i \in DOMAIN filed : filed[i].token = t /\ filed[i].view = w
    BY <1>2
  <2>2. filed[i] \in RecordType /\ RecordOK(filed[i])
    BY <1>0 DEF RejoinInv, Owned, Shapes
  <2>3. QED
    BY <2>1, <2>2 DEF RecordOK, RecordType
<1>3. QED
  BY <1>1, <1>2 DEF IsKept

\* What an attach does: the token's place becomes the record of client c, under
\* the token of connection k, and everything else stays, or loses its view.
Attached(k, c, P, t) ==
  /\ P \subseteq FindByToken(t)
  /\ c = k \/ (P = {} /\ c \in DOMAIN clients /\ c \in FindByToken(t))
  /\ c = k => P = FindByToken(t)
  /\ DOMAIN clients' = (DOMAIN clients \ P) \cup {c}
  /\ \A d \in DOMAIN clients' \ {c} : clients'[d] = clients[d]
  /\ clients'[c] \in ClientType /\ clients'[c].stream = k
  /\ \A w : IsKept(t, w) => clients'[c].view = w
  /\ clients'[c].view = Fresh \/ IsKept(t, clients'[c].view)
  /\ DOMAIN hashes' = (DOMAIN hashes \ P) \cup {c} /\ hashes'[c] = k
  /\ \A d \in DOMAIN hashes' \ {c} : hashes'[d] = hashes[d]
  /\ awaiting' = awaiting \ (P \cup {c})
  /\ filed' \in Seq(RecordType) /\ Len(filed') <= RecordLimit /\ Apart(filed')
  /\ \A i \in DOMAIN filed' : filed'[i].token # t /\ \E j \in DOMAIN filed : filed'[i] = filed[j]
  /\ \A v \in Viewers : \A j \in DOMAIN filed :
       viewers'[v].looked /\ filed[j].token \in {viewers[v].token, viewers[v].conn} \ {t} =>
         \E i \in DOMAIN filed' : filed'[i] = filed[j]
  /\ viewers' \in [Viewers -> ViewerType]
  /\ \A v \in Viewers :
       /\ viewers'[v].state = viewers[v].state /\ viewers'[v].conn = viewers[v].conn
       /\ viewers'[v].token = viewers[v].token
       /\ viewers'[v].looked => viewers[v].looked
  /\ conns' \in Seq(ConnType) /\ DOMAIN conns' = DOMAIN conns
  /\ \A j \in DOMAIN conns \ {k} : conns'[j] = conns[j]
  /\ conns'[k].viewer = conns[k].viewer /\ conns'[k].token = t
  /\ conns'[k].state = "accepted" /\ conns'[k].client = c

LEMMA AttachFacts ==
  ASSUME RejoinInv, NEW k \in DOMAIN conns, conns[k].state = "asking", HandleAttach(k)
  PROVE  \E c \in Numbers, P \in SUBSET Numbers : Attached(k, c, P, conns[k].token)
<1>0. Shapes /\ conns \in Seq(ConnType) /\ k \in Numbers
  BY RejoinAssumption DEF RejoinInv, Shapes, Numbers
<1>1. PICK t : t = conns[k].token
  OBVIOUS
<1>2. PICK P : P = IF IsClaimed(k) THEN {} ELSE FindByToken(t)
  OBVIOUS
<1>3. PICK c : c = IF IsClaimed(k) THEN conns[k].claim ELSE k
  OBVIOUS
<1>4. PICK w : w = IF IsClaimed(k) THEN clients[c].view ELSE ViewUnder(FileAll(P), t)
  OBVIOUS
<1>5. /\ clients' = Put(Drop(clients, P), c, [view |-> w, stream |-> k])
      /\ awaiting' = awaiting \ (P \cup {c}) /\ filed' = TakenFrom(FileAll(P), t)
      /\ Lose(PushedOut(P) \ {t}) /\ hashes' = Put(Drop(hashes, P), c, k)
      /\ conns' = [conns EXCEPT ![k].state = "accepted", ![k].client = c, ![k].told = phase # "serving"]
  BY <1>1, <1>2, <1>3, <1>4 DEF HandleAttach, NoLongerAwaited
<1>6. /\ P \subseteq FindByToken(t) /\ P \in SUBSET Numbers /\ c \in Numbers
      /\ c = k \/ (P = {} /\ c \in DOMAIN clients /\ c \in FindByToken(t))
      /\ c = k => P = FindByToken(t)
  <2>1. FindByToken(t) \subseteq Numbers /\ k \notin FindByToken(t)
    BY <1>0 DEF FindByToken, Shapes, RejoinInv, Owned, HashOK, IsMinted
  <2>2. CASE IsClaimed(k)
    BY <1>0, <1>1, <1>2, <1>3, <2>1, <2>2 DEF IsClaimed, Shapes
  <2>3. CASE ~IsClaimed(k)
    BY <1>0, <1>2, <1>3, <2>1, <2>3
  <2>4. QED
    BY <2>2, <2>3
<1>7. (\A u : IsKept(t, u) => w = u) /\ (w = Fresh \/ IsKept(t, w))
  <2>1. CASE IsClaimed(k)
    <3>1. c \in DOMAIN clients /\ c \in DOMAIN hashes /\ hashes[c] = t /\ w = clients[c].view
      BY <1>1, <1>3, <1>4, <2>1 DEF IsClaimed, FindByToken
    <3>2. /\ \A d \in DOMAIN hashes : hashes[d] = t => d = c
          /\ \A i \in DOMAIN filed : filed[i].token # t
      BY <3>1, OnePlace DEF RejoinInv
    <3>3. QED
      BY <3>1, <3>2 DEF IsKept
  <2>2. CASE ~IsClaimed(k)
    BY <1>2, <1>4, <2>2, ViewAtPlace
  <2>3. QED
    BY <2>1, <2>2
<1>8. w \in Views
  BY <1>7, KeptIsOwn DEF Views
<1>9. /\ DOMAIN clients' = (DOMAIN clients \ P) \cup {c}
      /\ \A d \in DOMAIN clients' \ {c} : clients'[d] = clients[d]
      /\ clients'[c] = [view |-> w, stream |-> k]
      /\ DOMAIN hashes' = (DOMAIN hashes \ P) \cup {c} /\ hashes'[c] = k
      /\ \A d \in DOMAIN hashes' \ {c} : hashes'[d] = hashes[d]
  BY <1>5 DEF Put, Drop
<1>10. clients'[c] \in ClientType /\ clients'[c].stream = k /\ clients'[c].view = w
  BY <1>0, <1>8, <1>9 DEF ClientType
<1>11. /\ filed' \in Seq(RecordType) /\ Len(filed') <= RecordLimit /\ Apart(filed')
       /\ \A i \in DOMAIN filed' : filed'[i].token # t /\ \E j \in DOMAIN filed : filed'[i] = filed[j]
       /\ \A v \in Viewers : \A j \in DOMAIN filed :
            viewers'[v].looked /\ filed[j].token \in {viewers[v].token, viewers[v].conn} \ {t} =>
              \E i \in DOMAIN filed' : filed'[i] = filed[j]
  BY <1>5, <1>6, FiledAfterTaking
<1>12. /\ viewers' \in [Viewers -> ViewerType]
       /\ \A v \in Viewers :
            /\ viewers'[v].state = viewers[v].state /\ viewers'[v].conn = viewers[v].conn
            /\ viewers'[v].token = viewers[v].token
            /\ viewers'[v].looked => viewers[v].looked
  BY <1>0, <1>5, LoseFacts
<1>13. /\ conns' \in Seq(ConnType) /\ DOMAIN conns' = DOMAIN conns
       /\ \A j \in DOMAIN conns \ {k} : conns'[j] = conns[j]
       /\ conns'[k].viewer = conns[k].viewer /\ conns'[k].token = t
       /\ conns'[k].state = "accepted" /\ conns'[k].client = c
  <2> DEFINE b == phase # "serving"
  <2>1. b \in BOOLEAN /\ conns[k] \in ConnType
    BY <1>0
  <2>2. PICK x : x = [conns[k] EXCEPT !.state = "accepted", !.client = c, !.told = b]
    OBVIOUS
  <2>3. conns' = [conns EXCEPT ![k] = x]
    BY <1>0, <1>5, <2>2
  <2> HIDE DEF b
  <2>4. /\ x \in ConnType /\ x.viewer = conns[k].viewer /\ x.token = t
        /\ x.state = "accepted" /\ x.client = c
    BY <1>1, <1>6, <2>1, <2>2 DEF ConnType, ConnStates
  <2>5. QED
    BY <1>0, <2>3, <2>4
<1>14. Attached(k, c, P, t)
  BY <1>5, <1>6, <1>7, <1>9, <1>10, <1>11, <1>12, <1>13 DEF Attached
<1>15. QED
  BY <1>1, <1>6, <1>14

\* An attach keeps the invariant.
LEMMA AttachedInv ==
  ASSUME RejoinInv, NEW k \in DOMAIN conns, conns[k].state = "asking", NEW c \in Numbers,
         NEW P \in SUBSET Numbers, NEW t, t = conns[k].token, Attached(k, c, P, t),
         inbox # <<>>, inbox' = Tail(inbox), Head(inbox).kind = "attach", Head(inbox).conn = k,
         UNCHANGED <<isQuit, windowVars, phase>>
  PROVE  RejoinInv'
<1>0. /\ Shapes /\ ConnOK(k) /\ EventsOK /\ WindowsOK /\ Awaited
      /\ k \in Numbers /\ k # None /\ Len(conns) \in Nat /\ DOMAIN conns = 1 .. Len(conns)
      /\ \A d \in DOMAIN hashes : HashOK(d)
  BY RejoinAssumption DEF RejoinInv, Owned, Shapes, Numbers
<1>1. Orderly
  <2>1. \A j \in DOMAIN conns :
          /\ conns'[j].viewer = conns[j].viewer
          /\ conns[j].state # "asking" => conns'[j] = conns[j]
          /\ conns'[j].token = conns[j].token
          /\ conns[j].state = "asking" => conns'[j].state \in {"asking", "accepted"}
    BY DEF Attached
  <2>2. QED
    BY <2>1 DEF Attached, Orderly
<1>2. /\ k \notin DOMAIN hashes /\ k \notin DOMAIN clients
      /\ \A d \in DOMAIN hashes : hashes[d] # k
      /\ \A i \in DOMAIN filed : filed[i].token # k
      /\ \A j \in DOMAIN conns : conns[j].token # k
      /\ \A v \in Viewers : viewers[v].token # k
  <2>1. ~IsMinted(k) /\ ~IsRead(k)
    BY DEF IsMinted, IsRead
  <2>2. k \notin DOMAIN clients /\ \A d \in DOMAIN hashes : d # k /\ hashes[d] # k
    BY <2>1 DEF RejoinInv, Owned, HashOK, ClientOK
  <2>3. \A i \in DOMAIN filed : filed[i].token # k
    BY <2>1 DEF RejoinInv, Owned, RecordOK
  <2>4. \A j \in DOMAIN conns : conns[j].token # k
    BY <1>0, <2>1 DEF RejoinInv, Owned, ConnOK
  <2>5. \A v \in Viewers : viewers[v].token # k
    BY <1>0, <2>1 DEF RejoinInv, Owned, ViewerOK
  <2>6. QED
    BY <2>2, <2>3, <2>4, <2>5
<1>3. /\ \A d \in P : d \in DOMAIN hashes /\ hashes[d] = t
      /\ c # k => P = {} /\ c \in DOMAIN clients /\ c \in DOMAIN hashes /\ hashes[c] = t
      /\ \A d \in DOMAIN hashes' : d # c => d \in DOMAIN hashes /\ hashes'[d] = hashes[d] /\ hashes[d] # t
      /\ \A d \in DOMAIN hashes : hashes[d] # t => d \in DOMAIN hashes' /\ d # c
  <2>1. \A d, e \in DOMAIN hashes : hashes[d] = hashes[e] => d = e
    BY OnePlace DEF RejoinInv
  <2>2. /\ \A d \in P : d \in DOMAIN hashes /\ hashes[d] = t
        /\ c # k => P = {} /\ c \in DOMAIN clients /\ c \in DOMAIN hashes /\ hashes[c] = t
        /\ c = k => \A d \in DOMAIN hashes : hashes[d] = t => d \in P
    BY DEF Attached, FindByToken
  <2>3. \A d \in DOMAIN hashes' : d # c => d \in DOMAIN hashes \ P /\ hashes'[d] = hashes[d]
    BY DEF Attached
  <2>4. \A d \in DOMAIN hashes' : d # c => hashes[d] # t
    BY <2>1, <2>2, <2>3
  <2>5. \A d \in DOMAIN hashes : hashes[d] # t => d \in DOMAIN hashes' /\ d # c
    BY <1>2, <2>2 DEF Attached
  <2>6. QED
    BY <2>2, <2>3, <2>4, <2>5
<1>4. /\ t # None => IsRead(t) /\ conns[t].viewer = conns[k].viewer /\ t # k
      /\ c # k => t # None /\ IsMinted(c) /\ conns[c].viewer = conns[k].viewer
  <2>1. t # None => IsRead(t) /\ conns[t].viewer = conns[k].viewer
    BY <1>0 DEF ConnOK
  <2>2. c # k => HashOK(c) /\ hashes[c] \in Numbers
    BY <1>0, <1>3 DEF Shapes
  <2>3. c # k => t # None
    BY <1>3, <2>2, RejoinAssumption DEF Numbers
  <2>4. QED
    BY <1>3, <2>1, <2>2, <2>3 DEF HashOK, IsRead
<1>5. IsMinted(c)' /\ conns'[c].viewer = conns[k].viewer /\ IsMinted(k)' /\ conns'[k].viewer = conns[k].viewer
  <2>1. IsMinted(k)' /\ conns'[k].viewer = conns[k].viewer
    BY DEF Attached, IsMinted
  <2>2. c # k => IsMinted(c)' /\ conns'[c].viewer = conns[k].viewer
    BY <1>1, <1>4, KnownStays
  <2>3. QED
    BY <2>1, <2>2
<1>6. ASSUME NEW j \in DOMAIN conns' PROVE ConnOK(j)'
  <2>1. j \in DOMAIN conns /\ ConnOK(j)
    BY DEF RejoinInv, Owned, Attached
  <2>2. PICK s, d : s = conns[j].token /\ d = conns[j].client
    OBVIOUS
  <2>3. /\ s # None => IsRead(s)' /\ conns'[s].viewer = conns[j].viewer
        /\ conns[j].state \in {"accepted", "streaming"} => IsMinted(d)'
    BY <1>1, <2>1, <2>2, KnownStays DEF ConnOK
  <2>4. CASE j = k
    <3>1. /\ conns'[k].viewer = conns[k].viewer /\ conns'[k].token = s /\ conns'[k].client = c
          /\ hashes'[c] = k
      BY <2>2, <2>4 DEF Attached
    <3>2. QED
      BY <1>5, <2>1, <2>3, <2>4, <3>1 DEF ConnOK, IsRead, IsMinted
  <2>5. CASE j # k
    <3>1. conns'[j] = conns[j]
      BY <2>1, <2>5 DEF Attached
    <3>2. ASSUME conns[j].state = "accepted", d \in DOMAIN hashes' PROVE hashes'[d] = j
      <4>1. d # k
        BY <2>1, <2>2, <3>2 DEF ConnOK, IsMinted
      <4>2. d # c
        <5>1. CASE c = k
          BY <4>1, <5>1
        <5>2. CASE c # k
          <6>1. hashes[c] = t /\ c \in DOMAIN hashes /\ IsRead(t)
            BY <1>3, <1>4, <5>2
          <6>2. d = c => t = j
            BY <2>1, <2>2, <3>2, <6>1 DEF ConnOK
          <6>3. QED
            BY <3>2, <6>1, <6>2 DEF IsRead
        <5>3. QED
          BY <5>1, <5>2
      <4>3. QED
        BY <1>3, <2>1, <2>2, <3>2, <4>2 DEF ConnOK
    <3>3. QED
      BY <2>1, <2>2, <2>3, <3>1, <3>2 DEF ConnOK, IsRead, IsMinted
  <2>6. QED
    BY <2>4, <2>5
<1>7. ASSUME NEW v \in Viewers PROVE ViewerOK(v)'
  <2>1. ViewerOK(v)
    BY DEF RejoinInv, Owned
  <2>2. PICK s, m : s = viewers[v].token /\ m = viewers[v].conn
    OBVIOUS
  <2>3. s # None => IsRead(s)' /\ conns'[s].viewer = v
    BY <1>1, <2>1, <2>2, KnownStays DEF ViewerOK
  <2>4. /\ viewers'[v].state = viewers[v].state /\ viewers'[v].conn = m /\ viewers'[v].token = s
        /\ viewers'[v].looked => viewers[v].looked
        /\ viewers'[v].looked \in BOOLEAN /\ viewers[v].looked \in BOOLEAN
    BY <1>0, <2>2 DEF Attached, Shapes, ViewerType
  <2>5. \A j \in DOMAIN conns' :
          /\ j \in DOMAIN conns /\ conns'[j].viewer = conns[j].viewer /\ conns'[j].token = conns[j].token
          /\ j # k => conns'[j].state = conns[j].state
          /\ j = k => conns'[j].state = "accepted"
    BY DEF Attached
  <2>6. DOMAIN conns' = DOMAIN conns
    BY DEF Attached
  <2>7. QED
    BY <2>1, <2>2, <2>3, <2>4, <2>5, <2>6 DEF ViewerOK, IsRead
<1>8. ASSUME NEW d \in DOMAIN clients' PROVE ClientOK(d)'
  <2>1. CASE d = c
    <3>1. clients'[c].view \in {Fresh, conns[k].viewer}
      <4>1. ASSUME IsKept(t, clients'[c].view) PROVE clients'[c].view \in {Fresh, conns[t].viewer} /\ t # None
        BY <1>0, <4>1, KeptIsOwn, KeptIsNumber
      <4>2. QED
        BY <1>4, <4>1 DEF Attached
    <3>2. QED
      BY <1>5, <2>1, <3>1 DEF ClientOK, Attached
  <2>2. CASE d # c
    <3>1. d \in DOMAIN clients \ P /\ clients'[d] = clients[d] /\ ClientOK(d)
      BY <2>2 DEF Attached, RejoinInv, Owned
    <3>2. IsMinted(d)' /\ conns'[d].viewer = conns[d].viewer
      BY <1>1, <3>1, KnownStays DEF ClientOK
    <3>3. d \in DOMAIN hashes => d \in DOMAIN hashes' /\ hashes'[d] = hashes[d]
      BY <2>2, <3>1 DEF Attached
    <3>4. QED
      BY <3>1, <3>2, <3>3 DEF ClientOK
  <2>3. QED
    BY <2>1, <2>2
<1>9. ASSUME NEW d \in DOMAIN hashes' PROVE HashOK(d)'
  <2>1. CASE d = c
    BY <1>5, <2>1 DEF HashOK, Attached
  <2>2. CASE d # c
    <3>1. d \in DOMAIN hashes /\ hashes'[d] = hashes[d] /\ HashOK(d)
      BY <1>0, <1>3, <2>2
    <3>2. PICK s : s = hashes[d]
      OBVIOUS
    <3>3. IsMinted(d)' /\ IsMinted(s)' /\ conns'[d].viewer = conns'[s].viewer
      BY <1>1, <3>1, <3>2, KnownStays DEF HashOK
    <3>4. QED
      BY <3>1, <3>2, <3>3 DEF HashOK, IsMinted
  <2>3. QED
    BY <2>1, <2>2
<1>10. ASSUME NEW i \in DOMAIN filed' PROVE RecordOK(filed[i])'
  <2>1. PICK j \in DOMAIN filed : filed'[i] = filed[j]
    BY DEF Attached
  <2>2. PICK s : s = filed[j].token
    OBVIOUS
  <2>3. RecordOK(filed[j])
    BY DEF RejoinInv, Owned
  <2>4. IsMinted(s)' /\ conns'[s].viewer = conns[s].viewer
    BY <1>1, <2>2, <2>3, KnownStays DEF RecordOK
  <2>5. QED
    BY <2>1, <2>2, <2>3, <2>4 DEF RecordOK, IsMinted
<1>11. Owned'
  BY <1>6, <1>7, <1>8, <1>9, <1>10 DEF Owned
<1>12. TokenOpensOnePlace'
  <2>1. /\ \A d, e \in DOMAIN hashes : hashes[d] = hashes[e] => d = e
        /\ \A d \in DOMAIN hashes, i \in DOMAIN filed : hashes[d] # filed[i].token
    BY OnePlace DEF RejoinInv
  <2>2. hashes'[c] = k /\ \A i \in DOMAIN filed' : \E j \in DOMAIN filed : filed'[i] = filed[j]
    BY DEF Attached
  <2>3. ASSUME NEW d \in DOMAIN hashes', NEW e \in DOMAIN hashes', hashes'[d] = hashes'[e] PROVE d = e
    BY <1>2, <1>3, <2>1, <2>2, <2>3
  <2>4. ASSUME NEW d \in DOMAIN hashes', NEW i \in DOMAIN filed' PROVE hashes'[d] # filed'[i].token
    BY <1>2, <1>3, <2>1, <2>2
  <2>5. \A i, j \in DOMAIN filed' : filed'[i].token = filed'[j].token => i = j
    BY DEF Attached, Apart
  <2>6. QED
    BY <2>3, <2>4, <2>5 DEF TokenOpensOnePlace, TokensOf, IsInjective
<1>13. Awaited'
  BY <1>0 DEF Awaited, AwaitedAreAway, Attached
<1>14. ASSUME NEW v \in Viewers, viewers[v].state = "joining", viewers[v].conn = k PROVE KeptOK(v)'
  <2>1. ViewerOK(v) /\ KeptOK(v)
    BY DEF RejoinInv, Owned
  <2>2. Place(v) = t /\ Expects(v)
    BY <1>14, <2>1 DEF ViewerOK, Place, Expects
  <2>3. Place(v)' = k
    BY <1>14 DEF Attached, Place
  <2>4. ASSUME viewers'[v].looked PROVE IsKept(k, v)'
    <3>1. viewers[v].looked
      BY <2>4 DEF Attached
    <3>2. IsKept(t, v)
      BY <2>1, <2>2, <3>1 DEF KeptOK
    <3>3. clients'[c].view = v /\ c \in DOMAIN clients' /\ c \in DOMAIN hashes' /\ hashes'[c] = k
      BY <3>2 DEF Attached
    <3>4. QED
      BY <3>3 DEF IsKept
  <2>5. viewers'[v].looked => IsKept(Place(v), v)'
    BY <2>3, <2>4 DEF IsKept
  <2>6. \A j \in DOMAIN conns' : conns'[j].token # k
    BY <1>2, SMTT(60) DEF Attached
  <2>7. QED
    BY <2>3, <2>5, <2>6 DEF KeptOK
<1>15. ASSUME NEW v \in Viewers, ~(viewers[v].state = "joining" /\ viewers[v].conn = k) PROVE KeptOK(v)'
  <2>1. ViewerOK(v) /\ KeptOK(v)
    BY DEF RejoinInv, Owned
  <2>2. PICK s : s = Place(v)
    OBVIOUS
  <2>3. /\ Place(v)' = s /\ (Expects(v)' => Expects(v))
        /\ viewers[v].state = "joining" => viewers[v].conn \in DOMAIN conns
    <3>1. /\ viewers'[v].state = viewers[v].state /\ viewers'[v].conn = viewers[v].conn
          /\ viewers'[v].token = viewers[v].token
      BY DEF Attached
    <3>2. viewers[v].state = "joining" =>
            viewers[v].conn \in DOMAIN conns /\ conns'[viewers[v].conn] = conns[viewers[v].conn]
      BY <1>15, <2>1 DEF ViewerOK, Attached
    <3>3. QED
      BY <2>2, <3>1, <3>2 DEF Place, Expects
  <2>4. ASSUME viewers'[v].looked, Expects(v)
        PROVE  /\ IsKept(s, v)'
               /\ \A j \in DOMAIN conns' : conns'[j].state = "asking" /\ conns'[j].token = s =>
                    viewers[v].state = "joining" /\ viewers[v].conn = j
    <3>1. /\ IsKept(s, v)
          /\ \A j \in DOMAIN conns : conns[j].state = "asking" /\ conns[j].token = s =>
               viewers[v].state = "joining" /\ viewers[v].conn = j
      BY <2>1, <2>2, <2>4 DEF KeptOK, Attached
    <3>2. s # t /\ s \in {viewers[v].token, viewers[v].conn}
      BY <1>15, <2>2, <3>1 DEF Place
    <3>3. ASSUME \E d \in DOMAIN hashes \cap DOMAIN clients : hashes[d] = s /\ clients[d].view = v
          PROVE  IsKept(s, v)'
      <4>1. PICK d \in DOMAIN hashes \cap DOMAIN clients : hashes[d] = s /\ clients[d].view = v
        BY <3>3
      <4>2. d \in DOMAIN hashes' /\ d # c /\ hashes'[d] = s
        BY <1>3, <3>2, <4>1
      <4>3. d \notin P
        BY <1>3, <3>2, <4>1
      <4>4. d \in DOMAIN clients' /\ clients'[d] = clients[d]
        BY <4>1, <4>2, <4>3 DEF Attached
      <4>5. QED
        BY <4>1, <4>2, <4>4 DEF IsKept
    <3>4. ASSUME \E i \in DOMAIN filed : filed[i].token = s /\ filed[i].view = v
          PROVE  IsKept(s, v)'
      <4>1. PICK j \in DOMAIN filed : filed[j].token = s /\ filed[j].view = v
        BY <3>4
      <4>2. PICK i \in DOMAIN filed' : filed'[i] = filed[j]
        BY <2>4, <3>2, <4>1 DEF Attached
      <4>3. QED
        BY <4>1, <4>2 DEF IsKept
    <3>5. IsKept(s, v)'
      BY <3>1, <3>3, <3>4 DEF IsKept
    <3>6. \A j \in DOMAIN conns' : conns'[j].state = "asking" => j \in DOMAIN conns /\ conns'[j] = conns[j]
      BY DEF Attached
    <3>7. QED
      BY <3>1, <3>5, <3>6
  <2>5. viewers'[v].looked /\ Expects(v) => IsKept(Place(v), v)'
    BY <2>3, <2>4 DEF IsKept
  <2>6. viewers'[v].state = viewers[v].state /\ viewers'[v].conn = viewers[v].conn
    BY DEF Attached
  <2>7. QED
    BY <2>3, <2>4, <2>5, <2>6 DEF KeptOK
<1>16. ASSUME NEW e, \E i \in 2 .. Len(inbox) : e = inbox[i] PROVE EventOK(e)'
  <2>1. Len(inbox) \in Nat /\ DOMAIN inbox = 1 .. Len(inbox)
    BY <1>0 DEF Shapes
  <2>2. PICK i \in 2 .. Len(inbox) : e = inbox[i]
    BY <1>16
  <2>3. i \in DOMAIN inbox /\ 1 \in DOMAIN inbox /\ i # 1 /\ EventOK(e) /\ inbox[1] = Head(inbox)
    <3>1. i \in DOMAIN inbox /\ i # 1
      BY <2>1
    <3>2. QED
      BY <1>0, <2>2, <3>1, HeadFacts DEF EventsOK
  <2>4. e.kind = "attach" => conns'[e.conn].state = "asking"
    <3>1. e.kind = "attach" => e.conn # k
      BY <1>0, <2>2, <2>3 DEF EventsOK
    <3>2. QED
      BY <2>3, <3>1 DEF EventOK, Attached
  <2>5. ASSUME e.kind = "detached", ~e.streamed, e.client \in DOMAIN hashes'
        PROVE  e.client \in DOMAIN hashes /\ hashes'[e.client] = hashes[e.client]
    <3>1. IsMinted(e.client) /\ (e.client \in DOMAIN hashes => IsDead(hashes[e.client]))
      BY <2>3, <2>5 DEF EventOK
    <3>2. e.client # k
      BY <3>1 DEF IsMinted
    <3>3. e.client # c
      BY <1>3, <3>1, <3>2 DEF IsDead
    <3>4. QED
      BY <1>3, <2>5, <3>3
  <2>6. QED
    BY <1>0, <1>1, <2>3, <2>4, <2>5, EventStays
<1>17. /\ EventsOK' /\ inbox' \in Seq(Events)
       /\ \A i \in DOMAIN inbox' : \E j \in 2 .. Len(inbox) : inbox'[i] = inbox[j]
  BY <1>0, <1>16, EventsTail
<1>18. WindowsOK'
  <2>1. \A j \in 2 .. Len(inbox) : j \in DOMAIN inbox
    BY <1>0 DEF Shapes
  <2>2. QED
    BY <1>0, <1>17, <2>1, WindowStays DEF WindowsOK
<1>19. Shapes'
  <2>1. Len(conns') = Len(conns)
    BY <1>0 DEF Attached
  <2>2. \A d \in DOMAIN clients' : clients'[d] \in ClientType
    BY <1>0 DEF Shapes, Attached
  <2>3. \A d \in DOMAIN hashes' : hashes'[d] \in Numbers
    BY <1>0, <1>3 DEF Shapes, Attached
  <2>4. DOMAIN clients' \subseteq Numbers /\ DOMAIN hashes' \subseteq Numbers
    BY <1>0 DEF Shapes, Attached
  <2>5. QED
    BY <1>0, <1>17, <2>1, <2>2, <2>3, <2>4 DEF Shapes, Attached
<1>20. \A v \in Viewers : KeptOK(v)'
  BY <1>14, <1>15
<1>21. QED
  BY <1>11, <1>12, <1>13, <1>17, <1>18, <1>19, <1>20 DEF RejoinInv

\* Any event is handled.
LEMMA HandleEventStep ==
  ASSUME RejoinInv, HandleEvent
  PROVE  RejoinInv'
<1>0. Shapes /\ EventsOK /\ inbox # <<>> /\ inbox' = Tail(inbox) /\ UNCHANGED phase
  BY DEF RejoinInv, HandleEvent
<1>1. PICK e : e = Head(inbox)
  OBVIOUS
<1>2. EventOK(e)
  BY <1>0, <1>1, HeadFacts
<1>3. CASE e.kind = "attach"
  <2>1. HandleAttach(e.conn)
    BY <1>1, <1>3 DEF HandleEvent
  <2>2. e.conn \in DOMAIN conns /\ conns[e.conn].state = "asking"
    BY <1>2, <1>3 DEF EventOK
  <2>3. PICK c \in Numbers, P \in SUBSET Numbers : Attached(e.conn, c, P, conns[e.conn].token)
    BY <2>1, <2>2, AttachFacts
  <2>4. UNCHANGED <<isQuit, windowVars>>
    BY <2>1 DEF HandleAttach
  <2>5. QED
    BY <1>0, <1>1, <1>3, <2>2, <2>3, <2>4, AttachedInv
<1>4. CASE e.kind = "detached"
  <2>1. HandleDetached(e)
    BY <1>1, <1>4 DEF HandleEvent
  <2>2. QED
    BY <1>0, <1>1, <1>4, <2>1, HandleDetachedStep
<1>5. CASE e.kind = "drop"
  <2>1. HandleDrop(e)
    BY <1>1, <1>5 DEF HandleEvent
  <2>2. QED
    BY <1>0, <2>1, HandleDropStep
<1>6. QED
  BY <1>2, <1>3, <1>4, <1>5 DEF EventOK

-----------------------------------------------------------------------------
(* The invariant holds *)

LEMMA InitInv ==
  ASSUME Init
  PROVE  RejoinInv
<1>1. /\ clients = <<>> /\ awaiting = {} /\ hashes = <<>> /\ filed = <<>> /\ inbox = <<>>
      /\ conns = <<>> /\ phase = "serving" /\ isQuit = FALSE /\ opening = 0 /\ hasRunOut = FALSE
      /\ viewers = [v \in Viewers |-> [NoViewer EXCEPT !.state = "new"]]
  BY DEF Init
<1>2. DOMAIN clients = {} /\ DOMAIN hashes = {} /\ DOMAIN filed = {} /\ DOMAIN inbox = {} /\ DOMAIN conns = {}
  BY <1>1
<1>3. ASSUME NEW v \in Viewers
      PROVE  /\ viewers[v] \in ViewerType /\ viewers[v].token = None /\ viewers[v].state = "new"
             /\ viewers[v].looked = FALSE
  BY <1>1 DEF NoViewer, ViewerType, ViewerStates
<1>4. Shapes
  <2>1. viewers \in [Viewers -> ViewerType]
    BY <1>1, <1>3
  <2>2. conns \in Seq(ConnType) /\ filed \in Seq(RecordType) /\ inbox \in Seq(Events)
    BY <1>1
  <2>3. Len(conns) <= MaxConnections /\ Len(filed) <= RecordLimit
    BY <1>1, RejoinAssumption
  <2>4. phase \in Phases /\ isQuit \in BOOLEAN
    BY <1>1 DEF Phases
  <2>5. QED
    BY <1>2, <2>1, <2>2, <2>3, <2>4 DEF Shapes
<1>5. Owned /\ \A v \in Viewers : KeptOK(v)
  BY <1>2, <1>3 DEF Owned, ViewerOK, KeptOK
<1>6. EventsOK /\ Awaited
  BY <1>1, <1>2 DEF EventsOK, Awaited, AwaitedAreAway
<1>7. TokenOpensOnePlace
  BY <1>2, OnePlace DEF Apart
<1>8. WindowsOK
  <2>1. PICK w \in {0, 1} :
          /\ window = w /\ nextWindow = w + 1
          /\ timers = IF w = 1 THEN {[id |-> 1, opening |-> 0]} ELSE {}
    BY DEF Init
  <2>2. timers \subseteq [id : 0 .. nextWindow - 1, opening : 0 .. opening]
    BY <1>1, <2>1
  <2>3. \A t \in timers : t.id = window => t.opening = opening
    BY <1>1, <2>1
  <2>4. opening \in 0 .. MaxSwaps /\ window \in Nat /\ nextWindow \in 1 .. opening + 2 /\ window < nextWindow
    BY <1>1, <2>1, RejoinAssumption
  <2>5. hasRunOut \in BOOLEAN /\ phase = "serving"
    BY <1>1
  <2>6. QED
    BY <1>2, <2>2, <2>3, <2>4, <2>5 DEF WindowsOK
<1>9. QED
  BY <1>4, <1>5, <1>6, <1>7, <1>8 DEF RejoinInv

LEMMA NextInv ==
  ASSUME RejoinInv, [Next]_vars
  PROVE  RejoinInv'
<1>1. CASE HandleEvent
  BY <1>1, HandleEventStep
<1>2. CASE \/ ViewExpires \/ (\E c \in DOMAIN clients : DetachCommand(c))
           \/ KillCommand \/ SessionEnds \/ StartRefusingRequests
  BY <1>2, StoreStep
<1>3. CASE AnnounceRestarting
  BY <1>3, AnnounceStep
<1>4. CASE \E how \in Outcomes : Swap(how)
  BY <1>4, SwapInv
<1>5. CASE \E t \in timers : TimerFires(t)
  BY <1>5, TimerStep
<1>6. CASE \E k \in DOMAIN conns : ThreadStep(k)
  BY <1>6, AnswerAttachInv, ThreadEnds DEF ThreadStep
<1>7. CASE \E v \in Viewers : ViewerMoves(v)
  <2>1. PICK v \in Viewers : ViewerMoves(v)
    BY <1>7
  <2>2. CASE Dial(v) \/ RejoinSession(v) \/ Redial(v)
    BY <2>2, Dials
  <2>3. CASE \/ ReadRestarting(v) \/ LinkDies(v) \/ JoinBreaks(v)
             \/ Leave(v) \/ ReadGoodbye(v) \/ GiveUp(v)
    BY <2>3, ViewerLeaves
  <2>4. CASE Look(v)
    BY <2>4, LookInv
  <2>5. QED
    BY <2>1, <2>2, <2>3, <2>4 DEF ViewerMoves
<1>8. CASE UNCHANGED vars
  <2>1. UNCHANGED <<clients, awaiting, hashes, filed, viewers, conns, windowVars, isQuit, phase, inbox>>
    BY <1>8 DEF vars, storeVars
  <2>2. Stored
    BY <2>1, QuietStores
  <2>3. isQuit' \in BOOLEAN /\ phase' \in Phases /\ (phase' \in {"told", "refusing"} => opening < MaxSwaps)
    BY <2>1 DEF RejoinInv, Shapes, WindowsOK
  <2>4. QED
    BY <2>1, <2>2, <2>3, StoredInv
<1>9. QED
  BY <1>1, <1>2, <1>3, <1>4, <1>5, <1>6, <1>7, <1>8 DEF Next, SwapStep

\* The inductive invariant: what every connection, viewer, client, hash, filed
\* view, event and timer says of the others holds in every state the session, its
\* swaps and its viewers can reach.
THEOREM RejoinInvariant == Spec => []RejoinInv
<1>1. Init => RejoinInv
  BY InitInv
<1>2. RejoinInv /\ [Next]_vars => RejoinInv'
  BY NextInv
<1>3. QED
  BY <1>1, <1>2, PTL DEF Spec

\* Records, tokens, filed views and the awaited clients agree: a token opens one
\* place, and nobody streams for a client the grace window would drop.
THEOREM StoreConsistent == Spec => []StoreIsConsistent
<1>1. RejoinInv => StoreIsConsistent
  <2> SUFFICES ASSUME RejoinInv PROVE StoreIsConsistent
    OBVIOUS
  <2>0. Shapes /\ Owned /\ WindowsOK /\ Awaited /\ TokenOpensOnePlace
    BY DEF RejoinInv
  <2>1. ASSUME NEW c \in DOMAIN hashes PROVE hashes[c] \in DOMAIN conns
    BY <2>0 DEF Owned, HashOK, IsMinted
  <2>2. ASSUME NEW c \in DOMAIN clients
        PROVE  clients[c].view \in Views /\ clients[c].stream \in DOMAIN conns \cup {None}
    <3>1. clients[c] \in ClientType /\ ClientOK(c)
      BY <2>0 DEF Shapes, Owned
    <3>2. QED
      BY <2>1, <3>1 DEF ClientType, ClientOK
  <2>3. ASSUME NEW i \in DOMAIN filed PROVE filed[i] \in [token : DOMAIN conns, view : Views]
    <3>1. filed[i] \in RecordType /\ RecordOK(filed[i])
      BY <2>0 DEF Shapes, Owned
    <3>2. QED
      BY <3>1 DEF RecordType, RecordOK, IsMinted
  <2>4. /\ window < nextWindow /\ nextWindow \in 1 .. MaxSwaps + 2
        /\ timers \subseteq [id : 0 .. MaxSwaps + 1, opening : 0 .. MaxSwaps]
    <3>1. /\ opening \in 0 .. MaxSwaps /\ nextWindow \in 1 .. opening + 2 /\ window < nextWindow
          /\ timers \subseteq [id : 0 .. nextWindow - 1, opening : 0 .. opening]
      BY <2>0 DEF WindowsOK
    <3>2. /\ nextWindow \in 1 .. MaxSwaps + 2 /\ 0 .. nextWindow - 1 \subseteq 0 .. MaxSwaps + 1
          /\ 0 .. opening \subseteq 0 .. MaxSwaps
      BY <3>1, RejoinAssumption
    <3>3. QED
      BY <3>1, <3>2
  <2>5. isQuit \in BOOLEAN /\ hasRunOut \in BOOLEAN
    BY <2>0 DEF Shapes, WindowsOK
  <2>6. ASSUME NEW k \in DOMAIN conns PROVE conns[k].state \in ConnStates /\ conns[k].link \in Links
    <3>1. conns[k] \in ConnType
      BY <2>0 DEF Shapes
    <3>2. QED
      BY <3>1 DEF ConnType
  <2>7. ASSUME NEW v \in Viewers PROVE viewers[v].state \in ViewerStates
    BY <2>0 DEF Shapes, ViewerType
  <2>8. TypeOK
    BY <2>0, <2>1, <2>2, <2>3, <2>4, <2>5, <2>6, <2>7 DEF TypeOK, Shapes, Awaited
  <2>9. QED
    BY <2>0, <2>8 DEF StoreIsConsistent, Awaited
<1>2. QED
  BY <1>1, RejoinInvariant, PTL

\* A viewer that set up its view finds it again, whichever way it comes back, and
\* whatever other viewers, swaps, timers and late detaches do in between.
THEOREM ViewFound == Spec => []ViewComesBack
<1>1. RejoinInv => ViewComesBack
  <2> SUFFICES ASSUME RejoinInv, NEW v \in Viewers, IsStreaming(v)
               PROVE  /\ clients[viewers[v].client].view \in {v, Fresh}
                      /\ viewers[v].looked => clients[viewers[v].client].view = v
    BY DEF ViewComesBack
  <2>0. Shapes /\ ViewerOK(v) /\ KeptOK(v)
    BY DEF RejoinInv, Owned
  <2>1. PICK c \in DOMAIN clients : c = viewers[v].client /\ clients[c].stream = viewers[v].conn
    BY DEF IsStreaming
  <2>2. PICK t \in DOMAIN conns : t = viewers[v].conn /\ t = viewers[v].token /\ conns[t].viewer = v
    BY <2>0 DEF IsStreaming, ViewerOK
  <2>3. t # None
    BY <2>0, RejoinAssumption DEF Shapes
  <2>4. ClientOK(c) /\ c \in DOMAIN hashes /\ hashes[c] = t
    BY <2>1, <2>2, <2>3 DEF RejoinInv, Owned, ClientOK
  <2>5. IsKept(t, clients[c].view)
    BY <2>4 DEF IsKept
  <2>6. clients[c].view \in {Fresh, v}
    BY <2>2, <2>5, KeptIsOwn
  <2>7. ASSUME viewers[v].looked PROVE clients[c].view = v
    <3>1. Place(v) = t /\ Expects(v)
      BY <2>2 DEF IsStreaming, Place, Expects
    <3>2. IsKept(t, v)
      BY <2>0, <2>7, <3>1 DEF KeptOK
    <3>3. /\ \A d \in DOMAIN hashes : hashes[d] = t => d = c
          /\ \A i \in DOMAIN filed : filed[i].token # t
      BY <2>4, OnePlace DEF RejoinInv
    <3>4. QED
      BY <3>2, <3>3 DEF IsKept
  <2>8. QED
    BY <2>1, <2>6, <2>7
<1>2. QED
  BY <1>1, RejoinInvariant, PTL

\* No client is dropped as unclaimed before the window of its own swap has run
\* out: the event of a timer an earlier swap left behind closes nothing.
THEOREM WindowHonoured == Spec => WindowRunsItsTime
<1> DEFINE Honest ==
      awaiting # {} /\ awaiting' = {} /\ opening' = opening
        /\ Cardinality(DOMAIN clients') < Cardinality(DOMAIN clients)
        /\ Head(inbox).kind = "drop"
      => hasRunOut
<1>1. RejoinInv /\ [Next]_vars => [Honest]_vars
  <2> SUFFICES ASSUME RejoinInv, Next, awaiting # {}, awaiting' = {}, opening' = opening,
                      Head(inbox).kind = "drop"
               PROVE  hasRunOut
    OBVIOUS
  <2>0. Shapes /\ EventsOK /\ WindowsOK /\ opening \in Nat
    BY DEF RejoinInv, WindowsOK
  <2>1. UNCHANGED awaiting \/ HandleEvent \/ \E how \in Outcomes : Swap(how)
    BY ZenonT(60) DEF Next, ViewExpires, DetachCommand, KillCommand, SessionEnds,
                      AnnounceRestarting, SwapStep, StartRefusingRequests, TimerFires, ThreadStep,
                      AnswerAttach, AnswerFails, StreamEnds, HandOverDetach, ViewerMoves, Dial,
                      RejoinSession, Redial, Join, ReadRestarting, LinkDies, JoinBreaks, Leave,
                      ReadGoodbye, GiveUp, Look, ViewerStep
  <2>2. \A how \in Outcomes : ~Swap(how)
    <3> SUFFICES ASSUME NEW how \in Outcomes, Swap(how) PROVE FALSE
      OBVIOUS
    <3>1. opening' = opening + 1
      BY RejoinAssumption DEF Swap, SwapByExec, SwapRebuilds, SwapKeepsSocket, Resume
    <3>2. QED
      BY <2>0, <3>1
  <2>3. HandleEvent
    BY <2>1, <2>2
  <2>4. HandleDrop(Head(inbox)) /\ inbox # <<>>
    BY <2>3 DEF HandleEvent
  <2>5. Head(inbox).id = window
    BY <2>4 DEF HandleDrop, IsOwnWindow
  <2>6. QED
    BY <2>0, <2>4, <2>5, HeadFacts DEF WindowsOK
<1>2. QED
  BY <1>1, RejoinInvariant, PTL DEF Spec, WindowRunsItsTime
=============================================================================
