------------------------- MODULE SessionStateProofs -------------------------
(***************************************************************************)
(* Proofs about SessionState, for any clients, panes, tabs, areas and      *)
(* geometries: after every handler the tabs and the pane records agree,    *)
(* every view names what exists and has a focus it can show, every tab is  *)
(* solved for the clients that view it, and no kept solve is stale; and no *)
(* handler moves the focus of a client it does not act for.                *)
(***************************************************************************)
EXTENDS SessionState, FiniteSetTheorems, WellFoundedInduction, TLAPS

-----------------------------------------------------------------------------
(* Numbers *)

NatLess == {ss \in Nat \X Nat : ss[1] < ss[2]}

\* A set of naturals has a least element: what the inductions below rest on.
LEMMA NatLeast ==
  ASSUME NEW T \in SUBSET Nat, T # {}
  PROVE  \E m \in T : \A k \in T : m <= k
<1>1. IsWellFoundedOn(NatLess, Nat)
  BY NatLessThanWellFounded DEF OpToRel, NatLess
<1>2. PICK x \in T : \A y \in T : <<y, x>> \notin NatLess
  BY <1>1, WFMin
<1>3. \A y \in T : ~(y < x)
  <2> TAKE y \in T
  <2>1. <<y, x>> \in Nat \X Nat /\ <<y, x>>[1] = y /\ <<y, x>>[2] = x
    OBVIOUS
  <2>2. QED
    BY <1>2, <2>1, Zenon DEF NatLess
<1>4. QED
  BY <1>3

\* Induction up to a bound, over the set of the numbers that have a property.
LEMMA IntervalInduction ==
  ASSUME NEW b \in Nat, NEW Good, 0 \in Good, \A n \in 1 .. b : n - 1 \in Good => n \in Good
  PROVE  \A n \in 0 .. b : n \in Good
<1> DEFINE Bad == {n \in 0 .. b : n \notin Good}
<1>1. SUFFICES ASSUME Bad # {} PROVE FALSE
  OBVIOUS
<1>2. PICK n \in Bad : \A k \in Bad : n <= k
  <2>1. Bad \in SUBSET Nat
    OBVIOUS
  <2> HIDE DEF Bad
  <2>2. QED
    BY <1>1, <2>1, NatLeast
<1>3. n \in 1 .. b /\ n - 1 \in 0 .. b /\ n - 1 \notin Bad
  BY <1>2
<1>4. QED
  BY <1>2, <1>3

\* A bounded set of naturals has a greatest element.
LEMMA NatGreatest ==
  ASSUME NEW T \in SUBSET Nat, T # {}, NEW b \in Nat, \A k \in T : k <= b
  PROVE  \E m \in T : \A k \in T : k <= m
<1> DEFINE D == {b - k : k \in T}
<1>1. D \in SUBSET Nat /\ D # {}
  <2>1. \A k \in T : b - k \in Nat
    OBVIOUS
  <2>2. QED
    BY <2>1
<1>2. PICK d \in D : \A e \in D : d <= e
  BY <1>1, NatLeast
<1>3. PICK m \in T : d = b - m
  OBVIOUS
<1>4. \A k \in T : d <= b - k
  BY <1>2
<1>5. QED
  BY <1>3, <1>4

-----------------------------------------------------------------------------
(* Sequences *)

Distinct(seq) == \A i, j \in DOMAIN seq : seq[i] = seq[j] => i = j

\* The least member of a set of naturals.
LEMMA MinFacts ==
  ASSUME NEW T \in SUBSET Nat, T # {}
  PROVE  Min(T) \in T /\ \A k \in T : Min(T) <= k
<1>1. \E m \in T : \A k \in T : m <= k
  BY NatLeast
<1>2. QED
  BY <1>1 DEF Min

\* f gives what S keeps of the first members of seq, up to the first n.
IsRunningKeep(f, seq, S, n) ==
  /\ f = [i \in 0 .. n |-> f[i]]
  /\ f[0] = <<>>
  /\ \A i \in 1 .. n : f[i] = IF seq[i] \in S THEN Append(f[i - 1], seq[i]) ELSE f[i - 1]

\* Such a function exists for every length.
LEMMA RunningKeepExists ==
  ASSUME NEW seq, NEW S, Len(seq) \in Nat
  PROVE  \E f : IsRunningKeep(f, seq, S, Len(seq))
<1> DEFINE Good == {n \in Nat : \E f : IsRunningKeep(f, seq, S, n)}
<1>1. 0 \in Good
  <2>1. IsRunningKeep([i \in 0 .. 0 |-> <<>>], seq, S, 0)
    BY DEF IsRunningKeep
  <2>2. QED
    BY <2>1
<1>2. ASSUME NEW n \in 1 .. Len(seq), n - 1 \in Good PROVE n \in Good
  <2>1. PICK f : IsRunningKeep(f, seq, S, n - 1)
    BY <1>2
  <2> DEFINE last == IF seq[n] \in S THEN Append(f[n - 1], seq[n]) ELSE f[n - 1]
  <2> DEFINE g == [i \in 0 .. n |-> IF i = n THEN last ELSE f[i]]
  <2>2. IsRunningKeep(g, seq, S, n)
    <3>1. g = [i \in 0 .. n |-> g[i]] /\ g[0] = <<>>
      BY <2>1 DEF IsRunningKeep
    <3>2. ASSUME NEW i \in 1 .. n
          PROVE  g[i] = IF seq[i] \in S THEN Append(g[i - 1], seq[i]) ELSE g[i - 1]
      <4>1. i - 1 \in 0 .. n /\ i - 1 # n /\ g[i - 1] = f[i - 1]
        OBVIOUS
      <4>2. CASE i = n
        BY <4>1, <4>2
      <4>3. CASE i # n
        <5>1. i \in 1 .. n - 1 /\ g[i] = f[i]
          BY <4>3
        <5>2. f[i] = IF seq[i] \in S THEN Append(f[i - 1], seq[i]) ELSE f[i - 1]
          BY <2>1, <5>1 DEF IsRunningKeep
        <5>3. QED
          BY <4>1, <5>1, <5>2
      <4>4. QED
        BY <4>2, <4>3
    <3>3. QED
      BY <3>1, <3>2 DEF IsRunningKeep
  <2>3. QED
    BY <2>2
<1>3. Len(seq) \in Good
  <2> HIDE DEF Good
  <2>1. \A n \in 1 .. Len(seq) : n - 1 \in Good => n \in Good
    BY <1>2
  <2>2. \A n \in 0 .. Len(seq) : n \in Good
    BY <1>1, <2>1, IntervalInduction, Zenon
  <2>3. QED
    BY <2>2
<1>4. QED
  BY <1>3

\* What `Keeping` gives: the members in S, in the sequence's order, each once
\* where the sequence has each once.
LEMMA KeepingFacts ==
  ASSUME NEW P, NEW seq \in Seq(P), NEW S
  PROVE  /\ Keeping(seq, S) \in Seq(P) /\ Range(Keeping(seq, S)) = Range(seq) \cap S
         /\ Distinct(seq) => Distinct(Keeping(seq, S))
         /\ seq # <<>> /\ seq[1] \in S => Len(Keeping(seq, S)) > 0 /\ Keeping(seq, S)[1] = seq[1]
<1> DEFINE Eqn(f) == f = [n \in 0 .. Len(seq) |->
                            IF n = 0 THEN <<>>
                            ELSE IF seq[n] \in S THEN Append(f[n - 1], seq[n]) ELSE f[n - 1]]
<1>0. Len(seq) \in Nat /\ DOMAIN seq = 1 .. Len(seq) /\ \A i \in 1 .. Len(seq) : seq[i] \in P
  OBVIOUS
<1>1. PICK h : IsRunningKeep(h, seq, S, Len(seq))
  BY <1>0, RunningKeepExists
<1>2. Eqn(h)
  <2> DEFINE Step(n) == IF n = 0 THEN <<>>
                        ELSE IF seq[n] \in S THEN Append(h[n - 1], seq[n]) ELSE h[n - 1]
  <2>1. ASSUME NEW n \in 0 .. Len(seq) PROVE h[n] = Step(n)
    <3>1. CASE n = 0
      BY <1>1, <3>1 DEF IsRunningKeep
    <3>2. CASE n # 0
      <4>1. n \in 1 .. Len(seq)
        BY <1>0, <3>2
      <4>2. QED
        BY <1>1, <3>2, <4>1 DEF IsRunningKeep
    <3>3. QED
      BY <3>1, <3>2
  <2>2. h = [n \in 0 .. Len(seq) |-> h[n]]
    BY <1>1 DEF IsRunningKeep
  <2> HIDE DEF Step
  <2>3. [n \in 0 .. Len(seq) |-> h[n]] = [n \in 0 .. Len(seq) |-> Step(n)]
    BY <2>1
  <2>4. h = [n \in 0 .. Len(seq) |-> Step(n)]
    BY <2>2, <2>3
  <2>5. QED
    BY <2>4 DEF Step
<1>3. PICK f : f = CHOOSE k : Eqn(k)
  OBVIOUS
<1>4. Keeping(seq, S) = f[Len(seq)]
  BY <1>3 DEF Keeping
<1>5. Eqn(f)
  BY <1>2, <1>3
<1>6. f[0] = <<>> /\ \A n \in 1 .. Len(seq) :
        f[n] = IF seq[n] \in S THEN Append(f[n - 1], seq[n]) ELSE f[n - 1]
  <2> DEFINE Step(n) == IF n = 0 THEN <<>>
                        ELSE IF seq[n] \in S THEN Append(f[n - 1], seq[n]) ELSE f[n - 1]
  <2>1. f = [n \in 0 .. Len(seq) |-> Step(n)]
    BY <1>5
  <2> HIDE DEF Step
  <2>2. \A n \in 0 .. Len(seq) : f[n] = Step(n)
    BY <2>1
  <2>3. 0 \in 0 .. Len(seq) /\ \A n \in 1 .. Len(seq) : n \in 0 .. Len(seq) /\ n # 0
    BY <1>0
  <2>4. QED
    BY <2>2, <2>3 DEF Step
<1> HIDE DEF Eqn
<1> DEFINE Firsts(n) == {seq[i] : i \in 1 .. n}
           Kept(n) == /\ f[n] \in Seq(P) /\ Range(f[n]) = Firsts(n) \cap S
                      /\ Distinct(seq) => Distinct(f[n])
                      /\ n # 0 /\ seq[1] \in S => Len(f[n]) > 0 /\ f[n][1] = seq[1]
           Good == {n \in 0 .. Len(seq) : Kept(n)}
<1>7. 0 \in Good
  <2>1. f[0] \in Seq(P) /\ Range(f[0]) = {} /\ Distinct(f[0])
    BY <1>6 DEF Range, Distinct
  <2>2. Firsts(0) = {}
    OBVIOUS
  <2>3. QED
    BY <1>0, <2>1, <2>2
<1>8. ASSUME NEW n \in 1 .. Len(seq), n - 1 \in Good PROVE n \in Good
  <2>1. /\ f[n - 1] \in Seq(P) /\ Range(f[n - 1]) = Firsts(n - 1) \cap S
        /\ Distinct(seq) => Distinct(f[n - 1])
        /\ n - 1 # 0 /\ seq[1] \in S => Len(f[n - 1]) > 0 /\ f[n - 1][1] = seq[1]
    BY <1>8
  <2>2. Firsts(n) = Firsts(n - 1) \cup {seq[n]}
    BY <1>0
  <2>3. n \in 0 .. Len(seq) /\ seq[n] \in P
    BY <1>0
  <2>4. CASE seq[n] \notin S
    <3>1. f[n] = f[n - 1]
      BY <1>6, <2>4
    <3>2. Firsts(n) \cap S = Firsts(n - 1) \cap S
      BY <2>2, <2>4
    <3>3. seq[1] \in S => n - 1 # 0
      BY <2>4
    <3>4. QED
      BY <2>1, <2>3, <3>1, <3>2, <3>3
  <2>5. CASE seq[n] \in S
    <3>1. PICK k : k = f[n - 1]
      OBVIOUS
    <3>2. f[n] = Append(k, seq[n])
      BY <1>6, <2>5, <3>1
    <3>3. k \in Seq(P)
      BY <2>1, <3>1
    <3>4. /\ Append(k, seq[n]) \in Seq(P) /\ DOMAIN Append(k, seq[n]) = 1 .. Len(k) + 1
          /\ Len(k) \in Nat /\ DOMAIN k = 1 .. Len(k)
          /\ \A i \in 1 .. Len(k) : Append(k, seq[n])[i] = k[i]
          /\ Append(k, seq[n])[Len(k) + 1] = seq[n]
      BY <2>3, <3>3
    <3>5. Range(Append(k, seq[n])) = Range(k) \cup {seq[n]}
      BY <3>4 DEF Range
    <3>6. Firsts(n) \cap S = (Firsts(n - 1) \cap S) \cup {seq[n]}
      BY <2>2, <2>5
    <3>7. ASSUME Distinct(seq) PROVE Distinct(Append(k, seq[n]))
      <4>1. seq[n] \notin Firsts(n - 1)
        BY <1>0, <3>7 DEF Distinct
      <4>2. seq[n] \notin Range(k)
        BY <2>1, <3>1, <4>1
      <4>3. \A i \in 1 .. Len(k) : k[i] # seq[n]
        BY <3>4, <4>2 DEF Range
      <4>4. Distinct(k)
        BY <2>1, <3>1, <3>7
      <4>5. QED
        BY <3>4, <4>3, <4>4 DEF Distinct
    <3>8. seq[1] \in S => Len(Append(k, seq[n])) > 0 /\ Append(k, seq[n])[1] = seq[1]
      <4>1. Len(Append(k, seq[n])) = Len(k) + 1
        BY <2>3, <3>3
      <4>2. CASE n = 1
        <5>1. k = <<>>
          BY <1>6, <3>1, <4>2
        <5>2. Len(k) = 0
          BY <5>1
        <5>3. QED
          BY <3>4, <4>1, <4>2, <5>2
      <4>3. CASE n # 1
        BY <2>1, <3>1, <3>4, <4>1, <4>3
      <4>4. QED
        BY <4>2, <4>3
    <3>9. QED
      BY <2>1, <2>3, <3>1, <3>2, <3>4, <3>5, <3>6, <3>7, <3>8
  <2>6. QED
    BY <2>4, <2>5
<1>9. Len(seq) \in Good
  <2> HIDE DEF Good
  <2>1. \A n \in 1 .. Len(seq) : n - 1 \in Good => n \in Good
    BY <1>8
  <2>2. \A n \in 0 .. Len(seq) : n \in Good
    BY <1>0, <1>7, <2>1, IntervalInduction, Zenon
  <2>3. QED
    BY <1>0, <2>2
<1>10. Firsts(Len(seq)) = Range(seq)
  BY <1>0 DEF Range
<1>11. seq # <<>> => Len(seq) # 0
  OBVIOUS
<1>12. QED
  BY <1>4, <1>9, <1>10, <1>11

\* What `Without` gives.
LEMMA WithoutFacts ==
  ASSUME NEW P, NEW seq \in Seq(P), NEW p
  PROVE  /\ Without(seq, p) \in Seq(P) /\ Range(Without(seq, p)) = Range(seq) \ {p}
         /\ Distinct(seq) => Distinct(Without(seq, p))
         /\ seq # <<>> /\ Head(seq) # p => Without(seq, p) # <<>> /\ Head(Without(seq, p)) = Head(seq)
<1> DEFINE w == Keeping(seq, Range(seq) \ {p})
<1>1. /\ Keeping(seq, Range(seq) \ {p}) \in Seq(P)
      /\ Range(Keeping(seq, Range(seq) \ {p})) = Range(seq) \cap (Range(seq) \ {p})
      /\ Distinct(seq) => Distinct(Keeping(seq, Range(seq) \ {p}))
  BY KeepingFacts
<1>2. ASSUME seq # <<>>, Head(seq) # p PROVE w # <<>> /\ Head(w) = Head(seq)
  <2>1. seq[1] = Head(seq) /\ seq[1] \in Range(seq)
    BY <1>2 DEF Range
  <2>2. Len(w) > 0 /\ w[1] = seq[1]
    BY <1>2, <2>1, KeepingFacts
  <2> HIDE DEF w
  <2>3. w \in Seq(P)
    BY <1>1 DEF w
  <2>4. QED
    BY <2>1, <2>2, <2>3
<1>3. QED
  BY <1>1, <1>2 DEF Without

\* A sequence is empty when its range is.
LEMMA RangeFacts ==
  ASSUME NEW P, NEW seq \in Seq(P)
  PROVE  /\ Range(seq) \subseteq P /\ (seq = <<>> <=> Range(seq) = {})
         /\ seq # <<>> => Head(seq) \in Range(seq) /\ Head(seq) = seq[1]
         /\ \A i \in 1 .. Len(seq) : seq[i] \in Range(seq)
         /\ Len(seq) \in Nat /\ DOMAIN seq = 1 .. Len(seq)
<1>1. /\ Len(seq) \in Nat /\ DOMAIN seq = 1 .. Len(seq) /\ \A i \in 1 .. Len(seq) : seq[i] \in P
      /\ seq # <<>> => Len(seq) > 0 /\ Head(seq) = seq[1]
  OBVIOUS
<1>2. \A i \in 1 .. Len(seq) : seq[i] \in Range(seq)
  BY <1>1 DEF Range
<1>3. Range(seq) \subseteq P
  BY <1>1 DEF Range
<1>4. seq # <<>> => Head(seq) \in Range(seq)
  BY <1>1, <1>2
<1>5. seq = <<>> => Range(seq) = {}
  BY DEF Range
<1>6. QED
  BY <1>1, <1>2, <1>3, <1>4, <1>5

\* What `InsertAt` gives: the sequence with one member more.
LEMMA InsertFacts ==
  ASSUME NEW P, NEW seq \in Seq(P), NEW i \in 1 .. Len(seq) + 1, NEW e \in P
  PROVE  /\ InsertAt(seq, i, e) \in Seq(P) /\ Len(InsertAt(seq, i, e)) = Len(seq) + 1
         /\ Range(InsertAt(seq, i, e)) = Range(seq) \cup {e}
         /\ Distinct(seq) /\ e \notin Range(seq) => Distinct(InsertAt(seq, i, e))
<1> DEFINE a == SubSeq(seq, 1, i - 1)  b == SubSeq(seq, i, Len(seq))  r == InsertAt(seq, i, e)
<1>0. Len(seq) \in Nat /\ DOMAIN seq = 1 .. Len(seq) /\ \A k \in 1 .. Len(seq) : seq[k] \in P
  OBVIOUS
<1>1. /\ a \in Seq(P) /\ Len(a) = i - 1 /\ \A k \in 1 .. i - 1 : a[k] = seq[k]
      /\ b \in Seq(P) /\ Len(b) = Len(seq) - i + 1
      /\ \A k \in 1 .. Len(seq) - i + 1 : b[k] = seq[k + i - 1]
  BY <1>0
<1>2. r = a \o <<e>> \o b
  BY DEF InsertAt
<1> HIDE DEF a, b, r
<1>3. PICK m : m = a \o <<e>>
  OBVIOUS
<1>4. /\ m \in Seq(P) /\ Len(m) = i /\ m[i] = e /\ \A k \in 1 .. i - 1 : m[k] = seq[k]
  BY <1>1, <1>3
<1>5. /\ r \in Seq(P) /\ Len(r) = Len(seq) + 1 /\ DOMAIN r = 1 .. Len(seq) + 1
      /\ \A k \in 1 .. i - 1 : r[k] = seq[k]
      /\ r[i] = e
  BY <1>0, <1>1, <1>2, <1>3, <1>4
<1>6. ASSUME NEW k \in i + 1 .. Len(seq) + 1 PROVE r[k] = seq[k - 1]
  <2>1. k - i \in 1 .. Len(b) /\ (k - i) + i - 1 = k - 1 /\ k > Len(m) /\ k <= Len(m) + Len(b)
    BY <1>0, <1>1, <1>4
  <2>2. (m \o b)[k] = b[k - i]
    BY <1>1, <1>4, <2>1
  <2>3. QED
    BY <1>1, <1>2, <1>3, <2>1, <2>2
<1>7. Range(r) = Range(seq) \cup {e}
  <2>1. ASSUME NEW x \in Range(seq) PROVE x \in Range(r)
    <3>1. PICK k \in 1 .. Len(seq) : x = seq[k]
      BY <1>0 DEF Range
    <3>2. CASE k < i
      BY <1>0, <1>5, <3>1, <3>2 DEF Range
    <3>3. CASE k >= i
      <4>1. k + 1 \in i + 1 .. Len(seq) + 1 /\ k + 1 \in 1 .. Len(seq) + 1 /\ (k + 1) - 1 = k
        BY <1>0, <3>3
      <4>2. r[k + 1] = seq[k]
        BY <1>6, <4>1
      <4>3. QED
        BY <1>5, <3>1, <4>1, <4>2 DEF Range
    <3>4. QED
      BY <3>2, <3>3
  <2>2. e \in Range(r)
    BY <1>0, <1>5 DEF Range
  <2>3. ASSUME NEW x \in Range(r) PROVE x \in Range(seq) \cup {e}
    <3>1. PICK k \in 1 .. Len(seq) + 1 : x = r[k]
      BY <1>5 DEF Range
    <3>2. CASE k < i
      BY <1>0, <1>5, <3>1, <3>2 DEF Range
    <3>3. CASE k = i
      BY <1>5, <3>1, <3>3
    <3>4. CASE k > i
      <4>1. k \in i + 1 .. Len(seq) + 1 /\ k - 1 \in 1 .. Len(seq)
        BY <1>0, <3>4
      <4>2. QED
        BY <1>0, <1>6, <3>1, <4>1 DEF Range
    <3>5. QED
      BY <1>0, <3>2, <3>3, <3>4
  <2>4. QED
    BY <2>1, <2>2, <2>3
<1>8. ASSUME Distinct(seq), e \notin Range(seq) PROVE Distinct(r)
  <2> SUFFICES ASSUME NEW j \in 1 .. Len(seq) + 1, NEW k \in 1 .. Len(seq) + 1, r[j] = r[k], j < k
               PROVE  FALSE
    BY <1>0, <1>5 DEF Distinct
  <2>1. \A x \in 1 .. Len(seq) : seq[x] # e
    BY <1>0, <1>8 DEF Range
  <2>2. /\ j < i => r[j] = seq[j] /\ j \in 1 .. Len(seq)
        /\ k < i => r[k] = seq[k] /\ k \in 1 .. Len(seq)
        /\ j > i => r[j] = seq[j - 1] /\ j - 1 \in 1 .. Len(seq)
        /\ k > i => r[k] = seq[k - 1] /\ k - 1 \in 1 .. Len(seq)
    BY <1>0, <1>5, <1>6
  <2>3. \A x, y \in 1 .. Len(seq) : seq[x] = seq[y] => x = y
    BY <1>0, <1>8 DEF Distinct
  <2>4. CASE k < i
    BY <2>2, <2>3, <2>4
  <2>5. CASE j > i
    BY <2>2, <2>3, <2>5
  <2>6. CASE j = i \/ k = i
    BY <1>5, <2>1, <2>2, <2>6
  <2>7. CASE j < i /\ k > i
    BY <2>2, <2>3, <2>7
  <2>8. QED
    BY <2>4, <2>5, <2>6, <2>7
<1>9. QED
  BY <1>5, <1>7, <1>8 DEF r

-----------------------------------------------------------------------------
(* The inductive invariant *)

(***************************************************************************)
(* A handler passes through states in which some of the invariants do not  *)
(* hold yet.  What does hold is said of a session record s and four sets:  *)
(*   X  pairs of a tab and a pane that histories of the tab may still name *)
(*      although the pane left it;                                         *)
(*   D  clients that came to a tab and may have no focus in it yet;        *)
(*   T  tabs about to close, whose panes may have lost their records;      *)
(*   B  tabs whose solve or whose viewers' focus may have to be settled.   *)
(* Between handlers all four are empty.                                    *)
(***************************************************************************)

HeadOf(hist) == IF hist = <<>> THEN NoPane ELSE Head(hist)

Stale(X, v) == {p \in Panes : <<v, p>> \in X}

LeavesIn(ts, v) == IF v \in DOMAIN ts THEN Range(ts[v].leaves) ELSE {}

\* The solve of its active tab that a client would build.
OwnSolve(k, ts) ==
  IF k.zoom[k.active] \in Range(ts[k.active].leaves)
  THEN <<k.zoom[k.active], ts[k.active].size>> ELSE <<NoPane, 0>>

\* A history and a zoom of a tab that has the panes S.
ViewOK(hist, zoom, S) ==
  Range(hist) \subseteq S /\ Distinct(hist) /\ zoom \in {NoPane, HeadOf(hist)}

\* A client record over the tabs ts.
Fits(k, ts, X) ==
  /\ k \in Client
  /\ \A v \in Tabs : ViewOK(k.hist[v], k.zoom[v], LeavesIn(ts, v) \cup Stale(X, v))
  /\ k.own # <<>> /\ k.active \in DOMAIN ts => k.own = OwnSolve(k, ts)

Landed(k, ts) == k.active \in DOMAIN ts => k.hist[k.active] # <<>>

TabOK(tab, records, isClosing) ==
  /\ tab \in Tab /\ tab.hidden \subseteq Range(tab.leaves) /\ tab.leaves # <<>>
  /\ isClosing \/ Range(tab.leaves) \subseteq records

\* The tiled focus of a client is on a pane the tab shows.
FocusOK(k, tab, v) ==
  k.zoom[v] = NoPane /\ tab.hidden # Range(tab.leaves) => HeadOf(k.hist[v]) \notin tab.hidden

Settled(s, v) ==
  /\ s.tabs[v].size = ResolveTabSolveSize(s, v)
  /\ \A c \in Viewers(s, v) : FocusOK(s.clients[c], s.tabs[v], v)

SessionShape(s) ==
  /\ DOMAIN s = {"tabs", "panes", "clients", "lifecycle"}
  /\ s.panes \subseteq Panes /\ DOMAIN s.tabs \subseteq Tabs /\ DOMAIN s.clients \subseteq Clients

Steady(s, X, D, T, B) ==
  /\ SessionShape(s)
  /\ \A v \in DOMAIN s.tabs : TabOK(s.tabs[v], s.panes, v \in T)
  /\ \A c \in DOMAIN s.clients : /\ Fits(s.clients[c], s.tabs, X)
                                 /\ c \in D \/ Landed(s.clients[c], s.tabs)
                                 /\ s.clients[c].active \in DOMAIN s.tabs \/ DOMAIN s.tabs = {}
  /\ \A v \in DOMAIN s.tabs \ B : Settled(s, v)

\* Tabs numbered by distinct positions that fill 0 .. n - 1.
Dense(ts) ==
  /\ \A v, w \in DOMAIN ts : ts[v].index = ts[w].index => v = w
  /\ {ts[v].index : v \in DOMAIN ts} = 0 .. (Cardinality(DOMAIN ts) - 1)

\* The leaves of the tabs are the panes of the registry, each once.
Planted(ts, records) ==
  /\ \A v \in DOMAIN ts : Distinct(ts[v].leaves)
  /\ \A v, w \in DOMAIN ts : v # w => Range(ts[v].leaves) \cap Range(ts[w].leaves) = {}
  /\ \A p \in records : \E v \in DOMAIN ts : p \in Range(ts[v].leaves)

Lives(s) ==
  /\ s.lifecycle \in {"Running", "Detaching", "Stopping"}
  /\ s.lifecycle = "Stopping" <=> DOMAIN s.tabs = {}

Rooted(s) == Dense(s.tabs) /\ Planted(s.tabs, s.panes) /\ Lives(s)

\* What holds between handlers, but for the tabs of B, which are not settled.
WholeBut(s, B) == Steady(s, {}, {}, {}, B) /\ Rooted(s)

SessionInv == WholeBut(Session, {})
-----------------------------------------------------------------------------
(* Client records *)

\* A pane brought to the front of a history is its head, and stands in it once.
LEMMA PrependFacts ==
  ASSUME NEW h \in Seq(Panes), NEW p \in Panes
  PROVE  LET r == <<p>> \o Without(h, p)
         IN  /\ r \in Seq(Panes) /\ r # <<>> /\ HeadOf(r) = p
             /\ Range(r) = Range(h) \cup {p} /\ (Distinct(h) => Distinct(r))
<1>1. PICK w : w = Without(h, p)
  OBVIOUS
<1>2. w \in Seq(Panes) /\ Range(w) = Range(h) \ {p} /\ (Distinct(h) => Distinct(w))
  BY <1>1, WithoutFacts
<1>3. PICK r : r = <<p>> \o w
  OBVIOUS
<1>4. /\ r \in Seq(Panes) /\ r # <<>> /\ Head(r) = p /\ Len(w) \in Nat /\ DOMAIN w = 1 .. Len(w)
      /\ DOMAIN r = 1 .. Len(w) + 1 /\ r[1] = p
  BY <1>2, <1>3
<1>5. \A i \in 2 .. Len(w) + 1 : r[i] = w[i - 1]
  BY <1>2, <1>3, <1>4
<1>6. Range(r) = Range(w) \cup {p}
  <2>1. ASSUME NEW x \in Range(w) PROVE x \in Range(r)
    <3>1. PICK i \in 1 .. Len(w) : x = w[i]
      BY <1>4 DEF Range
    <3>2. i + 1 \in 2 .. Len(w) + 1 /\ (i + 1) - 1 = i /\ i + 1 \in 1 .. Len(w) + 1
      BY <1>4
    <3>3. r[i + 1] = x
      BY <1>5, <3>1, <3>2
    <3>4. QED
      BY <1>4, <3>2, <3>3 DEF Range
  <2>2. p \in Range(r)
    BY <1>4 DEF Range
  <2>3. ASSUME NEW x \in Range(r) PROVE x \in Range(w) \cup {p}
    <3>1. PICK i \in 1 .. Len(w) + 1 : x = r[i]
      BY <1>4 DEF Range
    <3>2. CASE i = 1
      BY <1>4, <3>1, <3>2
    <3>3. CASE i # 1
      <4>1. i \in 2 .. Len(w) + 1 /\ i - 1 \in 1 .. Len(w)
        BY <1>4, <3>3
      <4>2. x = w[i - 1]
        BY <1>5, <3>1, <4>1
      <4>3. QED
        BY <1>4, <4>1, <4>2 DEF Range
    <3>4. QED
      BY <3>2, <3>3
  <2>4. QED
    BY <2>1, <2>2, <2>3
<1>7. ASSUME Distinct(h) PROVE Distinct(r)
  <2>1. \A i \in 1 .. Len(w) : w[i] # p
    BY <1>2, <1>4 DEF Range
  <2>2. \A i, j \in 1 .. Len(w) : w[i] = w[j] => i = j
    BY <1>2, <1>4, <1>7 DEF Distinct
  <2>3. ASSUME NEW i \in 1 .. Len(w) + 1, NEW j \in 1 .. Len(w) + 1, r[i] = r[j] PROVE i = j
    <3>1. /\ i # 1 => i \in 2 .. Len(w) + 1 /\ i - 1 \in 1 .. Len(w)
          /\ j # 1 => j \in 2 .. Len(w) + 1 /\ j - 1 \in 1 .. Len(w)
      BY <1>4
    <3>2. CASE i = 1 /\ j # 1
      BY <1>4, <1>5, <2>1, <2>3, <3>1, <3>2
    <3>3. CASE i # 1 /\ j = 1
      BY <1>4, <1>5, <2>1, <2>3, <3>1, <3>3
    <3>4. CASE i # 1 /\ j # 1
      <4>1. w[i - 1] = w[j - 1]
        BY <1>5, <2>3, <3>1, <3>4
      <4>2. i - 1 = j - 1
        BY <2>2, <3>1, <3>4, <4>1
      <4>3. QED
        BY <1>4, <4>2
    <3>5. QED
      BY <3>2, <3>3, <3>4
  <2>4. QED
    BY <1>4, <2>3 DEF Distinct
<1>8. QED
  BY <1>1, <1>2, <1>3, <1>4, <1>6, <1>7 DEF HeadOf

\* A record whose view of one tab changed still fits when that view does.
LEMMA RefitTab ==
  ASSUME NEW k, NEW m \in Client, NEW ts, NEW X, NEW Y, NEW t,
         Fits(k, ts, X), m.own = <<>>,
         \A v \in Tabs \ {t} : m.hist[v] = k.hist[v] /\ m.zoom[v] = k.zoom[v],
         \A v \in Tabs \ {t} : Stale(X, v) \subseteq Stale(Y, v),
         t \in Tabs => ViewOK(m.hist[t], m.zoom[t], LeavesIn(ts, t) \cup Stale(Y, t))
  PROVE  Fits(m, ts, Y)
<1>1. ASSUME NEW v \in Tabs PROVE ViewOK(m.hist[v], m.zoom[v], LeavesIn(ts, v) \cup Stale(Y, v))
  <2>1. CASE v = t
    BY <2>1
  <2>2. CASE v # t
    <3>1. ViewOK(k.hist[v], k.zoom[v], LeavesIn(ts, v) \cup Stale(X, v))
      BY DEF Fits
    <3>2. QED
      BY <2>2, <3>1 DEF ViewOK
  <2>3. QED
    BY <2>1, <2>2
<1>2. QED
  BY <1>1 DEF Fits

\* update_focused_pane: the pane is the focus, and an existing zoom moves to it.
LEMMA FocusRecord ==
  ASSUME NEW k, NEW ts, NEW X, NEW t \in Tabs, NEW p \in Panes, Fits(k, ts, X), p \in LeavesIn(ts, t)
  PROVE  LET m == UpdateFocusedPane(k, t, p)
         IN  /\ Fits(m, ts, X) /\ m.active = k.active /\ m.area = k.area /\ m.own = <<>>
             /\ m.hist[t] # <<>> /\ HeadOf(m.hist[t]) = p
             /\ m.zoom[t] = (IF k.zoom[t] = NoPane THEN NoPane ELSE p)
             /\ \A v \in Tabs \ {t} : m.hist[v] = k.hist[v] /\ m.zoom[v] = k.zoom[v]
<1>1. PICK m : m = UpdateFocusedPane(k, t, p)
  OBVIOUS
<1>2. PICK h : h = <<p>> \o Without(k.hist[t], p)
  OBVIOUS
<1>3. /\ k \in Client /\ k.hist[t] \in Seq(Panes)
      /\ ViewOK(k.hist[t], k.zoom[t], LeavesIn(ts, t) \cup Stale(X, t))
  BY DEF Fits, Client
<1>4. /\ h \in Seq(Panes) /\ h # <<>> /\ HeadOf(h) = p
      /\ Range(h) = Range(k.hist[t]) \cup {p} /\ (Distinct(k.hist[t]) => Distinct(h))
  BY <1>2, <1>3, PrependFacts
<1>5. /\ m \in Client /\ m.active = k.active /\ m.area = k.area /\ m.own = <<>>
      /\ m.hist[t] = h /\ m.zoom[t] = (IF k.zoom[t] = NoPane THEN NoPane ELSE p)
      /\ \A v \in Tabs \ {t} : m.hist[v] = k.hist[v] /\ m.zoom[v] = k.zoom[v]
  BY <1>1, <1>2, <1>3, <1>4 DEF UpdateFocusedPane, Client
<1>6. ViewOK(m.hist[t], m.zoom[t], LeavesIn(ts, t) \cup Stale(X, t))
  BY <1>3, <1>4, <1>5 DEF ViewOK
<1>7. Fits(m, ts, X)
  BY <1>5, <1>6, RefitTab, ZenonT(60)
<1>8. QED
  BY <1>1, <1>4, <1>5, <1>7

\* clear_focus_history: the view of the tab is empty, other views are untouched.
LEMMA ClearRecord ==
  ASSUME NEW k, NEW ts, NEW X, NEW t \in Tabs, Fits(k, ts, X)
  PROVE  LET m == ClearFocusHistory(k, t)
         IN  /\ Fits(m, ts, X) /\ m.active = k.active /\ m.area = k.area /\ m.own = <<>>
             /\ m.hist[t] = <<>> /\ m.zoom[t] = NoPane
             /\ \A v \in Tabs \ {t} : m.hist[v] = k.hist[v] /\ m.zoom[v] = k.zoom[v]
<1>1. PICK m : m = ClearFocusHistory(k, t)
  OBVIOUS
<1>2. k \in Client /\ <<>> \in Seq(Panes)
  BY DEF Fits
<1>3. /\ m \in Client /\ m.active = k.active /\ m.area = k.area /\ m.own = <<>>
      /\ m.hist[t] = <<>> /\ m.zoom[t] = NoPane
      /\ \A v \in Tabs \ {t} : m.hist[v] = k.hist[v] /\ m.zoom[v] = k.zoom[v]
  BY <1>1, <1>2 DEF ClearFocusHistory, Client
<1>4. ViewOK(m.hist[t], m.zoom[t], LeavesIn(ts, t) \cup Stale(X, t))
  BY <1>3 DEF ViewOK, Range, Distinct
<1>5. QED
  BY <1>1, <1>3, <1>4, RefitTab
\* A pane is no longer stale in a tab.
Freed(X, t, p) == X \ {<<t, p>>}

\* remove_pane_from_focus_history of a pane that is not the focus: the focus stays,
\* and the pane no longer counts as stale in that tab.
LEMMA ForgetRecord ==
  ASSUME NEW k, NEW ts, NEW X, NEW t \in Tabs, NEW p, Fits(k, ts, X), HeadOf(k.hist[t]) # p
  PROVE  LET m == RemovePaneFromFocusHistory(k, t, p)
         IN  /\ Fits(m, ts, Freed(X, t, p)) /\ m.active = k.active /\ m.area = k.area /\ m.own = <<>>
             /\ HeadOf(m.hist[t]) = HeadOf(k.hist[t]) /\ (k.hist[t] # <<>> => m.hist[t] # <<>>)
             /\ m.zoom = k.zoom
             /\ \A v \in Tabs \ {t} : m.hist[v] = k.hist[v]
<1>1. PICK m : m = RemovePaneFromFocusHistory(k, t, p)
  OBVIOUS
<1>2. PICK h : h = Without(k.hist[t], p)
  OBVIOUS
<1>3. /\ k \in Client /\ k.hist[t] \in Seq(Panes)
      /\ ViewOK(k.hist[t], k.zoom[t], LeavesIn(ts, t) \cup Stale(X, t))
  BY DEF Fits, Client
<1>4. /\ h \in Seq(Panes) /\ Range(h) = Range(k.hist[t]) \ {p} /\ (Distinct(k.hist[t]) => Distinct(h))
      /\ k.hist[t] # <<>> /\ Head(k.hist[t]) # p => h # <<>> /\ Head(h) = Head(k.hist[t])
  BY <1>2, <1>3, WithoutFacts
<1>5. /\ m \in Client /\ m.active = k.active /\ m.area = k.area /\ m.own = <<>>
      /\ m.hist[t] = h /\ m.zoom = k.zoom
      /\ \A v \in Tabs \ {t} : m.hist[v] = k.hist[v]
  BY <1>1, <1>2, <1>3, <1>4 DEF RemovePaneFromFocusHistory, Client
<1>6. k.hist[t] = <<>> => h = <<>>
  <2>1. k.hist[t] = <<>> => Range(h) = {}
    BY <1>4 DEF Range
  <2>2. QED
    BY <1>4, <2>1, RangeFacts
<1>7. HeadOf(h) = HeadOf(k.hist[t]) /\ (k.hist[t] # <<>> => h # <<>>)
  BY <1>4, <1>6 DEF HeadOf
<1>8. ViewOK(m.hist[t], m.zoom[t], LeavesIn(ts, t) \cup Stale(Freed(X, t, p), t))
  BY <1>3, <1>4, <1>5, <1>7 DEF ViewOK, Stale, Freed
<1>9. \A v \in Tabs \ {t} : Stale(X, v) \subseteq Stale(Freed(X, t, p), v)
  BY DEF Stale, Freed
<1>10. Fits(m, ts, Freed(X, t, p))
  BY <1>5, <1>8, <1>9, RefitTab
<1>11. QED
  BY <1>1, <1>5, <1>7, <1>10

\* clear_zoom changes the zoom of one tab and empties the kept solve.
LEMMA ClearZoomRecord ==
  ASSUME NEW k, NEW ts, NEW X, NEW t \in Tabs, Fits(k, ts, X)
  PROVE  LET m == ClearZoom(k, t)
         IN  /\ Fits(m, ts, X) /\ m.active = k.active /\ m.area = k.area /\ m.own = <<>>
             /\ m.hist = k.hist /\ m.zoom[t] = NoPane
             /\ \A v \in Tabs \ {t} : m.zoom[v] = k.zoom[v]
<1>1. PICK m : m = ClearZoom(k, t)
  OBVIOUS
<1>2. k \in Client /\ ViewOK(k.hist[t], k.zoom[t], LeavesIn(ts, t) \cup Stale(X, t))
  BY DEF Fits
<1>3. /\ m \in Client /\ m.active = k.active /\ m.area = k.area /\ m.own = <<>>
      /\ m.hist = k.hist /\ m.zoom[t] = NoPane
      /\ \A v \in Tabs \ {t} : m.zoom[v] = k.zoom[v]
  BY <1>1, <1>2 DEF ClearZoom, Client
<1>4. ViewOK(m.hist[t], m.zoom[t], LeavesIn(ts, t) \cup Stale(X, t))
  BY <1>2, <1>3 DEF ViewOK
<1>5. QED
  BY <1>1, <1>3, <1>4, RefitTab

\* clear_zoom_of_pane leaves every history as it was.
LEMMA ClearZoomsRecord ==
  ASSUME NEW k, NEW ts, NEW X, NEW p, Fits(k, ts, X)
  PROVE  LET m == ClearZoomOfPane(k, p)
         IN  /\ Fits(m, ts, X) /\ m.active = k.active /\ m.area = k.area /\ m.own = <<>>
             /\ m.hist = k.hist
             /\ \A v \in Tabs : m.zoom[v] = (IF k.zoom[v] = p THEN NoPane ELSE k.zoom[v])
<1>1. PICK m : m = ClearZoomOfPane(k, p)
  OBVIOUS
<1>2. k \in Client /\ \A v \in Tabs : ViewOK(k.hist[v], k.zoom[v], LeavesIn(ts, v) \cup Stale(X, v))
  BY DEF Fits
<1>3. /\ m \in Client /\ m.active = k.active /\ m.area = k.area /\ m.own = <<>>
      /\ m.hist = k.hist
      /\ \A v \in Tabs : m.zoom[v] = (IF k.zoom[v] = p THEN NoPane ELSE k.zoom[v])
  BY <1>1, <1>2 DEF ClearZoomOfPane, Client
<1>4. \A v \in Tabs : ViewOK(m.hist[v], m.zoom[v], LeavesIn(ts, v) \cup Stale(X, v))
  BY <1>2, <1>3 DEF ViewOK
<1>5. Fits(m, ts, X)
  BY <1>3, <1>4 DEF Fits
<1>6. QED
  BY <1>1, <1>3, <1>5

\* update_active_tab changes the tab that is viewed and empties the kept solve.
LEMMA ShowRecord ==
  ASSUME NEW k, NEW ts, NEW X, NEW t \in Tabs, Fits(k, ts, X)
  PROVE  LET m == UpdateActiveTab(k, t)
         IN  /\ Fits(m, ts, X) /\ m.active = t /\ m.area = k.area /\ m.own = <<>>
             /\ m.hist = k.hist /\ m.zoom = k.zoom
<1>1. PICK m : m = UpdateActiveTab(k, t)
  OBVIOUS
<1>2. k \in Client /\ \A v \in Tabs : ViewOK(k.hist[v], k.zoom[v], LeavesIn(ts, v) \cup Stale(X, v))
  BY DEF Fits
<1>3. /\ m \in Client /\ m.active = t /\ m.area = k.area /\ m.own = <<>>
      /\ m.hist = k.hist /\ m.zoom = k.zoom
  BY <1>1, <1>2 DEF UpdateActiveTab, Client
<1>4. QED
  BY <1>1, <1>2, <1>3 DEF Fits

\* The first pane of a sequence that is in a set, when there is one.
LEMMA FirstInFacts ==
  ASSUME NEW seq \in Seq(Panes), NEW S, Range(seq) \cap S # {}
  PROVE  FirstIn(seq, S) \in Range(seq) \cap S
<1> DEFINE at == {i \in DOMAIN seq : seq[i] \in S}
<1>1. at \in SUBSET Nat /\ at # {}
  BY DEF Range
<1>2. Min(at) \in at
  <2> HIDE DEF at
  <2>1. QED
    BY <1>1, MinFacts
<1>3. FirstIn(seq, S) = seq[Min(at)]
  BY <1>1 DEF FirstIn
<1>4. QED
  BY <1>2, <1>3 DEF Range

\* The panes of two sequences put together.
LEMMA ConcatRange ==
  ASSUME NEW a \in Seq(Panes), NEW b \in Seq(Panes)
  PROVE  a \o b \in Seq(Panes) /\ Range(b) \subseteq Range(a \o b)
<1>1. PICK r : r = a \o b
  OBVIOUS
<1>2. /\ r \in Seq(Panes) /\ Len(a) \in Nat /\ Len(b) \in Nat /\ DOMAIN b = 1 .. Len(b)
      /\ DOMAIN r = 1 .. Len(a) + Len(b)
  BY <1>1
<1>3. ASSUME NEW x \in Range(b) PROVE x \in Range(r)
  <2>1. PICK i \in 1 .. Len(b) : x = b[i]
    BY <1>2 DEF Range
  <2>2. Len(a) + i \in 1 .. Len(a) + Len(b) /\ Len(a) + i > Len(a) /\ (Len(a) + i) - Len(a) = i
    BY <1>2
  <2>3. r[Len(a) + i] = b[i]
    BY <1>1, <1>2, <2>2
  <2>4. QED
    BY <1>2, <2>1, <2>2, <2>3 DEF Range
<1>4. QED
  BY <1>1, <1>2, <1>3

\* find_landing_pane: a leaf with a record exists in every tab that stands.
LEMMA LandingFacts ==
  ASSUME NEW s, NEW c, NEW t \in DOMAIN s.tabs, TabOK(s.tabs[t], s.panes, FALSE),
         s.clients[c].hist[t] \in Seq(Panes)
  PROVE  LandingPane(s, c, t) \in Leaves(s, t)
<1> DEFINE hist == s.clients[c].hist[t]  leaves == s.tabs[t].leaves
<1>1. leaves \in Seq(Panes) /\ leaves # <<>> /\ Range(leaves) \subseteq s.panes
  BY DEF TabOK, Tab
<1>2. hist \o leaves \in Seq(Panes) /\ Range(leaves) \subseteq Range(hist \o leaves)
  BY <1>1, ConcatRange
<1>3. Range(leaves) # {}
  BY <1>1, RangeFacts, SMTT(60)
<1>4. LandingPane(s, c, t) = FirstIn(hist \o leaves, Range(leaves) \cap s.panes)
  BY DEF LandingPane, Leaves
<1>5. Range(hist \o leaves) \cap (Range(leaves) \cap s.panes) # {}
  BY <1>1, <1>2, <1>3
<1> HIDE DEF hist, leaves
<1>6. FirstIn(hist \o leaves, Range(leaves) \cap s.panes) \in Range(leaves)
  BY <1>2, <1>5, FirstInFacts
<1>7. QED
  BY <1>4, <1>6 DEF leaves, Leaves

\* The solve a client draws a tab with is the one it would build; it shows leaves
\* only, and tiled, those that are not suppressed.
LEMMA ShownFacts ==
  ASSUME NEW s, NEW X, NEW c, NEW t \in DOMAIN s.tabs, t \in Tabs, Fits(s.clients[c], s.tabs, X)
  PROVE  /\ ClientSolve(s, c, t) = BuildOwnSolve(s, c, t)
         /\ ShownPanes(s, c, t) \subseteq Leaves(s, t)
         /\ s.clients[c].zoom[t] \notin Leaves(s, t)
              => ShownPanes(s, c, t) = Leaves(s, t) \ s.tabs[t].hidden
<1>1. ClientSolve(s, c, t) = BuildOwnSolve(s, c, t)
  BY DEF ClientSolve, BuildOwnSolve, Fits, OwnSolve, Leaves
<1>2. CASE s.clients[c].zoom[t] \in Leaves(s, t)
  BY <1>1, <1>2 DEF ShownPanes, BuildOwnSolve
<1>3. CASE s.clients[c].zoom[t] \notin Leaves(s, t)
  BY <1>1, <1>3 DEF ShownPanes, BuildOwnSolve
<1>4. QED
  BY <1>1, <1>2, <1>3

\* repair_client_focus: the heir is a leaf with a record, one that is shown when
\* the client views the tab tiled and the tab shows anything.
LEMMA HeirFacts ==
  ASSUME NEW s, NEW X, NEW c, NEW g \in Geometries, NEW t \in DOMAIN s.tabs, t \in Tabs,
         TabOK(s.tabs[t], s.panes, FALSE), Fits(s.clients[c], s.tabs, X)
  PROVE  /\ FocusHeir(s, t, c, g) \in Leaves(s, t)
         /\ s.clients[c].zoom[t] \notin Leaves(s, t) /\ s.tabs[t].hidden # Leaves(s, t)
              => FocusHeir(s, t, c, g) \notin s.tabs[t].hidden
<1> DEFINE hist == s.clients[c].hist[t]  leaves == s.tabs[t].leaves
           shown == ShownPanes(s, c, t) \cap s.panes  ranked == Keeping(leaves, shown)
<1>1. /\ leaves \in Seq(Panes) /\ leaves # <<>> /\ Range(leaves) \subseteq s.panes
      /\ hist \in Seq(Panes) /\ Leaves(s, t) = Range(leaves) /\ s.tabs[t].hidden \subseteq Range(leaves)
  BY DEF TabOK, Tab, Fits, Client, Leaves
<1>2. /\ ShownPanes(s, c, t) \subseteq Leaves(s, t)
      /\ s.clients[c].zoom[t] \notin Leaves(s, t)
              => ShownPanes(s, c, t) = Leaves(s, t) \ s.tabs[t].hidden
  BY ShownFacts
<1>3. /\ shown \subseteq Leaves(s, t)
      /\ s.clients[c].zoom[t] \notin Leaves(s, t) => shown = Leaves(s, t) \ s.tabs[t].hidden
  BY <1>1, <1>2
<1>4. ranked \in Seq(Panes) /\ Range(ranked) = shown
  <2>1. ranked \in Seq(Panes) /\ Range(ranked) = Range(leaves) \cap shown
    BY <1>1, KeepingFacts
  <2>2. QED
    BY <1>1, <1>3, <2>1
<1>5. FocusHeir(s, t, c, g) = IF Range(hist) \cap shown # {} THEN FirstIn(hist, shown)
                              ELSE IF ranked = <<>> THEN LandingPane(s, c, t)
                              ELSE ranked[Min({g.near, Len(ranked)})]
  BY DEF FocusHeir
<1>6. LandingPane(s, c, t) \in Leaves(s, t)
  BY <1>1, LandingFacts
<1>7. ASSUME ranked # <<>> PROVE ranked[Min({g.near, Len(ranked)})] \in shown
  <2> HIDE DEF ranked
  <2>1. Len(ranked) \in Nat /\ Len(ranked) # 0
    BY <1>4, <1>7
  <2>2. g.near \in Nat \ {0}
    BY SessionConstants
  <2>3. {g.near, Len(ranked)} \in SUBSET Nat /\ {g.near, Len(ranked)} # {}
    BY <2>1, <2>2
  <2>4. Min({g.near, Len(ranked)}) \in {g.near, Len(ranked)} /\ Min({g.near, Len(ranked)}) <= Len(ranked)
    BY <2>3, MinFacts
  <2>5. Min({g.near, Len(ranked)}) \in 1 .. Len(ranked)
    BY <2>1, <2>2, <2>4
  <2>6. QED
    BY <1>4, <2>5, RangeFacts
<1> HIDE DEF hist, leaves, shown, ranked
<1>8. Range(hist) \cap shown # {} => FirstIn(hist, shown) \in shown
  BY <1>1, FirstInFacts
<1>9. ranked = <<>> => shown = {}
  BY <1>4, RangeFacts
<1>10. FocusHeir(s, t, c, g) \in Leaves(s, t)
  BY <1>3, <1>5, <1>6, <1>7, <1>8
<1>11. shown # {} => FocusHeir(s, t, c, g) \in shown
  BY <1>5, <1>7, <1>8, <1>9
<1>12. QED
  BY <1>1, <1>3, <1>10, <1>11

\* A record whose focus in tab t was handed on.
Repaired(k, m, s, X, t) ==
  /\ Fits(m, s.tabs, X) /\ m.active = k.active /\ m.area = k.area /\ m.own = <<>>
  /\ m.hist[t] # <<>> /\ HeadOf(m.hist[t]) \in Leaves(s, t)
  /\ k.zoom[t] \notin Leaves(s, t) /\ s.tabs[t].hidden # Leaves(s, t)
       => HeadOf(m.hist[t]) \notin s.tabs[t].hidden
  /\ \A v \in Tabs \ {t} : m.hist[v] = k.hist[v] /\ m.zoom[v] = k.zoom[v]

\* What handing focus on does to a record.
LEMMA RepairRecord ==
  ASSUME NEW s, NEW X, NEW c, NEW g \in Geometries, NEW t \in DOMAIN s.tabs, t \in Tabs,
         TabOK(s.tabs[t], s.panes, FALSE), Fits(s.clients[c], s.tabs, X)
  PROVE  Repaired(s.clients[c], RepairClientFocus(s, t, c, g), s, X, t)
<1>1. PICK heir : heir = FocusHeir(s, t, c, g)
  OBVIOUS
<1>2. /\ heir \in Leaves(s, t)
      /\ s.clients[c].zoom[t] \notin Leaves(s, t) /\ s.tabs[t].hidden # Leaves(s, t)
              => heir \notin s.tabs[t].hidden
  BY <1>1, HeirFacts
<1>3. heir \in Panes /\ heir # NoPane /\ heir \in LeavesIn(s.tabs, t)
  BY <1>2, RangeFacts, SessionConstants DEF TabOK, Tab, Leaves, LeavesIn
<1>4. RepairClientFocus(s, t, c, g) = UpdateFocusedPane(s.clients[c], t, heir)
  BY <1>1, <1>3 DEF RepairClientFocus
<1>5. QED
  BY <1>2, <1>3, <1>4, FocusRecord DEF Repaired

\* A record that has a focus in tab t.
LandedIn(k, m, s, X, t) ==
  /\ Fits(m, s.tabs, X) /\ m.active = k.active /\ m.area = k.area
  /\ m.hist[t] # <<>>
  /\ \A v \in Tabs \ {t} : m.hist[v] = k.hist[v] /\ m.zoom[v] = k.zoom[v]

\* What landing in a tab does to a record.
LEMMA LandRecord ==
  ASSUME NEW s, NEW X, NEW c, NEW t \in DOMAIN s.tabs, t \in Tabs,
         TabOK(s.tabs[t], s.panes, FALSE), Fits(s.clients[c], s.tabs, X)
  PROVE  LandedIn(s.clients[c], LandFocus(s, c, t), s, X, t)
<1>1. PICK p : p = LandingPane(s, c, t)
  OBVIOUS
<1>2. /\ s.clients[c].hist[t] \in Seq(Panes)
      /\ ViewOK(s.clients[c].hist[t], s.clients[c].zoom[t], LeavesIn(s.tabs, t) \cup Stale(X, t))
  BY DEF Fits, Client
<1>3. p \in Leaves(s, t)
  BY <1>1, <1>2, LandingFacts
<1>4. p \in Panes /\ p # NoPane /\ p \in LeavesIn(s.tabs, t)
  BY <1>3, RangeFacts, SessionConstants DEF TabOK, Tab, Leaves, LeavesIn
<1>5. CASE Focused(s, c, t) # NoPane
  <2>1. LandFocus(s, c, t) = s.clients[c]
    BY <1>5 DEF LandFocus
  <2>2. s.clients[c].hist[t] # <<>>
    BY <1>5 DEF Focused
  <2>3. QED
    BY <2>1, <2>2 DEF LandedIn
<1>6. CASE Focused(s, c, t) = NoPane
  <2>1. LandFocus(s, c, t) = UpdateFocusedPane(s.clients[c], t, p)
    BY <1>1, <1>4, <1>6 DEF LandFocus
  <2>2. QED
    BY <1>4, <2>1, FocusRecord DEF LandedIn
<1>7. QED
  BY <1>5, <1>6

-----------------------------------------------------------------------------
(* What a change of the records leaves alone *)

\* A client that stays within the tabs of B, or keeps its tab, its area and
\* its view of that tab.
SameView(k, m, B) ==
  \/ k.active \in B /\ m.active \in B
  \/ /\ m.active = k.active /\ m.area = k.area
     /\ m.hist[k.active] = k.hist[k.active] /\ m.zoom[k.active] = k.zoom[k.active]

Aside(s, r, c, B) ==
  \/ c \in DOMAIN s.clients \cap DOMAIN r.clients /\ SameView(s.clients[c], r.clients[c], B)
  \/ c \in DOMAIN s.clients \ DOMAIN r.clients /\ s.clients[c].active \in B
  \/ c \in DOMAIN r.clients \ DOMAIN s.clients /\ r.clients[c].active \in B

SameSolve(a, b) == b.leaves = a.leaves /\ b.size = a.size /\ b.hidden = a.hidden

\* A tab stays settled while its solve and its viewers' views stay as they were.
LEMMA SettledKept ==
  ASSUME NEW s, NEW r, NEW v, v \in DOMAIN s.tabs, v \in DOMAIN r.tabs, NEW B, v \notin B,
         Settled(s, v), SameSolve(s.tabs[v], r.tabs[v]),
         \A c \in DOMAIN s.clients \cup DOMAIN r.clients : Aside(s, r, c, B)
  PROVE  Settled(r, v)
<1>1. ASSUME NEW c PROVE c \in Viewers(r, v) <=> c \in Viewers(s, v)
  BY DEF Viewers, Aside, SameView
<1>2. Viewers(r, v) = Viewers(s, v)
  BY <1>1
<1>3. ASSUME NEW c \in Viewers(s, v)
      PROVE  /\ r.clients[c].area = s.clients[c].area
             /\ r.clients[c].hist[v] = s.clients[c].hist[v]
             /\ r.clients[c].zoom[v] = s.clients[c].zoom[v]
  <2>1. c \in DOMAIN s.clients /\ s.clients[c].active = v /\ Aside(s, r, c, B)
    BY DEF Viewers
  <2>2. QED
    BY <2>1 DEF Aside, SameView
<1>4. {r.clients[c].area : c \in Viewers(r, v)} = {s.clients[c].area : c \in Viewers(s, v)}
  BY <1>2, <1>3
<1>5. GetTabSize(r, v) = GetTabSize(s, v)
  BY <1>4 DEF GetTabSize
<1>6. r.tabs[v].size = ResolveTabSolveSize(r, v)
  BY <1>2, <1>5 DEF ResolveTabSolveSize, Settled, SameSolve
<1>7. \A c \in Viewers(r, v) : FocusOK(r.clients[c], r.tabs[v], v)
  BY <1>2, <1>3 DEF Settled, SameSolve, FocusOK
<1>8. QED
  BY <1>6, <1>7 DEF Settled

\* A record that may replace another over the tabs ts.
Recast(k, m, ts, Y, isFree, B) ==
  /\ Fits(m, ts, Y) /\ (isFree \/ Landed(m, ts))
  /\ m.active = k.active \/ m.active \in DOMAIN ts
  /\ SameView(k, m, B)

OnlyClients(s, r) ==
  /\ DOMAIN r = DOMAIN s /\ r.tabs = s.tabs /\ r.panes = s.panes /\ r.lifecycle = s.lifecycle
  /\ DOMAIN r.clients = DOMAIN s.clients

\* A change of client records alone keeps a session steady when each new record
\* fits and the clients that saw a settled tab see it as before.
LEMMA RecordsSteady ==
  ASSUME NEW s, NEW r, NEW X, NEW Y, NEW D, NEW E, NEW T, NEW B,
         Steady(s, X, D, T, B), OnlyClients(s, r),
         \A c \in DOMAIN s.clients : Recast(s.clients[c], r.clients[c], s.tabs, Y, c \in E, B)
  PROVE  Steady(r, Y, E, T, B)
<1>1. SessionShape(r)
  BY DEF Steady, SessionShape, OnlyClients
<1>2. \A v \in DOMAIN r.tabs : TabOK(r.tabs[v], r.panes, v \in T)
  BY DEF Steady, OnlyClients
<1>3. \A c \in DOMAIN r.clients : /\ Fits(r.clients[c], r.tabs, Y)
                                  /\ c \in E \/ Landed(r.clients[c], r.tabs)
                                  /\ r.clients[c].active \in DOMAIN r.tabs \/ DOMAIN r.tabs = {}
  BY DEF Steady, OnlyClients, Recast
<1>4. ASSUME NEW v \in DOMAIN r.tabs \ B PROVE Settled(r, v)
  <2>1. v \in DOMAIN s.tabs /\ Settled(s, v) /\ SameSolve(s.tabs[v], r.tabs[v])
    BY DEF Steady, OnlyClients, SameSolve
  <2>2. \A c \in DOMAIN s.clients \cup DOMAIN r.clients : Aside(s, r, c, B)
    BY DEF OnlyClients, Recast, Aside
  <2>3. QED
    BY <2>1, <2>2, SettledKept
<1>5. QED
  BY <1>1, <1>2, <1>3, <1>4 DEF Steady

\* The shapes of the changes of records.
LEMMA DropShape ==
  ASSUME NEW s, SessionShape(s), NEW S
  PROVE  LET r == DropKeptSolves(s, S)
         IN  /\ OnlyClients(s, r)
             /\ \A c \in DOMAIN s.clients : r.clients[c] =
                   IF c \in S THEN [s.clients[c] EXCEPT !.own = <<>>] ELSE s.clients[c]
  BY DEF DropKeptSolves, ForClients, OnlyClients, SessionShape

\* update_active_tab for several clients changes only their records.
LEMMA ShowShape ==
  ASSUME NEW s, SessionShape(s), NEW S, NEW t
  PROVE  LET r == ShowTab(s, S, t)
         IN  /\ OnlyClients(s, r)
             /\ \A c \in DOMAIN s.clients : r.clients[c] =
                   IF c \in S THEN UpdateActiveTab(s.clients[c], t) ELSE s.clients[c]
  BY DEF ShowTab, ForClients, OnlyClients, SessionShape

\* clear_focus_history for every client changes only their records.
LEMMA ForgetTabShape ==
  ASSUME NEW s, SessionShape(s), NEW t
  PROVE  LET r == ForgetTab(s, t)
         IN  /\ OnlyClients(s, r)
             /\ \A c \in DOMAIN s.clients : r.clients[c] = ClearFocusHistory(s.clients[c], t)
  BY DEF ForgetTab, ForClients, OnlyClients, SessionShape

\* remove_pane_from_focus_history for every client changes only their records.
LEMMA ForgetPaneShape ==
  ASSUME NEW s, SessionShape(s), NEW t, NEW p
  PROVE  LET r == ForgetPane(s, t, p)
         IN  /\ OnlyClients(s, r)
             /\ \A c \in DOMAIN s.clients :
                   r.clients[c] = RemovePaneFromFocusHistory(s.clients[c], t, p)
  BY DEF ForgetPane, ForClients, OnlyClients, SessionShape

\* clear_zoom for several clients changes only their records.
LEMMA LeaveZoomShape ==
  ASSUME NEW s, SessionShape(s), NEW S, NEW t
  PROVE  LET r == LeaveZoom(s, S, t)
         IN  /\ OnlyClients(s, r)
             /\ \A c \in DOMAIN s.clients : r.clients[c] =
                   IF c \in S THEN ClearZoom(s.clients[c], t) ELSE s.clients[c]
  BY DEF LeaveZoom, ForClients, OnlyClients, SessionShape

\* clear_zoom_of_pane for every client changes only their records.
LEMMA LeaveZoomsShape ==
  ASSUME NEW s, SessionShape(s), NEW p
  PROVE  LET r == LeaveZoomsOf(s, p)
         IN  /\ OnlyClients(s, r)
             /\ \A c \in DOMAIN s.clients : r.clients[c] = ClearZoomOfPane(s.clients[c], p)
  BY DEF LeaveZoomsOf, ForClients, OnlyClients, SessionShape

\* zoom_pane changes only one record.
LEMMA EnterZoomShape ==
  ASSUME NEW s, SessionShape(s), NEW d, NEW t, NEW p
  PROVE  LET r == EnterZoom(s, d, t, p)
         IN  /\ OnlyClients(s, r)
             /\ \A c \in DOMAIN s.clients : r.clients[c] =
                   IF c = d THEN ZoomPane(s.clients[c], t, p) ELSE s.clients[c]
  BY DEF EnterZoom, ForClients, OnlyClients, SessionShape

\* land_focus for several clients changes only their records.
LEMMA LandShape ==
  ASSUME NEW s, SessionShape(s), NEW S, NEW t
  PROVE  LET r == LandClients(s, S, t)
         IN  /\ OnlyClients(s, r)
             /\ \A c \in DOMAIN s.clients : r.clients[c] =
                   IF c \in S THEN LandFocus(s, c, t) ELSE s.clients[c]
  BY DEF LandClients, ForClients, OnlyClients, SessionShape

\* repair_client_focus for several clients changes only their records.
LEMMA RepairShape ==
  ASSUME NEW s, SessionShape(s), NEW S, NEW t, NEW g
  PROVE  LET r == RepairFocus(s, S, t, g)
         IN  /\ OnlyClients(s, r)
             /\ \A c \in DOMAIN s.clients : r.clients[c] =
                   IF c \in S THEN RepairClientFocus(s, t, c, g) ELSE s.clients[c]
  BY DEF RepairFocus, ForClients, OnlyClients, SessionShape

\* apply_tiled_pane_focus changes only one record.
LEMMA FocusShape ==
  ASSUME NEW s, SessionShape(s), NEW d, NEW t, NEW p
  PROVE  LET r == FocusTiled(s, d, t, p)
         IN  /\ OnlyClients(s, r)
             /\ \A c \in DOMAIN s.clients : r.clients[c] =
                   IF c = d THEN UpdateFocusedPane(s.clients[c], t, p) ELSE s.clients[c]
  BY DEF FocusTiled, ForClients, OnlyClients, SessionShape

\* move_client_onto_tiled_pane for several clients changes only their records.
LEMMA MoveOntoShape ==
  ASSUME NEW s, SessionShape(s), NEW S, NEW t, NEW p
  PROVE  LET r == MoveOntoPane(s, S, t, p)
         IN  /\ OnlyClients(s, r)
             /\ \A c \in DOMAIN s.clients : r.clients[c] =
                   IF c \in S THEN MoveOntoTiledPane(s.clients[c], t, p) ELSE s.clients[c]
  BY DEF MoveOntoPane, ForClients, OnlyClients, SessionShape

-----------------------------------------------------------------------------
(* Solving a tab *)

\* A record changed in its view of tab t alone, whose panes are L.
Handed(k, m, t, L) ==
  /\ m.active = k.active /\ m.area = k.area
  /\ \A v \in Tabs \ {t} : m.hist[v] = k.hist[v] /\ m.zoom[v] = k.zoom[v]
  /\ m.hist[t] = k.hist[t] \/ (HeadOf(m.hist[t]) \in L /\ m.hist[t] # <<>>)

\* A session changed in tab t, its solve and its clients' view of it alone.
Touches(s, r, t) ==
  /\ DOMAIN r = DOMAIN s /\ r.panes = s.panes /\ r.lifecycle = s.lifecycle
  /\ DOMAIN r.tabs = DOMAIN s.tabs
  /\ \A w \in DOMAIN s.tabs : r.tabs[w].index = s.tabs[w].index
  /\ \A w \in DOMAIN s.tabs \ {t} : r.tabs[w] = s.tabs[w]
  /\ DOMAIN r.clients = DOMAIN s.clients
  /\ \A c \in DOMAIN s.clients : Handed(s.clients[c], r.clients[c], t, LeavesIn(r.tabs, t))

\* A focus handed on in a tab of B leaves the view as it was outside B.
LEMMA HandedView ==
  ASSUME NEW k \in Client, NEW m, NEW t, NEW L, NEW B, t \in B, Handed(k, m, t, L)
  PROVE  SameView(k, m, B)
<1>1. k.active \in Tabs
  BY DEF Client
<1>2. CASE k.active = t
  BY <1>2 DEF Handed, SameView
<1>3. CASE k.active # t
  BY <1>1, <1>3 DEF Handed, SameView
<1>4. QED
  BY <1>2, <1>3

\* A client that had a focus where it is has one after a hand-on.
LEMMA HandedLanded ==
  ASSUME NEW k \in Client, NEW m, NEW t \in Tabs, NEW L, NEW ts, Handed(k, m, t, L), Landed(k, ts)
  PROVE  Landed(m, ts)
<1>1. k.active \in Tabs
  BY DEF Client
<1>2. QED
  BY <1>1 DEF Handed, Landed

\* repair_client_focus keeps a session steady where the tab is not settled yet.
LEMMA RepairSteady ==
  ASSUME NEW s, NEW X, NEW D, NEW T, NEW B, Steady(s, X, D, T, B), NEW g \in Geometries,
         NEW S, NEW t \in DOMAIN s.tabs, t \in B, t \notin T
  PROVE  LET r == RepairFocus(s, S, t, g)
         IN  /\ Steady(r, X, D, T, B) /\ OnlyClients(s, r)
             /\ \A c \in DOMAIN s.clients :
                   /\ Handed(s.clients[c], r.clients[c], t, Leaves(s, t))
                   /\ c \notin S => r.clients[c] = s.clients[c]
                   /\ c \in S => /\ HeadOf(r.clients[c].hist[t]) \in Leaves(s, t)
                                 /\ s.clients[c].zoom[t] \notin Leaves(s, t)
                                    /\ s.tabs[t].hidden # Leaves(s, t)
                                      => HeadOf(r.clients[c].hist[t]) \notin s.tabs[t].hidden
<1>1. PICK r : r = RepairFocus(s, S, t, g)
  OBVIOUS
<1>2. SessionShape(s) /\ t \in Tabs /\ TabOK(s.tabs[t], s.panes, FALSE)
  BY DEF Steady, SessionShape, TabOK
<1>3. /\ OnlyClients(s, r)
      /\ \A c \in DOMAIN s.clients : r.clients[c] =
             IF c \in S THEN RepairClientFocus(s, t, c, g) ELSE s.clients[c]
  BY <1>1, <1>2, RepairShape
<1>4. ASSUME NEW c \in DOMAIN s.clients
      PROVE  /\ Handed(s.clients[c], r.clients[c], t, Leaves(s, t))
             /\ Fits(r.clients[c], s.tabs, X) 
             /\ c \notin S => r.clients[c] = s.clients[c]
             /\ c \in S => /\ HeadOf(r.clients[c].hist[t]) \in Leaves(s, t)
                           /\ s.clients[c].zoom[t] \notin Leaves(s, t)
                                    /\ s.tabs[t].hidden # Leaves(s, t)
                                => HeadOf(r.clients[c].hist[t]) \notin s.tabs[t].hidden
  <2>1. Fits(s.clients[c], s.tabs, X)
    BY DEF Steady
  <2>2. CASE c \notin S
    BY <1>3, <2>1, <2>2 DEF Handed
  <2>3. CASE c \in S
    <3>1. r.clients[c] = RepairClientFocus(s, t, c, g)
      BY <1>3, <2>3
    <3>2. PICK k, m : k = s.clients[c] /\ m = r.clients[c]
      OBVIOUS
    <3>3. /\ Fits(m, s.tabs, X) /\ m.active = k.active /\ m.area = k.area /\ m.own = <<>>
          /\ m.hist[t] # <<>> /\ HeadOf(m.hist[t]) \in Leaves(s, t)
          /\ k.zoom[t] \notin Leaves(s, t) /\ s.tabs[t].hidden # Leaves(s, t)
               => HeadOf(m.hist[t]) \notin s.tabs[t].hidden
          /\ \A v \in Tabs \ {t} : m.hist[v] = k.hist[v] /\ m.zoom[v] = k.zoom[v]
      <4>1. Repaired(s.clients[c], RepairClientFocus(s, t, c, g), s, X, t)
        BY <1>2, <2>1, RepairRecord, Zenon
      <4>2. QED
        BY <3>1, <3>2, <4>1 DEF Repaired
    <3>4. Handed(k, m, t, Leaves(s, t))
      BY <3>3 DEF Handed
    <3>5. QED
      BY <2>3, <3>2, <3>3, <3>4
  <2>4. QED
    BY <2>2, <2>3
<1>5. ASSUME NEW c \in DOMAIN s.clients
      PROVE  Recast(s.clients[c], r.clients[c], s.tabs, X, c \in D, B)
  <2>1. s.clients[c] \in Client /\ (c \in D \/ Landed(s.clients[c], s.tabs))
    BY DEF Steady, Fits
  <2>2. SameView(s.clients[c], r.clients[c], B)
    BY <1>4, <2>1, HandedView
  <2>3. c \in D \/ Landed(r.clients[c], s.tabs)
    BY <1>2, <1>4, <2>1, HandedLanded
  <2>4. QED
    BY <1>4, <2>2, <2>3 DEF Recast, Handed
<1>6. Steady(r, X, D, T, B)
  BY <1>3, <1>5, RecordsSteady
<1>7. QED
  BY <1>1, <1>3, <1>4, <1>6

\* hand_off_suppressed_focus leaves no tiled viewer on a suppressed pane.
LEMMA HandOffSteady ==
  ASSUME NEW s, NEW X, NEW D, NEW T, NEW B, Steady(s, X, D, T, B), NEW g \in Geometries,
         NEW t \in DOMAIN s.tabs, t \in B, t \notin T
  PROVE  LET r == HandOffSuppressedFocus(s, t, g)
         IN  /\ Steady(r, X, D, T, B) /\ OnlyClients(s, r)
             /\ \A c \in DOMAIN s.clients : Handed(s.clients[c], r.clients[c], t, Leaves(s, t))
             /\ s.tabs[t].size = ResolveTabSolveSize(s, t) => Settled(r, t)
<1>1. PICK r : r = HandOffSuppressedFocus(s, t, g)
  OBVIOUS
<1> DEFINE S == IF s.tabs[t].hidden = Leaves(s, t) THEN {} ELSE SuppressedFocus(s, t)
<1>2. /\ Steady(r, X, D, T, B) /\ OnlyClients(s, r)
      /\ \A c \in DOMAIN s.clients :
            /\ Handed(s.clients[c], r.clients[c], t, Leaves(s, t))
            /\ c \notin S => r.clients[c] = s.clients[c]
            /\ c \in S => (s.clients[c].zoom[t] \notin Leaves(s, t)
                          /\ s.tabs[t].hidden # Leaves(s, t)
                            => HeadOf(r.clients[c].hist[t]) \notin s.tabs[t].hidden)
  <2>1. CASE s.tabs[t].hidden = Leaves(s, t)
    <3>1. r = s /\ S = {}
      BY <1>1, <2>1 DEF HandOffSuppressedFocus
    <3>2. QED
      BY <3>1 DEF OnlyClients, Handed
  <2>2. CASE s.tabs[t].hidden # Leaves(s, t)
    <3>1. r = RepairFocus(s, S, t, g)
      BY <1>1, <2>2 DEF HandOffSuppressedFocus
    <3> HIDE DEF S
    <3>2. QED
      BY <3>1, RepairSteady
  <2>3. QED
    BY <2>1, <2>2
<1>3. Viewers(r, t) = Viewers(s, t)
  BY <1>2 DEF Viewers, OnlyClients, Handed
<1>4. GetTabSize(r, t) = GetTabSize(s, t)
  <2>1. \A c \in Viewers(s, t) : r.clients[c].area = s.clients[c].area
    BY <1>2 DEF Viewers, Handed
  <2>2. {r.clients[c].area : c \in Viewers(r, t)} = {s.clients[c].area : c \in Viewers(s, t)}
    BY <1>3, <2>1
  <2>3. QED
    BY <2>2 DEF GetTabSize
<1>5. ResolveTabSolveSize(r, t) = ResolveTabSolveSize(s, t) /\ r.tabs = s.tabs
  BY <1>2, <1>3, <1>4 DEF ResolveTabSolveSize, OnlyClients
<1>6. ASSUME NEW c \in Viewers(r, t) PROVE FocusOK(r.clients[c], s.tabs[t], t)
  <2>1. c \in DOMAIN s.clients /\ c \in Viewers(s, t)
    BY <1>3 DEF Viewers
  <2>2. /\ Range(s.tabs[t].leaves) \subseteq Panes /\ NoPane \notin Panes /\ s.tabs[t].hidden \subseteq Panes
    BY SessionConstants, RangeFacts DEF Steady, TabOK, Tab
  <2>3. CASE c \in S
    <3>1. s.clients[c].zoom[t] = NoPane
      BY <2>3 DEF SuppressedFocus
    <3>2. QED
      BY <1>2, <2>1, <2>2, <2>3, <3>1 DEF FocusOK, Leaves
  <2>4. CASE c \notin S
    <3>1. r.clients[c] = s.clients[c]
      BY <1>2, <2>1, <2>4
    <3>2. QED
      BY <2>1, <2>4, <3>1 DEF SuppressedFocus, FocusOK, Leaves, Focused, HeadOf
  <2>5. QED
    BY <2>3, <2>4
<1>7. QED
  BY <1>1, <1>2, <1>5, <1>6 DEF Settled

\* The panes a solve suppresses are leaves of the tab.
LEMMA SuppressedFacts ==
  ASSUME NEW leaves \in Seq(Panes), NEW size, NEW g
  PROVE  /\ Suppressed(leaves, size, g) \subseteq Range(leaves)
         /\ Suppressed(leaves, size, g) \subseteq Panes
<1>1. \A i \in DOMAIN leaves : leaves[i] \in Panes
  OBVIOUS
<1>2. QED
  BY <1>1 DEF Suppressed, Range

\* Tab t of s was given these leaves, solved at this size.
LaidOut(s, r, Y, D, T, B, t, leaves, size) ==
  /\ Steady(r, Y, D, T \ {t}, B) /\ Touches(s, r, t)
  /\ r.tabs[t].leaves = leaves /\ r.tabs[t].size = size

\* A new tree and size, with their solve, keep a session steady but for the tab:
\* the solves its viewers kept are emptied.
LEMMA SolveTabSteady ==
  ASSUME NEW s, NEW X, NEW Y, NEW D, NEW T, NEW B, Steady(s, X, D, T, B), NEW g,
         NEW t \in DOMAIN s.tabs, t \in B, NEW leaves \in Seq(Panes), leaves # <<>>,
         Range(leaves) \subseteq s.panes, NEW size \in Sizes,
         Leaves(s, t) \subseteq Range(leaves) \cup Stale(Y, t), X \subseteq Y
  PROVE  LaidOut(s, SolveTab(s, t, leaves, size, g), Y, D, T, B, t, leaves, size)
<1>1. PICK r : r = SolveTab(s, t, leaves, size, g)
  OBVIOUS
<1>2. PICK tab : tab = [leaves |-> leaves, index |-> s.tabs[t].index, size |-> size,
                        hidden |-> Suppressed(leaves, size, g)]
  OBVIOUS
<1>3. /\ SessionShape(s) /\ t \in Tabs /\ s.tabs[t] \in Tab
      /\ \A v \in DOMAIN s.tabs : s.tabs[v] \in Tab
  BY DEF Steady, SessionShape, TabOK
<1>4. tab \in Tab /\ TabOK(tab, s.panes, FALSE)
  BY <1>2, <1>3, SuppressedFacts DEF Tab, TabOK
<1>5. PICK m : m = [s EXCEPT !.tabs[t].leaves = leaves, !.tabs[t].size = size,
                             !.tabs[t].hidden = Suppressed(leaves, size, g)]
  OBVIOUS
<1>6. /\ DOMAIN m = DOMAIN s /\ m.panes = s.panes /\ m.lifecycle = s.lifecycle /\ m.clients = s.clients
      /\ DOMAIN m.tabs = DOMAIN s.tabs /\ m.tabs[t] = tab
      /\ \A w \in DOMAIN s.tabs \ {t} : m.tabs[w] = s.tabs[w]
  BY <1>2, <1>3, <1>5 DEF SessionShape, Tab
<1>7. SessionShape(m)
  BY <1>3, <1>6 DEF SessionShape
<1>8. /\ OnlyClients(m, r)
      /\ \A c \in DOMAIN s.clients : r.clients[c] =
             IF c \in Viewers(s, t) THEN [s.clients[c] EXCEPT !.own = <<>>] ELSE s.clients[c]
  <2>1. r = DropKeptSolves(m, Viewers(s, t))
    BY <1>1, <1>5 DEF SolveTab
  <2>2. QED
    BY <1>6, <1>7, <2>1, DropShape
<1>9. /\ DOMAIN r = DOMAIN s /\ r.panes = s.panes /\ r.lifecycle = s.lifecycle
      /\ DOMAIN r.clients = DOMAIN s.clients
      /\ DOMAIN r.tabs = DOMAIN s.tabs /\ r.tabs[t] = tab
      /\ \A w \in DOMAIN s.tabs \ {t} : r.tabs[w] = s.tabs[w]
  BY <1>6, <1>8 DEF OnlyClients
<1>10. ASSUME NEW c \in DOMAIN s.clients
       PROVE  /\ r.clients[c] \in Client /\ r.clients[c].active = s.clients[c].active
              /\ r.clients[c].area = s.clients[c].area
              /\ r.clients[c].hist = s.clients[c].hist /\ r.clients[c].zoom = s.clients[c].zoom
              /\ r.clients[c].own = IF s.clients[c].active = t THEN <<>> ELSE s.clients[c].own
  <2>1. s.clients[c] \in Client
    BY DEF Steady, Fits
  <2>2. c \in Viewers(s, t) <=> s.clients[c].active = t
    BY DEF Viewers
  <2>3. QED
    BY <1>8, <2>1, <2>2 DEF Client
<1>11. ASSUME NEW c \in DOMAIN s.clients PROVE Fits(r.clients[c], r.tabs, Y)
  <2>1. Fits(s.clients[c], s.tabs, X)
    BY DEF Steady
  <2>2. ASSUME NEW v \in Tabs
        PROVE  LeavesIn(s.tabs, v) \cup Stale(X, v) \subseteq LeavesIn(r.tabs, v) \cup Stale(Y, v)
    <3>1. Stale(X, v) \subseteq Stale(Y, v)
      BY DEF Stale
    <3>2. CASE v = t
      BY <1>2, <1>9, <3>1, <3>2 DEF LeavesIn, Leaves
    <3>3. CASE v # t
      BY <1>9, <3>1, <3>3 DEF LeavesIn
    <3>4. QED
      BY <3>2, <3>3
  <2>3. ASSUME NEW v \in Tabs
        PROVE  ViewOK(r.clients[c].hist[v], r.clients[c].zoom[v], LeavesIn(r.tabs, v) \cup Stale(Y, v))
    <3>1. ViewOK(s.clients[c].hist[v], s.clients[c].zoom[v], LeavesIn(s.tabs, v) \cup Stale(X, v))
      BY <2>1 DEF Fits
    <3>2. QED
      BY <1>10, <2>2, <3>1 DEF ViewOK
  <2>4. ASSUME r.clients[c].own # <<>>, r.clients[c].active \in DOMAIN r.tabs
        PROVE  r.clients[c].own = OwnSolve(r.clients[c], r.tabs)
    BY <1>9, <1>10, <2>1, <2>4 DEF Fits, OwnSolve
  <2>5. QED
    BY <1>10, <2>3, <2>4 DEF Fits
<1>12. Touches(s, r, t)
  <2>1. \A c \in DOMAIN s.clients : Handed(s.clients[c], r.clients[c], t, LeavesIn(r.tabs, t))
    BY <1>10 DEF Handed
  <2>2. \A w \in DOMAIN s.tabs : r.tabs[w].index = s.tabs[w].index
    BY <1>2, <1>9
  <2>3. QED
    BY <1>9, <2>1, <2>2 DEF Touches
<1>13. Steady(r, Y, D, T \ {t}, B)
  <2>1. SessionShape(r)
    BY <1>3, <1>9 DEF SessionShape
  <2>2. \A v \in DOMAIN r.tabs : TabOK(r.tabs[v], r.panes, v \in T \ {t})
    BY <1>4, <1>9 DEF Steady, TabOK
  <2>3. \A c \in DOMAIN r.clients : /\ c \in D \/ Landed(r.clients[c], r.tabs)
                                    /\ r.clients[c].active \in DOMAIN r.tabs \/ DOMAIN r.tabs = {}
    BY <1>9, <1>10 DEF Steady, Landed
  <2>4. ASSUME NEW v \in DOMAIN r.tabs \ B PROVE Settled(r, v)
    <3>1. v \in DOMAIN s.tabs /\ Settled(s, v) /\ SameSolve(s.tabs[v], r.tabs[v])
      BY <1>9 DEF Steady, SameSolve
    <3>2. \A c \in DOMAIN s.clients \cup DOMAIN r.clients : Aside(s, r, c, B)
      BY <1>9, <1>10 DEF Aside, SameView
    <3>3. QED
      BY <3>1, <3>2, SettledKept
  <2>5. QED
    BY <1>9, <1>11, <2>1, <2>2, <2>3, <2>4 DEF Steady
<1>14. QED
  BY <1>1, <1>2, <1>9, <1>12, <1>13 DEF LaidOut


\* A solve followed by a hand-on touches one tab.
LEMMA TouchesHandOff ==
  ASSUME NEW s, NEW m, NEW r, NEW t \in DOMAIN s.tabs, Touches(s, m, t), OnlyClients(m, r),
         \A c \in DOMAIN m.clients : Handed(m.clients[c], r.clients[c], t, Leaves(m, t))
  PROVE  Touches(s, r, t)
<1>1. LeavesIn(m.tabs, t) = Leaves(m, t) /\ LeavesIn(r.tabs, t) = Leaves(m, t)
  BY DEF Touches, OnlyClients, LeavesIn, Leaves
<1>2. ASSUME NEW c \in DOMAIN s.clients
      PROVE  Handed(s.clients[c], r.clients[c], t, LeavesIn(r.tabs, t))
  <2>1. /\ Handed(s.clients[c], m.clients[c], t, Leaves(m, t))
        /\ Handed(m.clients[c], r.clients[c], t, Leaves(m, t))
    BY <1>1 DEF Touches
  <2>2. QED
    BY <1>1, <2>1 DEF Handed
<1>3. QED
  BY <1>2 DEF Touches, OnlyClients

\* update_tab_layout: the tab has the new tree, at the size it held.
LEMMA LayoutSteady ==
  ASSUME NEW s, NEW X, NEW Y, NEW D, NEW T, NEW B, Steady(s, X, D, T, B), NEW g \in Geometries,
         NEW t \in DOMAIN s.tabs, t \in B, NEW leaves \in Seq(Panes), leaves # <<>>,
         Range(leaves) \subseteq s.panes,
         Leaves(s, t) \subseteq Range(leaves) \cup Stale(Y, t), X \subseteq Y
  PROVE  LaidOut(s, UpdateTabLayout(s, t, leaves, g), Y, D, T, B, t, leaves, s.tabs[t].size)
<1>1. PICK m : m = SolveTab(s, t, leaves, s.tabs[t].size, g)
  OBVIOUS
<1>2. s.tabs[t].size \in Sizes
  BY DEF Steady, TabOK, Tab
<1>3. /\ Steady(m, Y, D, T \ {t}, B) /\ Touches(s, m, t) /\ m.tabs[t].leaves = leaves
      /\ m.tabs[t].size = s.tabs[t].size
  <2>1. LaidOut(s, SolveTab(s, t, leaves, s.tabs[t].size, g), Y, D, T, B, t, leaves, s.tabs[t].size)
    BY <1>2, SolveTabSteady, Zenon
  <2>2. QED
    BY <1>1, <2>1 DEF LaidOut
<1>4. PICK r : r = HandOffSuppressedFocus(m, t, g)
  OBVIOUS
<1>5. t \in DOMAIN m.tabs
  BY <1>3 DEF Touches
<1>6. /\ Steady(r, Y, D, T \ {t}, B) /\ OnlyClients(m, r)
      /\ \A c \in DOMAIN m.clients : Handed(m.clients[c], r.clients[c], t, Leaves(m, t))
  BY <1>3, <1>4, <1>5, HandOffSteady
<1>7. Touches(s, r, t)
  BY <1>3, <1>6, TouchesHandOff
<1>8. UpdateTabLayout(s, t, leaves, g) = r
  BY <1>1, <1>4 DEF UpdateTabLayout
<1>9. QED
  BY <1>3, <1>6, <1>7, <1>8 DEF OnlyClients, LaidOut

\* The size a tab is solved at is a size.
LEMMA SizeFacts ==
  ASSUME NEW s, NEW X, NEW D, NEW T, NEW B, Steady(s, X, D, T, B), NEW t \in DOMAIN s.tabs
  PROVE  ResolveTabSolveSize(s, t) \in Sizes
<1>1. s.tabs[t].size \in Sizes
  BY DEF Steady, TabOK, Tab
<1> DEFINE areas == {s.clients[c].area : c \in Viewers(s, t)} \ {Starving}
<1>2. areas \subseteq Areas \ {Starving}
  BY DEF Steady, Fits, Client, Viewers
<1>3. areas \in SUBSET Nat
  BY <1>2, SessionConstants
<1>4. GetTabSize(s, t) = IF areas = {} THEN Starving ELSE Min(areas)
  BY DEF GetTabSize
<1> HIDE DEF areas
<1>5. areas # {} => Min(areas) \in areas
  BY <1>3, MinFacts
<1>6. GetTabSize(s, t) = Starving \/ GetTabSize(s, t) \in Areas \ {Starving}
  BY <1>2, <1>4, <1>5
<1>7. QED
  BY <1>1, <1>6 DEF ResolveTabSolveSize, Sizes

\* What is steady with fewer exceptions is steady with more.
LEMMA SteadyMore ==
  ASSUME NEW s, NEW X, NEW D, NEW T, NEW B, NEW Y, NEW E, NEW U, NEW C,
         Steady(s, X, D, T, B), X \subseteq Y, D \subseteq E, T \subseteq U, B \subseteq C
  PROVE  Steady(s, Y, E, U, C)
<1>1. \A v \in Tabs : Stale(X, v) \subseteq Stale(Y, v)
  BY DEF Stale
<1>2. ASSUME NEW c \in DOMAIN s.clients PROVE Fits(s.clients[c], s.tabs, Y)
  <2>1. ASSUME NEW v \in Tabs
        PROVE  ViewOK(s.clients[c].hist[v], s.clients[c].zoom[v], LeavesIn(s.tabs, v) \cup Stale(Y, v))
    <3>1. ViewOK(s.clients[c].hist[v], s.clients[c].zoom[v], LeavesIn(s.tabs, v) \cup Stale(X, v))
      BY DEF Steady, Fits
    <3>2. QED
      BY <1>1, <3>1 DEF ViewOK
  <2>2. QED
    BY <2>1 DEF Steady, Fits
<1>3. \A v \in DOMAIN s.tabs : TabOK(s.tabs[v], s.panes, v \in U)
  BY DEF Steady, TabOK
<1>4. QED
  BY <1>2, <1>3 DEF Steady

\* The trees, the positions, the records and who views what are the same.
SameTrees(s, r) ==
  /\ DOMAIN r = DOMAIN s /\ r.panes = s.panes /\ r.lifecycle = s.lifecycle
  /\ DOMAIN r.tabs = DOMAIN s.tabs
  /\ \A w \in DOMAIN s.tabs :
        r.tabs[w].leaves = s.tabs[w].leaves /\ r.tabs[w].index = s.tabs[w].index
  /\ DOMAIN r.clients = DOMAIN s.clients
  /\ \A c \in DOMAIN s.clients : r.clients[c].active = s.clients[c].active

\* Tab t of s was solved again.
SolvedAgain(s, r, X, D, T, B, t) ==
  Steady(r, X, D, T, B \ {t}) /\ Touches(s, r, t) /\ SameTrees(s, r)

\* update_tab_solve settles the tab it is called for.
LEMMA TabSolveSteady ==
  ASSUME NEW s, NEW X, NEW D, NEW T, NEW B, Steady(s, X, D, T, B), NEW g \in Geometries,
         NEW t, t \notin T
  PROVE  SolvedAgain(s, UpdateTabSolve(s, t, g), X, D, T, B, t)
<1>1. CASE t \notin DOMAIN s.tabs
  <2>1. UpdateTabSolve(s, t, g) = s
    BY <1>1 DEF UpdateTabSolve
  <2>2. Steady(s, X, D, T, B \ {t})
    BY <1>1 DEF Steady
  <2>3. Touches(s, s, t)
    BY DEF Touches, Handed
  <2>4. QED
    BY <1>1, <2>1, <2>2, <2>3 DEF SolvedAgain, SameTrees
<1>2. CASE t \in DOMAIN s.tabs
  <2>1. PICK size : size = ResolveTabSolveSize(s, t)
    OBVIOUS
  <2>2. PICK m : m = IF size = s.tabs[t].size THEN s ELSE SolveTab(s, t, s.tabs[t].leaves, size, g)
    OBVIOUS
  <2>3. Steady(s, X, D, T, B \cup {t})
    BY SteadyMore
  <2>4. /\ size \in Sizes /\ s.tabs[t].leaves \in Seq(Panes) /\ s.tabs[t].leaves # <<>>
        /\ Range(s.tabs[t].leaves) \subseteq s.panes
    BY <1>2, <2>1, SizeFacts DEF Steady, TabOK, Tab
  <2>5. /\ Steady(m, X, D, T, B \cup {t}) /\ Touches(s, m, t) /\ m.tabs[t].leaves = s.tabs[t].leaves
        /\ m.tabs[t].size = size
    <3>1. CASE size = s.tabs[t].size
      <4>1. m = s /\ Touches(s, s, t)
        BY <2>2, <3>1 DEF Touches, Handed
      <4>2. QED
        BY <2>3, <3>1, <4>1
    <3>2. CASE size # s.tabs[t].size
      <4>1. m = SolveTab(s, t, s.tabs[t].leaves, size, g)
        BY <2>2, <3>2
      <4>2. Leaves(s, t) \subseteq Range(s.tabs[t].leaves) \cup Stale(X, t)
        BY DEF Leaves
      <4>3. /\ Steady(m, X, D, T \ {t}, B \cup {t}) /\ Touches(s, m, t)
            /\ m.tabs[t].leaves = s.tabs[t].leaves /\ m.tabs[t].size = size
        <5>1. LaidOut(s, SolveTab(s, t, s.tabs[t].leaves, size, g), X, D, T, B \cup {t}, t,
                      s.tabs[t].leaves, size)
          <6>1. t \in B \cup {t} /\ X \subseteq X
            OBVIOUS
          <6>2. QED
            BY <1>2, <2>3, <2>4, <4>2, <6>1, SolveTabSteady, Zenon
        <5>2. QED
          BY <4>1, <5>1 DEF LaidOut
      <4>4. T \ {t} = T
        OBVIOUS
      <4>5. QED
        BY <4>3, <4>4
    <3>3. QED
      BY <3>1, <3>2
  <2>6. PICK r : r = HandOffSuppressedFocus(m, t, g)
    OBVIOUS
  <2>7. t \in DOMAIN m.tabs
    BY <1>2, <2>5 DEF Touches
  <2>8. /\ Steady(r, X, D, T, B \cup {t}) /\ OnlyClients(m, r)
        /\ \A c \in DOMAIN m.clients : Handed(m.clients[c], r.clients[c], t, Leaves(m, t))
        /\ m.tabs[t].size = ResolveTabSolveSize(m, t) => Settled(r, t)
    BY <2>5, <2>6, <2>7, HandOffSteady
  <2>9. Touches(s, r, t)
    BY <1>2, <2>5, <2>8, TouchesHandOff
  <2>10. UpdateTabSolve(s, t, g) = r
    BY <1>2, <2>1, <2>2, <2>6 DEF UpdateTabSolve
  <2>11. ResolveTabSolveSize(m, t) = size
    <3>1. Viewers(m, t) = Viewers(s, t)
      BY <2>5 DEF Touches, Handed, Viewers
    <3>2. \A c \in Viewers(s, t) : m.clients[c].area = s.clients[c].area
      BY <2>5 DEF Touches, Handed, Viewers
    <3>3. {m.clients[c].area : c \in Viewers(m, t)} = {s.clients[c].area : c \in Viewers(s, t)}
      BY <3>1, <3>2
    <3>4. GetTabSize(m, t) = GetTabSize(s, t)
      BY <3>3 DEF GetTabSize
    <3>5. QED
      BY <2>1, <2>5, <3>1, <3>4 DEF ResolveTabSolveSize
  <2>12. Settled(r, t)
    BY <2>5, <2>8, <2>11
  <2>13. Steady(r, X, D, T, B \ {t})
    BY <2>8, <2>12 DEF Steady
  <2>14. r.tabs[t].leaves = s.tabs[t].leaves
    BY <2>5, <2>8 DEF OnlyClients
  <2>15. SameTrees(s, r)
    BY <2>9, <2>14 DEF SameTrees, Touches, Handed
  <2>16. QED
    BY <2>9, <2>10, <2>13, <2>15 DEF SolvedAgain
<1>3. QED
  BY <1>1, <1>2

-----------------------------------------------------------------------------
(* Solving the tabs that are not settled *)

\* Trees and positions that did not change stay rooted.
LEMMA RootedKept ==
  ASSUME NEW s, NEW r, SameTrees(s, r), Rooted(s)
  PROVE  Rooted(r)
<1>1. Dense(r.tabs)
  <2>1. {r.tabs[v].index : v \in DOMAIN r.tabs} = {s.tabs[v].index : v \in DOMAIN s.tabs}
    BY DEF SameTrees
  <2>2. QED
    BY <2>1 DEF SameTrees, Rooted, Dense
<1>2. Planted(r.tabs, r.panes)
  BY DEF SameTrees, Rooted, Planted
<1>3. Lives(r)
  BY DEF SameTrees, Rooted, Lives
<1>4. QED
  BY <1>1, <1>2, <1>3 DEF Rooted

\* update_tab_solve takes its tab out of those that are not settled.
LEMMA SolveWhole ==
  ASSUME NEW s, NEW B, WholeBut(s, B), NEW g \in Geometries, NEW t
  PROVE  WholeBut(UpdateTabSolve(s, t, g), B \ {t}) /\ SameTrees(s, UpdateTabSolve(s, t, g))
<1>1. SolvedAgain(s, UpdateTabSolve(s, t, g), {}, {}, {}, B, t)
  BY TabSolveSteady DEF WholeBut
<1>2. QED
  BY <1>1, RootedKept DEF SolvedAgain, WholeBut

\* update_tab_solves does so for both tabs.
LEMMA SolvesWhole ==
  ASSUME NEW s, NEW B, WholeBut(s, B), NEW g \in Geometries, NEW t, NEW left
  PROVE  /\ WholeBut(UpdateTabSolves(s, t, left, g), B \ {t, left})
         /\ SameTrees(s, UpdateTabSolves(s, t, left, g))
<1>1. PICK m : m = UpdateTabSolve(s, t, g)
  OBVIOUS
<1>2. WholeBut(m, B \ {t}) /\ SameTrees(s, m)
  BY <1>1, SolveWhole
<1>3. WholeBut(UpdateTabSolve(m, left, g), (B \ {t}) \ {left}) /\ SameTrees(m, UpdateTabSolve(m, left, g))
  BY <1>2, SolveWhole
<1>4. (B \ {t}) \ {left} = B \ {t, left}
  OBVIOUS
<1>5. SameTrees(s, UpdateTabSolve(m, left, g))
  BY <1>2, <1>3 DEF SameTrees
<1>6. QED
  BY <1>1, <1>3, <1>4, <1>5 DEF UpdateTabSolves

\* Solving a set of tabs settles each of them, and a history it changes begins
\* with a leaf of its tab.
LEMMA SolveEachSteady ==
  ASSUME NEW s, NEW X, NEW D, NEW T, NEW B, Steady(s, X, D, T, B), NEW g \in Geometries,
         NEW S, S \cap T = {}
  PROVE  LET r == SolveEachTab(s, S, g)
         IN  /\ Steady(r, X, D, T, B \ S) /\ SameTrees(s, r)
             /\ \A c \in DOMAIN s.clients : \A v \in Tabs :
                   \/ r.clients[c].hist[v] = s.clients[c].hist[v]
                   \/ HeadOf(r.clients[c].hist[v]) \in LeavesIn(s.tabs, v)
<1> DEFINE U(t) == UpdateTabSolve(s, t, g)
           r == SolveEachTab(s, S, g)
<1>1. ASSUME NEW t \in S PROVE SolvedAgain(s, U(t), X, D, T, B, t)
  BY TabSolveSteady
<1>2. SessionShape(s)
  BY DEF Steady
<1>3. /\ DOMAIN r = DOMAIN s /\ r.panes = s.panes /\ r.lifecycle = s.lifecycle
      /\ DOMAIN r.tabs = DOMAIN s.tabs /\ DOMAIN r.clients = DOMAIN s.clients
      /\ \A t \in DOMAIN s.tabs : r.tabs[t] = IF t \in S THEN U(t).tabs[t] ELSE s.tabs[t]
      /\ \A c \in DOMAIN s.clients :
            r.clients[c] = IF s.clients[c].active \in S THEN U(s.clients[c].active).clients[c]
                           ELSE s.clients[c]
  BY <1>2 DEF SolveEachTab, SessionShape
<1> HIDE DEF U, r
<1>4. ASSUME NEW v \in DOMAIN s.tabs
      PROVE  /\ r.tabs[v].leaves = s.tabs[v].leaves /\ r.tabs[v].index = s.tabs[v].index
             /\ TabOK(r.tabs[v], r.panes, v \in T)
  <2>1. CASE v \in S
    <3>1. SolvedAgain(s, U(v), X, D, T, B, v)
      BY <1>1, <2>1
    <3>2. v \in DOMAIN U(v).tabs /\ TabOK(U(v).tabs[v], U(v).panes, v \in T) /\ U(v).panes = s.panes
      BY <3>1 DEF SolvedAgain, Touches, Steady
    <3>3. QED
      BY <1>3, <2>1, <3>1, <3>2 DEF SolvedAgain, SameTrees
  <2>2. CASE v \notin S
    BY <1>3, <2>2 DEF Steady
  <2>3. QED
    BY <2>1, <2>2
<1>5. \A v : LeavesIn(r.tabs, v) = LeavesIn(s.tabs, v)
  BY <1>3, <1>4 DEF LeavesIn
<1>6. ASSUME NEW c \in DOMAIN s.clients
      PROVE  /\ Fits(r.clients[c], r.tabs, X) /\ (c \in D \/ Landed(r.clients[c], r.tabs))
             /\ r.clients[c].active = s.clients[c].active
             /\ \A v \in Tabs : \/ r.clients[c].hist[v] = s.clients[c].hist[v]
                                \/ HeadOf(r.clients[c].hist[v]) \in LeavesIn(s.tabs, v)
  <2>1. PICK a : a = s.clients[c].active
    OBVIOUS
  <2>2. CASE a \notin S
    <3>1. r.clients[c] = s.clients[c] /\ (a \in DOMAIN s.tabs => r.tabs[a] = s.tabs[a])
      BY <1>3, <2>1, <2>2
    <3>2. Fits(s.clients[c], s.tabs, X) /\ (c \in D \/ Landed(s.clients[c], s.tabs))
      BY DEF Steady
    <3>3. QED
      BY <1>3, <1>5, <2>1, <3>1, <3>2 DEF Fits, OwnSolve, Landed
  <2>3. CASE a \in S
    <3>1. SolvedAgain(s, U(a), X, D, T, B, a)
      BY <1>1, <2>3
    <3>2. PICK u : u = U(a)
      OBVIOUS
    <3>3. r.clients[c] = u.clients[c] /\ (a \in DOMAIN s.tabs => r.tabs[a] = u.tabs[a])
      BY <1>3, <2>1, <2>3, <3>2
    <3>4. DOMAIN u.clients = DOMAIN s.clients /\ DOMAIN u.tabs = DOMAIN s.tabs
          /\ u.clients[c].active = a
          /\ \A v \in DOMAIN s.tabs : u.tabs[v].leaves = s.tabs[v].leaves
      BY <2>1, <3>1, <3>2 DEF SolvedAgain, SameTrees
    <3>5. Fits(u.clients[c], u.tabs, X) /\ (c \in D \/ Landed(u.clients[c], u.tabs))
      BY <3>1, <3>2, <3>4 DEF SolvedAgain, Steady
    <3>6. \A v : LeavesIn(u.tabs, v) = LeavesIn(s.tabs, v)
      BY <3>4 DEF LeavesIn
    <3>7. Handed(s.clients[c], u.clients[c], a, LeavesIn(s.tabs, a))
      BY <3>1, <3>2, <3>6 DEF SolvedAgain, Touches
    <3>8. Fits(r.clients[c], r.tabs, X) /\ (c \in D \/ Landed(r.clients[c], r.tabs))
      BY <1>3, <1>5, <3>3, <3>4, <3>5, <3>6 DEF Fits, OwnSolve, Landed
    <3>9. QED
      BY <2>1, <3>3, <3>4, <3>7, <3>8 DEF Handed
  <2>4. QED
    BY <2>2, <2>3
<1>7. SameTrees(s, r)
  BY <1>3, <1>4, <1>6 DEF SameTrees
<1>8. ASSUME NEW v \in DOMAIN r.tabs \ (B \ S) PROVE Settled(r, v)
  <2>1. (v \in DOMAIN s.tabs /\ v \notin B) \/ v \in S
    BY <1>3
  <2>2. CASE v \in S
    <3>1. SolvedAgain(s, U(v), X, D, T, B, v)
      BY <1>1, <2>2
    <3>2. PICK u : u = U(v)
      OBVIOUS
    <3>3. DOMAIN u.clients = DOMAIN s.clients /\ DOMAIN u.tabs = DOMAIN s.tabs
          /\ \A c \in DOMAIN s.clients : u.clients[c].active = s.clients[c].active
      BY <3>1, <3>2 DEF SolvedAgain, SameTrees
    <3>4. v \in DOMAIN s.tabs /\ r.tabs[v] = u.tabs[v]
      BY <1>3, <2>2, <3>2
    <3>5. Settled(u, v)
      BY <3>1, <3>2, <3>3, <3>4 DEF SolvedAgain, Steady
    <3> DEFINE O == Tabs \ {v}
    <3>6. ASSUME NEW c \in DOMAIN u.clients \cup DOMAIN r.clients PROVE Aside(u, r, c, O)
      <4>1. c \in DOMAIN s.clients /\ u.clients[c].active = s.clients[c].active
            /\ r.clients[c].active = s.clients[c].active /\ s.clients[c].active \in Tabs
        BY <1>3, <1>6, <3>3 DEF Steady, Fits, Client
      <4>2. CASE s.clients[c].active = v
        <5>1. r.clients[c] = u.clients[c]
          BY <1>3, <2>2, <3>2, <4>1, <4>2
        <5>2. QED
          BY <1>3, <3>3, <4>1, <5>1 DEF Aside, SameView
      <4>3. CASE s.clients[c].active # v
        BY <1>3, <3>3, <4>1, <4>3 DEF Aside, SameView
      <4>4. QED
        BY <4>2, <4>3
    <3>7. v \notin O /\ SameSolve(u.tabs[v], r.tabs[v])
      BY <3>4 DEF SameSolve
    <3> HIDE DEF O
    <3>8. v \in DOMAIN u.tabs
      BY <3>3, <3>4
    <3>9. QED
      BY <3>5, <3>6, <3>7, <3>8, SettledKept
  <2>3. CASE v \notin S
    <3>1. Settled(s, v) /\ v \in DOMAIN s.tabs /\ r.tabs[v] = s.tabs[v]
      BY <1>3, <2>1, <2>3 DEF Steady
    <3> DEFINE O == Tabs \ {v}
    <3>2. ASSUME NEW c \in DOMAIN s.clients \cup DOMAIN r.clients PROVE Aside(s, r, c, O)
      <4>1. c \in DOMAIN s.clients /\ r.clients[c].active = s.clients[c].active /\ s.clients[c].active \in Tabs
        BY <1>3, <1>6 DEF Steady, Fits, Client
      <4>2. CASE s.clients[c].active = v
        <5>1. r.clients[c] = s.clients[c]
          BY <1>3, <2>3, <4>1, <4>2
        <5>2. QED
          BY <1>3, <4>1, <5>1 DEF Aside, SameView
      <4>3. CASE s.clients[c].active # v
        BY <1>3, <4>1, <4>3 DEF Aside, SameView
      <4>4. QED
        BY <4>2, <4>3
    <3>3. v \notin O /\ SameSolve(s.tabs[v], r.tabs[v])
      BY <3>1 DEF SameSolve
    <3> HIDE DEF O
    <3>4. QED
      BY <3>1, <3>2, <3>3, SettledKept
  <2>4. QED
    BY <2>2, <2>3
<1>9. SessionShape(r)
  BY <1>2, <1>3 DEF SessionShape
<1>10. \A c \in DOMAIN r.clients : r.clients[c].active \in DOMAIN r.tabs \/ DOMAIN r.tabs = {}
  BY <1>3, <1>6 DEF Steady
<1>11. Steady(r, X, D, T, B \ S)
  BY <1>3, <1>4, <1>6, <1>8, <1>9, <1>10 DEF Steady
<1>12. QED
  BY <1>6, <1>7, <1>11 DEF r

\* What the actions commit.
LEMMA CommitWhole ==
  ASSUME NEW r, WholeBut(r, {}), Commit(r)
  PROVE  SessionInv'
<1>1. PICK q : q = Session'
  OBVIOUS
<1>2. /\ DOMAIN q = {"tabs", "panes", "clients", "lifecycle"} /\ q.tabs = r.tabs
      /\ q.panes = r.panes /\ q.clients = r.clients /\ q.lifecycle = r.lifecycle
  BY <1>1 DEF Session, Commit
<1>3. Steady(r, {}, {}, {}, {}) /\ DOMAIN r = {"tabs", "panes", "clients", "lifecycle"}
  BY DEF WholeBut, Steady, SessionShape
<1>4. OnlyClients(r, q)
  BY <1>2, <1>3 DEF OnlyClients
<1>5. \A c \in DOMAIN r.clients : Recast(r.clients[c], q.clients[c], r.tabs, {}, c \in {}, {})
  BY <1>2, <1>3 DEF Steady, Recast, SameView
<1>6. Steady(q, {}, {}, {}, {})
  BY <1>3, <1>4, <1>5, RecordsSteady
<1>7. Rooted(q)
  BY <1>2 DEF WholeBut, Rooted, Lives
<1>8. WholeBut(q, {})
  BY <1>6, <1>7 DEF WholeBut
<1>9. QED
  BY <1>1, <1>8 DEF SessionInv

-----------------------------------------------------------------------------
(* The changes of records that handlers are made of *)

\* A change of client records alone keeps the session whole but for the tabs of B.
LEMMA RecordsWhole ==
  ASSUME NEW s, NEW r, NEW B, WholeBut(s, {}), OnlyClients(s, r),
         \A c \in DOMAIN s.clients : Recast(s.clients[c], r.clients[c], s.tabs, {}, FALSE, B)
  PROVE  WholeBut(r, B)
<1>1. Steady(s, {}, {}, {}, B)
  BY SteadyMore DEF WholeBut
<1>2. \A c \in DOMAIN s.clients : Recast(s.clients[c], r.clients[c], s.tabs, {}, c \in {}, B)
  BY DEF Recast
<1>3. Steady(r, {}, {}, {}, B)
  BY <1>1, <1>2, RecordsSteady
<1>4. QED
  BY <1>3 DEF WholeBut, Rooted, Lives, OnlyClients

\* Only records changed.
Reshaped(s, r, X, D, T, B) == Steady(r, X, D, T, B) /\ OnlyClients(s, r)

HistoriesKept(s, r) ==
  \A c \in DOMAIN s.clients :
    r.clients[c].active = s.clients[c].active /\ r.clients[c].hist = s.clients[c].hist

\* Clients brought to a tab have a focus once they landed.
LEMMA LandSteady ==
  ASSUME NEW s, NEW X, NEW D, NEW T, NEW B, Steady(s, X, D, T, B), NEW S,
         NEW t \in DOMAIN s.tabs, t \in B, t \notin T,
         \A c \in S \cap DOMAIN s.clients : s.clients[c].active = t
  PROVE  Reshaped(s, LandClients(s, S, t), X, D \ S, T, B)
<1>1. PICK r : r = LandClients(s, S, t)
  OBVIOUS
<1>2. SessionShape(s) /\ t \in Tabs /\ TabOK(s.tabs[t], s.panes, FALSE)
  BY DEF Steady, SessionShape, TabOK
<1>3. /\ OnlyClients(s, r)
      /\ \A c \in DOMAIN s.clients : r.clients[c] =
             IF c \in S THEN LandFocus(s, c, t) ELSE s.clients[c]
  BY <1>1, <1>2, LandShape
<1>4. ASSUME NEW c \in DOMAIN s.clients
      PROVE  Recast(s.clients[c], r.clients[c], s.tabs, X, c \in D \ S, B)
  <2>1. Fits(s.clients[c], s.tabs, X) /\ (c \in D \/ Landed(s.clients[c], s.tabs))
    BY DEF Steady
  <2>2. CASE c \notin S
    BY <1>3, <2>1, <2>2 DEF Recast, SameView
  <2>3. CASE c \in S
    <3>1. r.clients[c] = LandFocus(s, c, t) /\ s.clients[c].active = t
      BY <1>3, <2>3
    <3>2. LandedIn(s.clients[c], LandFocus(s, c, t), s, X, t)
      BY <1>2, <2>1, LandRecord
    <3>3. QED
      BY <3>1, <3>2 DEF LandedIn, Recast, SameView, Landed
  <2>4. QED
    BY <2>2, <2>3
<1>5. Steady(r, X, D \ S, T, B)
  BY <1>3, <1>4, RecordsSteady
<1>6. QED
  BY <1>1, <1>3, <1>5 DEF Reshaped

\* Clients shown a tab may have no focus in it yet.
LEMMA ShowSteady ==
  ASSUME NEW s, NEW X, NEW D, NEW T, NEW B, Steady(s, X, D, T, B), NEW S,
         NEW t \in DOMAIN s.tabs, t \in B, \A c \in S \cap DOMAIN s.clients : s.clients[c].active \in B
  PROVE  /\ Reshaped(s, ShowTab(s, S, t), X, D \cup S, T, B)
         /\ \A c \in S \cap DOMAIN s.clients : ShowTab(s, S, t).clients[c].active = t
<1>1. PICK r : r = ShowTab(s, S, t)
  OBVIOUS
<1>2. SessionShape(s) /\ t \in Tabs
  BY DEF Steady, SessionShape
<1>3. /\ OnlyClients(s, r)
      /\ \A c \in DOMAIN s.clients : r.clients[c] =
             IF c \in S THEN UpdateActiveTab(s.clients[c], t) ELSE s.clients[c]
  BY <1>1, <1>2, ShowShape
<1>4. ASSUME NEW c \in DOMAIN s.clients
      PROVE  /\ Recast(s.clients[c], r.clients[c], s.tabs, X, c \in D \cup S, B)
             /\ r.clients[c].active = (IF c \in S THEN t ELSE s.clients[c].active)
  <2>1. Fits(s.clients[c], s.tabs, X) /\ (c \in D \/ Landed(s.clients[c], s.tabs))
    BY DEF Steady
  <2>2. CASE c \notin S
    BY <1>3, <2>1, <2>2 DEF Recast, SameView
  <2>3. CASE c \in S
    <3>1. r.clients[c] = UpdateActiveTab(s.clients[c], t) /\ s.clients[c].active \in B
      BY <1>3, <2>3
    <3>2. PICK k, m : k = s.clients[c] /\ m = r.clients[c]
      OBVIOUS
    <3>3. Fits(m, s.tabs, X) /\ m.active = t
      BY <1>2, <2>1, <3>1, <3>2, ShowRecord
    <3>4. QED
      BY <2>3, <3>1, <3>2, <3>3 DEF Recast, SameView
  <2>4. QED
    BY <2>2, <2>3
<1>5. Steady(r, X, D \cup S, T, B)
  BY <1>3, <1>4, RecordsSteady
<1>6. QED
  BY <1>1, <1>3, <1>4, <1>5 DEF Reshaped

\* Focusing a leaf of a tab keeps the session steady but for that tab.
LEMMA FocusSteady ==
  ASSUME NEW s, NEW X, NEW D, NEW T, NEW B, Steady(s, X, D, T, B), NEW d,
         NEW t \in DOMAIN s.tabs, t \in B, NEW p \in Leaves(s, t)
  PROVE  /\ Reshaped(s, FocusTiled(s, d, t, p), X, D, T, B)
         /\ (d \in DOMAIN s.clients => s.clients[d].active = t)
              => Reshaped(s, FocusTiled(s, d, t, p), X, D \ {d}, T, B)
<1>1. PICK r : r = FocusTiled(s, d, t, p)
  OBVIOUS
<1>2. SessionShape(s) /\ t \in Tabs /\ p \in LeavesIn(s.tabs, t) /\ p \in Panes
  BY RangeFacts DEF Steady, SessionShape, LeavesIn, Leaves, TabOK, Tab
<1>3. /\ OnlyClients(s, r)
      /\ \A c \in DOMAIN s.clients : r.clients[c] =
             IF c = d THEN UpdateFocusedPane(s.clients[c], t, p) ELSE s.clients[c]
  BY <1>1, <1>2, FocusShape
<1>4. ASSUME NEW c \in DOMAIN s.clients
      PROVE  /\ Recast(s.clients[c], r.clients[c], s.tabs, X, c \in D, B)
             /\ s.clients[d].active = t
                  => Recast(s.clients[c], r.clients[c], s.tabs, X, c \in D \ {d}, B)
  <2>1. /\ Fits(s.clients[c], s.tabs, X) /\ (c \in D \/ Landed(s.clients[c], s.tabs))
        /\ s.clients[c].active \in Tabs
    BY DEF Steady, Fits, Client
  <2>2. CASE c # d
    BY <1>3, <2>1, <2>2 DEF Recast, SameView
  <2>3. CASE c = d
    <3>1. PICK k, m : k = s.clients[c] /\ m = r.clients[c]
      OBVIOUS
    <3>2. m = UpdateFocusedPane(k, t, p)
      BY <1>3, <2>3, <3>1
    <3>3. /\ Fits(m, s.tabs, X) /\ m.active = k.active /\ m.area = k.area /\ m.hist[t] # <<>>
          /\ \A v \in Tabs \ {t} : m.hist[v] = k.hist[v] /\ m.zoom[v] = k.zoom[v]
      BY <1>2, <2>1, <3>1, <3>2, FocusRecord
    <3>4. SameView(k, m, B)
      BY <2>1, <3>1, <3>3 DEF SameView
    <3>5. Landed(k, s.tabs) => Landed(m, s.tabs)
      BY <2>1, <3>1, <3>3 DEF Landed
    <3>6. k.active = t => Landed(m, s.tabs)
      BY <3>3 DEF Landed
    <3>7. QED
      BY <2>1, <2>3, <3>1, <3>3, <3>4, <3>5, <3>6 DEF Recast
  <2>4. QED
    BY <2>2, <2>3
<1>5. Steady(r, X, D, T, B)
  BY <1>3, <1>4, RecordsSteady
<1>6. ASSUME d \in DOMAIN s.clients => s.clients[d].active = t PROVE Steady(r, X, D \ {d}, T, B)
  <2>1. ASSUME NEW c \in DOMAIN s.clients
        PROVE  Recast(s.clients[c], r.clients[c], s.tabs, X, c \in D \ {d}, B)
    <3>1. CASE d \in DOMAIN s.clients
      BY <1>4, <1>6, <3>1
    <3>2. CASE d \notin DOMAIN s.clients
      BY <1>4, <3>2 DEF Recast
    <3>3. QED
      BY <3>1, <3>2
  <2>2. QED
    BY <1>3, <2>1, RecordsSteady
<1>7. QED
  BY <1>1, <1>3, <1>5, <1>6 DEF Reshaped

\* Leaving a zoom keeps the session steady but for that tab.
LEMMA LeaveZoomSteady ==
  ASSUME NEW s, NEW X, NEW D, NEW T, NEW B, Steady(s, X, D, T, B), NEW S, NEW t \in Tabs, t \in B
  PROVE  Reshaped(s, LeaveZoom(s, S, t), X, D, T, B) /\ HistoriesKept(s, LeaveZoom(s, S, t))
<1>1. PICK r : r = LeaveZoom(s, S, t)
  OBVIOUS
<1>2. SessionShape(s)
  BY DEF Steady
<1>3. /\ OnlyClients(s, r)
      /\ \A c \in DOMAIN s.clients : r.clients[c] =
             IF c \in S THEN ClearZoom(s.clients[c], t) ELSE s.clients[c]
  BY <1>1, <1>2, LeaveZoomShape
<1>4. ASSUME NEW c \in DOMAIN s.clients
      PROVE  /\ Recast(s.clients[c], r.clients[c], s.tabs, X, c \in D, B)
             /\ r.clients[c].active = s.clients[c].active
             /\ r.clients[c].hist = s.clients[c].hist
  <2>1. /\ Fits(s.clients[c], s.tabs, X) /\ (c \in D \/ Landed(s.clients[c], s.tabs))
        /\ s.clients[c].active \in Tabs
    BY DEF Steady, Fits, Client
  <2>2. CASE c \notin S
    BY <1>3, <2>1, <2>2 DEF Recast, SameView
  <2>3. CASE c \in S
    <3>1. PICK k, m : k = s.clients[c] /\ m = r.clients[c]
      OBVIOUS
    <3>2. m = ClearZoom(k, t)
      BY <1>3, <2>3, <3>1
    <3>3. /\ Fits(m, s.tabs, X) /\ m.active = k.active /\ m.area = k.area /\ m.hist = k.hist
          /\ \A v \in Tabs \ {t} : m.zoom[v] = k.zoom[v]
      BY <2>1, <3>1, <3>2, ClearZoomRecord
    <3>4. SameView(k, m, B)
      BY <2>1, <3>1, <3>3 DEF SameView
    <3>5. QED
      BY <2>1, <3>1, <3>3, <3>4 DEF Recast, Landed
  <2>4. QED
    BY <2>2, <2>3
<1>5. Steady(r, X, D, T, B)
  BY <1>3, <1>4, RecordsSteady
<1>6. QED
  BY <1>1, <1>3, <1>4, <1>5 DEF Reshaped, HistoriesKept

\* A solve that is kept is the one the client would build.
LEMMA KeepSteady ==
  ASSUME NEW s, NEW X, NEW D, NEW T, NEW B, Steady(s, X, D, T, B), NEW S, NEW t \in DOMAIN s.tabs
  PROVE  Reshaped(s, KeepSolves(s, S, t), X, D, T, B) /\ HistoriesKept(s, KeepSolves(s, S, t))
<1>1. PICK r : r = KeepSolves(s, S, t)
  OBVIOUS
<1>2. SessionShape(s) /\ t \in Tabs /\ s.tabs[t] \in Tab
  BY DEF Steady, SessionShape, TabOK
<1>3. /\ OnlyClients(s, r)
      /\ \A c \in DOMAIN s.clients : r.clients[c] =
             IF c \in S /\ s.clients[c].active = t
             THEN [s.clients[c] EXCEPT !.own = ClientSolve(s, c, t)] ELSE s.clients[c]
  BY <1>1, <1>2 DEF KeepSolves, ForClients, OnlyClients, SessionShape
<1>4. ASSUME NEW c \in DOMAIN s.clients
      PROVE  /\ Recast(s.clients[c], r.clients[c], s.tabs, X, c \in D, B)
             /\ r.clients[c].active = s.clients[c].active
             /\ r.clients[c].hist = s.clients[c].hist
  <2>1. /\ Fits(s.clients[c], s.tabs, X) /\ (c \in D \/ Landed(s.clients[c], s.tabs))
        /\ s.clients[c].active \in Tabs
    BY DEF Steady, Fits, Client
  <2>2. CASE ~(c \in S /\ s.clients[c].active = t)
    BY <1>3, <2>1, <2>2 DEF Recast, SameView
  <2>3. CASE c \in S /\ s.clients[c].active = t
    <3>1. PICK k, m : k = s.clients[c] /\ m = r.clients[c]
      OBVIOUS
    <3>2. PICK own : own = ClientSolve(s, c, t)
      OBVIOUS
    <3>3. m = [k EXCEPT !.own = own]
      BY <1>3, <2>3, <3>1, <3>2
    <3>4. own = OwnSolve(k, s.tabs)
      <4>1. own = BuildOwnSolve(s, c, t)
        BY <1>2, <2>1, <3>2, ShownFacts
      <4>2. QED
        BY <2>3, <3>1, <4>1 DEF BuildOwnSolve, OwnSolve, Leaves
    <3>5. k \in Client /\ k.active = t
      BY <2>1, <2>3, <3>1 DEF Fits
    <3>6. own \in (Panes \cup {NoPane}) \X Sizes
      <4>1. k.zoom[t] \in Panes \cup {NoPane} /\ s.tabs[t].size \in Sizes /\ 0 \in Sizes
        BY <1>2, <3>5 DEF Client, Tab, Sizes
      <4>2. QED
        BY <3>4, <3>5, <4>1 DEF OwnSolve
    <3>7. /\ m \in Client /\ m.active = k.active /\ m.area = k.area /\ m.hist = k.hist
          /\ m.zoom = k.zoom /\ m.own = own
      BY <3>3, <3>5, <3>6 DEF Client
    <3>8. Fits(m, s.tabs, X)
      <4>1. m.own = OwnSolve(m, s.tabs)
        BY <3>4, <3>7 DEF OwnSolve
      <4>2. QED
        BY <2>1, <3>1, <3>7, <4>1 DEF Fits
    <3>9. QED
      BY <2>1, <3>1, <3>7, <3>8 DEF Recast, Landed, SameView
  <2>4. QED
    BY <2>2, <2>3
<1>5. Steady(r, X, D, T, B)
  BY <1>3, <1>4, RecordsSteady
<1>6. QED
  BY <1>1, <1>3, <1>4, <1>5 DEF Reshaped, HistoriesKept

-----------------------------------------------------------------------------
(* Clients come, change size, and go *)

\* The session record is made of the variables.
LEMMA SessionParts ==
  /\ DOMAIN Session = {"tabs", "panes", "clients", "lifecycle"}
  /\ Session.tabs = tabs /\ Session.panes = panes /\ Session.clients = clients
  /\ Session.lifecycle = lifecycle
  BY DEF Session

\* A handler may end with the solve of the one tab it left unsettled.
LEMMA SolveAndCommit ==
  ASSUME NEW r, NEW t, NEW g \in Geometries, WholeBut(r, {t}), Commit(UpdateTabSolve(r, t, g))
  PROVE  SessionInv'
<1>1. WholeBut(UpdateTabSolve(r, t, g), {t} \ {t})
  BY SolveWhole
<1>2. {t} \ {t} = {}
  OBVIOUS
<1>3. QED
  BY <1>1, <1>2, CommitWhole

\* A handler may end with the solve of the two tabs it left unsettled.
LEMMA SolvesAndCommit ==
  ASSUME NEW r, NEW t, NEW left, NEW g \in Geometries, WholeBut(r, {t, left}),
         Commit(UpdateTabSolves(r, t, left, g))
  PROVE  SessionInv'
<1>1. WholeBut(UpdateTabSolves(r, t, left, g), {t, left} \ {t, left})
  BY SolvesWhole
<1>2. {t, left} \ {t, left} = {}
  OBVIOUS
<1>3. QED
  BY <1>1, <1>2, CommitWhole

\* ResizeClient: only the client's tab is unsettled by its new area.
LEMMA ResizeClientKeeps ==
  ASSUME SessionInv, NEW c, NEW area \in Areas, NEW g \in Geometries, ResizeClient(c, area, g)
  PROVE  SessionInv'
<1>1. PICK s : s = Session
  OBVIOUS
<1>2. PICK a : a = clients[c].active
  OBVIOUS
<1>3. PICK r : r = [s EXCEPT !.clients[c].area = area]
  OBVIOUS
<1>4. /\ WholeBut(s, {}) /\ SessionShape(s) /\ s.clients = clients /\ c \in DOMAIN s.clients
      /\ a = s.clients[c].active /\ Commit(UpdateTabSolve(r, a, g))
  BY <1>1, <1>2, <1>3, SessionParts DEF SessionInv, WholeBut, Steady, ResizeClient
<1>5. /\ OnlyClients(s, r)
      /\ \A d \in DOMAIN s.clients :
            r.clients[d] = IF d = c THEN [s.clients[c] EXCEPT !.area = area] ELSE s.clients[d]
  BY <1>3, <1>4 DEF OnlyClients, SessionShape
<1>6. ASSUME NEW d \in DOMAIN s.clients
      PROVE  Recast(s.clients[d], r.clients[d], s.tabs, {}, FALSE, {a})
  <2>1. Fits(s.clients[d], s.tabs, {}) /\ Landed(s.clients[d], s.tabs)
    BY <1>4 DEF WholeBut, Steady
  <2>2. CASE d # c
    BY <1>5, <2>1, <2>2 DEF Recast, SameView
  <2>3. CASE d = c
    <3>1. PICK k, m : k = s.clients[d] /\ m = r.clients[d]
      OBVIOUS
    <3>2. k \in Client /\ m = [k EXCEPT !.area = area]
      BY <1>5, <2>1, <2>3, <3>1 DEF Fits
    <3>3. /\ m \in Client /\ m.active = k.active /\ m.hist = k.hist /\ m.zoom = k.zoom /\ m.own = k.own
      BY <3>2 DEF Client
    <3>4. Fits(m, s.tabs, {}) /\ Landed(m, s.tabs)
      BY <2>1, <3>1, <3>3 DEF Fits, Landed, OwnSolve
    <3>5. QED
      BY <1>4, <2>3, <3>1, <3>3, <3>4 DEF Recast, SameView
  <2>4. QED
    BY <2>2, <2>3
<1>7. WholeBut(r, {a})
  BY <1>4, <1>5, <1>6, RecordsWhole
<1>8. QED
  BY <1>4, <1>7, SolveAndCommit

\* DetachClient: only the tab the client viewed loses a viewer.
LEMMA DetachClientKeeps ==
  ASSUME SessionInv, NEW c, NEW g \in Geometries, DetachClient(c, g)
  PROVE  SessionInv'
<1>1. PICK s : s = Session
  OBVIOUS
<1>2. PICK a : a = clients[c].active
  OBVIOUS
<1>3. PICK r : r = [s EXCEPT
                    !.clients = [d \in DOMAIN clients \ {c} |-> clients[d]],
                    !.lifecycle = IF DOMAIN clients \ {c} # {} THEN @
                                  ELSE Transition(@, "LastClientDetached")]
  OBVIOUS
<1>4. /\ WholeBut(s, {}) /\ SessionShape(s) /\ s.clients = clients /\ c \in DOMAIN s.clients
      /\ a = s.clients[c].active /\ Commit(UpdateTabSolve(r, a, g))
  BY <1>1, <1>2, <1>3, SessionParts DEF SessionInv, WholeBut, Steady, DetachClient
<1>5. /\ DOMAIN r = DOMAIN s /\ r.tabs = s.tabs /\ r.panes = s.panes
      /\ DOMAIN r.clients = DOMAIN s.clients \ {c}
      /\ \A d \in DOMAIN r.clients : r.clients[d] = s.clients[d]
      /\ r.lifecycle = s.lifecycle \/ r.lifecycle = Transition(s.lifecycle, "LastClientDetached")
  BY <1>3, <1>4 DEF SessionShape
<1>6. Steady(s, {}, {}, {}, {a})
  BY <1>4, SteadyMore DEF WholeBut
<1>7. Steady(r, {}, {}, {}, {a})
  <2>1. SessionShape(r)
    BY <1>4, <1>5 DEF SessionShape
  <2>2. ASSUME NEW v \in DOMAIN r.tabs \ {a} PROVE Settled(r, v)
    <3>1. \A d \in DOMAIN s.clients \cup DOMAIN r.clients : Aside(s, r, d, {a})
      BY <1>4, <1>5 DEF Aside, SameView
    <3>2. v \in DOMAIN s.tabs /\ v \notin {a} /\ Settled(s, v) /\ SameSolve(s.tabs[v], r.tabs[v])
      BY <1>5, <1>6 DEF Steady, SameSolve
    <3>3. QED
      BY <3>1, <3>2, SettledKept
  <2>3. QED
    BY <1>5, <1>6, <2>1, <2>2 DEF Steady
<1>8. Rooted(r)
  BY <1>4, <1>5 DEF WholeBut, Rooted, Lives, Transition
<1>9. WholeBut(r, {a})
  BY <1>7, <1>8 DEF WholeBut
<1>10. QED
  BY <1>4, <1>9, SolveAndCommit

\* DrawClient: the solve kept is fresh.
LEMMA DrawClientKeeps ==
  ASSUME SessionInv, NEW c, DrawClient(c)
  PROVE  SessionInv'
<1>1. PICK s : s = Session
  OBVIOUS
<1>2. PICK a : a = clients[c].active
  OBVIOUS
<1>3. PICK r : r = KeepSolves(s, {c}, a)
  OBVIOUS
<1>4. WholeBut(s, {}) /\ a \in DOMAIN s.tabs /\ Commit(r)
  BY <1>1, <1>2, <1>3, SessionParts DEF SessionInv, DrawClient
<1>5. Steady(r, {}, {}, {}, {}) /\ OnlyClients(s, r)
  BY <1>3, <1>4, KeepSteady DEF WholeBut, Reshaped
<1>6. WholeBut(r, {})
  BY <1>4, <1>5 DEF WholeBut, Rooted, Lives, OnlyClients
<1>7. QED
  BY <1>4, <1>6, CommitWhole

\* from_attachment gives a record that fits any tabs.
LEMMA NewRecord ==
  ASSUME NEW t \in Tabs, NEW area \in Areas, NEW ts
  PROVE  LET m == FromAttachment(t, area)
         IN  Fits(m, ts, {}) /\ m.active = t
<1>1. PICK m : m = FromAttachment(t, area)
  OBVIOUS
<1>2. <<>> \in Seq(Panes)
  OBVIOUS
<1>3. /\ m \in Client /\ m.active = t /\ m.own = <<>>
      /\ \A v \in Tabs : m.hist[v] = <<>> /\ m.zoom[v] = NoPane
  BY <1>1, <1>2 DEF FromAttachment, Client
<1>4. \A v \in Tabs : ViewOK(m.hist[v], m.zoom[v], LeavesIn(ts, v) \cup Stale({}, v))
  BY <1>3 DEF ViewOK, Range, Distinct
<1>5. QED
  BY <1>1, <1>3, <1>4 DEF Fits

\* AttachClient: the client lands before the tabs concerned are solved.
LEMMA AttachClientKeeps ==
  ASSUME SessionInv, NEW c \in Clients, NEW t, NEW area \in Areas, NEW g \in Geometries,
         AttachClient(c, t, area, g)
  PROVE  SessionInv'
<1>1. PICK s : s = Session
  OBVIOUS
<1> DEFINE isAttached == c \in DOMAIN s.clients
<1>3. PICK record : record = IF isAttached
                     THEN [UpdateActiveTab(s.clients[c], t) EXCEPT !.area = area]
                     ELSE FromAttachment(t, area)
  OBVIOUS
<1>4. PICK r : r = [s EXCEPT
                           !.clients = With(@, c, record),
                           !.lifecycle = IF isAttached THEN @
                                         ELSE Transition(@, "ClientAttached")]
  OBVIOUS
<1>5. PICK left : left = IF isAttached THEN s.clients[c].active ELSE t
  OBVIOUS
<1>6. PICK m : m = LandClients(r, {c}, t)
  OBVIOUS
<1>7. /\ WholeBut(s, {}) /\ SessionShape(s) /\ t \in DOMAIN s.tabs /\ t \in Tabs
      /\ s.tabs = tabs /\ s.clients = clients
  BY <1>1, SessionParts DEF SessionInv, WholeBut, Steady, SessionShape, AttachClient
<1>8. Commit(UpdateTabSolves(m, t, left, g))
  BY <1>1, <1>3, <1>4, <1>5, <1>6, <1>7 DEF AttachClient
<1>9. /\ DOMAIN r = DOMAIN s /\ r.tabs = s.tabs /\ r.panes = s.panes
      /\ DOMAIN r.clients = DOMAIN s.clients \cup {c} /\ r.clients[c] = record
      /\ \A d \in DOMAIN s.clients \ {c} : r.clients[d] = s.clients[d]
      /\ r.lifecycle = s.lifecycle \/ r.lifecycle = Transition(s.lifecycle, "ClientAttached")
  BY <1>4, <1>7 DEF SessionShape, With
<1>10. Fits(record, s.tabs, {}) /\ record.active = t
  <2>1. CASE isAttached
    <3>1. PICK k, n : k = s.clients[c] /\ n = UpdateActiveTab(k, t)
      OBVIOUS
    <3>2. Fits(k, s.tabs, {})
      BY <1>7, <2>1, <3>1 DEF WholeBut, Steady
    <3>3. Fits(n, s.tabs, {}) /\ n.active = t /\ n.own = <<>>
      BY <1>7, <3>1, <3>2, ShowRecord
    <3>4. record = [n EXCEPT !.area = area] /\ n \in Client
      BY <1>3, <2>1, <3>1, <3>3 DEF Fits
    <3>5. /\ record \in Client /\ record.active = t /\ record.own = <<>>
          /\ record.hist = n.hist /\ record.zoom = n.zoom
      BY <3>3, <3>4 DEF Client
    <3>6. QED
      BY <3>3, <3>5 DEF Fits
  <2>2. CASE ~isAttached
    BY <1>3, <1>7, <2>2, NewRecord
  <2>3. QED
    BY <2>1, <2>2
<1>11. Steady(s, {}, {}, {}, {t, left})
  BY <1>7, SteadyMore DEF WholeBut
<1>12. Steady(r, {}, {c}, {}, {t, left})
  <2>1. SessionShape(r)
    BY <1>7, <1>9 DEF SessionShape
  <2>2. ASSUME NEW v \in DOMAIN r.tabs \ {t, left} PROVE Settled(r, v)
    <3>1. \A d \in DOMAIN s.clients \cup DOMAIN r.clients : Aside(s, r, d, {t, left})
      BY <1>5, <1>9, <1>10 DEF Aside, SameView
    <3>2. v \in DOMAIN s.tabs /\ v \notin {t, left} /\ Settled(s, v) /\ SameSolve(s.tabs[v], r.tabs[v])
      BY <1>9, <1>11 DEF Steady, SameSolve
    <3>3. QED
      BY <3>1, <3>2, SettledKept
  <2>3. ASSUME NEW d \in DOMAIN r.clients
        PROVE  /\ Fits(r.clients[d], r.tabs, {})
               /\ d \in {c} \/ Landed(r.clients[d], r.tabs)
               /\ r.clients[d].active \in DOMAIN r.tabs \/ DOMAIN r.tabs = {}
    <3>1. CASE d = c
      BY <1>7, <1>9, <1>10, <3>1
    <3>2. CASE d # c
      BY <1>9, <1>11, <3>2 DEF Steady
    <3>3. QED
      BY <3>1, <3>2
  <2>4. QED
    BY <1>9, <1>11, <2>1, <2>2, <2>3 DEF Steady
<1>13. Steady(m, {}, {}, {}, {t, left}) /\ OnlyClients(r, m)
  <2>1. Steady(m, {}, {c} \ {c}, {}, {t, left}) /\ OnlyClients(r, m)
    <3>1. \A d \in {c} \cap DOMAIN r.clients : r.clients[d].active = t
      BY <1>9, <1>10
    <3>2. t \in DOMAIN r.tabs /\ t \in {t, left}
      BY <1>7, <1>9
    <3>3. t \notin {}
      OBVIOUS
    <3>4. Reshaped(r, LandClients(r, {c}, t), {}, {c} \ {c}, {}, {t, left})
      BY <1>12, <3>1, <3>2, <3>3, LandSteady
    <3>5. QED
      BY <1>6, <3>4 DEF Reshaped
  <2>2. {c} \ {c} = {}
    OBVIOUS
  <2>3. QED
    BY <2>1, <2>2
<1>14. Rooted(m)
  <2>1. s.lifecycle # "Stopping"
    BY <1>7 DEF WholeBut, Rooted, Lives
  <2>2. Lives(m)
    BY <1>7, <1>9, <1>13, <2>1 DEF WholeBut, Rooted, Lives, Transition, OnlyClients
  <2>3. QED
    BY <1>7, <1>9, <1>13, <2>2 DEF WholeBut, Rooted, OnlyClients
<1>15. WholeBut(m, {t, left})
  BY <1>13, <1>14 DEF WholeBut
<1>16. QED
  BY <1>8, <1>15, SolvesAndCommit

-----------------------------------------------------------------------------
(* Views move *)

\* A session that accepts commands has a tab, and every client views one.
LEMMA CommandFacts ==
  ASSUME SessionInv, AcceptsCommands, NEW c \in DOMAIN clients
  PROVE  clients[c].active \in DOMAIN tabs
<1>1. /\ Session.tabs = tabs /\ Session.clients = clients /\ Session.lifecycle = lifecycle
  BY SessionParts
<1>2. DOMAIN tabs # {}
  BY <1>1 DEF SessionInv, WholeBut, Rooted, Lives, AcceptsCommands
<1>3. QED
  BY <1>1, <1>2 DEF SessionInv, WholeBut, Steady

\* A client brought to a tab and landed there leaves two tabs unsettled.
LEMMA VisitSteady ==
  ASSUME NEW s, NEW X, NEW T, NEW B, Steady(s, X, {}, T, B), NEW S,
         NEW t \in DOMAIN s.tabs, t \in B, t \notin T,
         \A c \in S \cap DOMAIN s.clients : s.clients[c].active \in B
  PROVE  Reshaped(s, LandClients(ShowTab(s, S, t), S, t), X, {}, T, B)
<1>1. PICK q : q = ShowTab(s, S, t)
  OBVIOUS
<1>2. PICK D : D = {} \cup S
  OBVIOUS
<1>3. Reshaped(s, q, X, D, T, B) /\ \A c \in S \cap DOMAIN s.clients : q.clients[c].active = t
  <2>1. /\ Reshaped(s, ShowTab(s, S, t), X, {} \cup S, T, B)
        /\ \A c \in S \cap DOMAIN s.clients : ShowTab(s, S, t).clients[c].active = t
    BY ShowSteady, Zenon
  <2>2. QED
    BY <1>1, <1>2, <2>1
<1>4. /\ Steady(q, X, D, T, B) /\ t \in DOMAIN q.tabs
      /\ \A d \in S \cap DOMAIN q.clients : q.clients[d].active = t
  BY <1>3 DEF OnlyClients, Reshaped
<1>5. Reshaped(q, LandClients(q, S, t), X, D \ S, T, B)
  BY <1>4, LandSteady
<1>6. D \ S = {}
  BY <1>2
<1>7. QED
  BY <1>1, <1>3, <1>5, <1>6 DEF OnlyClients, Reshaped

\* FocusTab: both tabs are solved again.
LEMMA FocusTabKeeps ==
  ASSUME SessionInv, NEW c, NEW t, NEW g \in Geometries, FocusTab(c, t, g)
  PROVE  SessionInv'
<1>1. PICK s : s = Session
  OBVIOUS
<1>2. PICK left : left = s.clients[c].active
  OBVIOUS
<1>3. PICK m : m = LandClients(ShowTab(s, {c}, t), {c}, t)
  OBVIOUS
<1>4. PICK B : B = {t, left}
  OBVIOUS
<1>5. /\ WholeBut(s, {}) /\ t \in DOMAIN s.tabs /\ c \in DOMAIN s.clients
      /\ Commit(UpdateTabSolves(UpdateTabSolves(m, t, left, g), t, left, g))
  BY <1>1, <1>2, <1>3, SessionParts DEF SessionInv, FocusTab
<1>6. Steady(s, {}, {}, {}, B)
  BY <1>5, SteadyMore DEF WholeBut
<1>7. t \in B /\ t \notin {} /\ \A d \in {c} \cap DOMAIN s.clients : s.clients[d].active \in B
  BY <1>2, <1>4
<1>8. Steady(m, {}, {}, {}, B) /\ OnlyClients(s, m)
  <2>1. Reshaped(s, LandClients(ShowTab(s, {c}, t), {c}, t), {}, {}, {}, B)
    BY <1>5, <1>6, <1>7, VisitSteady
  <2>2. QED
    BY <1>3, <2>1 DEF Reshaped
<1>9. WholeBut(m, {t, left})
  BY <1>4, <1>5, <1>8 DEF WholeBut, Rooted, Lives, OnlyClients
<1>10. PICK q : q = UpdateTabSolves(m, t, left, g)
  OBVIOUS
<1>11. WholeBut(q, {t, left})
  <2>1. WholeBut(q, {t, left} \ {t, left})
    BY <1>9, <1>10, SolvesWhole
  <2>2. QED
    BY <2>1, SteadyMore DEF WholeBut
<1>12. QED
  BY <1>5, <1>10, <1>11, SolvesAndCommit

\* FocusPane: a pane the view can show, so the tab stays settled or is solved.
LEMMA FocusPaneKeeps ==
  ASSUME SessionInv, NEW c, NEW p, NEW g \in Geometries, FocusPane(c, p, g)
  PROVE  SessionInv'
<1>1. PICK s : s = Session
  OBVIOUS
<1>2. PICK t : t = s.clients[c].active
  OBVIOUS
<1>3. PICK zoomed : zoomed = s.clients[c].zoom[t]
  OBVIOUS
<1>4. PICK r : r = FocusTiled(s, c, t, p)
  OBVIOUS
<1>5. /\ WholeBut(s, {}) /\ t \in DOMAIN s.tabs /\ t \in Tabs /\ c \in DOMAIN s.clients /\ SessionShape(s)
  BY <1>1, <1>2, SessionParts, CommandFacts DEF SessionInv, FocusPane, WholeBut, Steady, SessionShape
<1>6. /\ p \in Leaves(s, t)
      /\ zoomed = NoPane => p \notin s.tabs[t].hidden
      /\ Commit(IF zoomed \in {NoPane, p} THEN r ELSE UpdateTabSolve(r, t, g))
  BY <1>1, <1>2, <1>3, <1>4, SessionParts DEF FocusPane
<1>7. Steady(s, {}, {}, {}, {t}) /\ t \in {t}
  BY <1>5, SteadyMore DEF WholeBut
<1>8. Steady(r, {}, {}, {}, {t}) /\ OnlyClients(s, r)
  <2>1. Reshaped(s, FocusTiled(s, c, t, p), {}, {}, {}, {t})
    <3>1. t \in DOMAIN s.tabs /\ p \in Leaves(s, t)
      BY <1>5, <1>6
    <3>2. QED
      BY <1>7, <3>1, FocusSteady
  <2>2. QED
    BY <1>4, <2>1 DEF Reshaped
<1>9. WholeBut(r, {t})
  BY <1>5, <1>8 DEF WholeBut, Rooted, Lives, OnlyClients
<1>10. CASE zoomed \notin {NoPane, p}
  BY <1>6, <1>9, <1>10, SolveAndCommit
<1>11. CASE zoomed \in {NoPane, p}
  <2>1. Commit(r)
    BY <1>6, <1>11
  <2>2. \A d \in DOMAIN s.clients : r.clients[d] =
             IF d = c THEN UpdateFocusedPane(s.clients[d], t, p) ELSE s.clients[d]
    BY <1>4, <1>5, FocusShape
  <2>3. p \in Panes /\ NoPane \notin Panes /\ p \in LeavesIn(s.tabs, t)
    BY <1>5, <1>6, RangeFacts, SessionConstants DEF WholeBut, Steady, TabOK, Tab, Leaves, LeavesIn
  <2>4. Settled(s, t)
    BY <1>5 DEF WholeBut, Steady
  <2>5. ASSUME NEW d \in DOMAIN s.clients
        PROVE  /\ r.clients[d].active = s.clients[d].active /\ r.clients[d].area = s.clients[d].area
               /\ d # c => r.clients[d] = s.clients[d]
               /\ d = c => /\ HeadOf(r.clients[d].hist[t]) = p
                           /\ r.clients[d].zoom[t] = (IF zoomed = NoPane THEN NoPane ELSE p)
    <3>1. CASE d # c
      BY <2>2, <3>1
    <3>2. CASE d = c
      <4>1. PICK k, m : k = s.clients[d] /\ m = r.clients[d]
        OBVIOUS
      <4>2. Fits(k, s.tabs, {}) /\ m = UpdateFocusedPane(k, t, p)
        BY <1>5, <2>2, <3>2, <4>1 DEF WholeBut, Steady
      <4>3. /\ m.active = k.active /\ m.area = k.area /\ HeadOf(m.hist[t]) = p
            /\ m.zoom[t] = (IF k.zoom[t] = NoPane THEN NoPane ELSE p)
        BY <1>5, <2>3, <4>2, FocusRecord
      <4>4. QED
        BY <1>3, <3>2, <4>1, <4>3
    <3>3. QED
      BY <3>1, <3>2
  <2>6. Viewers(r, t) = Viewers(s, t)
    BY <1>8, <2>5 DEF Viewers, OnlyClients
  <2>7. {r.clients[d].area : d \in Viewers(r, t)} = {s.clients[d].area : d \in Viewers(s, t)}
    BY <2>5, <2>6 DEF Viewers
  <2>8. GetTabSize(r, t) = GetTabSize(s, t)
    BY <2>7 DEF GetTabSize
  <2>9. r.tabs[t].size = ResolveTabSolveSize(r, t)
    BY <1>8, <2>4, <2>6, <2>8 DEF ResolveTabSolveSize, Settled, OnlyClients
  <2>10. ASSUME NEW d \in Viewers(r, t) PROVE FocusOK(r.clients[d], r.tabs[t], t)
    <3>1. d \in DOMAIN s.clients /\ FocusOK(s.clients[d], s.tabs[t], t) /\ r.tabs = s.tabs
      BY <1>8, <2>4, <2>6 DEF Settled, Viewers, OnlyClients
    <3>2. QED
      BY <1>6, <2>3, <2>5, <3>1 DEF FocusOK
  <2>11. Settled(r, t)
    BY <2>9, <2>10 DEF Settled
  <2>12. WholeBut(r, {})
    BY <1>9, <2>11 DEF WholeBut, Steady
  <2>13. QED
    BY <2>1, <2>12, CommitWhole
<1>12. QED
  BY <1>10, <1>11

\* The tab a pane with a record is looked up in holds it.
LEMMA PaneHome ==
  ASSUME NEW s, NEW B, WholeBut(s, B), NEW p \in s.panes
  PROVE  TabOf(s, p) \in DOMAIN s.tabs /\ p \in Leaves(s, TabOf(s, p))
<1>1. \E t \in DOMAIN s.tabs : p \in Leaves(s, t)
  BY DEF WholeBut, Rooted, Planted, Leaves
<1>2. QED
  BY <1>1 DEF TabOf

\* ToggleFullscreen: entering focuses the pane, leaving gives back a tiled view
\* that the solve then repairs.
LEMMA ToggleFullscreenKeeps ==
  ASSUME SessionInv, NEW c, NEW p, NEW g \in Geometries, ToggleFullscreen(c, p, g)
  PROVE  SessionInv'
<1>1. PICK s : s = Session
  OBVIOUS
<1>2. PICK t : t = TabOf(s, p)
  OBVIOUS
<1>3. PICK r : r = IF s.clients[c].zoom[t] = NoPane
                   THEN FocusTiled(EnterZoom(s, c, t, p), c, t, p) ELSE LeaveZoom(s, {c}, t)
  OBVIOUS
<1>4. /\ WholeBut(s, {}) /\ p \in s.panes /\ c \in DOMAIN s.clients /\ SessionShape(s)
      /\ Commit(UpdateTabSolve(r, t, g))
  BY <1>1, <1>2, <1>3, SessionParts DEF SessionInv, ToggleFullscreen, WholeBut, Steady
<1>5. t \in DOMAIN s.tabs /\ p \in Leaves(s, t)
  BY <1>2, <1>4, PaneHome
<1>6. p \in Panes /\ t \in Tabs /\ p \in LeavesIn(s.tabs, t) /\ NoPane \notin Panes
  BY <1>4, <1>5, SessionConstants DEF SessionShape, Leaves, LeavesIn
<1>7. Steady(s, {}, {}, {}, {t}) /\ t \in {t}
  BY <1>4, SteadyMore DEF WholeBut
<1>8. Steady(r, {}, {}, {}, {t}) /\ OnlyClients(s, r)
  <2>1. CASE s.clients[c].zoom[t] # NoPane
    <3>1. r = LeaveZoom(s, {c}, t)
      BY <1>3, <2>1
    <3>2. QED
      BY <1>6, <1>7, <3>1, LeaveZoomSteady DEF Reshaped
  <2>2. CASE s.clients[c].zoom[t] = NoPane
    <3>1. PICK q : q = EnterZoom(s, c, t, p)
      OBVIOUS
    <3>2. /\ OnlyClients(s, q)
          /\ \A d \in DOMAIN s.clients : q.clients[d] =
                 IF d = c THEN ZoomPane(s.clients[d], t, p) ELSE s.clients[d]
      BY <1>4, <3>1, EnterZoomShape
    <3>3. SessionShape(q) /\ r = FocusTiled(q, c, t, p)
      BY <1>3, <1>4, <2>2, <3>1, <3>2 DEF SessionShape, OnlyClients
    <3>4. /\ OnlyClients(q, r)
          /\ \A d \in DOMAIN q.clients : r.clients[d] =
                 IF d = c THEN UpdateFocusedPane(q.clients[d], t, p) ELSE q.clients[d]
      BY <3>3, FocusShape
    <3>5. OnlyClients(s, r)
      BY <3>2, <3>4 DEF OnlyClients
    <3>6. ASSUME NEW d \in DOMAIN s.clients
          PROVE  Recast(s.clients[d], r.clients[d], s.tabs, {}, d \in {}, {t})
      <4>1. Fits(s.clients[d], s.tabs, {}) /\ Landed(s.clients[d], s.tabs)
        BY <1>7 DEF Steady
      <4>2. CASE d # c
        BY <3>2, <3>4, <4>1, <4>2 DEF Recast, SameView, OnlyClients
      <4>3. CASE d = c
        <5>1. PICK k, n, m : k = s.clients[d] /\ n = UpdateFocusedPane(k, t, p) /\ m = r.clients[d]
          OBVIOUS
        <5>2. /\ Fits(n, s.tabs, {}) /\ n.active = k.active /\ n.area = k.area /\ n.own = <<>>
              /\ n.hist[t] # <<>> /\ HeadOf(n.hist[t]) = p
              /\ \A v \in Tabs \ {t} : n.hist[v] = k.hist[v] /\ n.zoom[v] = k.zoom[v]
          BY <1>6, <4>1, <5>1, FocusRecord
        <5>3. m = UpdateFocusedPane(ZoomPane(k, t, p), t, p)
          BY <3>2, <3>4, <4>3, <5>1 DEF OnlyClients
        <5>4. k \in Client /\ n \in Client
          BY <4>1, <5>1, <5>2 DEF Fits
        <5>5. /\ m \in Client /\ m.active = k.active /\ m.area = k.area /\ m.own = <<>>
              /\ m.hist[t] = n.hist[t] /\ m.zoom[t] = p
              /\ \A v \in Tabs \ {t} : m.hist[v] = k.hist[v] /\ m.zoom[v] = k.zoom[v]
          <6>1. PICK z : z = ZoomPane(k, t, p)
            OBVIOUS
          <6>2. /\ z \in Client /\ z.active = k.active /\ z.area = k.area /\ z.hist = k.hist
                /\ z.zoom[t] = p /\ \A v \in Tabs \ {t} : z.zoom[v] = k.zoom[v]
            BY <1>6, <5>4, <6>1 DEF ZoomPane, Client
          <6>3. PICK h : h = <<p>> \o Without(k.hist[t], p)
            OBVIOUS
          <6>4. k.hist[t] \in Seq(Panes)
            BY <1>6, <5>4 DEF Client
          <6>5. h \in Seq(Panes)
            BY <1>6, <6>3, <6>4, PrependFacts
          <6>6. n.hist[t] = h
            BY <1>6, <5>1, <5>4, <6>3, ZenonT(60) DEF UpdateFocusedPane, Client
          <6>7. m = [z EXCEPT !.zoom[t] = p, !.hist[t] = h, !.own = <<>>]
            <7>1. m = UpdateFocusedPane(z, t, p) /\ z.zoom[t] # NoPane
              BY <1>6, <5>3, <6>1, <6>2
            <7>2. z.hist[t] = k.hist[t]
              BY <6>2
            <7>3. QED
              BY <6>3, <7>1, <7>2 DEF UpdateFocusedPane
          <6>8. QED
            BY <1>6, <6>2, <6>5, <6>6, <6>7 DEF Client
        <5>6. ViewOK(m.hist[t], m.zoom[t], LeavesIn(s.tabs, t) \cup Stale({}, t))
          BY <1>6, <5>2, <5>5 DEF Fits, ViewOK
        <5>7. Fits(m, s.tabs, {})
          <6>1. PICK X : X = {}
            OBVIOUS
          <6>2. /\ Fits(k, s.tabs, X) /\ m \in Client /\ m.own = <<>>
                /\ \A v \in Tabs \ {t} : m.hist[v] = k.hist[v] /\ m.zoom[v] = k.zoom[v]
                /\ \A v \in Tabs \ {t} : Stale(X, v) \subseteq Stale(X, v)
                /\ ViewOK(m.hist[t], m.zoom[t], LeavesIn(s.tabs, t) \cup Stale(X, t))
            BY <4>1, <5>1, <5>5, <5>6, <6>1
          <6>3. Fits(m, s.tabs, X)
            BY <6>2, RefitTab, ZenonT(60)
          <6>4. QED
            BY <6>1, <6>3
        <5>8. k.active \in Tabs
          BY <5>4 DEF Client
        <5>9. SameView(k, m, {t}) /\ Landed(m, s.tabs)
          BY <4>1, <5>1, <5>2, <5>5, <5>8 DEF SameView, Landed
        <5>10. QED
          BY <5>1, <5>5, <5>7, <5>9 DEF Recast
      <4>4. QED
        BY <4>2, <4>3
    <3>7. Steady(r, {}, {}, {}, {t})
      BY <1>7, <3>5, <3>6, RecordsSteady
    <3>8. QED
      BY <3>5, <3>7
  <2>3. QED
    BY <2>1, <2>2
<1>9. WholeBut(r, {t})
  BY <1>4, <1>8 DEF WholeBut, Rooted, Lives, OnlyClients
<1>10. QED
  BY <1>4, <1>9, SolveAndCommit

-----------------------------------------------------------------------------
(* Positions *)

\* Distinct numbers below n, n of them, are all of 0 .. n - 1.
LEMMA FillsInterval ==
  ASSUME NEW S, IsFiniteSet(S), NEW f \in [S -> 0 .. (Cardinality(S) - 1)],
         \A v, w \in S : f[v] = f[w] => v = w
  PROVE  {f[v] : v \in S} = 0 .. (Cardinality(S) - 1)
<1>1. PICK n : n = Cardinality(S)
  OBVIOUS
<1>2. PICK I : I = 0 .. (n - 1)
  OBVIOUS
<1>3. n \in Nat
  BY <1>1, FS_CardinalityType
<1>4. IsFiniteSet(I) /\ Cardinality(I) = n
  <2>1. 0 \in Int /\ n - 1 \in Int
    BY <1>3
  <2>2. IsFiniteSet(0 .. (n - 1)) /\ Cardinality(0 .. (n - 1)) = IF 0 > n - 1 THEN 0 ELSE (n - 1) - 0 + 1
    BY <2>1, FS_Interval
  <2>3. (IF 0 > n - 1 THEN 0 ELSE (n - 1) - 0 + 1) = n
    BY <1>3
  <2>4. QED
    BY <1>2, <2>2, <2>3
<1>5. f \in Injection(S, I)
  BY <1>1, <1>2 DEF Injection, IsInjective
<1>6. f \in Surjection(S, I)
  BY <1>1, <1>4, <1>5, FS_Injection
<1>7. QED
  BY <1>1, <1>2, <1>6 DEF Surjection

\* A member with a larger number has a larger rank.
LEMMA RanksRise ==
  ASSUME NEW S, IsFiniteSet(S), NEW f \in [S -> Nat], NEW v \in S, NEW w \in S, f[v] < f[w]
  PROVE  Cardinality({u \in S : f[u] < f[v]}) < Cardinality({u \in S : f[u] < f[w]})
<1> DEFINE V == {u \in S : f[u] < f[v]}  W == {u \in S : f[u] < f[w]}
<1>1. IsFiniteSet(W) /\ Cardinality(W) \in Nat
  BY FS_Subset, FS_CardinalityType
<1>2. V \in SUBSET W
  OBVIOUS
<1>3. v \in W /\ v \notin V
  OBVIOUS
<1> HIDE DEF V, W
<1>4. IsFiniteSet(V) /\ Cardinality(V) <= Cardinality(W) /\ (Cardinality(W) = Cardinality(V) => W = V)
  BY <1>1, <1>2, FS_Subset
<1>5. Cardinality(V) \in Nat /\ W # V
  BY <1>3, <1>4, FS_CardinalityType
<1>6. Cardinality(V) < Cardinality(W)
  BY <1>1, <1>4, <1>5
<1>7. QED
  BY <1>6 DEF V, W

\* A rank is below the number of members.
LEMMA RankBounded ==
  ASSUME NEW S, IsFiniteSet(S), NEW f \in [S -> Nat], NEW v \in S
  PROVE  Cardinality({u \in S : f[u] < f[v]}) \in 0 .. (Cardinality(S) - 1)
<1> DEFINE V == {u \in S : f[u] < f[v]}
<1>1. V \in SUBSET S /\ v \notin V
  OBVIOUS
<1> HIDE DEF V
<1>2. IsFiniteSet(V) /\ Cardinality(V) <= Cardinality(S) /\ (Cardinality(S) = Cardinality(V) => S = V)
  BY <1>1, FS_Subset
<1>3. Cardinality(V) \in Nat /\ Cardinality(S) \in Nat /\ S # V
  BY <1>1, <1>2, FS_CardinalityType
<1>4. Cardinality(V) \in 0 .. (Cardinality(S) - 1)
  BY <1>2, <1>3
<1>5. QED
  BY <1>4 DEF V

\* Distinct numbers give distinct ranks.
LEMMA RanksDiffer ==
  ASSUME NEW S, IsFiniteSet(S), NEW f \in [S -> Nat], NEW v \in S, NEW w \in S,
         \A x, y \in S : f[x] = f[y] => x = y,
         Cardinality({u \in S : f[u] < f[v]}) = Cardinality({u \in S : f[u] < f[w]})
  PROVE  v = w
<1> DEFINE V == {u \in S : f[u] < f[v]}  W == {u \in S : f[u] < f[w]}
<1>1. Cardinality(V) \in 0 .. (Cardinality(S) - 1) /\ Cardinality(W) \in 0 .. (Cardinality(S) - 1)
  BY RankBounded
<1>2. f[v] < f[w] => Cardinality(V) < Cardinality(W)
  BY RanksRise
<1>3. f[w] < f[v] => Cardinality(W) < Cardinality(V)
  BY RanksRise
<1> HIDE DEF V, W
<1>4. Cardinality(V) = Cardinality(W)
  BY DEF V, W
<1>5. ~(f[v] < f[w]) /\ ~(f[w] < f[v])
  BY <1>1, <1>2, <1>3, <1>4
<1>6. f[v] = f[w]
  BY <1>5
<1>7. QED
  BY <1>6

\* New positions change nothing else.
LEMMA RenumberedSteady ==
  ASSUME NEW s, NEW r, NEW X, NEW D, NEW T, NEW B, Steady(s, X, D, T, B),
         DOMAIN r = DOMAIN s, r.panes = s.panes, r.clients = s.clients,
         DOMAIN r.tabs = DOMAIN s.tabs,
         \A v \in DOMAIN s.tabs : r.tabs[v] \in Tab /\ SameSolve(s.tabs[v], r.tabs[v])
  PROVE  Steady(r, X, D, T, B)
<1>1. SessionShape(r)
  BY DEF Steady, SessionShape
<1>2. \A v \in DOMAIN r.tabs : TabOK(r.tabs[v], r.panes, v \in T)
  BY DEF Steady, SameSolve, TabOK
<1>3. \A v : LeavesIn(r.tabs, v) = LeavesIn(s.tabs, v)
  BY DEF LeavesIn, SameSolve
<1>4. ASSUME NEW c \in DOMAIN r.clients
      PROVE  /\ Fits(r.clients[c], r.tabs, X) /\ (c \in D \/ Landed(r.clients[c], r.tabs))
             /\ r.clients[c].active \in DOMAIN r.tabs \/ DOMAIN r.tabs = {}
  <2>1. PICK k : k = s.clients[c]
    OBVIOUS
  <2>2. /\ Fits(k, s.tabs, X) /\ (c \in D \/ Landed(k, s.tabs))
        /\ k.active \in DOMAIN s.tabs \/ DOMAIN s.tabs = {}
    BY <2>1 DEF Steady
  <2>3. k.active \in DOMAIN s.tabs => OwnSolve(k, r.tabs) = OwnSolve(k, s.tabs)
    BY DEF OwnSolve, SameSolve
  <2>4. Fits(k, r.tabs, X)
    BY <1>3, <2>2, <2>3 DEF Fits
  <2>5. Landed(k, s.tabs) => Landed(k, r.tabs)
    BY DEF Landed
  <2>6. QED
    BY <2>1, <2>2, <2>4, <2>5
<1>5. ASSUME NEW v \in DOMAIN r.tabs \ B PROVE Settled(r, v)
  <2>1. \A c \in DOMAIN s.clients \cup DOMAIN r.clients : Aside(s, r, c, B)
    BY DEF Aside, SameView
  <2>2. v \in DOMAIN s.tabs /\ Settled(s, v) /\ SameSolve(s.tabs[v], r.tabs[v])
    BY DEF Steady
  <2>3. QED
    BY <2>1, <2>2, SettledKept
<1>6. QED
  BY <1>1, <1>2, <1>4, <1>5 DEF Steady

\* reindex_tabs changes positions only.
LEMMA ReindexSteady ==
  ASSUME NEW s, NEW X, NEW D, NEW T, NEW B, Steady(s, X, D, T, B)
  PROVE  Steady(ReindexTabs(s), X, D, T, B)
<1>1. PICK r : r = ReindexTabs(s)
  OBVIOUS
<1> DEFINE R(v) == Cardinality({u \in DOMAIN s.tabs : s.tabs[u].index < s.tabs[v].index})
<1>2. SessionShape(s) /\ \A v \in DOMAIN s.tabs : s.tabs[v] \in Tab
  BY DEF Steady, TabOK
<1>3. /\ DOMAIN r = DOMAIN s /\ r.panes = s.panes /\ r.clients = s.clients
      /\ DOMAIN r.tabs = DOMAIN s.tabs
      /\ \A v \in DOMAIN s.tabs : r.tabs[v] = [s.tabs[v] EXCEPT !.index = R(v)]
  BY <1>1, <1>2 DEF ReindexTabs, SessionShape
<1>4. ASSUME NEW v \in DOMAIN s.tabs PROVE R(v) \in Nat
  <2>1. IsFiniteSet(DOMAIN s.tabs)
    BY <1>2, SessionConstants, FS_Subset DEF SessionShape
  <2>2. {u \in DOMAIN s.tabs : s.tabs[u].index < s.tabs[v].index} \in SUBSET DOMAIN s.tabs
    OBVIOUS
  <2>3. QED
    BY <2>1, <2>2, FS_Subset, FS_CardinalityType
<1> HIDE DEF R
<1>5. \A v \in DOMAIN s.tabs : r.tabs[v] \in Tab /\ SameSolve(s.tabs[v], r.tabs[v])
  BY <1>2, <1>3, <1>4 DEF Tab, SameSolve
<1>6. Steady(r, X, D, T, B)
  BY <1>3, <1>5, RenumberedSteady
<1>7. QED
  BY <1>1, <1>6

\* reindex_tabs numbers the tabs 0 .. n - 1.
LEMMA ReindexDense ==
  ASSUME NEW s, DOMAIN s.tabs \in SUBSET Tabs, \A v \in DOMAIN s.tabs : s.tabs[v] \in Tab,
         \A v, w \in DOMAIN s.tabs : s.tabs[v].index = s.tabs[w].index => v = w,
         DOMAIN s = {"tabs", "panes", "clients", "lifecycle"}
  PROVE  Dense(ReindexTabs(s).tabs)
<1>1. PICK r : r = ReindexTabs(s)
  OBVIOUS
<1>2. PICK S : S = DOMAIN s.tabs
  OBVIOUS
<1>3. PICK f : f = [v \in S |-> s.tabs[v].index]
  OBVIOUS
<1>4. IsFiniteSet(S)
  BY <1>2, SessionConstants, FS_Subset
<1>5. /\ f \in [S -> Nat] /\ \A v, w \in S : f[v] = f[w] => v = w
  BY <1>2, <1>3 DEF Tab
<1>6. PICK h : h = [v \in S |-> Cardinality({u \in S : f[u] < f[v]})]
  OBVIOUS
<1>7. \A v \in S : {u \in S : s.tabs[u].index < s.tabs[v].index} = {u \in S : f[u] < f[v]}
  BY <1>2, <1>3
<1>8. DOMAIN r.tabs = S /\ \A v \in S : r.tabs[v].index = h[v]
  <2>1. DOMAIN r.tabs = S
    BY <1>1, <1>2 DEF ReindexTabs
  <2>2. \A v \in S : r.tabs[v].index = Cardinality({u \in S : s.tabs[u].index < s.tabs[v].index})
    BY <1>1, <1>2 DEF ReindexTabs, Tab
  <2>3. QED
    BY <1>6, <1>7, <2>1, <2>2
<1>9. h \in [S -> 0 .. (Cardinality(S) - 1)]
  BY <1>4, <1>5, <1>6, RankBounded
<1>10. \A v, w \in S : h[v] = h[w] => v = w
  BY <1>4, <1>5, <1>6, RanksDiffer
<1>11. {h[v] : v \in S} = 0 .. (Cardinality(S) - 1)
  BY <1>4, <1>9, <1>10, FillsInterval
<1>12. {r.tabs[v].index : v \in S} = {h[v] : v \in S}
  BY <1>8
<1>13. QED
  BY <1>1, <1>8, <1>10, <1>11, <1>12 DEF Dense

\* The positions move_tab gives to the tabs of S, numbered by f.
IsMoved(h, S, f, t, index) ==
  h = [u \in S |->
         IF u = t THEN index
         ELSE IF Cardinality({v \in S \ {t} : f[v] < f[u]}) >= index
              THEN Cardinality({v \in S \ {t} : f[v] < f[u]}) + 1
              ELSE Cardinality({v \in S \ {t} : f[v] < f[u]})]

\* They are dense again.
LEMMA MovedPositions ==
  ASSUME NEW S, IsFiniteSet(S), NEW f \in [S -> Nat], \A x, y \in S : f[x] = f[y] => x = y,
         NEW t \in S, NEW index \in Nat, index < Cardinality(S), NEW h, IsMoved(h, S, f, t, index)
  PROVE  /\ h \in [S -> 0 .. (Cardinality(S) - 1)]
         /\ \A v, w \in S : h[v] = h[w] => v = w
         /\ {h[v] : v \in S} = 0 .. (Cardinality(S) - 1)
<1>1. PICK O : O = S \ {t}
  OBVIOUS
<1>2. PICK e : e = [v \in O |-> f[v]]
  OBVIOUS
<1>3. IsFiniteSet(O) /\ Cardinality(O) = Cardinality(S) - 1 /\ Cardinality(S) \in Nat
  BY <1>1, FS_RemoveElement, FS_CardinalityType
<1>4. e \in [O -> Nat] /\ \A x, y \in O : e[x] = e[y] => x = y
  BY <1>1, <1>2
<1>5. PICK pos : pos = [u \in O |-> Cardinality({v \in O : e[v] < e[u]})]
  OBVIOUS
<1>6. \A u \in O : pos[u] \in 0 .. (Cardinality(O) - 1)
  BY <1>3, <1>4, <1>5, RankBounded
<1>7. \A u, w \in O : pos[u] = pos[w] => u = w
  BY <1>3, <1>4, <1>5, RanksDiffer
<1>8. \A u \in O : {v \in S \ {t} : f[v] < f[u]} = {v \in O : e[v] < e[u]}
  BY <1>1, <1>2
<1>9. \A u \in O : h[u] = IF pos[u] >= index THEN pos[u] + 1 ELSE pos[u]
  BY <1>1, <1>5, <1>8 DEF IsMoved
<1>10. h[t] = index /\ h = [u \in S |-> h[u]]
  BY DEF IsMoved
<1>11. \A u \in O : h[u] \in 0 .. (Cardinality(S) - 1) /\ h[u] # index
  BY <1>3, <1>6, <1>9
<1>12. h \in [S -> 0 .. (Cardinality(S) - 1)]
  <2>1. \A u \in S : h[u] \in 0 .. (Cardinality(S) - 1)
    BY <1>1, <1>3, <1>10, <1>11
  <2>2. QED
    BY <1>10, <2>1
<1>13. ASSUME NEW v \in S, NEW w \in S, h[v] = h[w] PROVE v = w
  <2>1. CASE v = t \/ w = t
    BY <1>1, <1>10, <1>11, <1>13, <2>1
  <2>2. CASE v # t /\ w # t
    <3>1. v \in O /\ w \in O
      BY <1>1, <2>2
    <3>2. pos[v] \in Int /\ pos[w] \in Int
      BY <1>6, <3>1
    <3>3. pos[v] = pos[w]
      BY <1>9, <1>13, <3>1, <3>2
    <3>4. QED
      BY <1>7, <3>1, <3>3
  <2>3. QED
    BY <2>1, <2>2
<1>14. {h[v] : v \in S} = 0 .. (Cardinality(S) - 1)
  BY <1>12, <1>13, FillsInterval
<1>15. QED
  BY <1>12, <1>13, <1>14

\* MoveTab: the new positions fill 0 .. n - 1 again.
LEMMA MoveTabKeeps ==
  ASSUME SessionInv, NEW t, NEW index \in Nat, MoveTab(t, index)
  PROVE  SessionInv'
<1>1. PICK s : s = Session
  OBVIOUS
<1>2. PICK S : S = DOMAIN s.tabs
  OBVIOUS
<1>3. PICK f : f = [v \in S |-> s.tabs[v].index]
  OBVIOUS
<1>4. \E h : IsMoved(h, S, f, t, index)
  BY DEF IsMoved
<1>40. PICK h : IsMoved(h, S, f, t, index)
  BY <1>4
<1>5. PICK r : r = [s EXCEPT !.tabs = [u \in S |-> [s.tabs[u] EXCEPT !.index = h[u]]]]
  OBVIOUS
<1>6. /\ WholeBut(s, {}) /\ SessionShape(s) /\ \A v \in S : s.tabs[v] \in Tab
      /\ t \in S /\ index < Cardinality(S) /\ s.tabs = tabs
  BY <1>1, <1>2, SessionParts DEF SessionInv, WholeBut, Steady, MoveTab, TabOK
<1>7. Commit(r)
  <2>1. \A u \in S : {v \in DOMAIN tabs \ {t} : tabs[v].index < tabs[u].index}
                       = {v \in S \ {t} : f[v] < f[u]}
    BY <1>2, <1>3, <1>6
  <2>2. PICK k : k = [u \in DOMAIN tabs |-> [tabs[u] EXCEPT !.index =
                  IF u = t THEN index
                  ELSE IF Cardinality({v \in DOMAIN tabs \ {t} : tabs[v].index < tabs[u].index}) >= index
                     THEN Cardinality({v \in DOMAIN tabs \ {t} : tabs[v].index < tabs[u].index}) + 1
                     ELSE Cardinality({v \in DOMAIN tabs \ {t} : tabs[v].index < tabs[u].index})]]
    OBVIOUS
  <2>3. Commit([Session EXCEPT !.tabs = k])
    BY <2>2 DEF MoveTab
  <2>4. DOMAIN tabs = S
    BY <1>2, <1>6
  <2>5. k = [u \in S |-> [s.tabs[u] EXCEPT !.index = h[u]]]
    BY <1>40, <1>6, <2>1, <2>2, <2>4 DEF IsMoved
  <2>6. QED
    BY <1>1, <1>5, <2>3, <2>5
<1>8. IsFiniteSet(S) /\ f \in [S -> Nat] /\ \A x, y \in S : f[x] = f[y] => x = y
  <2>1. IsFiniteSet(S)
    BY <1>2, <1>6, SessionConstants, FS_Subset DEF SessionShape
  <2>2. \A x, y \in S : s.tabs[x].index = s.tabs[y].index => x = y
    BY <1>2, <1>6 DEF WholeBut, Rooted, Dense
  <2>3. QED
    BY <1>3, <1>6, <2>1, <2>2 DEF Tab
<1>9. /\ h \in [S -> 0 .. (Cardinality(S) - 1)]
      /\ \A v, w \in S : h[v] = h[w] => v = w
      /\ {h[v] : v \in S} = 0 .. (Cardinality(S) - 1)
  BY <1>40, <1>6, <1>8, MovedPositions
<1>10. /\ DOMAIN r = DOMAIN s /\ r.panes = s.panes /\ r.clients = s.clients
       /\ r.lifecycle = s.lifecycle /\ DOMAIN r.tabs = S
       /\ \A v \in S : r.tabs[v] = [s.tabs[v] EXCEPT !.index = h[v]]
  BY <1>5, <1>6 DEF SessionShape
<1>11. ASSUME NEW v \in S
       PROVE  /\ r.tabs[v] \in Tab /\ SameSolve(s.tabs[v], r.tabs[v])
              /\ r.tabs[v].index = h[v] /\ r.tabs[v].leaves = s.tabs[v].leaves
  <2>1. PICK a, b, i : a = s.tabs[v] /\ b = r.tabs[v] /\ i = h[v]
    OBVIOUS
  <2>2. a \in Tab /\ i \in Nat /\ b = [a EXCEPT !.index = i]
    BY <1>6, <1>9, <1>10, <2>1
  <2>3. b \in Tab /\ SameSolve(a, b) /\ b.index = i /\ b.leaves = a.leaves
    BY <2>2 DEF Tab, SameSolve
  <2>4. QED
    BY <2>1, <2>3
<1>12. Steady(r, {}, {}, {}, {})
  BY <1>2, <1>6, <1>10, <1>11, RenumberedSteady DEF WholeBut
<1>13. Dense(r.tabs)
  <2>1. {r.tabs[v].index : v \in S} = {h[v] : v \in S}
    BY <1>11
  <2>2. QED
    BY <1>9, <1>10, <1>11, <2>1 DEF Dense
<1>14. Planted(r.tabs, r.panes) /\ Lives(r)
  BY <1>2, <1>6, <1>10, <1>11 DEF WholeBut, Rooted, Planted, Lives
<1>15. WholeBut(r, {})
  BY <1>12, <1>13, <1>14 DEF WholeBut, Rooted
<1>16. QED
  BY <1>7, <1>15, CommitWhole

-----------------------------------------------------------------------------
(* Placing a pane within its tab *)

\* The same panes in another order, or one more: the trees stay planted.
LEMMA ReplantOne ==
  ASSUME NEW s, NEW r, NEW t \in DOMAIN s.tabs, NEW leaves, Rooted(s),
         DOMAIN r.tabs = DOMAIN s.tabs, r.lifecycle = s.lifecycle, r.panes = s.panes,
         \A w \in DOMAIN s.tabs : r.tabs[w].index = s.tabs[w].index,
         \A w \in DOMAIN s.tabs \ {t} : r.tabs[w].leaves = s.tabs[w].leaves,
         r.tabs[t].leaves = leaves, Distinct(leaves), Range(leaves) = Leaves(s, t)
  PROVE  Rooted(r)
<1>1. \A w \in DOMAIN s.tabs : Range(r.tabs[w].leaves) = Range(s.tabs[w].leaves)
  BY DEF Leaves
<1>2. Dense(r.tabs)
  <2>1. {r.tabs[v].index : v \in DOMAIN r.tabs} = {s.tabs[v].index : v \in DOMAIN s.tabs}
    OBVIOUS
  <2>2. QED
    BY <2>1 DEF Rooted, Dense
<1>3. Planted(r.tabs, r.panes)
  BY <1>1 DEF Rooted, Planted
<1>4. QED
  BY <1>2, <1>3 DEF Rooted, Lives

\* PlacePaneWithinTab: the tab keeps its panes, in another order.
LEMMA PlaceWithinKeeps ==
  ASSUME SessionInv, AcceptsCommands, NEW c, NEW t \in DOMAIN tabs, NEW leaves \in Seq(Panes),
         Range(leaves) = Leaves(Session, t), Distinct(leaves), NEW g \in Geometries,
         PlacePaneWithinTab(c, t, leaves, g)
  PROVE  SessionInv'
<1>1. PICK s : s = Session
  OBVIOUS
<1>2. PICK q : q = LeaveZoom(s, {c}, t)
  OBVIOUS
<1>3. PICK r : r = UpdateTabLayout(q, t, leaves, g)
  OBVIOUS
<1>4. /\ WholeBut(s, {}) /\ SessionShape(s) /\ t \in DOMAIN s.tabs /\ t \in Tabs
      /\ Commit(UpdateTabSolve(r, t, g))
  BY <1>1, <1>2, <1>3, SessionParts DEF SessionInv, WholeBut, Steady, SessionShape, PlacePaneWithinTab
<1>5. Steady(s, {}, {}, {}, {t}) /\ t \in {t}
  BY <1>4, SteadyMore DEF WholeBut
<1>6. Reshaped(s, q, {}, {}, {}, {t})
  BY <1>2, <1>4, <1>5, LeaveZoomSteady
<1>7. /\ Steady(q, {}, {}, {}, {t}) /\ t \in DOMAIN q.tabs /\ q.tabs = s.tabs /\ q.panes = s.panes
      /\ q.lifecycle = s.lifecycle
  BY <1>4, <1>6 DEF Reshaped, OnlyClients
<1>8. leaves # <<>> /\ Range(leaves) \subseteq q.panes /\ Leaves(q, t) \subseteq Range(leaves) \cup Stale({}, t)
  <2>1. s.tabs[t].leaves \in Seq(Panes) /\ s.tabs[t].leaves # <<>> /\ Leaves(s, t) \subseteq s.panes
    BY <1>4 DEF WholeBut, Steady, TabOK, Tab, Leaves
  <2>2. Range(leaves) # {} /\ Range(leaves) = Leaves(s, t)
    BY <1>1, <2>1, RangeFacts DEF Leaves
  <2>3. leaves # <<>>
    BY <2>2, RangeFacts
  <2>4. QED
    BY <1>7, <2>1, <2>2, <2>3 DEF Leaves
<1>9. LaidOut(q, UpdateTabLayout(q, t, leaves, g), {}, {}, {}, {t}, t, leaves, q.tabs[t].size)
  <2>1. PICK X : X = {}
    OBVIOUS
  <2>2. /\ Steady(q, X, X, X, {t}) /\ X \subseteq X
        /\ Leaves(q, t) \subseteq Range(leaves) \cup Stale(X, t)
    BY <1>7, <1>8, <2>1
  <2>3. t \in DOMAIN q.tabs
    BY <1>7
  <2>4. LaidOut(q, UpdateTabLayout(q, t, leaves, g), X, X, X, {t}, t, leaves, q.tabs[t].size)
    BY <1>5, <1>8, <2>2, <2>3, LayoutSteady
  <2>5. QED
    BY <2>1, <2>4
<1>10. Steady(r, {}, {}, {}, {t}) /\ Touches(q, r, t) /\ r.tabs[t].leaves = leaves
  <2>1. {} \ {t} = {}
    OBVIOUS
  <2>2. QED
    BY <1>3, <1>9, <2>1 DEF LaidOut
<1>11. Rooted(r)
  <2>1. /\ DOMAIN r.tabs = DOMAIN s.tabs /\ r.lifecycle = s.lifecycle /\ r.panes = s.panes
        /\ \A w \in DOMAIN s.tabs : r.tabs[w].index = s.tabs[w].index
        /\ \A w \in DOMAIN s.tabs \ {t} : r.tabs[w].leaves = s.tabs[w].leaves
    BY <1>7, <1>10 DEF Touches
  <2>2. Range(leaves) = Leaves(s, t) /\ Rooted(s) /\ t \in DOMAIN s.tabs
    BY <1>1, <1>4 DEF WholeBut
  <2>3. QED
    BY <1>10, <2>1, <2>2, ReplantOne
<1>12. WholeBut(r, {t})
  BY <1>10, <1>11 DEF WholeBut
<1>13. QED
  BY <1>4, <1>12, SolveAndCommit

\* Two panes exchanged in a sequence of leaves.
LEMMA ExchangeFacts ==
  ASSUME NEW P, NEW leaves \in Seq(P), NEW p \in P, NEW q \in P, p # q, Distinct(leaves)
  PROVE  LET r == ExchangePanes(leaves, p, q)
         IN  /\ r \in Seq(P) /\ Distinct(r) /\ (r = <<>> <=> leaves = <<>>)
             /\ {p, q} \subseteq Range(leaves) => Range(r) = Range(leaves)
             /\ p \in Range(leaves) /\ q \notin Range(leaves) => Range(r) = (Range(leaves) \ {p}) \cup {q}
             /\ q \in Range(leaves) /\ p \notin Range(leaves) => Range(r) = (Range(leaves) \ {q}) \cup {p}
<1>1. PICK n, r : n = Len(leaves) /\ r = ExchangePanes(leaves, p, q)
  OBVIOUS
<1>2. n \in Nat /\ DOMAIN leaves = 1 .. n /\ \A i \in 1 .. n : leaves[i] \in P
  BY <1>1
<1>3. /\ r = [i \in 1 .. n |-> r[i]]
      /\ \A i \in 1 .. n : r[i] = IF leaves[i] = p THEN q ELSE IF leaves[i] = q THEN p ELSE leaves[i]
  BY <1>1, <1>2 DEF ExchangePanes
<1>4. r \in Seq(P) /\ Len(r) = n /\ DOMAIN r = 1 .. n
  <2>1. \A i \in 1 .. n : r[i] \in P
    BY <1>2, <1>3
  <2>2. r \in [1 .. n -> P]
    BY <1>3, <2>1
  <2>3. QED
    BY <1>2, <2>2
<1>5. Distinct(r)
  BY <1>2, <1>3, <1>4 DEF Distinct
<1>6. (r = <<>>) <=> (leaves = <<>>)
  BY <1>1, <1>4
<1>7. \A x : x \in Range(leaves) <=> \E i \in 1 .. n : leaves[i] = x
  BY <1>2 DEF Range
<1>8. \A x : x \in Range(r) <=> \E i \in 1 .. n : r[i] = x
  BY <1>4 DEF Range
<1>9. ASSUME NEW x PROVE x \in Range(r) <=> \/ x = q /\ p \in Range(leaves)
                                            \/ x = p /\ q \in Range(leaves)
                                            \/ x \notin {p, q} /\ x \in Range(leaves)
  BY <1>3, <1>7, <1>8
<1>10. QED
  BY <1>1, <1>4, <1>5, <1>6, <1>9

\* SwapPanes in one tab.
LEMMA SwapWithinKeeps ==
  ASSUME SessionInv, NEW c, NEW p, NEW q, NEW g \in Geometries, SwapPanes(c, p, q, g),
         TabOf(Session, p) = TabOf(Session, q)
  PROVE  SessionInv'
<1>1. PICK s : s = Session
  OBVIOUS
<1>2. PICK t : t = TabOf(s, p)
  OBVIOUS
<1>3. PICK leaves : leaves = ExchangePanes(s.tabs[t].leaves, p, q)
  OBVIOUS
<1>4. /\ WholeBut(s, {}) /\ SessionShape(s) /\ p \in s.panes /\ q \in s.panes /\ p # q /\ s.tabs = tabs
      /\ AcceptsCommands /\ PlacePaneWithinTab(c, t, leaves, g)
  BY <1>1, <1>2, <1>3, SessionParts DEF SessionInv, WholeBut, Steady, SwapPanes
<1>5. t \in DOMAIN s.tabs /\ p \in Leaves(s, t) /\ q \in Leaves(s, t)
  BY <1>1, <1>2, <1>4, PaneHome
<1>6. s.tabs[t].leaves \in Seq(Panes) /\ Distinct(s.tabs[t].leaves) /\ p \in Panes /\ q \in Panes
  BY <1>4, <1>5 DEF WholeBut, Steady, TabOK, Tab, Rooted, Planted, SessionShape
<1>7. leaves \in Seq(Panes) /\ Distinct(leaves) /\ Range(leaves) = Leaves(s, t)
  BY <1>3, <1>4, <1>5, <1>6, ExchangeFacts DEF Leaves
<1>8. QED
  BY <1>1, <1>4, <1>5, <1>7, PlaceWithinKeeps

\* InsertPane in one tab.
LEMMA InsertWithinKeeps ==
  ASSUME SessionInv, NEW c, NEW p, NEW at \in Nat \ {0}, NEW g \in Geometries, NEW u,
         InsertPane(c, p, u, at, g), TabOf(Session, p) = u
  PROVE  SessionInv'
<1>1. PICK s : s = Session
  OBVIOUS
<1>2. PICK t : t = TabOf(s, p)
  OBVIOUS
<1>3. PICK rest : rest = Without(s.tabs[t].leaves, p)
  OBVIOUS
<1>4. PICK leaves : leaves = InsertAt(rest, at, p)
  OBVIOUS
<1>5. /\ WholeBut(s, {}) /\ SessionShape(s) /\ p \in s.panes /\ s.tabs = tabs /\ at <= Len(rest) + 1
      /\ AcceptsCommands /\ PlacePaneWithinTab(c, t, leaves, g)
  BY <1>1, <1>2, <1>3, <1>4, SessionParts DEF SessionInv, WholeBut, Steady, InsertPane
<1>6. t \in DOMAIN s.tabs /\ p \in Leaves(s, t)
  BY <1>2, <1>5, PaneHome
<1>7. s.tabs[t].leaves \in Seq(Panes) /\ Distinct(s.tabs[t].leaves) /\ p \in Panes
  BY <1>5, <1>6 DEF WholeBut, Steady, TabOK, Tab, Rooted, Planted, SessionShape
<1>8. rest \in Seq(Panes) /\ Distinct(rest) /\ Range(rest) = Leaves(s, t) \ {p}
  BY <1>3, <1>7, WithoutFacts DEF Leaves
<1>9. at \in 1 .. Len(rest) + 1 /\ p \notin Range(rest)
  BY <1>5, <1>8
<1>10. leaves \in Seq(Panes) /\ Distinct(leaves) /\ Range(leaves) = Range(rest) \cup {p}
  BY <1>4, <1>7, <1>8, <1>9, InsertFacts
<1>11. Range(leaves) = Leaves(s, t)
  BY <1>6, <1>8, <1>10
<1>12. QED
  BY <1>1, <1>5, <1>6, <1>10, <1>11, PlaceWithinKeeps

\* NewTab: the tab comes last in the order, with its client on its one pane.
LEMMA NewTabKeeps ==
  ASSUME SessionInv, NEW c, NEW t \in Tabs, NEW p \in Panes, NEW g \in Geometries, NewTab(c, t, p, g)
  PROVE  SessionInv'
<1>1. PICK s : s = Session
  OBVIOUS
<1>2. PICK tab : tab = [leaves |-> <<p>>, index |-> Cardinality(DOMAIN s.tabs),
                        size |-> s.clients[c].area, hidden |-> {}]
  OBVIOUS
<1>3. PICK r : r = [s EXCEPT !.panes = @ \cup {p}, !.tabs = With(@, t, tab)]
  OBVIOUS
<1>4. PICK q : q = ShowTab(r, {c}, t)
  OBVIOUS
<1>5. PICK m : m = FocusTiled(q, c, t, p)
  OBVIOUS
<1>6. PICK left : left = s.clients[c].active
  OBVIOUS
<1>7. /\ WholeBut(s, {}) /\ SessionShape(s) /\ c \in DOMAIN s.clients /\ t \notin DOMAIN s.tabs
      /\ p \notin s.panes /\ s.clients[c].area >= 1 /\ left \in DOMAIN s.tabs
      /\ s.tabs = tabs /\ s.clients = clients /\ s.panes = panes
  BY <1>1, <1>6, SessionParts, CommandFacts DEF SessionInv, WholeBut, Steady, NewTab
<1>8. Commit(UpdateTabSolve(UpdateTabSolves(m, t, left, g), left, g))
  BY <1>1, <1>2, <1>3, <1>4, <1>5, <1>6, <1>7 DEF NewTab
<1>9. /\ DOMAIN r = DOMAIN s /\ r.panes = s.panes \cup {p} /\ r.clients = s.clients
      /\ r.lifecycle = s.lifecycle /\ DOMAIN r.tabs = DOMAIN s.tabs \cup {t} /\ r.tabs[t] = tab
      /\ \A v \in DOMAIN s.tabs : r.tabs[v] = s.tabs[v]
  BY <1>3, <1>7 DEF SessionShape, With
<1>10. IsFiniteSet(DOMAIN s.tabs) /\ Cardinality(DOMAIN s.tabs) \in Nat
  BY <1>7, SessionConstants, FS_Subset, FS_CardinalityType DEF SessionShape
<1>11. tab \in Tab /\ tab.leaves = <<p>> /\ tab.hidden = {} /\ tab.index = Cardinality(DOMAIN s.tabs)
  <2>1. <<p>> \in Seq(Panes)
    OBVIOUS
  <2>2. s.clients[c].area \in Areas
    BY <1>7 DEF WholeBut, Steady, Fits, Client
  <2>3. s.clients[c].area \in Sizes
    BY <1>7, <2>2 DEF Sizes, Starving
  <2>4. QED
    BY <1>2, <1>10, <2>1, <2>3 DEF Tab
<1>12. Range(tab.leaves) = {p} /\ tab.leaves # <<>> /\ Distinct(tab.leaves)
  BY <1>11 DEF Range, Distinct
<1>13. PICK B : B = {t, left}
  OBVIOUS
<1>14. PICK X : X = {}
  OBVIOUS
<1>15. Steady(s, X, X, X, B)
  BY <1>7, <1>14, SteadyMore DEF WholeBut
<1>16. Steady(r, X, X, X, B)
  <2>1. SessionShape(r)
    BY <1>7, <1>9 DEF SessionShape
  <2>2. \A v \in DOMAIN r.tabs : TabOK(r.tabs[v], r.panes, v \in X)
    <3>1. TabOK(tab, r.panes, t \in X)
      BY <1>9, <1>11, <1>12 DEF TabOK
    <3>2. \A v \in DOMAIN s.tabs : TabOK(s.tabs[v], r.panes, v \in X)
      BY <1>9, <1>15 DEF Steady, TabOK
    <3>3. QED
      BY <1>9, <3>1, <3>2
  <2>3. \A v : LeavesIn(s.tabs, v) \subseteq LeavesIn(r.tabs, v)
    BY <1>9 DEF LeavesIn
  <2>4. ASSUME NEW d \in DOMAIN r.clients
        PROVE  /\ Fits(r.clients[d], r.tabs, X) /\ (d \in X \/ Landed(r.clients[d], r.tabs))
               /\ r.clients[d].active \in DOMAIN r.tabs \/ DOMAIN r.tabs = {}
    <3>1. PICK k : k = s.clients[d]
      OBVIOUS
    <3>2. r.clients[d] = k /\ Fits(k, s.tabs, X) /\ Landed(k, s.tabs) /\ k.active \in DOMAIN s.tabs
      BY <1>7, <1>9, <1>14, <1>15, <3>1 DEF Steady
    <3>3. \A v \in Tabs : ViewOK(k.hist[v], k.zoom[v], LeavesIn(r.tabs, v) \cup Stale(X, v))
      BY <2>3, <3>2 DEF Fits, ViewOK
    <3>4. OwnSolve(k, r.tabs) = OwnSolve(k, s.tabs)
      BY <1>9, <3>2 DEF OwnSolve
    <3>5. Fits(k, r.tabs, X)
      BY <3>2, <3>3, <3>4 DEF Fits
    <3>6. QED
      BY <1>9, <3>2, <3>5 DEF Landed
  <2>5. ASSUME NEW v \in DOMAIN r.tabs \ B PROVE Settled(r, v)
    <3>1. \A d \in DOMAIN s.clients \cup DOMAIN r.clients : Aside(s, r, d, B)
      BY <1>9 DEF Aside, SameView
    <3>2. v \in DOMAIN s.tabs /\ Settled(s, v) /\ SameSolve(s.tabs[v], r.tabs[v])
      BY <1>9, <1>13, <1>15 DEF Steady, SameSolve
    <3>3. QED
      BY <1>9, <3>1, <3>2, SettledKept
  <2>6. QED
    BY <2>1, <2>2, <2>4, <2>5 DEF Steady
<1>17. PICK D : D = X \cup {c}
  OBVIOUS
<1>18. Reshaped(r, q, X, D, X, B) /\ q.clients[c].active = t
  <2>1. t \in DOMAIN r.tabs /\ t \in B /\ \A d \in {c} \cap DOMAIN r.clients : r.clients[d].active \in B
    BY <1>6, <1>9, <1>13
  <2>2. /\ Reshaped(r, ShowTab(r, {c}, t), X, X \cup {c}, X, B)
        /\ \A d \in {c} \cap DOMAIN r.clients : ShowTab(r, {c}, t).clients[d].active = t
    BY <1>16, <2>1, ShowSteady
  <2>3. QED
    BY <1>4, <1>7, <1>9, <1>17, <2>2
<1>19. Reshaped(q, m, X, D \ {c}, X, B)
  <2>1. /\ Steady(q, X, D, X, B) /\ t \in DOMAIN q.tabs /\ t \in B /\ p \in Leaves(q, t)
    BY <1>9, <1>12, <1>13, <1>18 DEF Reshaped, OnlyClients, Leaves
  <2>2. (c \in DOMAIN q.clients => q.clients[c].active = t)
          => Reshaped(q, FocusTiled(q, c, t, p), X, D \ {c}, X, B)
    BY <2>1, FocusSteady
  <2>3. QED
    BY <1>5, <1>18, <2>2
<1>20. Steady(m, {}, {}, {}, B) /\ OnlyClients(r, m)
  <2>1. D \ {c} = {}
    BY <1>14, <1>17
  <2>2. QED
    BY <1>14, <1>18, <1>19, <2>1 DEF Reshaped, OnlyClients
<1>21. Rooted(m)
  <2>1. Dense(r.tabs)
    <3>1. PICK n : n = Cardinality(DOMAIN s.tabs)
      OBVIOUS
    <3>2. Cardinality(DOMAIN r.tabs) = n + 1 /\ n \in Nat
      <4>1. PICK S : S = DOMAIN s.tabs
        OBVIOUS
      <4>2. IsFiniteSet(S) /\ t \notin S /\ DOMAIN r.tabs = S \cup {t} /\ n = Cardinality(S) /\ n \in Nat
        BY <1>7, <1>9, <1>10, <3>1, <4>1
      <4>3. Cardinality(S \cup {t}) = Cardinality(S) + 1
        BY <4>2, FS_AddElement
      <4>4. QED
        BY <4>2, <4>3
    <3>3. {s.tabs[v].index : v \in DOMAIN s.tabs} = 0 .. (n - 1)
      BY <1>7, <3>1 DEF WholeBut, Rooted, Dense
    <3>4. \A v \in DOMAIN s.tabs : s.tabs[v].index \in 0 .. (n - 1) /\ s.tabs[v].index # n
      <4>1. ASSUME NEW v \in DOMAIN s.tabs PROVE s.tabs[v].index \in 0 .. (n - 1)
        <5>1. s.tabs[v].index \in {s.tabs[w].index : w \in DOMAIN s.tabs}
          OBVIOUS
        <5>2. QED
          BY <3>3, <5>1
      <4>2. n \notin 0 .. (n - 1)
        BY <3>2
      <4>3. QED
        BY <4>1, <4>2
    <3>5. r.tabs[t].index = n
      BY <1>9, <1>11, <3>1
    <3>6. {r.tabs[v].index : v \in DOMAIN r.tabs} = {s.tabs[v].index : v \in DOMAIN s.tabs} \cup {n}
      BY <1>9, <3>5
    <3>7. 0 .. ((n + 1) - 1) = (0 .. (n - 1)) \cup {n}
      BY <3>2
    <3>8. \A v, w \in DOMAIN r.tabs : r.tabs[v].index = r.tabs[w].index => v = w
      BY <1>7, <1>9, <3>4, <3>5 DEF WholeBut, Rooted, Dense
    <3>9. QED
      BY <3>2, <3>3, <3>6, <3>7, <3>8 DEF Dense
  <2>2. Planted(r.tabs, r.panes)
    <3>1. \A v \in DOMAIN s.tabs : Range(s.tabs[v].leaves) \subseteq s.panes
      BY <1>7 DEF WholeBut, Steady, TabOK
    <3>2. Planted(s.tabs, s.panes)
      BY <1>7 DEF WholeBut, Rooted
    <3>3. QED
      <4>1. \A v \in DOMAIN r.tabs : Distinct(r.tabs[v].leaves)
        BY <1>9, <1>12, <3>2 DEF Planted
      <4>2. \A x \in r.panes : \E v \in DOMAIN r.tabs : x \in Range(r.tabs[v].leaves)
        BY <1>9, <1>12, <3>2 DEF Planted
      <4>3. \A v \in DOMAIN s.tabs : Range(r.tabs[v].leaves) \cap Range(tab.leaves) = {}
        BY <1>7, <1>9, <1>12, <3>1
      <4>4. \A v, w \in DOMAIN s.tabs : v # w => Range(r.tabs[v].leaves) \cap Range(r.tabs[w].leaves) = {}
        BY <1>9, <3>2 DEF Planted
      <4>5. \A v, w \in DOMAIN r.tabs : v # w => Range(r.tabs[v].leaves) \cap Range(r.tabs[w].leaves) = {}
        BY <1>9, <4>3, <4>4
      <4>6. QED
        BY <4>1, <4>2, <4>5 DEF Planted
  <2>3. Lives(r)
    BY <1>7, <1>9 DEF WholeBut, Rooted, Lives
  <2>4. QED
    BY <1>20, <2>1, <2>2, <2>3 DEF Rooted, OnlyClients, Lives
<1>22. WholeBut(m, {t, left})
  BY <1>13, <1>20, <1>21 DEF WholeBut
<1>23. PICK n : n = UpdateTabSolves(m, t, left, g)
  OBVIOUS
<1>24. WholeBut(n, {t, left} \ {t, left})
  BY <1>22, <1>23, SolvesWhole
<1>25. WholeBut(n, {left})
  BY <1>24, SteadyMore DEF WholeBut
<1>26. QED
  BY <1>8, <1>23, <1>25, SolveAndCommit

-----------------------------------------------------------------------------
(* A new pane *)

\* A new record in the pane registry keeps a session steady.
LEMMA RecordSteady ==
  ASSUME NEW s, NEW X, NEW D, NEW T, NEW B, Steady(s, X, D, T, B), NEW r, NEW p \in Panes,
         r = [s EXCEPT !.panes = @ \cup {p}]
  PROVE  /\ Steady(r, X, D, T, B) /\ r.tabs = s.tabs /\ r.clients = s.clients
         /\ r.panes = s.panes \cup {p} /\ r.lifecycle = s.lifecycle
<1>1. /\ DOMAIN r = DOMAIN s /\ r.tabs = s.tabs /\ r.clients = s.clients
      /\ r.panes = s.panes \cup {p} /\ r.lifecycle = s.lifecycle
  BY DEF Steady, SessionShape
<1>2. SessionShape(r)
  BY <1>1 DEF Steady, SessionShape
<1>3. \A v \in DOMAIN r.tabs : TabOK(r.tabs[v], r.panes, v \in T)
  BY <1>1 DEF Steady, TabOK
<1>4. ASSUME NEW v \in DOMAIN r.tabs \ B PROVE Settled(r, v)
  <2>1. \A d \in DOMAIN s.clients \cup DOMAIN r.clients : Aside(s, r, d, B)
    BY <1>1 DEF Aside, SameView
  <2>2. v \in DOMAIN s.tabs /\ Settled(s, v) /\ SameSolve(s.tabs[v], r.tabs[v])
    BY <1>1 DEF Steady, SameSolve
  <2>3. QED
    BY <1>1, <2>1, <2>2, SettledKept
<1>5. Steady(r, X, D, T, B)
  BY <1>1, <1>2, <1>3, <1>4 DEF Steady
<1>6. QED
  BY <1>1, <1>5

\* split_leaf: the leaves and the new pane, each once.
LEMMA SplitFacts ==
  ASSUME NEW leaves \in Seq(Panes), Distinct(leaves), NEW source \in Range(leaves),
         NEW p \in Panes, p \notin Range(leaves), NEW isBefore \in BOOLEAN
  PROVE  LET r == SplitLeaf(leaves, source, p, isBefore)
         IN  r \in Seq(Panes) /\ Range(r) = Range(leaves) \cup {p} /\ Distinct(r)
<1>1. PICK A : A = {i \in DOMAIN leaves : leaves[i] = source}
  OBVIOUS
<1>2. DOMAIN leaves = 1 .. Len(leaves) /\ Len(leaves) \in Nat
  OBVIOUS
<1>3. A # {} /\ A \in SUBSET Nat
  BY <1>1, <1>2 DEF Range
<1>4. Min(A) \in A
  BY <1>3, MinFacts
<1>5. PICK i : i = IF isBefore THEN Min(A) ELSE Min(A) + 1
  OBVIOUS
<1>6. i \in 1 .. Len(leaves) + 1
  BY <1>1, <1>2, <1>4, <1>5
<1>7. SplitLeaf(leaves, source, p, isBefore) = InsertAt(leaves, i, p)
  BY <1>1, <1>5 DEF SplitLeaf
<1>8. QED
  BY <1>6, <1>7, InsertFacts

\* A new pane planted in one tab.
LEMMA PlantOne ==
  ASSUME NEW s, NEW r, NEW t \in DOMAIN s.tabs, NEW p, Rooted(s), p \notin s.panes,
         \A w \in DOMAIN s.tabs : Range(s.tabs[w].leaves) \subseteq s.panes,
         DOMAIN r.tabs = DOMAIN s.tabs, r.lifecycle = s.lifecycle, r.panes = s.panes \cup {p},
         \A w \in DOMAIN s.tabs : r.tabs[w].index = s.tabs[w].index,
         \A w \in DOMAIN s.tabs \ {t} : r.tabs[w].leaves = s.tabs[w].leaves,
         Distinct(r.tabs[t].leaves), Range(r.tabs[t].leaves) = Leaves(s, t) \cup {p}
  PROVE  Rooted(r)
<1>1. Dense(r.tabs)
  <2>1. {r.tabs[v].index : v \in DOMAIN r.tabs} = {s.tabs[v].index : v \in DOMAIN s.tabs}
    OBVIOUS
  <2>2. QED
    BY <2>1 DEF Rooted, Dense
<1>2. \A v \in DOMAIN r.tabs : Distinct(r.tabs[v].leaves)
  BY DEF Rooted, Planted
<1>3. \A x \in r.panes : \E v \in DOMAIN r.tabs : x \in Range(r.tabs[v].leaves)
  BY DEF Rooted, Planted, Leaves
<1>4. \A v, w \in DOMAIN s.tabs : v # w => Range(s.tabs[v].leaves) \cap Range(s.tabs[w].leaves) = {}
  BY DEF Rooted, Planted
<1>5. \A v, w \in DOMAIN r.tabs : v # w => Range(r.tabs[v].leaves) \cap Range(r.tabs[w].leaves) = {}
  <2>1. \A v \in DOMAIN s.tabs :
            Range(r.tabs[v].leaves) = Range(s.tabs[v].leaves) \cup (IF v = t THEN {p} ELSE {})
    BY DEF Leaves
  <2>2. \A v \in DOMAIN s.tabs : p \notin Range(s.tabs[v].leaves)
    OBVIOUS
  <2>3. ASSUME NEW v \in DOMAIN s.tabs, NEW w \in DOMAIN s.tabs, v # w, NEW x,
               x \in Range(r.tabs[v].leaves), x \in Range(r.tabs[w].leaves)
        PROVE  FALSE
    <3>1. x \in Range(s.tabs[v].leaves) \/ (x = p /\ v = t)
      BY <2>1, <2>3
    <3>2. x \in Range(s.tabs[w].leaves) \/ (x = p /\ w = t)
      BY <2>1, <2>3
    <3>3. QED
      BY <1>4, <2>2, <2>3, <3>1, <3>2
  <2>4. QED
    BY <2>3
<1>6. QED
  BY <1>1, <1>2, <1>3, <1>5 DEF Rooted, Planted, Lives

\* commit_new_pane leaves at most the new pane's tab and the one its client left
\* unsettled.
LEMMA CommitNewPaneWhole ==
  ASSUME NEW s, WholeBut(s, {}), NEW p \in Panes, p \notin s.panes, NEW t \in DOMAIN s.tabs,
         NEW leaves \in Seq(Panes), Range(leaves) = Leaves(s, t) \cup {p}, Distinct(leaves),
         NEW d \in DOMAIN s.clients \cup {NoClient}, NEW g \in Geometries,
         NEW left, left = IF d = NoClient THEN t ELSE s.clients[d].active
  PROVE  WholeBut(CommitNewPane(s, p, t, leaves, d, g), {t, left})
<1>1. PICK V : V = IF d = NoClient THEN {} ELSE {d}
  OBVIOUS
<1>2. PICK W : W = {c \in V : left # t}
  OBVIOUS
<1>3. PICK moved : moved = ShowTab(s, W, t)
  OBVIOUS
<1>4. PICK grown : grown = [moved EXCEPT !.panes = @ \cup {p}]
  OBVIOUS
<1>5. PICK laid : laid = UpdateTabLayout(grown, t, leaves, g)
  OBVIOUS
<1>6. PICK Z : Z = IF d = NoClient THEN DOMAIN s.clients ELSE V
  OBVIOUS
<1>7. PICK tiled : tiled = LeaveZoom(laid, Z, t)
  OBVIOUS
<1>8. PICK f : f = IF d = NoClient THEN tiled ELSE FocusTiled(tiled, d, t, p)
  OBVIOUS
<1>9. CommitNewPane(s, p, t, leaves, d, g) = IF left = t THEN f ELSE UpdateTabSolves(f, t, left, g)
  BY <1>1, <1>2, <1>3, <1>4, <1>5, <1>6, <1>7, <1>8 DEF CommitNewPane
<1>10. PICK B : B = {t, left}
  OBVIOUS
<1>11. PICK X : X = {}
  OBVIOUS
<1>12. Steady(s, X, X, X, B) /\ t \in B /\ t \in Tabs /\ SessionShape(s)
  BY <1>10, <1>11, SteadyMore DEF WholeBut, Steady, SessionShape
<1>13. PICK D : D = X \cup W
  OBVIOUS
<1>14. Reshaped(s, moved, X, D, X, B) /\ \A c \in W \cap DOMAIN s.clients : moved.clients[c].active = t
  <2>1. \A c \in W \cap DOMAIN s.clients : s.clients[c].active \in B
    BY <1>1, <1>2, <1>10
  <2>2. /\ Reshaped(s, ShowTab(s, W, t), X, X \cup W, X, B)
        /\ \A c \in W \cap DOMAIN s.clients : ShowTab(s, W, t).clients[c].active = t
    <3>1. Steady(s, X, X, X, B)
      BY <1>12
    <3>2. t \in B
      BY <1>12
    <3>3. QED
      BY <2>1, <3>1, <3>2, ShowSteady, Zenon
  <2>3. QED
    BY <1>3, <1>13, <2>2
<1>15. d # NoClient => moved.clients[d].active = t
  <2>1. CASE left # t /\ d # NoClient
    BY <1>1, <1>2, <1>14, <2>1
  <2>2. CASE left = t /\ d # NoClient
    <3>1. W = {} /\ s.clients[d].active = t
      BY <1>2, <2>2
    <3>2. \A c \in DOMAIN s.clients : moved.clients[c] =
                   IF c \in W THEN UpdateActiveTab(s.clients[c], t) ELSE s.clients[c]
      BY <1>3, <1>12, ShowShape
    <3>3. QED
      BY <2>2, <3>1, <3>2
  <2>3. QED
    BY <2>1, <2>2
<1>16. /\ Steady(moved, X, D, X, B) /\ moved.tabs = s.tabs /\ moved.panes = s.panes
       /\ moved.lifecycle = s.lifecycle /\ DOMAIN moved.clients = DOMAIN s.clients
  BY <1>14 DEF Reshaped, OnlyClients
<1>17. /\ Steady(grown, X, D, X, B) /\ grown.tabs = s.tabs /\ grown.clients = moved.clients
       /\ grown.panes = s.panes \cup {p} /\ grown.lifecycle = s.lifecycle
  BY <1>4, <1>16, RecordSteady
<1>18. LaidOut(grown, laid, X, D, X, B, t, leaves, grown.tabs[t].size)
  <2>1. Leaves(s, t) \subseteq s.panes
    BY DEF WholeBut, Steady, TabOK, Leaves
  <2>2. leaves # <<>>
    BY RangeFacts
  <2>3. /\ t \in DOMAIN grown.tabs /\ Range(leaves) \subseteq grown.panes /\ X \subseteq X
        /\ Leaves(grown, t) \subseteq Range(leaves) \cup Stale(X, t)
    BY <1>17, <2>1 DEF Leaves
  <2>4. LaidOut(grown, UpdateTabLayout(grown, t, leaves, g), X, D, X, B, t, leaves, grown.tabs[t].size)
    BY <1>12, <1>17, <2>2, <2>3, LayoutSteady
  <2>5. QED
    BY <1>5, <2>4
<1>19. /\ Steady(laid, X, D, X, B) /\ Touches(grown, laid, t) /\ laid.tabs[t].leaves = leaves
  <2>1. X \ {t} = X
    BY <1>11
  <2>2. QED
    BY <1>18, <2>1 DEF LaidOut
<1>20. Reshaped(laid, tiled, X, D, X, B) /\ HistoriesKept(laid, tiled)
  BY <1>7, <1>12, <1>19, LeaveZoomSteady
<1>21. /\ DOMAIN tiled.clients = DOMAIN s.clients
       /\ d # NoClient => tiled.clients[d].active = t
  <2>1. DOMAIN laid.clients = DOMAIN s.clients /\ DOMAIN tiled.clients = DOMAIN s.clients
    BY <1>16, <1>17, <1>19, <1>20 DEF Touches, Reshaped, OnlyClients
  <2>2. CASE d # NoClient
    BY <1>15, <1>16, <1>17, <1>19, <1>20, <2>1, <2>2 DEF Touches, Handed, HistoriesKept
  <2>3. QED
    BY <2>1, <2>2
<1>22. Steady(f, X, X, X, B) /\ OnlyClients(tiled, f)
  <2>1. CASE d = NoClient
    <3>1. D = X /\ f = tiled
      BY <1>1, <1>2, <1>8, <1>13, <2>1
    <3>2. QED
      BY <1>20, <3>1 DEF Reshaped, OnlyClients
  <2>2. CASE d # NoClient
    <3>1. /\ Steady(tiled, X, D, X, B) /\ t \in DOMAIN tiled.tabs /\ p \in Leaves(tiled, t)
      BY <1>17, <1>19, <1>20 DEF Reshaped, OnlyClients, Touches, Leaves
    <3>2. (d \in DOMAIN tiled.clients => tiled.clients[d].active = t)
              => Reshaped(tiled, FocusTiled(tiled, d, t, p), X, D \ {d}, X, B)
      BY <1>12, <3>1, FocusSteady
    <3>3. Reshaped(tiled, f, X, D \ {d}, X, B)
      BY <1>8, <1>21, <2>2, <3>2
    <3>4. D \ {d} = X
      BY <1>1, <1>2, <1>11, <1>13, <2>2
    <3>5. QED
      BY <3>3, <3>4 DEF Reshaped
  <2>3. QED
    BY <2>1, <2>2
<1>23. Rooted(f)
  <2>1. /\ DOMAIN f.tabs = DOMAIN s.tabs /\ f.lifecycle = s.lifecycle /\ f.panes = s.panes \cup {p}
        /\ \A w \in DOMAIN s.tabs : f.tabs[w].index = s.tabs[w].index
        /\ \A w \in DOMAIN s.tabs \ {t} : f.tabs[w].leaves = s.tabs[w].leaves
        /\ f.tabs[t].leaves = leaves
    BY <1>17, <1>19, <1>20, <1>22 DEF Touches, Reshaped, OnlyClients
  <2>2. Rooted(s) /\ \A w \in DOMAIN s.tabs : Range(s.tabs[w].leaves) \subseteq s.panes
    BY DEF WholeBut, Steady, TabOK
  <2>3. QED
    BY <2>1, <2>2, PlantOne
<1>24. WholeBut(f, {t, left})
  BY <1>10, <1>11, <1>22, <1>23 DEF WholeBut
<1>25. CASE left = t
  BY <1>9, <1>24, <1>25
<1>26. CASE left # t
  <2>1. WholeBut(UpdateTabSolves(f, t, left, g), {t, left} \ {t, left})
    BY <1>24, SolvesWhole
  <2>2. WholeBut(UpdateTabSolves(f, t, left, g), {t, left})
    BY <2>1, SteadyMore DEF WholeBut
  <2>3. QED
    BY <1>9, <1>26, <2>2
<1>27. QED
  BY <1>25, <1>26

\* NewPane: those tabs are solved again.
LEMMA NewPaneKeeps ==
  ASSUME SessionInv, NEW d, NEW source, NEW p \in Panes, NEW isBefore \in BOOLEAN,
         NEW g \in Geometries, NewPane(d, source, p, isBefore, g)
  PROVE  SessionInv'
<1>1. PICK s : s = Session
  OBVIOUS
<1>2. PICK t : t = TabOf(s, source)
  OBVIOUS
<1>3. PICK client : client = NewPaneClient(t, d)
  OBVIOUS
<1>4. PICK left : left = IF client = NoClient THEN t ELSE s.clients[client].active
  OBVIOUS
<1>5. PICK leaves : leaves = SplitLeaf(s.tabs[t].leaves, source, p, isBefore)
  OBVIOUS
<1>6. /\ WholeBut(s, {}) /\ SessionShape(s) /\ source \in s.panes /\ p \notin s.panes
      /\ d \in DOMAIN s.clients \cup {NoClient} /\ s.clients = clients /\ s.tabs = tabs
  BY <1>1, SessionParts DEF SessionInv, WholeBut, Steady, NewPane
<1>7. PICK n : n = CommitNewPane(s, p, t, leaves, client, g)
  OBVIOUS
<1>8. Commit(UpdateTabSolves(n, t, left, g))
  BY <1>1, <1>2, <1>3, <1>4, <1>5, <1>6, <1>7 DEF NewPane
<1>9. client \in DOMAIN s.clients \cup {NoClient}
  <2>1. CASE d = NoClient /\ Cardinality(DOMAIN clients) = 1
    <3>1. DOMAIN clients # {}
      BY <2>1, FS_EmptySet
    <3>2. QED
      BY <1>3, <1>6, <3>1 DEF NewPaneClient
  <2>2. CASE ~(d = NoClient /\ Cardinality(DOMAIN clients) = 1)
    BY <1>3, <1>6, <2>2 DEF NewPaneClient
  <2>3. QED
    BY <2>1, <2>2
<1>10. t \in DOMAIN s.tabs /\ source \in Leaves(s, t)
  BY <1>2, <1>6, PaneHome
<1>11. /\ s.tabs[t].leaves \in Seq(Panes) /\ Distinct(s.tabs[t].leaves) /\ Leaves(s, t) \subseteq s.panes
  BY <1>6, <1>10 DEF WholeBut, Steady, TabOK, Tab, Rooted, Planted, Leaves
<1>12. leaves \in Seq(Panes) /\ Range(leaves) = Leaves(s, t) \cup {p} /\ Distinct(leaves)
  BY <1>5, <1>6, <1>10, <1>11, SplitFacts DEF Leaves
<1>13. WholeBut(n, {t, left})
  BY <1>4, <1>6, <1>7, <1>9, <1>10, <1>12, CommitNewPaneWhole
<1>14. QED
  BY <1>8, <1>13, SolvesAndCommit

-----------------------------------------------------------------------------
(* A tab closes *)

\* The largest of a finite set of numbers.
LEMMA MaxFacts ==
  ASSUME NEW T \in SUBSET Nat, T # {}, NEW b \in Nat, \A k \in T : k <= b
  PROVE  Max(T) \in T
<1>1. PICK m \in T : \A k \in T : k <= m
  BY NatGreatest
<1>2. \A k \in T : m >= k
  BY <1>1
<1>3. QED
  BY <1>1, <1>2 DEF Max

\* A tab remains beside the one that closed.
LEMMA NearestFacts ==
  ASSUME NEW s, DOMAIN s.tabs # {}, NEW index \in Nat,
         \A v \in DOMAIN s.tabs : s.tabs[v].index \in Nat /\ s.tabs[v].index # index
  PROVE  NearestSurvivingTab(s, index) \in DOMAIN s.tabs
<1>1. PICK before, after : /\ before = {t \in DOMAIN s.tabs : s.tabs[t].index < index}
                           /\ after = {t \in DOMAIN s.tabs : s.tabs[t].index > index}
  OBVIOUS
<1>2. PICK I, J : /\ I = {s.tabs[t].index : t \in before} /\ J = {s.tabs[t].index : t \in after}
  OBVIOUS
<1>3. I \in SUBSET Nat /\ J \in SUBSET Nat /\ \A k \in I : k <= index
  BY <1>1, <1>2
<1>4. NearestSurvivingTab(s, index) = IF before # {}
        THEN CHOOSE t \in DOMAIN s.tabs : s.tabs[t].index = Max(I)
        ELSE CHOOSE t \in DOMAIN s.tabs : s.tabs[t].index = Min(J)
  BY <1>1, <1>2 DEF NearestSurvivingTab
<1>5. CASE before # {}
  <2>1. I # {}
    BY <1>2, <1>5
  <2>2. Max(I) \in I
    BY <1>3, <2>1, MaxFacts
  <2>3. \E t \in DOMAIN s.tabs : s.tabs[t].index = Max(I)
    BY <1>1, <1>2, <2>2
  <2>4. QED
    BY <1>4, <1>5, <2>3
<1>6. CASE before = {}
  <2>1. J # {}
    <3>1. PICK v \in DOMAIN s.tabs : TRUE
      OBVIOUS
    <3>2. v \notin before
      BY <1>6
    <3>3. v \in after
      BY <1>1, <3>2
    <3>4. QED
      BY <1>2, <3>3
  <2>2. Min(J) \in J
    BY <1>3, <2>1, MinFacts
  <2>3. \E t \in DOMAIN s.tabs : s.tabs[t].index = Min(J)
    BY <1>1, <1>2, <2>2
  <2>4. QED
    BY <1>4, <1>6, <2>3
<1>7. QED
  BY <1>5, <1>6

\* The record of a client once tab t is gone and its viewers are shown next.
LeftBehind(k, t, next, isViewer) ==
  IF isViewer THEN UpdateActiveTab(ClearFocusHistory(k, t), next) ELSE ClearFocusHistory(k, t)

\* With a tab gone, its viewers shown another and not yet landed, the session is
\* steady.
LEMMA RemoveTabSteady ==
  ASSUME NEW s, NEW t \in DOMAIN s.tabs, NEW B, Steady(s, {}, {}, {t}, B), NEW m, NEW next,
         DOMAIN m = DOMAIN s, m.panes = s.panes, DOMAIN m.clients = DOMAIN s.clients,
         m.tabs = [u \in DOMAIN s.tabs \ {t} |-> s.tabs[u]], next \in DOMAIN m.tabs,
         \A c \in DOMAIN s.clients :
            m.clients[c] = LeftBehind(s.clients[c], t, next, c \in Viewers(s, t)),
         NEW C, C = B \cup {t, next}
  PROVE  Steady(m, {}, Viewers(s, t), {}, C)
<1>1. SessionShape(s) /\ t \in Tabs /\ DOMAIN m.tabs = DOMAIN s.tabs \ {t} /\ next \in Tabs
      /\ \A v \in DOMAIN m.tabs : m.tabs[v] = s.tabs[v]
  BY DEF Steady, SessionShape
<1>2. SessionShape(m)
  BY <1>1 DEF SessionShape
<1>3. \A v \in DOMAIN m.tabs : TabOK(m.tabs[v], m.panes, v \in {})
  BY <1>1 DEF Steady, TabOK
<1>4. \A v \in Tabs \ {t} : LeavesIn(m.tabs, v) = LeavesIn(s.tabs, v)
  BY <1>1 DEF LeavesIn
<1>5. ASSUME NEW c \in DOMAIN s.clients
      PROVE  /\ Fits(m.clients[c], m.tabs, {})
             /\ c \in Viewers(s, t) => s.clients[c].active = t /\ m.clients[c].active = next
             /\ c \notin Viewers(s, t) =>
                    /\ s.clients[c].active \in DOMAIN s.tabs \ {t}
                    /\ m.clients[c].active = s.clients[c].active
                    /\ m.clients[c].area = s.clients[c].area
                    /\ \A v \in Tabs \ {t} : /\ m.clients[c].hist[v] = s.clients[c].hist[v]
                                             /\ m.clients[c].zoom[v] = s.clients[c].zoom[v]
  <2>1. PICK k, n, o : k = s.clients[c] /\ n = ClearFocusHistory(k, t) /\ o = UpdateActiveTab(n, next)
    OBVIOUS
  <2>2. Fits(k, s.tabs, {}) /\ k.active \in DOMAIN s.tabs
    BY <2>1 DEF Steady
  <2>3. /\ Fits(n, s.tabs, {}) /\ n.active = k.active /\ n.area = k.area /\ n.own = <<>>
        /\ n.hist[t] = <<>> /\ n.zoom[t] = NoPane
        /\ \A v \in Tabs \ {t} : n.hist[v] = k.hist[v] /\ n.zoom[v] = k.zoom[v]
    BY <1>1, <2>1, <2>2, ClearRecord
  <2>4. ViewOK(n.hist[t], n.zoom[t], LeavesIn(m.tabs, t) \cup Stale({}, t))
    BY <2>3 DEF ViewOK, Range, Distinct
  <2>5. \A v \in Tabs : ViewOK(n.hist[v], n.zoom[v], LeavesIn(m.tabs, v) \cup Stale({}, v))
    BY <1>4, <2>3, <2>4 DEF Fits
  <2>6. Fits(n, m.tabs, {})
    BY <2>3, <2>5 DEF Fits
  <2>7. Fits(o, m.tabs, {}) /\ o.active = next
    BY <1>1, <2>1, <2>6, ShowRecord
  <2>8. m.clients[c] = IF c \in Viewers(s, t) THEN o ELSE n
    BY <2>1 DEF LeftBehind
  <2>9. c \in Viewers(s, t) <=> k.active = t
    BY <2>1 DEF Viewers
  <2>10. QED
    BY <2>1, <2>2, <2>3, <2>6, <2>7, <2>8, <2>9
<1>6. ASSUME NEW c \in DOMAIN m.clients
      PROVE  /\ Fits(m.clients[c], m.tabs, {}) /\ (c \in Viewers(s, t) \/ Landed(m.clients[c], m.tabs))
             /\ m.clients[c].active \in DOMAIN m.tabs \/ DOMAIN m.tabs = {}
  <2>1. CASE c \in Viewers(s, t)
    BY <1>5, <2>1
  <2>2. CASE c \notin Viewers(s, t)
    <3>1. Landed(s.clients[c], s.tabs) /\ s.clients[c].active \in DOMAIN s.tabs
      BY <1>1, <2>2 DEF Steady
    <3>2. PICK k, l : k = s.clients[c] /\ l = m.clients[c]
      OBVIOUS
    <3>3. /\ Fits(l, m.tabs, {}) /\ l.active = k.active /\ k.active # t
          /\ l.hist[k.active] = k.hist[k.active]
      BY <1>1, <1>5, <2>2, <3>1, <3>2 DEF SessionShape
    <3>4. Landed(l, m.tabs) /\ l.active \in DOMAIN m.tabs
      BY <1>1, <3>1, <3>2, <3>3 DEF Landed
    <3>5. QED
      BY <3>2, <3>3, <3>4
  <2>3. QED
    BY <2>1, <2>2
<1>7. ASSUME NEW v \in DOMAIN m.tabs \ C PROVE Settled(m, v)
  <2>1. ASSUME NEW c \in DOMAIN s.clients PROVE SameView(s.clients[c], m.clients[c], C)
    BY <1>1, <1>5 DEF SameView, SessionShape
  <2>2. \A c \in DOMAIN s.clients \cup DOMAIN m.clients : Aside(s, m, c, C)
    BY <2>1 DEF Aside
  <2>3. v \in DOMAIN s.tabs /\ v \notin C /\ Settled(s, v) /\ SameSolve(s.tabs[v], m.tabs[v])
    BY <1>1 DEF Steady, SameSolve
  <2>4. QED
    BY <2>2, <2>3, SettledKept
<1>8. QED
  BY <1>2, <1>3, <1>6, <1>7 DEF Steady

\* With the last tab gone, nothing is left to be out of step.
LEMMA LastTabSteady ==
  ASSUME NEW s, NEW t \in DOMAIN s.tabs, NEW B, Steady(s, {}, {}, {t}, B), NEW m,
         DOMAIN m = DOMAIN s, m.panes = s.panes, DOMAIN m.clients = DOMAIN s.clients,
         DOMAIN m.tabs = {}, DOMAIN s.tabs = {t},
         \A c \in DOMAIN s.clients : m.clients[c] = ClearFocusHistory(s.clients[c], t)
  PROVE  Steady(m, {}, {}, {}, {})
<1>1. SessionShape(m) /\ t \in Tabs
  BY DEF Steady, SessionShape
<1>2. ASSUME NEW c \in DOMAIN s.clients PROVE Fits(m.clients[c], m.tabs, {})
  <2>1. PICK k, n : k = s.clients[c] /\ n = ClearFocusHistory(k, t)
    OBVIOUS
  <2>2. Fits(k, s.tabs, {})
    BY <2>1 DEF Steady
  <2>3. /\ Fits(n, s.tabs, {}) /\ n.own = <<>>
        /\ n.hist[t] = <<>> /\ n.zoom[t] = NoPane
    BY <1>1, <2>1, <2>2, ClearRecord
  <2>4. ViewOK(n.hist[t], n.zoom[t], LeavesIn(m.tabs, t) \cup Stale({}, t))
    BY <2>3 DEF ViewOK, Range, Distinct
  <2>5. \A v \in Tabs \ {t} : LeavesIn(m.tabs, v) = LeavesIn(s.tabs, v)
    BY DEF LeavesIn
  <2>6. \A v \in Tabs : ViewOK(n.hist[v], n.zoom[v], LeavesIn(m.tabs, v) \cup Stale({}, v))
    BY <2>3, <2>4, <2>5 DEF Fits
  <2>7. QED
    BY <2>1, <2>3, <2>6 DEF Fits
<1>3. QED
  BY <1>1, <1>2 DEF Steady, Landed

\* After reindex_tabs the trees are rooted, whatever gap the closed tab left.
LEMMA ReindexRooted ==
  ASSUME NEW s, NEW X, NEW D, NEW T, NEW B, Steady(s, X, D, T, B), Planted(s.tabs, s.panes), Lives(s),
         \A v, w \in DOMAIN s.tabs : s.tabs[v].index = s.tabs[w].index => v = w
  PROVE  Rooted(ReindexTabs(s))
<1>1. PICK r : r = ReindexTabs(s)
  OBVIOUS
<1>2. SessionShape(s) /\ \A v \in DOMAIN s.tabs : s.tabs[v] \in Tab
  BY DEF Steady, TabOK
<1>3. Dense(r.tabs)
  BY <1>1, <1>2, ReindexDense DEF SessionShape
<1>4. /\ r.panes = s.panes /\ r.lifecycle = s.lifecycle /\ DOMAIN r.tabs = DOMAIN s.tabs
      /\ \A v \in DOMAIN s.tabs : r.tabs[v].leaves = s.tabs[v].leaves
  BY <1>1, <1>2 DEF ReindexTabs, SessionShape, Tab
<1>5. Planted(r.tabs, r.panes) /\ Lives(r)
  BY <1>4, SMTT(60) DEF Planted, Lives
<1>6. QED
  BY <1>1, <1>3, <1>5 DEF Rooted

\* The trees without tab t hold all the panes that have a record.
PlantedWithout(s, t) == Planted([u \in DOMAIN s.tabs \ {t} |-> s.tabs[u]], s.panes)

\* close_and_refocus_tab leaves the session whole but for the tabs that were
\* unsettled before.
LEMMA CloseWhole ==
  ASSUME NEW s, NEW t \in DOMAIN s.tabs, NEW B, Steady(s, {}, {}, {t}, B), NEW g \in Geometries,
         Dense(s.tabs), Lives(s), PlantedWithout(s, t)
  PROVE  WholeBut(CloseAndRefocusTab(s, t, g), B \ {t})
<1>1. PICK viewers : viewers = Viewers(s, t)
  OBVIOUS
<1>2. PICK removed : removed = [s EXCEPT !.tabs = [u \in DOMAIN s.tabs \ {t} |-> s.tabs[u]]]
  OBVIOUS
<1>3. PICK r : r = ForgetTab(removed, t)
  OBVIOUS
<1>4. PICK result : result = CloseAndRefocusTab(s, t, g)
  OBVIOUS
<1>5. SessionShape(s) /\ t \in Tabs /\ \A v \in DOMAIN s.tabs : s.tabs[v] \in Tab
  BY DEF Steady, SessionShape, TabOK
<1>6. /\ DOMAIN removed = DOMAIN s /\ removed.panes = s.panes /\ removed.clients = s.clients
      /\ removed.lifecycle = s.lifecycle
      /\ removed.tabs = [u \in DOMAIN s.tabs \ {t} |-> s.tabs[u]]
  BY <1>2, <1>5 DEF SessionShape
<1>7. SessionShape(removed)
  BY <1>5, <1>6 DEF SessionShape
<1>8. /\ OnlyClients(removed, r)
      /\ \A c \in DOMAIN removed.clients : r.clients[c] = ClearFocusHistory(removed.clients[c], t)
  BY <1>3, <1>7, ForgetTabShape
<1>9. /\ DOMAIN r = DOMAIN s /\ r.panes = s.panes /\ DOMAIN r.clients = DOMAIN s.clients
      /\ r.lifecycle = s.lifecycle /\ r.tabs = [u \in DOMAIN s.tabs \ {t} |-> s.tabs[u]]
      /\ DOMAIN r.tabs = DOMAIN s.tabs \ {t} /\ \A v \in DOMAIN r.tabs : r.tabs[v] = s.tabs[v]
      /\ \A c \in DOMAIN s.clients : r.clients[c] = ClearFocusHistory(s.clients[c], t)
  BY <1>6, <1>8 DEF OnlyClients
<1>10. PICK next : next = NearestSurvivingTab(r, s.tabs[t].index)
  OBVIOUS
<1>11. PICK shown : shown = ShowTab(r, viewers, next)
  OBVIOUS
<1>12. PICK landed : landed = LandClients(shown, viewers, next)
  OBVIOUS
<1>13. PICK solved : solved = UpdateTabSolve(landed, next, g)
  OBVIOUS
<1>14. result = IF DOMAIN r.tabs = {} THEN [r EXCEPT !.lifecycle = Transition(@, "StopRequested")]
                ELSE ReindexTabs(solved)
  BY <1>1, <1>2, <1>3, <1>4, <1>10, <1>11, <1>12, <1>13 DEF CloseAndRefocusTab
<1>15. CASE DOMAIN r.tabs = {}
  <2>1. result = [r EXCEPT !.lifecycle = "Stopping"]
    BY <1>14, <1>15 DEF Transition
  <2>2. /\ DOMAIN result = DOMAIN s /\ result.panes = s.panes /\ result.clients = r.clients
        /\ result.tabs = r.tabs /\ result.lifecycle = "Stopping" /\ DOMAIN s.tabs = {t}
    BY <1>5, <1>9, <1>15, <2>1 DEF SessionShape
  <2>3. Steady(result, {}, {}, {}, {})
    <3>1. DOMAIN result.tabs = {} /\ DOMAIN result.clients = DOMAIN s.clients
      BY <1>9, <1>15, <2>2
    <3>2. \A c \in DOMAIN s.clients : result.clients[c] = ClearFocusHistory(s.clients[c], t)
      BY <1>9, <2>2
    <3>3. QED
      BY <2>2, <3>1, <3>2, LastTabSteady
  <2>4. Lives(result)
    BY <1>15, <2>2 DEF Lives
  <2>5. Planted(result.tabs, result.panes)
    BY <1>9, <2>2 DEF PlantedWithout
  <2>6. Dense(result.tabs)
    <3>1. DOMAIN result.tabs = {}
      BY <1>15, <2>2
    <3>2. Cardinality(DOMAIN result.tabs) = 0
      BY <3>1, FS_EmptySet
    <3>3. {result.tabs[v].index : v \in DOMAIN result.tabs} = {}
      BY <3>1
    <3>4. 0 .. (0 - 1) = {}
      OBVIOUS
    <3>5. QED
      BY <3>1, <3>2, <3>3, <3>4 DEF Dense
  <2>7. Steady(result, {}, {}, {}, B \ {t})
    BY <2>3, SteadyMore
  <2>8. QED
    BY <1>4, <2>4, <2>5, <2>6, <2>7 DEF WholeBut, Rooted
<1>16. CASE DOMAIN r.tabs # {}
  <2>1. next \in DOMAIN r.tabs
    <3>1. s.tabs[t].index \in Nat
      BY <1>5 DEF Tab
    <3>2. \A v \in DOMAIN r.tabs : r.tabs[v].index \in Nat /\ r.tabs[v].index # s.tabs[t].index
      BY <1>5, <1>9 DEF Tab, Dense
    <3>3. QED
      BY <1>10, <1>16, <3>1, <3>2, NearestFacts
  <2>2. SessionShape(r)
    BY <1>5, <1>9 DEF SessionShape
  <2>3. /\ OnlyClients(r, shown)
        /\ \A c \in DOMAIN r.clients : shown.clients[c] =
               IF c \in viewers THEN UpdateActiveTab(r.clients[c], next) ELSE r.clients[c]
    BY <1>11, <2>2, ShowShape
  <2>4. /\ DOMAIN shown = DOMAIN s /\ shown.panes = s.panes /\ DOMAIN shown.clients = DOMAIN s.clients
        /\ shown.lifecycle = s.lifecycle
        /\ shown.tabs = [u \in DOMAIN s.tabs \ {t} |-> s.tabs[u]] /\ next \in DOMAIN shown.tabs
    BY <1>9, <2>1, <2>3 DEF OnlyClients
  <2>5. \A c \in DOMAIN s.clients :
            shown.clients[c] = LeftBehind(s.clients[c], t, next, c \in Viewers(s, t))
    BY <1>1, <1>9, <2>3 DEF LeftBehind
  <2>6. PICK C : C = B \cup {t, next}
    OBVIOUS
  <2>7. Steady(shown, {}, viewers, {}, C)
    BY <1>1, <2>4, <2>5, <2>6, RemoveTabSteady
  <2>8. \A c \in viewers \cap DOMAIN shown.clients : shown.clients[c].active = next
    <3>1. ASSUME NEW c \in viewers \cap DOMAIN shown.clients PROVE shown.clients[c].active = next
      <4>1. PICK k, n : k = s.clients[c] /\ n = ClearFocusHistory(k, t)
        OBVIOUS
      <4>2. Fits(k, s.tabs, {})
        BY <2>4, <4>1 DEF Steady
      <4>3. n \in Client
        <5>1. Fits(n, s.tabs, {})
          BY <1>5, <4>1, <4>2, ClearRecord
        <5>2. QED
          BY <5>1 DEF Fits
      <4>4. shown.clients[c] = UpdateActiveTab(n, next)
        BY <1>1, <2>4, <2>5, <4>1 DEF LeftBehind
      <4>5. QED
        BY <4>3, <4>4 DEF UpdateActiveTab, Client
    <3>2. QED
      BY <3>1
  <2>9. Steady(landed, {}, {}, {}, C) /\ OnlyClients(shown, landed)
    <3>1. PICK X : X = {}
      OBVIOUS
    <3>2. Steady(shown, X, viewers, X, C) /\ next \in DOMAIN shown.tabs /\ next \in C /\ next \notin X
      BY <2>4, <2>6, <2>7, <3>1
    <3>3. Reshaped(shown, LandClients(shown, viewers, next), X, viewers \ viewers, X, C)
      BY <2>8, <3>2, LandSteady
    <3>4. viewers \ viewers = {}
      OBVIOUS
    <3>5. QED
      BY <1>12, <3>1, <3>3, <3>4 DEF Reshaped
  <2>10. Steady(solved, {}, {}, {}, C \ {next}) /\ SameTrees(landed, solved)
    <3>1. PICK X : X = {}
      OBVIOUS
    <3>2. Steady(landed, X, X, X, C) /\ next \notin X
      BY <2>9, <3>1
    <3>3. SolvedAgain(landed, UpdateTabSolve(landed, next, g), X, X, X, C, next)
      BY <3>2, TabSolveSteady
    <3>4. QED
      BY <1>13, <3>1, <3>3 DEF SolvedAgain
  <2>11. /\ DOMAIN solved.tabs = DOMAIN s.tabs \ {t} /\ solved.panes = s.panes
         /\ solved.lifecycle = s.lifecycle
         /\ \A v \in DOMAIN solved.tabs : /\ solved.tabs[v].leaves = s.tabs[v].leaves
                                          /\ solved.tabs[v].index = s.tabs[v].index
    BY <2>4, <2>9, <2>10, ZenonT(60) DEF OnlyClients, SameTrees
  <2>12. Steady(solved, {}, {}, {}, B \ {t})
    <3>1. C \ {next} \subseteq (B \ {t}) \cup {t}
      BY <2>6
    <3>2. \A v \in DOMAIN solved.tabs \ (B \ {t}) : Settled(solved, v)
      BY <2>10, <2>11, <3>1 DEF Steady
    <3>3. QED
      BY <2>10, <3>2 DEF Steady
  <2>13. Planted(solved.tabs, solved.panes)
    <3>1. PICK ts : ts = [u \in DOMAIN s.tabs \ {t} |-> s.tabs[u]]
      OBVIOUS
    <3>2. /\ DOMAIN ts = DOMAIN solved.tabs
          /\ \A v \in DOMAIN solved.tabs : ts[v].leaves = solved.tabs[v].leaves
      BY <2>11, <3>1
    <3>3. Planted(ts, s.panes)
      BY <3>1 DEF PlantedWithout
    <3>4. QED
      BY <2>11, <3>2, <3>3 DEF Planted
  <2>14. Lives(solved)
    BY <1>9, <1>16, <2>11 DEF Lives
  <2>15. \A v, w \in DOMAIN solved.tabs : solved.tabs[v].index = solved.tabs[w].index => v = w
    BY <2>11 DEF Dense
  <2>16. Rooted(ReindexTabs(solved))
    BY <2>12, <2>13, <2>14, <2>15, ReindexRooted
  <2>17. Steady(ReindexTabs(solved), {}, {}, {}, B \ {t})
    BY <2>12, ReindexSteady
  <2>18. QED
    BY <1>4, <1>14, <1>16, <2>16, <2>17 DEF WholeBut
<1>17. QED
  BY <1>15, <1>16

-----------------------------------------------------------------------------
(* A pane leaves its tab *)

\* Leaving every zoom of a pane keeps the session steady but for the tabs that
\* hold the pane.
LEMMA LeaveZoomsSteady ==
  ASSUME NEW s, NEW X, NEW D, NEW T, NEW B, Steady(s, X, D, T, B), NEW p,
         p = NoPane \/ \A v \in Tabs \ B : p \notin LeavesIn(s.tabs, v) \cup Stale(X, v)
  PROVE  Reshaped(s, LeaveZoomsOf(s, p), X, D, T, B) /\ HistoriesKept(s, LeaveZoomsOf(s, p))
<1>1. PICK r : r = LeaveZoomsOf(s, p)
  OBVIOUS
<1>2. SessionShape(s)
  BY DEF Steady
<1>3. OnlyClients(s, r) /\ \A c \in DOMAIN s.clients : r.clients[c] = ClearZoomOfPane(s.clients[c], p)
  BY <1>1, <1>2, LeaveZoomsShape
<1>4. ASSUME NEW c \in DOMAIN s.clients
      PROVE  /\ Recast(s.clients[c], r.clients[c], s.tabs, X, c \in D, B)
             /\ r.clients[c].active = s.clients[c].active /\ r.clients[c].hist = s.clients[c].hist
  <2>1. PICK k, m : k = s.clients[c] /\ m = r.clients[c]
    OBVIOUS
  <2>2. /\ Fits(k, s.tabs, X) /\ (c \in D \/ Landed(k, s.tabs)) /\ m = ClearZoomOfPane(k, p)
        /\ k.active \in DOMAIN s.tabs \/ DOMAIN s.tabs = {}
    BY <1>3, <2>1 DEF Steady
  <2>3. /\ Fits(m, s.tabs, X) /\ m.active = k.active /\ m.area = k.area /\ m.hist = k.hist
        /\ \A v \in Tabs : m.zoom[v] = (IF k.zoom[v] = p THEN NoPane ELSE k.zoom[v])
    BY <2>2, ClearZoomsRecord
  <2>4. c \in D \/ Landed(m, s.tabs)
    BY <2>2, <2>3 DEF Landed
  <2>5. k.active \in Tabs /\ k.hist[k.active] \in Seq(Panes)
    BY <2>2 DEF Fits, Client
  <2>6. SameView(k, m, B)
    <3>1. CASE m.zoom[k.active] = k.zoom[k.active] \/ k.active \in B
      BY <2>3, <3>1 DEF SameView
    <3>2. CASE m.zoom[k.active] # k.zoom[k.active] /\ k.active \notin B
      <4>1. k.zoom[k.active] = p /\ p # NoPane
        BY <2>3, <2>5, <3>2
      <4>2. ViewOK(k.hist[k.active], k.zoom[k.active], LeavesIn(s.tabs, k.active) \cup Stale(X, k.active))
        BY <2>2, <2>5 DEF Fits
      <4>3. p = HeadOf(k.hist[k.active]) /\ k.hist[k.active] # <<>>
        BY <4>1, <4>2 DEF ViewOK, HeadOf
      <4>4. p \in Range(k.hist[k.active])
        BY <2>5, <4>3, RangeFacts DEF HeadOf
      <4>5. p \in LeavesIn(s.tabs, k.active) \cup Stale(X, k.active)
        BY <4>2, <4>4 DEF ViewOK
      <4>6. QED
        BY <2>5, <3>2, <4>1, <4>5
    <3>3. QED
      BY <3>1, <3>2
  <2>7. QED
    BY <2>1, <2>3, <2>4, <2>6 DEF Recast
<1>5. Steady(r, X, D, T, B)
  BY <1>3, <1>4, RecordsSteady
<1>6. QED
  BY <1>1, <1>3, <1>4, <1>5 DEF Reshaped, HistoriesKept

\* The histories of the tabs other than t are as they were.
OthersKept(s, r, t) ==
  \A c \in DOMAIN s.clients : \A v \in Tabs \ {t} : r.clients[c].hist[v] = s.clients[c].hist[v]

\* Once nobody focuses a pane that left, it can leave every history.
LEMMA ForgetPaneSteady ==
  ASSUME NEW s, NEW X, NEW D, NEW T, NEW B, Steady(s, X, D, T, B), NEW p, NEW t \in Tabs, t \in B,
         \A c \in DOMAIN s.clients : HeadOf(s.clients[c].hist[t]) # p
  PROVE  /\ Reshaped(s, ForgetPane(s, t, p), Freed(X, t, p), D, T, B)
         /\ OthersKept(s, ForgetPane(s, t, p), t)
<1>1. PICK r, Y : r = ForgetPane(s, t, p) /\ Y = Freed(X, t, p)
  OBVIOUS
<1>2. SessionShape(s)
  BY DEF Steady
<1>3. /\ OnlyClients(s, r)
      /\ \A c \in DOMAIN s.clients : r.clients[c] = RemovePaneFromFocusHistory(s.clients[c], t, p)
  BY <1>1, <1>2, ForgetPaneShape
<1>4. ASSUME NEW c \in DOMAIN s.clients
      PROVE  /\ Recast(s.clients[c], r.clients[c], s.tabs, Y, c \in D, B)
             /\ \A v \in Tabs \ {t} : r.clients[c].hist[v] = s.clients[c].hist[v]
  <2>1. PICK k, m : k = s.clients[c] /\ m = r.clients[c]
    OBVIOUS
  <2>2. /\ Fits(k, s.tabs, X) /\ (c \in D \/ Landed(k, s.tabs)) /\ m = RemovePaneFromFocusHistory(k, t, p)
        /\ HeadOf(k.hist[t]) # p
    BY <1>3, <2>1 DEF Steady
  <2>3. /\ Fits(m, s.tabs, Y) /\ m.active = k.active /\ m.area = k.area
        /\ (k.hist[t] # <<>> => m.hist[t] # <<>>) /\ m.zoom = k.zoom
        /\ \A v \in Tabs \ {t} : m.hist[v] = k.hist[v]
    BY <1>1, <2>2, ForgetRecord
  <2>4. k.active \in Tabs
    BY <2>2 DEF Fits, Client
  <2>5. c \in D \/ Landed(m, s.tabs)
    BY <2>2, <2>3, <2>4 DEF Landed
  <2>6. SameView(k, m, B)
    BY <2>3, <2>4 DEF SameView
  <2>7. QED
    BY <2>1, <2>3, <2>5, <2>6 DEF Recast
<1>5. Steady(r, Y, D, T, B)
  BY <1>3, <1>4, RecordsSteady
<1>6. QED
  BY <1>1, <1>3, <1>4, <1>5 DEF Reshaped, OthersKept

\* repair_focus_after_pane_left: handing on the focus of the clients that focused
\* the pane, then forgetting it, leaves no stale history.
LEMMA PaneLeftSteady ==
  ASSUME NEW s, NEW X, NEW D, NEW T, NEW B, Steady(s, X, D, T, B), NEW g \in Geometries,
         NEW t \in DOMAIN s.tabs, t \in B, t \notin T, NEW p, p \notin Leaves(s, t), NEW focusing,
         \A c \in DOMAIN s.clients \ focusing : HeadOf(s.clients[c].hist[t]) # p
  PROVE  /\ Reshaped(s, RepairAfterPaneLeft(s, t, p, focusing, g), Freed(X, t, p), D, T, B)
         /\ OthersKept(s, RepairAfterPaneLeft(s, t, p, focusing, g), t)
<1>1. PICK r : r = RepairFocus(s, focusing, t, g)
  OBVIOUS
<1>2. t \in Tabs
  BY DEF Steady, SessionShape
<1>3. /\ Steady(r, X, D, T, B) /\ OnlyClients(s, r)
      /\ \A c \in DOMAIN s.clients :
            /\ Handed(s.clients[c], r.clients[c], t, Leaves(s, t))
            /\ c \notin focusing => r.clients[c] = s.clients[c]
            /\ c \in focusing => HeadOf(r.clients[c].hist[t]) \in Leaves(s, t)
  BY <1>1, RepairSteady
<1>4. \A c \in DOMAIN r.clients : HeadOf(r.clients[c].hist[t]) # p
  BY <1>3 DEF OnlyClients
<1>5. Reshaped(r, ForgetPane(r, t, p), Freed(X, t, p), D, T, B) /\ OthersKept(r, ForgetPane(r, t, p), t)
  BY <1>2, <1>3, <1>4, ForgetPaneSteady
<1>6. OthersKept(s, ForgetPane(r, t, p), t)
  BY <1>3, <1>5 DEF OthersKept, Handed, OnlyClients
<1>7. QED
  BY <1>1, <1>3, <1>5, <1>6 DEF Reshaped, OnlyClients, RepairAfterPaneLeft

\* A pane without a record is out of its tab's tree: the trees stay planted.
LEMMA UprootOne ==
  ASSUME NEW s, NEW r, NEW t \in DOMAIN s.tabs, NEW p, Rooted(s), p \in Leaves(s, t),
         DOMAIN r.tabs = DOMAIN s.tabs, r.lifecycle = s.lifecycle, r.panes = s.panes \ {p},
         \A w \in DOMAIN s.tabs : r.tabs[w].index = s.tabs[w].index,
         \A w \in DOMAIN s.tabs \ {t} : r.tabs[w].leaves = s.tabs[w].leaves,
         Distinct(r.tabs[t].leaves), Range(r.tabs[t].leaves) = Leaves(s, t) \ {p}
  PROVE  Rooted(r)
<1>1. Dense(r.tabs)
  <2>1. {r.tabs[v].index : v \in DOMAIN r.tabs} = {s.tabs[v].index : v \in DOMAIN s.tabs}
    OBVIOUS
  <2>2. QED
    BY <2>1 DEF Rooted, Dense
<1>2. \A v \in DOMAIN r.tabs : Distinct(r.tabs[v].leaves)
  BY DEF Rooted, Planted
<1>3. \A v \in DOMAIN s.tabs :
          \A x : x \in Range(s.tabs[v].leaves) /\ x # p => x \in Range(r.tabs[v].leaves)
  BY DEF Leaves
<1>4. \A v \in DOMAIN s.tabs : Range(r.tabs[v].leaves) \subseteq Range(s.tabs[v].leaves)
  BY DEF Leaves
<1>5. \A x \in r.panes : \E v \in DOMAIN r.tabs : x \in Range(r.tabs[v].leaves)
  BY <1>3 DEF Rooted, Planted
<1>6. \A v, w \in DOMAIN s.tabs : v # w => Range(s.tabs[v].leaves) \cap Range(s.tabs[w].leaves) = {}
  BY DEF Rooted, Planted
<1>7. \A v, w \in DOMAIN r.tabs : v # w => Range(r.tabs[v].leaves) \cap Range(r.tabs[w].leaves) = {}
  BY <1>4, <1>6
<1>8. QED
  BY <1>1, <1>2, <1>5, <1>7 DEF Rooted, Planted, Lives

\* A session whose registry lost the record of a pane.
Unrecorded(s, p) == [s EXCEPT !.panes = @ \ {p}]

\* A pane that lost its record while a leaf: the session is steady but for its tab.
LEMMA UnrecordedSteady ==
  ASSUME NEW s, NEW t \in DOMAIN s.tabs, WholeBut(s, {t}), NEW p \in Leaves(s, t),
         NEW r, r = Unrecorded(s, p), NEW B, B = {t}, NEW X, X = {}
  PROVE  /\ Steady(r, X, X, B, B) /\ r.tabs = s.tabs /\ r.clients = s.clients
         /\ r.panes = s.panes \ {p} /\ r.lifecycle = s.lifecycle
<1>1. Steady(s, {}, {}, {}, {t}) /\ Planted(s.tabs, s.panes)
  BY DEF WholeBut, Rooted
<1>2. /\ DOMAIN r = DOMAIN s /\ r.tabs = s.tabs /\ r.clients = s.clients
      /\ r.panes = s.panes \ {p} /\ r.lifecycle = s.lifecycle
  BY <1>1 DEF Steady, SessionShape, Unrecorded
<1>3. SessionShape(r)
  BY <1>1, <1>2 DEF Steady, SessionShape
<1>4. ASSUME NEW v \in DOMAIN r.tabs PROVE TabOK(r.tabs[v], r.panes, v \in {t})
  <2>1. TabOK(s.tabs[v], s.panes, FALSE) /\ (v # t => p \notin Range(s.tabs[v].leaves))
    BY <1>1, <1>2 DEF Steady, TabOK, Planted, Leaves
  <2>2. QED
    BY <1>2, <2>1 DEF TabOK
<1>5. ASSUME NEW v \in DOMAIN r.tabs \ {t} PROVE Settled(r, v)
  <2>1. \A d \in DOMAIN s.clients \cup DOMAIN r.clients : Aside(s, r, d, {t})
    BY <1>2 DEF Aside, SameView
  <2>2. v \in DOMAIN s.tabs /\ v \notin {t} /\ Settled(s, v) /\ SameSolve(s.tabs[v], r.tabs[v])
    BY <1>1, <1>2 DEF Steady, SameSolve
  <2>3. QED
    BY <1>2, <2>1, <2>2, SettledKept
<1>6. Steady(r, {}, {}, {t}, {t})
  BY <1>1, <1>2, <1>3, <1>4, <1>5 DEF Steady
<1>7. QED
  BY <1>2, <1>6

\* remove_pane_from_tab leaves the session whole but for the pane's tab.
LEMMA RemovePaneWhole ==
  ASSUME NEW s, NEW t \in DOMAIN s.tabs, WholeBut(s, {t}), NEW p \in Leaves(s, t), NEW gone,
         gone = Unrecorded(s, p), NEW g \in Geometries
  PROVE  WholeBut(RemovePaneFromTab(gone, t, p, g), {t})
<1>1. PICK focusing : focusing = Focusing(gone, t, p)
  OBVIOUS
<1>2. PICK ranked : ranked = KeepSolves(gone, focusing, t)
  OBVIOUS
<1>3. PICK leaves : leaves = Without(s.tabs[t].leaves, p)
  OBVIOUS
<1>4. /\ Steady(gone, {}, {}, {t}, {t}) /\ gone.tabs = s.tabs /\ gone.clients = s.clients
      /\ gone.panes = s.panes \ {p} /\ gone.lifecycle = s.lifecycle
  <2>1. PICK B, X : B = {t} /\ X = {}
    OBVIOUS
  <2>2. /\ Steady(gone, X, X, B, B) /\ gone.tabs = s.tabs /\ gone.clients = s.clients
        /\ gone.panes = s.panes \ {p} /\ gone.lifecycle = s.lifecycle
    BY <2>1, UnrecordedSteady
  <2>3. QED
    BY <2>1, <2>2
<1>5. /\ SessionShape(s) /\ t \in Tabs /\ s.tabs[t].leaves \in Seq(Panes) /\ Distinct(s.tabs[t].leaves)
      /\ Leaves(s, t) \subseteq s.panes /\ p \in Panes /\ p # NoPane
      /\ Dense(s.tabs) /\ Lives(s) /\ Planted(s.tabs, s.panes)
  <2>1. /\ SessionShape(s) /\ t \in Tabs /\ s.tabs[t].leaves \in Seq(Panes) /\ Distinct(s.tabs[t].leaves)
        /\ Leaves(s, t) \subseteq s.panes /\ Dense(s.tabs) /\ Lives(s) /\ Planted(s.tabs, s.panes)
    BY DEF WholeBut, Steady, SessionShape, TabOK, Tab, Leaves, Rooted, Planted
  <2>2. p \in Panes
    BY <2>1 DEF SessionShape
  <2>3. QED
    BY <2>1, <2>2, SessionConstants
<1>6. leaves \in Seq(Panes) /\ Range(leaves) = Leaves(s, t) \ {p} /\ Distinct(leaves)
  BY <1>3, <1>5, WithoutFacts DEF Leaves
<1>7. \A v \in DOMAIN s.tabs \ {t} : p \notin Range(s.tabs[v].leaves)
  BY <1>5 DEF Planted, Leaves
<1>8. PICK X : X = {}
  OBVIOUS
<1>9. Reshaped(gone, ranked, X, X, {t}, {t}) /\ HistoriesKept(gone, ranked)
  <2>1. Steady(gone, X, X, {t}, {t}) /\ t \in DOMAIN gone.tabs
    BY <1>4, <1>8
  <2>2. QED
    BY <1>2, <2>1, KeepSteady
<1>10. /\ Steady(ranked, X, X, {t}, {t}) /\ ranked.tabs = s.tabs /\ ranked.panes = s.panes \ {p}
       /\ ranked.lifecycle = s.lifecycle /\ DOMAIN ranked.clients = DOMAIN s.clients
       /\ \A c \in DOMAIN s.clients : ranked.clients[c].hist = s.clients[c].hist
  BY <1>4, <1>9 DEF Reshaped, OnlyClients, HistoriesKept
<1>11. RemovePaneFromTab(gone, t, p, g) =
         IF leaves = <<>> THEN CloseAndRefocusTab(LeaveZoomsOf(ranked, p), t, g)
         ELSE RepairAfterPaneLeft(
                  LeaveZoomsOf(UpdateTabLayout(ranked, t, leaves, g), p), t, p, focusing, g)
  BY <1>1, <1>2, <1>3, <1>4 DEF RemovePaneFromTab
<1>12. CASE leaves = <<>>
  <2>1. PICK q : q = LeaveZoomsOf(ranked, p)
    OBVIOUS
  <2>2. Reshaped(ranked, q, X, X, {t}, {t})
    <3>1. \A v \in Tabs \ {t} : p \notin LeavesIn(ranked.tabs, v) \cup Stale(X, v)
      BY <1>7, <1>8, <1>10 DEF LeavesIn, Stale
    <3>2. QED
      BY <1>10, <2>1, <3>1, LeaveZoomsSteady
  <2>3. /\ Steady(q, {}, {}, {t}, {t}) /\ q.tabs = s.tabs /\ q.panes = s.panes \ {p}
        /\ q.lifecycle = s.lifecycle
    BY <1>8, <1>10, <2>2 DEF Reshaped, OnlyClients
  <2>4. Dense(q.tabs) /\ Lives(q) /\ t \in DOMAIN q.tabs
    BY <1>5, <2>3 DEF Lives
  <2>5. PlantedWithout(q, t)
    <3>1. PICK ts : ts = [u \in DOMAIN q.tabs \ {t} |-> q.tabs[u]]
      OBVIOUS
    <3>2. DOMAIN ts = DOMAIN s.tabs \ {t} /\ \A v \in DOMAIN ts : ts[v] = s.tabs[v]
      BY <2>3, <3>1
    <3>3. Range(s.tabs[t].leaves) = {p}
      <4>1. Range(leaves) = {}
        BY <1>12 DEF Range
      <4>2. QED
        BY <1>6, <4>1 DEF Leaves
    <3>4. \A x \in s.panes \ {p} : \E v \in DOMAIN ts : x \in Range(ts[v].leaves)
      BY <1>5, <3>2, <3>3 DEF Planted
    <3>5. Planted(ts, s.panes \ {p})
      BY <1>5, <3>2, <3>4 DEF Planted
    <3>6. QED
      BY <2>3, <3>1, <3>5 DEF PlantedWithout
  <2>6. WholeBut(CloseAndRefocusTab(q, t, g), {t} \ {t})
    BY <2>3, <2>4, <2>5, CloseWhole
  <2>7. WholeBut(CloseAndRefocusTab(q, t, g), {t})
    BY <2>6, SteadyMore DEF WholeBut
  <2>8. QED
    BY <1>11, <1>12, <2>1, <2>7
<1>13. CASE leaves # <<>>
  <2>1. PICK Y : Y = {<<t, p>>}
    OBVIOUS
  <2>2. PICK laid : laid = UpdateTabLayout(ranked, t, leaves, g)
    OBVIOUS
  <2>3. PICK z : z = LeaveZoomsOf(laid, p)
    OBVIOUS
  <2>4. PICK f : f = RepairAfterPaneLeft(z, t, p, focusing, g)
    OBVIOUS
  <2>5. /\ Steady(laid, Y, X, {t} \ {t}, {t}) /\ Touches(ranked, laid, t) /\ laid.tabs[t].leaves = leaves
    <3>1. /\ t \in DOMAIN ranked.tabs /\ t \in {t} /\ X \subseteq Y
          /\ Range(leaves) \subseteq ranked.panes
          /\ Leaves(ranked, t) \subseteq Range(leaves) \cup Stale(Y, t)
      BY <1>5, <1>6, <1>8, <1>10, <2>1 DEF Leaves, Stale
    <3>2. LaidOut(ranked, UpdateTabLayout(ranked, t, leaves, g), Y, X, {t}, {t}, t, leaves, ranked.tabs[t].size)
      BY <1>6, <1>10, <1>13, <3>1, LayoutSteady
    <3>3. QED
      BY <2>2, <3>2 DEF LaidOut
  <2>6. PICK T : T = {t} \ {t}
    OBVIOUS
  <2>7. /\ DOMAIN laid.tabs = DOMAIN s.tabs /\ laid.panes = s.panes \ {p} /\ laid.lifecycle = s.lifecycle
        /\ DOMAIN laid.clients = DOMAIN s.clients
        /\ \A w \in DOMAIN s.tabs : laid.tabs[w].index = s.tabs[w].index
        /\ \A w \in DOMAIN s.tabs \ {t} : laid.tabs[w].leaves = s.tabs[w].leaves
    BY <1>10, <2>5 DEF Touches
  <2>8. Reshaped(laid, z, Y, X, T, {t}) /\ HistoriesKept(laid, z)
    <3>1. Steady(laid, Y, X, T, {t})
      BY <2>5, <2>6
    <3>2. \A v \in Tabs \ {t} : p \notin LeavesIn(laid.tabs, v) \cup Stale(Y, v)
      BY <1>7, <2>1, <2>7 DEF LeavesIn, Stale
    <3>3. QED
      BY <2>3, <3>1, <3>2, LeaveZoomsSteady
  <2>9. /\ Steady(z, Y, X, T, {t}) /\ z.tabs = laid.tabs /\ t \in DOMAIN z.tabs
        /\ DOMAIN z.clients = DOMAIN s.clients /\ t \in {t} /\ t \notin T
    BY <2>6, <2>7, <2>8 DEF Reshaped, OnlyClients
  <2>10. p \notin Leaves(z, t)
    BY <1>6, <2>5, <2>9 DEF Leaves
  <2>11. ASSUME NEW c \in DOMAIN z.clients \ focusing PROVE HeadOf(z.clients[c].hist[t]) # p
    <3>1. z.clients[c].hist[t] = laid.clients[c].hist[t]
      BY <2>7, <2>8, <2>9 DEF HistoriesKept
    <3>2. HeadOf(ranked.clients[c].hist[t]) # p
      <4>1. ranked.clients[c].hist[t] = gone.clients[c].hist[t] /\ c \in DOMAIN gone.clients
        BY <1>4, <1>10, <2>9
      <4>2. QED
        BY <1>1, <1>5, <2>9, <4>1 DEF Focusing, Focused, HeadOf
    <3>3. \/ laid.clients[c].hist[t] = ranked.clients[c].hist[t]
          \/ HeadOf(laid.clients[c].hist[t]) \in LeavesIn(laid.tabs, t)
      BY <1>10, <2>5, <2>9 DEF Touches, Handed
    <3>4. p \notin LeavesIn(laid.tabs, t)
      BY <2>9, <2>10 DEF LeavesIn, Leaves
    <3>5. QED
      BY <3>1, <3>2, <3>3, <3>4
  <2>12. Reshaped(z, f, Freed(Y, t, p), X, T, {t})
    <3>1. Reshaped(z, RepairAfterPaneLeft(z, t, p, focusing, g), Freed(Y, t, p), X, T, {t})
      BY <2>9, <2>10, <2>11, PaneLeftSteady
    <3>2. QED
      BY <2>4, <3>1
  <2>13. Steady(f, {}, {}, {}, {t})
    <3>1. Freed(Y, t, p) = {} /\ X = {} /\ T = {}
      BY <1>8, <2>1, <2>6 DEF Freed
    <3>2. QED
      BY <2>12, <3>1 DEF Reshaped
  <2>14. Rooted(f)
    <3>1. /\ DOMAIN f.tabs = DOMAIN s.tabs /\ f.lifecycle = s.lifecycle /\ f.panes = s.panes \ {p}
          /\ \A w \in DOMAIN s.tabs : f.tabs[w].index = s.tabs[w].index
          /\ \A w \in DOMAIN s.tabs \ {t} : f.tabs[w].leaves = s.tabs[w].leaves
          /\ f.tabs[t].leaves = leaves
      BY <2>5, <2>7, <2>8, <2>12 DEF Reshaped, OnlyClients
    <3>2. Distinct(f.tabs[t].leaves) /\ Range(f.tabs[t].leaves) = Leaves(s, t) \ {p} /\ Rooted(s)
      BY <1>6, <3>1 DEF WholeBut
    <3>3. QED
      BY <3>1, <3>2, UprootOne
  <2>15. QED
    BY <1>11, <1>13, <2>2, <2>3, <2>4, <2>13, <2>14 DEF WholeBut
<1>14. QED
  BY <1>12, <1>13

\* The reflow settles the tab, or there is none to settle.
LEMMA ReflowWhole ==
  ASSUME NEW s, NEW t, WholeBut(s, {t}), NEW viewers, NEW g \in Geometries
  PROVE  WholeBut(ReflowLanding(s, t, viewers, g), {})
<1>1. PICK S : S = IF t \in DOMAIN s.tabs THEN {t} ELSE {s.clients[c].active : c \in viewers}
  OBVIOUS
<1>2. PICK x : x = CHOOSE u \in S : TRUE
  OBVIOUS
<1>3. ReflowLanding(s, t, viewers, g) = IF S = {} THEN s ELSE UpdateTabSolve(s, x, g)
  BY <1>1, <1>2 DEF ReflowLanding
<1>4. CASE t \in DOMAIN s.tabs
  <2>1. S = {t} /\ x = t
    BY <1>1, <1>2, <1>4
  <2>2. WholeBut(UpdateTabSolve(s, t, g), {t} \ {t})
    BY SolveWhole
  <2>3. {t} \ {t} = {} /\ S # {}
    BY <2>1
  <2>4. QED
    BY <1>3, <2>1, <2>2, <2>3
<1>5. CASE t \notin DOMAIN s.tabs
  <2>1. WholeBut(s, {})
    BY <1>5 DEF WholeBut, Steady
  <2>2. WholeBut(UpdateTabSolve(s, x, g), {} \ {x})
    BY <2>1, SolveWhole
  <2>3. {} \ {x} = {}
    OBVIOUS
  <2>4. QED
    BY <1>3, <2>1, <2>2, <2>3
<1>6. QED
  BY <1>4, <1>5

\* remove_pane_cascade and the reflow leave the session whole.
LEMMA RemoveAndReflowWhole ==
  ASSUME NEW s, NEW t \in DOMAIN s.tabs, WholeBut(s, {t}), NEW p \in Leaves(s, t), NEW g \in Geometries
  PROVE  WholeBut(RemovePaneAndReflow(s, t, p, g), {})
<1>1. PICK gone : gone = Unrecorded(s, p)
  OBVIOUS
<1>2. PICK r : r = RemovePaneFromTab(gone, t, p, g)
  OBVIOUS
<1>3. WholeBut(r, {t})
  BY <1>1, <1>2, RemovePaneWhole
<1>4. WholeBut(ReflowLanding(r, t, Viewers(s, t), g), {})
  BY <1>3, ReflowWhole
<1>5. QED
  BY <1>1, <1>2, <1>4 DEF RemovePaneAndReflow, Unrecorded

\* ChildExit, also in a session that stops.
LEMMA ChildExitKeeps ==
  ASSUME SessionInv, NEW p, NEW g \in Geometries, ChildExit(p, g)
  PROVE  SessionInv'
<1>1. PICK s : s = Session
  OBVIOUS
<1>2. PICK t : t = TabOf(s, p)
  OBVIOUS
<1>3. WholeBut(s, {}) /\ p \in s.panes /\ Commit(RemovePaneAndReflow(s, t, p, g))
  BY <1>1, <1>2, SessionParts DEF SessionInv, ChildExit
<1>4. t \in DOMAIN s.tabs /\ p \in Leaves(s, t)
  BY <1>2, <1>3, PaneHome
<1>5. WholeBut(s, {t})
  BY <1>3, SteadyMore DEF WholeBut
<1>6. WholeBut(RemovePaneAndReflow(s, t, p, g), {})
  BY <1>4, <1>5, RemoveAndReflowWhole
<1>7. QED
  BY <1>3, <1>6, CommitWhole

\* ClosePane: the client's zoom is left first.
LEMMA ClosePaneKeeps ==
  ASSUME SessionInv, NEW d, NEW p, NEW g \in Geometries, ClosePane(d, p, g)
  PROVE  SessionInv'
<1>1. PICK s : s = Session
  OBVIOUS
<1>2. PICK t : t = TabOf(s, p)
  OBVIOUS
<1>3. PICK q : q = LeaveZoom(s, {d}, t)
  OBVIOUS
<1>4. WholeBut(s, {}) /\ p \in s.panes /\ Commit(RemovePaneAndReflow(q, t, p, g))
  BY <1>1, <1>2, <1>3, SessionParts DEF SessionInv, ClosePane
<1>5. t \in DOMAIN s.tabs /\ p \in Leaves(s, t)
  BY <1>2, <1>4, PaneHome
<1>6. t \in Tabs /\ t \in {t} /\ Steady(s, {}, {}, {}, {t}) /\ Rooted(s)
  BY <1>4, <1>5, SteadyMore DEF WholeBut, Steady, SessionShape
<1>7. Reshaped(s, q, {}, {}, {}, {t})
  BY <1>3, <1>6, LeaveZoomSteady
<1>8. WholeBut(q, {t}) /\ t \in DOMAIN q.tabs /\ p \in Leaves(q, t)
  BY <1>5, <1>6, <1>7 DEF WholeBut, Reshaped, OnlyClients, Rooted, Lives, Leaves
<1>9. WholeBut(RemovePaneAndReflow(q, t, p, g), {})
  BY <1>8, RemoveAndReflowWhole
<1>10. QED
  BY <1>4, <1>9, CommitWhole

\* CloseTab: the records of its panes go before the tab.
LEMMA CloseTabKeeps ==
  ASSUME SessionInv, NEW t, NEW g \in Geometries, CloseTab(t, g)
  PROVE  SessionInv'
<1>1. PICK s : s = Session
  OBVIOUS
<1>2. PICK r : r = [s EXCEPT !.panes = @ \ Leaves(s, t)]
  OBVIOUS
<1>3. PICK m : m = CloseAndRefocusTab(r, t, g)
  OBVIOUS
<1>4. /\ WholeBut(s, {}) /\ t \in DOMAIN s.tabs /\ SessionShape(s)
      /\ Commit(ReflowLanding(m, t, Viewers(r, t), g))
  BY <1>1, <1>2, <1>3, SessionParts DEF SessionInv, WholeBut, Steady, CloseTab
<1>5. /\ DOMAIN r = DOMAIN s /\ r.tabs = s.tabs /\ r.clients = s.clients
      /\ r.panes = s.panes \ Leaves(s, t) /\ r.lifecycle = s.lifecycle
  BY <1>2, <1>4 DEF SessionShape
<1>6. Planted(s.tabs, s.panes) /\ Steady(s, {}, {}, {}, {t})
  BY <1>4, SteadyMore DEF WholeBut, Rooted
<1>7. Steady(r, {}, {}, {t}, {t})
  <2>1. SessionShape(r)
    BY <1>4, <1>5 DEF SessionShape
  <2>2. ASSUME NEW v \in DOMAIN r.tabs PROVE TabOK(r.tabs[v], r.panes, v \in {t})
    <3>1. TabOK(s.tabs[v], s.panes, FALSE) /\ (v # t => Leaves(s, t) \cap Range(s.tabs[v].leaves) = {})
      BY <1>4, <1>5, <1>6 DEF Steady, TabOK, Planted, Leaves
    <3>2. QED
      BY <1>5, <3>1 DEF TabOK
  <2>3. ASSUME NEW v \in DOMAIN r.tabs \ {t} PROVE Settled(r, v)
    <3>1. \A d \in DOMAIN s.clients \cup DOMAIN r.clients : Aside(s, r, d, {t})
      BY <1>5 DEF Aside, SameView
    <3>2. v \in DOMAIN s.tabs /\ v \notin {t} /\ Settled(s, v) /\ SameSolve(s.tabs[v], r.tabs[v])
      BY <1>5, <1>6 DEF Steady, SameSolve
    <3>3. QED
      BY <1>5, <3>1, <3>2, SettledKept
  <2>4. QED
    BY <1>5, <1>6, <2>1, <2>2, <2>3 DEF Steady
<1>8. Dense(r.tabs) /\ Lives(r) /\ t \in DOMAIN r.tabs
  BY <1>4, <1>5 DEF WholeBut, Rooted, Lives
<1>9. PlantedWithout(r, t)
  <2>1. PICK ts : ts = [u \in DOMAIN r.tabs \ {t} |-> r.tabs[u]]
    OBVIOUS
  <2>2. DOMAIN ts = DOMAIN s.tabs \ {t} /\ \A v \in DOMAIN ts : ts[v] = s.tabs[v]
    BY <1>5, <2>1
  <2>3. \A x \in r.panes : \E v \in DOMAIN ts : x \in Range(ts[v].leaves)
    BY <1>5, <1>6, <2>2 DEF Planted, Leaves
  <2>4. Planted(ts, r.panes)
    BY <1>6, <2>2, <2>3 DEF Planted
  <2>5. QED
    BY <2>1, <2>4 DEF PlantedWithout
<1>10. WholeBut(m, {t} \ {t})
  BY <1>3, <1>7, <1>8, <1>9, CloseWhole
<1>11. WholeBut(m, {t})
  BY <1>10, SteadyMore DEF WholeBut
<1>12. WholeBut(ReflowLanding(m, t, Viewers(r, t), g), {})
  BY <1>11, ReflowWhole
<1>13. QED
  BY <1>4, <1>12, CommitWhole

-----------------------------------------------------------------------------
(* Placing a pane in another tab *)

\* A set of stale panes may be replaced by one that covers it.
LEMMA SteadyStale ==
  ASSUME NEW s, NEW X, NEW D, NEW T, NEW B, Steady(s, X, D, T, B), NEW Y,
         \A v \in Tabs : Stale(X, v) \subseteq Stale(Y, v)
  PROVE  Steady(s, Y, D, T, B)
<1>1. ASSUME NEW c \in DOMAIN s.clients PROVE Fits(s.clients[c], s.tabs, Y)
  <2>1. PICK k : k = s.clients[c]
    OBVIOUS
  <2>2. Fits(k, s.tabs, X)
    BY <2>1 DEF Steady
  <2>3. ASSUME NEW v \in Tabs PROVE ViewOK(k.hist[v], k.zoom[v], LeavesIn(s.tabs, v) \cup Stale(Y, v))
    <3>1. /\ ViewOK(k.hist[v], k.zoom[v], LeavesIn(s.tabs, v) \cup Stale(X, v))
          /\ Stale(X, v) \subseteq Stale(Y, v)
      BY <2>2 DEF Fits
    <3>2. QED
      BY <3>1 DEF ViewOK
  <2>4. QED
    BY <2>1, <2>2, <2>3 DEF Fits
<1>2. QED
  BY <1>1 DEF Steady

\* Solving a set of tabs takes them out of those that are not settled.
LEMMA SolveEachWhole ==
  ASSUME NEW s, NEW B, WholeBut(s, B), NEW g \in Geometries, NEW S
  PROVE  WholeBut(SolveEachTab(s, S, g), B \ S)
<1>1. PICK X : X = {}
  OBVIOUS
<1>2. PICK r : r = SolveEachTab(s, S, g)
  OBVIOUS
<1>3. Steady(s, X, X, X, B) /\ S \cap X = {}
  BY <1>1 DEF WholeBut
<1>4. Steady(r, X, X, X, B \ S) /\ SameTrees(s, r)
  BY <1>2, <1>3, SolveEachSteady
<1>5. Rooted(r)
  BY <1>4, RootedKept DEF WholeBut
<1>6. QED
  BY <1>1, <1>2, <1>4, <1>5 DEF WholeBut

\* The clients of S went onto pane p of tab t.
MovedOnto(s, r, S, t, p) ==
  \A d \in DOMAIN s.clients :
    /\ d \notin S => r.clients[d] = s.clients[d]
    /\ d \in S => /\ HeadOf(r.clients[d].hist[t]) = p
                  /\ \A v \in Tabs \ {t} : r.clients[d].hist[v] = s.clients[d].hist[v]

\* Clients moved onto a leaf of a tab focus it there, tiled.
LEMMA MoveOntoSteady ==
  ASSUME NEW s, NEW X, NEW D, NEW T, NEW B, Steady(s, X, D, T, B), NEW S, NEW t, NEW p,
         \A d \in S \cap DOMAIN s.clients :
            /\ s.clients[d].active \in B /\ t \in DOMAIN s.tabs /\ t \in B /\ p \in Leaves(s, t)
  PROVE  /\ Reshaped(s, MoveOntoPane(s, S, t, p), X, D, T, B)
         /\ MovedOnto(s, MoveOntoPane(s, S, t, p), S, t, p)
<1>1. PICK r : r = MoveOntoPane(s, S, t, p)
  OBVIOUS
<1>2. SessionShape(s)
  BY DEF Steady
<1>3. /\ OnlyClients(s, r)
      /\ \A d \in DOMAIN s.clients : r.clients[d] =
             IF d \in S THEN MoveOntoTiledPane(s.clients[d], t, p) ELSE s.clients[d]
  BY <1>1, <1>2, MoveOntoShape
<1>4. ASSUME NEW d \in DOMAIN s.clients
      PROVE  /\ Recast(s.clients[d], r.clients[d], s.tabs, X, d \in D, B)
             /\ d \notin S => r.clients[d] = s.clients[d]
             /\ d \in S => /\ HeadOf(r.clients[d].hist[t]) = p
                           /\ \A v \in Tabs \ {t} : r.clients[d].hist[v] = s.clients[d].hist[v]
  <2>1. PICK k, m : k = s.clients[d] /\ m = r.clients[d]
    OBVIOUS
  <2>2. Fits(k, s.tabs, X) /\ (d \in D \/ Landed(k, s.tabs)) /\ k.active \in Tabs
    BY <2>1 DEF Steady, Fits, Client
  <2>3. CASE d \notin S
    BY <1>3, <2>1, <2>2, <2>3 DEF Recast, SameView
  <2>4. CASE d \in S
    <3>1. /\ t \in Tabs /\ p \in LeavesIn(s.tabs, t) /\ p \in Panes /\ k.active \in B /\ t \in B
          /\ t \in DOMAIN s.tabs
      <4>1. t \in DOMAIN s.tabs /\ p \in Leaves(s, t) /\ k.active \in B /\ t \in B
        BY <2>1, <2>4
      <4>2. s.tabs[t].leaves \in Seq(Panes) /\ t \in Tabs
        BY <4>1 DEF Steady, TabOK, Tab, SessionShape
      <4>3. QED
        BY <4>1, <4>2, RangeFacts DEF LeavesIn, Leaves
    <3>2. PICK a : a = ClearZoom(k, t)
      OBVIOUS
    <3>3. PICK b : b = UpdateActiveTab(a, t)
      OBVIOUS
    <3>4. Fits(a, s.tabs, X) /\ a.hist = k.hist
      BY <2>2, <3>1, <3>2, ClearZoomRecord
    <3>5. Fits(b, s.tabs, X) /\ b.active = t /\ b.hist = k.hist
      BY <3>1, <3>3, <3>4, ShowRecord
    <3>6. m = UpdateFocusedPane(b, t, p)
      BY <1>3, <2>1, <2>4, <3>2, <3>3 DEF MoveOntoTiledPane
    <3>7. /\ Fits(m, s.tabs, X) /\ m.active = b.active /\ m.hist[t] # <<>> /\ HeadOf(m.hist[t]) = p
          /\ \A v \in Tabs \ {t} : m.hist[v] = b.hist[v]
      BY <3>1, <3>5, <3>6, FocusRecord
    <3>8. Recast(k, m, s.tabs, X, d \in D, B)
      BY <3>1, <3>5, <3>7 DEF Recast, Landed, SameView
    <3>9. QED
      BY <2>1, <2>4, <3>5, <3>7, <3>8
  <2>5. QED
    BY <2>3, <2>4
<1>5. Steady(r, X, D, T, B)
  BY <1>3, <1>4, RecordsSteady
<1>6. QED
  BY <1>1, <1>3, <1>4, <1>5 DEF Reshaped, MovedOnto

\* What the two tabs of a placement are given: pane p goes from t to u, and
\* pane q, if there is one, comes back.
Placing(s, p, t, u, q, rest, placed) ==
  /\ t \in DOMAIN s.tabs /\ u \in DOMAIN s.tabs /\ t # u /\ p \in Leaves(s, t)
  /\ q = NoPane \/ q \in Leaves(s, u)
  /\ rest \in Seq(Panes) /\ placed \in Seq(Panes) /\ Distinct(rest) /\ Distinct(placed)
  /\ Range(rest) = (Leaves(s, t) \ {p}) \cup ({q} \ {NoPane})
  /\ Range(placed) = (Leaves(s, u) \ {q}) \cup {p}

\* The steps of commit_cross_tab_placement up to the layout of the two tabs.
PlacementLaid(s, p, t, u, q, rest, placed, g) ==
  LET ranked == KeepSolves(KeepSolves(s, Focusing(s, t, p), t), Focusing(s, u, q), u)
      laid   == UpdateTabLayout(ranked, u, placed, g)
  IN  IF rest = <<>> THEN laid ELSE UpdateTabLayout(laid, t, rest, g)

\* The panes that are out of their tab and still in its histories.
PlacementStale(p, t, u, q, rest) ==
  IF rest = <<>> THEN {<<u, q>>} ELSE {<<u, q>>, <<t, p>>}

\* The trees of a placement; tab t keeps its own when it is about to close.
PlacedTrees(s, r, t, u, rest, placed) ==
  /\ r.panes = s.panes /\ r.lifecycle = s.lifecycle
  /\ DOMAIN r.tabs = DOMAIN s.tabs /\ DOMAIN r.clients = DOMAIN s.clients
  /\ \A v \in DOMAIN s.tabs : r.tabs[v].index = s.tabs[v].index
  /\ \A v \in DOMAIN s.tabs \ {t, u} : r.tabs[v].leaves = s.tabs[v].leaves
  /\ r.tabs[u].leaves = placed
  /\ r.tabs[t].leaves = IF rest = <<>> THEN s.tabs[t].leaves ELSE rest

\* A history of tab v is as it was, or begins with a pane of H.
HistoriesFrom(s, r, v, H) ==
  \A d \in DOMAIN s.clients :
    r.clients[d].hist[v] = s.clients[d].hist[v] \/ HeadOf(r.clients[d].hist[v]) \in H

\* The panes of a placement are where they should be, before and after.
LEMMA PlacingFacts ==
  ASSUME NEW s, WholeBut(s, {}), NEW p, NEW t, NEW u, NEW q, NEW rest, NEW placed,
         Placing(s, p, t, u, q, rest, placed)
  PROVE  /\ t \in Tabs /\ u \in Tabs /\ p \in Panes /\ p # NoPane /\ p # q
         /\ p \notin Range(rest) /\ q \notin Range(placed) /\ placed # <<>>
         /\ Range(rest) \subseteq s.panes /\ Range(placed) \subseteq s.panes
         /\ rest = <<>> => q = NoPane
         /\ q # NoPane => q \in Range(rest) /\ q \in Panes
         /\ \A v \in DOMAIN s.tabs \ {t} : p \notin Leaves(s, v)
         /\ \A v \in DOMAIN s.tabs \ {u} : q \notin Leaves(s, v)
<1>1. /\ SessionShape(s) /\ Planted(s.tabs, s.panes)
      /\ \A v \in DOMAIN s.tabs : Leaves(s, v) \subseteq s.panes
  BY DEF WholeBut, Steady, TabOK, Rooted, Leaves
<1>2. NoPane \notin Panes
  BY SessionConstants
<1>3. t \in Tabs /\ u \in Tabs /\ p \in Panes /\ p # NoPane /\ s.panes \subseteq Panes
  BY <1>1, <1>2 DEF Placing, SessionShape
<1>4. /\ \A v \in DOMAIN s.tabs \ {t} : p \notin Leaves(s, v)
      /\ q # NoPane => \A v \in DOMAIN s.tabs \ {u} : q \notin Leaves(s, v)
  BY <1>1 DEF Planted, Placing, Leaves
<1>5. \A v \in DOMAIN s.tabs : NoPane \notin Leaves(s, v)
  BY <1>1, <1>2, <1>3
<1>6. p # q
  BY <1>3, <1>4 DEF Placing
<1>7. placed # <<>> /\ (rest = <<>> => Range(rest) = {})
  <2>1. p \in Range(placed)
    BY DEF Placing
  <2>2. placed \in Seq(Panes) /\ rest \in Seq(Panes)
    BY DEF Placing
  <2>3. QED
    BY <2>1, <2>2, RangeFacts
<1>8. QED
  BY <1>1, <1>3, <1>4, <1>5, <1>6, <1>7 DEF Placing

\* With both tabs laid out again, p and q may be stale in the tabs they left.
LEMMA PlacementLaidSteady ==
  ASSUME NEW s, WholeBut(s, {}), NEW p, NEW t, NEW u, NEW q, NEW rest, NEW placed,
         Placing(s, p, t, u, q, rest, placed), NEW g \in Geometries, NEW B, t \in B, u \in B,
         NEW r, r = PlacementLaid(s, p, t, u, q, rest, placed, g)
  PROVE  /\ Steady(r, PlacementStale(p, t, u, q, rest), {}, {}, B)
         /\ PlacedTrees(s, r, t, u, rest, placed)
         /\ HistoriesFrom(s, r, t, Range(rest)) /\ HistoriesFrom(s, r, u, Range(placed))
         /\ \A d \in DOMAIN s.clients : r.clients[d].active = s.clients[d].active
<1>1. PICK a : a = KeepSolves(s, Focusing(s, t, p), t)
  OBVIOUS
<1>2. PICK b : b = KeepSolves(a, Focusing(s, u, q), u)
  OBVIOUS
<1>3. PICK l : l = UpdateTabLayout(b, u, placed, g)
  OBVIOUS
<1>4. r = IF rest = <<>> THEN l ELSE UpdateTabLayout(l, t, rest, g)
  BY <1>1, <1>2, <1>3 DEF PlacementLaid
<1>5. PICK X : X = {}
  OBVIOUS
<1>6. Steady(s, X, X, X, B)
  BY <1>5, SteadyMore DEF WholeBut
<1>7. /\ t \in DOMAIN s.tabs /\ u \in DOMAIN s.tabs /\ t # u /\ t \in Tabs /\ u \in Tabs
      /\ placed \in Seq(Panes) /\ rest \in Seq(Panes) /\ placed # <<>> /\ p \in Panes
      /\ Range(rest) \subseteq s.panes /\ Range(placed) \subseteq s.panes
      /\ Leaves(s, u) \subseteq Range(placed) \cup {q} /\ Leaves(s, t) \subseteq Range(rest) \cup {p}
      /\ q = NoPane \/ q \in Panes
  <2>1. /\ t \in Tabs /\ u \in Tabs /\ p \in Panes /\ p # NoPane /\ p # q
        /\ p \notin Range(rest) /\ q \notin Range(placed) /\ placed # <<>>
        /\ Range(rest) \subseteq s.panes /\ Range(placed) \subseteq s.panes
        /\ rest = <<>> => q = NoPane
        /\ q # NoPane => q \in Range(rest) /\ q \in Panes
        /\ \A v \in DOMAIN s.tabs \ {t} : p \notin Leaves(s, v)
        /\ \A v \in DOMAIN s.tabs \ {u} : q \notin Leaves(s, v)
    BY PlacingFacts
  <2>2. QED
    BY <2>1 DEF Placing
<1>8. Reshaped(s, a, X, X, X, B) /\ HistoriesKept(s, a)
  BY <1>1, <1>6, <1>7, KeepSteady
<1>9. Steady(a, X, X, X, B) /\ u \in DOMAIN a.tabs
  BY <1>7, <1>8 DEF Reshaped, OnlyClients
<1>10. Reshaped(a, b, X, X, X, B) /\ HistoriesKept(a, b)
  BY <1>2, <1>9, KeepSteady
<1>11. /\ Steady(b, X, X, X, B) /\ b.tabs = s.tabs /\ b.panes = s.panes /\ b.lifecycle = s.lifecycle
       /\ DOMAIN b.clients = DOMAIN s.clients
       /\ \A d \in DOMAIN s.clients : /\ b.clients[d].active = s.clients[d].active
                                      /\ b.clients[d].hist = s.clients[d].hist
  BY <1>8, <1>10 DEF Reshaped, OnlyClients, HistoriesKept
<1>12. PICK Y : Y = {<<u, q>>}
  OBVIOUS
<1>13. /\ Steady(l, Y, X, X, B) /\ Touches(b, l, u) /\ l.tabs[u].leaves = placed
  <2>1. /\ u \in DOMAIN b.tabs /\ Range(placed) \subseteq b.panes /\ X \subseteq Y
    BY <1>5, <1>7, <1>11
  <2>2. Leaves(b, u) \subseteq Range(placed) \cup Stale(Y, u)
    <3>1. Leaves(b, u) = Leaves(s, u) /\ Leaves(s, u) \subseteq Panes
      <4>1. SessionShape(s) /\ Range(s.tabs[u].leaves) \subseteq s.panes
        BY <1>7 DEF WholeBut, Steady, TabOK
      <4>2. QED
        BY <1>7, <1>11, <4>1 DEF Leaves, SessionShape
    <3>2. QED
      BY <1>7, <1>12, <3>1 DEF Stale
  <2>3. LaidOut(b, UpdateTabLayout(b, u, placed, g), Y, X, X, B, u, placed, b.tabs[u].size)
    BY <1>7, <1>11, <2>1, <2>2, LayoutSteady
  <2>4. X \ {u} = X
    BY <1>5
  <2>5. QED
    BY <1>3, <2>3, <2>4 DEF LaidOut
<1>14. /\ l.panes = s.panes /\ l.lifecycle = s.lifecycle /\ DOMAIN l.tabs = DOMAIN s.tabs
       /\ DOMAIN l.clients = DOMAIN s.clients
       /\ \A v \in DOMAIN s.tabs : l.tabs[v].index = s.tabs[v].index
       /\ \A v \in DOMAIN s.tabs \ {u} : l.tabs[v].leaves = s.tabs[v].leaves
  BY <1>11, <1>13 DEF Touches
<1>15. LeavesIn(l.tabs, u) = Range(placed)
  BY <1>7, <1>13, <1>14 DEF LeavesIn
<1>16. ASSUME NEW d \in DOMAIN s.clients
       PROVE  /\ l.clients[d].active = s.clients[d].active
              /\ \A v \in Tabs \ {u} : l.clients[d].hist[v] = s.clients[d].hist[v]
              /\ \/ l.clients[d].hist[u] = s.clients[d].hist[u]
                 \/ HeadOf(l.clients[d].hist[u]) \in Range(placed)
  <2>1. Handed(b.clients[d], l.clients[d], u, Range(placed))
    BY <1>11, <1>13, <1>15 DEF Touches
  <2>2. QED
    BY <1>11, <2>1 DEF Handed
<1>17. CASE rest = <<>>
  <2>1. r = l /\ PlacementStale(p, t, u, q, rest) = Y
    BY <1>4, <1>12, <1>17 DEF PlacementStale
  <2>2. PlacedTrees(s, r, t, u, rest, placed)
    BY <1>7, <1>13, <1>14, <1>17, <2>1 DEF PlacedTrees
  <2>3. QED
    BY <1>5, <1>7, <1>13, <1>16, <2>1, <2>2 DEF HistoriesFrom
<1>18. CASE rest # <<>>
  <2>1. PICK Z : Z = {<<u, q>>, <<t, p>>}
    OBVIOUS
  <2>2. r = UpdateTabLayout(l, t, rest, g) /\ PlacementStale(p, t, u, q, rest) = Z
    BY <1>4, <1>18, <2>1 DEF PlacementStale
  <2>3. /\ Steady(r, Z, X, X, B) /\ Touches(l, r, t) /\ r.tabs[t].leaves = rest
    <3>1. /\ t \in DOMAIN l.tabs /\ Range(rest) \subseteq l.panes /\ Y \subseteq Z
      BY <1>7, <1>12, <1>14, <2>1
    <3>2. Leaves(l, t) \subseteq Range(rest) \cup Stale(Z, t)
      <4>1. Leaves(l, t) = Leaves(s, t) /\ p \in Stale(Z, t)
        BY <1>7, <1>14, <2>1 DEF Leaves, Stale
      <4>2. QED
        BY <1>7, <4>1
    <3>3. LaidOut(l, UpdateTabLayout(l, t, rest, g), Z, X, X, B, t, rest, l.tabs[t].size)
      BY <1>7, <1>13, <1>18, <3>1, <3>2, LayoutSteady
    <3>4. X \ {t} = X
      BY <1>5
    <3>5. QED
      BY <2>2, <3>3, <3>4 DEF LaidOut
  <2>4. PlacedTrees(s, r, t, u, rest, placed)
    <3>1. r.tabs[u].leaves = placed
      BY <1>7, <1>13, <1>14, <2>3 DEF Touches
    <3>2. QED
      BY <1>14, <1>18, <2>3, <3>1 DEF PlacedTrees, Touches
  <2>5. LeavesIn(r.tabs, t) = Range(rest)
    BY <1>7, <2>3, <2>4 DEF LeavesIn, PlacedTrees
  <2>6. ASSUME NEW d \in DOMAIN s.clients
        PROVE  /\ r.clients[d].active = s.clients[d].active
               /\ \/ r.clients[d].hist[t] = s.clients[d].hist[t]
                  \/ HeadOf(r.clients[d].hist[t]) \in Range(rest)
               /\ \/ r.clients[d].hist[u] = s.clients[d].hist[u]
                  \/ HeadOf(r.clients[d].hist[u]) \in Range(placed)
    <3>1. Handed(l.clients[d], r.clients[d], t, Range(rest))
      BY <1>14, <2>3, <2>5 DEF Touches
    <3>2. QED
      BY <1>7, <1>16, <3>1 DEF Handed
  <2>7. QED
    BY <1>5, <2>2, <2>3, <2>4, <2>6 DEF HistoriesFrom
<1>19. QED
  BY <1>17, <1>18

\* The steps of commit_cross_tab_placement up to the solve of the tabs that
\* the clients left and came to.
PlacementSolved(s, c, p, t, u, q, rest, placed, g) ==
  LET moving    == {c} \cup FollowingClients(s, p, c)
      returning == FollowingClients(s, q, c)
      left   == {s.clients[d].active : d \in moving \cup returning}
      tiled  == LeaveZoomsOf(LeaveZoomsOf(PlacementLaid(s, p, t, u, q, rest, placed, g), p), q)
      moved  == MoveOntoPane(MoveOntoPane(tiled, moving, u, p), returning \ moving, t, q)
  IN  SolveEachTab(moved, ({t, u} \cup left) \ (IF rest = <<>> THEN {t} ELSE {}), g)

\* The state is ready for the repair of the two tabs: only the clients that
\* repair is for still focus a pane that left its tab.
PlacementReady(s, r, c, p, t, u, q, rest, placed) ==
  LET moving    == {c} \cup FollowingClients(s, p, c)
      returning == FollowingClients(s, q, c)
  IN  /\ Steady(r, PlacementStale(p, t, u, q, rest), {}, {}, IF rest = <<>> THEN {t} ELSE {})
      /\ PlacedTrees(s, r, t, u, rest, placed)
      /\ rest # <<>> => \A d \in DOMAIN s.clients \ (Focusing(s, t, p) \ returning) :
                           HeadOf(r.clients[d].hist[t]) # p
      /\ q # NoPane => \A d \in DOMAIN s.clients \ (Focusing(s, u, q) \ moving) :
                           HeadOf(r.clients[d].hist[u]) # q

\* commit_cross_tab_placement up to the solve of the tabs concerned.
LEMMA PlacementSolvedSteady ==
  ASSUME NEW s, WholeBut(s, {}), NEW p, NEW t, NEW u, NEW q, NEW rest, NEW placed,
         Placing(s, p, t, u, q, rest, placed), NEW g \in Geometries, NEW c \in DOMAIN s.clients
  PROVE  PlacementReady(s, PlacementSolved(s, c, p, t, u, q, rest, placed, g), c, p, t, u, q,
                        rest, placed)
<1>0. PICK r, moving, returning :
         /\ r = PlacementSolved(s, c, p, t, u, q, rest, placed, g)
         /\ moving = {c} \cup FollowingClients(s, p, c) /\ returning = FollowingClients(s, q, c)
  OBVIOUS
<1>1. PICK left : left = {s.clients[d].active : d \in moving \cup returning}
  OBVIOUS
<1>2. PICK B : B = {t, u} \cup left
  OBVIOUS
<1>3. PICK laid : laid = PlacementLaid(s, p, t, u, q, rest, placed, g)
  OBVIOUS
<1>4. PICK y : y = LeaveZoomsOf(laid, p)
  OBVIOUS
<1>5. PICK z : z = LeaveZoomsOf(y, q)
  OBVIOUS
<1>6. PICK m : m = MoveOntoPane(z, moving, u, p)
  OBVIOUS
<1>7. PICK S : S = returning \ moving
  OBVIOUS
<1>8. PICK n : n = MoveOntoPane(m, S, t, q)
  OBVIOUS
<1>9. PICK U : U = B \ (IF rest = <<>> THEN {t} ELSE {})
  OBVIOUS
<1>10. r = SolveEachTab(n, U, g)
  BY <1>0, <1>1, <1>2, <1>3, <1>4, <1>5, <1>6, <1>7, <1>8, <1>9 DEF PlacementSolved
<1>11. PICK X, Y : X = {} /\ Y = PlacementStale(p, t, u, q, rest)
  OBVIOUS
<1>12. t \in B /\ u \in B /\ left \subseteq B
  BY <1>2
<1>13. /\ t \in DOMAIN s.tabs /\ u \in DOMAIN s.tabs /\ t # u /\ t \in Tabs /\ u \in Tabs
       /\ p \in Panes /\ p # NoPane /\ p # q /\ p \notin Range(rest) /\ q \notin Range(placed)
       /\ rest = <<>> => q = NoPane
       /\ q # NoPane => q \in Range(rest) /\ q \in Panes
       /\ \A v \in DOMAIN s.tabs \ {t} : p \notin Leaves(s, v)
       /\ \A v \in DOMAIN s.tabs \ {u} : q \notin Leaves(s, v)
       /\ p \in Range(placed)
  <2>1. /\ t \in Tabs /\ u \in Tabs /\ p \in Panes /\ p # NoPane /\ p # q
        /\ p \notin Range(rest) /\ q \notin Range(placed) /\ placed # <<>>
        /\ Range(rest) \subseteq s.panes /\ Range(placed) \subseteq s.panes
        /\ rest = <<>> => q = NoPane
        /\ q # NoPane => q \in Range(rest) /\ q \in Panes
        /\ \A v \in DOMAIN s.tabs \ {t} : p \notin Leaves(s, v)
        /\ \A v \in DOMAIN s.tabs \ {u} : q \notin Leaves(s, v)
    BY PlacingFacts
  <2>2. QED
    BY <2>1 DEF Placing
<1>14. /\ Steady(laid, Y, X, X, B) /\ PlacedTrees(s, laid, t, u, rest, placed)
       /\ HistoriesFrom(s, laid, t, Range(rest)) /\ HistoriesFrom(s, laid, u, Range(placed))
       /\ \A d \in DOMAIN s.clients : laid.clients[d].active = s.clients[d].active
  BY <1>3, <1>11, <1>12, PlacementLaidSteady
<1>15. \A v \in Tabs \ B : /\ p \notin LeavesIn(laid.tabs, v) \cup Stale(Y, v)
                           /\ q \notin LeavesIn(laid.tabs, v) \cup Stale(Y, v)
  <2>1. ASSUME NEW v \in Tabs \ B
        PROVE  /\ p \notin LeavesIn(laid.tabs, v) \cup Stale(Y, v)
               /\ q \notin LeavesIn(laid.tabs, v) \cup Stale(Y, v)
    <3>1. v \notin {t, u}
      BY <1>12
    <3>2. Stale(Y, v) = {}
      BY <1>11, <3>1 DEF PlacementStale, Stale
    <3>3. LeavesIn(laid.tabs, v) = LeavesIn(s.tabs, v)
      BY <1>14, <3>1 DEF LeavesIn, PlacedTrees
    <3>4. p \notin LeavesIn(s.tabs, v) /\ q \notin LeavesIn(s.tabs, v)
      BY <1>13, <3>1 DEF LeavesIn, Leaves
    <3>5. QED
      BY <3>2, <3>3, <3>4
  <2>2. QED
    BY <2>1
<1>16. Reshaped(laid, y, Y, X, X, B) /\ HistoriesKept(laid, y)
  BY <1>4, <1>14, <1>15, LeaveZoomsSteady
<1>17. Steady(y, Y, X, X, B) /\ y.tabs = laid.tabs
  BY <1>16 DEF Reshaped, OnlyClients
<1>18. Reshaped(y, z, Y, X, X, B) /\ HistoriesKept(y, z)
  <2>1. \A v \in Tabs \ B : q \notin LeavesIn(y.tabs, v) \cup Stale(Y, v)
    BY <1>15, <1>17
  <2>2. QED
    BY <1>5, <1>17, <2>1, LeaveZoomsSteady
<1>19. /\ Steady(z, Y, X, X, B) /\ PlacedTrees(s, z, t, u, rest, placed)
       /\ DOMAIN z.clients = DOMAIN s.clients /\ z.tabs = laid.tabs
       /\ \A d \in DOMAIN s.clients : /\ z.clients[d].active = s.clients[d].active
                                      /\ z.clients[d].hist = laid.clients[d].hist
  <2>1. DOMAIN laid.clients = DOMAIN s.clients
    BY <1>14 DEF PlacedTrees
  <2>2. OnlyClients(laid, z) /\ HistoriesKept(laid, z)
    BY <1>16, <1>18 DEF Reshaped, OnlyClients, HistoriesKept
  <2>3. QED
    BY <1>14, <1>18, <2>1, <2>2 DEF Reshaped, OnlyClients, HistoriesKept, PlacedTrees
<1>20. Reshaped(z, m, Y, X, X, B) /\ MovedOnto(z, m, moving, u, p)
  <2>1. \A d \in moving \cap DOMAIN z.clients :
            z.clients[d].active \in B /\ u \in DOMAIN z.tabs /\ u \in B /\ p \in Leaves(z, u)
    BY <1>1, <1>12, <1>13, <1>19 DEF PlacedTrees, Leaves
  <2>2. QED
    BY <1>6, <1>19, <2>1, MoveOntoSteady
<1>21. /\ Steady(m, Y, X, X, B) /\ DOMAIN m.clients = DOMAIN s.clients /\ m.tabs = z.tabs
       /\ PlacedTrees(s, m, t, u, rest, placed)
  BY <1>19, <1>20 DEF Reshaped, OnlyClients, PlacedTrees
<1>22. Reshaped(m, n, Y, X, X, B) /\ MovedOnto(m, n, S, t, q)
  <2>1. ASSUME NEW d \in S \cap DOMAIN m.clients
        PROVE  m.clients[d].active \in B /\ t \in DOMAIN m.tabs /\ t \in B /\ q \in Leaves(m, t)
    <3>1. m.clients[d] = z.clients[d] /\ s.clients[d].active \in left
      BY <1>1, <1>7, <1>19, <1>20, <1>21 DEF MovedOnto
    <3>2. q # NoPane
      BY <1>0, <1>7 DEF FollowingClients, Focusing
    <3>3. rest # <<>> /\ q \in Range(rest)
      BY <1>13, <3>2
    <3>4. q \in Leaves(m, t)
      BY <1>21, <3>3 DEF PlacedTrees, Leaves
    <3>5. QED
      BY <1>12, <1>13, <1>19, <1>21, <3>1, <3>4 DEF PlacedTrees
  <2>2. QED
    BY <1>8, <1>21, <2>1, MoveOntoSteady
<1>23. /\ Steady(n, Y, X, X, B) /\ DOMAIN n.clients = DOMAIN s.clients
       /\ PlacedTrees(s, n, t, u, rest, placed)
  BY <1>21, <1>22 DEF Reshaped, OnlyClients, PlacedTrees
<1>24. /\ Steady(r, Y, X, X, B \ U) /\ SameTrees(n, r)
       /\ \A d \in DOMAIN n.clients : \A v \in Tabs :
             \/ r.clients[d].hist[v] = n.clients[d].hist[v]
             \/ HeadOf(r.clients[d].hist[v]) \in LeavesIn(n.tabs, v)
  <2>1. U \cap X = {}
    BY <1>11
  <2>2. QED
    BY <1>10, <1>23, <2>1, SolveEachSteady
<1>25. PlacedTrees(s, r, t, u, rest, placed)
  BY <1>13, <1>23, <1>24 DEF SameTrees, PlacedTrees
<1>26. Steady(r, PlacementStale(p, t, u, q, rest), {}, {}, IF rest = <<>> THEN {t} ELSE {})
  <2>1. B \ U = IF rest = <<>> THEN {t} ELSE {}
    BY <1>9, <1>12
  <2>2. QED
    BY <1>11, <1>24, <2>1
<1>27. moving \cap returning = {}
  BY <1>0, <1>13 DEF FollowingClients, Focusing
<1>28. ASSUME NEW d \in DOMAIN s.clients \ (Focusing(s, t, p) \ returning), rest # <<>>
       PROVE  HeadOf(r.clients[d].hist[t]) # p
  <2>1. LeavesIn(n.tabs, t) = Range(rest)
    BY <1>13, <1>23, <1>28 DEF PlacedTrees, LeavesIn
  <2>2. SUFFICES HeadOf(n.clients[d].hist[t]) # p
    BY <1>13, <1>23, <1>24, <2>1
  <2>3. CASE d \in S
    BY <1>13, <1>21, <1>22, <2>3 DEF MovedOnto
  <2>4. CASE d \notin S
    <3>1. d \notin returning
      BY <1>7, <1>27, <2>4
    <3>2. HeadOf(s.clients[d].hist[t]) # p
      <4>1. d \notin Focusing(s, t, p)
        BY <3>1
      <4>2. QED
        BY <1>13, <4>1 DEF Focusing, Focused, HeadOf
    <3>3. n.clients[d].hist[t] = z.clients[d].hist[t]
      BY <1>13, <1>19, <1>20, <1>21, <1>22, <2>4 DEF MovedOnto
    <3>4. \/ laid.clients[d].hist[t] = s.clients[d].hist[t]
          \/ HeadOf(laid.clients[d].hist[t]) \in Range(rest)
      BY <1>14 DEF HistoriesFrom
    <3>5. QED
      BY <1>13, <1>19, <3>2, <3>3, <3>4
  <2>5. QED
    BY <2>3, <2>4
<1>29. ASSUME NEW d \in DOMAIN s.clients \ (Focusing(s, u, q) \ moving), q # NoPane
       PROVE  HeadOf(r.clients[d].hist[u]) # q
  <2>1. LeavesIn(n.tabs, u) = Range(placed)
    BY <1>13, <1>23 DEF PlacedTrees, LeavesIn
  <2>2. SUFFICES HeadOf(n.clients[d].hist[u]) # q
    BY <1>13, <1>23, <1>24, <2>1
  <2>3. n.clients[d].hist[u] = m.clients[d].hist[u]
    BY <1>13, <1>21, <1>22 DEF MovedOnto
  <2>4. CASE d \in moving
    BY <1>13, <1>19, <1>20, <2>3, <2>4 DEF MovedOnto
  <2>5. CASE d \notin moving
    <3>1. HeadOf(s.clients[d].hist[u]) # q
      <4>1. d \notin Focusing(s, u, q)
        BY <2>5
      <4>2. QED
        BY <1>29, <4>1 DEF Focusing, Focused, HeadOf
    <3>2. m.clients[d].hist[u] = z.clients[d].hist[u]
      BY <1>19, <1>20, <2>5 DEF MovedOnto
    <3>3. \/ laid.clients[d].hist[u] = s.clients[d].hist[u]
          \/ HeadOf(laid.clients[d].hist[u]) \in Range(placed)
      BY <1>14 DEF HistoriesFrom
    <3>4. QED
      BY <1>13, <1>19, <2>3, <3>1, <3>2, <3>3
  <2>6. QED
    BY <2>4, <2>5
<1>30. QED
  BY <1>0, <1>25, <1>26, <1>28, <1>29 DEF PlacementReady

\* The tabs of a placement hold the panes they held, each once.
LEMMA Transplanted ==
  ASSUME NEW s, NEW r, WholeBut(s, {}), NEW p, NEW t, NEW u, NEW q, NEW rest, NEW placed,
         Placing(s, p, t, u, q, rest, placed), PlacedTrees(s, r, t, u, rest, placed), rest # <<>>
  PROVE  Rooted(r)
<1>1. /\ Rooted(s) /\ t \in DOMAIN s.tabs /\ u \in DOMAIN s.tabs /\ t # u
      /\ DOMAIN r.tabs = DOMAIN s.tabs /\ r.panes = s.panes /\ r.lifecycle = s.lifecycle
  BY DEF WholeBut, Placing, PlacedTrees
<1>2. Dense(r.tabs)
  <2>1. {r.tabs[v].index : v \in DOMAIN r.tabs} = {s.tabs[v].index : v \in DOMAIN s.tabs}
    BY DEF PlacedTrees
  <2>2. QED
    BY <1>1, <2>1 DEF Rooted, Dense, PlacedTrees
<1>3. /\ r.tabs[t].leaves = rest /\ r.tabs[u].leaves = placed
      /\ \A v \in DOMAIN s.tabs \ {t, u} : r.tabs[v].leaves = s.tabs[v].leaves
  BY DEF PlacedTrees
<1>4. /\ Distinct(rest) /\ Distinct(placed)
      /\ Range(rest) = (Leaves(s, t) \ {p}) \cup ({q} \ {NoPane})
      /\ Range(placed) = (Leaves(s, u) \ {q}) \cup {p}
      /\ p \in Leaves(s, t) /\ (q = NoPane \/ q \in Leaves(s, u))
  BY DEF Placing
<1>5. \A v \in DOMAIN s.tabs : NoPane \notin Leaves(s, v)
  <2>1. \A v \in DOMAIN s.tabs : Leaves(s, v) \subseteq Panes
    BY DEF WholeBut, Steady, SessionShape, TabOK, Leaves
  <2>2. QED
    BY <2>1, SessionConstants
<1>6. \A v \in DOMAIN r.tabs : Distinct(r.tabs[v].leaves)
  BY <1>1, <1>3, <1>4 DEF Rooted, Planted
<1>7. ASSUME NEW v \in DOMAIN s.tabs, NEW w \in DOMAIN s.tabs, v # w
      PROVE  Leaves(s, v) \cap Leaves(s, w) = {}
  BY <1>1, <1>7 DEF Rooted, Planted, Leaves
<1>8. /\ Leaves(r, t) = Range(rest) /\ Leaves(r, u) = Range(placed)
      /\ \A v \in DOMAIN s.tabs \ {t, u} : Leaves(r, v) = Leaves(s, v)
  BY <1>3 DEF Leaves
<1>9. ASSUME NEW v \in DOMAIN s.tabs, NEW w \in DOMAIN s.tabs, v # w
      PROVE  Leaves(r, v) \cap Leaves(r, w) = {}
  <2>1. p # q /\ p # NoPane
    BY <1>1, <1>4, <1>5, <1>7
  <2>2. SUFFICES ASSUME NEW x, x \in Leaves(r, v), x \in Leaves(r, w)
                 PROVE  FALSE
    OBVIOUS
  <2>3. PICK home : home \in DOMAIN s.tabs /\ x \in Leaves(s, home)
    BY <1>1, <1>4, <1>8, <2>2
  <2>4. x = p => v = u /\ w = u
    BY <1>1, <1>4, <1>7, <1>8, <2>1, <2>2
  <2>5. x = q => v = t /\ w = t
    BY <1>1, <1>4, <1>5, <1>7, <1>8, <2>1, <2>2, <2>3
  <2>6. x # p /\ x # q => x \in Leaves(s, v) /\ x \in Leaves(s, w)
    BY <1>1, <1>4, <1>8, <2>2
  <2>7. QED
    BY <1>7, <1>9, <2>4, <2>5, <2>6
<1>10. ASSUME NEW x \in s.panes PROVE \E v \in DOMAIN s.tabs : x \in Leaves(r, v)
  <2>1. PICK v \in DOMAIN s.tabs : x \in Leaves(s, v)
    BY <1>1 DEF Rooted, Planted, Leaves
  <2>2. x \in Leaves(r, v) \/ x \in Leaves(r, t) \/ x \in Leaves(r, u)
    BY <1>1, <1>4, <1>5, <1>8, <2>1
  <2>3. QED
    BY <1>1, <2>2
<1>11. Planted(r.tabs, r.panes)
  BY <1>1, <1>6, <1>9, <1>10 DEF Planted, Leaves
<1>12. QED
  BY <1>1, <1>2, <1>11 DEF Rooted, Lives

\* The tab a placement empties goes with nothing in it.
LEMMA EmptiedTab ==
  ASSUME NEW s, NEW r, WholeBut(s, {}), NEW p, NEW t, NEW u, NEW q, NEW rest, NEW placed,
         Placing(s, p, t, u, q, rest, placed), PlacedTrees(s, r, t, u, rest, placed), rest = <<>>
  PROVE  Dense(r.tabs) /\ Lives(r) /\ PlantedWithout(r, t)
<1>1. /\ Rooted(s) /\ t \in DOMAIN s.tabs /\ u \in DOMAIN s.tabs /\ t # u
      /\ DOMAIN r.tabs = DOMAIN s.tabs /\ r.panes = s.panes /\ r.lifecycle = s.lifecycle
  BY DEF WholeBut, Placing, PlacedTrees
<1>2. Dense(r.tabs)
  <2>1. {r.tabs[v].index : v \in DOMAIN r.tabs} = {s.tabs[v].index : v \in DOMAIN s.tabs}
    BY DEF PlacedTrees
  <2>2. QED
    BY <1>1, <2>1 DEF Rooted, Dense, PlacedTrees
<1>3. PICK ts : ts = [v \in DOMAIN r.tabs \ {t} |-> r.tabs[v]]
  OBVIOUS
<1>4. /\ DOMAIN ts = DOMAIN s.tabs \ {t} /\ ts[u].leaves = placed
      /\ \A v \in DOMAIN s.tabs \ {t, u} : ts[v].leaves = s.tabs[v].leaves
  BY <1>1, <1>3 DEF PlacedTrees
<1>5. q = NoPane /\ Range(rest) = {}
  <2>1. rest = <<>> => q = NoPane
    BY PlacingFacts
  <2>2. rest \in Seq(Panes)
    BY DEF Placing
  <2>3. QED
    BY <2>1, <2>2, RangeFacts
<1>6. \A v \in DOMAIN s.tabs : NoPane \notin Leaves(s, v)
  <2>1. \A v \in DOMAIN s.tabs : Leaves(s, v) \subseteq Panes
    BY DEF WholeBut, Steady, SessionShape, TabOK, Leaves
  <2>2. QED
    BY <2>1, SessionConstants
<1>7. /\ Leaves(s, t) = {p} /\ Range(placed) = Leaves(s, u) \cup {p} /\ Distinct(placed)
  BY <1>1, <1>5, <1>6 DEF Placing
<1>8. \A v \in DOMAIN ts : Distinct(ts[v].leaves)
  BY <1>1, <1>4, <1>7 DEF Rooted, Planted
<1>9. ASSUME NEW v \in DOMAIN s.tabs, NEW w \in DOMAIN s.tabs, v # w
      PROVE  Leaves(s, v) \cap Leaves(s, w) = {}
  BY <1>1, <1>9 DEF Rooted, Planted, Leaves
<1>10. ASSUME NEW v \in DOMAIN ts, NEW w \in DOMAIN ts, v # w
       PROVE  Range(ts[v].leaves) \cap Range(ts[w].leaves) = {}
  <2>1. \A x \in DOMAIN ts : Range(ts[x].leaves) = IF x = u THEN Leaves(s, u) \cup {p} ELSE Leaves(s, x)
    BY <1>4, <1>7 DEF Leaves
  <2>2. p \notin Leaves(s, v) /\ p \notin Leaves(s, w) /\ Leaves(s, v) \cap Leaves(s, w) = {}
    BY <1>1, <1>4, <1>7, <1>9, <1>10
  <2>3. QED
    BY <1>10, <2>1, <2>2
<1>11. ASSUME NEW x \in s.panes PROVE \E v \in DOMAIN ts : x \in Range(ts[v].leaves)
  <2>1. PICK v \in DOMAIN s.tabs : x \in Leaves(s, v)
    BY <1>1 DEF Rooted, Planted, Leaves
  <2>2. v = t => x \in Range(ts[u].leaves)
    BY <1>4, <1>7, <2>1
  <2>3. v # t => x \in Range(ts[v].leaves)
    BY <1>4, <1>7, <2>1 DEF Leaves
  <2>4. QED
    BY <1>1, <1>4, <2>2, <2>3
<1>12. Planted(ts, s.panes)
  BY <1>8, <1>10, <1>11 DEF Planted
<1>13. PlantedWithout(r, t)
  BY <1>1, <1>3, <1>12 DEF PlantedWithout
<1>14. QED
  BY <1>1, <1>2, <1>13 DEF Rooted, Lives
\* A placement that empties its source tab closes it.
LEMMA PlacementCloses ==
  ASSUME NEW s, WholeBut(s, {}), NEW p, NEW t, NEW u, NEW q, NEW rest, NEW placed,
         Placing(s, p, t, u, q, rest, placed), NEW g \in Geometries, NEW c \in DOMAIN s.clients,
         rest = <<>>
  PROVE  WholeBut(CommitCrossTabPlacement(s, c, p, t, u, q, rest, placed, g), {})
<1>1. PICK r : r = PlacementSolved(s, c, p, t, u, q, rest, placed, g)
  OBVIOUS
<1>2. t \in DOMAIN s.tabs /\ q = NoPane
  <2>1. rest = <<>> => q = NoPane
    BY PlacingFacts
  <2>2. QED
    BY <2>1 DEF Placing
<1>3. CommitCrossTabPlacement(s, c, p, t, u, q, rest, placed, g) = CloseAndRefocusTab(r, t, g)
  BY <1>1, <1>2 DEF CommitCrossTabPlacement, PlacementSolved, PlacementLaid
<1>4. PICK X, T, Y : X = {} /\ T = {t} /\ Y = PlacementStale(p, t, u, q, rest)
  OBVIOUS
<1>5. Steady(r, Y, X, X, T) /\ PlacedTrees(s, r, t, u, rest, placed)
  <2>1. PlacementReady(s, r, c, p, t, u, q, rest, placed)
    BY <1>1, PlacementSolvedSteady
  <2>2. QED
    BY <1>4, <2>1 DEF PlacementReady
<1>6. \A v \in Tabs : Stale(Y, v) \subseteq Stale(X, v)
  BY <1>2, <1>4, SessionConstants DEF PlacementStale, Stale
<1>7. Steady(r, X, X, X, T)
  BY <1>5, <1>6, SteadyStale
<1>8. X \subseteq X /\ X \subseteq T /\ T \subseteq T
  BY <1>4
<1>9. Steady(r, X, X, T, T)
  BY <1>7, <1>8, SteadyMore
<1>10. Dense(r.tabs) /\ Lives(r) /\ PlantedWithout(r, t)
  BY <1>5, EmptiedTab
<1>11. t \in DOMAIN r.tabs
  BY <1>2, <1>5 DEF PlacedTrees
<1>12. Steady(r, {}, {}, {t}, T)
  BY <1>4, <1>9
<1>13. WholeBut(CloseAndRefocusTab(r, t, g), T \ {t})
  BY <1>10, <1>11, <1>12, CloseWhole
<1>14. T \ {t} = {}
  BY <1>4
<1>15. QED
  BY <1>3, <1>13, <1>14

\* A placement that leaves panes in its source tab repairs both tabs.
LEMMA PlacementStays ==
  ASSUME NEW s, WholeBut(s, {}), NEW p, NEW t, NEW u, NEW q, NEW rest, NEW placed,
         Placing(s, p, t, u, q, rest, placed), NEW g \in Geometries, NEW c \in DOMAIN s.clients,
         rest # <<>>
  PROVE  WholeBut(CommitCrossTabPlacement(s, c, p, t, u, q, rest, placed, g), {t, u})
<1>1. PICK r : r = PlacementSolved(s, c, p, t, u, q, rest, placed, g)
  OBVIOUS
<1>2. PICK moving, returning :
          moving = {c} \cup FollowingClients(s, p, c) /\ returning = FollowingClients(s, q, c)
  OBVIOUS
<1>3. PICK F, G : F = Focusing(s, t, p) \ returning /\ G = Focusing(s, u, q) \ moving
  OBVIOUS
<1>4. PICK a : a = RepairAfterPaneLeft(r, t, p, F, g)
  OBVIOUS
<1>5. CommitCrossTabPlacement(s, c, p, t, u, q, rest, placed, g)
        = IF q = NoPane THEN a ELSE RepairAfterPaneLeft(a, u, q, G, g)
  BY <1>1, <1>2, <1>3, <1>4 DEF CommitCrossTabPlacement, PlacementSolved, PlacementLaid
<1>6. PICK X, B, Y : X = {} /\ B = {t, u} /\ Y = PlacementStale(p, t, u, q, rest)
  OBVIOUS
<1>7. /\ t \in DOMAIN s.tabs /\ u \in DOMAIN s.tabs /\ t # u /\ u \in Tabs
      /\ p \notin Range(rest) /\ q \notin Range(placed)
  <2>1. p \notin Range(rest) /\ q \notin Range(placed) /\ u \in Tabs
    BY PlacingFacts
  <2>2. QED
    BY <2>1 DEF Placing
<1>8. /\ Steady(r, Y, X, X, X) /\ PlacedTrees(s, r, t, u, rest, placed)
      /\ \A d \in DOMAIN s.clients \ F : HeadOf(r.clients[d].hist[t]) # p
      /\ q # NoPane => \A d \in DOMAIN s.clients \ G : HeadOf(r.clients[d].hist[u]) # q
  <2>1. PlacementReady(s, r, c, p, t, u, q, rest, placed)
    BY <1>1, PlacementSolvedSteady
  <2>2. QED
    BY <1>2, <1>3, <1>6, <2>1 DEF PlacementReady
<1>9. X \subseteq X /\ Y \subseteq Y /\ X \subseteq B /\ t \in B /\ u \in B /\ t \notin X /\ u \notin X
  BY <1>6
<1>10. Steady(r, Y, X, X, B)
  BY <1>8, <1>9, SteadyMore
<1>11. /\ t \in DOMAIN r.tabs /\ u \in DOMAIN r.tabs /\ DOMAIN r.clients = DOMAIN s.clients
       /\ p \notin Leaves(r, t) /\ q \notin Leaves(r, u)
  BY <1>7, <1>8 DEF PlacedTrees, Leaves
<1>12. Reshaped(r, a, Freed(Y, t, p), X, X, B) /\ OthersKept(r, a, t)
  BY <1>4, <1>8, <1>9, <1>10, <1>11, PaneLeftSteady
<1>13. PICK Z : Z = Freed(Y, t, p)
  OBVIOUS
<1>14. /\ Steady(a, Z, X, X, B) /\ OnlyClients(r, a)
  BY <1>12, <1>13 DEF Reshaped
<1>15. PlacedTrees(s, a, t, u, rest, placed)
  BY <1>8, <1>14 DEF OnlyClients, PlacedTrees
<1>16. CASE q = NoPane
  <2>1. \A v \in Tabs : Stale(Z, v) \subseteq Stale(X, v)
    BY <1>6, <1>13, <1>16, SessionConstants DEF PlacementStale, Stale, Freed
  <2>2. Steady(a, X, X, X, B)
    BY <1>14, <2>1, SteadyStale
  <2>3. Rooted(a)
    BY <1>15, Transplanted
  <2>4. QED
    BY <1>5, <1>6, <1>16, <2>2, <2>3 DEF WholeBut
<1>17. CASE q # NoPane
  <2>1. PICK b : b = RepairAfterPaneLeft(a, u, q, G, g)
    OBVIOUS
  <2>2. \A d \in DOMAIN a.clients \ G : HeadOf(a.clients[d].hist[u]) # q
    <3>1. \A d \in DOMAIN s.clients : a.clients[d].hist[u] = r.clients[d].hist[u]
      BY <1>7, <1>11, <1>12 DEF OthersKept
    <3>2. DOMAIN a.clients = DOMAIN s.clients
      BY <1>11, <1>14 DEF OnlyClients
    <3>3. QED
      BY <1>8, <1>17, <3>1, <3>2
  <2>3. u \in DOMAIN a.tabs /\ q \notin Leaves(a, u)
    BY <1>11, <1>14 DEF OnlyClients, Leaves
  <2>4. Reshaped(a, b, Freed(Z, u, q), X, X, B)
    BY <1>9, <1>14, <2>1, <2>2, <2>3, PaneLeftSteady
  <2>5. Freed(Z, u, q) = X
    BY <1>6, <1>13 DEF PlacementStale, Freed
  <2>6. Steady(b, X, X, X, B) /\ OnlyClients(a, b)
    BY <2>4, <2>5 DEF Reshaped
  <2>7. PlacedTrees(s, b, t, u, rest, placed)
    BY <1>15, <2>6 DEF OnlyClients, PlacedTrees
  <2>8. Rooted(b)
    BY <2>7, Transplanted
  <2>9. QED
    BY <1>5, <1>6, <1>17, <2>1, <2>6, <2>8 DEF WholeBut
<1>18. QED
  BY <1>16, <1>17

\* PlacePaneAcrossTabs: the reflow at its end covers the tabs left unsettled.
LEMMA PlaceAcrossKeeps ==
  ASSUME NEW s, s = Session, WholeBut(s, {}), NEW p, NEW t, NEW u, NEW q, NEW rest, NEW placed,
         Placing(s, p, t, u, q, rest, placed), NEW g \in Geometries, NEW c \in DOMAIN clients,
         PlacePaneAcrossTabs(c, p, t, u, q, rest, placed, g)
  PROVE  SessionInv'
<1>1. PICK r : r = CommitCrossTabPlacement(s, c, p, t, u, q, rest, placed, g)
  OBVIOUS
<1>2. PICK S : S = {u} \cup (IF rest = <<>> THEN {NearestSurvivingTab(s, tabs[t].index)} ELSE {t})
                   \cup ({clients[d].active : d \in {c} \cup FollowingClients(s, p, c)
                                                   \cup FollowingClients(s, q, c)} \ {t})
  OBVIOUS
<1>3. Commit(SolveEachTab(r, S, g))
  BY <1>1, <1>2 DEF PlacePaneAcrossTabs
<1>4. PICK B : B = IF rest = <<>> THEN {} ELSE {t, u}
  OBVIOUS
<1>5. c \in DOMAIN s.clients
  BY SessionParts
<1>6. WholeBut(r, B)
  <2>1. CASE rest = <<>>
    BY <1>1, <1>4, <1>5, <2>1, PlacementCloses
  <2>2. CASE rest # <<>>
    BY <1>1, <1>4, <1>5, <2>2, PlacementStays
  <2>3. QED
    BY <2>1, <2>2
<1>7. WholeBut(SolveEachTab(r, S, g), B \ S)
  BY <1>6, SolveEachWhole
<1>8. B \ S = {}
  BY <1>2, <1>4
<1>9. WholeBut(SolveEachTab(r, S, g), {})
  BY <1>7, <1>8
<1>10. QED
  BY <1>3, <1>9, CommitWhole
\* SwapPanes across two tabs is a placement.
LEMMA SwapPlaces ==
  ASSUME SessionInv, NEW c, NEW p, NEW q, NEW g \in Geometries, SwapPanes(c, p, q, g), NEW s, s = Session,
         NEW t, t = TabOf(s, p), NEW u, u = TabOf(s, q), t # u
  PROVE  \E rest, placed : /\ Placing(s, p, t, u, q, rest, placed) /\ c \in DOMAIN clients
                           /\ PlacePaneAcrossTabs(c, p, t, u, q, rest, placed, g)
<1>1. PICK rest, placed : /\ rest = ExchangePanes(s.tabs[t].leaves, p, q)
                          /\ placed = ExchangePanes(s.tabs[u].leaves, p, q)
  OBVIOUS
<1>2. /\ WholeBut(s, {}) /\ SessionShape(s) /\ p \in s.panes /\ q \in s.panes /\ p # q
      /\ c \in DOMAIN clients /\ PlacePaneAcrossTabs(c, p, t, u, q, rest, placed, g)
  BY <1>1, SessionParts DEF SessionInv, WholeBut, Steady, SwapPanes
<1>3. t \in DOMAIN s.tabs /\ p \in Leaves(s, t) /\ u \in DOMAIN s.tabs /\ q \in Leaves(s, u)
  BY <1>2, PaneHome
<1>4. /\ s.tabs[t].leaves \in Seq(Panes) /\ Distinct(s.tabs[t].leaves) /\ p \in Panes /\ q \in Panes
      /\ s.tabs[u].leaves \in Seq(Panes) /\ Distinct(s.tabs[u].leaves)
  BY <1>2, <1>3 DEF WholeBut, Steady, TabOK, Tab, Rooted, Planted, SessionShape
<1>5. q \notin Leaves(s, t) /\ p \notin Leaves(s, u)
  BY <1>2, <1>3 DEF WholeBut, Rooted, Planted, Leaves
<1>6. rest \in Seq(Panes) /\ Distinct(rest) /\ Range(rest) = (Leaves(s, t) \ {p}) \cup {q}
  BY <1>1, <1>2, <1>3, <1>4, <1>5, ExchangeFacts, SMTT(60) DEF Leaves
<1>7. placed \in Seq(Panes) /\ Distinct(placed) /\ Range(placed) = (Leaves(s, u) \ {q}) \cup {p}
  BY <1>1, <1>2, <1>3, <1>4, <1>5, ExchangeFacts DEF Leaves
<1>8. {q} \ {NoPane} = {q}
  BY <1>4, SessionConstants
<1>9. Placing(s, p, t, u, q, rest, placed)
  BY <1>3, <1>6, <1>7, <1>8 DEF Placing
<1>10. QED
  BY <1>2, <1>9

\* InsertPane into another tab is a placement.
LEMMA InsertPlaces ==
  ASSUME SessionInv, NEW c, NEW p, NEW u, NEW at \in Nat \ {0}, NEW g \in Geometries,
         InsertPane(c, p, u, at, g), NEW s, s = Session, NEW t, t = TabOf(s, p), t # u
  PROVE  \E rest, placed : /\ Placing(s, p, t, u, NoPane, rest, placed) /\ c \in DOMAIN clients
                           /\ PlacePaneAcrossTabs(c, p, t, u, NoPane, rest, placed, g)
<1>1. PICK rest, placed : /\ rest = Without(s.tabs[t].leaves, p)
                          /\ placed = InsertAt(s.tabs[u].leaves, at, p)
  OBVIOUS
<1>2. /\ WholeBut(s, {}) /\ SessionShape(s) /\ p \in s.panes /\ u \in DOMAIN s.tabs
      /\ c \in DOMAIN clients /\ at <= Len(s.tabs[u].leaves) + 1
      /\ PlacePaneAcrossTabs(c, p, t, u, NoPane, rest, placed, g)
  BY <1>1, SessionParts DEF SessionInv, WholeBut, Steady, InsertPane
<1>3. t \in DOMAIN s.tabs /\ p \in Leaves(s, t)
  BY <1>2, PaneHome
<1>4. /\ s.tabs[t].leaves \in Seq(Panes) /\ Distinct(s.tabs[t].leaves) /\ p \in Panes
      /\ s.tabs[u].leaves \in Seq(Panes) /\ Distinct(s.tabs[u].leaves)
  BY <1>2, <1>3 DEF WholeBut, Steady, TabOK, Tab, Rooted, Planted, SessionShape
<1>5. p \notin Leaves(s, u)
  BY <1>2, <1>3 DEF WholeBut, Rooted, Planted, Leaves
<1>6. rest \in Seq(Panes) /\ Distinct(rest) /\ Range(rest) = Leaves(s, t) \ {p}
  BY <1>1, <1>4, WithoutFacts DEF Leaves
<1>7. at \in 1 .. Len(s.tabs[u].leaves) + 1
  BY <1>2, <1>4
<1>8. placed \in Seq(Panes) /\ Distinct(placed) /\ Range(placed) = Leaves(s, u) \cup {p}
  BY <1>1, <1>4, <1>5, <1>7, InsertFacts DEF Leaves
<1>9. Leaves(s, u) \ {NoPane} = Leaves(s, u) /\ {NoPane} \ {NoPane} = {}
  BY <1>4, RangeFacts, SessionConstants DEF Leaves
<1>10. Placing(s, p, t, u, NoPane, rest, placed)
  BY <1>2, <1>3, <1>6, <1>8, <1>9 DEF Placing
<1>11. QED
  BY <1>2, <1>10

\* SwapPanes, in one tab or across two.
LEMMA SwapPanesKeeps ==
  ASSUME SessionInv, NEW c, NEW p, NEW q, NEW g \in Geometries, SwapPanes(c, p, q, g)
  PROVE  SessionInv'
<1>1. PICK s : s = Session
  OBVIOUS
<1>2. PICK t, u : t = TabOf(s, p) /\ u = TabOf(s, q)
  OBVIOUS
<1>3. CASE t = u
  BY <1>1, <1>2, <1>3, SwapWithinKeeps
<1>4. CASE t # u
  <2>1. PICK rest, placed : /\ Placing(s, p, t, u, q, rest, placed) /\ c \in DOMAIN clients
                            /\ PlacePaneAcrossTabs(c, p, t, u, q, rest, placed, g)
    BY <1>1, <1>2, <1>4, SwapPlaces
  <2>2. WholeBut(s, {})
    BY <1>1 DEF SessionInv
  <2>3. QED
    BY <1>1, <2>1, <2>2, PlaceAcrossKeeps
<1>5. QED
  BY <1>3, <1>4

\* InsertPane, in one tab or across two.
LEMMA InsertPaneKeeps ==
  ASSUME SessionInv, NEW c, NEW p, NEW u, NEW at \in Nat \ {0}, NEW g \in Geometries,
         InsertPane(c, p, u, at, g)
  PROVE  SessionInv'
<1>1. PICK s : s = Session
  OBVIOUS
<1>2. PICK t : t = TabOf(s, p)
  OBVIOUS
<1>3. CASE t = u
  BY <1>1, <1>2, <1>3, InsertWithinKeeps
<1>4. CASE t # u
  <2>1. PICK rest, placed : /\ Placing(s, p, t, u, NoPane, rest, placed) /\ c \in DOMAIN clients
                            /\ PlacePaneAcrossTabs(c, p, t, u, NoPane, rest, placed, g)
    BY <1>1, <1>2, <1>4, InsertPlaces
  <2>2. WholeBut(s, {})
    BY <1>1 DEF SessionInv
  <2>3. QED
    BY <1>1, <2>1, <2>2, PlaceAcrossKeeps
<1>5. QED
  BY <1>3, <1>4
-----------------------------------------------------------------------------
(* The specification *)

\* The bootstrap session is whole.
LEMMA InitSession == Init => SessionInv
<1>1. SUFFICES ASSUME NEW t \in Tabs, NEW p \in Panes, NEW size \in Sizes,
                      tabs = [u \in {t} |-> [leaves |-> <<p>>, index |-> 0, size |-> size,
                                             hidden |-> IF size = 0 THEN {p} ELSE {}]],
                      panes = {p}, clients = <<>>, lifecycle = "Running"
               PROVE  SessionInv
  BY DEF Init
<1>2. PICK s : s = Session
  OBVIOUS
<1>3. /\ DOMAIN s = {"tabs", "panes", "clients", "lifecycle"} /\ s.tabs = tabs /\ s.panes = panes
      /\ s.clients = clients /\ s.lifecycle = lifecycle
  BY <1>2, SessionParts
<1>4. PICK tab : tab = [leaves |-> <<p>>, index |-> 0, size |-> size,
                        hidden |-> IF size = 0 THEN {p} ELSE {}]
  OBVIOUS
<1>5. DOMAIN s.tabs = {t} /\ s.tabs[t] = tab
  BY <1>1, <1>3, <1>4
<1>6. /\ tab.leaves = <<p>> /\ tab.index = 0 /\ tab.size = size
      /\ tab.hidden = IF size = 0 THEN {p} ELSE {}
  BY <1>4
<1>7. /\ <<p>> \in Seq(Panes) /\ Range(<<p>>) = {p} /\ Distinct(<<p>>) /\ <<p>> # <<>>
  BY DEF Range, Distinct
<1>8. DOMAIN s.clients = {}
  BY <1>1, <1>3
<1>9. TabOK(tab, {p}, FALSE)
  <2>1. tab \in Tab
    BY <1>4, <1>7 DEF Tab
  <2>2. QED
    BY <1>6, <1>7, <2>1 DEF TabOK
<1>10. Settled(s, t)
  <2>1. Viewers(s, t) = {}
    BY <1>8 DEF Viewers
  <2>2. QED
    BY <2>1 DEF Settled, ResolveTabSolveSize
<1>11. Steady(s, {}, {}, {}, {})
  <2>1. SessionShape(s)
    BY <1>1, <1>3, <1>5, <1>8 DEF SessionShape
  <2>2. \A v \in DOMAIN s.tabs : TabOK(s.tabs[v], s.panes, v \in {})
    BY <1>1, <1>3, <1>5, <1>9 DEF TabOK
  <2>3. \A v \in DOMAIN s.tabs \ {} : Settled(s, v)
    BY <1>5, <1>10
  <2>4. QED
    BY <1>8, <2>1, <2>2, <2>3 DEF Steady
<1>12. Dense(s.tabs)
  <2>1. Cardinality({t}) = 1
    BY FS_Singleton
  <2>2. {s.tabs[v].index : v \in DOMAIN s.tabs} = {0}
    BY <1>5, <1>6
  <2>3. 0 .. (1 - 1) = {0}
    OBVIOUS
  <2>4. {s.tabs[v].index : v \in DOMAIN s.tabs} = 0 .. (Cardinality(DOMAIN s.tabs) - 1)
    BY <1>5, <2>1, <2>2, <2>3
  <2>5. QED
    BY <1>5, <2>4 DEF Dense
<1>13. Planted(s.tabs, s.panes)
  BY <1>1, <1>3, <1>5, <1>6, <1>7 DEF Planted
<1>14. Lives(s)
  BY <1>1, <1>3, <1>5 DEF Lives
<1>15. QED
  BY <1>2, <1>11, <1>12, <1>13, <1>14 DEF SessionInv, WholeBut, Rooted

\* Every action keeps the session whole.
LEMMA NextKeepsSession ==
  ASSUME SessionInv, [Next]_vars
  PROVE  SessionInv'
<1>1. CASE UNCHANGED vars
  <2>1. Commit(Session)
    BY <1>1, SessionParts DEF vars, Commit
  <2>2. WholeBut(Session, {})
    BY DEF SessionInv
  <2>3. QED
    BY <2>1, <2>2, CommitWhole
<1>2. OpenChoices \subseteq Geometries
  BY SessionConstants DEF OpenChoices
<1>3. ASSUME NEW c \in Drawn, DrawClient(c) PROVE SessionInv'
  BY <1>3, DrawClientKeeps
<1>4. ASSUME NEW t \in Tabs, NEW index \in 0 .. (Cardinality(Tabs) - 1), MoveTab(t, index)
      PROVE  SessionInv'
  BY <1>4, MoveTabKeeps
<1>5. ASSUME NEW g \in Geometries, NEW c \in Clients, NEW t \in Tabs, NEW area \in Areas,
             AttachClient(c, t, area, g)
      PROVE  SessionInv'
  BY <1>5, AttachClientKeeps
<1>6. ASSUME NEW g \in Geometries, NEW c \in Clients, NEW area \in Areas, ResizeClient(c, area, g)
      PROVE  SessionInv'
  BY <1>6, ResizeClientKeeps
<1>7. ASSUME NEW g \in Geometries, NEW c \in Clients, DetachClient(c, g) PROVE SessionInv'
  BY <1>7, DetachClientKeeps
<1>8. ASSUME NEW g \in Geometries, NEW c \in Clients, NEW t \in Tabs, NEW p \in Panes,
             NewTab(c, t, p, g)
      PROVE  SessionInv'
  BY <1>8, NewTabKeeps
<1>9. ASSUME NEW g \in Geometries, NEW d \in Clients \cup {NoClient}, NEW source \in Panes,
             NEW p \in Panes, NEW isBefore \in BOOLEAN, NewPane(d, source, p, isBefore, g)
      PROVE  SessionInv'
  BY <1>9, NewPaneKeeps
<1>10. ASSUME NEW g \in Geometries, NEW d \in Clients \cup {NoClient}, NEW p \in Panes,
              ClosePane(d, p, g)
       PROVE  SessionInv'
  BY <1>10, ClosePaneKeeps
<1>11. ASSUME NEW g \in Geometries, NEW p \in Panes, ChildExit(p, g) PROVE SessionInv'
  BY <1>11, ChildExitKeeps
<1>12. ASSUME NEW g \in Geometries, NEW t \in Tabs, CloseTab(t, g) PROVE SessionInv'
  BY <1>12, CloseTabKeeps
<1>13. ASSUME NEW g \in Geometries, NEW c \in Clients, NEW t \in Tabs, FocusTab(c, t, g)
       PROVE  SessionInv'
  BY <1>13, FocusTabKeeps
<1>14. ASSUME NEW g \in Geometries, NEW c \in Clients, NEW p \in Panes, FocusPane(c, p, g)
       PROVE  SessionInv'
  BY <1>14, FocusPaneKeeps
<1>15. ASSUME NEW g \in Geometries, NEW c \in Clients, NEW p \in Panes, ToggleFullscreen(c, p, g)
       PROVE  SessionInv'
  BY <1>15, ToggleFullscreenKeeps
<1>16. ASSUME NEW g \in Geometries, NEW c \in Clients, NEW p \in Panes, NEW q \in Panes,
              SwapPanes(c, p, q, g)
       PROVE  SessionInv'
  BY <1>16, SwapPanesKeeps
<1>17. ASSUME NEW g \in Geometries, NEW c \in Clients, NEW p \in Panes, NEW u \in Tabs,
              NEW at \in 1 .. Cardinality(Panes), InsertPane(c, p, u, at, g)
       PROVE  SessionInv'
  <2>1. at \in Nat \ {0}
    OBVIOUS
  <2>2. QED
    BY <1>17, <2>1, InsertPaneKeeps
<1>18. QED
  BY <1>1, <1>2, <1>3, <1>4, <1>5, <1>6, <1>7, <1>8, <1>9, <1>10, <1>11, <1>12, <1>13, <1>14,
     <1>15, <1>16, <1>17 DEF Next
\* What SessionInv says of the variables.
LEMMA SessionInvParts ==
  ASSUME SessionInv
  PROVE  /\ SessionShape(Session) /\ Dense(tabs) /\ Planted(tabs, panes) /\ Lives(Session)
         /\ \A t \in DOMAIN tabs : TabOK(tabs[t], panes, FALSE) /\ Settled(Session, t)
         /\ \A c \in DOMAIN clients :
               /\ Fits(clients[c], tabs, {}) /\ Landed(clients[c], tabs)
               /\ clients[c].active \in DOMAIN tabs \/ DOMAIN tabs = {}
<1>1. PICK s : s = Session
  OBVIOUS
<1>2. Steady(s, {}, {}, {}, {}) /\ Dense(s.tabs) /\ Planted(s.tabs, s.panes) /\ Lives(s)
  BY <1>1 DEF SessionInv, WholeBut, Rooted
<1>3. \A t \in DOMAIN s.tabs : TabOK(s.tabs[t], s.panes, FALSE)
  BY <1>2 DEF Steady, TabOK
<1>4. QED
  BY <1>1, <1>2, <1>3, SessionParts DEF Steady

\* The type invariant is part of SessionInv.
LEMMA TypeHolds ==
  ASSUME SessionInv
  PROVE  TypeOK
<1>1. DOMAIN tabs \subseteq Tabs /\ panes \subseteq Panes /\ DOMAIN clients \subseteq Clients
  BY SessionInvParts, SessionParts DEF SessionShape
<1>2. \A t \in DOMAIN tabs : tabs[t] \in Tab
  BY SessionInvParts DEF TabOK
<1>3. \A c \in DOMAIN clients : clients[c] \in Client
  BY SessionInvParts DEF Fits
<1>4. lifecycle \in {"Running", "Detaching", "Stopping"}
  BY SessionInvParts, SessionParts DEF Lives
<1>5. QED
  BY <1>1, <1>2, <1>3, <1>4 DEF TypeOK

\* TabsAreWellFormed follows from SessionInv.
LEMMA TabsHold ==
  ASSUME SessionInv
  PROVE  TabsAreWellFormed
<1>1. EveryPaneIsOneLeaf
  <2>1. UNION {Leaves(Session, t) : t \in DOMAIN tabs} = panes
    <3>1. \A t \in DOMAIN tabs : Leaves(Session, t) = Range(tabs[t].leaves)
      BY SessionParts DEF Leaves
    <3>2. \A t \in DOMAIN tabs : Range(tabs[t].leaves) \subseteq panes
      BY SessionInvParts DEF TabOK
    <3>3. \A p \in panes : \E t \in DOMAIN tabs : p \in Range(tabs[t].leaves)
      BY SessionInvParts DEF Planted
    <3>4. QED
      BY <3>1, <3>2, <3>3
  <2>2. ASSUME NEW t \in DOMAIN tabs, NEW u \in DOMAIN tabs, NEW i \in DOMAIN tabs[t].leaves,
               NEW j \in DOMAIN tabs[u].leaves, tabs[t].leaves[i] = tabs[u].leaves[j]
        PROVE  t = u /\ i = j
    <3>1. /\ tabs[t].leaves[i] \in Range(tabs[t].leaves)
          /\ tabs[u].leaves[j] \in Range(tabs[u].leaves)
      BY DEF Range
    <3>2. t = u
      BY <2>2, <3>1, SessionInvParts DEF Planted
    <3>3. QED
      BY <2>2, <3>2, SessionInvParts DEF Planted, Distinct
  <2>3. \A t \in DOMAIN tabs : tabs[t].leaves # <<>>
    BY SessionInvParts DEF TabOK
  <2>4. QED
    BY <2>1, <2>2, <2>3 DEF EveryPaneIsOneLeaf
<1>2. TabOrderIsDense
  BY SessionInvParts DEF Dense, TabOrderIsDense
<1>3. QED
  BY <1>1, <1>2, TypeHolds DEF TabsAreWellFormed

\* ViewsAreWhole follows from SessionInv.
LEMMA ViewsHold ==
  ASSUME SessionInv
  PROVE  ViewsAreWhole
<1>1. ASSUME NEW c \in DOMAIN clients, NEW t \in Tabs
      PROVE  /\ Range(clients[c].hist[t]) \subseteq LeavesIn(tabs, t) /\ Distinct(clients[c].hist[t])
             /\ clients[c].zoom[t] \in {NoPane, HeadOf(clients[c].hist[t])}
             /\ clients[c].hist[t] \in Seq(Panes)
  <2>1. ViewOK(clients[c].hist[t], clients[c].zoom[t], LeavesIn(tabs, t) \cup Stale({}, t))
    BY SessionInvParts DEF Fits
  <2>2. Stale({}, t) = {}
    BY DEF Stale
  <2>3. clients[c].hist[t] \in Seq(Panes)
    BY SessionInvParts DEF Fits, Client
  <2>4. QED
    BY <2>1, <2>2, <2>3 DEF ViewOK
<1>2. ASSUME NEW c \in DOMAIN clients, NEW t \in Tabs
      PROVE  HeadOf(clients[c].hist[t]) = Focused(Session, c, t)
  BY SessionParts DEF HeadOf, Focused
<1>3. ViewsAreLive
  <2>1. ASSUME NEW c \in DOMAIN clients
        PROVE  clients[c].active \in DOMAIN tabs \/ lifecycle = "Stopping"
    BY SessionInvParts, SessionParts DEF Lives
  <2>2. ASSUME NEW c \in DOMAIN clients, NEW t \in Tabs
        PROVE  Range(clients[c].hist[t]) \cup {clients[c].zoom[t]} \subseteq LeavesIn(tabs, t) \cup {NoPane}
    <3>1. HeadOf(clients[c].hist[t]) \in Range(clients[c].hist[t]) \cup {NoPane}
      BY <1>1, RangeFacts DEF HeadOf
    <3>2. QED
      BY <1>1, <3>1
  <2>3. \A t \in Tabs : LeavesIn(tabs, t) = IF t \in DOMAIN tabs THEN Leaves(Session, t) ELSE {}
    BY SessionParts DEF LeavesIn, Leaves
  <2>4. QED
    BY <1>1, <2>1, <2>2, <2>3 DEF ViewsAreLive, Distinct
<1>4. ViewHasFocus
  <2>1. ASSUME NEW c \in DOMAIN clients, clients[c].active \in DOMAIN tabs
        PROVE  Focused(Session, c, clients[c].active) # NoPane
    <3>1. PICK t : t = clients[c].active
      OBVIOUS
    <3>2. t \in Tabs /\ clients[c].hist[t] # <<>>
      BY <2>1, <3>1, SessionInvParts, TypeHolds DEF Landed, TypeOK
    <3>3. HeadOf(clients[c].hist[t]) \in Panes
      BY <1>1, <3>2, RangeFacts DEF HeadOf
    <3>4. QED
      BY <1>2, <3>1, <3>2, <3>3, SessionConstants
  <2>2. QED
    BY <1>1, <1>2, <2>1 DEF ViewHasFocus
<1>5. QED
  BY <1>3, <1>4 DEF ViewsAreWhole

\* SolveFitsViewers follows from SessionInv.
LEMMA SolvesHold ==
  ASSUME SessionInv
  PROVE  SolveFitsViewers
<1>1. \A t \in DOMAIN tabs : tabs[t].size = ResolveTabSolveSize(Session, t)
  BY SessionInvParts, SessionParts DEF Settled
<1>2. QED
  BY <1>1 DEF SolveFitsViewers

\* FocusHasRoom follows from SessionInv.
LEMMA FocusHolds ==
  ASSUME SessionInv
  PROVE  FocusHasRoom
<1>1. ASSUME NEW c \in DOMAIN clients, NEW t, t = clients[c].active, t \in DOMAIN tabs,
             clients[c].zoom[t] = NoPane, tabs[t].hidden # Leaves(Session, t)
      PROVE  Focused(Session, c, t) \notin tabs[t].hidden
  <2>1. c \in Viewers(Session, t)
    BY <1>1, SessionParts DEF Viewers
  <2>2. FocusOK(clients[c], tabs[t], t)
    BY <1>1, <2>1, SessionInvParts, SessionParts DEF Settled
  <2>3. Leaves(Session, t) = Range(tabs[t].leaves) /\ Focused(Session, c, t) = HeadOf(clients[c].hist[t])
    BY SessionParts DEF Leaves, Focused, HeadOf
  <2>4. QED
    BY <1>1, <2>2, <2>3 DEF FocusOK
<1>2. QED
  BY <1>1, TypeHolds DEF FocusHasRoom, FocusIsShown

\* KeptSolveIsFresh follows from SessionInv.
LEMMA KeptSolvesHold ==
  ASSUME SessionInv
  PROVE  KeptSolveIsFresh
<1>1. ASSUME NEW c \in DOMAIN clients, clients[c].own # <<>>, clients[c].active \in DOMAIN tabs
      PROVE  clients[c].own = BuildOwnSolve(Session, c, clients[c].active)
  <2>1. clients[c].own = OwnSolve(clients[c], tabs)
    BY <1>1, SessionInvParts DEF Fits
  <2>2. QED
    BY <2>1, SessionParts DEF OwnSolve, BuildOwnSolve, Leaves
<1>2. QED
  BY <1>1 DEF KeptSolveIsFresh

\* Every handler ends with the session whole: the records, trees, histories,
\* zooms, kept solves, sizes and positions agree.
THEOREM SessionInvariant == Spec => []SessionInv
<1>1. Init => SessionInv
  BY InitSession
<1>2. SessionInv /\ [Next]_vars => SessionInv'
  BY NextKeepsSession
<1>3. QED
  BY <1>1, <1>2, PTL DEF Spec

\* No handler leaves a pane out of the trees, a leaf without a record, or a
\* gap in the tab positions (remove_pane_cascade, commit_cross_tab_placement,
\* close_and_refocus_tab, move_tab).
THEOREM TabsWellFormed == Spec => []TabsAreWellFormed
<1>1. SessionInv => TabsAreWellFormed
  BY TabsHold
<1>2. QED
  BY <1>1, SessionInvariant, PTL

\* Every view names live tabs and panes and has a focus, after any cascade of
\* closes, exits and placements.
THEOREM ViewsWhole == Spec => []ViewsAreWhole
<1>1. SessionInv => ViewsAreWhole
  BY ViewsHold
<1>2. QED
  BY <1>1, SessionInvariant, PTL

\* Every tab is solved at the size its present viewers share: no handler
\* leaves a tab that gained or lost a viewer at its old size.
THEOREM SolvesFit == Spec => []SolveFitsViewers
<1>1. SessionInv => SolveFitsViewers
  BY SolvesHold
<1>2. QED
  BY <1>1, SessionInvariant, PTL

\* No tiled view focuses a pane its tab has no room to show, unless the tab
\* shows none.
THEOREM FocusShown == Spec => []FocusHasRoom
<1>1. SessionInv => FocusHasRoom
  BY FocusHolds
<1>2. QED
  BY <1>1, SessionInvariant, PTL

\* The solve a client keeps is the one it would build: every handler that
\* changes a tab, a zoom or a view empties the solves it outdates.
THEOREM KeptSolvesFresh == Spec => []KeptSolveIsFresh
<1>1. SessionInv => KeptSolveIsFresh
  BY KeptSolvesHold
<1>2. QED
  BY <1>1, SessionInvariant, PTL

-----------------------------------------------------------------------------
(* Nobody else's focus *)

(***************************************************************************)
(* What a handler does to the clients it does not act for is followed      *)
(* through its helpers by the frame of the session alone: who views what,  *)
(* which histories changed, and how each tab was solved.                   *)
(***************************************************************************)

RecordFrame(k) ==
  /\ DOMAIN k = {"active", "area", "hist", "zoom", "own"}
  /\ DOMAIN k.hist = Tabs /\ DOMAIN k.zoom = Tabs

Framed(s) ==
  /\ SessionShape(s)
  /\ \A v \in DOMAIN s.tabs : DOMAIN s.tabs[v] = {"leaves", "index", "size", "hidden"}
  /\ \A c \in DOMAIN s.clients : RecordFrame(s.clients[c])

\* A record changed at most in its view of tab t.
OnlyIn(k, m, t) ==
  /\ RecordFrame(m) /\ m.active = k.active /\ m.area = k.area
  /\ \A v \in Tabs \ {t} : m.hist[v] = k.hist[v] /\ m.zoom[v] = k.zoom[v]

\* update_focused_pane and clear_focus_history change the view of one tab.
LEMMA OnlyInFacts ==
  ASSUME NEW k, RecordFrame(k), NEW t, NEW p
  PROVE  OnlyIn(k, UpdateFocusedPane(k, t, p), t) /\ OnlyIn(k, ClearFocusHistory(k, t), t)
         /\ OnlyIn(k, k, t)
<1>1. OnlyIn(k, UpdateFocusedPane(k, t, p), t)
  BY DEF OnlyIn, RecordFrame, UpdateFocusedPane
<1>2. OnlyIn(k, ClearFocusHistory(k, t), t)
  BY DEF OnlyIn, RecordFrame, ClearFocusHistory
<1>3. QED
  BY <1>1, <1>2 DEF OnlyIn

\* repair_client_focus changes the view of one tab.
LEMMA RepairOnlyIn ==
  ASSUME NEW s, NEW t, NEW c, NEW g, RecordFrame(s.clients[c])
  PROVE  OnlyIn(s.clients[c], RepairClientFocus(s, t, c, g), t)
  BY OnlyInFacts DEF RepairClientFocus

\* The focus of client c in a tab it views was handed on, which the tab then
\* had no room for although it showed something.
GivenUp(s, r, c, v) ==
  /\ s.clients[c].active = v /\ v \in DOMAIN r.tabs
  /\ s.clients[c].zoom[v] = NoPane
  /\ HeadOf(s.clients[c].hist[v]) \in r.tabs[v].hidden
  /\ r.tabs[v].hidden # Range(r.tabs[v].leaves)

\* From s to r some tabs of S were solved, and focus was handed on in them.
HandsOn(s, r, S) ==
  /\ Framed(r) /\ DOMAIN r.tabs = DOMAIN s.tabs /\ DOMAIN r.clients = DOMAIN s.clients
  /\ \A c \in DOMAIN s.clients :
        /\ r.clients[c].active = s.clients[c].active /\ r.clients[c].area = s.clients[c].area
        /\ \A v \in Tabs : \/ /\ r.clients[c].hist[v] = s.clients[c].hist[v]
                              /\ r.clients[c].zoom[v] = s.clients[c].zoom[v]
                           \/ v \in S /\ GivenUp(s, r, c, v)

\* A framed session is framed after a change of records.
LEMMA FramedRecords ==
  ASSUME NEW s, NEW r, Framed(s), OnlyClients(s, r),
         \A c \in DOMAIN s.clients : RecordFrame(r.clients[c])
  PROVE  Framed(r)
  BY DEF Framed, OnlyClients, SessionShape

\* hand_off_suppressed_focus.
LEMMA HandOffHandsOn ==
  ASSUME NEW s, Framed(s), NEW t \in DOMAIN s.tabs, NEW g
  PROVE  HandsOn(s, HandOffSuppressedFocus(s, t, g), {t})
         /\ HandOffSuppressedFocus(s, t, g).tabs = s.tabs
<1>1. PICK r : r = HandOffSuppressedFocus(s, t, g)
  OBVIOUS
<1>2. CASE s.tabs[t].hidden = Leaves(s, t)
  <2>1. r = s
    BY <1>1, <1>2 DEF HandOffSuppressedFocus
  <2>2. QED
    BY <1>1, <2>1 DEF HandsOn
<1>3. CASE s.tabs[t].hidden # Leaves(s, t)
  <2>1. r = RepairFocus(s, SuppressedFocus(s, t), t, g)
    BY <1>1, <1>3 DEF HandOffSuppressedFocus
  <2>2. /\ OnlyClients(s, r)
        /\ \A c \in DOMAIN s.clients : r.clients[c] =
               IF c \in SuppressedFocus(s, t) THEN RepairClientFocus(s, t, c, g) ELSE s.clients[c]
    BY <2>1, RepairShape DEF Framed
  <2>3. ASSUME NEW c \in DOMAIN s.clients
        PROVE  /\ OnlyIn(s.clients[c], r.clients[c], t)
               /\ c \in SuppressedFocus(s, t) \/ r.clients[c] = s.clients[c]
    <3>1. RecordFrame(s.clients[c])
      BY DEF Framed
    <3>2. QED
      BY <2>2, <3>1, RepairOnlyIn, OnlyInFacts
  <2>4. Framed(r)
    BY <2>2, <2>3, FramedRecords DEF OnlyIn
  <2>5. ASSUME NEW c \in DOMAIN s.clients, c \in SuppressedFocus(s, t) PROVE GivenUp(s, r, c, t)
    BY <1>3, <2>2, <2>5 DEF SuppressedFocus, Viewers, GivenUp, OnlyClients, Leaves, Focused, HeadOf
  <2>6. ASSUME NEW c \in DOMAIN s.clients
        PROVE  /\ r.clients[c].active = s.clients[c].active /\ r.clients[c].area = s.clients[c].area
               /\ \A v \in Tabs : \/ /\ r.clients[c].hist[v] = s.clients[c].hist[v]
                                     /\ r.clients[c].zoom[v] = s.clients[c].zoom[v]
                                  \/ v \in {t} /\ GivenUp(s, r, c, v)
    BY <2>3, <2>5 DEF OnlyIn
  <2>7. HandsOn(s, r, {t})
    BY <2>2, <2>4, <2>6 DEF HandsOn, OnlyClients
  <2>8. QED
    BY <1>1, <2>2, <2>7 DEF OnlyClients
<1>4. QED
  BY <1>2, <1>3

\* Tab t has this tree, solved at this size.
LaidAs(s, r, t, leaves, size, g) ==
  /\ HandsOn(s, r, {t})
  /\ r.panes = s.panes /\ r.lifecycle = s.lifecycle
  /\ \A w \in DOMAIN s.tabs \ {t} : r.tabs[w] = s.tabs[w]
  /\ r.tabs[t].leaves = leaves /\ r.tabs[t].size = size
  /\ r.tabs[t].hidden = Suppressed(leaves, size, g)

\* A new tree and size, with their solve.
LEMMA SolveTabFrame ==
  ASSUME NEW s, Framed(s), NEW t \in DOMAIN s.tabs, NEW leaves, NEW size, NEW g
  PROVE  LET r == HandOffSuppressedFocus(SolveTab(s, t, leaves, size, g), t, g)
         IN  LaidAs(s, r, t, leaves, size, g)
<1>1. PICK m : m = [s EXCEPT !.tabs[t].leaves = leaves, !.tabs[t].size = size,
                             !.tabs[t].hidden = Suppressed(leaves, size, g)]
  OBVIOUS
<1>2. /\ DOMAIN m = DOMAIN s /\ m.panes = s.panes /\ m.lifecycle = s.lifecycle /\ m.clients = s.clients
      /\ DOMAIN m.tabs = DOMAIN s.tabs
      /\ \A w \in DOMAIN s.tabs \ {t} : m.tabs[w] = s.tabs[w]
      /\ m.tabs[t].leaves = leaves /\ m.tabs[t].size = size
      /\ m.tabs[t].hidden = Suppressed(leaves, size, g)
      /\ DOMAIN m.tabs[t] = {"leaves", "index", "size", "hidden"}
  BY <1>1 DEF Framed, SessionShape
<1>3. Framed(m)
  BY <1>2 DEF Framed, SessionShape
<1>4. PICK d : d = SolveTab(s, t, leaves, size, g)
  OBVIOUS
<1>5. d = DropKeptSolves(m, Viewers(s, t))
  BY <1>1, <1>4 DEF SolveTab
<1>6. /\ OnlyClients(m, d)
      /\ \A c \in DOMAIN m.clients : d.clients[c] =
             IF c \in Viewers(s, t) THEN [m.clients[c] EXCEPT !.own = <<>>] ELSE m.clients[c]
  BY <1>3, <1>5, DropShape DEF Framed
<1>7. ASSUME NEW c \in DOMAIN s.clients
      PROVE  /\ RecordFrame(d.clients[c]) /\ d.clients[c].active = s.clients[c].active
             /\ d.clients[c].area = s.clients[c].area /\ d.clients[c].hist = s.clients[c].hist
             /\ d.clients[c].zoom = s.clients[c].zoom
  <2>1. RecordFrame(s.clients[c])
    BY DEF Framed
  <2>2. d.clients[c] = s.clients[c] \/ d.clients[c] = [s.clients[c] EXCEPT !.own = <<>>]
    BY <1>2, <1>6
  <2>3. PICK k, n : k = s.clients[c] /\ n = d.clients[c]
    OBVIOUS
  <2>4. RecordFrame(k) /\ (n = k \/ n = [k EXCEPT !.own = <<>>])
    BY <2>1, <2>2, <2>3
  <2>5. /\ RecordFrame(n) /\ n.active = k.active /\ n.area = k.area /\ n.hist = k.hist
        /\ n.zoom = k.zoom
    BY <2>4 DEF RecordFrame
  <2>6. QED
    BY <2>3, <2>5
<1>8. Framed(d) /\ t \in DOMAIN d.tabs
  BY <1>2, <1>3, <1>6, <1>7, FramedRecords DEF OnlyClients
<1>9. PICK r : r = HandOffSuppressedFocus(d, t, g)
  OBVIOUS
<1>10. HandsOn(d, r, {t}) /\ r.tabs = d.tabs
  BY <1>8, <1>9, HandOffHandsOn
<1>11. HandsOn(s, r, {t})
  BY <1>2, <1>6, <1>7, <1>10 DEF HandsOn, OnlyClients, GivenUp
<1>12. r.panes = d.panes /\ r.lifecycle = d.lifecycle
  BY <1>9 DEF HandOffSuppressedFocus, RepairFocus, ForClients
<1>13. QED
  BY <1>2, <1>4, <1>6, <1>9, <1>10, <1>11, <1>12 DEF LaidAs, OnlyClients

\* update_tab_layout.
LEMMA LayoutFrame ==
  ASSUME NEW s, Framed(s), NEW t \in DOMAIN s.tabs, NEW leaves, NEW g
  PROVE  LaidAs(s, UpdateTabLayout(s, t, leaves, g), t, leaves, s.tabs[t].size, g)
  BY SolveTabFrame DEF UpdateTabLayout

\* From s to r the tabs of S were solved for their viewers, each once.
SolvedFor(s, r, v, g) ==
  /\ r.tabs[v].leaves = s.tabs[v].leaves /\ r.tabs[v].size = ResolveTabSolveSize(s, v)
  /\ r.tabs[v].hidden = IF r.tabs[v].size = s.tabs[v].size THEN s.tabs[v].hidden
                         ELSE Suppressed(s.tabs[v].leaves, r.tabs[v].size, g)

Resolves(s, r, S, g) ==
  /\ HandsOn(s, r, S)
  /\ \A v \in DOMAIN s.tabs \ S : SameSolve(s.tabs[v], r.tabs[v])
  /\ \A v \in DOMAIN s.tabs \cap S : SolvedFor(s, r, v, g)

\* update_tab_solve.
LEMMA SolveFrame ==
  ASSUME NEW s, Framed(s), NEW t, NEW g
  PROVE  Resolves(s, UpdateTabSolve(s, t, g), {t}, g)
<1>1. PICK r : r = UpdateTabSolve(s, t, g)
  OBVIOUS
<1>2. CASE t \notin DOMAIN s.tabs
  <2>1. r = s
    BY <1>1, <1>2 DEF UpdateTabSolve
  <2>2. QED
    BY <1>1, <1>2, <2>1 DEF Resolves, HandsOn, SameSolve
<1>3. CASE t \in DOMAIN s.tabs
  <2>1. PICK size : size = ResolveTabSolveSize(s, t)
    OBVIOUS
  <2>2. CASE size = s.tabs[t].size
    <3>1. r = HandOffSuppressedFocus(s, t, g)
      BY <1>1, <1>3, <2>1, <2>2 DEF UpdateTabSolve
    <3>2. HandsOn(s, r, {t}) /\ r.tabs = s.tabs
      BY <1>3, <3>1, HandOffHandsOn
    <3>3. QED
      BY <1>1, <2>1, <2>2, <3>2 DEF Resolves, SolvedFor, SameSolve
  <2>3. CASE size # s.tabs[t].size
    <3>1. r = HandOffSuppressedFocus(SolveTab(s, t, s.tabs[t].leaves, size, g), t, g)
      BY <1>1, <1>3, <2>1, <2>3 DEF UpdateTabSolve
    <3>2. LaidAs(s, r, t, s.tabs[t].leaves, size, g)
      BY <1>3, <3>1, SolveTabFrame
    <3>3. QED
      BY <1>1, <2>1, <2>3, <3>2 DEF LaidAs, Resolves, SolvedFor, SameSolve
  <2>4. QED
    BY <2>2, <2>3
<1>4. QED
  BY <1>2, <1>3

\* The same clients view a tab, with the same areas.
LEMMA CrowdKept ==
  ASSUME NEW s, NEW r, NEW v, DOMAIN r.clients = DOMAIN s.clients,
         \A c \in DOMAIN s.clients : /\ r.clients[c].active = s.clients[c].active
                                     /\ r.clients[c].area = s.clients[c].area
  PROVE  /\ Viewers(r, v) = Viewers(s, v) /\ GetTabSize(r, v) = GetTabSize(s, v)
         /\ r.tabs[v].size \in {s.tabs[v].size, ResolveTabSolveSize(s, v)}
              => ResolveTabSolveSize(r, v) = ResolveTabSolveSize(s, v)
<1>1. Viewers(r, v) = Viewers(s, v)
  BY DEF Viewers
<1>2. \A c \in Viewers(s, v) : r.clients[c].area = s.clients[c].area
  BY DEF Viewers
<1>3. {r.clients[c].area : c \in Viewers(r, v)} = {s.clients[c].area : c \in Viewers(s, v)}
  BY <1>1, <1>2
<1>4. GetTabSize(r, v) = GetTabSize(s, v)
  BY <1>3 DEF GetTabSize
<1>5. QED
  BY <1>1, <1>4 DEF ResolveTabSolveSize

\* A tab that was solved for its viewers is not solved anew.
LEMMA ResolvesTrans ==
  ASSUME NEW s, NEW m, NEW r, NEW S, NEW U, NEW g, Resolves(s, m, S, g), Resolves(m, r, U, g)
  PROVE  Resolves(s, r, S \cup U, g)
<1>1. /\ Framed(r) /\ DOMAIN m.tabs = DOMAIN s.tabs /\ DOMAIN r.tabs = DOMAIN s.tabs
      /\ DOMAIN m.clients = DOMAIN s.clients /\ DOMAIN r.clients = DOMAIN s.clients
      /\ \A c \in DOMAIN s.clients :
            /\ m.clients[c].active = s.clients[c].active /\ m.clients[c].area = s.clients[c].area
            /\ r.clients[c].active = s.clients[c].active /\ r.clients[c].area = s.clients[c].area
  BY DEF Resolves, HandsOn
<1>2. ASSUME NEW v \in DOMAIN s.tabs
      PROVE  /\ v \in S => SameSolve(m.tabs[v], r.tabs[v])
             /\ v \notin S => SameSolve(s.tabs[v], m.tabs[v])
             /\ v \notin U => SameSolve(m.tabs[v], r.tabs[v])
             /\ v \in S \cup U => SolvedFor(s, r, v, g)
  <2>1. v \notin S => SameSolve(s.tabs[v], m.tabs[v])
    BY <1>1 DEF Resolves
  <2>2. v \notin U => SameSolve(m.tabs[v], r.tabs[v])
    BY <1>1 DEF Resolves
  <2>3. v \in S => SolvedFor(s, m, v, g)
    BY DEF Resolves
  <2>4. v \in U => SolvedFor(m, r, v, g)
    BY <1>1 DEF Resolves
  <2>5. ResolveTabSolveSize(m, v) = ResolveTabSolveSize(s, v)
    <3>1. m.tabs[v].size \in {s.tabs[v].size, ResolveTabSolveSize(s, v)}
      BY <2>1, <2>3 DEF SameSolve, SolvedFor
    <3>2. QED
      BY <1>1, <3>1, CrowdKept
  <2>6. CASE v \in S /\ v \in U
    <3>1. m.tabs[v].size = r.tabs[v].size /\ m.tabs[v].leaves = r.tabs[v].leaves
      BY <2>3, <2>4, <2>5, <2>6 DEF SolvedFor
    <3>2. QED
      BY <2>3, <2>4, <2>5, <2>6, <3>1 DEF SolvedFor, SameSolve
  <2>7. CASE ~(v \in S /\ v \in U)
    BY <2>1, <2>2, <2>3, <2>4, <2>5, <2>7 DEF SolvedFor, SameSolve
  <2>8. QED
    BY <2>1, <2>2, <2>6, <2>7
<1>3. ASSUME NEW c \in DOMAIN s.clients, NEW v \in Tabs
      PROVE  \/ /\ r.clients[c].hist[v] = s.clients[c].hist[v]
                /\ r.clients[c].zoom[v] = s.clients[c].zoom[v]
             \/ v \in S \cup U /\ GivenUp(s, r, c, v)
  <2>1. \/ /\ m.clients[c].hist[v] = s.clients[c].hist[v]
           /\ m.clients[c].zoom[v] = s.clients[c].zoom[v]
        \/ v \in S /\ GivenUp(s, m, c, v)
    BY DEF Resolves, HandsOn
  <2>2. \/ /\ r.clients[c].hist[v] = m.clients[c].hist[v]
           /\ r.clients[c].zoom[v] = m.clients[c].zoom[v]
        \/ v \in U /\ GivenUp(m, r, c, v)
    BY <1>1 DEF Resolves, HandsOn
  <2>3. CASE v \in S /\ GivenUp(s, m, c, v)
    <3>1. v \in DOMAIN s.tabs /\ SameSolve(m.tabs[v], r.tabs[v])
      BY <1>1, <1>2, <2>3 DEF GivenUp
    <3>2. QED
      BY <1>1, <2>3, <3>1 DEF GivenUp, SameSolve
  <2>4. CASE /\ m.clients[c].hist[v] = s.clients[c].hist[v]
             /\ m.clients[c].zoom[v] = s.clients[c].zoom[v]
    BY <1>1, <2>2, <2>4 DEF GivenUp
  <2>5. QED
    BY <2>1, <2>3, <2>4
<1>4. HandsOn(s, r, S \cup U)
  BY <1>1, <1>3 DEF HandsOn
<1>5. ASSUME NEW v \in DOMAIN s.tabs, v \notin S \cup U PROVE SameSolve(s.tabs[v], r.tabs[v])
  BY <1>2, <1>5 DEF SameSolve
<1>6. QED
  BY <1>2, <1>4, <1>5 DEF Resolves

\* update_tab_solves.
LEMMA SolvesFrame ==
  ASSUME NEW s, Framed(s), NEW t, NEW left, NEW g
  PROVE  Resolves(s, UpdateTabSolves(s, t, left, g), {t} \cup {left}, g)
<1>1. PICK m : m = UpdateTabSolve(s, t, g)
  OBVIOUS
<1>2. Resolves(s, m, {t}, g) /\ Framed(m)
  BY <1>1, SolveFrame DEF Resolves, HandsOn
<1>3. Resolves(m, UpdateTabSolve(m, left, g), {left}, g)
  BY <1>2, SolveFrame
<1>4. QED
  BY <1>1, <1>2, <1>3, ResolvesTrans DEF UpdateTabSolves

\* Solving a set of tabs.
LEMMA SolveEachFrame ==
  ASSUME NEW s, Framed(s), NEW S, NEW g
  PROVE  Resolves(s, SolveEachTab(s, S, g), S, g)
<1> DEFINE U(t) == UpdateTabSolve(s, t, g)
           r == SolveEachTab(s, S, g)
<1>1. \A t : Resolves(s, U(t), {t}, g)
  BY SolveFrame
<1>2. /\ DOMAIN r = DOMAIN s /\ r.panes = s.panes /\ r.lifecycle = s.lifecycle
      /\ DOMAIN r.tabs = DOMAIN s.tabs /\ DOMAIN r.clients = DOMAIN s.clients
      /\ \A t \in DOMAIN s.tabs : r.tabs[t] = IF t \in S THEN U(t).tabs[t] ELSE s.tabs[t]
      /\ \A c \in DOMAIN s.clients :
            r.clients[c] = IF s.clients[c].active \in S THEN U(s.clients[c].active).clients[c]
                           ELSE s.clients[c]
  BY DEF SolveEachTab, SessionShape, Framed
<1> HIDE DEF U, r
<1>3. \A t : /\ Framed(U(t)) /\ DOMAIN U(t).tabs = DOMAIN s.tabs /\ DOMAIN U(t).clients = DOMAIN s.clients
  BY <1>1 DEF Resolves, HandsOn
<1>4. Framed(r)
  <2>1. SessionShape(r)
    BY <1>2 DEF Framed, SessionShape
  <2>2. ASSUME NEW t \in DOMAIN r.tabs PROVE DOMAIN r.tabs[t] = {"leaves", "index", "size", "hidden"}
    BY <1>2, <1>3 DEF Framed
  <2>3. ASSUME NEW c \in DOMAIN r.clients PROVE RecordFrame(r.clients[c])
    BY <1>2, <1>3 DEF Framed
  <2>4. QED
    BY <2>1, <2>2, <2>3 DEF Framed
<1>5. ASSUME NEW c \in DOMAIN s.clients
      PROVE  /\ r.clients[c].active = s.clients[c].active /\ r.clients[c].area = s.clients[c].area
             /\ \A v \in Tabs : \/ /\ r.clients[c].hist[v] = s.clients[c].hist[v]
                                   /\ r.clients[c].zoom[v] = s.clients[c].zoom[v]
                                \/ v \in S /\ GivenUp(s, r, c, v)
  <2>1. CASE s.clients[c].active \notin S
    BY <1>2, <2>1
  <2>2. CASE s.clients[c].active \in S
    <3>1. PICK a : a = s.clients[c].active
      OBVIOUS
    <3>2. PICK u : u = U(a)
      OBVIOUS
    <3>3. HandsOn(s, u, {a}) /\ r.clients[c] = u.clients[c]
      BY <1>1, <1>2, <2>2, <3>1, <3>2 DEF Resolves
    <3>4. a \in DOMAIN s.tabs => r.tabs[a] = u.tabs[a]
      BY <1>2, <2>2, <3>1, <3>2
    <3>5. GivenUp(s, u, c, a) => GivenUp(s, r, c, a)
      BY <1>2, <1>3, <3>2, <3>4 DEF GivenUp
    <3>6. QED
      BY <2>2, <3>1, <3>3, <3>5 DEF HandsOn
  <2>3. QED
    BY <2>1, <2>2
<1>6. HandsOn(s, r, S)
  BY <1>2, <1>4, <1>5 DEF HandsOn
<1>7. \A v \in DOMAIN s.tabs \ S : SameSolve(s.tabs[v], r.tabs[v])
  BY <1>2 DEF SameSolve
<1>8. ASSUME NEW v \in DOMAIN s.tabs \cap S PROVE SolvedFor(s, r, v, g)
  <2>1. SolvedFor(s, U(v), v, g)
    BY <1>1 DEF Resolves
  <2>2. r.tabs[v] = U(v).tabs[v]
    BY <1>2
  <2>3. QED
    BY <2>1, <2>2 DEF SolvedFor
<1>9. QED
  BY <1>6, <1>7, <1>8 DEF Resolves, r

\* A step leaves client e on its tab, if that stands, and in every tab that
\* got no more room on the pane it focused, if the tab still shows it.
Shown(tab) == Range(tab.leaves) \ tab.hidden

FocusKept(k, m, v, S) ==
  HeadOf(k.hist[v]) \in S \ {NoPane} => HeadOf(m.hist[v]) = HeadOf(k.hist[v])

Spared(s, r, e) ==
  e \in DOMAIN s.clients \cap DOMAIN r.clients =>
    /\ r.clients[e].active = s.clients[e].active \/ s.clients[e].active \notin DOMAIN r.tabs
    /\ \A v \in DOMAIN s.tabs \cap DOMAIN r.tabs :
          r.tabs[v].size <= s.tabs[v].size
            => FocusKept(s.clients[e], r.clients[e], v, Shown(r.tabs[v]))

\* A session that is whole has its frame.
LEMMA WholeFramed ==
  ASSUME NEW s, NEW B, WholeBut(s, B)
  PROVE  Framed(s)
<1>1. ASSUME NEW c \in DOMAIN s.clients PROVE RecordFrame(s.clients[c])
  <2>1. s.clients[c] \in Client
    BY DEF WholeBut, Steady, Fits
  <2>2. QED
    BY <2>1 DEF Client, RecordFrame
<1>2. ASSUME NEW v \in DOMAIN s.tabs PROVE DOMAIN s.tabs[v] = {"leaves", "index", "size", "hidden"}
  <2>1. s.tabs[v] \in Tab
    BY DEF WholeBut, Steady, TabOK
  <2>2. QED
    BY <2>1 DEF Tab
<1>3. QED
  BY <1>1, <1>2 DEF Framed, WholeBut, Steady

\* A client that is spared is not displaced.
LEMMA SparedStays ==
  ASSUME SessionInv, SessionInv', NEW r, Commit(r), NEW e, Spared(Session, r, e)
  PROVE  ~Displaced(e)
<1>1. /\ Session.tabs = tabs /\ Session.clients = clients /\ r.tabs = tabs' /\ r.clients = clients'
  BY SessionParts DEF Commit
<1>2. ~Switched(e)
  BY <1>1 DEF Spared, Switched
<1>3. ASSUME MovedFreely(e) PROVE FALSE
  <2>1. PICK v \in DOMAIN tabs \cap DOMAIN tabs' :
          /\ tabs'[v].size <= tabs[v].size
          /\ Focused(Session, e, v) \in Range(tabs'[v].leaves)
          /\ Focused(Session, e, v) \notin tabs'[v].hidden
          /\ clients'[e].hist[v] = <<>> \/ Head(clients'[e].hist[v]) # Focused(Session, e, v)
    BY <1>3 DEF MovedFreely
  <2>2. e \in DOMAIN clients \cap DOMAIN clients'
    BY <1>3 DEF MovedFreely
  <2>3. Focused(Session, e, v) = HeadOf(clients[e].hist[v])
    BY <1>1 DEF Focused, HeadOf
  <2>4. PICK h : h = HeadOf(clients[e].hist[v])
    OBVIOUS
  <2>5. PICK q : q = Session'
    OBVIOUS
  <2>6. Range(tabs'[v].leaves) \subseteq Panes
    <3>1. WholeBut(q, {}) /\ q.tabs = tabs'
      BY <2>5 DEF SessionInv, Session
    <3>2. tabs'[v].leaves \in Seq(Panes)
      BY <3>1 DEF WholeBut, Steady, TabOK, Tab
    <3>3. QED
      BY <3>2, RangeFacts
  <2>7. h # NoPane
    BY <2>1, <2>3, <2>4, <2>6, SessionConstants
  <2>8. HeadOf(clients'[e].hist[v]) = h
    BY <1>1, <2>1, <2>2, <2>3, <2>4, <2>7 DEF Spared, FocusKept, Shown
  <2>9. QED
    BY <2>1, <2>3, <2>4, <2>7, <2>8 DEF HeadOf
<1>4. QED
  BY <1>2, <1>3 DEF Displaced

\* Client e has in m the tab and the foci it has in s, where the tabs stand.
Alike(s, m, e) ==
  e \in DOMAIN s.clients /\ e \in DOMAIN m.clients =>
    /\ m.clients[e].active = s.clients[e].active \/ s.clients[e].active \notin DOMAIN m.tabs
    /\ \A v \in Tabs \cap DOMAIN m.tabs :
          HeadOf(s.clients[e].hist[v]) \in {NoPane, HeadOf(m.clients[e].hist[v])}

\* Solving tabs spares the clients that nothing happened to before.
LEMMA SolvesSpare ==
  ASSUME NEW s, NEW m, NEW r, NEW S, NEW g, NEW e, Framed(s), Alike(s, m, e), Resolves(m, r, S, g)
  PROVE  Spared(s, r, e)
<1> SUFFICES ASSUME e \in DOMAIN s.clients \cap DOMAIN r.clients
             PROVE  /\ r.clients[e].active = s.clients[e].active \/ s.clients[e].active \notin DOMAIN r.tabs
                    /\ \A v \in DOMAIN s.tabs \cap DOMAIN r.tabs :
                          FocusKept(s.clients[e], r.clients[e], v, Shown(r.tabs[v]))
  BY DEF Spared
<1>1. e \in DOMAIN m.clients /\ HandsOn(m, r, S) /\ DOMAIN r.tabs = DOMAIN m.tabs
  BY DEF Resolves, HandsOn
<1>2. r.clients[e].active = s.clients[e].active \/ s.clients[e].active \notin DOMAIN r.tabs
  BY <1>1 DEF HandsOn, Alike
<1>3. ASSUME NEW v \in DOMAIN s.tabs \cap DOMAIN r.tabs,
             HeadOf(s.clients[e].hist[v]) \in Shown(r.tabs[v]) \ {NoPane}
      PROVE  HeadOf(r.clients[e].hist[v]) = HeadOf(s.clients[e].hist[v])
  <2>1. v \in Tabs /\ HeadOf(m.clients[e].hist[v]) = HeadOf(s.clients[e].hist[v])
    BY <1>1, <1>3 DEF Framed, SessionShape, Alike
  <2>2. r.clients[e].hist[v] = m.clients[e].hist[v] \/ GivenUp(m, r, e, v)
    BY <1>1, <2>1 DEF HandsOn
  <2>3. ~GivenUp(m, r, e, v)
    BY <1>3, <2>1 DEF GivenUp, Shown
  <2>4. QED
    BY <2>1, <2>2, <2>3
<1>4. QED
  BY <1>2, <1>3 DEF FocusKept

\* DrawClient keeps a solve and nothing else.
LEMMA DrawSpares ==
  ASSUME SessionInv, SessionInv', NEW c, DrawClient(c), NEW e
  PROVE  ~Displaced(e)
<1>1. PICK s : s = Session
  OBVIOUS
<1>2. PICK r : r = KeepSolves(s, {c}, clients[c].active)
  OBVIOUS
<1>3. Commit(r) /\ WholeBut(s, {}) /\ clients[c].active \in DOMAIN s.tabs
  BY <1>1, <1>2, SessionParts DEF DrawClient, SessionInv
<1>4. OnlyClients(s, r) /\ HistoriesKept(s, r)
  BY <1>2, <1>3, KeepSteady DEF WholeBut, Reshaped
<1>5. Spared(s, r, e)
  BY <1>4 DEF Spared, FocusKept, HistoriesKept, OnlyClients
<1>6. QED
  BY <1>1, <1>3, <1>5, SparedStays

\* MoveTab changes no client.
LEMMA MoveTabSpares ==
  ASSUME SessionInv, SessionInv', NEW t, NEW index, MoveTab(t, index), NEW e
  PROVE  ~Displaced(e)
<1>1. clients' = clients /\ DOMAIN tabs' = DOMAIN tabs
  BY DEF MoveTab, Commit, Session
<1>2. ~Switched(e)
  BY <1>1 DEF Switched
<1>3. PICK r : r = [tabs |-> tabs', panes |-> panes', clients |-> clients', lifecycle |-> lifecycle']
  OBVIOUS
<1>4. Commit(r)
  BY <1>3 DEF Commit
<1>5. Spared(Session, r, e)
  BY <1>1, <1>3, SessionParts DEF Spared, FocusKept
<1>6. QED
  BY <1>4, <1>5, SparedStays

\* ResizeClient changes one record, then solves.
LEMMA ResizeSpares ==
  ASSUME SessionInv, SessionInv', NEW c, NEW area, NEW g, ResizeClient(c, area, g), NEW e, e # c
  PROVE  ~Displaced(e)
<1>1. PICK s : s = Session
  OBVIOUS
<1>2. PICK m : m = [s EXCEPT !.clients[c].area = area]
  OBVIOUS
<1>3. PICK r : r = UpdateTabSolve(m, clients[c].active, g)
  OBVIOUS
<1>4. /\ Framed(s) /\ c \in DOMAIN s.clients /\ Commit(r)
  BY <1>1, <1>2, <1>3, SessionParts, WholeFramed DEF SessionInv, ResizeClient
<1>5. /\ OnlyClients(s, m)
      /\ \A d \in DOMAIN s.clients :
            m.clients[d] = IF d = c THEN [s.clients[c] EXCEPT !.area = area] ELSE s.clients[d]
  BY <1>2, <1>4 DEF OnlyClients, Framed, SessionShape
<1>6. \A d \in DOMAIN s.clients : RecordFrame(m.clients[d])
  BY <1>4, <1>5 DEF Framed, RecordFrame
<1>7. Framed(m) /\ Alike(s, m, e)
  BY <1>4, <1>5, <1>6, FramedRecords DEF Alike
<1>8. Spared(s, r, e)
  BY <1>3, <1>4, <1>7, SolveFrame, SolvesSpare
<1>9. QED
  BY <1>1, <1>4, <1>8, SparedStays

\* DetachClient takes one record out, then solves.
LEMMA DetachSpares ==
  ASSUME SessionInv, SessionInv', NEW c, NEW g, DetachClient(c, g), NEW e
  PROVE  ~Displaced(e)
<1>1. PICK s : s = Session
  OBVIOUS
<1>2. PICK m : m = [s EXCEPT
                    !.clients = [d \in DOMAIN clients \ {c} |-> clients[d]],
                    !.lifecycle = IF DOMAIN clients \ {c} # {} THEN @
                                  ELSE Transition(@, "LastClientDetached")]
  OBVIOUS
<1>3. PICK r : r = UpdateTabSolve(m, clients[c].active, g)
  OBVIOUS
<1>4. Framed(s) /\ Commit(r) /\ s.clients = clients
  BY <1>1, <1>2, <1>3, SessionParts, WholeFramed DEF SessionInv, DetachClient
<1>5. /\ DOMAIN m = DOMAIN s /\ m.tabs = s.tabs /\ m.panes = s.panes
      /\ DOMAIN m.clients = DOMAIN s.clients \ {c}
      /\ \A d \in DOMAIN m.clients : m.clients[d] = s.clients[d]
  BY <1>2, <1>4 DEF Framed, SessionShape
<1>6. Framed(m) /\ Alike(s, m, e)
  BY <1>4, <1>5 DEF Framed, SessionShape, Alike
<1>7. Spared(s, r, e)
  BY <1>3, <1>4, <1>6, SolveFrame, SolvesSpare
<1>8. QED
  BY <1>1, <1>4, <1>7, SparedStays

\* Landing changes a history that had no head.
LEMMA LandOnlyIn ==
  ASSUME NEW s, NEW c, NEW t, RecordFrame(s.clients[c])
  PROVE  /\ OnlyIn(s.clients[c], LandFocus(s, c, t), t)
         /\ HeadOf(s.clients[c].hist[t]) # NoPane => LandFocus(s, c, t) = s.clients[c]
  BY OnlyInFacts DEF LandFocus, Focused, HeadOf

\* AttachClient changes one record, then solves.
LEMMA AttachSpares ==
  ASSUME SessionInv, SessionInv', NEW c \in Clients, NEW t, NEW area, NEW g,
         AttachClient(c, t, area, g), NEW e, e # c
  PROVE  ~Displaced(e)
<1>1. PICK s : s = Session
  OBVIOUS
<1> DEFINE isAttached == c \in DOMAIN s.clients
<1>2. PICK record : record = IF isAttached
                     THEN [UpdateActiveTab(s.clients[c], t) EXCEPT !.area = area]
                     ELSE FromAttachment(t, area)
  OBVIOUS
<1>3. PICK n : n = [s EXCEPT
                           !.clients = With(@, c, record),
                           !.lifecycle = IF isAttached THEN @
                                         ELSE Transition(@, "ClientAttached")]
  OBVIOUS
<1>4. PICK left : left = IF isAttached THEN s.clients[c].active ELSE t
  OBVIOUS
<1>5. PICK m : m = LandClients(n, {c}, t)
  OBVIOUS
<1>6. PICK r : r = UpdateTabSolves(m, t, left, g)
  OBVIOUS
<1>7. Framed(s) /\ s.clients = clients
  BY <1>1, SessionParts, WholeFramed DEF SessionInv
<1>8. Commit(r)
  BY <1>1, <1>2, <1>3, <1>4, <1>5, <1>6, <1>7 DEF AttachClient
<1>9. /\ DOMAIN n = DOMAIN s /\ n.tabs = s.tabs /\ n.panes = s.panes
      /\ DOMAIN n.clients = DOMAIN s.clients \cup {c} /\ n.clients[c] = record
      /\ \A d \in DOMAIN s.clients \ {c} : n.clients[d] = s.clients[d]
  BY <1>3, <1>7 DEF Framed, SessionShape, With
<1>10. RecordFrame(record)
  <2>1. CASE isAttached
    BY <1>2, <1>7, <2>1 DEF Framed, RecordFrame, UpdateActiveTab
  <2>2. CASE ~isAttached
    BY <1>2, <2>2 DEF RecordFrame, FromAttachment
  <2>3. QED
    BY <2>1, <2>2
<1>11. Framed(n)
  BY <1>7, <1>9, <1>10 DEF Framed, SessionShape
<1>12. /\ OnlyClients(n, m)
       /\ \A d \in DOMAIN n.clients : m.clients[d] =
              IF d \in {c} THEN LandFocus(n, d, t) ELSE n.clients[d]
  BY <1>5, <1>11, LandShape DEF Framed
<1>13. \A d \in DOMAIN n.clients : RecordFrame(m.clients[d])
  BY <1>11, <1>12, LandOnlyIn DEF Framed, OnlyIn
<1>14. Framed(m)
  BY <1>11, <1>12, <1>13, FramedRecords
<1>15. Alike(s, m, e)
  BY <1>9, <1>12 DEF Alike
<1>16. Resolves(m, r, {t} \cup {left}, g)
  BY <1>6, <1>14, SolvesFrame
<1>17. Spared(s, r, e)
  BY <1>7, <1>15, <1>16, SolvesSpare
<1>18. QED
  BY <1>1, <1>8, <1>17, SparedStays

\* Only the records of the clients of S changed.
Changes(s, r, S) ==
  /\ Framed(r) /\ OnlyClients(s, r)
  /\ \A c \in DOMAIN s.clients \ S : r.clients[c] = s.clients[c]

\* A change of the records of S.
LEMMA ChangesFacts ==
  ASSUME NEW s, Framed(s), NEW S, NEW t, NEW p, NEW d
  PROVE  /\ Changes(s, ShowTab(s, S, t), S) /\ Changes(s, LandClients(s, S, t), S)
         /\ Changes(s, LeaveZoom(s, S, t), S)
         /\ Changes(s, FocusTiled(s, d, t, p), {d}) /\ Changes(s, EnterZoom(s, d, t, p), {d})
<1>1. SessionShape(s) /\ \A c \in DOMAIN s.clients : RecordFrame(s.clients[c])
  BY DEF Framed
<1>2. ASSUME NEW c \in DOMAIN s.clients
      PROVE  /\ RecordFrame(UpdateActiveTab(s.clients[c], t)) /\ RecordFrame(ClearZoom(s.clients[c], t))
             /\ RecordFrame(ZoomPane(s.clients[c], t, p))
             /\ RecordFrame(UpdateFocusedPane(s.clients[c], t, p)) /\ RecordFrame(LandFocus(s, c, t))
  <2>1. RecordFrame(s.clients[c])
    BY <1>1
  <2>2. RecordFrame(UpdateFocusedPane(s.clients[c], t, p)) /\ RecordFrame(LandFocus(s, c, t))
    BY <2>1, OnlyInFacts, LandOnlyIn DEF OnlyIn
  <2>3. PICK k : k = s.clients[c]
    OBVIOUS
  <2>4. RecordFrame(UpdateActiveTab(k, t)) /\ RecordFrame(ClearZoom(k, t)) /\ RecordFrame(ZoomPane(k, t, p))
    BY <2>1, <2>3 DEF RecordFrame, UpdateActiveTab, ClearZoom, ZoomPane
  <2>5. QED
    BY <2>2, <2>3, <2>4
<1>3. Changes(s, ShowTab(s, S, t), S)
  <2>1. PICK r : r = ShowTab(s, S, t)
    OBVIOUS
  <2>2. /\ OnlyClients(s, r)
        /\ \A c \in DOMAIN s.clients : r.clients[c] =
             IF c \in S THEN UpdateActiveTab(s.clients[c], t) ELSE s.clients[c]
    BY <1>1, <2>1, ShowShape
  <2>3. QED
    BY <1>1, <1>2, <2>1, <2>2, FramedRecords DEF Changes
<1>4. Changes(s, LandClients(s, S, t), S)
  <2>1. PICK r : r = LandClients(s, S, t)
    OBVIOUS
  <2>2. /\ OnlyClients(s, r)
        /\ \A c \in DOMAIN s.clients : r.clients[c] =
             IF c \in S THEN LandFocus(s, c, t) ELSE s.clients[c]
    BY <1>1, <2>1, LandShape
  <2>3. QED
    BY <1>1, <1>2, <2>1, <2>2, FramedRecords DEF Changes
<1>5. Changes(s, LeaveZoom(s, S, t), S)
  <2>1. PICK r : r = LeaveZoom(s, S, t)
    OBVIOUS
  <2>2. /\ OnlyClients(s, r)
        /\ \A c \in DOMAIN s.clients : r.clients[c] =
             IF c \in S THEN ClearZoom(s.clients[c], t) ELSE s.clients[c]
    BY <1>1, <2>1, LeaveZoomShape
  <2>3. QED
    BY <1>1, <1>2, <2>1, <2>2, FramedRecords DEF Changes
<1>6. Changes(s, FocusTiled(s, d, t, p), {d})
  <2>1. PICK r : r = FocusTiled(s, d, t, p)
    OBVIOUS
  <2>2. /\ OnlyClients(s, r)
        /\ \A c \in DOMAIN s.clients : r.clients[c] =
             IF c = d THEN UpdateFocusedPane(s.clients[c], t, p) ELSE s.clients[c]
    BY <1>1, <2>1, FocusShape
  <2>3. QED
    BY <1>1, <1>2, <2>1, <2>2, FramedRecords DEF Changes
<1>7. Changes(s, EnterZoom(s, d, t, p), {d})
  <2>1. PICK r : r = EnterZoom(s, d, t, p)
    OBVIOUS
  <2>2. /\ OnlyClients(s, r)
        /\ \A c \in DOMAIN s.clients : r.clients[c] =
             IF c = d THEN ZoomPane(s.clients[c], t, p) ELSE s.clients[c]
    BY <1>1, <2>1, EnterZoomShape
  <2>3. QED
    BY <1>1, <1>2, <2>1, <2>2, FramedRecords DEF Changes
<1>8. QED
  BY <1>3, <1>4, <1>5, <1>6, <1>7

\* One change after another.
LEMMA ChangesTrans ==
  ASSUME NEW s, NEW m, NEW r, NEW S, Changes(s, m, S), Changes(m, r, S)
  PROVE  Changes(s, r, S)
  BY DEF Changes, OnlyClients

\* A client whose record did not change is as it was.
LEMMA ChangesAlike ==
  ASSUME NEW s, NEW m, NEW S, NEW e, Changes(s, m, S), e \notin S
  PROVE  Alike(s, m, e)
  BY DEF Changes, Alike

\* FocusTab brings one client to a tab, then solves.
LEMMA FocusTabSpares ==
  ASSUME SessionInv, SessionInv', NEW c, NEW t, NEW g, FocusTab(c, t, g), NEW e, e # c
  PROVE  ~Displaced(e)
<1>1. PICK s : s = Session
  OBVIOUS
<1>2. PICK left : left = clients[c].active
  OBVIOUS
<1>3. PICK m : m = LandClients(ShowTab(s, {c}, t), {c}, t)
  OBVIOUS
<1>4. PICK n : n = UpdateTabSolves(m, t, left, g)
  OBVIOUS
<1>5. PICK r : r = UpdateTabSolves(n, t, left, g)
  OBVIOUS
<1>6. Framed(s) /\ Commit(r)
  BY <1>1, <1>2, <1>3, <1>4, <1>5, WholeFramed DEF SessionInv, FocusTab
<1>7. Changes(s, ShowTab(s, {c}, t), {c})
  BY <1>6, ChangesFacts
<1>8. Changes(s, m, {c})
  <2>1. Framed(ShowTab(s, {c}, t))
    BY <1>7 DEF Changes
  <2>2. Changes(ShowTab(s, {c}, t), m, {c})
    BY <1>3, <2>1, ChangesFacts
  <2>3. QED
    BY <1>7, <2>2, ChangesTrans
<1>9. Resolves(m, n, {t} \cup {left}, g) /\ Framed(n)
  BY <1>4, <1>8, SolvesFrame DEF Changes, Resolves, HandsOn
<1>10. Resolves(n, r, {t} \cup {left}, g)
  BY <1>5, <1>9, SolvesFrame
<1>11. Resolves(m, r, ({t} \cup {left}) \cup ({t} \cup {left}), g)
  BY <1>9, <1>10, ResolvesTrans
<1>12. Alike(s, m, e)
  BY <1>8, ChangesAlike
<1>13. Spared(s, r, e)
  BY <1>6, <1>11, <1>12, SolvesSpare
<1>14. QED
  BY <1>1, <1>6, <1>13, SparedStays

\* FocusPane focuses a pane for one client, then solves.
LEMMA FocusPaneSpares ==
  ASSUME SessionInv, SessionInv', NEW c, NEW p, NEW g, FocusPane(c, p, g), NEW e, e # c
  PROVE  ~Displaced(e)
<1>1. PICK s : s = Session
  OBVIOUS
<1>2. PICK t : t = clients[c].active
  OBVIOUS
<1>3. PICK m : m = FocusTiled(s, c, t, p)
  OBVIOUS
<1>4. Framed(s) /\ (Commit(m) \/ Commit(UpdateTabSolve(m, t, g)))
  BY <1>1, <1>2, <1>3, WholeFramed DEF SessionInv, FocusPane
<1>5. Changes(s, m, {c})
  BY <1>3, <1>4, ChangesFacts
<1>6. Alike(s, m, e) /\ Framed(m)
  BY <1>5, ChangesAlike DEF Changes
<1>7. CASE Commit(m)
  <2>1. Spared(s, m, e)
    BY <1>5 DEF Spared, Changes, OnlyClients, FocusKept
  <2>2. QED
    BY <1>1, <1>7, <2>1, SparedStays
<1>8. CASE Commit(UpdateTabSolve(m, t, g))
  <2>1. Resolves(m, UpdateTabSolve(m, t, g), {t}, g)
    BY <1>6, SolveFrame
  <2>2. Spared(s, UpdateTabSolve(m, t, g), e)
    BY <1>4, <1>6, <2>1, SolvesSpare
  <2>3. QED
    BY <1>1, <1>8, <2>2, SparedStays
<1>9. QED
  BY <1>4, <1>7, <1>8

\* ToggleFullscreen zooms or tiles one client's view, then solves.
LEMMA ToggleSpares ==
  ASSUME SessionInv, SessionInv', NEW c, NEW p, NEW g, ToggleFullscreen(c, p, g), NEW e, e # c
  PROVE  ~Displaced(e)
<1>1. PICK s : s = Session
  OBVIOUS
<1>2. PICK t : t = TabOf(s, p)
  OBVIOUS
<1>3. PICK m : m = IF clients[c].zoom[t] = NoPane
                   THEN FocusTiled(EnterZoom(s, c, t, p), c, t, p) ELSE LeaveZoom(s, {c}, t)
  OBVIOUS
<1>4. Framed(s) /\ Commit(UpdateTabSolve(m, t, g))
  BY <1>1, <1>2, <1>3, WholeFramed DEF SessionInv, ToggleFullscreen
<1>5. Changes(s, EnterZoom(s, c, t, p), {c}) /\ Changes(s, LeaveZoom(s, {c}, t), {c})
  BY <1>4, ChangesFacts
<1>6. Changes(s, FocusTiled(EnterZoom(s, c, t, p), c, t, p), {c})
  <2>1. Framed(EnterZoom(s, c, t, p))
    BY <1>5 DEF Changes
  <2>2. Changes(EnterZoom(s, c, t, p), FocusTiled(EnterZoom(s, c, t, p), c, t, p), {c})
    BY <2>1, ChangesFacts
  <2>3. QED
    BY <1>5, <2>2, ChangesTrans
<1>7. Changes(s, m, {c})
  BY <1>3, <1>5, <1>6
<1>8. Alike(s, m, e) /\ Framed(m)
  BY <1>7, ChangesAlike DEF Changes
<1>9. Resolves(m, UpdateTabSolve(m, t, g), {t}, g)
  BY <1>8, SolveFrame
<1>10. Spared(s, UpdateTabSolve(m, t, g), e)
  BY <1>4, <1>8, <1>9, SolvesSpare
<1>11. QED
  BY <1>1, <1>4, <1>10, SparedStays

\* NewTab brings one client to a new tab, then solves.
LEMMA NewTabSpares ==
  ASSUME SessionInv, SessionInv', NEW c, NEW t \in Tabs, NEW p \in Panes, NEW g, NewTab(c, t, p, g),
         NEW e, e # c
  PROVE  ~Displaced(e)
<1>1. PICK s : s = Session
  OBVIOUS
<1>2. PICK left : left = clients[c].active
  OBVIOUS
<1>3. PICK tab : tab = [leaves |-> <<p>>, index |-> Cardinality(DOMAIN tabs),
                        size |-> clients[c].area, hidden |-> {}]
  OBVIOUS
<1>4. PICK a : a = [s EXCEPT !.panes = @ \cup {p}, !.tabs = With(@, t, tab)]
  OBVIOUS
<1>5. PICK m : m = FocusTiled(ShowTab(a, {c}, t), c, t, p)
  OBVIOUS
<1>6. PICK n : n = UpdateTabSolves(m, t, left, g)
  OBVIOUS
<1>7. PICK r : r = UpdateTabSolve(n, left, g)
  OBVIOUS
<1>8. Framed(s)
  BY <1>1, WholeFramed DEF SessionInv
<1>9. Commit(r)
  BY <1>1, <1>2, <1>3, <1>4, <1>5, <1>6, <1>7 DEF NewTab
<1>10. /\ DOMAIN a = DOMAIN s /\ a.clients = s.clients /\ a.panes = s.panes \cup {p}
       /\ DOMAIN a.tabs = DOMAIN s.tabs \cup {t} /\ a.tabs[t] = tab
       /\ \A v \in DOMAIN s.tabs \ {t} : a.tabs[v] = s.tabs[v]
  BY <1>4, <1>8 DEF Framed, SessionShape, With
<1>11. Framed(a)
  BY <1>3, <1>8, <1>10 DEF Framed, SessionShape
<1>12. Changes(a, ShowTab(a, {c}, t), {c})
  BY <1>11, ChangesFacts
<1>13. Changes(a, m, {c})
  <2>1. Framed(ShowTab(a, {c}, t))
    BY <1>12 DEF Changes
  <2>2. Changes(ShowTab(a, {c}, t), m, {c})
    BY <1>5, <2>1, ChangesFacts
  <2>3. QED
    BY <1>12, <2>2, ChangesTrans
<1>14. Resolves(m, n, {t} \cup {left}, g) /\ Framed(n)
  BY <1>6, <1>13, SolvesFrame DEF Changes, Resolves, HandsOn
<1>15. Resolves(n, r, {left}, g)
  BY <1>7, <1>14, SolveFrame
<1>16. Resolves(m, r, ({t} \cup {left}) \cup {left}, g)
  BY <1>14, <1>15, ResolvesTrans
<1>17. Alike(s, m, e)
  BY <1>10, <1>13 DEF Changes, Alike
<1>18. Spared(s, r, e)
  BY <1>8, <1>16, <1>17, SolvesSpare
<1>19. QED
  BY <1>1, <1>9, <1>18, SparedStays

\* The panes suppressed: fewer in a larger tab, and all or none at size 0.
LEMMA SuppressedSizes ==
  ASSUME NEW leaves \in Seq(Panes), NEW g \in Geometries, NEW a \in Nat, NEW b \in Nat, b <= a
  PROVE  /\ Suppressed(leaves, a, g) \subseteq Suppressed(leaves, b, g)
         /\ Suppressed(leaves, 0, g) \in {{}, Range(leaves)}
<1>1. g.kept \in Nat /\ Len(leaves) \in Nat /\ DOMAIN leaves = 1 .. Len(leaves)
  BY SessionConstants
<1>2. \A n \in Nat : Min({n, g.kept}) \in {n, g.kept} /\ Min({n, g.kept}) <= n /\ Min({n, g.kept}) <= g.kept
  <2> TAKE n \in Nat
  <2>1. {n, g.kept} \in SUBSET Nat /\ {n, g.kept} # {}
    BY <1>1
  <2>2. QED
    BY <2>1, MinFacts
<1>3. Min({b, g.kept}) <= Min({a, g.kept}) /\ Min({a, g.kept}) \in Nat /\ Min({b, g.kept}) \in Nat
  BY <1>1, <1>2
<1>4. Suppressed(leaves, a, g) \subseteq Suppressed(leaves, b, g)
  <2>1. CASE Len(leaves) <= a
    BY <2>1 DEF Suppressed
  <2>2. CASE ~(Len(leaves) <= a)
    <3>1. ~(Len(leaves) <= b)
      BY <1>1, <2>2
    <3>2. \A j \in DOMAIN leaves : j > Min({a, g.kept}) => j > Min({b, g.kept})
      BY <1>1, <1>3
    <3>3. QED
      BY <2>2, <3>1, <3>2 DEF Suppressed
  <2>3. QED
    BY <2>1, <2>2
<1>5. Suppressed(leaves, 0, g) \in {{}, Range(leaves)}
  <2>1. CASE Len(leaves) <= 0
    BY <2>1 DEF Suppressed
  <2>2. CASE ~(Len(leaves) <= 0)
    <3>1. Min({0, g.kept}) = 0
      BY <1>1, <1>2
    <3>2. {j \in DOMAIN leaves : j > 0} = DOMAIN leaves
      BY <1>1
    <3>3. Suppressed(leaves, 0, g) = {leaves[i] : i \in DOMAIN leaves}
      BY <2>2, <3>1, <3>2 DEF Suppressed
    <3>4. QED
      BY <3>3 DEF Range
  <2>3. QED
    BY <2>1, <2>2
<1>6. QED
  BY <1>4, <1>5

\* The size of a tab that is viewed: no reported area of a viewer is smaller,
\* and one is as small unless the size is 0.
SizeOf(s, v, n) ==
  /\ n \in Nat
  /\ \A d \in Viewers(s, v) : s.clients[d].area = Starving \/ n <= s.clients[d].area
  /\ n = 0 \/ \E d \in Viewers(s, v) : s.clients[d].area = n /\ n # Starving
  /\ GetTabSize(s, v) # Starving => n = GetTabSize(s, v)
  /\ GetTabSize(s, v) = Starving => n = 0

\* ResolveTabSolveSize gives that size.
LEMMA ResolvedSize ==
  ASSUME NEW s, NEW v, Viewers(s, v) # {},
         \A d \in DOMAIN s.clients : s.clients[d].area \in Nat \cup {Starving}
  PROVE  SizeOf(s, v, ResolveTabSolveSize(s, v))
<1> DEFINE areas == {s.clients[c].area : c \in Viewers(s, v)} \ {Starving}
<1>1. areas \in SUBSET Nat
  BY DEF Viewers
<1>2. GetTabSize(s, v) = IF areas = {} THEN Starving ELSE Min(areas)
  BY DEF GetTabSize
<1>3. \A d \in Viewers(s, v) : s.clients[d].area = Starving \/ s.clients[d].area \in areas
  OBVIOUS
<1>4. \A n \in areas : \E d \in Viewers(s, v) : s.clients[d].area = n /\ n # Starving
  OBVIOUS
<1> HIDE DEF areas
<1>5. areas # {} => Min(areas) \in areas /\ \A k \in areas : Min(areas) <= k
  BY <1>1, MinFacts
<1>6. \A n \in Nat : n # Starving
  BY DEF Starving
<1>7. CASE areas = {}
  <2>1. ResolveTabSolveSize(s, v) = 0 /\ GetTabSize(s, v) = Starving
    BY <1>2, <1>7 DEF ResolveTabSolveSize
  <2>2. QED
    BY <1>3, <1>7, <2>1 DEF SizeOf
<1>8. CASE areas # {}
  <2>1. Min(areas) \in areas /\ Min(areas) \in Nat /\ Min(areas) # Starving
    BY <1>1, <1>5, <1>6, <1>8
  <2>2. ResolveTabSolveSize(s, v) = Min(areas) /\ GetTabSize(s, v) = Min(areas)
    BY <1>2, <1>8, <2>1 DEF ResolveTabSolveSize
  <2>3. QED
    BY <1>3, <1>4, <1>5, <1>8, <2>1, <2>2 DEF SizeOf
<1>9. QED
  BY <1>7, <1>8

\* Records changed, but nobody's tab, area or histories.
OnlyZooms(s, r) ==
  /\ Framed(r) /\ OnlyClients(s, r)
  /\ \A c \in DOMAIN s.clients : /\ r.clients[c].active = s.clients[c].active
                                 /\ r.clients[c].area = s.clients[c].area
                                 /\ r.clients[c].hist = s.clients[c].hist

\* The changes of records that concern zooms and kept solves only.
LEMMA OnlyZoomsFacts ==
  ASSUME NEW s, Framed(s), NEW S, NEW t, NEW p
  PROVE  /\ OnlyZooms(s, LeaveZoom(s, S, t)) /\ OnlyZooms(s, LeaveZoomsOf(s, p))
         /\ OnlyZooms(s, KeepSolves(s, S, t))
<1>1. SessionShape(s) /\ \A c \in DOMAIN s.clients : RecordFrame(s.clients[c])
  BY DEF Framed
<1> DEFINE Same(k, m) == /\ RecordFrame(m) /\ m.active = k.active /\ m.area = k.area /\ m.hist = k.hist
<1>2. ASSUME NEW k, RecordFrame(k), NEW own
      PROVE  /\ Same(k, k) /\ Same(k, ClearZoom(k, t)) /\ Same(k, ClearZoomOfPane(k, p))
             /\ Same(k, [k EXCEPT !.own = own])
  <2>1. Same(k, ClearZoom(k, t))
    BY <1>2 DEF RecordFrame, ClearZoom
  <2>2. Same(k, ClearZoomOfPane(k, p))
    BY <1>2 DEF RecordFrame, ClearZoomOfPane
  <2>3. Same(k, [k EXCEPT !.own = own])
    BY <1>2 DEF RecordFrame
  <2>4. QED
    BY <1>2, <2>1, <2>2, <2>3
<1>3. ASSUME NEW r, OnlyClients(s, r), \A c \in DOMAIN s.clients : Same(s.clients[c], r.clients[c])
      PROVE  OnlyZooms(s, r)
  BY <1>3, FramedRecords DEF OnlyZooms
<1> HIDE DEF Same
<1>4. OnlyZooms(s, LeaveZoom(s, S, t))
  <2>1. PICK r : r = LeaveZoom(s, S, t)
    OBVIOUS
  <2>2. /\ OnlyClients(s, r)
        /\ \A c \in DOMAIN s.clients : r.clients[c] =
             IF c \in S THEN ClearZoom(s.clients[c], t) ELSE s.clients[c]
    BY <1>1, <2>1, LeaveZoomShape
  <2>3. \A c \in DOMAIN s.clients : Same(s.clients[c], r.clients[c])
    BY <1>1, <1>2, <2>2
  <2>4. QED
    BY <1>3, <2>1, <2>2, <2>3
<1>5. OnlyZooms(s, LeaveZoomsOf(s, p))
  <2>1. PICK r : r = LeaveZoomsOf(s, p)
    OBVIOUS
  <2>2. /\ OnlyClients(s, r)
        /\ \A c \in DOMAIN s.clients : r.clients[c] = ClearZoomOfPane(s.clients[c], p)
    BY <1>1, <2>1, LeaveZoomsShape
  <2>3. \A c \in DOMAIN s.clients : Same(s.clients[c], r.clients[c])
    BY <1>1, <1>2, <2>2
  <2>4. QED
    BY <1>3, <2>1, <2>2, <2>3
<1>6. OnlyZooms(s, KeepSolves(s, S, t))
  <2>1. PICK r : r = KeepSolves(s, S, t)
    OBVIOUS
  <2>2. /\ OnlyClients(s, r)
        /\ \A c \in DOMAIN s.clients : r.clients[c] =
             IF c \in S /\ s.clients[c].active = t
             THEN [s.clients[c] EXCEPT !.own = ClientSolve(s, c, t)] ELSE s.clients[c]
    BY <1>1, <2>1 DEF KeepSolves, ForClients, OnlyClients, SessionShape
  <2>3. ASSUME NEW c \in DOMAIN s.clients PROVE Same(s.clients[c], r.clients[c])
    <3>1. PICK own : own = ClientSolve(s, c, t)
      OBVIOUS
    <3>2. r.clients[c] = s.clients[c] \/ r.clients[c] = [s.clients[c] EXCEPT !.own = own]
      BY <2>2, <3>1
    <3>3. PICK k : k = s.clients[c]
      OBVIOUS
    <3>4. Same(k, k) /\ Same(k, [k EXCEPT !.own = own])
      BY <1>1, <1>2, <3>3
    <3>5. QED
      BY <3>2, <3>3, <3>4
  <2>4. QED
    BY <1>3, <2>1, <2>2, <2>3
<1>7. QED
  BY <1>4, <1>5, <1>6

\* What a whole session says of sizes and areas.
LEMMA WholeSizes ==
  ASSUME NEW s, WholeBut(s, {})
  PROVE  /\ \A d \in DOMAIN s.clients : s.clients[d].area \in Nat \cup {Starving}
         /\ \A v \in DOMAIN s.tabs :
               /\ s.tabs[v].size = ResolveTabSolveSize(s, v) /\ s.tabs[v].size \in Nat
               /\ s.tabs[v].leaves \in Seq(Panes) /\ s.tabs[v].leaves # <<>> /\ v \in Tabs
               /\ \A d \in Viewers(s, v) : FocusOK(s.clients[d], s.tabs[v], v)
<1>1. \A d \in DOMAIN s.clients : s.clients[d].area \in Nat \cup {Starving}
  BY SessionConstants DEF WholeBut, Steady, Fits, Client
<1>2. \A x \in Sizes : x \in Nat
  BY SessionConstants DEF Sizes
<1>3. ASSUME NEW v \in DOMAIN s.tabs
      PROVE  /\ s.tabs[v].size = ResolveTabSolveSize(s, v) /\ s.tabs[v].size \in Nat
             /\ s.tabs[v].leaves \in Seq(Panes) /\ s.tabs[v].leaves # <<>> /\ v \in Tabs
             /\ \A d \in Viewers(s, v) : FocusOK(s.clients[d], s.tabs[v], v)
  <2>1. TabOK(s.tabs[v], s.panes, v \in {}) /\ Settled(s, v) /\ v \in Tabs
    BY DEF WholeBut, Steady, SessionShape
  <2>2. QED
    BY <1>2, <2>1 DEF TabOK, Tab, Settled
<1>4. QED
  BY <1>1, <1>3

\* commit_new_pane lays the tab out where it has room for all its panes, or
\* where no viewer but the acting client has any: nobody else is moved.
LEMMA NewPaneSpares ==
  ASSUME SessionInv, SessionInv', NEW d, NEW source, NEW p \in Panes, NEW isBefore \in BOOLEAN,
         NEW g \in Geometries, NewPane(d, source, p, isBefore, g),
         NEW e, e # NewPaneClient(TabOf(Session, source), d), e # NoClient
  PROVE  ~Displaced(e)
<1>1. PICK s : s = Session
  OBVIOUS
<1>2. PICK t : t = TabOf(s, source)
  OBVIOUS
<1>3. PICK client : client = NewPaneClient(t, d)
  OBVIOUS
<1>4. PICK left : left = IF client = NoClient THEN t ELSE s.clients[client].active
  OBVIOUS
<1>5. PICK leaves : leaves = SplitLeaf(s.tabs[t].leaves, source, p, isBefore)
  OBVIOUS
<1>6. /\ WholeBut(s, {}) /\ Framed(s) /\ SessionShape(s) /\ source \in s.panes /\ p \notin s.panes
      /\ s.clients = clients /\ s.tabs = tabs /\ d \in DOMAIN s.clients \cup {NoClient}
  BY <1>1, SessionParts, WholeFramed DEF SessionInv, WholeBut, Steady, NewPane
<1>7. PICK n : n = CommitNewPane(s, p, t, leaves, client, g)
  OBVIOUS
<1>8. PICK r : r = UpdateTabSolves(n, t, left, g)
  OBVIOUS
<1>9. Commit(r) /\ Len(leaves) <= NewPaneTabSize(t, d)
  BY <1>1, <1>2, <1>3, <1>4, <1>5, <1>6, <1>7, <1>8 DEF NewPane
<1>10. t \in DOMAIN s.tabs /\ source \in Leaves(s, t)
  BY <1>2, <1>6, PaneHome
<1>11. leaves \in Seq(Panes)
  <2>1. /\ s.tabs[t].leaves \in Seq(Panes) /\ Distinct(s.tabs[t].leaves) /\ Leaves(s, t) \subseteq s.panes
    BY <1>6, <1>10 DEF WholeBut, Steady, TabOK, Tab, Rooted, Planted, Leaves
  <2>2. QED
    BY <1>5, <1>6, <1>10, <2>1, SplitFacts DEF Leaves
<1>12. e # client /\ e # NoClient
  BY <1>1, <1>2, <1>3
<1> DEFINE viewing == IF client = NoClient THEN {} ELSE {client}
<1>13. PICK S : S = {c \in viewing : left # t}
  OBVIOUS
<1>14. PICK a : a = ShowTab(s, S, t)
  OBVIOUS
<1>15. Changes(s, a, S) /\ e \notin S
  BY <1>6, <1>12, <1>13, <1>14, ChangesFacts
<1>16. PICK b : b = [a EXCEPT !.panes = @ \cup {p}]
  OBVIOUS
<1>17. /\ DOMAIN b = DOMAIN a /\ b.panes = a.panes \cup {p} /\ b.tabs = s.tabs /\ b.clients = a.clients
  BY <1>15, <1>16 DEF Changes, OnlyClients, Framed, SessionShape
<1>18. Framed(b)
  BY <1>15, <1>17 DEF Changes, Framed, SessionShape, OnlyClients
<1>19. PICK laid : laid = UpdateTabLayout(b, t, leaves, g)
  OBVIOUS
<1>20. LaidAs(b, laid, t, leaves, s.tabs[t].size, g)
  BY <1>10, <1>17, <1>18, <1>19, LayoutFrame
<1>21. ASSUME e \in DOMAIN s.clients, s.clients[e].active = t
       PROVE  laid.tabs[t].hidden \in {{}, Range(leaves)}
  <2>1. Viewers(s, t) # {} /\ e \in Viewers(s, t)
    BY <1>21 DEF Viewers
  <2>2. SizeOf(s, t, s.tabs[t].size)
    BY <1>6, <1>10, <2>1, WholeSizes, ResolvedSize
  <2>3. laid.tabs[t].hidden = Suppressed(leaves, s.tabs[t].size, g)
    BY <1>20 DEF LaidAs
  <2>4. CASE GetTabSize(s, t) = Starving
    <3>1. s.tabs[t].size = 0 /\ 0 \in Nat /\ 0 <= 0
      BY <2>2, <2>4 DEF SizeOf
    <3>2. Suppressed(leaves, 0, g) \in {{}, Range(leaves)}
      BY <1>11, <3>1, SuppressedSizes
    <3>3. QED
      BY <2>3, <3>1, <3>2
  <2>5. CASE GetTabSize(s, t) # Starving
    <3>1. s.tabs[t].size = GetTabSize(s, t) /\ s.tabs[t].size \in Nat
      BY <2>2, <2>5 DEF SizeOf
    <3>2. PICK own : own = IF client = NoClient THEN Starving ELSE s.clients[client].area
      OBVIOUS
    <3>3. PICK sizes : sizes = {GetTabSize(s, t), own} \ {Starving}
      OBVIOUS
    <3>4. client \in DOMAIN s.clients \cup {NoClient}
      BY <1>3, <1>6, <1>1, <2>5 DEF NewPaneClient
    <3>5. own \in Nat \cup {Starving}
      BY <1>6, <3>2, <3>4, WholeSizes
    <3>6. sizes \in SUBSET Nat /\ GetTabSize(s, t) \in sizes
      BY <2>5, <3>1, <3>3, <3>5
    <3>7. NewPaneTabSize(t, d) = Min(sizes)
      BY <1>1, <1>3, <1>6, <3>2, <3>3, <3>6 DEF NewPaneTabSize
    <3>8. Min(sizes) \in Nat /\ Min(sizes) <= s.tabs[t].size
      BY <3>1, <3>6, MinFacts
    <3>9. Len(leaves) <= s.tabs[t].size
      BY <1>9, <1>11, <3>1, <3>7, <3>8
    <3>10. QED
      BY <2>3, <3>9 DEF Suppressed
  <2>6. QED
    BY <2>4, <2>5
<1>22. Framed(laid) /\ Alike(s, laid, e)
  <2>1. ASSUME e \in DOMAIN s.clients, NEW v \in Tabs
        PROVE  laid.clients[e].hist[v] = s.clients[e].hist[v]
    <3>1. b.clients[e] = s.clients[e] /\ e \in DOMAIN b.clients
      BY <1>15, <1>17, <2>1 DEF Changes, OnlyClients
    <3>2. laid.clients[e].hist[v] = b.clients[e].hist[v] \/ (v = t /\ GivenUp(b, laid, e, v))
      BY <1>20, <3>1 DEF LaidAs, HandsOn
    <3>3. laid.tabs[t].leaves = leaves
      BY <1>20 DEF LaidAs
    <3>4. ~(v = t /\ GivenUp(b, laid, e, v))
      BY <1>21, <2>1, <3>1, <3>3 DEF GivenUp
    <3>5. QED
      BY <3>1, <3>2, <3>4
  <2>2. e \in DOMAIN s.clients => laid.clients[e].active = s.clients[e].active
    BY <1>15, <1>17, <1>20 DEF Changes, OnlyClients, LaidAs, HandsOn
  <2>3. QED
    BY <1>20, <2>1, <2>2 DEF LaidAs, HandsOn, Alike
<1>23. PICK k : k = LeaveZoom(laid, IF client = NoClient THEN DOMAIN s.clients ELSE viewing, t)
  OBVIOUS
<1>24. OnlyZooms(laid, k)
  BY <1>22, <1>23, OnlyZoomsFacts
<1>25. PICK m : m = IF client = NoClient THEN k ELSE FocusTiled(k, client, t, p)
  OBVIOUS
<1>26. Framed(m) /\ OnlyClients(k, m) /\ (e \in DOMAIN k.clients => m.clients[e] = k.clients[e])
  <2>1. Framed(k)
    BY <1>24 DEF OnlyZooms
  <2>2. CASE client = NoClient
    BY <1>25, <2>1, <2>2 DEF OnlyClients
  <2>3. CASE client # NoClient
    <3>1. Changes(k, m, {client})
      BY <1>25, <2>1, <2>3, ChangesFacts
    <3>2. QED
      BY <1>12, <3>1 DEF Changes
  <2>4. QED
    BY <2>2, <2>3
<1>27. Alike(s, m, e)
  BY <1>22, <1>24, <1>26 DEF Alike, OnlyZooms, OnlyClients
<1>28. n = IF left = t THEN m ELSE UpdateTabSolves(m, t, left, g)
  BY <1>4, <1>7, <1>13, <1>14, <1>16, <1>19, <1>23, <1>25 DEF CommitNewPane
<1>29. \E U : Resolves(m, r, U, g)
  <2>1. CASE left = t
    BY <1>8, <1>26, <1>28, <2>1, SolvesFrame
  <2>2. CASE left # t
    <3>1. Resolves(m, n, {t} \cup {left}, g) /\ Framed(n)
      BY <1>26, <1>28, <2>2, SolvesFrame DEF Resolves, HandsOn
    <3>2. Resolves(n, r, {t} \cup {left}, g)
      BY <1>8, <3>1, SolvesFrame
    <3>3. QED
      BY <3>1, <3>2, ResolvesTrans
  <2>3. QED
    BY <2>1, <2>2
<1>30. Spared(s, r, e)
  BY <1>6, <1>27, <1>29, SolvesSpare
<1>31. QED
  BY <1>1, <1>9, <1>30, SparedStays

\* The tab a client sees while nothing but zooms and kept solves changed.
LEMMA ZoomsAlike ==
  ASSUME NEW s, NEW m, NEW r, NEW e, Alike(s, m, e), OnlyZooms(m, r)
  PROVE  Alike(s, r, e)
  BY DEF Alike, OnlyZooms, OnlyClients

\* repair_focus_after_pane_left changes the views of one tab, and in it only
\* the focus of the clients that focused the pane.
LeftBy(s, r, t, p, S) ==
  /\ Framed(r) /\ OnlyClients(s, r)
  /\ \A c \in DOMAIN s.clients :
        /\ OnlyIn(s.clients[c], r.clients[c], t)
        /\ c \notin S => r.clients[c].zoom = s.clients[c].zoom
        /\ /\ c \notin S /\ s.clients[c].hist[t] \in Seq(Panes)
           /\ HeadOf(s.clients[c].hist[t]) # p
           => HeadOf(r.clients[c].hist[t]) = HeadOf(s.clients[c].hist[t])

\* RepairAfterPaneLeft does that.
LEMMA LeftFrame ==
  ASSUME NEW s, Framed(s), NEW t \in Tabs, NEW p, NEW S, NEW g
  PROVE  LeftBy(s, RepairAfterPaneLeft(s, t, p, S, g), t, p, S)
<1>1. PICK m : m = RepairFocus(s, S, t, g)
  OBVIOUS
<1>2. /\ OnlyClients(s, m)
      /\ \A c \in DOMAIN s.clients : m.clients[c] =
            IF c \in S THEN RepairClientFocus(s, t, c, g) ELSE s.clients[c]
  BY <1>1, RepairShape DEF Framed
<1>3. \A c \in DOMAIN s.clients : OnlyIn(s.clients[c], m.clients[c], t)
  BY <1>2, RepairOnlyIn, OnlyInFacts DEF Framed
<1>4. Framed(m)
  BY <1>2, <1>3, FramedRecords DEF OnlyIn
<1>5. PICK r : r = ForgetPane(m, t, p)
  OBVIOUS
<1>6. /\ OnlyClients(m, r)
      /\ \A c \in DOMAIN m.clients : r.clients[c] = RemovePaneFromFocusHistory(m.clients[c], t, p)
  BY <1>4, <1>5, ForgetPaneShape DEF Framed
<1>7. ASSUME NEW c \in DOMAIN s.clients
      PROVE  /\ OnlyIn(s.clients[c], r.clients[c], t)
             /\ c \notin S => r.clients[c].zoom = s.clients[c].zoom
             /\ /\ c \notin S /\ s.clients[c].hist[t] \in Seq(Panes)
                /\ HeadOf(s.clients[c].hist[t]) # p
                => HeadOf(r.clients[c].hist[t]) = HeadOf(s.clients[c].hist[t])
  <2>1. PICK k, n : k = m.clients[c] /\ n = r.clients[c]
    OBVIOUS
  <2>2. RecordFrame(k) /\ n = RemovePaneFromFocusHistory(k, t, p)
    BY <1>2, <1>4, <1>6, <2>1 DEF OnlyClients, Framed
  <2>3. /\ OnlyIn(k, n, t) /\ n.zoom = k.zoom /\ n.hist[t] = Without(k.hist[t], p)
    BY <2>2 DEF RecordFrame, OnlyIn, RemovePaneFromFocusHistory
  <2>4. OnlyIn(s.clients[c], n, t)
    BY <1>3, <2>1, <2>3 DEF OnlyIn
  <2>5. ASSUME c \notin S, s.clients[c].hist[t] \in Seq(Panes), HeadOf(s.clients[c].hist[t]) # p
        PROVE  HeadOf(n.hist[t]) = HeadOf(s.clients[c].hist[t])
    <3>1. PICK h, w : h = s.clients[c].hist[t] /\ w = Without(h, p)
      OBVIOUS
    <3>2. k.hist[t] = h /\ n.hist[t] = w
      BY <1>2, <2>1, <2>3, <2>5, <3>1
    <3>3. /\ w \in Seq(Panes) /\ Range(w) = Range(h) \ {p}
          /\ h # <<>> /\ Head(h) # p => w # <<>> /\ Head(w) = Head(h)
      BY <2>5, <3>1, WithoutFacts
    <3>4. h = <<>> => w = <<>>
      <4>1. h = <<>> => Range(w) = {}
        BY <3>3 DEF Range
      <4>2. QED
        BY <3>3, <4>1, RangeFacts
    <3>5. QED
      BY <2>5, <3>1, <3>2, <3>3, <3>4 DEF HeadOf
  <2>6. QED
    BY <1>2, <2>1, <2>3, <2>4, <2>5
<1>8. OnlyClients(s, r)
  BY <1>2, <1>6 DEF OnlyClients
<1>9. Framed(r)
  BY <1>7, <1>8, FramedRecords DEF OnlyIn
<1>10. QED
  BY <1>1, <1>5, <1>7, <1>8, <1>9 DEF LeftBy, RepairAfterPaneLeft

\* Numbering the tabs changes no solve.
LEMMA ReindexResolves ==
  ASSUME NEW s, NEW m, NEW S, NEW g, Resolves(s, m, S, g)
  PROVE  Resolves(s, ReindexTabs(m), S, g)
<1>1. PICK r : r = ReindexTabs(m)
  OBVIOUS
<1>2. Framed(m)
  BY DEF Resolves, HandsOn
<1>3. /\ DOMAIN r = DOMAIN m /\ r.panes = m.panes /\ r.clients = m.clients
      /\ DOMAIN r.tabs = DOMAIN m.tabs
      /\ \A v \in DOMAIN m.tabs : /\ SameSolve(m.tabs[v], r.tabs[v])
                                  /\ DOMAIN r.tabs[v] = {"leaves", "index", "size", "hidden"}
  BY <1>1, <1>2 DEF ReindexTabs, Framed, SessionShape, SameSolve
<1>4. Framed(r)
  BY <1>2, <1>3 DEF Framed, SessionShape
<1>5. HandsOn(s, r, S)
  BY <1>3, <1>4 DEF Resolves, HandsOn, GivenUp, SameSolve
<1>6. QED
  BY <1>1, <1>3, <1>5 DEF Resolves, HandsOn, SolvedFor, SameSolve

\* Tab t is out, and its viewers have landed on another.
Closed(s, m, t, next) ==
  /\ Framed(m) /\ DOMAIN m.tabs = DOMAIN s.tabs \ {t} /\ next \in DOMAIN m.tabs
  /\ \A v \in DOMAIN m.tabs : m.tabs[v] = s.tabs[v]
  /\ DOMAIN m.clients = DOMAIN s.clients
  /\ \A c \in DOMAIN s.clients :
        /\ m.clients[c].area = s.clients[c].area
        /\ m.clients[c].active = IF s.clients[c].active = t THEN next ELSE s.clients[c].active
        /\ \A v \in Tabs \ {t} : \/ /\ m.clients[c].hist[v] = s.clients[c].hist[v]
                                    /\ m.clients[c].zoom[v] = s.clients[c].zoom[v]
                                 \/ HeadOf(s.clients[c].hist[v]) = NoPane

\* The session without tab t.
CutOff(s, t) == [s EXCEPT !.tabs = [u \in DOMAIN s.tabs \ {t} |-> s.tabs[u]]]

\* No two tabs have the same number.
NumberedTabs(s) ==
  /\ \A v \in DOMAIN s.tabs : s.tabs[v].index \in Nat
  /\ \A v, w \in DOMAIN s.tabs : s.tabs[v].index = s.tabs[w].index => v = w

\* close_and_refocus_tab: the viewers land, and the tab they came to is solved.
LEMMA CloseFrame ==
  ASSUME NEW s, Framed(s), NEW t \in DOMAIN s.tabs, NumberedTabs(s), NEW g
  PROVE  LET r == CloseAndRefocusTab(s, t, g)
             next == NearestSurvivingTab(CutOff(s, t), s.tabs[t].index)
         IN  \/ DOMAIN r.tabs = {}
             \/ \E m : Closed(s, m, t, next) /\ Resolves(m, r, {next}, g)
<1>1. PICK viewers : viewers = Viewers(s, t)
  OBVIOUS
<1>2. PICK removed : removed = CutOff(s, t)
  OBVIOUS
<1>3. PICK r : r = ForgetTab(removed, t)
  OBVIOUS
<1>4. PICK result : result = CloseAndRefocusTab(s, t, g)
  OBVIOUS
<1>5. SessionShape(s) /\ t \in Tabs
  BY DEF Framed, SessionShape
<1>6. /\ DOMAIN removed = DOMAIN s /\ removed.panes = s.panes /\ removed.clients = s.clients
      /\ DOMAIN removed.tabs = DOMAIN s.tabs \ {t}
      /\ \A v \in DOMAIN removed.tabs : removed.tabs[v] = s.tabs[v]
  BY <1>2, <1>5 DEF SessionShape, CutOff
<1>7. Framed(removed)
  BY <1>6 DEF Framed, SessionShape
<1>8. /\ OnlyClients(removed, r)
      /\ \A c \in DOMAIN removed.clients : r.clients[c] = ClearFocusHistory(removed.clients[c], t)
  BY <1>3, <1>7, ForgetTabShape DEF Framed
<1>9. \A c \in DOMAIN s.clients : OnlyIn(s.clients[c], r.clients[c], t)
  BY <1>6, <1>7, <1>8, OnlyInFacts DEF Framed
<1>10. Framed(r)
  BY <1>6, <1>7, <1>8, <1>9, FramedRecords DEF OnlyIn
<1>11. PICK next : next = NearestSurvivingTab(r, s.tabs[t].index)
  OBVIOUS
<1>12. r.tabs = removed.tabs
  BY <1>8 DEF OnlyClients
<1>13. next = NearestSurvivingTab(removed, s.tabs[t].index)
  BY <1>11, <1>12 DEF NearestSurvivingTab
<1>14. PICK shown : shown = ShowTab(r, viewers, next)
  OBVIOUS
<1>15. PICK m : m = LandClients(shown, viewers, next)
  OBVIOUS
<1>16. PICK solved : solved = UpdateTabSolve(m, next, g)
  OBVIOUS
<1>17. result = IF DOMAIN r.tabs = {} THEN [r EXCEPT !.lifecycle = Transition(@, "StopRequested")]
                ELSE ReindexTabs(solved)
  BY <1>1, <1>2, <1>3, <1>4, <1>11, <1>14, <1>15, <1>16 DEF CloseAndRefocusTab, CutOff
<1>18. CASE DOMAIN r.tabs = {}
  <2>1. result.tabs = r.tabs
    BY <1>10, <1>17, <1>18 DEF Framed, SessionShape
  <2>2. QED
    BY <1>4, <1>18, <2>1
<1>19. CASE DOMAIN r.tabs # {}
  <2>1. next \in DOMAIN r.tabs
    <3>1. s.tabs[t].index \in Nat
      BY DEF NumberedTabs
    <3>2. \A v \in DOMAIN r.tabs : r.tabs[v].index \in Nat /\ r.tabs[v].index # s.tabs[t].index
      BY <1>6, <1>12 DEF NumberedTabs
    <3>3. QED
      BY <1>11, <1>19, <3>1, <3>2, NearestFacts
  <2>2. /\ OnlyClients(r, shown) /\ Framed(shown)
        /\ \A c \in DOMAIN r.clients : shown.clients[c] =
               IF c \in viewers THEN UpdateActiveTab(r.clients[c], next) ELSE r.clients[c]
    <3>1. Changes(r, shown, viewers)
      BY <1>10, <1>14, ChangesFacts
    <3>2. SessionShape(r)
      BY <1>10 DEF Framed
    <3>3. \A c \in DOMAIN r.clients : shown.clients[c] =
               IF c \in viewers THEN UpdateActiveTab(r.clients[c], next) ELSE r.clients[c]
      BY <1>14, <3>2, ShowShape
    <3>4. QED
      BY <3>1, <3>3 DEF Changes
  <2>3. /\ OnlyClients(shown, m) /\ Framed(m)
        /\ \A c \in DOMAIN shown.clients : m.clients[c] =
               IF c \in viewers THEN LandFocus(shown, c, next) ELSE shown.clients[c]
    <3>1. Changes(shown, m, viewers)
      BY <1>15, <2>2, ChangesFacts
    <3>2. SessionShape(shown)
      BY <2>2 DEF Framed
    <3>3. \A c \in DOMAIN shown.clients : m.clients[c] =
               IF c \in viewers THEN LandFocus(shown, c, next) ELSE shown.clients[c]
      BY <1>15, <3>2, LandShape
    <3>4. QED
      BY <3>1, <3>3 DEF Changes
  <2>4. /\ DOMAIN m.clients = DOMAIN s.clients /\ m.tabs = r.tabs
        /\ DOMAIN shown.clients = DOMAIN s.clients /\ DOMAIN r.clients = DOMAIN s.clients
    BY <1>6, <1>8, <2>2, <2>3 DEF OnlyClients
  <2>5. ASSUME NEW c \in DOMAIN s.clients
        PROVE  /\ m.clients[c].area = s.clients[c].area
               /\ m.clients[c].active = IF s.clients[c].active = t THEN next ELSE s.clients[c].active
               /\ \A v \in Tabs \ {t} : \/ /\ m.clients[c].hist[v] = s.clients[c].hist[v]
                                           /\ m.clients[c].zoom[v] = s.clients[c].zoom[v]
                                        \/ HeadOf(s.clients[c].hist[v]) = NoPane
    <3>1. PICK k, n, o : k = r.clients[c] /\ n = shown.clients[c] /\ o = m.clients[c]
      OBVIOUS
    <3>2. RecordFrame(k) /\ OnlyIn(s.clients[c], k, t) /\ RecordFrame(n)
      BY <1>9, <2>2, <2>4, <3>1 DEF OnlyIn, Framed
    <3>3. c \in viewers <=> s.clients[c].active = t
      BY <1>1 DEF Viewers
    <3>4. CASE c \notin viewers
      <4>1. o = k
        BY <2>2, <2>3, <2>4, <3>1, <3>4
      <4>2. QED
        BY <3>1, <3>2, <3>3, <3>4, <4>1 DEF OnlyIn
    <3>5. CASE c \in viewers
      <4>1. n = UpdateActiveTab(k, next)
        BY <2>2, <2>4, <3>1, <3>5
      <4>2. n.active = next /\ n.area = k.area /\ n.hist = k.hist /\ n.zoom = k.zoom
        BY <3>2, <4>1 DEF UpdateActiveTab, RecordFrame
      <4>3. o = LandFocus(shown, c, next)
        BY <2>3, <2>4, <3>1, <3>5
      <4>4. OnlyIn(n, o, next) /\ (HeadOf(n.hist[next]) # NoPane => o = n)
        BY <3>1, <3>2, <4>3, LandOnlyIn
      <4>5. QED
        BY <3>1, <3>2, <3>3, <3>5, <4>2, <4>4 DEF OnlyIn
    <3>6. QED
      BY <3>4, <3>5
  <2>6. Closed(s, m, t, next)
    BY <1>6, <1>12, <2>1, <2>3, <2>4, <2>5 DEF Closed
  <2>7. Resolves(m, solved, {next}, g)
    BY <1>16, <2>3, SolveFrame
  <2>8. Resolves(m, result, {next}, g)
    BY <1>17, <1>19, <2>7, ReindexResolves
  <2>9. QED
    BY <1>2, <1>4, <1>13, <2>6, <2>8
<1>20. QED
  BY <1>18, <1>19

\* The reflow after it solves one tab at most.
LEMMA ReflowFrame ==
  ASSUME NEW m, NEW s, NEW S, NEW g, Resolves(m, s, S, g), NEW t, NEW viewers
  PROVE  \E U : Resolves(m, ReflowLanding(s, t, viewers, g), U, g)
<1>1. PICK x : ReflowLanding(s, t, viewers, g) = s \/ ReflowLanding(s, t, viewers, g) = UpdateTabSolve(s, x, g)
  BY DEF ReflowLanding
<1>2. Resolves(s, UpdateTabSolve(s, x, g), {x}, g)
  BY SolveFrame DEF Resolves, HandsOn
<1>3. Resolves(m, UpdateTabSolve(s, x, g), S \cup {x}, g)
  BY <1>2, ResolvesTrans
<1>4. QED
  BY <1>1, <1>3

\* With no tab left, nobody is moved off anything.
LEMMA NoTabsSpare ==
  ASSUME NEW s, NEW r, NEW e, DOMAIN r.tabs = {}
  PROVE  Spared(s, r, e)
  BY DEF Spared

\* The reflow of a session without tabs changes nothing.
LEMMA ReflowNone ==
  ASSUME NEW s, DOMAIN s.tabs = {}, NEW t, NEW viewers, NEW g
  PROVE  ReflowLanding(s, t, viewers, g) = s
  BY DEF ReflowLanding, UpdateTabSolve

\* A tab's close and the reflow move nobody off a tab that stands.
LEMMA CloseSpares ==
  ASSUME NEW s, Framed(s), NEW a, Framed(a), a.tabs = s.tabs, NEW e, Alike(s, a, e),
         DOMAIN a.clients = DOMAIN s.clients,
         NEW t \in DOMAIN s.tabs, NumberedTabs(s), NEW viewers, NEW g
  PROVE  Spared(s, ReflowLanding(CloseAndRefocusTab(a, t, g), t, viewers, g), e)
<1>1. PICK n : n = CloseAndRefocusTab(a, t, g)
  OBVIOUS
<1>2. PICK next : next = NearestSurvivingTab(CutOff(a, t), a.tabs[t].index)
  OBVIOUS
<1>3. NumberedTabs(a) /\ t \in DOMAIN a.tabs
  BY DEF NumberedTabs
<1>4. \/ DOMAIN n.tabs = {}
      \/ \E m : Closed(a, m, t, next) /\ Resolves(m, n, {next}, g)
  BY <1>1, <1>2, <1>3, CloseFrame
<1>5. CASE DOMAIN n.tabs = {}
  BY <1>1, <1>5, ReflowNone, NoTabsSpare
<1>6. CASE \E m : Closed(a, m, t, next) /\ Resolves(m, n, {next}, g)
  <2>1. PICK m : Closed(a, m, t, next) /\ Resolves(m, n, {next}, g)
    BY <1>6
  <2>2. PICK U : Resolves(m, ReflowLanding(n, t, viewers, g), U, g)
    BY <2>1, ReflowFrame
  <2>3. Alike(s, m, e)
    <3> SUFFICES ASSUME e \in DOMAIN s.clients
                 PROVE  /\ \/ m.clients[e].active = s.clients[e].active
                           \/ s.clients[e].active \notin DOMAIN m.tabs
                        /\ \A v \in Tabs \cap DOMAIN m.tabs :
                              HeadOf(s.clients[e].hist[v]) \in {NoPane, HeadOf(m.clients[e].hist[v])}
      BY DEF Alike
    <3>1. DOMAIN m.tabs = DOMAIN s.tabs \ {t}
      BY <2>1 DEF Closed
    <3>2. \/ m.clients[e].active = s.clients[e].active
          \/ s.clients[e].active \notin DOMAIN m.tabs
      BY <2>1, <3>1 DEF Closed, Alike
    <3>3. ASSUME NEW v \in Tabs \cap DOMAIN m.tabs
          PROVE  HeadOf(s.clients[e].hist[v]) \in {NoPane, HeadOf(m.clients[e].hist[v])}
      <4>1. v \in DOMAIN a.tabs /\ v \in Tabs \ {t}
        BY <3>1
      <4>2. HeadOf(s.clients[e].hist[v]) \in {NoPane, HeadOf(a.clients[e].hist[v])}
        BY <4>1 DEF Alike
      <4>3. HeadOf(a.clients[e].hist[v]) \in {NoPane, HeadOf(m.clients[e].hist[v])}
        BY <2>1, <4>1 DEF Closed
      <4>4. QED
        BY <4>2, <4>3
    <3>4. QED
      BY <3>2, <3>3
  <2>4. QED
    BY <1>1, <2>2, <2>3, SolvesSpare
<1>7. QED
  BY <1>4, <1>5, <1>6

\* What a whole session says of its clients' records and of its tabs' numbers.
LEMMA WholeRecords ==
  ASSUME NEW s, NEW B, WholeBut(s, B)
  PROVE  /\ NumberedTabs(s)
         /\ \A c \in DOMAIN s.clients : \A v \in Tabs : s.clients[c].hist[v] \in Seq(Panes)
<1>1. \A v \in DOMAIN s.tabs : s.tabs[v].index \in Nat
  BY DEF WholeBut, Steady, TabOK, Tab
<1>2. NumberedTabs(s)
  BY <1>1 DEF NumberedTabs, WholeBut, Rooted, Dense
<1>3. \A c \in DOMAIN s.clients : s.clients[c] \in Client
  BY DEF WholeBut, Steady, Fits
<1>4. QED
  BY <1>2, <1>3 DEF Client

\* A session whose tabs keep their size keeps its solves.
LEMMA SizeHeld ==
  ASSUME NEW s, WholeBut(s, {}), NEW t \in DOMAIN s.tabs, NEW y, t \in DOMAIN y.tabs,
         DOMAIN y.clients = DOMAIN s.clients, y.tabs[t].size = s.tabs[t].size,
         \A c \in DOMAIN s.clients : /\ y.clients[c].active = s.clients[c].active
                                     /\ y.clients[c].area = s.clients[c].area
  PROVE  ResolveTabSolveSize(y, t) = y.tabs[t].size
<1>1. s.tabs[t].size = ResolveTabSolveSize(s, t)
  BY WholeSizes
<1>2. ResolveTabSolveSize(y, t) = ResolveTabSolveSize(s, t)
  BY CrowdKept
<1>3. QED
  BY <1>1, <1>2

\* remove_pane_from_tab in a tab that keeps other panes, and the reflow: only
\* the clients that focused the pane, or a pane the tab shows no more, are
\* handed on.
LEMMA RemoveSpares ==
  ASSUME NEW s, WholeBut(s, {}), NEW t \in DOMAIN s.tabs, NEW p \in Leaves(s, t),
         NEW k, OnlyZooms(s, k), NEW g \in Geometries, NEW e
  PROVE  Spared(s, RemovePaneAndReflow(k, t, p, g), e)
<1>1. PICK gone : gone = Unrecorded(k, p)
  OBVIOUS
<1>2. PICK focusing : focusing = Focusing(gone, t, p)
  OBVIOUS
<1>3. PICK a : a = KeepSolves(gone, focusing, t)
  OBVIOUS
<1>4. PICK leaves : leaves = Without(s.tabs[t].leaves, p)
  OBVIOUS
<1>5. PICK r : r = RemovePaneFromTab(gone, t, p, g)
  OBVIOUS
<1>6. /\ Framed(s) /\ Framed(k) /\ k.tabs = s.tabs /\ DOMAIN k.clients = DOMAIN s.clients
      /\ \A c \in DOMAIN s.clients : /\ k.clients[c].active = s.clients[c].active
                                     /\ k.clients[c].area = s.clients[c].area
                                     /\ k.clients[c].hist = s.clients[c].hist
      /\ t \in Tabs
  BY WholeFramed DEF OnlyZooms, OnlyClients, Framed, SessionShape
<1>7. RemovePaneAndReflow(k, t, p, g) = ReflowLanding(r, t, Viewers(k, t), g)
  BY <1>1, <1>5 DEF RemovePaneAndReflow, Unrecorded
<1>8. /\ DOMAIN gone = DOMAIN k /\ gone.tabs = k.tabs /\ gone.clients = k.clients
      /\ gone.panes = k.panes \ {p}
  BY <1>1, <1>6 DEF Unrecorded, Framed, SessionShape
<1>9. Framed(gone)
  BY <1>6, <1>8 DEF Framed, SessionShape
<1>10. OnlyZooms(gone, a)
  BY <1>3, <1>9, OnlyZoomsFacts
<1>11. /\ Framed(a) /\ a.tabs = s.tabs /\ DOMAIN a.clients = DOMAIN s.clients
       /\ \A c \in DOMAIN s.clients : /\ a.clients[c].active = s.clients[c].active
                                      /\ a.clients[c].area = s.clients[c].area
                                      /\ a.clients[c].hist = s.clients[c].hist
  BY <1>6, <1>8, <1>10 DEF OnlyZooms, OnlyClients
<1>12. r = IF leaves = <<>> THEN CloseAndRefocusTab(LeaveZoomsOf(a, p), t, g)
           ELSE RepairAfterPaneLeft(LeaveZoomsOf(UpdateTabLayout(a, t, leaves, g), p), t, p, focusing, g)
  BY <1>2, <1>3, <1>4, <1>5, <1>6, <1>8 DEF RemovePaneFromTab
<1>13. CASE leaves = <<>>
  <2>1. PICK b : b = LeaveZoomsOf(a, p)
    OBVIOUS
  <2>2. OnlyZooms(a, b)
    BY <1>11, <2>1, OnlyZoomsFacts
  <2>3. Framed(b) /\ b.tabs = s.tabs /\ DOMAIN b.clients = DOMAIN s.clients /\ Alike(s, b, e)
    BY <1>11, <2>2 DEF OnlyZooms, OnlyClients, Alike
  <2>4. Spared(s, ReflowLanding(CloseAndRefocusTab(b, t, g), t, Viewers(k, t), g), e)
    BY <1>6, <2>3, WholeRecords, CloseSpares
  <2>5. QED
    BY <1>7, <1>12, <1>13, <2>1, <2>4
<1>14. CASE leaves # <<>>
  <2>1. PICK laid : laid = UpdateTabLayout(a, t, leaves, g)
    OBVIOUS
  <2>2. LaidAs(a, laid, t, leaves, s.tabs[t].size, g)
    BY <1>11, <2>1, LayoutFrame
  <2>3. PICK z : z = LeaveZoomsOf(laid, p)
    OBVIOUS
  <2>4. Framed(laid) /\ OnlyZooms(laid, z)
    BY <2>2, <2>3, OnlyZoomsFacts DEF LaidAs, HandsOn
  <2>5. LeftBy(z, r, t, p, focusing)
    BY <1>6, <1>12, <1>14, <2>1, <2>3, <2>4, LeftFrame DEF OnlyZooms
  <2>6. /\ Framed(r) /\ r.tabs = laid.tabs /\ DOMAIN r.clients = DOMAIN s.clients
        /\ DOMAIN laid.clients = DOMAIN s.clients /\ DOMAIN r.tabs = DOMAIN s.tabs
        /\ DOMAIN z.clients = DOMAIN s.clients
    BY <1>11, <2>2, <2>4, <2>5 DEF LaidAs, HandsOn, OnlyZooms, OnlyClients, LeftBy
  <2>7. ASSUME NEW c \in DOMAIN s.clients
        PROVE  r.clients[c].active = s.clients[c].active /\ r.clients[c].area = s.clients[c].area
    BY <1>11, <2>2, <2>4, <2>5, <2>6 DEF LaidAs, HandsOn, OnlyZooms, LeftBy, OnlyIn
  <2>8. ResolveTabSolveSize(r, t) = r.tabs[t].size
    <3>1. r.tabs[t].size = s.tabs[t].size /\ t \in DOMAIN r.tabs
      BY <2>2, <2>6 DEF LaidAs
    <3>2. QED
      BY <2>6, <2>7, <3>1, SizeHeld
  <2>9. PICK f : f = UpdateTabSolve(r, t, g)
    OBVIOUS
  <2>10. ReflowLanding(r, t, Viewers(k, t), g) = f
    <3>1. t \in DOMAIN r.tabs
      BY <2>6
    <3>2. (CHOOSE u \in {t} : TRUE) = t
      OBVIOUS
    <3>3. QED
      BY <2>9, <3>1, <3>2 DEF ReflowLanding
  <2>11. Resolves(r, f, {t}, g)
    BY <2>6, <2>9, SolveFrame
  <2>12. f.tabs[t].leaves = leaves /\ f.tabs[t].hidden = laid.tabs[t].hidden
    <3>1. SolvedFor(r, f, t, g)
      BY <2>6, <2>11 DEF Resolves
    <3>2. QED
      BY <2>2, <2>6, <2>8, <3>1 DEF SolvedFor, LaidAs
  <2>13. Range(leaves) = Leaves(s, t) \ {p}
    <3>1. s.tabs[t].leaves \in Seq(Panes)
      BY WholeSizes
    <3>2. QED
      BY <1>4, <3>1, WithoutFacts DEF Leaves
  <2>14. ASSUME e \in DOMAIN s.clients, NEW v \in DOMAIN s.tabs,
                HeadOf(s.clients[e].hist[v]) \in Shown(f.tabs[v]) \ {NoPane}
         PROVE  HeadOf(f.clients[e].hist[v]) = HeadOf(s.clients[e].hist[v])
    <3>1. PICK h : h = HeadOf(s.clients[e].hist[v])
      OBVIOUS
    <3>2. v \in Tabs /\ s.clients[e].hist[v] \in Seq(Panes)
      BY <1>6, <2>14, WholeRecords DEF Framed, SessionShape
    <3>3. f.clients[e].hist[v] = r.clients[e].hist[v] \/ GivenUp(r, f, e, v)
      BY <2>6, <2>11, <2>14, <3>2 DEF Resolves, HandsOn
    <3>4. CASE v # t
      <4>1. r.clients[e].hist[v] = z.clients[e].hist[v]
        BY <2>5, <2>6, <2>14, <3>2, <3>4 DEF LeftBy, OnlyIn
      <4>2. z.clients[e].hist[v] = laid.clients[e].hist[v]
        BY <2>4, <2>6, <2>14 DEF OnlyZooms
      <4>3. laid.clients[e].hist[v] = s.clients[e].hist[v]
        BY <1>11, <2>2, <2>14, <3>2, <3>4 DEF LaidAs, HandsOn
      <4>4. ~GivenUp(r, f, e, v)
        BY <2>14, <4>1, <4>2, <4>3 DEF GivenUp, Shown
      <4>5. QED
        BY <3>3, <4>1, <4>2, <4>3, <4>4
    <3>5. CASE v = t
      <4>1. h \in Range(leaves) /\ h # p /\ h \notin laid.tabs[t].hidden /\ h # NoPane
        BY <2>12, <2>13, <2>14, <3>1, <3>5 DEF Shown
      <4>2. a.clients[e].hist[v] = s.clients[e].hist[v]
        BY <1>11, <2>14
      <4>3. laid.clients[e].hist[v] = s.clients[e].hist[v]
        <5>1. laid.clients[e].hist[v] = a.clients[e].hist[v] \/ GivenUp(a, laid, e, v)
          BY <1>11, <2>2, <2>14, <3>2 DEF LaidAs, HandsOn
        <5>2. ~GivenUp(a, laid, e, v)
          BY <3>1, <3>5, <4>1, <4>2 DEF GivenUp
        <5>3. QED
          BY <4>2, <5>1, <5>2
      <4>4. z.clients[e].hist[v] = s.clients[e].hist[v]
        BY <2>4, <2>6, <2>14, <4>3 DEF OnlyZooms
      <4>5. e \notin focusing
        BY <1>2, <1>6, <1>8, <2>14, <3>1, <3>5, <4>1 DEF Focusing, Focused, HeadOf
      <4>6. HeadOf(r.clients[e].hist[v]) = h
        BY <2>5, <2>6, <2>14, <3>1, <3>2, <3>5, <4>1, <4>4, <4>5 DEF LeftBy
      <4>7. ~GivenUp(r, f, e, v)
        BY <2>12, <3>5, <4>1, <4>6 DEF GivenUp
      <4>8. QED
        BY <3>1, <3>3, <4>6, <4>7
    <3>6. QED
      BY <3>4, <3>5
  <2>15. DOMAIN f.tabs = DOMAIN s.tabs /\ \A c \in DOMAIN s.clients : f.clients[c].active = s.clients[c].active
    BY <2>6, <2>7, <2>11 DEF Resolves, HandsOn
  <2>16. Spared(s, f, e)
    BY <2>14, <2>15 DEF Spared, FocusKept
  <2>17. QED
    BY <1>7, <2>10, <2>16
<1>15. QED
  BY <1>13, <1>14

\* ClosePane.
LEMMA ClosePaneSpares ==
  ASSUME SessionInv, SessionInv', NEW d, NEW p, NEW g \in Geometries, ClosePane(d, p, g), NEW e
  PROVE  ~Displaced(e)
<1>1. PICK s : s = Session
  OBVIOUS
<1>2. PICK t : t = TabOf(s, p)
  OBVIOUS
<1>3. PICK k : k = LeaveZoom(s, {d}, t)
  OBVIOUS
<1>4. PICK r : r = RemovePaneAndReflow(k, t, p, g)
  OBVIOUS
<1>5. WholeBut(s, {}) /\ p \in s.panes /\ Commit(r)
  BY <1>1, <1>2, <1>3, <1>4, SessionParts DEF SessionInv, ClosePane
<1>6. t \in DOMAIN s.tabs /\ p \in Leaves(s, t)
  BY <1>2, <1>5, PaneHome
<1>7. OnlyZooms(s, k)
  BY <1>3, <1>5, WholeFramed, OnlyZoomsFacts
<1>8. Spared(s, r, e)
  BY <1>4, <1>5, <1>6, <1>7, RemoveSpares
<1>9. QED
  BY <1>1, <1>5, <1>8, SparedStays

\* ChildExit.
LEMMA ChildExitSpares ==
  ASSUME SessionInv, SessionInv', NEW p, NEW g \in Geometries, ChildExit(p, g), NEW e
  PROVE  ~Displaced(e)
<1>1. PICK s : s = Session
  OBVIOUS
<1>2. PICK t : t = TabOf(s, p)
  OBVIOUS
<1>3. PICK r : r = RemovePaneAndReflow(s, t, p, g)
  OBVIOUS
<1>4. WholeBut(s, {}) /\ p \in s.panes /\ Commit(r)
  BY <1>1, <1>2, <1>3, SessionParts DEF SessionInv, ChildExit
<1>5. t \in DOMAIN s.tabs /\ p \in Leaves(s, t)
  BY <1>2, <1>4, PaneHome
<1>6. OnlyZooms(s, s)
  BY <1>4, WholeFramed DEF OnlyZooms, OnlyClients
<1>7. Spared(s, r, e)
  BY <1>3, <1>4, <1>5, <1>6, RemoveSpares
<1>8. QED
  BY <1>1, <1>4, <1>7, SparedStays

\* CloseTab.
LEMMA CloseTabSpares ==
  ASSUME SessionInv, SessionInv', NEW t, NEW g, CloseTab(t, g), NEW e
  PROVE  ~Displaced(e)
<1>1. PICK s : s = Session
  OBVIOUS
<1>2. PICK a : a = [s EXCEPT !.panes = @ \ Leaves(s, t)]
  OBVIOUS
<1>3. PICK r : r = ReflowLanding(CloseAndRefocusTab(a, t, g), t, Viewers(a, t), g)
  OBVIOUS
<1>4. WholeBut(s, {}) /\ t \in DOMAIN s.tabs /\ Commit(r) /\ Framed(s) /\ NumberedTabs(s)
  BY <1>1, <1>2, <1>3, SessionParts, WholeFramed, WholeRecords DEF SessionInv, CloseTab
<1>5. /\ DOMAIN a = DOMAIN s /\ a.tabs = s.tabs /\ a.clients = s.clients
      /\ a.panes = s.panes \ Leaves(s, t)
  BY <1>2, <1>4 DEF Framed, SessionShape
<1>6. Framed(a) /\ Alike(s, a, e) /\ DOMAIN a.clients = DOMAIN s.clients
  BY <1>4, <1>5 DEF Framed, SessionShape, Alike
<1>7. Spared(s, r, e)
  BY <1>3, <1>4, <1>5, <1>6, CloseSpares
<1>8. QED
  BY <1>1, <1>4, <1>7, SparedStays

\* PlacePaneWithinTab: the tab is laid out again at the size it has.
LEMMA PlaceWithinSpares ==
  ASSUME SessionInv, SessionInv', NEW c, NEW t \in DOMAIN tabs, NEW leaves, NEW g \in Geometries,
         PlacePaneWithinTab(c, t, leaves, g), NEW e
  PROVE  ~Displaced(e)
<1>1. PICK s : s = Session
  OBVIOUS
<1>2. PICK k : k = LeaveZoom(s, {c}, t)
  OBVIOUS
<1>3. PICK m : m = UpdateTabLayout(k, t, leaves, g)
  OBVIOUS
<1>4. PICK r : r = UpdateTabSolve(m, t, g)
  OBVIOUS
<1>5. WholeBut(s, {}) /\ t \in DOMAIN s.tabs /\ Commit(r) /\ Framed(s)
  BY <1>1, <1>2, <1>3, <1>4, SessionParts, WholeFramed DEF SessionInv, PlacePaneWithinTab
<1>6. OnlyZooms(s, k)
  BY <1>2, <1>5, OnlyZoomsFacts
<1>7. /\ Framed(k) /\ k.tabs = s.tabs /\ DOMAIN k.clients = DOMAIN s.clients
  BY <1>6 DEF OnlyZooms, OnlyClients
<1>8. LaidAs(k, m, t, leaves, s.tabs[t].size, g)
  BY <1>3, <1>5, <1>7, LayoutFrame
<1>9. /\ Framed(m) /\ DOMAIN m.tabs = DOMAIN s.tabs /\ DOMAIN m.clients = DOMAIN s.clients
      /\ \A d \in DOMAIN s.clients : /\ m.clients[d].active = s.clients[d].active
                                     /\ m.clients[d].area = s.clients[d].area
  BY <1>6, <1>7, <1>8 DEF OnlyZooms, LaidAs, HandsOn
<1>10. ResolveTabSolveSize(m, t) = m.tabs[t].size
  <2>1. m.tabs[t].size = s.tabs[t].size
    BY <1>8 DEF LaidAs
  <2>2. QED
    BY <1>5, <1>9, <2>1, SizeHeld
<1>11. Resolves(m, r, {t}, g)
  BY <1>4, <1>9, SolveFrame
<1>12. r.tabs[t].hidden = m.tabs[t].hidden
  BY <1>5, <1>9, <1>10, <1>11 DEF Resolves, SolvedFor
<1>13. ASSUME e \in DOMAIN s.clients, NEW v \in DOMAIN s.tabs,
              HeadOf(s.clients[e].hist[v]) \in Shown(r.tabs[v]) \ {NoPane}
       PROVE  HeadOf(r.clients[e].hist[v]) = HeadOf(s.clients[e].hist[v])
  <2>1. v \in Tabs
    BY <1>5 DEF Framed, SessionShape
  <2>2. k.clients[e].hist[v] = s.clients[e].hist[v]
    BY <1>6, <1>13 DEF OnlyZooms
  <2>3. m.clients[e].hist[v] = k.clients[e].hist[v] \/ (v = t /\ GivenUp(k, m, e, v))
    BY <1>7, <1>8, <1>13, <2>1 DEF LaidAs, HandsOn
  <2>4. ~(v = t /\ GivenUp(k, m, e, v))
    BY <1>12, <1>13, <2>2 DEF GivenUp, Shown
  <2>5. r.clients[e].hist[v] = m.clients[e].hist[v] \/ GivenUp(m, r, e, v)
    BY <1>9, <1>11, <1>13, <2>1 DEF Resolves, HandsOn
  <2>6. ~GivenUp(m, r, e, v)
    BY <1>13, <2>2, <2>3, <2>4 DEF GivenUp, Shown
  <2>7. QED
    BY <2>2, <2>3, <2>4, <2>5, <2>6
<1>14. \A d \in DOMAIN s.clients : r.clients[d].active = s.clients[d].active
  BY <1>9, <1>11 DEF Resolves, HandsOn
<1>15. Spared(s, r, e)
  BY <1>13, <1>14 DEF Spared, FocusKept
<1>16. QED
  BY <1>1, <1>5, <1>15, SparedStays

\* Tab v is solved by the geometry g.
Exact(s, v, g) == s.tabs[v].hidden = Suppressed(s.tabs[v].leaves, s.tabs[v].size, g)

\* A solve keeps a tab solved.
LEMMA ExactKept ==
  ASSUME NEW s, NEW r, NEW S, NEW g, Resolves(s, r, S, g), NEW v \in DOMAIN s.tabs, Exact(s, v, g)
  PROVE  Exact(r, v, g)
<1>1. v \notin S => SameSolve(s.tabs[v], r.tabs[v])
  BY DEF Resolves
<1>2. v \in S => SolvedFor(s, r, v, g)
  BY DEF Resolves
<1>3. QED
  BY <1>1, <1>2 DEF Exact, SameSolve, SolvedFor

\* A pane that a tab shows at one size was shown at a larger one.
LEMMA StillShown ==
  ASSUME NEW leaves \in Seq(Panes), NEW g \in Geometries, NEW a \in Nat, NEW b \in Nat,
         b <= a \/ a = 0, NEW h, h \notin Suppressed(leaves, b, g),
         h \in Suppressed(leaves, a, g)
  PROVE  Suppressed(leaves, a, g) = Range(leaves)
<1>1. CASE b <= a
  BY <1>1, SuppressedSizes
<1>2. CASE a = 0
  <2>1. Suppressed(leaves, a, g) \in {{}, Range(leaves)}
    BY <1>2, SuppressedSizes
  <2>2. QED
    BY <2>1
<1>3. QED
  BY <1>1, <1>2

\* Keeping solves keeps the zooms.
LEMMA ZoomsKept ==
  ASSUME NEW s, Framed(s), NEW S, NEW t, NEW c \in DOMAIN s.clients
  PROVE  KeepSolves(s, S, t).clients[c].zoom = s.clients[c].zoom
<1>1. SessionShape(s) /\ RecordFrame(s.clients[c])
  BY DEF Framed
<1>2. PICK k : k = s.clients[c]
  OBVIOUS
<1>3. PICK own : own = ClientSolve(s, c, t)
  OBVIOUS
<1>4. \/ KeepSolves(s, S, t).clients[c] = k
      \/ KeepSolves(s, S, t).clients[c] = [k EXCEPT !.own = own]
  BY <1>1, <1>2, <1>3 DEF KeepSolves, ForClients, SessionShape
<1>5. [k EXCEPT !.own = own].zoom = k.zoom
  BY <1>1, <1>2 DEF RecordFrame
<1>6. QED
  BY <1>2, <1>4, <1>5

\* Leaving the zooms of a pane changes no other zoom.
LEMMA ZoomsLeft ==
  ASSUME NEW s, Framed(s), NEW p, NEW c \in DOMAIN s.clients, NEW v \in Tabs
  PROVE  LeaveZoomsOf(s, p).clients[c].zoom[v] \in {s.clients[c].zoom[v], NoPane}
         /\ (s.clients[c].zoom[v] # p
               => LeaveZoomsOf(s, p).clients[c].zoom[v] = s.clients[c].zoom[v])
<1>1. SessionShape(s) /\ RecordFrame(s.clients[c])
  BY DEF Framed
<1>2. PICK k, m : k = s.clients[c] /\ m = ClearZoomOfPane(k, p)
  OBVIOUS
<1>3. LeaveZoomsOf(s, p).clients[c] = m
  BY <1>1, <1>2, LeaveZoomsShape
<1>4. m.zoom[v] = IF k.zoom[v] = p THEN NoPane ELSE k.zoom[v]
  BY <1>1, <1>2 DEF RecordFrame, ClearZoomOfPane
<1>5. QED
  BY <1>2, <1>3, <1>4

\* The tabs of T are laid out anew, at the sizes they had, and the zooms of p
\* and q left.
Tiled(s, z, p, q, T, g) ==
  /\ Framed(z) /\ DOMAIN z.tabs = DOMAIN s.tabs /\ DOMAIN z.clients = DOMAIN s.clients
  /\ \A v \in DOMAIN s.tabs \ T : z.tabs[v] = s.tabs[v]
  /\ \A v \in T : z.tabs[v].size = s.tabs[v].size /\ Exact(z, v, g)
  /\ \A d \in DOMAIN s.clients :
        /\ z.clients[d].active = s.clients[d].active /\ z.clients[d].area = s.clients[d].area
        /\ \A v \in Tabs :
              \/ /\ v \in T /\ HeadOf(s.clients[d].hist[v]) \in z.tabs[v].hidden
                 /\ z.tabs[v].hidden # Range(z.tabs[v].leaves)
              \/ /\ z.clients[d].hist[v] = s.clients[d].hist[v]
                 /\ z.clients[d].zoom[v] = s.clients[d].zoom[v] \/ s.clients[d].zoom[v] \in {p, q}

\* A layout of one more tab.
TilesMore(s, m, r, p, q, T, Z, t, leaves, g) ==
  /\ Tiled(s, m, p, q, T, g) /\ LaidAs(m, r, t, leaves, m.tabs[t].size, g)
  /\ t \in DOMAIN s.tabs /\ t \notin T /\ T \subseteq DOMAIN s.tabs /\ Z = T \cup {t}

\* It keeps what the layouts before it left.
LEMMA TiledMore ==
  ASSUME NEW s, NEW m, NEW r, NEW p, NEW q, NEW T, NEW Z, NEW t, NEW leaves, NEW g,
         TilesMore(s, m, r, p, q, T, Z, t, leaves, g)
  PROVE  Tiled(s, r, p, q, Z, g) /\ r.tabs[t].leaves = leaves
         /\ \A v \in DOMAIN s.tabs \ {t} : r.tabs[v] = m.tabs[v]
<1>1. /\ Tiled(s, m, p, q, T, g) /\ LaidAs(m, r, t, leaves, m.tabs[t].size, g)
      /\ t \in DOMAIN s.tabs /\ t \notin T /\ T \subseteq DOMAIN s.tabs /\ Z = T \cup {t}
  BY DEF TilesMore
<1>2. /\ Framed(r) /\ DOMAIN r.tabs = DOMAIN s.tabs /\ DOMAIN r.clients = DOMAIN s.clients
      /\ DOMAIN m.tabs = DOMAIN s.tabs /\ DOMAIN m.clients = DOMAIN s.clients
  BY <1>1 DEF Tiled, LaidAs, HandsOn
<1>3. /\ \A v \in DOMAIN s.tabs \ {t} : r.tabs[v] = m.tabs[v]
      /\ r.tabs[t].leaves = leaves /\ r.tabs[t].size = s.tabs[t].size
      /\ Exact(r, t, g)
  BY <1>1, <1>2 DEF Tiled, LaidAs, Exact
<1>4. ASSUME NEW d \in DOMAIN s.clients
      PROVE  /\ r.clients[d].active = s.clients[d].active /\ r.clients[d].area = s.clients[d].area
             /\ \A v \in Tabs :
                  \/ r.clients[d].hist[v] = m.clients[d].hist[v] /\ r.clients[d].zoom[v] = m.clients[d].zoom[v]
                  \/ v = t /\ GivenUp(m, r, d, v)
  BY <1>1, <1>2 DEF Tiled, LaidAs, HandsOn
<1>5. ASSUME NEW d \in DOMAIN s.clients, NEW v \in Tabs
      PROVE  \/ /\ v \in T \cup {t} /\ HeadOf(s.clients[d].hist[v]) \in r.tabs[v].hidden
                /\ r.tabs[v].hidden # Range(r.tabs[v].leaves)
             \/ /\ r.clients[d].hist[v] = s.clients[d].hist[v]
                /\ r.clients[d].zoom[v] = s.clients[d].zoom[v] \/ s.clients[d].zoom[v] \in {p, q}
  <2>1. \/ /\ v \in T /\ HeadOf(s.clients[d].hist[v]) \in m.tabs[v].hidden
           /\ m.tabs[v].hidden # Range(m.tabs[v].leaves)
        \/ /\ m.clients[d].hist[v] = s.clients[d].hist[v]
           /\ m.clients[d].zoom[v] = s.clients[d].zoom[v] \/ s.clients[d].zoom[v] \in {p, q}
    BY <1>1 DEF Tiled
  <2>2. CASE v \in T
    <3>1. r.tabs[v] = m.tabs[v] /\ v # t
      BY <1>1, <1>3, <2>2
    <3>2. r.clients[d].hist[v] = m.clients[d].hist[v] /\ r.clients[d].zoom[v] = m.clients[d].zoom[v]
      BY <1>4, <3>1
    <3>3. QED
      BY <2>1, <2>2, <3>1, <3>2
  <2>3. CASE v \notin T
    <3>1. /\ m.clients[d].hist[v] = s.clients[d].hist[v]
          /\ m.clients[d].zoom[v] = s.clients[d].zoom[v] \/ s.clients[d].zoom[v] \in {p, q}
      BY <2>1, <2>3
    <3>2. \/ r.clients[d].hist[v] = m.clients[d].hist[v] /\ r.clients[d].zoom[v] = m.clients[d].zoom[v]
          \/ v = t /\ GivenUp(m, r, d, v)
      BY <1>4
    <3>3. QED
      BY <3>1, <3>2 DEF GivenUp
  <2>4. QED
    BY <2>2, <2>3
<1>6. \A v \in T : r.tabs[v].size = s.tabs[v].size /\ Exact(r, v, g)
  BY <1>1, <1>3 DEF Tiled, Exact
<1>7. \A v \in DOMAIN s.tabs \ (T \cup {t}) : r.tabs[v] = s.tabs[v]
  BY <1>1, <1>3 DEF Tiled
<1>8. Tiled(s, r, p, q, T \cup {t}, g)
  BY <1>1, <1>2, <1>3, <1>4, <1>5, <1>6, <1>7 DEF Tiled
<1>9. Tiled(s, r, p, q, Z, g)
  BY <1>1, <1>8
<1>10. QED
  BY <1>3, <1>9

\* Leaving the zooms of p or q.
LEMMA TiledLeft ==
  ASSUME NEW s, NEW m, NEW p, NEW q, NEW T, NEW g, Tiled(s, m, p, q, T, g), NEW x \in {p, q}
  PROVE  Tiled(s, LeaveZoomsOf(m, x), p, q, T, g) /\ LeaveZoomsOf(m, x).tabs = m.tabs
<1>1. PICK r : r = LeaveZoomsOf(m, x)
  OBVIOUS
<1>2. Framed(m)
  BY DEF Tiled
<1>3. OnlyZooms(m, r)
  BY <1>1, <1>2, OnlyZoomsFacts
<1>4. /\ Framed(r) /\ r.tabs = m.tabs /\ DOMAIN r.clients = DOMAIN s.clients
      /\ DOMAIN m.clients = DOMAIN s.clients
  BY <1>3 DEF OnlyZooms, OnlyClients, Tiled
<1>5. \A d \in DOMAIN s.clients : /\ r.clients[d].active = m.clients[d].active
                                  /\ r.clients[d].area = m.clients[d].area
                                  /\ r.clients[d].hist = m.clients[d].hist
  BY <1>3, <1>4 DEF OnlyZooms
<1>6. ASSUME NEW d \in DOMAIN s.clients, NEW v \in Tabs
      PROVE  r.clients[d].zoom[v] = m.clients[d].zoom[v] \/ m.clients[d].zoom[v] = x
  <2>1. d \in DOMAIN m.clients
    BY <1>4
  <2>2. QED
    BY <1>1, <1>2, <2>1, ZoomsLeft
<1>7. ASSUME NEW d \in DOMAIN s.clients, NEW v \in Tabs
      PROVE  \/ /\ v \in T /\ HeadOf(s.clients[d].hist[v]) \in r.tabs[v].hidden
                /\ r.tabs[v].hidden # Range(r.tabs[v].leaves)
             \/ /\ r.clients[d].hist[v] = s.clients[d].hist[v]
                /\ r.clients[d].zoom[v] = s.clients[d].zoom[v] \/ s.clients[d].zoom[v] \in {p, q}
  <2>1. \/ /\ v \in T /\ HeadOf(s.clients[d].hist[v]) \in m.tabs[v].hidden
           /\ m.tabs[v].hidden # Range(m.tabs[v].leaves)
        \/ /\ m.clients[d].hist[v] = s.clients[d].hist[v]
           /\ m.clients[d].zoom[v] = s.clients[d].zoom[v] \/ s.clients[d].zoom[v] \in {p, q}
    BY DEF Tiled
  <2>2. r.clients[d].zoom[v] = m.clients[d].zoom[v] \/ m.clients[d].zoom[v] = x
    BY <1>6
  <2>3. QED
    BY <1>4, <1>5, <2>1, <2>2
<1>8. \A v \in T : r.tabs[v].size = s.tabs[v].size /\ Exact(r, v, g)
  BY <1>4 DEF Tiled, Exact
<1>9. Tiled(s, r, p, q, T, g)
  BY <1>4, <1>5, <1>7, <1>8 DEF Tiled
<1>10. QED
  BY <1>1, <1>4, <1>9

\* Before any layout, while solves are kept.
Untiled(s, m) ==
  /\ Framed(m) /\ m.tabs = s.tabs /\ DOMAIN m.clients = DOMAIN s.clients
  /\ \A d \in DOMAIN s.clients :
        /\ m.clients[d].active = s.clients[d].active /\ m.clients[d].area = s.clients[d].area
        /\ m.clients[d].hist = s.clients[d].hist /\ m.clients[d].zoom = s.clients[d].zoom

\* KeepSolves changes neither tabs nor views.
LEMMA UntiledKept ==
  ASSUME NEW s, NEW m, Untiled(s, m), NEW S, NEW v
  PROVE  Untiled(s, KeepSolves(m, S, v))
<1>1. PICK r : r = KeepSolves(m, S, v)
  OBVIOUS
<1>2. Framed(m)
  BY DEF Untiled
<1>3. OnlyZooms(m, r)
  BY <1>1, <1>2, OnlyZoomsFacts
<1>4. \A d \in DOMAIN m.clients : r.clients[d].zoom = m.clients[d].zoom
  BY <1>1, <1>2, ZoomsKept
<1>5. QED
  BY <1>1, <1>3, <1>4 DEF Untiled, OnlyZooms, OnlyClients

\* What no layout has touched is laid out nowhere.
LEMMA UntiledFirst ==
  ASSUME NEW s, NEW m, Untiled(s, m), NEW p, NEW q, NEW g, NEW T, T = {}
  PROVE  Tiled(s, m, p, q, T, g)
  BY DEF Untiled, Tiled

\* The tabs that a placement lays out.
LaidTabs(T, t, u, rest) == T = {u} \cup (IF rest = <<>> THEN {} ELSE {t})

\* The layouts of a placement.
LEMMA PlacementTiled ==
  ASSUME NEW s, Framed(s), NEW p, NEW t \in DOMAIN s.tabs, NEW u \in DOMAIN s.tabs, t # u, NEW q,
         NEW rest, NEW placed, NEW g, NEW z,
         z = LeaveZoomsOf(LeaveZoomsOf(PlacementLaid(s, p, t, u, q, rest, placed, g), p), q),
         NEW T, LaidTabs(T, t, u, rest)
  PROVE  /\ Tiled(s, z, p, q, T, g) /\ z.tabs[u].leaves = placed
         /\ rest # <<>> => z.tabs[t].leaves = rest
<1>1. T = {u} \cup (IF rest = <<>> THEN {} ELSE {t})
  BY DEF LaidTabs
<1>2. PICK a : a = KeepSolves(s, Focusing(s, t, p), t)
  OBVIOUS
<1>3. PICK b : b = KeepSolves(a, Focusing(s, u, q), u)
  OBVIOUS
<1>4. Untiled(s, s)
  BY DEF Untiled
<1>5. Untiled(s, b)
  <2>1. Untiled(s, a)
    BY <1>2, <1>4, UntiledKept
  <2>2. QED
    BY <1>3, <2>1, UntiledKept
<1>6. PICK d : d = UpdateTabLayout(b, u, placed, g)
  OBVIOUS
<1>7. LaidAs(b, d, u, placed, b.tabs[u].size, g)
  BY <1>5, <1>6, LayoutFrame DEF Untiled
<1>8. Tiled(s, d, p, q, {u}, g) /\ d.tabs[u].leaves = placed
  <2>1. PICK X, Z : X = {} /\ Z = {u}
    OBVIOUS
  <2>2. Tiled(s, b, p, q, X, g)
    BY <1>5, <2>1, UntiledFirst
  <2>3. u \notin X /\ X \subseteq DOMAIN s.tabs /\ Z = X \cup {u}
    BY <2>1
  <2>4. TilesMore(s, b, d, p, q, X, Z, u, placed, g)
    BY <1>7, <2>2, <2>3 DEF TilesMore
  <2>5. Tiled(s, d, p, q, Z, g) /\ d.tabs[u].leaves = placed
    BY <2>4, TiledMore
  <2>6. QED
    BY <2>1, <2>5
<1>9. PICK l : l = IF rest = <<>> THEN d ELSE UpdateTabLayout(d, t, rest, g)
  OBVIOUS
<1>10. l = PlacementLaid(s, p, t, u, q, rest, placed, g)
  BY <1>2, <1>3, <1>6, <1>9 DEF PlacementLaid
<1>11. Tiled(s, l, p, q, T, g) /\ l.tabs[u].leaves = placed /\ (rest # <<>> => l.tabs[t].leaves = rest)
  <2>1. CASE rest = <<>>
    <3>1. T = {u} /\ l = d
      BY <1>1, <1>9, <2>1
    <3>2. QED
      BY <1>8, <2>1, <3>1
  <2>2. CASE rest # <<>>
    <3>1. PICK X : X = {u}
      OBVIOUS
    <3>2. /\ l = UpdateTabLayout(d, t, rest, g) /\ X \subseteq DOMAIN s.tabs /\ t \notin X
          /\ T = X \cup {t} /\ Tiled(s, d, p, q, X, g)
      BY <1>1, <1>8, <1>9, <2>2, <3>1
    <3>3. Framed(d) /\ t \in DOMAIN d.tabs
      BY <3>2 DEF Tiled
    <3>4. LaidAs(d, l, t, rest, d.tabs[t].size, g)
      BY <3>2, <3>3, LayoutFrame
    <3>5. TilesMore(s, d, l, p, q, X, T, t, rest, g)
      BY <3>2, <3>4 DEF TilesMore
    <3>6. /\ Tiled(s, l, p, q, T, g) /\ l.tabs[t].leaves = rest
          /\ \A v \in DOMAIN s.tabs \ {t} : l.tabs[v] = d.tabs[v]
      BY <3>5, TiledMore
    <3>7. QED
      BY <1>8, <2>2, <3>2, <3>6
  <2>3. QED
    BY <2>1, <2>2
<1>12. PICK y : y = LeaveZoomsOf(l, p)
  OBVIOUS
<1>13. Tiled(s, y, p, q, T, g) /\ y.tabs = l.tabs
  BY <1>11, <1>12, TiledLeft
<1>14. Tiled(s, z, p, q, T, g) /\ z.tabs = y.tabs
  BY <1>10, <1>12, <1>13, TiledLeft
<1>15. QED
  BY <1>11, <1>13, <1>14

\* The clients of S are brought to tab v, onto pane x.
BroughtTo(s, r, S, v, x) ==
  /\ Framed(r) /\ OnlyClients(s, r)
  /\ \A d \in DOMAIN s.clients :
        /\ r.clients[d].area = s.clients[d].area
        /\ d \notin S => r.clients[d] = s.clients[d]
        /\ d \in S => r.clients[d].active = v /\ HeadOf(r.clients[d].hist[v]) = x

\* move_client_onto_tiled_pane.
LEMMA MoveOntoFrame ==
  ASSUME NEW s, Framed(s), NEW S, NEW v \in Tabs, NEW x,
         \A d \in S \cap DOMAIN s.clients : x \in Panes /\ s.clients[d].hist[v] \in Seq(Panes)
  PROVE  BroughtTo(s, MoveOntoPane(s, S, v, x), S, v, x)
<1>1. PICK r : r = MoveOntoPane(s, S, v, x)
  OBVIOUS
<1>2. /\ OnlyClients(s, r)
      /\ \A d \in DOMAIN s.clients : r.clients[d] =
            IF d \in S THEN MoveOntoTiledPane(s.clients[d], v, x) ELSE s.clients[d]
  BY <1>1, MoveOntoShape DEF Framed
<1>3. ASSUME NEW d \in DOMAIN s.clients
      PROVE  /\ RecordFrame(r.clients[d]) /\ r.clients[d].area = s.clients[d].area
             /\ d \in S => r.clients[d].active = v /\ HeadOf(r.clients[d].hist[v]) = x
  <2>1. RecordFrame(s.clients[d])
    BY DEF Framed
  <2>2. CASE d \notin S
    BY <1>2, <2>1, <2>2
  <2>3. CASE d \in S
    <3>1. PICK k, a, b, m : /\ k = s.clients[d] /\ a = ClearZoom(k, v)
                            /\ b = UpdateActiveTab(a, v) /\ m = r.clients[d]
      OBVIOUS
    <3>2. m = UpdateFocusedPane(b, v, x)
      BY <1>2, <2>3, <3>1 DEF MoveOntoTiledPane
    <3>3. RecordFrame(a) /\ a.area = k.area /\ a.hist = k.hist
      BY <2>1, <3>1 DEF ClearZoom, RecordFrame
    <3>4. RecordFrame(b) /\ b.area = k.area /\ b.hist = k.hist /\ b.active = v
      BY <3>1, <3>3 DEF UpdateActiveTab, RecordFrame
    <3>5. PICK h : h = <<x>> \o Without(k.hist[v], x)
      OBVIOUS
    <3>6. RecordFrame(m) /\ m.area = k.area /\ m.active = v /\ m.hist[v] = h
      BY <3>2, <3>4, <3>5 DEF UpdateFocusedPane, RecordFrame
    <3>7. HeadOf(h) = x
      <4>1. x \in Panes /\ k.hist[v] \in Seq(Panes)
        BY <2>3, <3>1
      <4>2. QED
        BY <3>5, <4>1, PrependFacts
    <3>8. QED
      BY <3>1, <3>6, <3>7
  <2>4. QED
    BY <2>2, <2>3
<1>4. Framed(r)
  BY <1>2, <1>3, FramedRecords
<1>5. QED
  BY <1>1, <1>2, <1>3, <1>4 DEF BroughtTo

\* Both groups of clients of a placement are brought to their tabs.
Carried(s, r, moving, u, p, back, t, q) ==
  /\ Framed(r) /\ OnlyClients(s, r)
  /\ \A d \in DOMAIN s.clients :
        /\ r.clients[d].area = s.clients[d].area
        /\ d \in moving => r.clients[d].active = u /\ HeadOf(r.clients[d].hist[u]) = p
        /\ d \in back => r.clients[d].active = t /\ HeadOf(r.clients[d].hist[t]) = q
        /\ d \notin moving \cup back => r.clients[d] = s.clients[d]

\* MoveOntoPane, first for the clients of p and then for those of q.
LEMMA CarriedFrame ==
  ASSUME NEW s, Framed(s), NEW moving, NEW back, moving \cap back = {}, NEW u \in Tabs, NEW t \in Tabs,
         NEW p \in Panes, NEW q, back # {} => q \in Panes,
         \A d \in DOMAIN s.clients : \A v \in Tabs : s.clients[d].hist[v] \in Seq(Panes)
  PROVE  Carried(s, MoveOntoPane(MoveOntoPane(s, moving, u, p), back, t, q), moving, u, p, back, t, q)
<1>1. PICK m : m = MoveOntoPane(s, moving, u, p)
  OBVIOUS
<1>2. PICK r : r = MoveOntoPane(m, back, t, q)
  OBVIOUS
<1>3. BroughtTo(s, m, moving, u, p)
  BY <1>1, MoveOntoFrame
<1>4. \A d \in back \cap DOMAIN m.clients : q \in Panes /\ m.clients[d].hist[t] \in Seq(Panes)
  BY <1>3 DEF BroughtTo, OnlyClients
<1>5. Framed(m)
  BY <1>3 DEF BroughtTo
<1>6. BroughtTo(m, r, back, t, q)
  BY <1>2, <1>4, <1>5, MoveOntoFrame
<1>7. QED
  BY <1>1, <1>2, <1>3, <1>6 DEF Carried, BroughtTo, OnlyClients

\* Every viewer of tab v that reports an area has room for k panes.
HasRoom(s, v, k) ==
  \A d \in DOMAIN s.clients :
    s.clients[d].active = v => s.clients[d].area = Starving \/ k <= s.clients[d].area

\* A tab whose viewers all have room for its panes suppresses none, or all.
LEMMA RoomForAll ==
  ASSUME NEW s, NEW r, NEW S, NEW g \in Geometries, Resolves(s, r, S, g),
         NEW v \in DOMAIN s.tabs, NEW e \in DOMAIN s.clients, Exact(s, v, g),
         s.tabs[v].leaves \in Seq(Panes), HasRoom(s, v, Len(s.tabs[v].leaves)),
         \A d \in DOMAIN s.clients : s.clients[d].area \in Nat \cup {Starving}
  PROVE  ~(v \in S /\ GivenUp(s, r, e, v))
<1> SUFFICES ASSUME v \in S, GivenUp(s, r, e, v) PROVE FALSE
  OBVIOUS
<1>1. PICK leaves, a : leaves = s.tabs[v].leaves /\ a = ResolveTabSolveSize(s, v)
  OBVIOUS
<1>2. r.tabs[v].leaves = leaves /\ r.tabs[v].size = a
  BY <1>1 DEF Resolves, SolvedFor
<1>3. Exact(r, v, g)
  BY ExactKept
<1>4. r.tabs[v].hidden = Suppressed(leaves, a, g)
  BY <1>2, <1>3 DEF Exact
<1>5. /\ Suppressed(leaves, a, g) # {} /\ Suppressed(leaves, a, g) # Range(leaves)
  BY <1>2, <1>4 DEF GivenUp
<1>6. e \in Viewers(s, v)
  BY DEF Viewers, GivenUp
<1>7. SizeOf(s, v, a)
  BY <1>1, <1>6, ResolvedSize
<1>8. a = 0 \/ Len(leaves) <= a
  BY <1>1, <1>7 DEF SizeOf, HasRoom, Viewers
<1>9. a \in Nat /\ leaves \in Seq(Panes)
  BY <1>1, <1>7 DEF SizeOf
<1>10. CASE a = 0
  <2>1. Suppressed(leaves, 0, g) \in {{}, Range(leaves)}
    BY <1>9, <1>10, SuppressedSizes
  <2>2. QED
    BY <1>5, <1>10, <2>1
<1>11. CASE Len(leaves) <= a
  BY <1>5, <1>11 DEF Suppressed
<1>12. QED
  BY <1>8, <1>10, <1>11

\* Client e, on pane x of tab w in n, is there in y too.
Lands(y, n, e, w, x) ==
  /\ y.clients[e].active = w /\ w \in DOMAIN y.tabs /\ y.tabs[w] = n.tabs[w]
  /\ DOMAIN y.clients = DOMAIN n.clients
  /\ HeadOf(n.clients[e].hist[w]) = x => HeadOf(y.clients[e].hist[w]) = x

\* Every area is a size, or the client reports none.
AllReport(s) == \A d \in DOMAIN s.clients : s.clients[d].area \in Nat \cup {Starving}

\* A client that is brought onto pane x of tab w, where all have room, ends
\* there: neither the solve nor the reflow hands its focus on.
LEMMA FollowerLands ==
  ASSUME NEW m, NEW n, NEW y, NEW f, NEW S, NEW U, NEW g \in Geometries, Resolves(m, n, S, g),
         Resolves(y, f, U, g), NEW e \in DOMAIN m.clients, NEW w \in DOMAIN m.tabs, NEW x,
         w \in Tabs, m.clients[e].active = w, HeadOf(m.clients[e].hist[w]) = x, Exact(m, w, g),
         m.tabs[w].leaves \in Seq(Panes), HasRoom(m, w, Len(m.tabs[w].leaves)), AllReport(m),
         Lands(y, n, e, w, x), HasRoom(y, w, Len(m.tabs[w].leaves)), AllReport(y)
  PROVE  /\ e \in DOMAIN f.clients /\ f.clients[e].active = w
         /\ HeadOf(f.clients[e].hist[w]) = x
<1>1. ~(w \in S /\ GivenUp(m, n, e, w))
  BY RoomForAll DEF AllReport
<1>2. n.clients[e].hist[w] = m.clients[e].hist[w] /\ DOMAIN n.clients = DOMAIN m.clients
  BY <1>1 DEF Resolves, HandsOn
<1>3. n.tabs[w].leaves = m.tabs[w].leaves /\ Exact(n, w, g)
  <2>1. n.tabs[w].leaves = m.tabs[w].leaves
    BY DEF Resolves, SameSolve, SolvedFor
  <2>2. QED
    BY <2>1, ExactKept
<1>4. /\ e \in DOMAIN y.clients /\ y.clients[e].active = w /\ w \in DOMAIN y.tabs
      /\ y.tabs[w].leaves = m.tabs[w].leaves /\ Exact(y, w, g)
      /\ HeadOf(y.clients[e].hist[w]) = x
  BY <1>2, <1>3 DEF Lands, Exact
<1>5. y.tabs[w].leaves \in Seq(Panes) /\ HasRoom(y, w, Len(y.tabs[w].leaves))
  BY <1>4
<1>6. ~(w \in U /\ GivenUp(y, f, e, w))
  BY <1>4, <1>5, RoomForAll DEF AllReport
<1>7. QED
  BY <1>4, <1>6 DEF Resolves, HandsOn

\* The size that a placement expects bounds the areas of the clients it counts.
LEMMA SizeAfterFacts ==
  ASSUME NEW s, AllReport(s), NEW t, NEW merging, NEW arriving, NEW leaving,
         arriving \subseteq DOMAIN s.clients, NEW d \in DOMAIN s.clients,
         d \in arriving \/ (d \notin leaving /\ s.clients[d].active \in {t} \cup merging),
         s.clients[d].area # Starving
  PROVE  LET n == SizeAfterMove(s, t, merging, arriving, leaving)
         IN  n \in Nat /\ n # Starving /\ n <= s.clients[d].area
<1> DEFINE staying == {x \in DOMAIN s.clients \ leaving : s.clients[x].active \in {t} \cup merging}
           areas == {s.clients[x].area : x \in arriving \cup staying} \ {Starving}
<1>1. areas \in SUBSET Nat /\ s.clients[d].area \in areas
  BY DEF AllReport
<1>2. SizeAfterMove(s, t, merging, arriving, leaving) = IF areas = {} THEN Starving ELSE Min(areas)
  BY DEF SizeAfterMove
<1> HIDE DEF areas
<1>3. areas # {}
  BY <1>1
<1>4. Min(areas) \in areas /\ Min(areas) <= s.clients[d].area
  BY <1>1, <1>3, MinFacts
<1>5. Min(areas) # Starving
  BY <1>1, <1>4 DEF Starving
<1>6. QED
  BY <1>1, <1>2, <1>3, <1>4, <1>5

\* The nearest survivor of a tab, with the tab or without it.
LEMMA NearestSame ==
  ASSUME NEW s, NumberedTabs(s), NEW n, DOMAIN n = DOMAIN s, "tabs" \in DOMAIN s,
         DOMAIN n.tabs = DOMAIN s.tabs,
         \A v \in DOMAIN s.tabs : n.tabs[v].index = s.tabs[v].index,
         NEW t \in DOMAIN s.tabs, NEW u \in DOMAIN s.tabs, t # u
  PROVE  NearestSurvivingTab(CutOff(n, t), n.tabs[t].index)
           = NearestSurvivingTab(s, s.tabs[t].index)
<1>1. PICK r, index : r = CutOff(n, t) /\ index = s.tabs[t].index
  OBVIOUS
<1>2. /\ DOMAIN r.tabs = DOMAIN s.tabs \ {t} /\ n.tabs[t].index = index
      /\ \A v \in DOMAIN r.tabs : r.tabs[v].index = s.tabs[v].index
  BY <1>1 DEF CutOff
<1>3. index \in Nat /\ \A v \in DOMAIN s.tabs : /\ s.tabs[v].index \in Nat
                                                /\ s.tabs[v].index = index => v = t
  BY <1>1 DEF NumberedTabs
<1>4. PICK before, after : /\ before = {v \in DOMAIN s.tabs : s.tabs[v].index < index}
                           /\ after = {v \in DOMAIN s.tabs : s.tabs[v].index > index}
  OBVIOUS
<1>5. /\ before = {v \in DOMAIN r.tabs : r.tabs[v].index < index}
      /\ after = {v \in DOMAIN r.tabs : r.tabs[v].index > index}
  BY <1>1, <1>2, <1>3, <1>4
<1>6. PICK I, J : /\ I = {s.tabs[v].index : v \in before} /\ J = {s.tabs[v].index : v \in after}
  OBVIOUS
<1>7. I = {r.tabs[v].index : v \in before} /\ J = {r.tabs[v].index : v \in after}
  <2>1. \A v \in before \cup after : r.tabs[v].index = s.tabs[v].index
    BY <1>2, <1>5
  <2>2. QED
    BY <1>6, <2>1
<1>8. NearestSurvivingTab(s, index) = IF before # {}
        THEN CHOOSE v \in DOMAIN s.tabs : s.tabs[v].index = Max(I)
        ELSE CHOOSE v \in DOMAIN s.tabs : s.tabs[v].index = Min(J)
  BY <1>4, <1>6 DEF NearestSurvivingTab
<1>9. NearestSurvivingTab(r, index) = IF before # {}
        THEN CHOOSE v \in DOMAIN r.tabs : r.tabs[v].index = Max(I)
        ELSE CHOOSE v \in DOMAIN r.tabs : r.tabs[v].index = Min(J)
  BY <1>5, <1>7 DEF NearestSurvivingTab
<1>10. I \in SUBSET Nat /\ J \in SUBSET Nat /\ \A k \in I : k <= index
  BY <1>3, <1>4, <1>6
<1>11. ASSUME NEW k, \E v \in before \cup after : s.tabs[v].index = k
       PROVE  (CHOOSE v \in DOMAIN s.tabs : s.tabs[v].index = k)
                = (CHOOSE v \in DOMAIN r.tabs : r.tabs[v].index = k)
  <2>1. PICK v \in before \cup after : s.tabs[v].index = k
    BY <1>11
  <2>2. v \in DOMAIN s.tabs /\ v \in DOMAIN r.tabs /\ r.tabs[v].index = k
    BY <1>2, <1>4, <1>5, <2>1
  <2>3. \A w \in DOMAIN s.tabs : s.tabs[w].index = k => w = v
    BY <2>1, <2>2 DEF NumberedTabs
  <2>4. \A w \in DOMAIN r.tabs : r.tabs[w].index = k => w = v
    BY <1>2, <2>3
  <2>5. (CHOOSE w \in DOMAIN s.tabs : s.tabs[w].index = k) = v
    BY <2>1, <2>2, <2>3
  <2>6. (CHOOSE w \in DOMAIN r.tabs : r.tabs[w].index = k) = v
    BY <2>2, <2>4
  <2>7. QED
    BY <2>5, <2>6
<1>12. CASE before # {}
  <2>1. I # {}
    BY <1>6, <1>12
  <2>2. Max(I) \in I
    BY <1>3, <1>10, <2>1, MaxFacts
  <2>3. \E v \in before \cup after : s.tabs[v].index = Max(I)
    BY <1>6, <2>2
  <2>4. PICK k : k = Max(I)
    OBVIOUS
  <2>5. QED
    BY <1>1, <1>2, <1>8, <1>9, <1>11, <1>12, <2>3, <2>4
<1>13. CASE before = {}
  <2>1. J # {}
    <3>1. u \notin before /\ s.tabs[u].index # index
      BY <1>3, <1>13
    <3>2. u \in after
      BY <1>3, <1>4, <3>1
    <3>3. QED
      BY <1>6, <3>2
  <2>2. Min(J) \in J
    BY <1>10, <2>1, MinFacts
  <2>3. \E v \in before \cup after : s.tabs[v].index = Min(J)
    BY <1>6, <2>2
  <2>4. PICK k : k = Min(J)
    OBVIOUS
  <2>5. QED
    BY <1>1, <1>2, <1>8, <1>9, <1>11, <1>13, <2>3, <2>4
<1>14. QED
  BY <1>12, <1>13

\* The viewers that a tab had are still among its viewers.
CrowdStays(s, r) ==
  /\ DOMAIN r.clients = DOMAIN s.clients
  /\ \A d \in DOMAIN s.clients :
        /\ r.clients[d].area = s.clients[d].area
        /\ r.clients[d].active = s.clients[d].active \/ s.clients[d].active \notin DOMAIN r.tabs

\* A focus that a solve handed on although the solve that followed shows the
\* pane: the tab was not solved anew.
LEMMA SolvedTwice ==
  ASSUME NEW m, NEW n, NEW y, NEW f, NEW S, NEW U, NEW g \in Geometries, Resolves(m, n, S, g),
         Resolves(y, f, U, g), AllReport(m), CrowdStays(m, y), NEW v, v \in S, v \in U,
         v \in DOMAIN m.tabs, v \in DOMAIN y.tabs, y.tabs[v] = n.tabs[v],
         m.tabs[v].leaves \in Seq(Panes), NEW e \in DOMAIN m.clients, GivenUp(m, n, e, v),
         NEW h, h = HeadOf(m.clients[e].hist[v]), h \notin f.tabs[v].hidden
  PROVE  n.tabs[v].hidden = m.tabs[v].hidden /\ ~Exact(m, v, g)
<1>1. PICK leaves, a, b : /\ leaves = m.tabs[v].leaves /\ a = ResolveTabSolveSize(m, v)
                          /\ b = ResolveTabSolveSize(y, v)
  OBVIOUS
<1>2. /\ n.tabs[v].leaves = leaves /\ n.tabs[v].size = a
      /\ n.tabs[v].hidden = IF a = m.tabs[v].size THEN m.tabs[v].hidden ELSE Suppressed(leaves, a, g)
  BY <1>1 DEF Resolves, SolvedFor
<1>3. f.tabs[v].hidden = IF b = a THEN n.tabs[v].hidden ELSE Suppressed(leaves, b, g)
  BY <1>1, <1>2 DEF Resolves, SolvedFor
<1>4. h \in n.tabs[v].hidden /\ n.tabs[v].hidden # Range(leaves)
  BY <1>2 DEF GivenUp
<1>5. f.tabs[v].hidden = Suppressed(leaves, b, g)
  BY <1>3, <1>4
<1>6. e \in Viewers(m, v) /\ m.clients[e].active = v
  BY DEF Viewers, GivenUp
<1>7. SizeOf(m, v, a)
  BY <1>1, <1>6, ResolvedSize DEF AllReport
<1>8. e \in Viewers(y, v)
  BY <1>6 DEF Viewers, CrowdStays
<1>9. \A d \in DOMAIN y.clients : y.clients[d].area \in Nat \cup {Starving}
  BY DEF CrowdStays, AllReport
<1>10. SizeOf(y, v, b)
  BY <1>1, <1>8, <1>9, ResolvedSize
<1>11. a \in Nat /\ b \in Nat /\ leaves \in Seq(Panes)
  BY <1>1, <1>7, <1>10 DEF SizeOf
<1>12. b <= a \/ a = 0
  <2>1. a = 0 \/ \E d \in Viewers(m, v) : m.clients[d].area = a /\ a # Starving
    BY <1>7 DEF SizeOf
  <2>2. \A d \in Viewers(m, v) : d \in Viewers(y, v) /\ y.clients[d].area = m.clients[d].area
    BY DEF Viewers, CrowdStays
  <2>3. \A d \in Viewers(y, v) : y.clients[d].area = Starving \/ b <= y.clients[d].area
    BY <1>10 DEF SizeOf
  <2>4. QED
    BY <2>1, <2>2, <2>3
<1>13. n.tabs[v].hidden # Suppressed(leaves, a, g)
  <2>1. SUFFICES ASSUME n.tabs[v].hidden = Suppressed(leaves, a, g) PROVE FALSE
    OBVIOUS
  <2>2. h \notin Suppressed(leaves, b, g) /\ h \in Suppressed(leaves, a, g)
    BY <1>4, <1>5, <2>1
  <2>3. Suppressed(leaves, a, g) = Range(leaves)
    BY <1>11, <1>12, <2>2, StillShown
  <2>4. QED
    BY <1>4, <2>1, <2>3
<1>14. a = m.tabs[v].size /\ n.tabs[v].hidden = m.tabs[v].hidden
  BY <1>2, <1>13
<1>15. QED
  BY <1>1, <1>13, <1>14 DEF Exact

\* From the solve of the tabs to the last reflow: the focus of the clients of F
\* in t and of G in u is repaired, and a tab left without panes is closed.
Bridged(n, y, t, p, F, u, q, G, isClosing, next) ==
  /\ Framed(y) /\ DOMAIN y.clients = DOMAIN n.clients
  /\ DOMAIN y.tabs = DOMAIN n.tabs \ (IF isClosing THEN {t} ELSE {})
  /\ \A v \in DOMAIN y.tabs : y.tabs[v] = n.tabs[v]
  /\ \A d \in DOMAIN n.clients :
        /\ y.clients[d].area = n.clients[d].area
        /\ \/ y.clients[d].active = n.clients[d].active
           \/ isClosing /\ n.clients[d].active = t /\ y.clients[d].active = next
        /\ \A v \in DOMAIN y.tabs :
              \/ HeadOf(n.clients[d].hist[v]) = NoPane
              \/ v = t /\ (d \in F \/ HeadOf(n.clients[d].hist[v]) = p)
              \/ v = u /\ (d \in G \/ HeadOf(n.clients[d].hist[v]) = q)
              \/ HeadOf(y.clients[d].hist[v]) = HeadOf(n.clients[d].hist[v])

\* Histories are sequences of panes.
Recorded(s) == \A c \in DOMAIN s.clients : \A v \in Tabs : s.clients[c].hist[v] \in Seq(Panes)

\* repair_focus_after_pane_left in the tab that p left.
LEMMA LeftBridges ==
  ASSUME NEW n, Framed(n), Recorded(n), NEW t \in Tabs, NEW p, NEW F, NEW u \in Tabs, NEW q, NEW G,
         NEW next, NEW g, NEW isClosing, ~isClosing
  PROVE  Bridged(n, RepairAfterPaneLeft(n, t, p, F, g), t, p, F, u, q, G, isClosing, next)
<1>1. PICK a : a = RepairAfterPaneLeft(n, t, p, F, g)
  OBVIOUS
<1>2. LeftBy(n, a, t, p, F)
  BY <1>1, LeftFrame
<1>3. Framed(a) /\ a.tabs = n.tabs /\ DOMAIN a.clients = DOMAIN n.clients /\ DOMAIN n.tabs \subseteq Tabs
  BY <1>2 DEF LeftBy, OnlyClients, Framed, SessionShape
<1>4. ASSUME NEW d \in DOMAIN n.clients
      PROVE  /\ a.clients[d].area = n.clients[d].area /\ a.clients[d].active = n.clients[d].active
             /\ \A v \in DOMAIN n.tabs : \/ v = t /\ (d \in F \/ HeadOf(n.clients[d].hist[v]) = p)
                                         \/ HeadOf(a.clients[d].hist[v]) = HeadOf(n.clients[d].hist[v])
  <2>1. OnlyIn(n.clients[d], a.clients[d], t)
    BY <1>2 DEF LeftBy
  <2>2. n.clients[d].hist[t] \in Seq(Panes)
    BY DEF Recorded
  <2>3. d \notin F /\ HeadOf(n.clients[d].hist[t]) # p
          => HeadOf(a.clients[d].hist[t]) = HeadOf(n.clients[d].hist[t])
    BY <1>2, <2>2 DEF LeftBy
  <2>4. QED
    BY <1>3, <2>1, <2>3 DEF OnlyIn
<1>5. QED
  BY <1>1, <1>3, <1>4 DEF Bridged

\* And in the tab that q left.
LEMMA BothBridge ==
  ASSUME NEW n, Framed(n), Recorded(n), NEW t \in Tabs, NEW p, NEW F, NEW u \in Tabs, NEW q, NEW G,
         t # u, NEW next, NEW g, NEW isClosing, ~isClosing
  PROVE  Bridged(n, RepairAfterPaneLeft(RepairAfterPaneLeft(n, t, p, F, g), u, q, G, g),
                 t, p, F, u, q, G, isClosing, next)
<1>1. PICK a, b : a = RepairAfterPaneLeft(n, t, p, F, g) /\ b = RepairAfterPaneLeft(a, u, q, G, g)
  OBVIOUS
<1>2. LeftBy(n, a, t, p, F)
  BY <1>1, LeftFrame
<1>3. Framed(a) /\ a.tabs = n.tabs /\ DOMAIN a.clients = DOMAIN n.clients /\ DOMAIN n.tabs \subseteq Tabs
  BY <1>2 DEF LeftBy, OnlyClients, Framed, SessionShape
<1>4. LeftBy(a, b, u, q, G)
  BY <1>1, <1>3, LeftFrame
<1>5. Framed(b) /\ b.tabs = n.tabs /\ DOMAIN b.clients = DOMAIN n.clients
  BY <1>3, <1>4 DEF LeftBy, OnlyClients
<1>6. ASSUME NEW d \in DOMAIN n.clients
      PROVE  /\ b.clients[d].area = n.clients[d].area /\ b.clients[d].active = n.clients[d].active
             /\ \A v \in DOMAIN n.tabs :
                   \/ v = t /\ (d \in F \/ HeadOf(n.clients[d].hist[v]) = p)
                   \/ v = u /\ (d \in G \/ HeadOf(n.clients[d].hist[v]) = q)
                   \/ HeadOf(b.clients[d].hist[v]) = HeadOf(n.clients[d].hist[v])
  <2>1. OnlyIn(n.clients[d], a.clients[d], t) /\ OnlyIn(a.clients[d], b.clients[d], u)
    BY <1>2, <1>3, <1>4 DEF LeftBy
  <2>2. n.clients[d].hist[t] \in Seq(Panes)
    BY DEF Recorded
  <2>3. d \notin F /\ HeadOf(n.clients[d].hist[t]) # p
          => HeadOf(a.clients[d].hist[t]) = HeadOf(n.clients[d].hist[t])
    BY <1>2, <2>2 DEF LeftBy
  <2>4. a.clients[d].hist[u] = n.clients[d].hist[u] /\ a.clients[d].hist[u] \in Seq(Panes)
    BY <2>1 DEF OnlyIn, Recorded
  <2>5. d \notin G /\ HeadOf(a.clients[d].hist[u]) # q
          => HeadOf(b.clients[d].hist[u]) = HeadOf(a.clients[d].hist[u])
    BY <1>3, <1>4, <2>4 DEF LeftBy
  <2>6. \A v \in Tabs \ {t, u} : b.clients[d].hist[v] = n.clients[d].hist[v]
    BY <2>1 DEF OnlyIn
  <2>7. b.clients[d].hist[t] = a.clients[d].hist[t]
    BY <2>1 DEF OnlyIn
  <2>8. b.clients[d].area = n.clients[d].area /\ b.clients[d].active = n.clients[d].active
    BY <2>1 DEF OnlyIn
  <2>9. QED
    BY <1>3, <2>3, <2>4, <2>5, <2>6, <2>7, <2>8
<1>7. QED
  BY <1>1, <1>5, <1>6 DEF Bridged

\* close_and_refocus_tab on the tab that p left.
LEMMA CloseBridges ==
  ASSUME NEW n, NEW m, NEW t, NEW next, Closed(n, m, t, next), NEW p, NEW F, NEW u, NEW q, NEW G,
         NEW isClosing, isClosing
  PROVE  Bridged(n, m, t, p, F, u, q, G, isClosing, next)
<1>1. DOMAIN m.tabs \subseteq Tabs \ {t}
  BY DEF Closed, Framed, SessionShape
<1>2. ASSUME NEW d \in DOMAIN n.clients, NEW v \in DOMAIN m.tabs
      PROVE  \/ HeadOf(n.clients[d].hist[v]) = NoPane
             \/ HeadOf(m.clients[d].hist[v]) = HeadOf(n.clients[d].hist[v])
  BY <1>1 DEF Closed
<1>3. QED
  BY <1>2 DEF Closed, Bridged

\* commit_cross_tab_placement and the last reflow, from s to f: the layouts,
\* the clients that go with the panes, the solve, the repair and the reflow.
PlacementPath(s, z, m, n, y, f, p, t, u, q, T, moving, back, S, F, G, isClosing, next, U, g) ==
  /\ Tiled(s, z, p, q, T, g) /\ Carried(z, m, moving, u, p, back, t, q) /\ Resolves(m, n, S, g)
  /\ Bridged(n, y, t, p, F, u, q, G, isClosing, next) /\ Resolves(y, f, U, g)

\* What the tabs and the clients concerned are.
PlacementBounds(s, z, p, t, u, q, T, S, F, G, isClosing, U) ==
  /\ WholeBut(s, {}) /\ t \in DOMAIN s.tabs /\ u \in DOMAIN s.tabs /\ t # u /\ p # NoPane /\ p # q
  /\ T = {u} \cup (IF isClosing THEN {} ELSE {t})
  /\ T \subseteq U /\ S \subseteq U /\ F \subseteq Focusing(s, t, p) /\ G \subseteq Focusing(s, u, q)
  /\ \A v \in T : z.tabs[v].leaves \in Seq(Panes)
  /\ q \notin Range(z.tabs[u].leaves) /\ (~isClosing => p \notin Range(z.tabs[t].leaves))
  /\ \A v \in DOMAIN s.tabs \ {t} : p \notin Leaves(s, v)
  /\ \A v \in DOMAIN s.tabs \ {u} : q \notin Leaves(s, v)

\* The same clients report the same areas all along.
LEMMA PathFrame ==
  ASSUME NEW s, NEW z, NEW m, NEW n, NEW y, NEW f, NEW p, NEW t, NEW u, NEW q, NEW T, NEW moving,
         NEW back, NEW S, NEW F, NEW G, NEW isClosing, NEW next, NEW U, NEW g,
         PlacementPath(s, z, m, n, y, f, p, t, u, q, T, moving, back, S, F, G, isClosing, next, U, g)
  PROVE  /\ DOMAIN z.clients = DOMAIN s.clients /\ DOMAIN m.clients = DOMAIN s.clients
         /\ DOMAIN n.clients = DOMAIN s.clients /\ DOMAIN y.clients = DOMAIN s.clients
         /\ DOMAIN f.clients = DOMAIN s.clients
         /\ DOMAIN z.tabs = DOMAIN s.tabs /\ m.tabs = z.tabs /\ DOMAIN n.tabs = DOMAIN s.tabs
         /\ DOMAIN y.tabs = DOMAIN s.tabs \ (IF isClosing THEN {t} ELSE {})
         /\ DOMAIN f.tabs = DOMAIN y.tabs /\ \A v \in DOMAIN y.tabs : y.tabs[v] = n.tabs[v]
         /\ \A d \in DOMAIN s.clients :
               /\ z.clients[d].area = s.clients[d].area /\ m.clients[d].area = s.clients[d].area
               /\ n.clients[d].area = s.clients[d].area /\ y.clients[d].area = s.clients[d].area
               /\ z.clients[d].active = s.clients[d].active
               /\ n.clients[d].active = m.clients[d].active
               /\ f.clients[d].active = y.clients[d].active
               /\ \/ y.clients[d].active = n.clients[d].active
                  \/ isClosing /\ n.clients[d].active = t /\ y.clients[d].active = next
<1>1. /\ Tiled(s, z, p, q, T, g) /\ Carried(z, m, moving, u, p, back, t, q) /\ Resolves(m, n, S, g)
      /\ Bridged(n, y, t, p, F, u, q, G, isClosing, next) /\ Resolves(y, f, U, g)
  BY DEF PlacementPath
<1>2. /\ DOMAIN z.clients = DOMAIN s.clients /\ DOMAIN z.tabs = DOMAIN s.tabs
      /\ \A d \in DOMAIN s.clients : /\ z.clients[d].area = s.clients[d].area
                                     /\ z.clients[d].active = s.clients[d].active
  BY <1>1 DEF Tiled
<1>3. /\ DOMAIN m.clients = DOMAIN z.clients /\ m.tabs = z.tabs
      /\ \A d \in DOMAIN z.clients : m.clients[d].area = z.clients[d].area
  BY <1>1 DEF Carried, OnlyClients
<1>4. /\ DOMAIN n.clients = DOMAIN m.clients /\ DOMAIN n.tabs = DOMAIN m.tabs
      /\ \A d \in DOMAIN m.clients : /\ n.clients[d].area = m.clients[d].area
                                     /\ n.clients[d].active = m.clients[d].active
  BY <1>1 DEF Resolves, HandsOn
<1>5. /\ DOMAIN y.clients = DOMAIN n.clients
      /\ DOMAIN y.tabs = DOMAIN n.tabs \ (IF isClosing THEN {t} ELSE {})
      /\ \A v \in DOMAIN y.tabs : y.tabs[v] = n.tabs[v]
      /\ \A d \in DOMAIN n.clients :
            /\ y.clients[d].area = n.clients[d].area
            /\ \/ y.clients[d].active = n.clients[d].active
               \/ isClosing /\ n.clients[d].active = t /\ y.clients[d].active = next
  BY <1>1 DEF Bridged
<1>6. /\ DOMAIN f.clients = DOMAIN y.clients /\ DOMAIN f.tabs = DOMAIN y.tabs
      /\ \A d \in DOMAIN y.clients : f.clients[d].active = y.clients[d].active
  BY <1>1 DEF Resolves, HandsOn
<1>7. QED
  BY <1>2, <1>3, <1>4, <1>5, <1>6

\* A client that goes with neither pane keeps its tab and its foci.
LEMMA BystanderSpared ==
  ASSUME NEW s, NEW z, NEW m, NEW n, NEW y, NEW f, NEW p, NEW t, NEW u, NEW q, NEW T, NEW moving,
         NEW back, NEW S, NEW F, NEW G, NEW isClosing, NEW next, NEW U, NEW g \in Geometries,
         PlacementPath(s, z, m, n, y, f, p, t, u, q, T, moving, back, S, F, G, isClosing, next, U, g),
         PlacementBounds(s, z, p, t, u, q, T, S, F, G, isClosing, U),
         NEW e \in DOMAIN s.clients, e \notin moving \cup back
  PROVE  Spared(s, f, e)
<1>1. /\ Tiled(s, z, p, q, T, g) /\ Carried(z, m, moving, u, p, back, t, q) /\ Resolves(m, n, S, g)
      /\ Bridged(n, y, t, p, F, u, q, G, isClosing, next) /\ Resolves(y, f, U, g)
  BY DEF PlacementPath
<1>2. /\ WholeBut(s, {}) /\ t \in DOMAIN s.tabs /\ u \in DOMAIN s.tabs /\ t # u /\ p # NoPane /\ p # q
      /\ T = {u} \cup (IF isClosing THEN {} ELSE {t})
      /\ T \subseteq U /\ S \subseteq U /\ F \subseteq Focusing(s, t, p) /\ G \subseteq Focusing(s, u, q)
      /\ \A v \in T : z.tabs[v].leaves \in Seq(Panes)
      /\ q \notin Range(z.tabs[u].leaves) /\ (~isClosing => p \notin Range(z.tabs[t].leaves))
      /\ \A v \in DOMAIN s.tabs \ {t} : p \notin Leaves(s, v)
      /\ \A v \in DOMAIN s.tabs \ {u} : q \notin Leaves(s, v)
  BY DEF PlacementBounds
<1>3. /\ DOMAIN z.clients = DOMAIN s.clients /\ DOMAIN m.clients = DOMAIN s.clients
      /\ DOMAIN n.clients = DOMAIN s.clients /\ DOMAIN y.clients = DOMAIN s.clients
      /\ DOMAIN f.clients = DOMAIN s.clients
      /\ DOMAIN z.tabs = DOMAIN s.tabs /\ m.tabs = z.tabs /\ DOMAIN n.tabs = DOMAIN s.tabs
      /\ DOMAIN y.tabs = DOMAIN s.tabs \ (IF isClosing THEN {t} ELSE {})
      /\ DOMAIN f.tabs = DOMAIN y.tabs /\ \A v \in DOMAIN y.tabs : y.tabs[v] = n.tabs[v]
      /\ \A d \in DOMAIN s.clients :
            /\ z.clients[d].area = s.clients[d].area /\ m.clients[d].area = s.clients[d].area
            /\ n.clients[d].area = s.clients[d].area /\ y.clients[d].area = s.clients[d].area
            /\ z.clients[d].active = s.clients[d].active
            /\ n.clients[d].active = m.clients[d].active
            /\ f.clients[d].active = y.clients[d].active
            /\ \/ y.clients[d].active = n.clients[d].active
               \/ isClosing /\ n.clients[d].active = t /\ y.clients[d].active = next
  BY PathFrame
<1>4. m.clients[e] = z.clients[e]
  BY <1>1, <1>3 DEF Carried
<1>5. f.clients[e].active = s.clients[e].active \/ s.clients[e].active \notin DOMAIN f.tabs
  BY <1>3, <1>4
<1>6. /\ \A d \in DOMAIN s.clients : s.clients[d].area \in Nat \cup {Starving}
      /\ \A v \in DOMAIN s.tabs :
            /\ s.tabs[v].size = ResolveTabSolveSize(s, v) /\ s.tabs[v].size \in Nat
            /\ s.tabs[v].leaves \in Seq(Panes) /\ s.tabs[v].leaves # <<>> /\ v \in Tabs
            /\ \A d \in Viewers(s, v) : FocusOK(s.clients[d], s.tabs[v], v)
  BY <1>2, WholeSizes
<1>7. AllReport(m) /\ AllReport(y)
  BY <1>3, <1>6 DEF AllReport
<1>8. CrowdStays(m, y)
  BY <1>3 DEF CrowdStays
<1>9. ASSUME NEW v \in DOMAIN s.tabs \cap DOMAIN f.tabs, f.tabs[v].size <= s.tabs[v].size,
             HeadOf(s.clients[e].hist[v]) \in Shown(f.tabs[v]) \ {NoPane}
      PROVE  HeadOf(f.clients[e].hist[v]) = HeadOf(s.clients[e].hist[v])
  <2>1. PICK h, leaves : h = HeadOf(s.clients[e].hist[v]) /\ leaves = z.tabs[v].leaves
    OBVIOUS
  <2>2. v \in Tabs /\ v \in DOMAIN y.tabs /\ v \in DOMAIN m.tabs /\ y.tabs[v] = n.tabs[v]
    BY <1>3, <1>6
  <2>3. leaves \in Seq(Panes)
    <3>1. v \notin T => z.tabs[v] = s.tabs[v]
      BY <1>1 DEF Tiled
    <3>2. QED
      BY <1>2, <1>6, <2>1, <3>1
  <2>4. n.tabs[v].leaves = leaves /\ f.tabs[v].leaves = leaves
    <3>1. n.tabs[v].leaves = leaves
      BY <1>1, <1>3, <2>1, <2>2 DEF Resolves, SameSolve, SolvedFor
    <3>2. f.tabs[v].leaves = y.tabs[v].leaves
      BY <1>1, <2>2 DEF Resolves, SameSolve, SolvedFor
    <3>3. QED
      BY <2>2, <3>1, <3>2
  <2>5. h \in Range(leaves) /\ h \notin f.tabs[v].hidden /\ h # NoPane
    BY <1>9, <2>1, <2>4 DEF Shown
  <2>6. /\ z.clients[e].hist[v] = s.clients[e].hist[v]
        /\ z.clients[e].zoom[v] = s.clients[e].zoom[v] \/ s.clients[e].zoom[v] \in {p, q}
    <3>1. CASE /\ v \in T /\ h \in z.tabs[v].hidden /\ z.tabs[v].hidden # Range(leaves)
      <4>1. Exact(z, v, g) /\ z.tabs[v].size = s.tabs[v].size
        BY <1>1, <3>1 DEF Tiled
      <4>2. Exact(m, v, g)
        BY <1>3, <4>1 DEF Exact
      <4>3. Exact(n, v, g)
        BY <1>1, <2>2, <4>2, ExactKept
      <4>4. Exact(y, v, g)
        BY <2>2, <4>3 DEF Exact
      <4>5. Exact(f, v, g)
        BY <1>1, <2>2, <4>4, ExactKept
      <4>6. PICK a, b : a = s.tabs[v].size /\ b = f.tabs[v].size
        OBVIOUS
      <4>7. a \in Nat /\ b <= a
        BY <1>6, <1>9, <4>6
      <4>8. b \in Nat
        <5>1. v \in U
          BY <1>2, <3>1
        <5>2. b = ResolveTabSolveSize(y, v)
          BY <1>1, <2>2, <4>6, <5>1 DEF Resolves, SolvedFor
        <5>3. CASE Viewers(y, v) # {}
          <6>1. SizeOf(y, v, b)
            BY <1>7, <5>2, <5>3, ResolvedSize DEF AllReport
          <6>2. QED
            BY <6>1 DEF SizeOf
        <5>4. CASE Viewers(y, v) = {}
          <6>1. b = n.tabs[v].size
            BY <2>2, <5>2, <5>4 DEF ResolveTabSolveSize
          <6>2. v \in S => n.tabs[v].size = ResolveTabSolveSize(m, v)
            BY <1>1, <2>2 DEF Resolves, SolvedFor
          <6>3. v \notin S => n.tabs[v].size = m.tabs[v].size
            BY <1>1, <2>2 DEF Resolves, SameSolve
          <6>4. Viewers(m, v) # {} => ResolveTabSolveSize(m, v) \in Nat
            <7>1. Viewers(m, v) # {} => SizeOf(m, v, ResolveTabSolveSize(m, v))
              BY <1>7, ResolvedSize DEF AllReport
            <7>2. QED
              BY <7>1 DEF SizeOf
          <6>5. Viewers(m, v) = {} => ResolveTabSolveSize(m, v) = m.tabs[v].size
            BY DEF ResolveTabSolveSize
          <6>6. m.tabs[v].size \in Nat
            BY <1>3, <4>1, <4>6, <4>7
          <6>7. QED
            BY <6>1, <6>2, <6>3, <6>4, <6>5, <6>6
        <5>5. QED
          BY <5>3, <5>4
      <4>9. h \in Suppressed(leaves, a, g) /\ h \notin Suppressed(leaves, b, g)
        BY <2>1, <2>4, <2>5, <3>1, <4>1, <4>5, <4>6 DEF Exact
      <4>10. Suppressed(leaves, a, g) = Range(leaves)
        BY <2>3, <4>7, <4>8, <4>9, StillShown
      <4>11. QED
        BY <2>1, <3>1, <4>1, <4>6, <4>10 DEF Exact
    <3>2. QED
      BY <1>1, <2>1, <2>2, <3>1 DEF Tiled
  <2>7. ~(v \in S /\ GivenUp(m, n, e, v))
    <3>1. SUFFICES ASSUME v \in S, GivenUp(m, n, e, v) PROVE FALSE
      OBVIOUS
    <3>2. v \in U /\ m.tabs[v].leaves \in Seq(Panes) /\ h = HeadOf(m.clients[e].hist[v])
      BY <1>2, <1>3, <1>4, <2>1, <2>3, <2>6, <3>1
    <3>3. n.tabs[v].hidden = m.tabs[v].hidden /\ ~Exact(m, v, g)
      BY <1>1, <1>3, <1>7, <1>8, <2>2, <2>5, <3>1, <3>2, SolvedTwice
    <3>4. v \notin T
      BY <1>1, <1>3, <3>3 DEF Tiled, Exact
    <3>5. v \notin {t, u} /\ z.tabs[v] = s.tabs[v]
      BY <1>1, <1>2, <1>3, <2>2, <3>4 DEF Tiled
    <3>6. /\ s.clients[e].active = v /\ z.clients[e].zoom[v] = NoPane
          /\ h \in s.tabs[v].hidden /\ s.tabs[v].hidden # Range(s.tabs[v].leaves)
      BY <1>3, <1>4, <2>1, <2>4, <3>1, <3>2, <3>3, <3>5 DEF GivenUp
    <3>7. s.clients[e].zoom[v] = NoPane
      <4>1. Fits(s.clients[e], s.tabs, {})
        BY <1>2 DEF WholeBut, Steady
      <4>2. ViewOK(s.clients[e].hist[v], s.clients[e].zoom[v], LeavesIn(s.tabs, v) \cup Stale({}, v))
        BY <2>2, <4>1 DEF Fits
      <4>3. s.clients[e].zoom[v] \in {NoPane, h}
        BY <2>1, <4>2 DEF ViewOK
      <4>4. h # p /\ h # q
        BY <1>2, <2>1, <2>5, <3>5 DEF Leaves
      <4>5. QED
        BY <2>6, <3>6, <4>3, <4>4
    <3>8. FocusOK(s.clients[e], s.tabs[v], v)
      BY <1>6, <3>6 DEF Viewers
    <3>9. QED
      BY <2>1, <3>6, <3>7, <3>8 DEF FocusOK
  <2>8. HeadOf(n.clients[e].hist[v]) = h
    <3>1. n.clients[e].hist[v] = m.clients[e].hist[v]
      BY <1>1, <1>3, <2>2, <2>7 DEF Resolves, HandsOn
    <3>2. QED
      BY <1>4, <2>1, <2>6, <3>1
  <2>9. HeadOf(y.clients[e].hist[v]) = h
    <3>1. v = t => h # p /\ e \notin F
      <4>1. v = t => ~isClosing
        BY <1>3, <2>2
      <4>2. v = t => h # p
        BY <1>2, <2>1, <2>5, <4>1
      <4>3. e \in F => HeadOf(s.clients[e].hist[t]) = p
        BY <1>2 DEF Focusing, Focused, HeadOf
      <4>4. QED
        BY <2>1, <4>2, <4>3
    <3>2. v = u => h # q /\ e \notin G
      <4>1. v = u => h # q
        BY <1>2, <2>1, <2>5
      <4>2. e \in G => HeadOf(s.clients[e].hist[u]) = q
        BY <1>2 DEF Focusing, Focused, HeadOf
      <4>3. QED
        BY <2>1, <4>1, <4>2
    <3>3. QED
      BY <1>1, <1>3, <2>2, <2>5, <2>8, <3>1, <3>2 DEF Bridged
  <2>10. f.clients[e].hist[v] = y.clients[e].hist[v] \/ GivenUp(y, f, e, v)
    BY <1>1, <1>3, <2>2 DEF Resolves, HandsOn
  <2>11. ~GivenUp(y, f, e, v)
    BY <2>5, <2>9 DEF GivenUp
  <2>12. QED
    BY <2>1, <2>9, <2>10, <2>11
<1>10. QED
  BY <1>5, <1>9 DEF Spared, FocusKept

\* The clients that go with a pane type in it, where it stands.
LEMMA FollowersView ==
  ASSUME NEW s, WholeBut(s, {}), NEW p, NEW t \in DOMAIN s.tabs, p # NoPane,
         \A v \in DOMAIN s.tabs \ {t} : p \notin Leaves(s, v),
         NEW c, NEW d \in FollowingClients(s, p, c)
  PROVE  d \in DOMAIN s.clients /\ s.clients[d].active = t /\ HeadOf(s.clients[d].hist[t]) = p
<1>1. PICK k, v : k = s.clients[d] /\ v = k.active
  OBVIOUS
<1>2. d \in DOMAIN s.clients /\ HeadOf(k.hist[v]) = p
  BY <1>1 DEF FollowingClients, Focusing, Focused, HeadOf
<1>3. v \in DOMAIN s.tabs /\ v \in Tabs
  BY <1>1, <1>2 DEF WholeBut, Steady, SessionShape
<1>4. Fits(k, s.tabs, {})
  BY <1>1, <1>2 DEF WholeBut, Steady
<1>5. k.hist[v] \in Seq(Panes)
  BY <1>3, <1>4 DEF Fits, Client
<1>6. Range(k.hist[v]) \subseteq LeavesIn(s.tabs, v) \cup Stale({}, v)
  BY <1>3, <1>4 DEF Fits, ViewOK
<1>7. k.hist[v] # <<>> /\ Head(k.hist[v]) = p
  BY <1>2 DEF HeadOf
<1>8. p \in Leaves(s, v)
  BY <1>3, <1>5, <1>6, <1>7, RangeFacts DEF LeavesIn, Stale, Leaves
<1>9. QED
  BY <1>1, <1>2, <1>3, <1>8

\* The histories of a placement's clients are sequences of panes.
LEMMA SteadyRecorded ==
  ASSUME NEW s, NEW X, NEW D, NEW T, NEW B, Steady(s, X, D, T, B)
  PROVE  Recorded(s)
<1>1. \A c \in DOMAIN s.clients : s.clients[c] \in Client
  BY DEF Steady, Fits
<1>2. QED
  BY <1>1 DEF Client, Recorded

\* The clients and tabs that a placement concerns.
PlacementGroups(s, c, p, t, u, q, rest, T, moving, back, S, F, G, isClosing, next) ==
  /\ moving = {c} \cup FollowingClients(s, p, c) /\ back = FollowingClients(s, q, c)
  /\ isClosing = (rest = <<>>) /\ T = {u} \cup (IF isClosing THEN {} ELSE {t})
  /\ S = ({t, u} \cup {s.clients[d].active : d \in moving \cup back})
            \ (IF isClosing THEN {t} ELSE {})
  /\ F = Focusing(s, t, p) \ back /\ G = Focusing(s, u, q) \ moving
  /\ next = NearestSurvivingTab(s, s.tabs[t].index)

\* A placement goes along such a path, or leaves no tab.
LEMMA PlacementGoes ==
  ASSUME NEW s, WholeBut(s, {}), NEW p, NEW t, NEW u, NEW q, NEW rest, NEW placed,
         Placing(s, p, t, u, q, rest, placed), NEW g \in Geometries, NEW c \in DOMAIN s.clients,
         NEW T, NEW moving, NEW back, NEW S, NEW F, NEW G, NEW isClosing, NEW next,
         PlacementGroups(s, c, p, t, u, q, rest, T, moving, back, S, F, G, isClosing, next),
         NEW V, S \subseteq V, NEW f,
         f = SolveEachTab(CommitCrossTabPlacement(s, c, p, t, u, q, rest, placed, g), V, g)
  PROVE  \/ DOMAIN f.tabs = {}
         \/ \E z, m, n, y, U :
              /\ PlacementPath(s, z, m, n, y, f, p, t, u, q, T, moving, back, S, F, G, isClosing,
                               next, U, g)
              /\ PlacementBounds(s, z, p, t, u, q, T, S, F, G, isClosing, U)
              /\ z.tabs[u].leaves = placed /\ (~isClosing => z.tabs[t].leaves = rest)
<1>1. /\ moving = {c} \cup FollowingClients(s, p, c) /\ back = FollowingClients(s, q, c)
      /\ isClosing = (rest = <<>>) /\ T = {u} \cup (IF isClosing THEN {} ELSE {t})
      /\ S = ({t, u} \cup {s.clients[d].active : d \in moving \cup back})
                \ (IF isClosing THEN {t} ELSE {})
      /\ F = Focusing(s, t, p) \ back /\ G = Focusing(s, u, q) \ moving
      /\ next = NearestSurvivingTab(s, s.tabs[t].index)
  BY DEF PlacementGroups
<1>2. /\ t \in Tabs /\ u \in Tabs /\ p \in Panes /\ p # NoPane /\ p # q
      /\ p \notin Range(rest) /\ q \notin Range(placed) /\ placed # <<>>
      /\ Range(rest) \subseteq s.panes /\ Range(placed) \subseteq s.panes
      /\ rest = <<>> => q = NoPane
      /\ q # NoPane => q \in Range(rest) /\ q \in Panes
      /\ \A v \in DOMAIN s.tabs \ {t} : p \notin Leaves(s, v)
      /\ \A v \in DOMAIN s.tabs \ {u} : q \notin Leaves(s, v)
  BY PlacingFacts
<1>3. /\ t \in DOMAIN s.tabs /\ u \in DOMAIN s.tabs /\ t # u
      /\ rest \in Seq(Panes) /\ placed \in Seq(Panes)
  BY DEF Placing
<1>4. Framed(s)
  BY WholeFramed
<1>5. PICK laid : laid = PlacementLaid(s, p, t, u, q, rest, placed, g)
  OBVIOUS
<1>6. PICK z : z = LeaveZoomsOf(LeaveZoomsOf(laid, p), q)
  OBVIOUS
<1>7. /\ Tiled(s, z, p, q, T, g) /\ z.tabs[u].leaves = placed
      /\ rest # <<>> => z.tabs[t].leaves = rest
  <2>1. LaidTabs(T, t, u, rest)
    BY <1>1 DEF LaidTabs
  <2>2. z = LeaveZoomsOf(LeaveZoomsOf(PlacementLaid(s, p, t, u, q, rest, placed, g), p), q)
    BY <1>5, <1>6
  <2>3. QED
    BY <1>3, <1>4, <2>1, <2>2, PlacementTiled, SMTT(60)
<1>8. Framed(z) /\ DOMAIN z.clients = DOMAIN s.clients
  BY <1>7 DEF Tiled
<1>9. Recorded(z)
  <2>1. PICK B, Y, X : B = {t, u} /\ Y = PlacementStale(p, t, u, q, rest) /\ X = {}
    OBVIOUS
  <2>2. t \in B /\ u \in B
    BY <2>1
  <2>3. Steady(laid, Y, X, X, B)
    BY <1>5, <2>1, <2>2, PlacementLaidSteady
  <2>4. Recorded(laid)
    BY <2>3, SteadyRecorded
  <2>5. PICK a : a = LeaveZoomsOf(laid, p)
    OBVIOUS
  <2>6. Framed(laid)
    <3>1. \A d \in DOMAIN laid.clients : RecordFrame(laid.clients[d])
      BY <2>3 DEF Steady, Fits, Client, RecordFrame
    <3>2. \A v \in DOMAIN laid.tabs : DOMAIN laid.tabs[v] = {"leaves", "index", "size", "hidden"}
      BY <2>3 DEF Steady, TabOK, Tab
    <3>3. SessionShape(laid)
      BY <2>3 DEF Steady
    <3>4. QED
      BY <3>1, <3>2, <3>3 DEF Framed
  <2>7. OnlyZooms(laid, a)
    BY <2>5, <2>6, OnlyZoomsFacts
  <2>8. Framed(a) /\ z = LeaveZoomsOf(a, q)
    BY <1>6, <2>5, <2>7 DEF OnlyZooms
  <2>9. OnlyZooms(a, z)
    BY <2>8, OnlyZoomsFacts
  <2>10. QED
    BY <2>4, <2>7, <2>9 DEF OnlyZooms, OnlyClients, Recorded
<1>10. moving \cap back = {}
  <2>1. c \notin back
    BY <1>1 DEF FollowingClients
  <2>2. \A d \in FollowingClients(s, p, c) : d \notin FollowingClients(s, q, c)
    BY <1>2 DEF FollowingClients, Focusing
  <2>3. QED
    BY <1>1, <2>1, <2>2
<1>11. back # {} => q \in Panes
  <2>1. q = NoPane => back = {}
    BY <1>1 DEF FollowingClients, Focusing
  <2>2. QED
    BY <1>2, <2>1
<1>12. PICK m : m = MoveOntoPane(MoveOntoPane(z, moving, u, p), back, t, q)
  OBVIOUS
<1>13. Carried(z, m, moving, u, p, back, t, q)
  BY <1>2, <1>8, <1>9, <1>10, <1>11, <1>12, CarriedFrame DEF Recorded
<1>14. PICK n : n = SolveEachTab(m, S, g)
  OBVIOUS
<1>15. Resolves(m, n, S, g)
  BY <1>13, <1>14, SolveEachFrame DEF Carried
<1>16. n = PlacementSolved(s, c, p, t, u, q, rest, placed, g)
  <2>1. back \ moving = back
    BY <1>10
  <2>2. S = ({t, u} \cup {s.clients[d].active : d \in moving \cup back})
              \ (IF rest = <<>> THEN {t} ELSE {})
    BY <1>1
  <2>3. m = MoveOntoPane(MoveOntoPane(z, moving, u, p), back \ moving, t, q)
    BY <1>12, <2>1
  <2>4. QED
    BY <1>1, <1>5, <1>6, <1>14, <2>2, <2>3 DEF PlacementSolved
<1>17. PlacementReady(s, n, c, p, t, u, q, rest, placed)
  BY <1>16, PlacementSolvedSteady
<1>18. PlacedTrees(s, n, t, u, rest, placed) /\ Recorded(n) /\ SessionShape(n)
  <2>1. PICK B, Y, X : /\ B = (IF rest = <<>> THEN {t} ELSE {}) /\ X = {}
                       /\ Y = PlacementStale(p, t, u, q, rest)
    OBVIOUS
  <2>2. Steady(n, Y, X, X, B) /\ PlacedTrees(s, n, t, u, rest, placed)
    BY <1>17, <2>1 DEF PlacementReady
  <2>3. QED
    BY <2>2, SteadyRecorded DEF Steady
<1>19. Framed(n)
  BY <1>15 DEF Resolves, HandsOn
<1>20. PICK r : r = CommitCrossTabPlacement(s, c, p, t, u, q, rest, placed, g)
  OBVIOUS
<1>21. T \subseteq S
  BY <1>1, <1>3
<1>22. ASSUME NEW y, NEW U, V \subseteq U, Bridged(n, y, t, p, F, u, q, G, isClosing, next),
              Resolves(y, f, U, g)
       PROVE  /\ PlacementPath(s, z, m, n, y, f, p, t, u, q, T, moving, back, S, F, G, isClosing,
                               next, U, g)
              /\ PlacementBounds(s, z, p, t, u, q, T, S, F, G, isClosing, U)
              /\ z.tabs[u].leaves = placed /\ (~isClosing => z.tabs[t].leaves = rest)
  <2>1. PlacementPath(s, z, m, n, y, f, p, t, u, q, T, moving, back, S, F, G, isClosing, next, U, g)
    BY <1>7, <1>13, <1>15, <1>22 DEF PlacementPath
  <2>2. z.tabs[u].leaves = placed /\ (~isClosing => z.tabs[t].leaves = rest)
    BY <1>1, <1>7
  <2>3. /\ \A v \in T : z.tabs[v].leaves \in Seq(Panes)
        /\ q \notin Range(z.tabs[u].leaves) /\ (~isClosing => p \notin Range(z.tabs[t].leaves))
    BY <1>1, <1>2, <1>3, <2>2
  <2>4. T \subseteq U /\ S \subseteq U /\ F \subseteq Focusing(s, t, p) /\ G \subseteq Focusing(s, u, q)
    BY <1>1, <1>21, <1>22
  <2>5. PlacementBounds(s, z, p, t, u, q, T, S, F, G, isClosing, U)
    BY <1>1, <1>2, <1>3, <2>3, <2>4 DEF PlacementBounds
  <2>6. QED
    BY <2>1, <2>2, <2>5
<1>23. CASE rest # <<>>
  <2>1. ~isClosing
    BY <1>1, <1>23
  <2>2. PICK a, b : a = RepairAfterPaneLeft(n, t, p, F, g) /\ b = RepairAfterPaneLeft(a, u, q, G, g)
    OBVIOUS
  <2>3. r = IF q = NoPane THEN a ELSE b
    BY <1>1, <1>16, <1>20, <1>23, <2>2 DEF CommitCrossTabPlacement, PlacementSolved, PlacementLaid
  <2>4. Bridged(n, a, t, p, F, u, q, G, isClosing, next)
    BY <1>2, <1>18, <1>19, <2>1, <2>2, LeftBridges
  <2>5. Bridged(n, b, t, p, F, u, q, G, isClosing, next)
    BY <1>2, <1>3, <1>18, <1>19, <2>1, <2>2, BothBridge
  <2>6. Bridged(n, r, t, p, F, u, q, G, isClosing, next)
    BY <2>3, <2>4, <2>5
  <2>7. Framed(r)
    BY <2>6 DEF Bridged
  <2>8. Resolves(r, f, V, g)
    BY <1>20, <2>7, SolveEachFrame
  <2>9. V \subseteq V
    OBVIOUS
  <2>10. QED
    BY <1>22, <2>6, <2>8, <2>9
<1>24. CASE rest = <<>>
  <2>1. isClosing /\ q = NoPane
    BY <1>1, <1>2, <1>24
  <2>2. r = CloseAndRefocusTab(n, t, g)
    BY <1>16, <1>20, <1>24, <2>1 DEF CommitCrossTabPlacement, PlacementSolved, PlacementLaid
  <2>3. NumberedTabs(s)
    BY WholeRecords
  <2>4. /\ DOMAIN n.tabs = DOMAIN s.tabs /\ \A v \in DOMAIN s.tabs : n.tabs[v].index = s.tabs[v].index
    BY <1>18 DEF PlacedTrees
  <2>5. NumberedTabs(n)
    BY <2>3, <2>4 DEF NumberedTabs
  <2>6. DOMAIN n = DOMAIN s /\ "tabs" \in DOMAIN s
    BY <1>4, <1>19 DEF Framed, SessionShape
  <2>7. NearestSurvivingTab(CutOff(n, t), n.tabs[t].index) = next
    BY <1>1, <1>3, <2>3, <2>4, <2>6, NearestSame
  <2>8. t \in DOMAIN n.tabs
    BY <1>3, <2>4
  <2>9. \/ DOMAIN r.tabs = {}
        \/ \E y : Closed(n, y, t, next) /\ Resolves(y, r, {next}, g)
    BY <1>19, <2>2, <2>5, <2>7, <2>8, CloseFrame
  <2>10. CASE DOMAIN r.tabs = {}
    <3>1. DOMAIN f.tabs = DOMAIN r.tabs
      BY <1>20 DEF SolveEachTab
    <3>2. QED
      BY <2>10, <3>1
  <2>11. CASE \E y : Closed(n, y, t, next) /\ Resolves(y, r, {next}, g)
    <3>1. PICK y : Closed(n, y, t, next) /\ Resolves(y, r, {next}, g)
      BY <2>11
    <3>2. Framed(r)
      BY <3>1 DEF Resolves, HandsOn
    <3>3. Resolves(r, f, V, g)
      BY <1>20, <3>2, SolveEachFrame
    <3>4. PICK X, U : X = {next} /\ U = X \cup V
      OBVIOUS
    <3>5. Resolves(y, r, X, g)
      BY <3>1, <3>4
    <3>6. Resolves(y, f, X \cup V, g)
      BY <3>3, <3>5, ResolvesTrans
    <3>7. Resolves(y, f, U, g) /\ V \subseteq U
      BY <3>4, <3>6
    <3>8. Bridged(n, y, t, p, F, u, q, G, isClosing, next)
      BY <2>1, <3>1, CloseBridges
    <3>9. QED
      BY <1>22, <3>7, <3>8
  <2>12. QED
    BY <2>9, <2>10, <2>11
<1>25. QED
  BY <1>23, <1>24

\* The sizes that compute_placement_tab_sizes checks the two tabs against.
PlacementFits(s, t, u, moving, back, rest, placed, isClosing, next) ==
  /\ LET size == SizeAfterMove(s, u, IF isClosing /\ next = u THEN {t} ELSE {}, moving, back)
     IN  size # Starving /\ Len(placed) <= size
  /\ LET size == SizeAfterMove(s, t, {}, back, moving)
     IN  ~isClosing /\ size # Starving => Len(rest) <= size

\* Who views the two tabs of a placement has room for their panes.
LEMMA PlacementRoom ==
  ASSUME NEW s, NEW z, NEW m, NEW n, NEW y, NEW f, NEW p, NEW t, NEW u, NEW q, NEW T, NEW moving,
         NEW back, NEW S, NEW F, NEW G, NEW isClosing, NEW next, NEW U, NEW g,
         PlacementPath(s, z, m, n, y, f, p, t, u, q, T, moving, back, S, F, G, isClosing, next, U, g),
         t # u, AllReport(s), NEW rest \in Seq(Panes), NEW placed \in Seq(Panes),
         moving \subseteq DOMAIN s.clients, back \subseteq DOMAIN s.clients, isClosing => back = {},
         PlacementFits(s, t, u, moving, back, rest, placed, isClosing, next)
  PROVE  /\ HasRoom(m, u, Len(placed)) /\ HasRoom(y, u, Len(placed))
         /\ ~isClosing => HasRoom(m, t, Len(rest)) /\ HasRoom(y, t, Len(rest))
<1>1. /\ DOMAIN z.clients = DOMAIN s.clients /\ DOMAIN m.clients = DOMAIN s.clients
      /\ DOMAIN y.clients = DOMAIN s.clients
      /\ \A d \in DOMAIN s.clients :
            /\ m.clients[d].area = s.clients[d].area /\ y.clients[d].area = s.clients[d].area
            /\ z.clients[d].active = s.clients[d].active
            /\ n.clients[d].active = m.clients[d].active
            /\ \/ y.clients[d].active = n.clients[d].active
               \/ isClosing /\ n.clients[d].active = t /\ y.clients[d].active = next
  BY PathFrame
<1>2. \A d \in DOMAIN s.clients :
         /\ d \in moving => m.clients[d].active = u
         /\ d \in back => m.clients[d].active = t
         /\ d \notin moving \cup back => m.clients[d].active = s.clients[d].active
  BY <1>1 DEF PlacementPath, Carried
<1>3. PICK k, j : k = Len(placed) /\ j = Len(rest)
  OBVIOUS
<1>4. k \in Nat /\ j \in Nat
  BY <1>3
<1>5. PICK merging, none : merging = (IF isClosing /\ next = u THEN {t} ELSE {}) /\ none = {}
  OBVIOUS
<1>6. PICK a, b : /\ a = SizeAfterMove(s, u, merging, moving, back)
                  /\ b = SizeAfterMove(s, t, none, back, moving)
  OBVIOUS
<1>7. k <= a /\ (~isClosing /\ b # Starving => j <= b)
  BY <1>3, <1>5, <1>6 DEF PlacementFits
<1>8. ASSUME NEW d \in DOMAIN s.clients,
             d \in moving \/ (d \notin back /\ s.clients[d].active \in {u} \cup merging)
      PROVE  s.clients[d].area = Starving \/ k <= s.clients[d].area
  <2>1. SUFFICES ASSUME s.clients[d].area # Starving PROVE k <= s.clients[d].area
    OBVIOUS
  <2>2. a \in Nat /\ a <= s.clients[d].area
    BY <1>6, <1>8, <2>1, SizeAfterFacts
  <2>3. s.clients[d].area \in Nat
    BY <2>1 DEF AllReport
  <2>4. QED
    BY <1>4, <1>7, <2>2, <2>3
<1>9. ASSUME NEW d \in DOMAIN s.clients, ~isClosing,
             d \in back \/ (d \notin moving /\ s.clients[d].active \in {t} \cup none)
      PROVE  s.clients[d].area = Starving \/ j <= s.clients[d].area
  <2>1. SUFFICES ASSUME s.clients[d].area # Starving PROVE j <= s.clients[d].area
    OBVIOUS
  <2>2. b \in Nat /\ b # Starving /\ b <= s.clients[d].area
    BY <1>6, <1>9, <2>1, SizeAfterFacts
  <2>3. s.clients[d].area \in Nat
    BY <2>1 DEF AllReport
  <2>4. QED
    BY <1>4, <1>7, <1>9, <2>2, <2>3
<1>10. HasRoom(m, u, k)
  BY <1>1, <1>2, <1>8 DEF HasRoom
<1>11. HasRoom(y, u, k)
  BY <1>1, <1>2, <1>5, <1>8 DEF HasRoom
<1>12. ~isClosing => HasRoom(m, t, j)
  BY <1>1, <1>2, <1>9 DEF HasRoom
<1>13. ~isClosing => HasRoom(y, t, j)
  BY <1>1, <1>2, <1>9 DEF HasRoom
<1>14. QED
  BY <1>3, <1>10, <1>11, <1>12, <1>13

\* A client that ends in another tab on the pane it typed in follows it.
LEMMA FollowerSpared ==
  ASSUME NEW f, Commit(f), NEW e \in DOMAIN clients, e \in DOMAIN f.clients, NEW x, x # NoPane,
         NEW v, NEW w, v # w, clients[e].active = v, HeadOf(clients[e].hist[v]) = x,
         f.clients[e].active = w, HeadOf(f.clients[e].hist[w]) = x
  PROVE  ~Displaced(e)
<1>1. clients' = f.clients /\ Session.clients = clients
  BY SessionParts DEF Commit
<1>2. Focused(Session, e, v) = x
  BY <1>1 DEF Focused, HeadOf
<1>3. clients'[e].hist[w] # <<>> /\ Head(clients'[e].hist[w]) = x
  BY <1>1 DEF HeadOf
<1>4. FollowsItsPane(e)
  BY <1>1, <1>2, <1>3 DEF FollowsItsPane
<1>5. QED
  BY <1>4 DEF Displaced

\* The client that goes with p ends in u, the one that goes with q in t.
LEMMA PathLands ==
  ASSUME NEW s, NEW z, NEW m, NEW n, NEW y, NEW f, NEW p, NEW t, NEW u, NEW q, NEW T, NEW moving,
         NEW back, NEW S, NEW F, NEW G, NEW isClosing, NEW next, NEW U, NEW g \in Geometries,
         PlacementPath(s, z, m, n, y, f, p, t, u, q, T, moving, back, S, F, G, isClosing, next, U, g),
         PlacementBounds(s, z, p, t, u, q, T, S, F, G, isClosing, U), AllReport(s),
         HasRoom(m, u, Len(z.tabs[u].leaves)), HasRoom(y, u, Len(z.tabs[u].leaves)),
         ~isClosing => /\ HasRoom(m, t, Len(z.tabs[t].leaves))
                       /\ HasRoom(y, t, Len(z.tabs[t].leaves)),
         NEW e \in DOMAIN s.clients
  PROVE  /\ e \in moving /\ e \notin G => /\ e \in DOMAIN f.clients /\ f.clients[e].active = u
                                         /\ HeadOf(f.clients[e].hist[u]) = p
         /\ e \in back /\ e \notin F /\ ~isClosing /\ q # NoPane
              => /\ e \in DOMAIN f.clients /\ f.clients[e].active = t
                 /\ HeadOf(f.clients[e].hist[t]) = q
<1>1. /\ Tiled(s, z, p, q, T, g) /\ Carried(z, m, moving, u, p, back, t, q) /\ Resolves(m, n, S, g)
      /\ Bridged(n, y, t, p, F, u, q, G, isClosing, next) /\ Resolves(y, f, U, g)
  BY DEF PlacementPath
<1>2. /\ WholeBut(s, {}) /\ t \in DOMAIN s.tabs /\ u \in DOMAIN s.tabs /\ t # u /\ p # NoPane /\ p # q
      /\ T = {u} \cup (IF isClosing THEN {} ELSE {t})
      /\ \A v \in T : z.tabs[v].leaves \in Seq(Panes)
  BY DEF PlacementBounds
<1>3. /\ DOMAIN z.clients = DOMAIN s.clients /\ DOMAIN m.clients = DOMAIN s.clients
      /\ DOMAIN n.clients = DOMAIN s.clients /\ DOMAIN y.clients = DOMAIN s.clients
      /\ DOMAIN z.tabs = DOMAIN s.tabs /\ m.tabs = z.tabs /\ DOMAIN n.tabs = DOMAIN s.tabs
      /\ DOMAIN y.tabs = DOMAIN s.tabs \ (IF isClosing THEN {t} ELSE {})
      /\ \A v \in DOMAIN y.tabs : y.tabs[v] = n.tabs[v]
      /\ \A d \in DOMAIN s.clients :
            /\ m.clients[d].area = s.clients[d].area /\ y.clients[d].area = s.clients[d].area
            /\ n.clients[d].active = m.clients[d].active
            /\ \/ y.clients[d].active = n.clients[d].active
               \/ isClosing /\ n.clients[d].active = t /\ y.clients[d].active = next
  BY PathFrame
<1>4. t \in Tabs /\ u \in Tabs
  BY <1>2 DEF WholeBut, Steady, SessionShape
<1>5. AllReport(m) /\ AllReport(y)
  BY <1>3 DEF AllReport
<1>6. \A v \in T : Exact(m, v, g)
  BY <1>1, <1>3 DEF Tiled, Exact
<1>7. ASSUME e \in moving, e \notin G
      PROVE  /\ e \in DOMAIN f.clients /\ f.clients[e].active = u
             /\ HeadOf(f.clients[e].hist[u]) = p
  <2>1. m.clients[e].active = u /\ HeadOf(m.clients[e].hist[u]) = p
    BY <1>1, <1>3, <1>7 DEF Carried
  <2>2. u \in DOMAIN y.tabs /\ u \in DOMAIN m.tabs /\ y.clients[e].active = u
    BY <1>2, <1>3, <2>1
  <2>3. HeadOf(n.clients[e].hist[u]) = p => HeadOf(y.clients[e].hist[u]) = p
    BY <1>1, <1>2, <1>3, <1>7, <2>2 DEF Bridged
  <2>4. Lands(y, n, e, u, p)
    BY <1>3, <2>2, <2>3 DEF Lands
  <2>5. /\ Exact(m, u, g) /\ m.tabs[u].leaves \in Seq(Panes) /\ e \in DOMAIN m.clients
        /\ HasRoom(m, u, Len(m.tabs[u].leaves)) /\ HasRoom(y, u, Len(m.tabs[u].leaves))
    BY <1>2, <1>3, <1>6
  <2>6. QED
    BY <1>1, <1>4, <1>5, <2>1, <2>2, <2>4, <2>5, FollowerLands
<1>8. ASSUME e \in back, e \notin F, ~isClosing, q # NoPane
      PROVE  /\ e \in DOMAIN f.clients /\ f.clients[e].active = t
             /\ HeadOf(f.clients[e].hist[t]) = q
  <2>1. m.clients[e].active = t /\ HeadOf(m.clients[e].hist[t]) = q
    BY <1>1, <1>3, <1>8 DEF Carried
  <2>2. t \in DOMAIN y.tabs /\ t \in DOMAIN m.tabs /\ y.clients[e].active = t
    BY <1>2, <1>3, <1>8, <2>1
  <2>3. HeadOf(n.clients[e].hist[t]) = q => HeadOf(y.clients[e].hist[t]) = q
    BY <1>1, <1>2, <1>3, <1>8, <2>2 DEF Bridged
  <2>4. Lands(y, n, e, t, q)
    BY <1>3, <2>2, <2>3 DEF Lands
  <2>5. /\ Exact(m, t, g) /\ m.tabs[t].leaves \in Seq(Panes) /\ e \in DOMAIN m.clients
        /\ HasRoom(m, t, Len(m.tabs[t].leaves)) /\ HasRoom(y, t, Len(m.tabs[t].leaves))
    BY <1>2, <1>3, <1>6, <1>8
  <2>6. QED
    BY <1>1, <1>4, <1>5, <2>1, <2>2, <2>4, <2>5, FollowerLands
<1>9. QED
  BY <1>7, <1>8

\* PlacePaneAcrossTabs: who goes with a pane follows it, and nobody else is moved.
LEMMA PlaceAcrossSpares ==
  ASSUME SessionInv, SessionInv', NEW s, s = Session, NEW p, NEW t, NEW u, NEW q, NEW rest, NEW placed,
         Placing(s, p, t, u, q, rest, placed), NEW g \in Geometries, NEW c \in DOMAIN clients,
         PlacePaneAcrossTabs(c, p, t, u, q, rest, placed, g), NEW e, e # c
  PROVE  ~Displaced(e)
<1>1. s.tabs = tabs /\ s.clients = clients /\ WholeBut(s, {}) /\ c \in DOMAIN s.clients
  BY SessionParts DEF SessionInv
<1>2. PICK T, moving, back, S, F, G, isClosing, next :
        PlacementGroups(s, c, p, t, u, q, rest, T, moving, back, S, F, G, isClosing, next)
  BY DEF PlacementGroups
<1>3. /\ moving = {c} \cup FollowingClients(s, p, c) /\ back = FollowingClients(s, q, c)
      /\ isClosing = (rest = <<>>)
      /\ S = ({t, u} \cup {s.clients[d].active : d \in moving \cup back})
                \ (IF isClosing THEN {t} ELSE {})
      /\ F = Focusing(s, t, p) \ back /\ G = Focusing(s, u, q) \ moving
      /\ next = NearestSurvivingTab(s, s.tabs[t].index)
  BY <1>2 DEF PlacementGroups
<1>4. PICK V : V = {u} \cup (IF rest = <<>> THEN {NearestSurvivingTab(s, tabs[t].index)} ELSE {t})
                   \cup ({clients[d].active : d \in {c} \cup FollowingClients(s, p, c)
                                                   \cup FollowingClients(s, q, c)} \ {t})
  OBVIOUS
<1>5. PICK f : f = SolveEachTab(CommitCrossTabPlacement(s, c, p, t, u, q, rest, placed, g), V, g)
  OBVIOUS
<1>6. Commit(f)
  BY <1>4, <1>5 DEF PlacePaneAcrossTabs
<1>7. S \subseteq V
  <2>1. V = {u} \cup (IF isClosing THEN {next} ELSE {t})
              \cup ({s.clients[d].active : d \in moving \cup back} \ {t})
    BY <1>1, <1>3, <1>4
  <2>2. QED
    BY <1>3, <2>1
<1>8. PlacementFits(s, t, u, moving, back, rest, placed, isClosing, next)
  <2>1. PICK sizes : sizes = PlacementTabSizes(c, p, t, u, q, rest = <<>>)
    OBVIOUS
  <2>2. /\ sizes.placed # Starving /\ Len(placed) <= sizes.placed
        /\ sizes.rest # Starving => Len(rest) <= sizes.rest
    BY <2>1 DEF PlacePaneAcrossTabs
  <2>3. sizes.placed = SizeAfterMove(s, u, IF isClosing /\ next = u THEN {t} ELSE {}, moving, back)
    BY <1>1, <1>3, <2>1 DEF PlacementTabSizes
  <2>4. ~isClosing => sizes.rest = SizeAfterMove(s, t, {}, back, moving)
    BY <1>1, <1>3, <2>1 DEF PlacementTabSizes
  <2>5. QED
    BY <2>2, <2>3, <2>4 DEF PlacementFits
<1>9. \/ DOMAIN f.tabs = {}
      \/ \E z, m, n, y, U :
           /\ PlacementPath(s, z, m, n, y, f, p, t, u, q, T, moving, back, S, F, G, isClosing,
                            next, U, g)
           /\ PlacementBounds(s, z, p, t, u, q, T, S, F, G, isClosing, U)
           /\ z.tabs[u].leaves = placed /\ (~isClosing => z.tabs[t].leaves = rest)
  BY <1>1, <1>2, <1>5, <1>7, PlacementGoes
<1>10. ASSUME Spared(s, f, e) PROVE ~Displaced(e)
  BY <1>6, <1>10, SparedStays
<1>11. CASE DOMAIN f.tabs = {}
  BY <1>10, <1>11, NoTabsSpare
<1>12. ASSUME NEW z, NEW m, NEW n, NEW y, NEW U,
              PlacementPath(s, z, m, n, y, f, p, t, u, q, T, moving, back, S, F, G, isClosing,
                            next, U, g),
              PlacementBounds(s, z, p, t, u, q, T, S, F, G, isClosing, U),
              z.tabs[u].leaves = placed, ~isClosing => z.tabs[t].leaves = rest
       PROVE  ~Displaced(e)
  <2>1. CASE e \notin DOMAIN s.clients
    BY <1>1, <2>1 DEF Displaced, MovedFreely, Switched
  <2>2. CASE e \in DOMAIN s.clients /\ e \notin moving \cup back
    <3>1. Spared(s, f, e)
      BY <1>12, <2>2, BystanderSpared
    <3>2. QED
      BY <1>10, <3>1
  <2>3. CASE e \in DOMAIN s.clients /\ e \in moving \cup back
    <3>1. /\ t \in DOMAIN s.tabs /\ u \in DOMAIN s.tabs /\ t # u /\ p # NoPane /\ p # q
          /\ \A v \in DOMAIN s.tabs \ {t} : p \notin Leaves(s, v)
          /\ \A v \in DOMAIN s.tabs \ {u} : q \notin Leaves(s, v)
      BY <1>12 DEF PlacementBounds
    <3>2. rest \in Seq(Panes) /\ placed \in Seq(Panes)
      BY DEF Placing
    <3>3. AllReport(s)
      BY <1>1, WholeSizes DEF AllReport
    <3>4. moving \subseteq DOMAIN s.clients /\ back \subseteq DOMAIN s.clients
      BY <1>1, <1>3 DEF FollowingClients
    <3>5. back # {} => q # NoPane
      BY <1>3 DEF FollowingClients, Focusing
    <3>6. isClosing => q = NoPane
      BY <1>1, <1>3, PlacingFacts
    <3>7. isClosing => back = {}
      BY <3>5, <3>6
    <3>8. /\ HasRoom(m, u, Len(placed)) /\ HasRoom(y, u, Len(placed))
          /\ ~isClosing => HasRoom(m, t, Len(rest)) /\ HasRoom(y, t, Len(rest))
      BY <1>8, <1>12, <3>1, <3>2, <3>3, <3>4, <3>7, PlacementRoom
    <3>9. /\ HasRoom(m, u, Len(z.tabs[u].leaves)) /\ HasRoom(y, u, Len(z.tabs[u].leaves))
          /\ ~isClosing => /\ HasRoom(m, t, Len(z.tabs[t].leaves))
                           /\ HasRoom(y, t, Len(z.tabs[t].leaves))
      BY <1>12, <3>8
    <3>10. /\ e \in moving /\ e \notin G => /\ e \in DOMAIN f.clients /\ f.clients[e].active = u
                                           /\ HeadOf(f.clients[e].hist[u]) = p
           /\ e \in back /\ e \notin F /\ ~isClosing /\ q # NoPane
                => /\ e \in DOMAIN f.clients /\ f.clients[e].active = t
                   /\ HeadOf(f.clients[e].hist[t]) = q
      BY <1>12, <2>3, <3>3, <3>9, PathLands
    <3>11. CASE e \in moving
      <4>1. e \in FollowingClients(s, p, c) /\ e \notin G
        BY <1>3, <3>11
      <4>2. s.clients[e].active = t /\ HeadOf(s.clients[e].hist[t]) = p
        BY <1>1, <3>1, <4>1, FollowersView
      <4>3. QED
        BY <1>1, <1>6, <2>3, <3>1, <3>10, <3>11, <4>1, <4>2, FollowerSpared
    <3>12. CASE e \in back
      <4>1. e \in FollowingClients(s, q, c) /\ e \notin F /\ q # NoPane /\ ~isClosing
        BY <1>3, <3>5, <3>7, <3>12
      <4>2. s.clients[e].active = u /\ HeadOf(s.clients[e].hist[u]) = q
        <5>1. WholeBut(s, {}) /\ u \in DOMAIN s.tabs /\ q # NoPane /\ e \in FollowingClients(s, q, c)
          BY <1>1, <3>1, <4>1
        <5>2. \A v \in DOMAIN s.tabs \ {u} : q \notin Leaves(s, v)
          BY <3>1
        <5>3. QED
          BY <5>1, <5>2, FollowersView
      <4>3. QED
        BY <1>1, <1>6, <2>3, <3>1, <3>10, <3>12, <4>1, <4>2, FollowerSpared
    <3>13. QED
      BY <2>3, <3>11, <3>12
  <2>4. QED
    BY <2>1, <2>2, <2>3
<1>13. QED
  BY <1>9, <1>11, <1>12

\* SwapPanes.
LEMMA SwapSpares ==
  ASSUME SessionInv, SessionInv', NEW c, NEW p, NEW q, NEW g \in Geometries, SwapPanes(c, p, q, g),
         NEW e, e # c
  PROVE  ~Displaced(e)
<1>1. PICK s : s = Session
  OBVIOUS
<1>2. PICK t, u : t = TabOf(s, p) /\ u = TabOf(s, q)
  OBVIOUS
<1>3. CASE t = u
  <2>1. PICK leaves : leaves = ExchangePanes(tabs[t].leaves, p, q)
    OBVIOUS
  <2>2. /\ WholeBut(s, {}) /\ p \in s.panes /\ s.tabs = tabs /\ PlacePaneWithinTab(c, t, leaves, g)
    BY <1>1, <1>2, <1>3, <2>1, SessionParts DEF SessionInv, SwapPanes
  <2>3. t \in DOMAIN tabs
    BY <1>2, <2>2, PaneHome
  <2>4. QED
    BY <2>2, <2>3, PlaceWithinSpares
<1>4. CASE t # u
  <2>1. PICK rest, placed : /\ Placing(s, p, t, u, q, rest, placed) /\ c \in DOMAIN clients
                            /\ PlacePaneAcrossTabs(c, p, t, u, q, rest, placed, g)
    BY <1>1, <1>2, <1>4, SwapPlaces
  <2>2. QED
    BY <1>1, <2>1, PlaceAcrossSpares
<1>5. QED
  BY <1>3, <1>4

\* InsertPane.
LEMMA InsertSpares ==
  ASSUME SessionInv, SessionInv', NEW c, NEW p, NEW u, NEW at \in Nat \ {0}, NEW g \in Geometries,
         InsertPane(c, p, u, at, g), NEW e, e # c
  PROVE  ~Displaced(e)
<1>1. PICK s : s = Session
  OBVIOUS
<1>2. PICK t : t = TabOf(s, p)
  OBVIOUS
<1>3. CASE t = u
  <2>1. PICK leaves : leaves = InsertAt(Without(tabs[t].leaves, p), at, p)
    OBVIOUS
  <2>2. /\ s.tabs = tabs /\ t \in DOMAIN tabs /\ PlacePaneWithinTab(c, t, leaves, g)
    BY <1>1, <1>2, <1>3, <2>1, SessionParts DEF InsertPane
  <2>3. QED
    BY <2>2, PlaceWithinSpares
<1>4. CASE t # u
  <2>1. PICK q : q = NoPane
    OBVIOUS
  <2>2. PICK rest, placed : /\ Placing(s, p, t, u, q, rest, placed) /\ c \in DOMAIN clients
                            /\ PlacePaneAcrossTabs(c, p, t, u, q, rest, placed, g)
    BY <1>1, <1>2, <1>4, <2>1, InsertPlaces
  <2>3. QED
    BY <1>1, <2>2, PlaceAcrossSpares
<1>5. QED
  BY <1>3, <1>4

\* At most one client is displaced when all of them are one.
LEMMA OneAtMost ==
  ASSUME NEW D, NEW a, D \subseteq {a}
  PROVE  Cardinality(D) <= 1
<1>1. IsFiniteSet({a}) /\ Cardinality({a}) = 1
  BY FS_Singleton
<1>2. Cardinality(D) <= Cardinality({a})
  BY <1>1, FS_Subset
<1>3. QED
  BY <1>1, <1>2

\* Every action displaces at most the client it acts for.
OnlyOne == \E a : \A e \in Clients : e # a => ~Displaced(e)

\* By the lemmas above, one for each action.
LEMMA NextSpares ==
  ASSUME SessionInv, SessionInv', Next
  PROVE  OnlyOne
<1>1. OpenChoices \subseteq Geometries
  BY SessionConstants DEF OpenChoices
<1>2. ASSUME NEW c \in Drawn, DrawClient(c) PROVE OnlyOne
  BY <1>2, DrawSpares DEF OnlyOne
<1>3. ASSUME NEW t \in Tabs, NEW index \in 0 .. (Cardinality(Tabs) - 1), MoveTab(t, index)
      PROVE  OnlyOne
  BY <1>3, MoveTabSpares DEF OnlyOne
<1>4. ASSUME NEW g \in Geometries, NEW c \in Clients, NEW t \in Tabs, NEW area \in Areas,
             AttachClient(c, t, area, g)
      PROVE  OnlyOne
  <2>1. \A e \in Clients : e # c => ~Displaced(e)
    BY <1>4, AttachSpares
  <2>2. QED
    BY <2>1 DEF OnlyOne
<1>5. ASSUME NEW g \in Geometries, NEW c \in Clients, NEW area \in Areas, ResizeClient(c, area, g)
      PROVE  OnlyOne
  <2>1. \A e \in Clients : e # c => ~Displaced(e)
    BY <1>5, ResizeSpares
  <2>2. QED
    BY <2>1 DEF OnlyOne
<1>6. ASSUME NEW g \in Geometries, NEW c \in Clients, DetachClient(c, g) PROVE OnlyOne
  BY <1>6, DetachSpares DEF OnlyOne
<1>7. ASSUME NEW g \in Geometries, NEW c \in Clients, NEW t \in Tabs, NEW p \in Panes,
             NewTab(c, t, p, g)
      PROVE  OnlyOne
  <2>1. \A e \in Clients : e # c => ~Displaced(e)
    BY <1>7, NewTabSpares
  <2>2. QED
    BY <2>1 DEF OnlyOne
<1>8. ASSUME NEW g \in Geometries, NEW d \in Clients \cup {NoClient}, NEW source \in Panes,
             NEW p \in Panes, NEW isBefore \in BOOLEAN, NewPane(d, source, p, isBefore, g)
      PROVE  OnlyOne
  <2>1. PICK a : a = NewPaneClient(TabOf(Session, source), d)
    OBVIOUS
  <2>2. \A e \in Clients : e # NoClient
    BY SessionConstants
  <2>3. ASSUME NEW e \in Clients, e # a PROVE ~Displaced(e)
    <3>1. e # NewPaneClient(TabOf(Session, source), d) /\ e # NoClient
      BY <2>1, <2>2, <2>3
    <3>2. QED
      BY <1>8, <3>1, NewPaneSpares
  <2>4. QED
    BY <2>3 DEF OnlyOne
<1>9. ASSUME NEW g \in Geometries, NEW d \in Clients \cup {NoClient}, NEW p \in Panes,
             ClosePane(d, p, g)
      PROVE  OnlyOne
  BY <1>9, ClosePaneSpares DEF OnlyOne
<1>10. ASSUME NEW g \in Geometries, NEW p \in Panes, ChildExit(p, g) PROVE OnlyOne
  BY <1>10, ChildExitSpares DEF OnlyOne
<1>11. ASSUME NEW g \in Geometries, NEW t \in Tabs, CloseTab(t, g) PROVE OnlyOne
  BY <1>11, CloseTabSpares DEF OnlyOne
<1>12. ASSUME NEW g \in Geometries, NEW c \in Clients, NEW t \in Tabs, FocusTab(c, t, g)
       PROVE  OnlyOne
  <2>1. \A e \in Clients : e # c => ~Displaced(e)
    BY <1>12, FocusTabSpares
  <2>2. QED
    BY <2>1 DEF OnlyOne
<1>13. ASSUME NEW g \in Geometries, NEW c \in Clients, NEW p \in Panes, FocusPane(c, p, g)
       PROVE  OnlyOne
  <2>1. \A e \in Clients : e # c => ~Displaced(e)
    BY <1>13, FocusPaneSpares
  <2>2. QED
    BY <2>1 DEF OnlyOne
<1>14. ASSUME NEW g \in Geometries, NEW c \in Clients, NEW p \in Panes, ToggleFullscreen(c, p, g)
       PROVE  OnlyOne
  <2>1. \A e \in Clients : e # c => ~Displaced(e)
    BY <1>14, ToggleSpares
  <2>2. QED
    BY <2>1 DEF OnlyOne
<1>15. ASSUME NEW g \in Geometries, NEW c \in Clients, NEW p \in Panes, NEW q \in Panes,
              SwapPanes(c, p, q, g)
       PROVE  OnlyOne
  <2>1. \A e \in Clients : e # c => ~Displaced(e)
    BY <1>15, SwapSpares
  <2>2. QED
    BY <2>1 DEF OnlyOne
<1>16. ASSUME NEW g \in Geometries, NEW c \in Clients, NEW p \in Panes, NEW u \in Tabs,
              NEW at \in 1 .. Cardinality(Panes), InsertPane(c, p, u, at, g)
       PROVE  OnlyOne
  <2>1. at \in Nat \ {0}
    OBVIOUS
  <2>2. \A e \in Clients : e # c => ~Displaced(e)
    BY <1>16, <2>1, InsertSpares
  <2>3. QED
    BY <2>2 DEF OnlyOne
<1>17. QED
  BY <1>1, <1>2, <1>3, <1>4, <1>5, <1>6, <1>7, <1>8, <1>9, <1>10, <1>11, <1>12, <1>13, <1>14,
     <1>15, <1>16 DEF Next

\* Clients do not steal each other's focus: no handler moves a client it does
\* not act for off a pane that client can still see, or off a tab that still
\* stands, but with the pane the client types in (hand_off_suppressed_focus,
\* repair_focus_after_pane_left, close_and_refocus_tab,
\* commit_cross_tab_placement).
THEOREM NoTheft == Spec => NoFocusTheft
<1>1. SessionInv /\ SessionInv' /\ [Next]_vars
        => [Cardinality({c \in Clients : Displaced(c)}) <= 1]_vars
  <2>1. SUFFICES ASSUME SessionInv, SessionInv', Next
                 PROVE  Cardinality({c \in Clients : Displaced(c)}) <= 1
    OBVIOUS
  <2>2. PICK a : \A e \in Clients : e # a => ~Displaced(e)
    BY <2>1, NextSpares DEF OnlyOne
  <2>3. PICK D : D = {c \in Clients : Displaced(c)}
    OBVIOUS
  <2>4. D \subseteq {a}
    BY <2>2, <2>3
  <2>5. Cardinality(D) <= 1
    BY <2>4, OneAtMost
  <2>6. QED
    BY <2>3, <2>5
<1>2. Spec => []SessionInv
  BY SessionInvariant
<1>3. QED
  BY <1>1, <1>2, PTL DEF Spec, NoFocusTheft
=============================================================================
