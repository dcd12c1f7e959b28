-------------------------- MODULE RouterGateProofs --------------------------
(***************************************************************************)
(* Proofs about RouterGate, for any finite set of connections and any      *)
(* bound on the reports of a due restart.                                  *)
(***************************************************************************)
EXTENDS RouterGate, FiniteSetTheorems, TLAPS

\* From the refusal of requests to the restart the intake stays closed to new
\* requests, and nothing waits.
RefusalIsFinal ==
  /\ routerPc = "refuse" => waiting = {} /\ isRestartPending /\ intake = "Restarting"
  /\ routerPc \in {"drain", "exec"} => intake # "Open"

\* The three parts of RequestsAreHeld.
OpenConns == {c \in Conns : connPc[c] # "none"}
CountIsExact == openCount = Cardinality(OpenConns)
AskedIsHeld ==
  \A c \in Conns :
    connPc[c] = "asked" <=> c \in waiting \/ \E i \in DOMAIN events : IsAsking(c, i)
HeldOnce ==
  \A c \in Conns : \A i, j \in DOMAIN events :
    IsAsking(c, i) => c \notin waiting /\ (IsAsking(c, j) => i = j)

GateInv == TypeOK /\ CountIsExact /\ AskedIsHeld /\ HeldOnce /\ RefusalIsFinal
             /\ NoRequestIsDropped

-----------------------------------------------------------------------------
(* Types *)

\* A request answered by the dispatcher keeps the types.
LEMMA ServeEventType ==
  ASSUME TypeOK, NEW e \in RouterEvents, ServeEvent(e)
  PROVE  /\ connPc' \in [Conns -> ConnPcs]
         /\ connAnswer' \in [Conns -> Answers]
         /\ waiting' \subseteq Conns
         /\ isRestartPending' \in BOOLEAN
         /\ hasSession' \in BOOLEAN
<1>1. CASE e.kind = "request"
  <2>1. e.conn \in Conns
    BY <1>1 DEF RouterEvents, AskEvent, RestartDue, SessionEnd
  <2>2. e # RestartDue /\ e # SessionEnd
    BY <1>1 DEF RestartDue, SessionEnd
  <2>3. ServeRequest(e.conn, e.asks) /\ UNCHANGED <<isRestartPending, hasSession>>
    BY <2>2 DEF ServeEvent
  <2>4. QED
    BY <2>1, <2>3 DEF ServeRequest, Answer, AnswersTo, TypeOK, ConnPcs, connVars
<1>2. CASE e.kind # "request"
  BY <1>2 DEF ServeEvent, TypeOK, connVars
<1>3. QED
  BY <1>1, <1>2

\* The head of the queue asks for a connection that waits for its answer.
LEMMA HeadIsAsked ==
  ASSUME TypeOK, AskedIsHeld, events # <<>>, Head(events).kind = "request"
  PROVE  Head(events).conn \in Conns /\ connPc[Head(events).conn] = "asked"
<1>1. Head(events) = events[1] /\ 1 \in DOMAIN events /\ events[1] \in RouterEvents
  BY DEF TypeOK
<1>2. events[1].conn \in Conns
  BY <1>1 DEF RouterEvents, AskEvent, RestartDue, SessionEnd
<1>3. QED
  BY <1>1, <1>2 DEF AskedIsHeld, IsAsking

\* Every step but an admission and an end leaves the open connections alone.
LEMMA CountStep ==
  ASSUME TypeOK, AskedIsHeld, CountIsExact, [Next]_vars
  PROVE  CountIsExact' /\ openCount' \in Nat
<1> USE DEF TypeOK
<1>1. OpenConns \subseteq Conns /\ IsFiniteSet(OpenConns)
  BY ConnsAssumption, FS_Subset DEF OpenConns
<1>2. ASSUME OpenConns' = OpenConns, openCount' = openCount
      PROVE  CountIsExact' /\ openCount' \in Nat
  BY <1>2 DEF CountIsExact
<1>3. ASSUME UNCHANGED <<connPc, openCount>> PROVE CountIsExact' /\ openCount' \in Nat
  BY <1>2, <1>3 DEF OpenConns
<1>4. ASSUME NEW c \in Conns, NEW pc \in ConnPcs \ {"none"}, connPc[c] # "none",
             connPc' = [connPc EXCEPT ![c] = pc], openCount' = openCount
      PROVE  CountIsExact' /\ openCount' \in Nat
  BY <1>2, <1>4 DEF OpenConns
<1>5. ASSUME NEW c \in Conns, AdmitConnection(c) PROVE CountIsExact' /\ openCount' \in Nat
  <2>1. OpenConns' = OpenConns \cup {c} /\ c \notin OpenConns
    BY <1>5 DEF AdmitConnection, OpenConns
  <2>2. Cardinality(OpenConns') = Cardinality(OpenConns) + 1
    BY <1>1, <2>1, FS_AddElement
  <2>3. QED
    BY <1>5, <2>2 DEF AdmitConnection, CountIsExact
<1>6. ASSUME NEW c \in Conns, EndConnection(c) PROVE CountIsExact' /\ openCount' \in Nat
  <2>1. OpenConns' = OpenConns \ {c} /\ c \in OpenConns
    BY <1>6 DEF EndConnection, OpenConns
  <2>2. IsFiniteSet(OpenConns') /\ Cardinality(OpenConns') = Cardinality(OpenConns) - 1
    BY <1>1, <2>1, FS_RemoveElement
  <2>3. Cardinality(OpenConns') \in Nat
    BY <2>2, FS_CardinalityType
  <2>4. QED
    BY <1>6, <2>2, <2>3 DEF EndConnection, CountIsExact
<1>7. ASSUME NEW c \in Conns, HangUp(c) PROVE CountIsExact' /\ openCount' \in Nat
  BY <1>4, <1>7 DEF HangUp, gateVars, ConnPcs
<1>8. ASSUME NEW c \in Conns, NEW k \in RequestKinds, AskDispatcher(c, k)
      PROVE  CountIsExact' /\ openCount' \in Nat
  BY <1>4, <1>8 DEF AskDispatcher, gateVars, ConnPcs
<1>9. ASSUME NEW c \in Conns, WriteAnswer(c) PROVE CountIsExact' /\ openCount' \in Nat
  BY <1>4, <1>9 DEF WriteAnswer, gateVars, ConnPcs
<1>10. ASSUME NEW c \in Conns, ReportRestart(c) PROVE CountIsExact' /\ openCount' \in Nat
  BY <1>4, <1>10 DEF ReportRestart, gateVars, ConnPcs
<1>11. CASE AdvanceWaiting
  <2>1. PICK answered \in SUBSET waiting :
          connPc' = [c \in Conns |-> IF c \in answered THEN "answered" ELSE connPc[c]]
    BY <1>11 DEF AdvanceWaiting
  <2>2. \A c \in answered : connPc[c] = "asked"
    BY DEF AskedIsHeld
  <2>3. OpenConns' = OpenConns
    BY <2>1, <2>2 DEF OpenConns
  <2>4. QED
    BY <1>2, <1>11, <2>3 DEF AdvanceWaiting, gateVars
<1>12. CASE ReceiveEvent
  <2>1. openCount' = openCount /\ ServeEvent(Head(events)) /\ events # <<>>
    BY <1>12 DEF ReceiveEvent, gateVars
  <2>2. CASE Head(events).kind = "request"
    <3>1. Head(events).conn \in Conns /\ connPc[Head(events).conn] = "asked"
      BY <2>1, <2>2, HeadIsAsked
    <3>2. ServeRequest(Head(events).conn, Head(events).asks)
      BY <2>1, <2>2 DEF ServeEvent, RestartDue, SessionEnd
    <3>3. QED
      BY <1>3, <1>4, <2>1, <3>1, <3>2 DEF ServeRequest, Answer, connVars, ConnPcs
  <2>3. CASE Head(events).kind # "request"
    BY <1>3, <2>1, <2>3 DEF ServeEvent, connVars
  <2>4. QED
    BY <2>2, <2>3
<1>13. CASE StartRefusing \/ GoOnServing \/ ReceiveTimeout \/ CloseIfUnused \/ LeaveLoop
  BY <1>3, <1>13 DEF StartRefusing, GoOnServing, ReceiveTimeout, CloseIfUnused, LeaveLoop,
                     connVars, gateVars
<1>14. CASE CloseOnceConnectionsEnd \/ ExecSucceeds \/ ReopenIntake \/ ChildReaperFails
  BY <1>3, <1>14 DEF CloseOnceConnectionsEnd, ExecSucceeds, ReopenIntake, ChildReaperFails,
                     connVars, gateVars
<1>15. CASE ProgramChanges \/ SessionEnds \/ UNCHANGED vars
  BY <1>3, <1>15 DEF ProgramChanges, SessionEnds, vars, connVars, gateVars
<1>16. QED
  BY <1>5, <1>6, <1>7, <1>8, <1>9, <1>10, <1>11, <1>12, <1>13, <1>14, <1>15
     DEF Next, Serving, Dispatcher

\* The type invariant is preserved, given that the count stays a number.
LEMMA TypeStep ==
  ASSUME TypeOK, [Next]_vars, openCount' \in Nat
  PROVE  TypeOK'
<1> USE DEF TypeOK, ConnPcs, Answers, Intakes, LoopPcs, EndPcs
<1>1. ASSUME NEW c \in Conns, AdmitConnection(c) PROVE TypeOK'
  BY <1>1 DEF AdmitConnection, loopVars
<1>2. ASSUME NEW c \in Conns, HangUp(c) PROVE TypeOK'
  BY <1>2 DEF HangUp, gateVars, loopVars
<1>3. ASSUME NEW c \in Conns, NEW k \in RequestKinds, AskDispatcher(c, k) PROVE TypeOK'
  <2>1. AskEvent(c, k) \in RouterEvents
    BY DEF RouterEvents
  <2>2. QED
    BY <1>3, <2>1, SMTT(60) DEF AskDispatcher, gateVars, loopVars
<1>4. ASSUME NEW c \in Conns, WriteAnswer(c) PROVE TypeOK'
  BY <1>4 DEF WriteAnswer, gateVars, loopVars
<1>5. ASSUME NEW c \in Conns, ReportRestart(c) PROVE TypeOK'
  BY <1>5 DEF ReportRestart, gateVars, loopVars, RouterEvents
<1>6. ASSUME NEW c \in Conns, EndConnection(c) PROVE TypeOK'
  BY <1>6 DEF EndConnection, loopVars
<1>7. CASE AdvanceWaiting
  BY <1>7 DEF AdvanceWaiting, gateVars
<1>8. CASE ReceiveEvent
  <2>1. Head(events) \in RouterEvents /\ Tail(events) \in Seq(RouterEvents)
    BY <1>8 DEF ReceiveEvent
  <2>2. /\ connPc' \in [Conns -> ConnPcs] /\ connAnswer' \in [Conns -> Answers]
        /\ waiting' \subseteq Conns
        /\ isRestartPending' \in BOOLEAN /\ hasSession' \in BOOLEAN
    BY <1>8, <2>1, ServeEventType DEF ReceiveEvent
  <2>3. QED
    BY <1>8, <2>1, <2>2 DEF ReceiveEvent, gateVars
<1>9. CASE StartRefusing \/ GoOnServing \/ ReceiveTimeout \/ CloseIfUnused \/ LeaveLoop
  BY <1>9 DEF StartRefusing, GoOnServing, ReceiveTimeout, CloseIfUnused, LeaveLoop,
              connVars, gateVars
<1>10. CASE CloseOnceConnectionsEnd \/ ExecSucceeds \/ ReopenIntake \/ ChildReaperFails
  BY <1>10 DEF CloseOnceConnectionsEnd, ExecSucceeds, ReopenIntake, ChildReaperFails,
               connVars, gateVars
<1>11. CASE ProgramChanges \/ SessionEnds
  <2>1. {RestartDue, SessionEnd} \subseteq RouterEvents
    BY DEF RouterEvents
  <2>2. \E e \in RouterEvents : events' = Append(events, e)
    BY <1>11, <2>1 DEF ProgramChanges, SessionEnds
  <2>3. events' \in Seq(RouterEvents)
    BY <2>2
  <2>4. QED
    BY <1>11, <2>3 DEF ProgramChanges, SessionEnds, connVars, gateVars, loopVars
<1>12. CASE UNCHANGED vars
  BY <1>12 DEF vars, connVars, gateVars, loopVars
<1>13. QED
  BY <1>12, <1>1, <1>2, <1>3, <1>4, <1>5, <1>6, <1>7, <1>8, <1>9, <1>10, <1>11
     DEF Next, Serving, Dispatcher

-----------------------------------------------------------------------------
(* Requests are held until they are answered *)

\* Queueing an event that is not a request changes nobody's request.
LEMMA HeldAfterNotice ==
  ASSUME TypeOK, AskedIsHeld, HeldOnce, NEW e \in {RestartDue, SessionEnd},
         events' = Append(events, e), waiting' = waiting,
         \A c \in Conns : connPc'[c] = "asked" <=> connPc[c] = "asked"
  PROVE  AskedIsHeld' /\ HeldOnce'
<1>1. Len(events') = Len(events) + 1 /\ Len(events) \in Nat
  BY DEF TypeOK
<1>2. \A i \in DOMAIN events' : i \in DOMAIN events => events'[i] = events[i]
  BY <1>1 DEF TypeOK
<1>3. \A i \in DOMAIN events' : i \notin DOMAIN events => events'[i].kind # "request"
  BY <1>1 DEF TypeOK, RestartDue, SessionEnd
<1>4. DOMAIN events \subseteq DOMAIN events'
  BY <1>1 DEF TypeOK
<1>5. QED
  BY <1>2, <1>3, <1>4 DEF AskedIsHeld, HeldOnce, IsAsking

\* Every step keeps each waiting connection's one request where the dispatcher
\* will find it.
LEMMA HeldStep ==
  ASSUME TypeOK, AskedIsHeld, HeldOnce, [Next]_vars
  PROVE  AskedIsHeld' /\ HeldOnce'
<1> USE DEF TypeOK
<1>1. ASSUME UNCHANGED <<events, waiting>>,
             \A c \in Conns : connPc'[c] = "asked" <=> connPc[c] = "asked"
      PROVE  AskedIsHeld' /\ HeldOnce'
  BY <1>1 DEF AskedIsHeld, HeldOnce, IsAsking
<1>2. ASSUME NEW c \in Conns,
             AdmitConnection(c) \/ HangUp(c) \/ WriteAnswer(c) \/ EndConnection(c)
      PROVE  AskedIsHeld' /\ HeldOnce'
  BY <1>1, <1>2 DEF AdmitConnection, HangUp, WriteAnswer, EndConnection, loopVars
<1>3. ASSUME NEW c \in Conns, NEW k \in RequestKinds, AskDispatcher(c, k)
      PROVE  AskedIsHeld' /\ HeldOnce'
  <2>1. CASE intake # "Open"
    BY <1>1, <1>3, <2>1 DEF AskDispatcher, loopVars
  <2>2. CASE intake = "Open"
    <3>1. /\ events' = Append(events, AskEvent(c, k)) /\ waiting' = waiting
          /\ connPc' = [connPc EXCEPT ![c] = "asked"] /\ connPc[c] # "asked"
      BY <1>3, <2>2 DEF AskDispatcher, loopVars
    <3>2. PICK n \in Nat : n = Len(events) + 1
      OBVIOUS
    <3>3. /\ DOMAIN events' = DOMAIN events \cup {n} /\ n \notin DOMAIN events
          /\ \A i \in DOMAIN events : events'[i] = events[i]
          /\ events'[n] = AskEvent(c, k)
      BY <3>1, <3>2
    <3>4. c \notin waiting /\ \A i \in DOMAIN events : ~IsAsking(c, i)
      BY <3>1 DEF AskedIsHeld
    <3>5. /\ \A d \in Conns, i \in DOMAIN events : IsAsking(d, i)' <=> IsAsking(d, i)
          /\ \A d \in Conns : IsAsking(d, n)' <=> d = c
      BY <3>3 DEF IsAsking, AskEvent
    <3>6. AskedIsHeld'
      BY <3>1, <3>2, <3>3, <3>4, <3>5 DEF AskedIsHeld
    <3>7. HeldOnce'
      BY <3>1, <3>2, <3>3, <3>4, <3>5 DEF HeldOnce
    <3>8. QED
      BY <3>6, <3>7
  <2>3. QED
    BY <2>1, <2>2
<1>4. ASSUME NEW c \in Conns, ReportRestart(c) PROVE AskedIsHeld' /\ HeldOnce'
  BY <1>4, HeldAfterNotice DEF ReportRestart, loopVars
<1>5. CASE AdvanceWaiting
  <2>1. PICK answered \in SUBSET waiting :
          /\ waiting' = waiting \ answered
          /\ connPc' = [c \in Conns |-> IF c \in answered THEN "answered" ELSE connPc[c]]
    BY <1>5 DEF AdvanceWaiting
  <2>2. events' = events
    BY <1>5 DEF AdvanceWaiting
  <2>3. \A c \in Conns, i \in DOMAIN events : IsAsking(c, i)' <=> IsAsking(c, i)
    BY <2>2 DEF IsAsking
  <2>4. \A c \in answered, i \in DOMAIN events : ~IsAsking(c, i)
    BY DEF HeldOnce
  <2>5. AskedIsHeld'
    BY <2>1, <2>2, <2>3, <2>4 DEF AskedIsHeld
  <2>6. HeldOnce'
    BY <2>1, <2>2, <2>3 DEF HeldOnce
  <2>7. QED
    BY <2>5, <2>6
<1>6. CASE ReceiveEvent
  <2>1. /\ events # <<>> /\ events' = Tail(events) /\ ServeEvent(Head(events))
        /\ Head(events) = events[1] /\ 1 \in DOMAIN events
    BY <1>6 DEF ReceiveEvent
  <2>2. /\ \A i \in DOMAIN events' : i + 1 \in DOMAIN events /\ events'[i] = events[i + 1]
        /\ \A j \in DOMAIN events : j = 1 \/ (j - 1 \in DOMAIN events' /\ events'[j - 1] = events[j])
    BY <2>1
  <2>3. \A d \in Conns, i \in DOMAIN events' : IsAsking(d, i)' <=> IsAsking(d, i + 1)
    BY <2>2 DEF IsAsking
  <2>4. \A d \in Conns : (\E j \in DOMAIN events : IsAsking(d, j))
                          <=> IsAsking(d, 1) \/ \E i \in DOMAIN events' : IsAsking(d, i)'
    <3> SUFFICES ASSUME NEW d \in Conns
                 PROVE  (\E j \in DOMAIN events : IsAsking(d, j))
                          <=> IsAsking(d, 1) \/ \E i \in DOMAIN events' : IsAsking(d, i)'
      OBVIOUS
    <3>1. ASSUME NEW j \in DOMAIN events, IsAsking(d, j)
          PROVE  IsAsking(d, 1) \/ \E i \in DOMAIN events' : IsAsking(d, i)'
      BY <2>2, <3>1 DEF IsAsking
    <3>2. ASSUME NEW i \in DOMAIN events', IsAsking(d, i)'
          PROVE  \E j \in DOMAIN events : IsAsking(d, j)
      BY <2>2, <2>3, <3>2
    <3>3. QED
      BY <2>1, <3>1, <3>2
  <2>5. CASE Head(events).kind = "request"
    <3>1. PICK c \in Conns : c = Head(events).conn /\ connPc[c] = "asked"
      BY <2>1, <2>5, HeadIsAsked
    <3>2. IsAsking(c, 1) /\ \A d \in Conns : IsAsking(d, 1) => d = c
      BY <2>1, <2>5, <3>1 DEF IsAsking
    <3>3. c \notin waiting /\ \A i \in DOMAIN events' : ~IsAsking(c, i)'
      <4>1. c \notin waiting /\ \A j \in DOMAIN events : IsAsking(c, j) => j = 1
        BY <2>1, <3>2 DEF HeldOnce
      <4>2. \A i \in DOMAIN events' : i + 1 # 1 /\ i + 1 \in DOMAIN events
        BY <2>1, <2>2
      <4>3. QED
        BY <2>3, <4>1, <4>2
    <3>4. ServeRequest(c, Head(events).asks)
      BY <2>1, <2>5, <3>1 DEF ServeEvent, RestartDue, SessionEnd
    <3>5. \/ /\ waiting' = waiting \cup {c} /\ connPc' = connPc
          \/ /\ waiting' = waiting /\ connPc' = [connPc EXCEPT ![c] = "answered"]
      BY <3>4 DEF ServeRequest, Answer, connVars
    <3>6. AskedIsHeld'
      BY <2>4, <3>1, <3>2, <3>3, <3>5 DEF AskedIsHeld
    <3>7. HeldOnce'
      <4> SUFFICES ASSUME NEW d \in Conns, NEW i \in DOMAIN events', NEW j \in DOMAIN events',
                          IsAsking(d, i)'
                   PROVE  d \notin waiting' /\ (IsAsking(d, j)' => i = j)
        BY DEF HeldOnce
      <4>1. d # c
        BY <3>3
      <4>2. i + 1 \in DOMAIN events /\ j + 1 \in DOMAIN events /\ IsAsking(d, i + 1)
        BY <2>2, <2>3
      <4>3. d \notin waiting /\ (IsAsking(d, j + 1) => i + 1 = j + 1)
        BY <4>2 DEF HeldOnce
      <4>4. IsAsking(d, j)' => i = j
        BY <2>1, <2>3, <4>3
      <4>5. QED
        BY <3>5, <4>1, <4>3, <4>4
    <3>8. QED
      BY <3>6, <3>7
  <2>6. CASE Head(events).kind # "request"
    <3>1. connPc' = connPc /\ waiting' = waiting
      BY <2>1, <2>6 DEF ServeEvent, connVars
    <3>2. \A d \in Conns : ~IsAsking(d, 1)
      BY <2>1, <2>6 DEF IsAsking
    <3>3. AskedIsHeld'
      BY <2>4, <3>1, <3>2 DEF AskedIsHeld
    <3>4. HeldOnce'
      <4> SUFFICES ASSUME NEW d \in Conns, NEW i \in DOMAIN events', NEW j \in DOMAIN events',
                          IsAsking(d, i)'
                   PROVE  d \notin waiting' /\ (IsAsking(d, j)' => i = j)
        BY DEF HeldOnce
      <4>1. i + 1 \in DOMAIN events /\ j + 1 \in DOMAIN events /\ IsAsking(d, i + 1)
        BY <2>2, <2>3
      <4>2. d \notin waiting /\ (IsAsking(d, j + 1) => i + 1 = j + 1)
        BY <4>1 DEF HeldOnce
      <4>3. QED
        BY <2>1, <2>3, <3>1, <4>2
    <3>5. QED
      BY <3>3, <3>4
  <2>7. QED
    BY <2>5, <2>6
<1>7. CASE StartRefusing \/ GoOnServing \/ ReceiveTimeout \/ CloseIfUnused \/ LeaveLoop
  BY <1>1, <1>7 DEF StartRefusing, GoOnServing, ReceiveTimeout, CloseIfUnused, LeaveLoop,
                    connVars, gateVars
<1>8. CASE CloseOnceConnectionsEnd \/ ExecSucceeds \/ ReopenIntake \/ ChildReaperFails
  BY <1>1, <1>8 DEF CloseOnceConnectionsEnd, ExecSucceeds, ReopenIntake, ChildReaperFails,
                    connVars, gateVars
<1>9. CASE ProgramChanges \/ SessionEnds
  BY <1>9, HeldAfterNotice DEF ProgramChanges, SessionEnds, connVars, loopVars
<1>10. CASE UNCHANGED vars
  BY <1>1, <1>10 DEF vars, connVars, loopVars
<1>11. QED
  BY <1>2, <1>3, <1>4, <1>5, <1>6, <1>7, <1>8, <1>9, <1>10 DEF Next, Serving, Dispatcher

-----------------------------------------------------------------------------
(* The dispatcher does not leave a request behind *)

\* Serving an event leaves a pending restart pending and, while one is, adds
\* nobody to the waiting requests; no connection starts to wait.
LEMMA ServeEventRefusal ==
  ASSUME TypeOK, isRestartPending, NEW e, ServeEvent(e)
  PROVE  isRestartPending' /\ waiting' = waiting
BY DEF ServeEvent, ServeRequest, JoinsWaiting, TypeOK

\* The intake stays refused from the refusal to the restart.
LEMMA RefusalStep ==
  ASSUME TypeOK, RefusalIsFinal, [Next]_vars
  PROVE  RefusalIsFinal'
<1> USE DEF RefusalIsFinal
<1>1. ASSUME NEW c \in Conns,
             \/ AdmitConnection(c) \/ HangUp(c) \/ WriteAnswer(c) \/ ReportRestart(c)
             \/ EndConnection(c) \/ \E k \in RequestKinds : AskDispatcher(c, k)
      PROVE  RefusalIsFinal'
  BY <1>1 DEF AdmitConnection, HangUp, WriteAnswer, ReportRestart, EndConnection,
              AskDispatcher, gateVars, loopVars
<1>2. CASE AdvanceWaiting \/ StartRefusing \/ GoOnServing \/ ReceiveTimeout \/ CloseIfUnused
  BY <1>2 DEF AdvanceWaiting, StartRefusing, GoOnServing, ReceiveTimeout, CloseIfUnused
<1>3. CASE ReceiveEvent
  BY <1>3, ServeEventRefusal DEF ReceiveEvent, gateVars
<1>4. CASE LeaveLoop \/ CloseOnceConnectionsEnd \/ ExecSucceeds \/ ReopenIntake
           \/ ChildReaperFails
  BY <1>4 DEF LeaveLoop, CloseOnceConnectionsEnd, ExecSucceeds, ReopenIntake,
              ChildReaperFails, gateVars
<1>5. CASE ProgramChanges \/ SessionEnds \/ UNCHANGED vars
  BY <1>5 DEF ProgramChanges, SessionEnds, vars, gateVars, loopVars
<1>6. QED
  BY <1>1, <1>2, <1>3, <1>4, <1>5 DEF Next, Serving, Dispatcher

\* The step that ends the dispatcher's serving finds no request.
LEMMA DroppedStep ==
  ASSUME GateInv, [Next]_vars
  PROVE  NoRequestIsDropped'
<1> USE DEF GateInv, NoRequestIsDropped
<1>1. ASSUME NEW c \in Conns,
             AdmitConnection(c) \/ HangUp(c) \/ WriteAnswer(c) \/ ReportRestart(c)
               \/ EndConnection(c)
      PROVE  NoRequestIsDropped'
  BY <1>1 DEF AdmitConnection, HangUp, WriteAnswer, ReportRestart, EndConnection, loopVars,
              TypeOK
<1>2. ASSUME NEW c \in Conns, NEW k \in RequestKinds, AskDispatcher(c, k)
      PROVE  NoRequestIsDropped'
  <2>1. routerPc' = routerPc /\ IsRunning
    BY <1>2 DEF AskDispatcher, loopVars
  <2>2. routerPc \in {"drain", "exec"} => intake # "Open"
    BY DEF RefusalIsFinal
  <2>3. QED
    BY <1>2, <2>1, <2>2 DEF AskDispatcher, IsRunning, EndPcs, TypeOK
<1>3. CASE AdvanceWaiting \/ StartRefusing \/ GoOnServing \/ ReceiveTimeout \/ ReceiveEvent
           \/ ReopenIntake \/ ChildReaperFails
  BY <1>3 DEF AdvanceWaiting, StartRefusing, GoOnServing, ReceiveTimeout, ReceiveEvent,
              ReopenIntake, ChildReaperFails
<1>4. CASE LeaveLoop
  <2>1. events = <<>> /\ waiting = {} /\ connPc' = connPc
    BY <1>4 DEF LeaveLoop, RefusalIsFinal, connVars
  <2>2. \A c \in Conns : connPc[c] # "asked"
    BY <2>1 DEF AskedIsHeld
  <2>3. QED
    BY <2>1, <2>2
<1>5. CASE CloseIfUnused
  <2>1. CASE openCount > 0
    BY <1>5, <2>1 DEF CloseIfUnused
  <2>2. CASE ~(openCount > 0)
    <3>1. Cardinality(OpenConns) = 0
      BY <2>2 DEF CountIsExact, TypeOK
    <3>2. OpenConns \subseteq Conns /\ IsFiniteSet(OpenConns)
      BY ConnsAssumption, FS_Subset DEF OpenConns
    <3>3. OpenConns = {}
      BY <3>1, <3>2, FS_EmptySet
    <3>4. \A c \in Conns : connPc[c] = "none"
      BY <3>3 DEF OpenConns
    <3>5. QED
      BY <1>5, <3>4 DEF CloseIfUnused, connVars
  <2>3. QED
    BY <2>1, <2>2
<1>6. CASE CloseOnceConnectionsEnd \/ ExecSucceeds
  BY <1>6 DEF CloseOnceConnectionsEnd, ExecSucceeds, connVars
<1>7. CASE ProgramChanges \/ SessionEnds \/ UNCHANGED vars
  BY <1>7 DEF ProgramChanges, SessionEnds, vars, connVars, loopVars
<1>8. QED
  BY <1>1, <1>2, <1>3, <1>4, <1>5, <1>6, <1>7 DEF Next, Serving, Dispatcher

-----------------------------------------------------------------------------
(* The theorems *)

\* The inductive invariant holds at first and is preserved.
LEMMA GateInduction == Init => GateInv
<1> SUFFICES ASSUME Init PROVE GateInv
  OBVIOUS
<1>1. TypeOK
  <2>1. connPc \in [Conns -> ConnPcs] /\ connAnswer \in [Conns -> Answers]
    BY DEF Init, ConnPcs, Answers
  <2>2. intake \in Intakes /\ routerPc \in LoopPcs \cup EndPcs
    BY DEF Init, Intakes, LoopPcs
  <2>3. openCount \in Nat /\ events \in Seq(RouterEvents) /\ waiting \subseteq Conns
    BY DEF Init
  <2>4. isRestartPending \in BOOLEAN /\ hasSession \in BOOLEAN
    BY DEF Init
  <2>5. QED
    BY <2>1, <2>2, <2>3, <2>4 DEF TypeOK
<1>2. OpenConns = {}
  BY DEF Init, OpenConns
<1>3. CountIsExact
  BY <1>2, FS_EmptySet DEF Init, CountIsExact
<1>4. AskedIsHeld /\ HeldOnce
  BY DEF Init, AskedIsHeld, HeldOnce
<1>5. QED
  BY <1>1, <1>3, <1>4 DEF Init, GateInv, RefusalIsFinal, NoRequestIsDropped

\* The invariant is inductive.
LEMMA GateStep == GateInv /\ [Next]_vars => GateInv'
<1> SUFFICES ASSUME GateInv, [Next]_vars PROVE GateInv'
  OBVIOUS
<1>1. TypeOK /\ CountIsExact /\ AskedIsHeld /\ HeldOnce /\ RefusalIsFinal
  BY DEF GateInv
<1>2. CountIsExact' /\ openCount' \in Nat
  BY <1>1, CountStep
<1>3. TypeOK'
  BY <1>1, <1>2, TypeStep
<1>4. AskedIsHeld' /\ HeldOnce'
  BY <1>1, HeldStep
<1>5. RefusalIsFinal'
  BY <1>1, RefusalStep
<1>6. NoRequestIsDropped'
  BY DroppedStep
<1>7. QED
  BY <1>2, <1>3, <1>4, <1>5, <1>6 DEF GateInv

\* Every reachable state of the gate has its types, whatever the connections
\* do: in particular the count of open connections never goes below zero.
THEOREM TypeCorrect == Spec => []TypeOK
<1>1. GateInv => TypeOK
  BY DEF GateInv
<1>2. QED
  BY <1>1, GateInduction, GateStep, PTL DEF Spec

\* The count of open connections is exact, and a serving thread waits exactly
\* while its one request is in the dispatcher's hands.
THEOREM RequestsHeld == Spec => []RequestsAreHeld
<1>1. GateInv => RequestsAreHeld
  BY DEF GateInv, RequestsAreHeld, CountIsExact, OpenConns, AskedIsHeld, HeldOnce
<1>2. QED
  BY <1>1, GateInduction, GateStep, PTL DEF Spec

\* A restart, an idle end and the image that follows never leave a client
\* waiting for an answer that will not come.
THEOREM NothingDropped == Spec => []NoRequestIsDropped
<1>1. GateInv => NoRequestIsDropped
  BY DEF GateInv
<1>2. QED
  BY <1>1, GateInduction, GateStep, PTL DEF Spec
=============================================================================
