------------------------ MODULE ExitHandoverProofs ------------------------
(***************************************************************************)
(* Proofs about ExitHandover, for any kinds of terminal and any bound on   *)
(* the output a terminal holds.                                            *)
(***************************************************************************)
EXTENDS ExitHandover, TLAPS

\* A chunk counts as in flight exactly from its claim to its release.
FlightIsTheReaders ==
  inFlight = IF readerPc \in {"consume", "accepted", "refused"} THEN 1 ELSE 0

\* The exit is told, or claimed by the thread about to tell it, at most once
\* in all, and only once it is settled.
OneTeller ==
  /\ told \in {0, 1}
  /\ told = 1 => isSettled /\ readerPc # "tell" /\ watcherPc # "tell"
  /\ readerPc = "tell" => isSettled /\ watcherPc # "tell"
  /\ watcherPc = "tell" => isSettled

\* A close has settled the exit before it goes on, and a close that runs on
\* the watcher finds it inside the consumer's call.
CloseIsSettled ==
  /\ killPc \notin {"none", "settle"} => isSettled
  /\ killer = "watcher" /\ killPc # "returned" => watcherPc = "telling"
  /\ isCancelSent => killPc # "none"

\* Until the exit is recorded the watcher is at its wait, and it gives up the
\* telling only when the exit is settled or the pane is being closed.
WatcherIsInOrder ==
  /\ ~isRecorded => watcherPc \in {"wait", "record"}
  /\ watcherPc = "settleOnly" => isSettled \/ killPc # "none"

HandoverInv ==
  /\ TypeOK /\ FlightIsTheReaders /\ OneTeller /\ CloseIsSettled /\ WatcherIsInOrder
  /\ ExitIsNotSwallowed /\ ClosedWatcherIsSilent

-----------------------------------------------------------------------------
(* Each part is preserved by every step *)

\* What the watcher does after the exit is recorded, on each kind of terminal.
LEMMA TailType ==
  ASSUME TypeOK
  PROVE  WatcherTail \in {"done", "standby", "readAgain"}
<1>1. kind \in {"owned", "blocking", "console"}
  BY KindsAssumption DEF TypeOK
<1>2. QED
  BY <1>1 DEF WatcherTail

\* Every step keeps the types; the count of chunks in flight stays at one
\* because only the reader claims and releases.
LEMMA TypeStep ==
  ASSUME TypeOK, FlightIsTheReaders, [Next]_vars
  PROVE  TypeOK'
<1> USE PendingAssumption DEF TypeOK, FlightIsTheReaders, ReaderPcs, WatcherPcs, KillPcs,
      childVars, handoverVars, signalVars, timeVars, killVars
<1>1. CASE ChildForks
  BY <1>1 DEF ChildForks
<1>2. CASE ChildPrints
  BY <1>2 DEF ChildPrints
<1>3. CASE ChildEnds
  <2>1. isRunning' \in BOOLEAN
    BY <1>3, Zenon DEF ChildEnds
  <2>2. QED
    BY <1>3, <2>1 DEF ChildEnds
<1>4. CASE DescendantsEnd
  <2>1. isShared' \in BOOLEAN
    BY <1>4, Zenon DEF DescendantsEnd
  <2>2. QED
    BY <1>4, <2>1 DEF DescendantsEnd
<1>5. CASE LimitPasses
  BY <1>5 DEF LimitPasses
<1>6. CASE PumpReads
  BY <1>6 DEF PumpReads
<1>7. CASE PumpRung
  <2>1. isRung' \in BOOLEAN /\ hasGrace' \in BOOLEAN
    BY <1>7, Zenon DEF PumpRung
  <2>2. QED
    BY <1>7, <2>1 DEF PumpRung
<1>8. CASE PumpRoundsEnd
  BY <1>8 DEF PumpRoundsEnd
<1>9. CASE BlockingReads
  BY <1>9 DEF BlockingReads
<1>10. CASE ReadsEnd
  BY <1>10 DEF ReadsEnd
<1>11. CASE ClaimChunk
  BY <1>11 DEF ClaimChunk, AfterRefusal
<1>12. CASE ConsumerAnswers
  BY <1>12 DEF ConsumerAnswers
<1>13. CASE FinishChunk
  <2>1. inFlight' \in 0 .. 1 /\ readerPc' \in ReaderPcs
    BY <1>13 DEF FinishChunk, AfterRefusal
  <2>2. isSettled' \in BOOLEAN /\ isRefused' \in BOOLEAN
    BY <1>13, Zenon DEF FinishChunk
  <2>3. QED
    BY <1>13, <2>1, <2>2 DEF FinishChunk
<1>14. CASE LetGo
  BY <1>14 DEF LetGo
<1>15. CASE Discard
  BY <1>15 DEF Discard
<1>16. CASE ReaderEnds
  BY <1>16 DEF ReaderEnds
<1>17. CASE ReaderReceives
  BY <1>17 DEF ReaderReceives
<1>18. CASE ReaderSettles
  BY <1>18 DEF ReaderSettles
<1>19. CASE ReaderTells
  BY <1>19 DEF ReaderTells
<1>20. CASE ReaderTold
  BY <1>20 DEF ReaderTold
<1>21. CASE WatchChild
  BY <1>21 DEF WatchChild
<1>22. CASE WatchRecord
  BY <1>22 DEF WatchRecord
<1>23. CASE WatchSend
  BY <1>23 DEF WatchSend
<1>24. CASE WatchRing
  BY <1>24, TailType DEF WatchRing
<1>25. CASE WatchReadAgain
  <2>1. isRung' \in BOOLEAN /\ isCancelSent' \in BOOLEAN
    BY <1>25, Zenon DEF WatchReadAgain, IsCancelled
  <2>2. QED
    BY <1>25, <2>1 DEF WatchReadAgain, IsCancelled
<1>26. CASE WatchClose
  BY <1>26 DEF WatchClose
<1>27. CASE StandbyCancelled
  <2>1. isCancelSent' \in BOOLEAN
    BY <1>27, Zenon DEF StandbyCancelled, IsCancelled
  <2>2. QED
    BY <1>27, <2>1 DEF StandbyCancelled, IsCancelled
<1>28. CASE StandbyChecks
  BY <1>28 DEF StandbyChecks, IsCancelled
<1>29. CASE WatchSettles
  BY <1>29 DEF WatchSettles
<1>30. CASE WatchTells
  BY <1>30 DEF WatchTells
<1>31. CASE WatchTold
  BY <1>31 DEF WatchTold
<1>32. CASE ConsoleCloses
  BY <1>32 DEF ConsoleCloses
<1>33. CASE KillStarts
  BY <1>33 DEF KillStarts
<1>34. CASE KillSettles
  BY <1>34 DEF KillSettles
<1>35. CASE KillReleases
  BY <1>35 DEF KillReleases
<1>36. CASE KillCancels
  BY <1>36 DEF KillCancels
<1>37. CASE KillWaits
  BY <1>37 DEF KillWaits
<1>38. CASE KillJoins
  BY <1>38 DEF KillJoins
<1>39. CASE UNCHANGED vars
  BY <1>39 DEF vars
<1>40. QED
  BY <1>1, <1>2, <1>3, <1>4, <1>5, <1>6, <1>7, <1>8, <1>9, <1>10, <1>11, <1>12,
     <1>13, <1>14, <1>15, <1>16, <1>17, <1>18, <1>19, <1>20, <1>21, <1>22,
     <1>23, <1>24, <1>25, <1>26, <1>27, <1>28, <1>29, <1>30, <1>31, <1>32,
     <1>33, <1>34, <1>35, <1>36, <1>37, <1>38, <1>39
     DEF Next, WorldStep, ReaderStep, WatcherStep, KillStep

\* Every step keeps the chunk in flight with the reader.
LEMMA FlightStep ==
  ASSUME TypeOK, FlightIsTheReaders, [Next]_vars
  PROVE  FlightIsTheReaders'
<1> USE DEF TypeOK, FlightIsTheReaders, childVars, handoverVars, signalVars, timeVars, killVars
<1>1. CASE ChildForks
  BY <1>1 DEF ChildForks
<1>2. CASE ChildPrints
  BY <1>2 DEF ChildPrints
<1>3. CASE ChildEnds
  BY <1>3 DEF ChildEnds
<1>4. CASE DescendantsEnd
  BY <1>4 DEF DescendantsEnd
<1>5. CASE LimitPasses
  BY <1>5 DEF LimitPasses
<1>6. CASE PumpReads
  BY <1>6 DEF PumpReads
<1>7. CASE PumpRung
  BY <1>7 DEF PumpRung
<1>8. CASE PumpRoundsEnd
  BY <1>8 DEF PumpRoundsEnd
<1>9. CASE BlockingReads
  BY <1>9 DEF BlockingReads
<1>10. CASE ReadsEnd
  BY <1>10 DEF ReadsEnd
<1>11. CASE ClaimChunk
  BY <1>11 DEF ClaimChunk, AfterRefusal
<1>12. CASE ConsumerAnswers
  BY <1>12 DEF ConsumerAnswers
<1>13. CASE FinishChunk
  BY <1>13 DEF FinishChunk, AfterRefusal
<1>14. CASE LetGo
  BY <1>14 DEF LetGo
<1>15. CASE Discard
  BY <1>15 DEF Discard
<1>16. CASE ReaderEnds
  BY <1>16 DEF ReaderEnds
<1>17. CASE ReaderReceives
  BY <1>17 DEF ReaderReceives
<1>18. CASE ReaderSettles
  BY <1>18 DEF ReaderSettles
<1>19. CASE ReaderTells
  BY <1>19 DEF ReaderTells
<1>20. CASE ReaderTold
  BY <1>20 DEF ReaderTold
<1>21. CASE WatchChild
  BY <1>21 DEF WatchChild
<1>22. CASE WatchRecord
  BY <1>22 DEF WatchRecord
<1>23. CASE WatchSend
  BY <1>23 DEF WatchSend
<1>24. CASE WatchRing
  BY <1>24, TailType DEF WatchRing
<1>25. CASE WatchReadAgain
  BY <1>25 DEF WatchReadAgain, IsCancelled
<1>26. CASE WatchClose
  BY <1>26 DEF WatchClose
<1>27. CASE StandbyCancelled
  BY <1>27 DEF StandbyCancelled, IsCancelled
<1>28. CASE StandbyChecks
  BY <1>28 DEF StandbyChecks, IsCancelled
<1>29. CASE WatchSettles
  BY <1>29 DEF WatchSettles
<1>30. CASE WatchTells
  BY <1>30 DEF WatchTells
<1>31. CASE WatchTold
  BY <1>31 DEF WatchTold
<1>32. CASE ConsoleCloses
  BY <1>32 DEF ConsoleCloses
<1>33. CASE KillStarts
  BY <1>33 DEF KillStarts
<1>34. CASE KillSettles
  BY <1>34 DEF KillSettles
<1>35. CASE KillReleases
  BY <1>35 DEF KillReleases
<1>36. CASE KillCancels
  BY <1>36 DEF KillCancels
<1>37. CASE KillWaits
  BY <1>37 DEF KillWaits
<1>38. CASE KillJoins
  BY <1>38 DEF KillJoins
<1>39. CASE UNCHANGED vars
  BY <1>39 DEF vars
<1>40. QED
  BY <1>1, <1>2, <1>3, <1>4, <1>5, <1>6, <1>7, <1>8, <1>9, <1>10, <1>11, <1>12,
     <1>13, <1>14, <1>15, <1>16, <1>17, <1>18, <1>19, <1>20, <1>21, <1>22,
     <1>23, <1>24, <1>25, <1>26, <1>27, <1>28, <1>29, <1>30, <1>31, <1>32,
     <1>33, <1>34, <1>35, <1>36, <1>37, <1>38, <1>39
     DEF Next, WorldStep, ReaderStep, WatcherStep, KillStep

\* Every step keeps the exit told, or about to be told, by one thread.
LEMMA TellerStep ==
  ASSUME TypeOK, OneTeller, [Next]_vars
  PROVE  OneTeller'
<1> USE DEF TypeOK, OneTeller, childVars, handoverVars, signalVars, timeVars, killVars
<1>1. CASE ChildForks
  BY <1>1 DEF ChildForks
<1>2. CASE ChildPrints
  BY <1>2 DEF ChildPrints
<1>3. CASE ChildEnds
  BY <1>3 DEF ChildEnds
<1>4. CASE DescendantsEnd
  BY <1>4 DEF DescendantsEnd
<1>5. CASE LimitPasses
  BY <1>5 DEF LimitPasses
<1>6. CASE PumpReads
  BY <1>6 DEF PumpReads
<1>7. CASE PumpRung
  BY <1>7 DEF PumpRung
<1>8. CASE PumpRoundsEnd
  BY <1>8 DEF PumpRoundsEnd
<1>9. CASE BlockingReads
  BY <1>9 DEF BlockingReads
<1>10. CASE ReadsEnd
  BY <1>10 DEF ReadsEnd
<1>11. CASE ClaimChunk
  BY <1>11 DEF ClaimChunk, AfterRefusal
<1>12. CASE ConsumerAnswers
  BY <1>12 DEF ConsumerAnswers
<1>13. CASE FinishChunk
  BY <1>13 DEF FinishChunk, AfterRefusal
<1>14. CASE LetGo
  BY <1>14 DEF LetGo
<1>15. CASE Discard
  BY <1>15 DEF Discard
<1>16. CASE ReaderEnds
  BY <1>16 DEF ReaderEnds
<1>17. CASE ReaderReceives
  BY <1>17 DEF ReaderReceives
<1>18. CASE ReaderSettles
  BY <1>18 DEF ReaderSettles
<1>19. CASE ReaderTells
  BY <1>19 DEF ReaderTells
<1>20. CASE ReaderTold
  BY <1>20 DEF ReaderTold
<1>21. CASE WatchChild
  BY <1>21 DEF WatchChild
<1>22. CASE WatchRecord
  BY <1>22 DEF WatchRecord
<1>23. CASE WatchSend
  BY <1>23 DEF WatchSend
<1>24. CASE WatchRing
  BY <1>24, TailType DEF WatchRing
<1>25. CASE WatchReadAgain
  BY <1>25 DEF WatchReadAgain, IsCancelled
<1>26. CASE WatchClose
  BY <1>26 DEF WatchClose
<1>27. CASE StandbyCancelled
  BY <1>27 DEF StandbyCancelled, IsCancelled
<1>28. CASE StandbyChecks
  BY <1>28 DEF StandbyChecks, IsCancelled
<1>29. CASE WatchSettles
  BY <1>29 DEF WatchSettles
<1>30. CASE WatchTells
  BY <1>30 DEF WatchTells
<1>31. CASE WatchTold
  BY <1>31 DEF WatchTold
<1>32. CASE ConsoleCloses
  BY <1>32 DEF ConsoleCloses
<1>33. CASE KillStarts
  BY <1>33 DEF KillStarts
<1>34. CASE KillSettles
  BY <1>34 DEF KillSettles
<1>35. CASE KillReleases
  BY <1>35 DEF KillReleases
<1>36. CASE KillCancels
  BY <1>36 DEF KillCancels
<1>37. CASE KillWaits
  BY <1>37 DEF KillWaits
<1>38. CASE KillJoins
  BY <1>38 DEF KillJoins
<1>39. CASE UNCHANGED vars
  BY <1>39 DEF vars
<1>40. QED
  BY <1>1, <1>2, <1>3, <1>4, <1>5, <1>6, <1>7, <1>8, <1>9, <1>10, <1>11, <1>12,
     <1>13, <1>14, <1>15, <1>16, <1>17, <1>18, <1>19, <1>20, <1>21, <1>22,
     <1>23, <1>24, <1>25, <1>26, <1>27, <1>28, <1>29, <1>30, <1>31, <1>32,
     <1>33, <1>34, <1>35, <1>36, <1>37, <1>38, <1>39
     DEF Next, WorldStep, ReaderStep, WatcherStep, KillStep

\* Every step keeps a close behind the settled exit.
LEMMA CloseStep ==
  ASSUME TypeOK, CloseIsSettled, [Next]_vars
  PROVE  CloseIsSettled'
<1> USE DEF TypeOK, CloseIsSettled, KillPcs, childVars, handoverVars, signalVars, timeVars,
      killVars
<1>1. CASE ChildForks
  BY <1>1 DEF ChildForks
<1>2. CASE ChildPrints
  BY <1>2 DEF ChildPrints
<1>3. CASE ChildEnds
  BY <1>3 DEF ChildEnds
<1>4. CASE DescendantsEnd
  BY <1>4 DEF DescendantsEnd
<1>5. CASE LimitPasses
  BY <1>5 DEF LimitPasses
<1>6. CASE PumpReads
  BY <1>6 DEF PumpReads
<1>7. CASE PumpRung
  BY <1>7 DEF PumpRung
<1>8. CASE PumpRoundsEnd
  BY <1>8 DEF PumpRoundsEnd
<1>9. CASE BlockingReads
  BY <1>9 DEF BlockingReads
<1>10. CASE ReadsEnd
  BY <1>10 DEF ReadsEnd
<1>11. CASE ClaimChunk
  BY <1>11 DEF ClaimChunk, AfterRefusal
<1>12. CASE ConsumerAnswers
  BY <1>12 DEF ConsumerAnswers
<1>13. CASE FinishChunk
  BY <1>13 DEF FinishChunk, AfterRefusal
<1>14. CASE LetGo
  BY <1>14 DEF LetGo
<1>15. CASE Discard
  BY <1>15 DEF Discard
<1>16. CASE ReaderEnds
  BY <1>16 DEF ReaderEnds
<1>17. CASE ReaderReceives
  BY <1>17 DEF ReaderReceives
<1>18. CASE ReaderSettles
  BY <1>18 DEF ReaderSettles
<1>19. CASE ReaderTells
  BY <1>19 DEF ReaderTells
<1>20. CASE ReaderTold
  BY <1>20 DEF ReaderTold
<1>21. CASE WatchChild
  BY <1>21 DEF WatchChild
<1>22. CASE WatchRecord
  BY <1>22 DEF WatchRecord
<1>23. CASE WatchSend
  BY <1>23 DEF WatchSend
<1>24. CASE WatchRing
  BY <1>24, TailType DEF WatchRing
<1>25. CASE WatchReadAgain
  BY <1>25 DEF WatchReadAgain, IsCancelled
<1>26. CASE WatchClose
  BY <1>26 DEF WatchClose
<1>27. CASE StandbyCancelled
  BY <1>27 DEF StandbyCancelled, IsCancelled
<1>28. CASE StandbyChecks
  BY <1>28 DEF StandbyChecks, IsCancelled
<1>29. CASE WatchSettles
  BY <1>29 DEF WatchSettles
<1>30. CASE WatchTells
  BY <1>30 DEF WatchTells
<1>31. CASE WatchTold
  BY <1>31 DEF WatchTold
<1>32. CASE ConsoleCloses
  BY <1>32 DEF ConsoleCloses
<1>33. CASE KillStarts
  BY <1>33 DEF KillStarts
<1>34. CASE KillSettles
  BY <1>34 DEF KillSettles
<1>35. CASE KillReleases
  BY <1>35 DEF KillReleases
<1>36. CASE KillCancels
  BY <1>36 DEF KillCancels
<1>37. CASE KillWaits
  BY <1>37 DEF KillWaits
<1>38. CASE KillJoins
  BY <1>38 DEF KillJoins
<1>39. CASE UNCHANGED vars
  BY <1>39 DEF vars
<1>40. QED
  BY <1>1, <1>2, <1>3, <1>4, <1>5, <1>6, <1>7, <1>8, <1>9, <1>10, <1>11, <1>12,
     <1>13, <1>14, <1>15, <1>16, <1>17, <1>18, <1>19, <1>20, <1>21, <1>22,
     <1>23, <1>24, <1>25, <1>26, <1>27, <1>28, <1>29, <1>30, <1>31, <1>32,
     <1>33, <1>34, <1>35, <1>36, <1>37, <1>38, <1>39
     DEF Next, WorldStep, ReaderStep, WatcherStep, KillStep

\* Every step keeps the watcher in the order of its waits.
LEMMA WatcherStepInOrder ==
  ASSUME TypeOK, CloseIsSettled, WatcherIsInOrder, [Next]_vars
  PROVE  WatcherIsInOrder'
<1> USE DEF TypeOK, CloseIsSettled, WatcherIsInOrder, childVars, handoverVars, signalVars,
      timeVars, killVars
<1>1. CASE ChildForks
  BY <1>1 DEF ChildForks
<1>2. CASE ChildPrints
  BY <1>2 DEF ChildPrints
<1>3. CASE ChildEnds
  BY <1>3 DEF ChildEnds
<1>4. CASE DescendantsEnd
  BY <1>4 DEF DescendantsEnd
<1>5. CASE LimitPasses
  BY <1>5 DEF LimitPasses
<1>6. CASE PumpReads
  BY <1>6 DEF PumpReads
<1>7. CASE PumpRung
  BY <1>7 DEF PumpRung
<1>8. CASE PumpRoundsEnd
  BY <1>8 DEF PumpRoundsEnd
<1>9. CASE BlockingReads
  BY <1>9 DEF BlockingReads
<1>10. CASE ReadsEnd
  BY <1>10 DEF ReadsEnd
<1>11. CASE ClaimChunk
  BY <1>11 DEF ClaimChunk, AfterRefusal
<1>12. CASE ConsumerAnswers
  BY <1>12 DEF ConsumerAnswers
<1>13. CASE FinishChunk
  BY <1>13 DEF FinishChunk, AfterRefusal
<1>14. CASE LetGo
  BY <1>14 DEF LetGo
<1>15. CASE Discard
  BY <1>15 DEF Discard
<1>16. CASE ReaderEnds
  BY <1>16 DEF ReaderEnds
<1>17. CASE ReaderReceives
  BY <1>17 DEF ReaderReceives
<1>18. CASE ReaderSettles
  BY <1>18 DEF ReaderSettles
<1>19. CASE ReaderTells
  BY <1>19 DEF ReaderTells
<1>20. CASE ReaderTold
  BY <1>20 DEF ReaderTold
<1>21. CASE WatchChild
  BY <1>21 DEF WatchChild
<1>22. CASE WatchRecord
  BY <1>22 DEF WatchRecord
<1>23. CASE WatchSend
  BY <1>23 DEF WatchSend
<1>24. CASE WatchRing
  BY <1>24, TailType DEF WatchRing
<1>25. CASE WatchReadAgain
  BY <1>25 DEF WatchReadAgain, IsCancelled
<1>26. CASE WatchClose
  BY <1>26 DEF WatchClose
<1>27. CASE StandbyCancelled
  BY <1>27 DEF StandbyCancelled, IsCancelled
<1>28. CASE StandbyChecks
  BY <1>28 DEF StandbyChecks, IsCancelled
<1>29. CASE WatchSettles
  BY <1>29 DEF WatchSettles
<1>30. CASE WatchTells
  BY <1>30 DEF WatchTells
<1>31. CASE WatchTold
  BY <1>31 DEF WatchTold
<1>32. CASE ConsoleCloses
  BY <1>32 DEF ConsoleCloses
<1>33. CASE KillStarts
  BY <1>33 DEF KillStarts
<1>34. CASE KillSettles
  BY <1>34 DEF KillSettles
<1>35. CASE KillReleases
  BY <1>35 DEF KillReleases
<1>36. CASE KillCancels
  BY <1>36 DEF KillCancels
<1>37. CASE KillWaits
  BY <1>37 DEF KillWaits
<1>38. CASE KillJoins
  BY <1>38 DEF KillJoins
<1>39. CASE UNCHANGED vars
  BY <1>39 DEF vars
<1>40. QED
  BY <1>1, <1>2, <1>3, <1>4, <1>5, <1>6, <1>7, <1>8, <1>9, <1>10, <1>11, <1>12,
     <1>13, <1>14, <1>15, <1>16, <1>17, <1>18, <1>19, <1>20, <1>21, <1>22,
     <1>23, <1>24, <1>25, <1>26, <1>27, <1>28, <1>29, <1>30, <1>31, <1>32,
     <1>33, <1>34, <1>35, <1>36, <1>37, <1>38, <1>39
     DEF Next, WorldStep, ReaderStep, WatcherStep, KillStep

\* No step settles an exit that nobody will tell, but a close and a refusal.
LEMMA SwallowStep ==
  ASSUME TypeOK, OneTeller, WatcherIsInOrder, ExitIsNotSwallowed, [Next]_vars
  PROVE  ExitIsNotSwallowed'
<1> USE DEF TypeOK, OneTeller, WatcherIsInOrder, ExitIsNotSwallowed, childVars, handoverVars,
      signalVars, timeVars, killVars
<1>1. CASE ChildForks
  BY <1>1 DEF ChildForks
<1>2. CASE ChildPrints
  BY <1>2 DEF ChildPrints
<1>3. CASE ChildEnds
  BY <1>3 DEF ChildEnds
<1>4. CASE DescendantsEnd
  BY <1>4 DEF DescendantsEnd
<1>5. CASE LimitPasses
  BY <1>5 DEF LimitPasses
<1>6. CASE PumpReads
  BY <1>6 DEF PumpReads
<1>7. CASE PumpRung
  BY <1>7 DEF PumpRung
<1>8. CASE PumpRoundsEnd
  BY <1>8 DEF PumpRoundsEnd
<1>9. CASE BlockingReads
  BY <1>9 DEF BlockingReads
<1>10. CASE ReadsEnd
  BY <1>10 DEF ReadsEnd
<1>11. CASE ClaimChunk
  BY <1>11 DEF ClaimChunk, AfterRefusal
<1>12. CASE ConsumerAnswers
  BY <1>12 DEF ConsumerAnswers
<1>13. CASE FinishChunk
  BY <1>13 DEF FinishChunk, AfterRefusal
<1>14. CASE LetGo
  BY <1>14 DEF LetGo
<1>15. CASE Discard
  BY <1>15 DEF Discard
<1>16. CASE ReaderEnds
  BY <1>16 DEF ReaderEnds
<1>17. CASE ReaderReceives
  BY <1>17 DEF ReaderReceives
<1>18. CASE ReaderSettles
  BY <1>18 DEF ReaderSettles
<1>19. CASE ReaderTells
  BY <1>19 DEF ReaderTells
<1>20. CASE ReaderTold
  BY <1>20 DEF ReaderTold
<1>21. CASE WatchChild
  BY <1>21 DEF WatchChild
<1>22. CASE WatchRecord
  BY <1>22 DEF WatchRecord
<1>23. CASE WatchSend
  BY <1>23 DEF WatchSend
<1>24. CASE WatchRing
  BY <1>24, TailType DEF WatchRing
<1>25. CASE WatchReadAgain
  BY <1>25 DEF WatchReadAgain, IsCancelled
<1>26. CASE WatchClose
  BY <1>26 DEF WatchClose
<1>27. CASE StandbyCancelled
  BY <1>27 DEF StandbyCancelled, IsCancelled
<1>28. CASE StandbyChecks
  BY <1>28 DEF StandbyChecks, IsCancelled
<1>29. CASE WatchSettles
  BY <1>29 DEF WatchSettles
<1>30. CASE WatchTells
  BY <1>30 DEF WatchTells
<1>31. CASE WatchTold
  BY <1>31 DEF WatchTold
<1>32. CASE ConsoleCloses
  BY <1>32 DEF ConsoleCloses
<1>33. CASE KillStarts
  BY <1>33 DEF KillStarts
<1>34. CASE KillSettles
  BY <1>34 DEF KillSettles
<1>35. CASE KillReleases
  BY <1>35 DEF KillReleases
<1>36. CASE KillCancels
  BY <1>36 DEF KillCancels
<1>37. CASE KillWaits
  BY <1>37 DEF KillWaits
<1>38. CASE KillJoins
  BY <1>38 DEF KillJoins
<1>39. CASE UNCHANGED vars
  BY <1>39 DEF vars
<1>40. QED
  BY <1>1, <1>2, <1>3, <1>4, <1>5, <1>6, <1>7, <1>8, <1>9, <1>10, <1>11, <1>12,
     <1>13, <1>14, <1>15, <1>16, <1>17, <1>18, <1>19, <1>20, <1>21, <1>22,
     <1>23, <1>24, <1>25, <1>26, <1>27, <1>28, <1>29, <1>30, <1>31, <1>32,
     <1>33, <1>34, <1>35, <1>36, <1>37, <1>38, <1>39
     DEF Next, WorldStep, ReaderStep, WatcherStep, KillStep

\* No step takes the watcher of a closed pane to its call of the consumer.
LEMMA SilentStep ==
  ASSUME TypeOK, CloseIsSettled, WatcherIsInOrder, ClosedWatcherIsSilent, [Next]_vars
  PROVE  ClosedWatcherIsSilent'
<1> USE DEF TypeOK, CloseIsSettled, WatcherIsInOrder, ClosedWatcherIsSilent, childVars,
      handoverVars, signalVars, timeVars, killVars
<1>1. CASE ChildForks
  BY <1>1 DEF ChildForks
<1>2. CASE ChildPrints
  BY <1>2 DEF ChildPrints
<1>3. CASE ChildEnds
  BY <1>3 DEF ChildEnds
<1>4. CASE DescendantsEnd
  BY <1>4 DEF DescendantsEnd
<1>5. CASE LimitPasses
  BY <1>5 DEF LimitPasses
<1>6. CASE PumpReads
  BY <1>6 DEF PumpReads
<1>7. CASE PumpRung
  BY <1>7 DEF PumpRung
<1>8. CASE PumpRoundsEnd
  BY <1>8 DEF PumpRoundsEnd
<1>9. CASE BlockingReads
  BY <1>9 DEF BlockingReads
<1>10. CASE ReadsEnd
  BY <1>10 DEF ReadsEnd
<1>11. CASE ClaimChunk
  BY <1>11 DEF ClaimChunk, AfterRefusal
<1>12. CASE ConsumerAnswers
  BY <1>12 DEF ConsumerAnswers
<1>13. CASE FinishChunk
  BY <1>13 DEF FinishChunk, AfterRefusal
<1>14. CASE LetGo
  BY <1>14 DEF LetGo
<1>15. CASE Discard
  BY <1>15 DEF Discard
<1>16. CASE ReaderEnds
  BY <1>16 DEF ReaderEnds
<1>17. CASE ReaderReceives
  BY <1>17 DEF ReaderReceives
<1>18. CASE ReaderSettles
  BY <1>18 DEF ReaderSettles
<1>19. CASE ReaderTells
  BY <1>19 DEF ReaderTells
<1>20. CASE ReaderTold
  BY <1>20 DEF ReaderTold
<1>21. CASE WatchChild
  BY <1>21 DEF WatchChild
<1>22. CASE WatchRecord
  BY <1>22 DEF WatchRecord
<1>23. CASE WatchSend
  BY <1>23 DEF WatchSend
<1>24. CASE WatchRing
  BY <1>24, TailType DEF WatchRing
<1>25. CASE WatchReadAgain
  BY <1>25 DEF WatchReadAgain, IsCancelled
<1>26. CASE WatchClose
  BY <1>26 DEF WatchClose
<1>27. CASE StandbyCancelled
  BY <1>27 DEF StandbyCancelled, IsCancelled
<1>28. CASE StandbyChecks
  BY <1>28 DEF StandbyChecks, IsCancelled
<1>29. CASE WatchSettles
  BY <1>29 DEF WatchSettles
<1>30. CASE WatchTells
  BY <1>30 DEF WatchTells
<1>31. CASE WatchTold
  BY <1>31 DEF WatchTold
<1>32. CASE ConsoleCloses
  BY <1>32 DEF ConsoleCloses
<1>33. CASE KillStarts
  BY <1>33 DEF KillStarts
<1>34. CASE KillSettles
  BY <1>34 DEF KillSettles
<1>35. CASE KillReleases
  BY <1>35 DEF KillReleases
<1>36. CASE KillCancels
  BY <1>36 DEF KillCancels
<1>37. CASE KillWaits
  BY <1>37 DEF KillWaits
<1>38. CASE KillJoins
  BY <1>38 DEF KillJoins
<1>39. CASE UNCHANGED vars
  BY <1>39 DEF vars
<1>40. QED
  BY <1>1, <1>2, <1>3, <1>4, <1>5, <1>6, <1>7, <1>8, <1>9, <1>10, <1>11, <1>12,
     <1>13, <1>14, <1>15, <1>16, <1>17, <1>18, <1>19, <1>20, <1>21, <1>22,
     <1>23, <1>24, <1>25, <1>26, <1>27, <1>28, <1>29, <1>30, <1>31, <1>32,
     <1>33, <1>34, <1>35, <1>36, <1>37, <1>38, <1>39
     DEF Next, WorldStep, ReaderStep, WatcherStep, KillStep

-----------------------------------------------------------------------------
(* Theorems *)

\* The invariant behind the theorems below holds in every reachable state.
THEOREM HandoverInvariant == Spec => []HandoverInv
<1>1. Init => HandoverInv
  <2> SUFFICES ASSUME Init PROVE HandoverInv
    OBVIOUS
  <2>1. pending \in 0 .. MaxPending /\ inFlight \in 0 .. 1 /\ told \in Nat
    BY PendingAssumption DEF Init
  <2>2. TypeOK
    BY <2>1, Zenon DEF Init, TypeOK, ReaderPcs, WatcherPcs, KillPcs
  <2>3. QED
    BY <2>2 DEF Init, HandoverInv, FlightIsTheReaders, OneTeller, CloseIsSettled,
                WatcherIsInOrder, ExitIsNotSwallowed, ClosedWatcherIsSilent
<1>2. HandoverInv /\ [Next]_vars => HandoverInv'
  BY TypeStep, FlightStep, TellerStep, CloseStep, WatcherStepInOrder, SwallowStep, SilentStep
     DEF HandoverInv
<1>3. QED
  BY <1>1, <1>2, PTL DEF Spec

\* The state keeps its types: the chunk counts of the hand-over never differ
\* by more than the one chunk the reader holds.
THEOREM TypeCorrect == Spec => []TypeOK
<1>1. HandoverInv => TypeOK
  BY DEF HandoverInv
<1>2. QED
  BY <1>1, HandoverInvariant, PTL

\* `accept_exit_status` is called at most once, by the reader or the watcher.
THEOREM ToldOnce == Spec => []ExitToldOnce
<1>1. HandoverInv => ExitToldOnce
  BY DEF HandoverInv, OneTeller, ExitToldOnce
<1>2. QED
  BY <1>1, HandoverInvariant, PTL

\* No settling of the exit loses it for a pane that is neither closed nor
\* refused.
THEOREM NotSwallowed == Spec => []ExitIsNotSwallowed
<1>1. HandoverInv => ExitIsNotSwallowed
  BY DEF HandoverInv
<1>2. QED
  BY <1>1, HandoverInvariant, PTL

\* After `kill_pane` the watcher tells nothing.
THEOREM WatcherSilent == Spec => []ClosedWatcherIsSilent
<1>1. HandoverInv => ClosedWatcherIsSilent
  BY DEF HandoverInv
<1>2. QED
  BY <1>1, HandoverInvariant, PTL

\* No chunk is claimed once the exit was told: a told exit is settled, and
\* `deliver_output` claims nothing from a settled pane.
THEOREM NothingAfterExit == Spec => NoChunkAfterExit
<1>1. HandoverInv /\ [Next]_vars => [told > 0 => inFlight' <= inFlight]_vars
  <2> SUFFICES ASSUME HandoverInv, Next, told > 0
               PROVE  inFlight' <= inFlight
    BY DEF vars
  <2>1. isSettled /\ inFlight \in 0 .. 1
    BY DEF HandoverInv, OneTeller, TypeOK
  <2>2. CASE ClaimChunk
    BY <2>1, <2>2 DEF ClaimChunk
  <2>3. CASE FinishChunk
    BY <2>1, <2>3 DEF FinishChunk
  <2>4. ASSUME inFlight' = inFlight PROVE inFlight' <= inFlight
    BY <2>1, <2>4
  <2>5. CASE WorldStep \/ LimitPasses \/ WatcherStep \/ ConsoleCloses \/ KillStarts \/ KillStep
    BY <2>4, <2>5
       DEF WorldStep, ChildForks, ChildPrints, ChildEnds, DescendantsEnd, LimitPasses, WatcherStep,
           WatchChild, WatchRecord, WatchSend, WatchRing, WatchReadAgain, WatchClose,
           StandbyCancelled, StandbyChecks, WatchSettles, WatchTells, WatchTold,
           ConsoleCloses, KillStarts, KillStep, KillSettles, KillReleases, KillCancels,
           KillWaits, KillJoins, handoverVars
  <2>6. CASE ReaderStep /\ ~ClaimChunk /\ ~FinishChunk
    BY <2>4, <2>6
       DEF ReaderStep, PumpReads, PumpRung, PumpRoundsEnd, BlockingReads, ReadsEnd,
           ConsumerAnswers, LetGo, Discard, ReaderEnds, ReaderReceives, ReaderSettles,
           ReaderTells, ReaderTold, handoverVars
  <2>7. QED
    BY <2>2, <2>3, <2>5, <2>6 DEF Next
<1>2. QED
  BY <1>1, HandoverInvariant, PTL DEF Spec, NoChunkAfterExit

=============================================================================
