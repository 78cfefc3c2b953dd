------------------------ MODULE TestbeamReadoutProofs ------------------------
(***************************************************************************)
(* Proofs about TestbeamReadout, for every finite set of boards, every     *)
(* fill level and any number of runs.                                      *)
(***************************************************************************)
EXTENDS TestbeamReadout, FiniteSetTheorems, SequenceTheorems, TLAPS

USE BoardsAssumption, StopEventAssumption, LevelAssumption, BoundAssumption,
    SlowFillAssumption

(* There is at least one board.                                             *)
LEMMA BoardCount ==
  Cardinality(Boards) \in Nat /\ Cardinality(Boards) > 0
<1>1. Cardinality(Boards) \in Nat
  BY FS_CardinalityType
<1>2. Cardinality(Boards) # 0
  BY FS_EmptySet
<1> QED
  BY <1>1, <1>2

(* The boards that have arrived are counted, and if they are as many as     *)
(* there are boards they are all of them.                                   *)
LEMMA ArrivedCount ==
  ASSUME arrived \in SUBSET Boards
  PROVE  /\ IsFiniteSet(arrived)
         /\ Cardinality(arrived) \in Nat
         /\ Cardinality(arrived) <= Cardinality(Boards)
         /\ Cardinality(arrived) = Cardinality(Boards) => arrived = Boards
         /\ Cardinality(arrived) = 0 <=> arrived = {}
<1>1. IsFiniteSet(arrived) /\ Cardinality(arrived) <= Cardinality(Boards)
  BY FS_Subset
<1>2. Cardinality(arrived) = Cardinality(Boards) => arrived = Boards
  BY FS_Subset
<1>3. Cardinality(arrived) \in Nat
  BY <1>1, FS_CardinalityType
<1> QED
  BY <1>1, <1>2, <1>3, FS_EmptySet

(* TypeOK is inductive: every variable keeps its type in every step of      *)
(* every thread.                                                            *)
LEMMA TypeStep == TypeOK /\ [Next]_vars => TypeOK'
<1> SUFFICES ASSUME TypeOK, [Next]_vars PROVE TypeOK'
  OBVIOUS
<1> USE DEF TypeOK, Goto, fpgaVars, cacheVars, groupVars, mainVars, rcVars,
            Places, Status, Unread, ScanStatus, Pause, PostData, Resume,
            Released, StopScan, Finished, AllReadOut, Release
<1>1. ASSUME NEW b \in Boards, Fill(b) PROVE TypeOK'
  BY <1>1 DEF Fill
<1>2. ASSUME NEW b \in Boards, Poll(b) PROVE TypeOK'
  BY <1>2 DEF Poll
<1>3. ASSUME NEW b \in Boards, RaiseFlag(b) PROVE TypeOK'
  BY <1>3 DEF RaiseFlag
<1>4. ASSUME NEW b \in Boards, PauseRun(b) PROVE TypeOK'
  BY <1>4 DEF PauseRun
<1>5. ASSUME NEW b \in Boards, GetSourceScanData(b) PROVE TypeOK'
  <2>1. CASE RoundRead(b) \/ FinalRead(b)
    <3>1. queue' = Append(queue, b)
      BY <1>5, <2>1 DEF GetSourceScanData
    <3>2. queue' \in Seq(Boards \cup {StopEvent})
      BY <3>1, AppendProperties
    <3>3. level' \in [Boards -> 0..FullAt]
      <4>1. level' = [level EXCEPT ![b] = 0]
        BY <1>5, <2>1 DEF GetSourceScanData
      <4> QED
        BY <4>1
    <3>4. scanDone' \in [Boards -> BOOLEAN] /\ readSram' \in [Boards -> BOOLEAN]
      BY <1>5, <2>1, Zenon DEF GetSourceScanData, FinalRead, RoundRead
    <3>5. arrived' \in SUBSET Boards
      BY <1>5, <2>1 DEF GetSourceScanData
    <3> QED
      BY <1>5, <3>2, <3>3, <3>4, <3>5 DEF GetSourceScanData
  <2>2. CASE ~(RoundRead(b) \/ FinalRead(b))
    BY <1>5, <2>2 DEF GetSourceScanData
  <2> QED
    BY <2>1, <2>2
<1>6. ASSUME NEW b \in Boards, Park(b) PROVE TypeOK'
  BY <1>6 DEF Park
<1>7. ASSUME NEW b \in Boards, EndTurn(b) PROVE TypeOK'
  BY <1>7 DEF EndTurn
<1>8. CASE DataPending
  <2>1. queue' \in Seq(Boards \cup {StopEvent})
    BY <1>8, HeadTailProperties DEF DataPending
  <2>2. CASE boardsReadOut + 1 = Cardinality(Boards)
    <3>1. globalReadout' = FALSE /\ boardsReadOut' = 0 /\ arrived' = {}
      BY <1>8, <2>2 DEF DataPending
    <3> QED
      BY <1>8, <2>1, <3>1 DEF DataPending
  <2>3. CASE boardsReadOut + 1 # Cardinality(Boards)
    BY <1>8, <2>1, <2>3 DEF DataPending
  <2> QED
    BY <2>2, <2>3
<1>9. CASE StopPixScan
  <2>1. queue' \in Seq(Boards \cup {StopEvent})
    BY <1>9, HeadTailProperties DEF StopPixScan
  <2> QED
    BY <1>9, <2>1 DEF StopPixScan
<1>10. ASSUME NEW b \in Boards, AbortScan(b) PROVE TypeOK'
  BY <1>10 DEF AbortScan
<1>11. CASE UnlockBoards
  BY <1>11 DEF UnlockBoards
<1>12. CASE PostStop
  BY <1>12 DEF PostStop
<1>13. CASE StartRun
  BY <1>13 DEF StartRun
<1>14. CASE UNCHANGED vars
  BY <1>14 DEF vars
<1> QED
  <2>1. ASSUME NEW b \in Boards, BoardStep(b) PROVE TypeOK'
    BY <2>1, <1>2, <1>3, <1>4, <1>5, <1>6, <1>7 DEF BoardStep
  <2>2. CASE MainStep
    BY <2>2, <1>8, <1>9, <1>10 DEF MainStep
  <2>3. CASE RunControlStep
    BY <2>3, <1>11, <1>12, <1>13 DEF RunControlStep
  <2> QED
    BY <2>1, <2>2, <2>3, <1>1, <1>14 DEF Next

(* The first run starts in states of these types.                           *)
LEMMA InitType == Init => TypeOK
<1> SUFFICES ASSUME Init PROVE TypeOK
  OBVIOUS
<1>1. queue \in Seq(Boards \cup {StopEvent})
  BY EmptySeq DEF Init
<1>2. level \in [Boards -> 0..FullAt] /\ run \in 1..MaxRun /\ boardsReadOut \in Nat
  BY DEF Init
<1> QED
  BY <1>1, <1>2 DEF Init, TypeOK, Places, Status, Unread

(* Type correctness of the read-out round.                                  *)
THEOREM TypeCorrect == Spec => []TypeOK
  BY InitType, TypeStep, PTL DEF Spec

(***************************************************************************)
(* What each thread keeps true in every run                                *)
(***************************************************************************)

(* LoopInv is inductive: nothing another thread does can break it, because  *)
(* a board's pause, read request and final read are written by its own      *)
(* CtrlThread only, in the order of the turn.                               *)
LEMMA LoopStep == TypeOK /\ LoopInv /\ [Next]_vars => LoopInv'
<1> SUFFICES ASSUME TypeOK, LoopInv, [Next]_vars PROVE LoopInv'
  OBVIOUS
<1> USE DEF TypeOK, LoopInv, Goto, fpgaVars, cacheVars, groupVars, mainVars,
            rcVars, Places, Status, Unread, ScanStatus, Pause, PostData,
            Resume, Released, StopScan, Finished, AllReadOut, Release
<1>1. ASSUME NEW b \in Boards, Fill(b) PROVE LoopInv'
  BY <1>1 DEF Fill
<1>2. ASSUME NEW b \in Boards, Poll(b) PROVE LoopInv'
  BY <1>2 DEF Poll
<1>3. ASSUME NEW b \in Boards, RaiseFlag(b) PROVE LoopInv'
  BY <1>3 DEF RaiseFlag
<1>4. ASSUME NEW b \in Boards, PauseRun(b) PROVE LoopInv'
  BY <1>4 DEF PauseRun
<1>5. ASSUME NEW b \in Boards, GetSourceScanData(b) PROVE LoopInv'
  <2>1. CASE RoundRead(b) \/ FinalRead(b)
    BY <1>5, <2>1 DEF GetSourceScanData, RoundRead, FinalRead
  <2>2. CASE ~(RoundRead(b) \/ FinalRead(b))
    BY <1>5, <2>2 DEF GetSourceScanData, RoundRead, FinalRead
  <2> QED
    BY <2>1, <2>2
<1>6. ASSUME NEW b \in Boards, Park(b) PROVE LoopInv'
  BY <1>6 DEF Park
<1>7. ASSUME NEW b \in Boards, EndTurn(b) PROVE LoopInv'
  BY <1>7 DEF EndTurn
<1>8. CASE DataPending \/ StopPixScan \/ UnlockBoards \/ PostStop
  BY <1>8 DEF DataPending, StopPixScan, UnlockBoards, PostStop
<1>9. ASSUME NEW b \in Boards, AbortScan(b) PROVE LoopInv'
  BY <1>9 DEF AbortScan
<1>10. CASE StartRun
  BY <1>10 DEF StartRun
<1>11. CASE UNCHANGED vars
  BY <1>11 DEF vars
<1> QED
  <2>1. ASSUME NEW b \in Boards, BoardStep(b) PROVE LoopInv'
    BY <2>1, <1>2, <1>3, <1>4, <1>5, <1>6, <1>7 DEF BoardStep
  <2> QED
    BY <2>1, <1>1, <1>8, <1>9, <1>10, <1>11 DEF Next, MainStep, RunControlStep

(* No thread has paused, finished or read anything at the start of a run.   *)
LEMMA InitLoop == Init => LoopInv
  BY DEF Init, LoopInv, Unread

(* LoopInv holds in every run, stops and restarts included.                 *)
LEMMA LoopAlways == Spec => [](TypeOK /\ LoopInv)
  BY InitType, InitLoop, TypeStep, LoopStep, PTL DEF Spec

(* A paused board takes no data: whoever pauses, resumes or stops a board,  *)
(* in this run or the next, the start/stop register follows the pause flag. *)
THEOREM PausedBoardsAreQuiet == Spec => []PausedIsQuiet
<1>1. LoopInv => PausedIsQuiet
  BY DEF LoopInv, PausedIsQuiet
<1> QED
  BY <1>1, LoopAlways, PTL

(* A CtrlThread that left its loop left no data on its board.               *)
THEOREM FinishedBoardsAreDrained == Spec => []FinishedIsDrained
<1>1. LoopInv => FinishedIsDrained
  BY DEF LoopInv, FinishedIsDrained
<1> QED
  BY <1>1, LoopAlways, PTL

(***************************************************************************)
(* What the round keeps true until somebody asks for the end of the run    *)
(***************************************************************************)

(* A round in which nobody has asked for a stop was undisturbed before the  *)
(* step, too: only the first run counts, and a stop is never taken back.    *)
LEMMA UndisturbedStep ==
  ASSUME TypeOK, [Next]_vars, Undisturbed'
  PROVE  /\ Undisturbed
         /\ \/ \E b \in Boards : Fill(b) \/ BoardStep(b)
            \/ MainStep
            \/ UNCHANGED vars
<1>1. CASE RunControlStep
  <2>1. ~Undisturbed'
    BY <1>1 DEF RunControlStep, UnlockBoards, PostStop, StartRun, Undisturbed, TypeOK
  <2> QED
    BY <2>1
<1>2. ASSUME \/ \E b \in Boards : Fill(b) \/ BoardStep(b)
             \/ MainStep
             \/ UNCHANGED vars
      PROVE UNCHANGED rcVars
  BY <1>2 DEF Fill, BoardStep, Poll, RaiseFlag, PauseRun, GetSourceScanData,
              Park, EndTurn, MainStep, DataPending, StopPixScan, AbortScan, vars
<1>3. UNCHANGED rcVars => Undisturbed
  BY DEF rcVars, Undisturbed
<1> QED
  BY <1>1, <1>2, <1>3 DEF Next

(* What a step of an undisturbed round may do to the flag and to the set of *)
(* boards that have arrived.                                                *)
FlagKept     == UNCHANGED <<globalReadout, arrived>>
FlagRaised   == globalReadout' = TRUE /\ UNCHANGED arrived
BoardArrives ==
  \E b \in Boards : /\ globalReadout /\ b \notin arrived
                   /\ arrived' = arrived \cup {b}
                   /\ UNCHANGED globalReadout
FlagLowered ==
  /\ arrived = Boards /\ \A b \in Boards : pc[b] = "park"
  /\ globalReadout' = FALSE /\ arrived' = {}

RoundEffect == FlagKept \/ FlagRaised \/ BoardArrives \/ FlagLowered

(* A board that posts its data is paused, was asked to be read out, and had *)
(* not posted before in this round.                                         *)
LEMMA ReaderIsPaused ==
  ASSUME TypeOK, LoopInv, RoundOK, NEW b \in Boards, pc[b] = "read",
         RoundRead(b) \/ FinalRead(b)
  PROVE  paused[b] /\ readSram[b] /\ globalReadout /\ b \notin arrived /\ ~FinalRead(b)
<1> USE DEF TypeOK, RoundOK, BoardRoundInv, LoopInv
<1>1. b \notin arrived
  OBVIOUS
<1>2. paused[b]
  BY DEF RoundRead, FinalRead
<1>3. readSram[b] /\ globalReadout
  BY <1>2
<1>4. ~FinalRead(b)
  BY <1>3 DEF RoundRead, FinalRead
<1> QED
  BY <1>1, <1>2, <1>3, <1>4

(* RoundInv is inductive, and every step is one of the four above.          *)
LEMMA RoundStep ==
  ASSUME TypeOK, LoopInv, RoundInv, [Next]_vars, Undisturbed'
  PROVE  RoundOK' /\ RoundEffect
<1>1. Undisturbed /\ RoundOK
  BY UndisturbedStep DEF RoundInv
<1> USE <1>1 DEF TypeOK, RoundOK, BoardRoundInv, Goto, fpgaVars, cacheVars,
                 groupVars, mainVars, rcVars, Places, Status, Unread,
                 ScanStatus, Pause, PostData, Resume, Released, StopScan,
                 Finished, AllReadOut, Release
<1>2. ASSUME NEW b \in Boards, Fill(b) PROVE RoundOK' /\ FlagKept
  BY <1>2 DEF Fill, FlagKept
<1>3. ASSUME NEW b \in Boards, Poll(b) PROVE RoundOK' /\ FlagKept
  BY <1>3 DEF Poll, FlagKept
<1>4. ASSUME NEW b \in Boards, RaiseFlag(b) PROVE RoundOK' /\ (FlagKept \/ FlagRaised)
  BY <1>4 DEF RaiseFlag, FlagKept, FlagRaised
<1>5. ASSUME NEW b \in Boards, PauseRun(b) PROVE RoundOK' /\ FlagKept
  BY <1>5 DEF PauseRun, FlagKept
<1>6. ASSUME NEW b \in Boards, GetSourceScanData(b)
      PROVE RoundOK' /\ (FlagKept \/ BoardArrives)
  <2>1. CASE RoundRead(b) \/ FinalRead(b)
    <3>1. pc[b] = "read" /\ paused[b] /\ globalReadout /\ b \notin arrived /\ ~FinalRead(b)
      BY <1>6, <2>1, ReaderIsPaused DEF GetSourceScanData
    <3>2. /\ queue' = Append(queue, b)
          /\ arrived' = arrived \cup {b}
          /\ UNCHANGED <<aborting, boardsReadOut, globalReadout>>
      BY <1>6, <2>1 DEF GetSourceScanData
    <3>3. Len(queue') = Len(queue) + 1 /\ queue' \in Seq(Boards)
      BY <3>2, AppendProperties
    <3>4. Cardinality(arrived') = Cardinality(arrived) + 1
      BY <3>1, <3>2, ArrivedCount, FS_AddElement
    <3>5. boardsReadOut' + Len(queue') = Cardinality(arrived')
      BY <3>2, <3>3, <3>4, ArrivedCount, LenProperties
    <3>6. \A c \in Boards : BoardRoundInv(c)'
      <4> SUFFICES ASSUME NEW c \in Boards PROVE BoardRoundInv(c)'
        OBVIOUS
      <4>1. CASE c = b
        BY <1>6, <2>1, <3>1, <3>2, <4>1 DEF GetSourceScanData
      <4>2. CASE c # b
        BY <1>6, <2>1, <3>2, <4>2 DEF GetSourceScanData
      <4> QED
        BY <4>1, <4>2
    <3>7. BoardArrives
      BY <3>1, <3>2 DEF BoardArrives
    <3> QED
      BY <3>1, <3>2, <3>3, <3>5, <3>6, <3>7
  <2>2. CASE ~(RoundRead(b) \/ FinalRead(b))
    <3>1. UNCHANGED <<queue, arrived, aborting, boardsReadOut, globalReadout>>
      BY <1>6, <2>2 DEF GetSourceScanData
    <3>2. \A c \in Boards : BoardRoundInv(c)'
      BY <1>6, <2>2, <3>1 DEF GetSourceScanData
    <3> QED
      BY <3>1, <3>2 DEF FlagKept
  <2> QED
    BY <2>1, <2>2
<1>7. ASSUME NEW b \in Boards, Park(b) PROVE RoundOK' /\ FlagKept
  BY <1>7 DEF Park, FlagKept
<1>8. ASSUME NEW b \in Boards, EndTurn(b) PROVE RoundOK' /\ FlagKept
  BY <1>8 DEF EndTurn, FlagKept
<1>9. CASE DataPending
  <2>1. /\ queue' = Tail(queue) /\ queue # <<>>
        /\ UNCHANGED <<fpgaVars, cacheVars, groupVars, pc, aborting>>
    BY <1>9 DEF DataPending
  <2>2. /\ Len(queue) \in Nat /\ Len(queue) > 0
        /\ queue' \in Seq(Boards) /\ Len(queue') = Len(queue) - 1
    BY <2>1, HeadTailProperties, LenProperties, EmptySeq
  <2>3. CASE boardsReadOut + 1 = Cardinality(Boards)
    <3>1. globalReadout' = FALSE /\ boardsReadOut' = 0 /\ arrived' = {}
      BY <1>9, <2>3 DEF DataPending
    <3>2. Len(queue) = 1 /\ arrived = Boards
      BY <2>2, <2>3, ArrivedCount
    <3>3. \A b \in Boards : pc[b] = "park" /\ ~readSram[b]
      BY <3>2
    <3>4. Cardinality(arrived') = 0
      BY <3>1, FS_EmptySet
    <3>5. boardsReadOut' + Len(queue') = Cardinality(arrived')
      BY <2>2, <3>1, <3>2, <3>4
    <3>6. \A b \in Boards : BoardRoundInv(b)'
      BY <2>1, <3>1, <3>3
    <3>7. boardsReadOut' < Cardinality(Boards)
      BY <3>1, BoardCount
    <3> QED
      BY <2>1, <2>2, <3>1, <3>2, <3>3, <3>5, <3>6, <3>7 DEF FlagLowered, RoundEffect
  <2>4. CASE boardsReadOut + 1 # Cardinality(Boards)
    <3>1. boardsReadOut' = boardsReadOut + 1 /\ UNCHANGED <<globalReadout, arrived>>
      BY <1>9, <2>4 DEF DataPending
    <3>2. /\ boardsReadOut' + Len(queue') = Cardinality(arrived')
          /\ boardsReadOut' < Cardinality(Boards)
      BY <2>2, <2>4, <3>1, BoardCount
    <3>3. \A b \in Boards : BoardRoundInv(b)'
      BY <2>1, <3>1
    <3> QED
      BY <2>1, <2>2, <3>1, <3>2, <3>3 DEF FlagKept, RoundEffect
  <2> QED
    BY <2>3, <2>4
<1>10. ~StopPixScan
  <2>1. queue # <<>> => Head(queue) \in Boards
    BY HeadTailProperties
  <2> QED
    BY <2>1 DEF StopPixScan
<1>11. \A b \in Boards : ~AbortScan(b)
  BY DEF AbortScan
<1>12. CASE UNCHANGED vars
  BY <1>12 DEF vars, FlagKept, RoundEffect
<1> HIDE DEF TypeOK, RoundOK, BoardRoundInv, Goto
<1> QED
  <2>1. ASSUME NEW b \in Boards, BoardStep(b) PROVE RoundOK' /\ RoundEffect
    BY <2>1, <1>3, <1>4, <1>5, <1>6, <1>7, <1>8 DEF BoardStep, RoundEffect
  <2>2. CASE MainStep
    BY <2>2, <1>9, <1>10, <1>11 DEF MainStep
  <2>3. ASSUME NEW b \in Boards, Fill(b) PROVE RoundOK' /\ RoundEffect
    BY <2>3, <1>2 DEF RoundEffect
  <2>4. CASE UNCHANGED vars
    BY <2>4, <1>12 DEF RoundEffect
  <2>5. \/ \E b \in Boards : Fill(b) \/ BoardStep(b)
        \/ MainStep
        \/ UNCHANGED vars
    BY UndisturbedStep
  <2> QED
    BY <2>1, <2>2, <2>3, <2>4, <2>5

(* The inductive invariant IInv: the types, the order of each thread's turn *)
(* in every run, and the accounting of the first run's rounds.              *)
THEOREM RoundAlways == Spec => []IInv
<1>1. Init => RoundInv
  BY FS_EmptySet, BoardCount, EmptySeq DEF Init, RoundInv, RoundOK, BoardRoundInv, Unread
<1>2. IInv /\ [Next]_vars => IInv'
  BY TypeStep, LoopStep, RoundStep DEF IInv, RoundInv
<1>3. Init => IInv
  BY <1>1, InitType, InitLoop DEF IInv
<1> QED
  BY <1>2, <1>3, PTL DEF Spec

(* The producer's count and its queue hold each board of the round once.    *)
THEOREM RoundIsCounted == Spec => []CountMatchesArrived
<1>1. IInv => CountMatchesArrived
  BY DEF IInv, RoundInv, RoundOK, CountMatchesArrived
<1> QED
  BY <1>1, RoundAlways, PTL

(* With the flag down nothing of the last round is under way: no data event *)
(* is queued, nothing is counted, and a board still paused was read out.    *)
THEOREM RoundsDoNotMix == Spec => []NothingLeftBehind
<1> SUFFICES ASSUME IInv, Undisturbed, ~globalReadout
             PROVE  /\ queue = <<>> /\ boardsReadOut = 0
                    /\ \A b \in Boards : paused[b] => Oversleeping(b)
  <2>1. IInv => NothingLeftBehind
    BY DEF NothingLeftBehind
  <2> QED
    BY <2>1, RoundAlways, PTL
<1>1. RoundOK /\ TypeOK /\ LoopInv
  BY DEF IInv, RoundInv
<1>2. arrived = {}
  BY <1>1 DEF RoundOK
<1>3. boardsReadOut + Len(queue) = 0 /\ boardsReadOut \in Nat
  BY <1>1, <1>2, FS_EmptySet DEF RoundOK, TypeOK
<1>4. Len(queue) = 0 /\ boardsReadOut = 0
  BY <1>1, <1>3, LenProperties DEF RoundOK
<1>5. queue = <<>>
  BY <1>1, <1>4, EmptySeq DEF RoundOK
<1>6. \A b \in Boards : paused[b] => Oversleeping(b)
  BY <1>1 DEF RoundOK, BoardRoundInv, LoopInv, TypeOK, Oversleeping
<1> QED
  BY <1>4, <1>5, <1>6

(* The producer lowers the flag only when every board has posted its data   *)
(* and waits: its bare count of events is enough, because no board posts    *)
(* twice in a round.                                                        *)
THEOREM ReleaseIsComplete == Spec => ReleaseNeedsAll
<1>1. ASSUME IInv, [Next]_vars, Undisturbed, Undisturbed', globalReadout, ~globalReadout'
      PROVE  arrived = Boards /\ \A b \in Boards : pc[b] = "park"
  BY <1>1, RoundStep DEF IInv, RoundEffect, FlagKept, FlagRaised, BoardArrives, FlagLowered
<1>2. IInv /\ [Next]_vars =>
        [Undisturbed /\ Undisturbed' /\ globalReadout /\ ~globalReadout'
           => arrived = Boards /\ \A b \in Boards : pc[b] = "park"]_vars
  BY <1>1
<1> QED
  BY <1>2, RoundAlways, PTL DEF Spec, ReleaseNeedsAll

(* The polling threads, the event queue and the producer's count together   *)
(* implement the barrier of ReadoutBarrier.                                 *)
THEOREM ReadoutIsABarrier == Spec => RefinesBarrier
<1>1. Init => Barrier!Init
  BY DEF Init, Barrier!Init, Undisturbed
<1>2. IInv /\ [Next]_vars => [Barrier!Next]_(Barrier!vars)
  <2> SUFFICES ASSUME IInv, [Next]_vars PROVE [Barrier!Next]_(Barrier!vars)
    OBVIOUS
  <2>1. CASE ~Undisturbed'
    BY <2>1 DEF Barrier!Next
  <2>2. CASE Undisturbed'
    <3>1. Undisturbed /\ RoundEffect
      BY <2>2, UndisturbedStep, RoundStep DEF IInv
    <3>2. CASE FlagKept
      BY <2>2, <3>1, <3>2 DEF FlagKept, Barrier!vars
    <3>3. CASE FlagRaised
      BY <2>2, <3>1, <3>3 DEF FlagRaised, Barrier!Next, Barrier!Round, Barrier!Raise
    <3>4. CASE BoardArrives
      BY <2>2, <3>1, <3>4 DEF BoardArrives, Barrier!Next, Barrier!Round, Barrier!Arrive
    <3>5. CASE FlagLowered
      BY <2>2, <3>1, <3>5 DEF FlagLowered, Barrier!Next, Barrier!Round, Barrier!Release
    <3> QED
      BY <3>1, <3>2, <3>3, <3>4, <3>5 DEF RoundEffect
  <2> QED
    BY <2>1, <2>2
<1> QED
  BY <1>1, <1>2, RoundAlways, PTL DEF Spec, RefinesBarrier, Barrier!Spec

=============================================================================
