--------------------------- MODULE Usb3ScanProofs ---------------------------
(***************************************************************************)
(* What is true of a scan on a USBpix3 board for any number of loops, mask  *)
(* steps and scans, and any troubles.                                       *)
(***************************************************************************)
EXTENDS Usb3Scan, TLAPS

(* The actions of the specification, one disjunct each.                     *)
LEMMA Actions ==
  ASSUME [Next]_vars
  PROVE  \/ NewScan \/ NewScanIgnored \/ Started \/ NotStarted \/ Watch
         \/ Poll \/ GiveUp \/ Collected \/ Abort \/ StartScan \/ InitLoop \/ Begin \/ MaskStep
         \/ Slept \/ NextLoop \/ CountCancelled \/ Flush \/ Finish \/ Destroy
         \/ Join \/ Ask \/ GoOn \/ AskFails \/ StartFails \/ SendFails \/ Hits
         \/ CountReached \/ Top \/ Turn \/ Wake \/ GetData \/ Decode
         \/ ReadFails \/ UNCHANGED vars
BY DEF Next, Ctrl, Scan, Reader

(* What setState() is asked for, and where it goes on.                      *)
LEMMA Asking ==
  ASSUME Ask
  PROVE  /\ pc \in {"run", "pause", "stop", "last"}
         /\ state' = IF pc = "run" THEN "RUN" ELSE IF pc = "pause" THEN "PAUSE" ELSE "STOP"
<1>1. pc \in {"run", "pause", "stop", "last"} BY DEF Ask, Wanted
<1>2. state' = Wanted[pc] BY DEF Ask
<1>3. CASE pc = "run" BY <1>2, <1>3 DEF Wanted
<1>4. CASE pc = "pause" BY <1>2, <1>4 DEF Wanted
<1>5. CASE pc = "stop" BY <1>2, <1>5 DEF Wanted
<1>6. CASE pc = "last" BY <1>2, <1>6 DEF Wanted
<1> QED BY <1>1, <1>3, <1>4, <1>5, <1>6

(* Where an acknowledged request lets the scan thread go on.                *)
LEMMA Answering ==
  ASSUME GoOn, pc \in {"run", "pause", "stop", "last"}
  PROVE  pc' = CASE pc = "run" /\ mode = "strobe" -> "loop"
                 [] pc = "run" /\ mode # "strobe" -> "count"
                 [] pc = "pause" -> "next"
                 [] pc = "stop" -> "flush"
                 [] pc = "last" -> "join"
<1>2. pc' = After[pc] BY DEF GoOn
<1>3. CASE pc = "run" BY <1>2, <1>3 DEF After
<1>4. CASE pc = "pause" BY <1>2, <1>4 DEF After
<1>5. CASE pc = "stop" BY <1>2, <1>5 DEF After
<1>6. CASE pc = "last" BY <1>2, <1>6 DEF After
<1> QED BY <1>3, <1>4, <1>5, <1>6

(* Where the next set of histogrammers is made there is one left to make;   *)
(* only setState() waits; and a read-out thread that reports an error is    *)
(* gone.                                                                    *)
LoopInv ==
  /\ pc = "init" => loop < Loops
  /\ pc = "begin" /\ mode = "strobe" => loop = 0
  /\ asked => pc \in {"run", "pause", "stop", "last"}
  /\ state = "ERROR" => pos = "gone"

(* A step keeps the type of every variable.                                 *)
LEMMA TypeStep ==
  ASSUME TypeOK, LoopInv, [Next]_vars
  PROVE  TypeOK' /\ LoopInv'
<1> USE LoopsAssumption, ScanAssumption
    DEF TypeOK, LoopInv, Data, control, flags, thread, readout, Go
<1>1. CASE NewScan \/ NewScanIgnored
  <2>1. /\ kind' \in {"strobe", "source"} /\ mode' \in {"strobe", "source"}
        /\ abort' \in BOOLEAN
    BY <1>1, Zenon DEF NewScan, NewScanIgnored, BeginScan
  <2>2. scan' = scan + 1 /\ scan < MaxScan BY <1>1 DEF NewScan, NewScanIgnored, BeginScan
  <2>3. /\ ctrl' = "wait"
        /\ \/ pc' = "start" /\ pc = "off"
           \/ pc' = pc /\ mode' = mode
        /\ UNCHANGED <<trouble, waits, stopped, flags, asked, loop, mask, readout, fifo, hist>>
    BY <1>1 DEF NewScan, NewScanIgnored, BeginScan
  <2>4. CASE pc' = "start" /\ pc = "off" BY <2>1, <2>2, <2>3, <2>4
  <2>5. CASE pc' = pc /\ mode' = mode BY <2>1, <2>2, <2>3, <2>5
  <2> QED BY <2>3, <2>4, <2>5
<1>2. CASE Started
  <2>1. running' \in BOOLEAN /\ finished' \in BOOLEAN
    BY <1>2, Zenon DEF Started, RunStatus
  <2>2. /\ ctrl' = "watch" /\ waits' = 0
        /\ UNCHANGED <<trouble, scan, kind, mode, abort, stopped, cancel, thread, readout,
                       fifo, hist>>
    BY <1>2 DEF Started, RunStatus
  <2> QED BY <2>1, <2>2
<1>3. CASE NotStarted BY <1>3 DEF NotStarted
<1>4. CASE Watch
  <2>1. abort' \in BOOLEAN /\ cancel' \in BOOLEAN BY <1>4, Zenon DEF Watch, StopScan
  <2>2. /\ ctrl' = "poll"
        /\ UNCHANGED <<trouble, scan, kind, mode, stopped, running, finished, thread,
                       readout, fifo, hist>>
    BY <1>4 DEF Watch
  <2>3. waits' = waits \/ (waits < AbortWaits /\ waits' = waits + 1)
    BY <1>4, Zenon DEF Watch
  <2>4. waits' \in 0..AbortWaits BY <2>3
  <2> QED BY <2>1, <2>2, <2>4
<1>5. CASE Poll
  <2>1. running' \in BOOLEAN /\ finished' \in BOOLEAN
    BY <1>5, Zenon DEF Poll, RunStatus
  <2>2. /\ ctrl' \in {"watch", "collect"}
        /\ UNCHANGED <<trouble, scan, kind, mode, abort, waits, stopped, cancel, thread,
                       readout, fifo, hist>>
    BY <1>5 DEF Poll, RunStatus
  <2> QED BY <2>1, <2>2
<1>6. CASE GiveUp BY <1>6 DEF GiveUp
<1>7. CASE Collected BY <1>7 DEF Collected
<1>8. CASE Abort
  <2>1. abort' \in BOOLEAN /\ stopped' \in BOOLEAN BY <1>8, Zenon DEF Abort
  <2>2. UNCHANGED <<trouble, scan, kind, mode, ctrl, waits, flags, thread, readout, fifo, hist>>
    BY <1>8 DEF Abort
  <2> QED BY <2>1, <2>2
<1>9. CASE StartScan
  <2>1. hist' \in [1..Loops -> SUBSET Data] BY <1>9 DEF StartScan, NoHists
  <2>2. /\ pc = "start"
        /\ pc' = IF mode = "strobe" THEN "begin" ELSE "init"
        /\ loop' = 0 /\ mask' = 0
        /\ UNCHANGED <<control, flags, asked, readout, fifo>>
    BY <1>9 DEF StartScan
  <2> QED BY <2>1, <2>2
<1>10. CASE InitLoop BY <1>10 DEF InitLoop
<1>11. CASE Begin
  <2>1. running' \in BOOLEAN /\ finished' \in BOOLEAN /\ change' \in BOOLEAN
    BY <1>11, Zenon DEF Begin
  <2>2. /\ pc = "begin"
        /\ \/ pc' = (IF mode = "strobe" THEN "init" ELSE "run") /\ fifo' = {}
           \/ pc' = "destroy" /\ fifo' = fifo
        /\ state' = "PAUSE" /\ pos' = "top" /\ current' = "PAUSE"
        /\ UNCHANGED <<control, cancel, asked, loop, mask, batch, hist>>
    BY <1>11 DEF Begin
  <2> QED BY <2>1, <2>2
<1>12. CASE MaskStep
  <2>1. CASE mask < MaskSteps
    <3>1. mask' = mask + 1 /\ fifo' = fifo \cup {<<loop, mask + 1>>}
      BY <1>12, <2>1 DEF MaskStep
    <3>2. mask' \in 0..MaskSteps /\ mask' \in 1..MaskSteps BY <2>1, <3>1
    <3>3. <<loop, mask + 1>> \in Data BY <3>1, <3>2
    <3>4. fifo' \in SUBSET Data BY <3>1, <3>3
    <3> QED BY <1>12, <2>1, <3>2, <3>4 DEF MaskStep
  <2>2. CASE ~(mask < MaskSteps) BY <1>12, <2>2 DEF MaskStep
  <2> QED BY <2>1, <2>2
<1>13. CASE Slept BY <1>13 DEF Slept, AllRead
<1>14. CASE NextLoop
  <2>1. cancel' \in BOOLEAN BY <1>14, Zenon DEF NextLoop
  <2>2. /\ pc = "next" /\ pc' \in {"stop", "init"}
        /\ pc' = "init" => loop # Loops
    BY <1>14 DEF NextLoop, LastLoop
  <2>3. UNCHANGED <<control, running, finished, asked, loop, mask, readout, fifo, hist>>
    BY <1>14 DEF NextLoop
  <2> QED BY <2>1, <2>2, <2>3
<1>15. CASE CountCancelled
  <2>1. cancel' \in BOOLEAN BY <1>15, Zenon DEF CountCancelled
  <2>2. /\ pc' = "stop"
        /\ UNCHANGED <<control, running, finished, asked, loop, mask, readout, fifo, hist>>
    BY <1>15 DEF CountCancelled
  <2> QED BY <2>1, <2>2
<1>16. CASE Flush BY <1>16 DEF Flush
<1>17. CASE Finish
  <2>1. finished' \in BOOLEAN BY <1>17, Zenon DEF Finish
  <2>2. /\ pc = "finish" /\ pc' = "destroy"
        /\ UNCHANGED <<control, running, cancel, asked, loop, mask, readout, fifo, hist>>
    BY <1>17 DEF Finish
  <2> QED BY <2>1, <2>2
<1>18. CASE Destroy BY <1>18 DEF Destroy
<1>19. CASE Join BY <1>19 DEF Join
<1>20. CASE Ask
  <2>1. change' \in BOOLEAN /\ asked' \in BOOLEAN BY <1>20, Zenon DEF Ask
  <2>2. state' \in {"PAUSE", "RUN", "STOP"} /\ pc \in {"run", "pause", "stop", "last"}
    <3>1. state' = IF pc = "run" THEN "RUN" ELSE IF pc = "pause" THEN "PAUSE" ELSE "STOP"
      BY <1>20, Asking, Zenon
    <3> QED BY <1>20, <3>1, Asking
  <2>3. UNCHANGED <<control, flags, pc, loop, mask, pos, current, batch, fifo, hist>>
    BY <1>20 DEF Ask
  <2> QED BY <2>1, <2>2, <2>3
<1>21. CASE GoOn
  <2>1. asked' \in BOOLEAN BY <1>21, Zenon DEF GoOn
  <2>2. ~asked' BY <1>21, Zenon DEF GoOn
  <2>3. pc \in {"run", "pause", "stop", "last"} BY <1>21 DEF GoOn, Acknowledged
  <2>4. pc' \in {"loop", "count", "next", "flush", "join"}
    BY <1>21, <2>3, Answering
  <2>5. UNCHANGED <<control, flags, loop, mask, readout, fifo, hist>>
    BY <1>21 DEF GoOn
  <2> QED BY <2>1, <2>2, <2>4, <2>5
<1>22. CASE AskFails
  <2>1. ~asked BY <1>22, Zenon DEF AskFails
  <2>2. pc' \in {"terminated", "flush", "destroy"}
    BY <1>22 DEF AskFails, Throw
  <2>3. UNCHANGED <<control, flags, asked, loop, mask, readout, fifo, hist>>
    BY <1>22 DEF AskFails, Throw
  <2> QED BY <2>1, <2>2, <2>3
<1>23. CASE StartFails
  <2>1. /\ pc = "start" /\ pc' = "off"
        /\ UNCHANGED <<control, flags, asked, loop, mask, readout, fifo, hist>>
    BY <1>23 DEF StartFails
  <2> QED BY <2>1
<1>24. CASE SendFails
  <2>1. ~asked
    <3>1. CASE pc \in {"loop", "count"} BY <3>1
    <3>2. CASE pc = "run" BY <1>24, <3>2, Zenon DEF SendFails
    <3> QED BY <1>24, <3>1, <3>2 DEF SendFails
  <2>2. pc' \in {"flush", "destroy"} BY <1>24 DEF SendFails, Throw
  <2>3. UNCHANGED <<control, flags, asked, loop, mask, readout, fifo, hist>>
    BY <1>24 DEF SendFails, Throw
  <2> QED BY <2>1, <2>2, <2>3
<1>25. CASE Hits
  <2>1. PICK m \in 1..MaskSteps : fifo' = fifo \cup {<<loop, m>>} BY <1>25 DEF Hits
  <2>2. fifo' \in SUBSET Data BY <2>1
  <2> QED BY <1>25, <2>2 DEF Hits
<1>26. CASE CountReached BY <1>26 DEF CountReached
<1>27. CASE Top
  <2>1. change' \in BOOLEAN BY <1>27, Zenon DEF Top
  <2>2. state # "ERROR" BY <1>27 DEF Top
  <2>3. current' \in {"PAUSE", "RUN", "STOP"} /\ pos' \in {"gone", "turn"}
    BY <1>27, <2>2 DEF Top
  <2>4. UNCHANGED <<control, flags, thread, state, batch, fifo, hist>> BY <1>27 DEF Top
  <2> QED BY <2>1, <2>2, <2>3, <2>4
<1>28. CASE Turn BY <1>28 DEF Turn
<1>29. CASE Wake BY <1>29 DEF Wake
<1>30. CASE GetData BY <1>30 DEF GetData
<1>31. CASE Decode
  <2>1. hist' \in [1..Loops -> SUBSET Data]
    <3>1. CASE loop = 0 BY <1>31, <3>1 DEF Decode
    <3>2. CASE loop # 0
      <4>1. hist' = [hist EXCEPT ![loop] = hist[loop] \cup batch] /\ loop \in 1..Loops
        BY <1>31, <3>2 DEF Decode
      <4>2. hist[loop] \cup batch \in SUBSET Data BY <4>1
      <4> QED BY <4>1, <4>2
    <3> QED BY <3>1, <3>2
  <2>2. /\ batch' = {} /\ pos' = "top"
        /\ pos = "decode"
        /\ UNCHANGED <<control, flags, thread, state, change, current, fifo>>
    BY <1>31 DEF Decode
  <2> QED BY <2>1, <2>2
<1>32. CASE ReadFails
  <2>1. /\ state' = "ERROR" /\ pos' = "gone"
        /\ UNCHANGED <<control, flags, thread, change, current, batch, fifo, hist>>
    BY <1>32 DEF ReadFails
  <2> QED BY <2>1
<1>33. CASE UNCHANGED vars BY <1>33 DEF vars
<1> QED
  BY
    <1>1, <1>2, <1>3, <1>4, <1>5, <1>6, <1>7, <1>8, <1>9, <1>10, <1>11,
    <1>12, <1>13, <1>14, <1>15, <1>16, <1>17, <1>18, <1>19, <1>20, <1>21,
    <1>22, <1>23, <1>24, <1>25, <1>26, <1>27, <1>28, <1>29, <1>30, <1>31,
    <1>32, <1>33, Actions

(* The first state has the types.                                           *)
LEMMA TypeInit ==
  ASSUME Init
  PROVE  TypeOK /\ LoopInv
<1>1. /\ abort \in BOOLEAN /\ stopped \in BOOLEAN /\ running \in BOOLEAN
      /\ finished \in BOOLEAN /\ cancel \in BOOLEAN /\ change \in BOOLEAN
      /\ asked \in BOOLEAN /\ ~asked
  BY Zenon DEF Init
<1>2. hist \in [1..Loops -> SUBSET Data] BY <1>1 DEF Init, NoHists
<1>3. /\ trouble \in Troubles /\ scan = 0 /\ kind = "strobe" /\ mode = "strobe"
      /\ ctrl = "idle" /\ waits = 0
      /\ pc = "off" /\ loop = 0 /\ mask = 0 /\ state = "PAUSE" /\ pos = "none"
      /\ current = "PAUSE" /\ batch = {} /\ fifo = {}
  BY <1>1 DEF Init
<1> QED BY <1>1, <1>2, <1>3, LoopsAssumption, ScanAssumption DEF TypeOK, LoopInv

(* Every variable keeps its type.                                           *)
THEOREM TypeCorrect == Spec => []TypeOK
<1>1. Spec => [](TypeOK /\ LoopInv) BY TypeInit, TypeStep, PTL DEF Spec
<1> QED BY <1>1, PTL

-----------------------------------------------------------------------------
(* The request that the scan thread makes of the read-out thread, and what  *)
(* the latter does about it, at each place of the two.                      *)

HandInv ==
  /\ change => asked
  /\ asked /\ state # "ERROR" =>
       state = IF pc = "run" THEN "RUN" ELSE IF pc = "pause" THEN "PAUSE" ELSE "STOP"
  /\ ~change /\ state # "ERROR" => current = state
  /\ ~change /\ state = "STOP" => pos = "gone"
  /\ pos \in {"read", "decode"} => current = "RUN"
  /\ pos = "none" =>
       /\ pc \in {"off", "start", "begin"} \/ (pc = "init" /\ mode = "source")
       /\ state = "PAUSE"
  /\ pc \in {"off", "start", "begin", "join"} \/ (pc = "init" /\ mode = "source") =>
       pos \in {"none", "gone"}
  /\ (pc = "init" /\ mode = "strobe") \/ pc = "next" \/ (pc = "run" /\ ~asked) =>
       state = "PAUSE"
  /\ pc = "pause" /\ asked /\ ~change => state = "PAUSE"
  /\ pc \in {"loop", "sleep", "pause", "next"} => mode = "strobe"

(* The steps of the scan thread that are no part of a request.              *)
LEMMA Moves ==
  ASSUME TypeOK, LoopInv,
         \/ StartScan \/ InitLoop \/ Slept \/ NextLoop \/ CountCancelled \/ Flush
         \/ Finish \/ Destroy \/ Join \/ AskFails \/ StartFails \/ SendFails
         \/ CountReached \/ (MaskStep /\ pc' # pc)
  PROVE  /\ ~asked /\ ~asked'
         /\ UNCHANGED <<trouble, kind, mode, ctrl, abort, stopped, running>>
         /\ UNCHANGED <<state, change, pos, current, batch, fifo>>
         /\ \/ pc = "start" /\ pc' = IF mode = "strobe" THEN "begin" ELSE "init"
            \/ pc = "init" /\ pc' = IF mode = "strobe" THEN "run" ELSE "begin"
            \/ pc = "loop" /\ pc' = "sleep"
            \/ pc = "sleep" /\ pc' = "pause" /\ AllRead
            \/ pc = "next" /\ pc' \in {"stop", "init"}
            \/ pc = "count" /\ pc' = "stop"
            \/ pc = "flush" /\ pc' = "finish"
            \/ pc = "finish" /\ pc' = "destroy"
            \/ pc = "destroy" /\ pc' = IF state \in {"STOP", "ERROR"} THEN "join" ELSE "last"
            \/ pc = "join" /\ pc' = "off" /\ pos = "gone"
            \/ pc = "start" /\ pc' = "off"
            \/ /\ pc \in {"run", "pause", "stop", "last"} /\ state = "ERROR"
               /\ pc' = IF pc = "last" THEN "terminated"
                        ELSE IF mode = "strobe" THEN "flush" ELSE "destroy"
            \/ /\ pc \in {"run", "loop", "count"} /\ "send fails" \in trouble
               /\ pc' = IF mode = "strobe" THEN "flush" ELSE "destroy"
         /\ pc' # "destroy" \/ pc # "finish" => UNCHANGED finished
<1> USE DEF control, flags, readout, Go, LoopInv
<1>1. CASE StartScan BY <1>1 DEF StartScan
<1>2. CASE InitLoop BY <1>2 DEF InitLoop
<1>3. CASE Slept BY <1>3 DEF Slept
<1>4. CASE NextLoop BY <1>4 DEF NextLoop
<1>5. CASE CountCancelled BY <1>5 DEF CountCancelled
<1>6. CASE Flush BY <1>6 DEF Flush
<1>7. CASE Finish BY <1>7 DEF Finish
<1>8. CASE Destroy BY <1>8 DEF Destroy
<1>9. CASE Join BY <1>9 DEF Join
<1>10. CASE AskFails
  <2>1. ~asked BY <1>10, Zenon DEF AskFails
  <2> QED BY <1>10, <2>1 DEF AskFails, Throw, Wanted
<1>11. CASE StartFails BY <1>11 DEF StartFails
<1>12. CASE SendFails
  <2>1. ~asked
    <3>1. CASE pc \in {"loop", "count"} BY <3>1
    <3>2. CASE pc = "run" BY <1>12, <3>2, Zenon DEF SendFails
    <3> QED BY <1>12, <3>1, <3>2 DEF SendFails
  <2> QED BY <1>12, <2>1 DEF SendFails, Throw
<1>13. CASE CountReached BY <1>13 DEF CountReached
<1>14. CASE MaskStep /\ pc' # pc BY <1>14 DEF MaskStep
<1> QED
  BY <1>1, <1>2, <1>3, <1>4, <1>5, <1>6, <1>7, <1>8, <1>9, <1>10, <1>11,
     <1>12, <1>13, <1>14

(* The steps of the CtrlThread and the user.                                *)
LEMMA Watching ==
  ASSUME \/ NewScanIgnored \/ Started \/ NotStarted \/ Watch \/ Poll \/ GiveUp
         \/ Collected \/ Abort
  PROVE  UNCHANGED <<trouble, mode, thread, readout, fifo, hist>>
BY DEF NewScanIgnored, BeginScan, Started, NotStarted, Watch, Poll, GiveUp, Collected,
  Abort, thread

(* A step keeps the request and its answer in order.                        *)
LEMMA HandStep ==
  ASSUME TypeOK, LoopInv, HandInv, [Next]_vars
  PROVE  HandInv'
<1> USE DEF thread, readout
<1>1. ASSUME UNCHANGED <<mode, pc, asked, state, change, pos, current>> PROVE HandInv'
  BY <1>1 DEF HandInv
<1>2. CASE \/ NewScanIgnored \/ Started \/ NotStarted \/ Watch \/ Poll \/ GiveUp
           \/ Collected \/ Abort
  BY <1>1, <1>2, Watching
<1>3. CASE NewScan
  <2>1. pc = "off" /\ pc' = "start" /\ UNCHANGED <<asked, state, change, pos, current>>
    BY <1>3 DEF NewScan, BeginScan
  <2> QED BY <2>1 DEF HandInv, LoopInv
<1>4. CASE \/ StartScan \/ InitLoop \/ Slept \/ NextLoop \/ CountCancelled \/ Flush
           \/ Finish \/ Destroy \/ Join \/ AskFails \/ StartFails \/ SendFails
           \/ CountReached \/ (MaskStep /\ pc' # pc)
  <2> USE DEF HandInv, LoopInv
  <2>1. /\ ~asked /\ ~asked' /\ UNCHANGED <<mode, state, change, pos, current>>
    BY <1>4, Moves
  <2>2. CASE pc = "start" /\ pc' = IF mode = "strobe" THEN "begin" ELSE "init"
    BY <2>1, <2>2 DEF TypeOK
  <2>3. CASE pc = "init" /\ pc' = IF mode = "strobe" THEN "run" ELSE "begin"
    BY <2>1, <2>3 DEF TypeOK
  <2>4. CASE \/ pc = "loop" /\ pc' = "sleep"
             \/ pc = "sleep" /\ pc' = "pause"
             \/ pc = "next" /\ pc' \in {"stop", "init"}
             \/ pc = "count" /\ pc' = "stop"
    BY <2>1, <2>4
  <2>5. CASE \/ pc = "flush" /\ pc' = "finish"
             \/ pc = "finish" /\ pc' = "destroy"
    BY <2>1, <2>5
  <2>6. CASE pc = "destroy" /\ pc' = IF state \in {"STOP", "ERROR"} THEN "join" ELSE "last"
    BY <2>1, <2>6
  <2>7. CASE \/ pc = "join" /\ pc' = "off" /\ pos = "gone"
             \/ pc = "start" /\ pc' = "off"
    BY <2>1, <2>7
  <2>8. CASE /\ pc \in {"run", "pause", "stop", "last"} /\ state = "ERROR"
             /\ pc' = IF pc = "last" THEN "terminated"
                      ELSE IF mode = "strobe" THEN "flush" ELSE "destroy"
    BY <2>1, <2>8
  <2>9. CASE /\ pc \in {"run", "loop", "count"} /\ "send fails" \in trouble
             /\ pc' = IF mode = "strobe" THEN "flush" ELSE "destroy"
    BY <2>1, <2>9
  <2> HIDE DEF HandInv, LoopInv
  <2> QED
    BY <1>4, <2>2, <2>3, <2>4, <2>5, <2>6, <2>7, <2>8, <2>9, Moves
<1>5. CASE (MaskStep /\ pc' = pc) \/ Hits
  BY <1>1, <1>5 DEF MaskStep, Hits, control, Go
<1>6. CASE Begin
  <2>1. ~change' BY <1>6, Zenon DEF Begin
  <2>2. pc = "begin" /\ UNCHANGED <<mode, asked>> BY <1>6 DEF Begin, control, Go
  <2>3. /\ state' = "PAUSE" /\ pos' = "top" /\ current' = "PAUSE"
        /\ pc' \in {IF mode = "strobe" THEN "init" ELSE "run", "destroy"}
    BY <1>6 DEF Begin, Go
  <2> QED BY <2>1, <2>2, <2>3 DEF HandInv, LoopInv, TypeOK
<1>7. CASE Ask
  <2>1. change' /\ asked' /\ ~asked /\ state # "ERROR" BY <1>7, Zenon DEF Ask
  <2>2. UNCHANGED <<mode, pc, pos, current>> BY <1>7 DEF Ask, control
  <2>3. /\ pc \in {"run", "pause", "stop", "last"}
        /\ state' = IF pc = "run" THEN "RUN" ELSE IF pc = "pause" THEN "PAUSE" ELSE "STOP"
    BY <1>7, Asking
  <2>4. pos # "none" BY <2>3 DEF HandInv
  <2> QED BY <2>1, <2>2, <2>3, <2>4 DEF HandInv
<1>8. CASE GoOn
  <2>1. ~asked' /\ asked /\ ~change BY <1>8, Zenon DEF GoOn, Acknowledged
  <2>2. UNCHANGED <<mode, state, change, pos, current>> BY <1>8 DEF GoOn, control
  <2>3. pc \in {"run", "pause", "stop", "last"} BY <2>1 DEF LoopInv
  <2>4. pc' = CASE pc = "run" /\ mode = "strobe" -> "loop"
                [] pc = "run" /\ mode # "strobe" -> "count"
                [] pc = "pause" -> "next"
                [] pc = "stop" -> "flush"
                [] pc = "last" -> "join"
    BY <1>8, <2>3, Answering
  <2>5. pc = "last" => pos = "gone" BY <2>1 DEF HandInv, LoopInv
  <2>6. pc = "pause" => state = "PAUSE" BY <2>1 DEF HandInv
  <2> QED BY <2>1, <2>2, <2>3, <2>4, <2>5, <2>6 DEF HandInv
<1>9. CASE Top
  <2>1. pos = "top" /\ state # "ERROR" BY <1>9 DEF Top, LoopInv
  <2>2. ~change' BY <1>9, Zenon DEF Top
  <2>3. /\ current' = state
        /\ pos' = "turn" \/ pos' = "gone"
        /\ state = "STOP" => pos' = "gone"
    BY <1>9, <2>1, Zenon DEF Top, HandInv
  <2>4. UNCHANGED <<mode, pc, asked, state>> BY <1>9 DEF Top, control
  <2>5. pc \notin {"off", "start", "begin", "join"} /\ ~(pc = "init" /\ mode = "source")
    BY <2>1 DEF HandInv
  <2> QED BY <2>1, <2>2, <2>3, <2>4, <2>5 DEF HandInv
<1>10. CASE Turn
  <2>1. /\ pos = "turn" /\ pos' = IF current = "RUN" THEN "read" ELSE "park"
        /\ UNCHANGED <<mode, pc, asked, state, change, current>>
    BY <1>10 DEF Turn, control
  <2> QED BY <2>1 DEF HandInv
<1>11. CASE Wake \/ GetData \/ Decode
  <2>1. /\ pos \in {"park", "read", "decode"} /\ pos' \in {"top", "decode"}
        /\ pos' = "decode" => pos = "read"
        /\ UNCHANGED <<mode, pc, asked, state, change, current>>
    BY <1>11 DEF Wake, GetData, Decode, control
  <2> QED BY <2>1 DEF HandInv
<1>12. CASE ReadFails
  <2>1. /\ pos = "read" /\ pos' = "gone" /\ state' = "ERROR"
        /\ UNCHANGED <<mode, pc, asked, change, current>>
    BY <1>12 DEF ReadFails, control
  <2> QED BY <2>1 DEF HandInv
<1>13. CASE UNCHANGED vars BY <1>1, <1>13 DEF vars, control
<1> QED
  BY <1>2, <1>3, <1>4, <1>5, <1>6, <1>7, <1>8, <1>9, <1>10, <1>11, <1>12,
     <1>13, Actions

(* The request and its answer are always in order.                          *)
THEOREM HandAlways == Spec => [](TypeOK /\ LoopInv /\ HandInv)
<1>1. ASSUME Init PROVE HandInv
  <2>1. ~change /\ ~asked BY <1>1, Zenon DEF Init
  <2>2. pc = "off" /\ state = "PAUSE" /\ pos = "none" /\ current = "PAUSE"
    BY <1>1 DEF Init
  <2> QED BY <2>1, <2>2 DEF HandInv
<1>2. Init => TypeOK /\ LoopInv BY TypeInit
<1> QED BY <1>1, <1>2, TypeStep, HandStep, PTL DEF Spec

-----------------------------------------------------------------------------
(* As long as all commands can be sent, the read-out thread is gone when    *)
(* the raw file is closed; and, as long as the CtrlThread does not give up  *)
(* on a scan thread that is at work, it learns of the end of a scan, or     *)
(* stops waiting for it, only when the read-out thread is still.            *)

Ended   == pc \in {"off", "destroy", "last", "join", "terminated"}
Stuck   == asked /\ change /\ pos = "gone"
Still   == pos \in {"none", "gone"} \/ current # "RUN"

EndInv ==
  "send fails" \notin trouble =>
    /\ pc \in {"flush", "finish"} => pos = "gone"
    /\ Ended => Still /\ (state # "RUN" \/ pos = "gone")

SeenInv ==
  "send fails" \notin trouble /\ ~MayGiveUp =>
    /\ finished => Ended
    /\ ctrl \in {"collect", "idle"} => ~finished /\ (Ended \/ Stuck)
    /\ ctrl \in {"watch", "poll"} /\ ~running /\ ~finished => Ended

(* As soon as one turn of the CtrlThread was counted, there was a stop.     *)
StopInv == abort \/ waits # 0 => stopped

(* The troubles do not change, and that there was a stop stays true.        *)
LEMMA Lasting ==
  ASSUME [Next]_vars
  PROVE  UNCHANGED trouble /\ (stopped => stopped')
<1>1. UNCHANGED trouble
  BY DEF Next, Ctrl, Scan, Reader, NewScan, NewScanIgnored, BeginScan, Started, NotStarted,
    Watch, Poll, GiveUp, Collected, Abort, StartScan, InitLoop, Begin, MaskStep, Slept,
    NextLoop, CountCancelled, Flush, Finish, Destroy, Join, Ask, GoOn, AskFails,
    StartFails, SendFails, Hits, CountReached, Top, Turn, Wake, GetData, Decode,
    ReadFails, vars, control
<1>2. CASE Abort BY <1>1, <1>2, Zenon DEF Abort
<1>3. CASE ~Abort
  <2>1. UNCHANGED stopped
    BY <1>3 DEF Next, Ctrl, Scan, Reader, NewScan, NewScanIgnored, BeginScan, Started,
      NotStarted, Watch, Poll, GiveUp, Collected, StartScan, InitLoop, Begin, MaskStep,
      Slept, NextLoop, CountCancelled, Flush, Finish, Destroy, Join, Ask, GoOn, AskFails,
      StartFails, SendFails, Hits, CountReached, Top, Turn, Wake, GetData, Decode,
      ReadFails, vars, control
  <2> QED BY <1>1, <2>1, Zenon
<1> QED BY <1>2, <1>3

(* A step keeps the history of stops.                                       *)
LEMMA StopStep ==
  ASSUME TypeOK, StopInv, [Next]_vars
  PROVE  StopInv'
<1>1. ASSUME UNCHANGED <<abort, waits>> PROVE StopInv'
  BY <1>1, Lasting, Zenon DEF StopInv
<1>2. CASE NewScan \/ NewScanIgnored
  <2>1. ~abort' BY <1>2, Zenon DEF NewScan, NewScanIgnored, BeginScan
  <2>2. UNCHANGED waits BY <1>2 DEF NewScan, NewScanIgnored, BeginScan
  <2> QED BY <2>1, <2>2, Lasting, Zenon DEF StopInv
<1>3. CASE Started
  <2>1. waits' = 0 /\ UNCHANGED abort BY <1>3 DEF Started
  <2> QED BY <2>1, Lasting, Zenon DEF StopInv
<1>4. CASE Watch
  <2>1. abort' => abort BY <1>4, Zenon DEF Watch
  <2>2. waits' # waits => abort BY <1>4, Zenon DEF Watch
  <2> QED BY <2>1, <2>2, Lasting, Zenon DEF StopInv
<1>5. CASE Abort
  <2>1. stopped' BY <1>5, Zenon DEF Abort
  <2> QED BY <2>1, Zenon DEF StopInv
<1>6. CASE NotStarted \/ Poll \/ GiveUp \/ Collected
  BY <1>1, <1>6 DEF NotStarted, Poll, GiveUp, Collected
<1>7. CASE Scan \/ StartFails \/ SendFails \/ Hits \/ CountReached \/ Reader \/ ReadFails
  <2>1. UNCHANGED control
    BY <1>7 DEF Scan, Reader, StartScan, InitLoop, Begin, MaskStep, Slept, NextLoop,
      CountCancelled, Flush, Finish, Destroy, Join, Ask, GoOn, AskFails, StartFails,
      SendFails, Hits, CountReached, Top, Turn, Wake, GetData, Decode, ReadFails
  <2> QED BY <1>1, <2>1 DEF control
<1>8. CASE UNCHANGED vars BY <1>1, <1>8 DEF vars, control
<1> QED BY <1>2, <1>3, <1>4, <1>5, <1>6, <1>7, <1>8 DEF Next, Ctrl

(* A step keeps the end of a scan in order.                                 *)
LEMMA EndStep ==
  ASSUME TypeOK, LoopInv, HandInv, EndInv, [Next]_vars
  PROVE  EndInv'
<1> USE DEF thread, readout, Ended, Still
<1>1. ASSUME UNCHANGED <<trouble, pc, asked, state, change, pos, current>>
      PROVE  EndInv'
  BY <1>1, Zenon DEF EndInv
<1>2. CASE \/ NewScanIgnored \/ Started \/ NotStarted \/ Watch \/ Poll \/ GiveUp
           \/ Collected \/ Abort
  BY <1>1, <1>2, Watching
<1>3. CASE NewScan
  <2>1. pc' = "start" /\ UNCHANGED trouble BY <1>3 DEF NewScan, BeginScan
  <2> QED BY <2>1 DEF EndInv
<1>4. CASE \/ StartScan \/ InitLoop \/ Slept \/ NextLoop \/ CountCancelled \/ Flush
            \/ Finish \/ Destroy \/ Join \/ AskFails \/ StartFails \/ SendFails
            \/ CountReached \/ (MaskStep /\ pc' # pc)
  <2>1. UNCHANGED <<trouble, state, pos, current>> BY <1>4, Moves
  <2>2. CASE \/ pc = "start" /\ pc' = IF mode = "strobe" THEN "begin" ELSE "init"
             \/ pc = "init" /\ pc' = IF mode = "strobe" THEN "run" ELSE "begin"
             \/ pc = "loop" /\ pc' = "sleep"
             \/ pc = "sleep" /\ pc' = "pause"
             \/ pc = "next" /\ pc' \in {"stop", "init"}
             \/ pc = "count" /\ pc' = "stop"
    <3>1. ~Ended /\ ~Ended' /\ pc' \notin {"flush", "finish"} BY <2>2
    <3> QED BY <2>1, <2>2, <3>1 DEF EndInv
  <2>3. CASE pc = "flush" /\ pc' = "finish"
    BY <2>1, <2>3 DEF EndInv
  <2>4. CASE pc = "finish" /\ pc' = "destroy"
    BY <2>1, <2>4 DEF EndInv
  <2>5. CASE pc = "destroy" /\ pc' = IF state \in {"STOP", "ERROR"} THEN "join" ELSE "last"
    BY <2>1, <2>5 DEF EndInv
  <2>6. CASE \/ pc = "join" /\ pc' = "off" /\ pos = "gone"
             \/ pc = "start" /\ pc' = "off"
    BY <2>1, <2>6 DEF EndInv, HandInv
  <2>7. CASE /\ pc \in {"run", "pause", "stop", "last"} /\ state = "ERROR"
             /\ pc' = IF pc = "last" THEN "terminated"
                      ELSE IF mode = "strobe" THEN "flush" ELSE "destroy"
    <3>1. pos = "gone" BY <2>7 DEF LoopInv
    <3> QED BY <2>1, <2>7, <3>1 DEF EndInv
  <2>8. CASE "send fails" \in trouble BY <2>1, <2>8 DEF EndInv
  <2> QED
    BY <1>4, <2>2, <2>3, <2>4, <2>5, <2>6, <2>7, <2>8, Moves
<1>5. CASE (MaskStep /\ pc' = pc) \/ Hits
  BY <1>1, <1>5 DEF MaskStep, Hits, control, Go
<1>6. CASE Begin
  <2>1. UNCHANGED trouble BY <1>6 DEF Begin, control
  <2>2. /\ state' = "PAUSE" /\ current' = "PAUSE"
        /\ pc' \in {IF mode = "strobe" THEN "init" ELSE "run", "destroy"}
    BY <1>6 DEF Begin, Go
  <2> QED BY <2>1, <2>2 DEF EndInv
<1>7. CASE Ask
  <2>1. UNCHANGED <<trouble, pc, pos, current>> BY <1>7 DEF Ask, control
  <2>2. /\ pc \in {"run", "pause", "stop", "last"}
        /\ state' = IF pc = "run" THEN "RUN" ELSE IF pc = "pause" THEN "PAUSE" ELSE "STOP"
    BY <1>7, Asking
  <2> QED BY <2>1, <2>2 DEF EndInv
<1>8. CASE GoOn
  <2>1. asked /\ ~change BY <1>8, Zenon DEF GoOn, Acknowledged
  <2>2. UNCHANGED <<trouble, state, change, pos, current>>
    BY <1>8 DEF GoOn, control
  <2>3. pc \in {"run", "pause", "stop", "last"} BY <2>1 DEF LoopInv
  <2>4. pc' = CASE pc = "run" /\ mode = "strobe" -> "loop"
                [] pc = "run" /\ mode # "strobe" -> "count"
                [] pc = "pause" -> "next"
                [] pc = "stop" -> "flush"
                [] pc = "last" -> "join"
    BY <1>8, <2>3, Answering
  <2>5. pc \in {"stop", "last"} => pos = "gone" BY <2>1 DEF HandInv, LoopInv
  <2> QED BY <2>1, <2>2, <2>3, <2>4, <2>5 DEF EndInv
<1>9. CASE Top
  <2>1. pos = "top" /\ state # "ERROR" BY <1>9 DEF Top, LoopInv
  <2>2. current' = state BY <1>9, <2>1, Zenon DEF Top, HandInv
  <2>3. UNCHANGED <<trouble, pc, state>>
    BY <1>9 DEF Top, control
  <2> QED BY <2>1, <2>2, <2>3 DEF EndInv
<1>10. CASE Turn \/ Wake \/ GetData \/ Decode
  <2>1. /\ pos \notin {"none", "gone"}
        /\ UNCHANGED <<trouble, pc, asked, state, change, current>>
    BY <1>10 DEF Turn, Wake, GetData, Decode, control
  <2> QED BY <2>1 DEF EndInv
<1>11. CASE ReadFails
  <2>1. /\ pos' = "gone" /\ pos # "gone"
        /\ UNCHANGED <<trouble, pc, asked, change, current>>
    BY <1>11 DEF ReadFails, control
  <2> QED BY <2>1 DEF EndInv
<1>12. CASE UNCHANGED vars BY <1>1, <1>12 DEF vars, control
<1> QED
  BY <1>2, <1>3, <1>4, <1>5, <1>6, <1>7, <1>8, <1>9, <1>10, <1>11, <1>12, Actions

(* A step keeps what the CtrlThread sees in order.                          *)
LEMMA SeenStep ==
  ASSUME TypeOK, LoopInv, HandInv, StopInv, SeenInv, [Next]_vars
  PROVE  SeenInv'
<1> USE DEF thread, readout, Ended, Stuck
<1>0. MayGiveUp => MayGiveUp' BY Lasting, Zenon DEF MayGiveUp
<1>1. ASSUME UNCHANGED <<trouble, ctrl, running, finished, pc, asked, state, change,
                         pos, current>>
      PROVE  SeenInv'
  BY <1>0, <1>1, Zenon DEF SeenInv
<1>2. CASE Started
  <2>1. UNCHANGED <<trouble, pc, asked, state, change, pos, current>>
    BY <1>2, Watching
  <2>2. /\ running \/ finished
        /\ running' = (running /\ ~finished) /\ ~finished'
    BY <1>2, Zenon DEF Started, RunStatus
  <2>3. ctrl' = "watch" BY <1>2 DEF Started
  <2> QED BY <1>0, <2>1, <2>2, <2>3, Zenon DEF SeenInv
<1>3. CASE NotStarted
  <2>1. UNCHANGED <<trouble, pc, asked, state, change, pos, current>>
    BY <1>3, Watching
  <2>2. ~running /\ ~finished /\ ~finished'
    BY <1>3, Zenon DEF NotStarted, flags
  <2>3. ctrl' = "idle" /\ pc = "off" BY <1>3 DEF NotStarted
  <2> QED BY <1>0, <2>1, <2>2, <2>3 DEF SeenInv
<1>4. CASE Watch
  <2>1. UNCHANGED <<trouble, pc, asked, state, change, pos, current>>
    BY <1>4, Watching
  <2>2. running' = running /\ finished' = finished BY <1>4, Zenon DEF Watch
  <2>3. ctrl = "watch" /\ ctrl' = "poll" BY <1>4 DEF Watch
  <2> QED BY <1>0, <2>1, <2>2, <2>3 DEF SeenInv
<1>5. CASE Poll
  <2>1. UNCHANGED <<trouble, pc, asked, state, change, pos, current>>
    BY <1>5, Watching
  <2>2. running' = (running /\ ~finished) /\ ~finished' BY <1>5, Zenon DEF Poll, Busy, RunStatus
  <2>3. /\ ctrl = "poll"
        /\ (running /\ ~finished) => ctrl' = "watch"
        /\ ~(running /\ ~finished) => ctrl' = "collect"
    BY <1>5, Zenon DEF Poll, Busy
  <2>4. CASE running /\ ~finished BY <1>0, <2>1, <2>2, <2>3, <2>4 DEF SeenInv
  <2>5. CASE ~(running /\ ~finished) BY <1>0, <2>1, <2>2, <2>3, <2>5 DEF SeenInv
  <2> QED BY <2>4, <2>5
<1>6. CASE GiveUp
  <2>1. UNCHANGED <<trouble, pc, asked, state, change, pos, current>>
    BY <1>6, Watching
  <2>2. ~finished' BY <1>6, Zenon DEF GiveUp, Busy, flags
  <2>3. ctrl' = "collect" /\ ("long" \in trouble \/ pc = "off" \/ Stuck)
    BY <1>6 DEF GiveUp, Hopeless
  <2>4. stopped
    <3>1. waits # 0 BY <1>6, ScanAssumption DEF GiveUp
    <3> QED BY <3>1 DEF StopInv
  <2>5. ~MayGiveUp => pc = "off" \/ Stuck BY <2>3, <2>4, Zenon DEF MayGiveUp
  <2> QED BY <1>0, <2>1, <2>2, <2>3, <2>5 DEF SeenInv
<1>7. CASE Collected
  <2>1. UNCHANGED <<trouble, pc, asked, state, change, pos, current>>
    BY <1>7, Watching
  <2>2. finished' = finished BY <1>7, Zenon DEF Collected, flags
  <2>3. ctrl = "collect" /\ ctrl' = "idle" BY <1>7 DEF Collected
  <2> QED BY <1>0, <2>1, <2>2, <2>3 DEF SeenInv
<1>8. CASE Abort
  <2>1. UNCHANGED <<trouble, ctrl, running, finished, pc, asked, state, change, pos, current>>
    BY <1>8 DEF Abort, flags
  <2> QED BY <1>1, <2>1
<1>9. CASE NewScan
  <2>1. /\ pc' = "start" /\ ctrl = "idle" /\ ctrl' = "wait"
        /\ UNCHANGED <<trouble, finished, asked, state, change, pos, current>>
    BY <1>9 DEF NewScan, BeginScan, flags
  <2> QED BY <1>0, <2>1 DEF SeenInv
<1>9a. CASE NewScanIgnored
  <2>1. /\ ctrl' = "wait"
        /\ UNCHANGED <<trouble, running, finished, pc, asked, state, change, pos, current>>
    BY <1>9a DEF NewScanIgnored, BeginScan, flags
  <2> QED BY <1>0, <2>1 DEF SeenInv
<1>10. CASE \/ StartScan \/ InitLoop \/ Slept \/ NextLoop \/ CountCancelled \/ Flush
            \/ Finish \/ Destroy \/ Join \/ AskFails \/ StartFails \/ SendFails
            \/ CountReached \/ (MaskStep /\ pc' # pc)
  <2>1. /\ ~asked /\ ~asked'
        /\ UNCHANGED <<trouble, ctrl, running, state, change, pos, current>>
    BY <1>10, Moves
  <2>2. pc' # "destroy" \/ pc # "finish" => UNCHANGED finished
    BY <1>10, Moves
  <2>3. ~Stuck /\ ~Stuck' BY <2>1
  <2>4. CASE \/ pc = "start" /\ pc' = IF mode = "strobe" THEN "begin" ELSE "init"
             \/ pc = "init" /\ pc' = IF mode = "strobe" THEN "run" ELSE "begin"
             \/ pc = "loop" /\ pc' = "sleep"
             \/ pc = "sleep" /\ pc' = "pause"
             \/ pc = "next" /\ pc' \in {"stop", "init"}
             \/ pc = "count" /\ pc' = "stop"
    <3>1. ~Ended /\ ~Ended' /\ pc' \notin {"flush", "finish"} BY <2>4
    <3> QED BY <1>0, <2>1, <2>2, <2>3, <2>4, <3>1 DEF SeenInv
  <2>5. CASE pc = "flush" /\ pc' = "finish"
    BY <1>0, <2>1, <2>2, <2>3, <2>5 DEF SeenInv
  <2>6. CASE pc = "finish" /\ pc' = "destroy"
    BY <1>0, <2>1, <2>3, <2>6 DEF SeenInv
  <2>7. CASE pc = "destroy" /\ pc' = IF state \in {"STOP", "ERROR"} THEN "join" ELSE "last"
    BY <1>0, <2>1, <2>2, <2>3, <2>7 DEF SeenInv
  <2>8. CASE \/ pc = "join" /\ pc' = "off" /\ pos = "gone"
             \/ pc = "start" /\ pc' = "off"
    BY <1>0, <2>1, <2>2, <2>3, <2>8 DEF SeenInv, HandInv
  <2>9. CASE /\ pc \in {"run", "pause", "stop", "last"} /\ state = "ERROR"
             /\ pc' = IF pc = "last" THEN "terminated"
                      ELSE IF mode = "strobe" THEN "flush" ELSE "destroy"
    <3>1. pos = "gone" BY <2>9 DEF LoopInv
    <3> QED BY <1>0, <2>1, <2>2, <2>3, <2>9, <3>1 DEF SeenInv
  <2>10. CASE "send fails" \in trouble BY <1>0, <2>1, <2>10 DEF SeenInv
  <2> QED
    BY <1>10, <2>4, <2>5, <2>6, <2>7, <2>8, <2>9, <2>10, Moves
<1>11. CASE (MaskStep /\ pc' = pc) \/ Hits
  BY <1>1, <1>11 DEF MaskStep, Hits, control, flags, Go
<1>12. CASE Begin
  <2>1. running' /\ ~finished' BY <1>12, Zenon DEF Begin
  <2>2. pc = "begin" /\ UNCHANGED <<trouble, ctrl, asked>> BY <1>12 DEF Begin, control, Go
  <2>3. /\ state' = "PAUSE" /\ current' = "PAUSE"
        /\ pc' \in {IF mode = "strobe" THEN "init" ELSE "run", "destroy"}
    BY <1>12 DEF Begin, Go
  <2>4. ~asked BY <2>2 DEF LoopInv
  <2> QED BY <1>0, <2>1, <2>2, <2>3, <2>4 DEF SeenInv
<1>13. CASE Ask
  <2>1. ~asked BY <1>13, Zenon DEF Ask
  <2>2. UNCHANGED <<trouble, ctrl, running, finished, pc, pos, current>>
    BY <1>13 DEF Ask, control, flags
  <2>3. /\ pc \in {"run", "pause", "stop", "last"}
        /\ state' = IF pc = "run" THEN "RUN" ELSE IF pc = "pause" THEN "PAUSE" ELSE "STOP"
    BY <1>13, Asking
  <2> QED BY <1>0, <2>1, <2>2, <2>3 DEF SeenInv
<1>14. CASE GoOn
  <2>1. asked /\ ~change BY <1>14, Zenon DEF GoOn, Acknowledged
  <2>2. UNCHANGED <<trouble, ctrl, running, finished, state, change, pos, current>>
    BY <1>14 DEF GoOn, control, flags
  <2>3. pc \in {"run", "pause", "stop", "last"} BY <2>1 DEF LoopInv
  <2>4. pc' = CASE pc = "run" /\ mode = "strobe" -> "loop"
                [] pc = "run" /\ mode # "strobe" -> "count"
                [] pc = "pause" -> "next"
                [] pc = "stop" -> "flush"
                [] pc = "last" -> "join"
    BY <1>14, <2>3, Answering
  <2>5. pc \in {"stop", "last"} => pos = "gone" BY <2>1 DEF HandInv, LoopInv
  <2> QED BY <1>0, <2>1, <2>2, <2>3, <2>4, <2>5 DEF SeenInv
<1>15. CASE Top
  <2>1. pos = "top" /\ state # "ERROR" BY <1>15 DEF Top, LoopInv
  <2>2. current' = state BY <1>15, <2>1, Zenon DEF Top, HandInv
  <2>3. UNCHANGED <<trouble, ctrl, running, finished, pc, asked, state>>
    BY <1>15 DEF Top, control, flags
  <2> QED BY <1>0, <2>1, <2>2, <2>3 DEF SeenInv
<1>16. CASE Turn \/ Wake \/ GetData \/ Decode
  <2>1. /\ pos \notin {"none", "gone"}
        /\ UNCHANGED <<trouble, ctrl, running, finished, pc, asked, state, change, current>>
    BY <1>16 DEF Turn, Wake, GetData, Decode, control, flags
  <2> QED BY <1>0, <2>1 DEF SeenInv
<1>17. CASE ReadFails
  <2>1. /\ pos' = "gone" /\ pos # "gone"
        /\ UNCHANGED <<trouble, ctrl, running, finished, pc, asked, change, current>>
    BY <1>17 DEF ReadFails, control, flags
  <2> QED BY <1>0, <2>1 DEF SeenInv
<1>18. CASE UNCHANGED vars BY <1>1, <1>18 DEF vars, control, flags
<1> QED
  BY <1>2, <1>3, <1>4, <1>5, <1>6, <1>7, <1>8, <1>9, <1>9a, <1>10, <1>11, <1>12,
     <1>13, <1>14, <1>15, <1>16, <1>17, <1>18, Actions

(* The end of a scan is always in order.                                    *)
THEOREM EndAlways ==
  Spec => [](TypeOK /\ LoopInv /\ HandInv /\ StopInv /\ EndInv /\ SeenInv)
<1>1. ASSUME Init PROVE StopInv /\ EndInv /\ SeenInv
  <2>1. ~finished /\ ~abort BY <1>1, Zenon DEF Init
  <2>3. waits = 0 BY <1>1 DEF Init
  <2>2. pc = "off" /\ ctrl = "idle" /\ state = "PAUSE" /\ pos = "none"
    BY <1>1 DEF Init
  <2> QED BY <2>1, <2>2, <2>3 DEF StopInv, EndInv, SeenInv, Ended, Still
<1> QED BY <1>1, HandAlways, StopStep, EndStep, SeenStep, PTL DEF Spec

(* The decoder and its histogrammers belong to one thread at a time: while  *)
(* initLoop() replaces them and after the scan thread has gone whatever     *)
(* fails and however long a loop takes, while the raw file is closed if all *)
(* commands could be sent, and while the CtrlThread takes the histograms if *)
(* moreover it has not given up on an aborted scan with long loops.         *)
THEOREM HandsKeptOff == Spec => []HandsOff
<1>1. ASSUME TypeOK, LoopInv, HandInv, EndInv, SeenInv PROVE HandsOff
  <2>1. Working => current = "RUN" /\ pos \notin {"none", "gone"}
    BY <1>1 DEF Working, HandInv
  <2>2. pc = "init" => ~asked BY <1>1 DEF LoopInv
  <2>3. pc = "init" /\ mode = "strobe" => current # "RUN" BY <1>1, <2>2 DEF HandInv
  <2>4. pc = "init" /\ mode = "source" => pos \in {"none", "gone"} BY <1>1 DEF HandInv
  <2>5. pc = "off" => pos \in {"none", "gone"} BY <1>1 DEF HandInv
  <2>6. pc \in {"init", "off"} => ~Working BY <1>1, <2>1, <2>3, <2>4, <2>5 DEF TypeOK
  <2>7. "send fails" \notin trouble /\ pc = "flush" => pos = "gone"
    BY <1>1 DEF EndInv
  <2>8. "send fails" \notin trouble /\ ~MayGiveUp /\ ctrl = "collect" =>
          Still \/ pos = "gone"
    BY <1>1 DEF EndInv, SeenInv, Stuck
  <2> QED BY <2>1, <2>6, <2>7, <2>8 DEF HandsOff, Still
<1> QED BY <1>1, EndAlways, PTL

-----------------------------------------------------------------------------
(* Where the read-out thread can be gone, and whose data are in the FIFO    *)
(* and in the read-out thread's hands at each place of the scan thread.     *)

GoneInv ==
  /\ pos = "gone" => state \in {"STOP", "ERROR"}
  /\ pc \in {"loop", "sleep"} \/ (pc = "pause" /\ ~asked) => state \in {"RUN", "ERROR"}

(* The FIFO and the batch hold nothing but data of the current loop.        *)
Own == fifo \subseteq AllOf(loop) /\ batch \subseteq AllOf(loop)

DataInv ==
  /\ pos # "decode" => batch = {}
  /\ "slow" \notin trouble =>
       /\ OwnLoop
       /\ pc \in {"run", "loop", "sleep", "pause", "next", "count", "stop", "flush", "finish"} =>
            Own
       /\ pc \in {"destroy", "last", "join", "terminated"} =>
            Own \/ (state # "RUN" /\ Still /\ batch = {})
       /\ (pc = "init" /\ mode = "strobe") \/ pc = "next" => fifo = {} /\ batch = {}
       /\ pc = "pause" /\ state # "ERROR" => fifo = {}

(* A step keeps the places at which the read-out thread can be gone.        *)
LEMMA GoneStep ==
  ASSUME TypeOK, LoopInv, HandInv, GoneInv, [Next]_vars
  PROVE  GoneInv'
<1> USE DEF thread, readout
<1>1. ASSUME UNCHANGED <<pc, asked, state, pos>> PROVE GoneInv'
  BY <1>1 DEF GoneInv
<1>2. CASE \/ NewScanIgnored \/ Started \/ NotStarted \/ Watch \/ Poll \/ GiveUp
           \/ Collected \/ Abort
  BY <1>1, <1>2, Watching
<1>3. CASE NewScan
  <2>1. pc' = "start" /\ UNCHANGED <<state, pos>> BY <1>3 DEF NewScan, BeginScan
  <2> QED BY <2>1 DEF GoneInv
<1>4. CASE \/ StartScan \/ InitLoop \/ Slept \/ NextLoop \/ CountCancelled \/ Flush
           \/ Finish \/ Destroy \/ Join \/ AskFails \/ StartFails \/ SendFails
           \/ CountReached \/ (MaskStep /\ pc' # pc)
  <2>1. UNCHANGED <<state, pos>> BY <1>4, Moves
  <2>2. pc' \in {"loop", "sleep", "pause"} => pc \in {"loop", "sleep"}
    BY <1>4, Moves
  <2> QED BY <2>1, <2>2 DEF GoneInv
<1>5. CASE (MaskStep /\ pc' = pc) \/ Hits
  BY <1>1, <1>5 DEF MaskStep, Hits, Go
<1>6. CASE Begin
  BY <1>6 DEF Begin, Go, GoneInv
<1>7. CASE Ask
  <2>1. asked' /\ ~asked /\ state # "ERROR" BY <1>7, Zenon DEF Ask
  <2>2. UNCHANGED <<pc, pos>> BY <1>7 DEF Ask
  <2>3. /\ pc \in {"run", "pause", "stop", "last"}
        /\ state' = IF pc = "run" THEN "RUN" ELSE IF pc = "pause" THEN "PAUSE" ELSE "STOP"
    BY <1>7, Asking
  <2>4. pc = "run" => state = "PAUSE" BY <2>1 DEF HandInv
  <2> QED BY <2>1, <2>2, <2>3, <2>4 DEF GoneInv
<1>8. CASE GoOn
  <2>1. asked /\ ~change BY <1>8, Zenon DEF GoOn, Acknowledged
  <2>2. UNCHANGED <<state, pos>> BY <1>8 DEF GoOn
  <2>3. pc \in {"run", "pause", "stop", "last"} BY <2>1 DEF LoopInv
  <2>4. pc' \in {"loop", "sleep", "pause"} => pc = "run"
    BY <1>8, <2>3, Answering
  <2> QED BY <2>1, <2>2, <2>4 DEF GoneInv, HandInv
<1>9. CASE Top
  <2>1. /\ pos' = "turn" \/ (pos' = "gone" /\ state = "STOP")
        /\ UNCHANGED <<pc, asked, state>>
    BY <1>9 DEF Top
  <2> QED BY <2>1 DEF GoneInv
<1>10. CASE Turn \/ Wake \/ GetData \/ Decode
  <2>1. pos' # "gone" /\ UNCHANGED <<pc, asked, state>>
    BY <1>10 DEF Turn, Wake, GetData, Decode
  <2> QED BY <2>1 DEF GoneInv
<1>11. CASE ReadFails
  BY <1>11 DEF ReadFails, GoneInv
<1>12. CASE UNCHANGED vars BY <1>1, <1>12 DEF vars
<1> QED
  BY <1>2, <1>3, <1>4, <1>5, <1>6, <1>7, <1>8, <1>9, <1>10, <1>11, <1>12, Actions

(* A step keeps the data of the loops apart.                                *)
LEMMA DataStep ==
  ASSUME TypeOK, LoopInv, HandInv, GoneInv, DataInv, [Next]_vars
  PROVE  DataInv'
<1> USE DEF thread, readout
<1>1. ASSUME UNCHANGED <<trouble, mode, pc, loop, state, pos, current, batch, fifo, hist>>
      PROVE  DataInv'
  BY <1>1 DEF DataInv, OwnLoop, Own, Still, AllOf
<1>2. CASE \/ NewScanIgnored \/ Started \/ NotStarted \/ Watch \/ Poll \/ GiveUp
           \/ Collected \/ Abort
  BY <1>1, <1>2, Watching
<1>3. CASE NewScan
  <2>1. pc' = "start" /\ UNCHANGED <<trouble, pos, batch, hist>> BY <1>3 DEF NewScan, BeginScan
  <2> QED BY <2>1 DEF DataInv, OwnLoop, AllOf
<1>4. CASE StartScan
  <2>1. /\ pc' \in {"begin", "init"} /\ (pc' = "init" => mode # "strobe")
        /\ hist' = NoHists /\ UNCHANGED <<trouble, mode, pos, batch>>
    BY <1>4 DEF StartScan, control
  <2>2. OwnLoop' BY <2>1 DEF OwnLoop, NoHists
  <2> QED BY <2>1, <2>2 DEF DataInv
<1>5. CASE InitLoop
  <2>1. /\ pc = "init" /\ pc' = IF mode = "strobe" THEN "run" ELSE "begin"
        /\ UNCHANGED <<trouble, mode, pos, batch, fifo, hist>>
    BY <1>5 DEF InitLoop, control
  <2>2. "slow" \notin trouble /\ pc' = "run" => Own'
    BY <2>1 DEF DataInv, Own
  <2> QED BY <2>1, <2>2 DEF DataInv, OwnLoop, AllOf
<1>6. CASE Begin
  <2>1. /\ pc = "begin" /\ pos' = "top"
        /\ UNCHANGED <<trouble, mode, batch, hist>> /\ state' = "PAUSE" /\ current' = "PAUSE"
        /\ \/ pc' = (IF mode = "strobe" THEN "init" ELSE "run") /\ fifo' = {}
           \/ pc' = "destroy"
    BY <1>6 DEF Begin, Go, control
  <2>2. batch = {} BY <2>1 DEF HandInv, DataInv
  <2> QED BY <2>1, <2>2 DEF DataInv, OwnLoop, AllOf, Own, Still
<1>7. CASE MaskStep
  <2>1. /\ pc = "loop" /\ pc' \in {"loop", "sleep"}
        /\ fifo' \subseteq fifo \cup AllOf(loop)
        /\ UNCHANGED <<trouble, mode, loop, state, pos, current, batch, hist>>
    <3>1. CASE mask < MaskSteps
      <4>1. mask + 1 \in 1..MaskSteps BY <3>1, LoopsAssumption DEF TypeOK
      <4> QED BY <1>7, <3>1, <4>1 DEF MaskStep, Go, control, AllOf
    <3>2. CASE ~(mask < MaskSteps) BY <1>7, <3>2 DEF MaskStep, Go, control
    <3> QED BY <3>1, <3>2
  <2>2. "slow" \notin trouble => Own' BY <2>1 DEF DataInv, Own, AllOf
  <2> QED BY <2>1, <2>2 DEF DataInv, OwnLoop, AllOf
<1>8. CASE Hits
  <2>1. /\ pc = "count" /\ UNCHANGED <<trouble, thread, readout, hist>>
        /\ fifo' \subseteq fifo \cup AllOf(loop)
    BY <1>8 DEF Hits, control, AllOf
  <2>2. "slow" \notin trouble => Own' BY <2>1 DEF DataInv, Own, AllOf
  <2> QED BY <2>1, <2>2 DEF DataInv, OwnLoop, AllOf
<1>9. CASE \/ Slept \/ NextLoop \/ CountCancelled \/ Flush
           \/ Finish \/ Destroy \/ Join \/ AskFails \/ StartFails \/ SendFails
           \/ CountReached
  <2>1. /\ ~asked
        /\ UNCHANGED <<trouble, mode, state, pos, current, batch, fifo>>
    BY <1>9, Moves
  <2>2. UNCHANGED <<loop, hist>>
    BY <1>9 DEF Slept, NextLoop, CountCancelled, Flush, Finish, Destroy, Join, AskFails,
      StartFails, SendFails, CountReached, Go, Throw
  <2>3. /\ OwnLoop' <=> OwnLoop
        /\ Own' <=> Own
        /\ Still' <=> Still
    BY <2>1, <2>2 DEF OwnLoop, Own, Still, AllOf
  <2>4. CASE pc = "sleep" /\ pc' = "pause" /\ AllRead
    <3>1. "slow" \notin trouble /\ state # "ERROR" => fifo = {}
      BY <2>4 DEF AllRead, GoneInv
    <3> QED BY <2>1, <2>3, <2>4, <3>1 DEF DataInv
  <2>5. CASE \/ pc = "loop" /\ pc' = "sleep"
             \/ pc = "next" /\ pc' \in {"stop", "init"}
             \/ pc = "count" /\ pc' = "stop"
             \/ pc = "flush" /\ pc' = "finish"
    BY <2>1, <2>3, <2>5 DEF DataInv
  <2>6. CASE \/ pc = "finish" /\ pc' = "destroy"
             \/ pc = "destroy" /\ pc' = IF state \in {"STOP", "ERROR"} THEN "join" ELSE "last"
             \/ pc \in {"join", "start"} /\ pc' = "off"
    BY <2>1, <2>3, <2>6 DEF DataInv
  <2>7. CASE /\ pc \in {"run", "pause", "stop", "last"} /\ state = "ERROR"
             /\ pc' = IF pc = "last" THEN "terminated"
                      ELSE IF mode = "strobe" THEN "flush" ELSE "destroy"
    BY <2>1, <2>3, <2>7 DEF DataInv
  <2>8. CASE /\ pc \in {"run", "loop", "count"}
             /\ pc' = IF mode = "strobe" THEN "flush" ELSE "destroy"
    BY <2>1, <2>3, <2>8 DEF DataInv
  <2>9. pc \notin {"start", "init"} \/ pc' = "off"
    BY <1>9 DEF Slept, NextLoop, CountCancelled, Flush, Finish, Destroy, Join, AskFails,
      StartFails, SendFails, CountReached, Go, Wanted
  <2> QED BY <1>9, <2>4, <2>5, <2>6, <2>7, <2>8, <2>9, Moves
<1>10. CASE Ask
  <2>1. state # "ERROR" /\ UNCHANGED <<trouble, mode, pc, loop, pos, current, batch, fifo, hist>>
    BY <1>10 DEF Ask, control
  <2>2. /\ pc \in {"run", "pause", "stop", "last"}
        /\ state' = IF pc = "run" THEN "RUN" ELSE IF pc = "pause" THEN "PAUSE" ELSE "STOP"
    BY <1>10, Asking
  <2> QED BY <2>1, <2>2 DEF DataInv, OwnLoop, AllOf, Own, Still
<1>11. CASE GoOn
  <2>1. asked /\ ~change BY <1>11, Zenon DEF GoOn, Acknowledged
  <2>2. UNCHANGED <<trouble, mode, loop, state, pos, current, batch, fifo, hist>>
    BY <1>11 DEF GoOn, control
  <2>3. pc \in {"run", "pause", "stop", "last"} BY <2>1 DEF LoopInv
  <2>4. pc' = CASE pc = "run" /\ mode = "strobe" -> "loop"
                [] pc = "run" /\ mode # "strobe" -> "count"
                [] pc = "pause" -> "next"
                [] pc = "stop" -> "flush"
                [] pc = "last" -> "join"
    BY <1>11, <2>3, Answering
  <2>5. pc = "pause" => state = "PAUSE" /\ pos # "decode" BY <2>1 DEF HandInv
  <2>6. /\ OwnLoop' <=> OwnLoop
        /\ Own' <=> Own
        /\ Still' <=> Still
    BY <2>2 DEF OwnLoop, Own, Still, AllOf
  <2> QED BY <2>2, <2>3, <2>4, <2>5, <2>6 DEF DataInv
<1>12. CASE Top
  <2>1. pos = "top" /\ state # "ERROR" BY <1>12 DEF Top, LoopInv
  <2>2. current' = state /\ pos' \in {"turn", "gone"}
    BY <1>12, <2>1, Zenon DEF Top, HandInv
  <2>3. UNCHANGED <<trouble, mode, pc, loop, state, batch, fifo, hist>>
    BY <1>12 DEF Top, control
  <2> QED BY <2>1, <2>2, <2>3 DEF DataInv, OwnLoop, AllOf, Own, Still
<1>13. CASE Turn \/ Wake
  <2>1. /\ pos \notin {"decode", "none", "gone"} /\ pos' # "decode"
        /\ UNCHANGED <<trouble, mode, pc, loop, state, current, batch, fifo, hist>>
    BY <1>13 DEF Turn, Wake, control
  <2> QED BY <2>1 DEF DataInv, OwnLoop, AllOf, Own, Still
<1>14. CASE GetData
  <2>1. /\ pos = "read" /\ batch' = fifo /\ fifo' = {} /\ pos' = "decode"
        /\ UNCHANGED <<trouble, mode, pc, loop, state, current, hist>>
    BY <1>14 DEF GetData, control
  <2>2. current = "RUN" /\ ~Still BY <2>1 DEF HandInv, Still
  <2>3. ~(pc = "init" /\ mode = "strobe") /\ pc # "next"
    <3>1. pc \in {"init", "next"} => ~asked BY DEF LoopInv
    <3> QED BY <2>2, <3>1 DEF HandInv
  <2> QED BY <2>1, <2>2, <2>3 DEF DataInv, OwnLoop, AllOf, Own
<1>15. CASE Decode
  <2>1. /\ pos = "decode" /\ batch' = {} /\ pos' = "top"
        /\ UNCHANGED <<trouble, mode, pc, loop, state, current, fifo>>
    BY <1>15 DEF Decode, control
  <2>2. "slow" \notin trouble => batch \subseteq AllOf(loop)
    <3>1. pc \notin {"off", "start", "begin", "join"} /\ ~(pc = "init" /\ mode = "source")
      BY <2>1 DEF HandInv
    <3> QED BY <3>1 DEF DataInv, Own, TypeOK
  <2>3. "slow" \notin trouble => OwnLoop'
    <3>1. CASE loop = 0
      <4>1. hist' = hist BY <1>15, <3>1 DEF Decode
      <4> QED BY <2>1, <4>1 DEF DataInv, OwnLoop, AllOf
    <3>2. CASE loop # 0
      <4>1. hist' = [hist EXCEPT ![loop] = hist[loop] \cup batch]
        BY <1>15, <3>2 DEF Decode
      <4> QED BY <2>1, <2>2, <4>1 DEF DataInv, OwnLoop, AllOf, TypeOK
    <3> QED BY <3>1, <3>2
  <2> QED BY <2>1, <2>3 DEF DataInv, AllOf, Own, Still
<1>16. CASE ReadFails
  <2>1. /\ pos = "read" /\ state' = "ERROR" /\ pos' = "gone"
        /\ UNCHANGED <<trouble, mode, pc, loop, current, batch, fifo, hist>>
    BY <1>16 DEF ReadFails, control
  <2> QED BY <2>1 DEF DataInv, OwnLoop, AllOf, Own, Still
<1>17. CASE UNCHANGED vars BY <1>1, <1>17 DEF vars, control
<1> QED
  BY <1>2, <1>3, <1>4, <1>5, <1>6, <1>7, <1>8, <1>9, <1>10, <1>11, <1>12,
     <1>13, <1>14, <1>15, <1>16, <1>17, Actions

(* The data of the loops are always kept apart.                             *)
LEMMA DataAlways == Spec => [](TypeOK /\ LoopInv /\ HandInv /\ GoneInv /\ DataInv)
<1>1. ASSUME Init PROVE GoneInv /\ DataInv
  <2>1. pc = "off" /\ pos = "none" /\ batch = {} /\ hist = NoHists BY <1>1 DEF Init
  <2>2. OwnLoop BY <2>1 DEF OwnLoop, NoHists
  <2> QED BY <2>1, <2>2 DEF GoneInv, DataInv
<1> QED BY <1>1, HandAlways, GoneStep, DataStep, PTL DEF Spec

(* If the scan thread's pause is long enough, the data of a loop stay out   *)
(* of the histograms of every other one, for any number of loops.           *)
THEOREM LoopsKeptApart == Spec => []OwnLoop
<1>1. DataInv => OwnLoop BY DEF DataInv, OwnLoop
<1> QED BY <1>1, DataAlways, PTL

-----------------------------------------------------------------------------
(* What is measured as long as nothing fails and nobody asks for a stop.    *)

Quiet == trouble \subseteq {"long"} /\ ~stopped

(* The scan thread is through, and the CtrlThread has seen it.              *)
Over == Ended /\ ~running /\ ~finished

(* Nothing cuts the scan short, the CtrlThread collects at its end, and it  *)
(* watches the scan that it has started.                                    *)
CalmInv ==
  /\ ~abort /\ ~cancel /\ state # "ERROR"
  /\ ctrl \in {"collect", "idle"} => Over
  /\ ctrl \in {"watch", "poll", "collect"} => kind = mode
  /\ ctrl = "wait" => kind = mode \/ Over

(* The data of the loops before l are in their histograms, and nothing is   *)
(* in those from l on.                                                      *)
DoneBefore(l) ==
  \A k \in 1..Loops : hist[k] = IF k < l THEN AllOf(k) ELSE {}

(* The mask steps of this loop are in the FIFO, in the read-out thread's    *)
(* hands or in the histograms; those of every loop before it are in theirs, *)
(* and at the end of the scan all are.                                      *)
FullInv ==
  mode = "strobe" =>
    /\ pc # "count"
    /\ pc = "begin" => DoneBefore(1)
    /\ pc = "init" => DoneBefore(loop + 1)
    /\ pc \in {"run", "loop", "sleep", "pause", "next"} =>
         /\ loop \in 1..Loops
         /\ \A k \in 1..Loops : k # loop => hist[k] = IF k < loop THEN AllOf(k) ELSE {}
         /\ hist[loop] \cup fifo \cup batch = {loop} \X (1..mask)
         /\ pc = "run" => mask = 0
         /\ pc \in {"sleep", "pause", "next"} => mask = MaskSteps
    /\ pc \in {"stop", "flush", "finish"} \/ (Ended /\ (pc # "off" \/ ctrl # "idle")) =>
         fifo = {} /\ batch = {} /\ DoneBefore(Loops + 1)

CompleteInv == Quiet => CalmInv /\ FullInv

(* As long as nothing fails, no step is one of those that do.               *)
LEMMA QuietSteps ==
  ASSUME TypeOK, [Next]_vars, Quiet'
  PROVE  /\ Quiet
         /\ ~Abort /\ ~StartFails /\ ~SendFails /\ ~ReadFails
<1>1. trouble \subseteq {"long"} /\ ~stopped' BY Lasting, Zenon DEF Quiet
<1>2. ~Abort BY <1>1, Zenon DEF Abort
<1>3. ~stopped BY <1>1, Lasting, Zenon
<1>4. ~StartFails /\ ~SendFails /\ ~ReadFails
  BY <1>1 DEF StartFails, SendFails, ReadFails
<1> QED BY <1>1, <1>2, <1>3, <1>4 DEF Quiet

(* A step of a quiet scan cuts nothing short.                               *)
LEMMA CalmStep ==
  ASSUME TypeOK, LoopInv, HandInv, StopInv, SeenInv, CompleteInv, [Next]_vars, Quiet'
  PROVE  CalmInv'
<1> USE DEF thread, readout, flags
<1>1. Quiet /\ CalmInv BY QuietSteps DEF CompleteInv
<1>2. "send fails" \notin trouble /\ ~MayGiveUp
  BY <1>1, Zenon DEF Quiet, MayGiveUp
<1>3. /\ ~abort /\ ~cancel /\ state # "ERROR"
      /\ ctrl \in {"collect", "idle"} => Over
      /\ ctrl \in {"watch", "poll", "collect"} => kind = mode
      /\ ctrl = "wait" => kind = mode \/ Over
  BY <1>1 DEF CalmInv
<1>4. ASSUME UNCHANGED <<abort, cancel, ctrl, kind, mode>>, state' # "ERROR", Over => Over'
      PROVE  CalmInv'
  BY <1>3, <1>4, Zenon DEF CalmInv
<1>5. ASSUME UNCHANGED <<pc, running, finished>> PROVE Over <=> Over'
  BY <1>5, Zenon DEF Over, Ended
<1>6. CASE NewScan
  <2>1. ~abort' /\ UNCHANGED cancel BY <1>6, Zenon DEF NewScan, BeginScan
  <2>2. ctrl' = "wait" /\ mode' = kind' /\ UNCHANGED state BY <1>6 DEF NewScan, BeginScan
  <2> QED BY <1>3, <2>1, <2>2 DEF CalmInv
<1>7. CASE NewScanIgnored
  <2>1. ~abort' /\ UNCHANGED cancel BY <1>7, Zenon DEF NewScanIgnored, BeginScan
  <2>2. /\ ctrl = "idle" /\ ctrl' = "wait"
        /\ UNCHANGED <<state, pc, running, finished>>
    BY <1>7 DEF NewScanIgnored, BeginScan
  <2>3. Over' BY <1>3, <1>5, <2>2
  <2> QED BY <1>3, <2>1, <2>2, <2>3 DEF CalmInv
<1>8. CASE Started
  <2>1. running \/ finished BY <1>8, Zenon DEF Started
  <2>2. /\ ctrl = "wait" /\ ctrl' = "watch"
        /\ UNCHANGED <<abort, cancel, kind, mode, state>>
    BY <1>8 DEF Started, RunStatus
  <2>3. kind = mode BY <1>3, <2>1, <2>2 DEF Over
  <2> QED BY <1>3, <2>2, <2>3 DEF CalmInv
<1>9. CASE NotStarted
  <2>1. ~running /\ ~finished BY <1>9, Zenon DEF NotStarted
  <2>2. /\ pc = "off" /\ ctrl' = "idle"
        /\ UNCHANGED <<abort, cancel, state, pc, running, finished>>
    BY <1>9 DEF NotStarted
  <2>3. Over' BY <1>5, <2>1, <2>2 DEF Over, Ended
  <2> QED BY <1>3, <2>2, <2>3 DEF CalmInv
<1>10. CASE Watch
  <2>1. ~abort' /\ ~cancel' BY <1>3, <1>10, Zenon DEF Watch, StopScan
  <2>2. ctrl = "watch" /\ ctrl' = "poll" /\ UNCHANGED <<state, kind, mode>>
    BY <1>10 DEF Watch
  <2> QED BY <1>3, <2>1, <2>2 DEF CalmInv
<1>11. CASE Poll
  <2>1. ctrl = "poll" /\ UNCHANGED <<abort, cancel, state, kind, mode, pc>>
    BY <1>11 DEF Poll, RunStatus
  <2>2. ~finished' /\ (running' = (running /\ ~finished))
    BY <1>11, Zenon DEF Poll, RunStatus
  <2>3. /\ (running /\ ~finished) => ctrl' = "watch"
        /\ ~(running /\ ~finished) => ctrl' = "collect"
    BY <1>11, Zenon DEF Poll, Busy
  <2>4. CASE running /\ ~finished BY <1>3, <2>1, <2>3, <2>4 DEF CalmInv
  <2>5. CASE ~(running /\ ~finished)
    <3>1. Ended BY <1>2, <2>1, <2>5 DEF SeenInv
    <3>2. Over' BY <2>1, <2>2, <2>5, <3>1, Zenon DEF Over, Ended
    <3> QED BY <1>3, <2>1, <2>3, <2>5, <3>2 DEF CalmInv
  <2> QED BY <2>4, <2>5
<1>12. CASE GiveUp
  <2>1. waits # 0 BY <1>12, ScanAssumption DEF GiveUp
  <2> QED BY <1>1, <2>1, Zenon DEF StopInv, Quiet
<1>13. CASE Collected
  <2>1. /\ ctrl = "collect" /\ ctrl' = "idle"
        /\ UNCHANGED <<abort, cancel, state, pc, running, finished>>
    BY <1>13 DEF Collected
  <2>2. Over' BY <1>3, <1>5, <2>1
  <2> QED BY <1>3, <2>1, <2>2 DEF CalmInv
<1>14. CASE \/ StartScan \/ InitLoop \/ Slept \/ Flush \/ Destroy \/ Join
            \/ AskFails \/ CountReached
  <2>1. UNCHANGED <<cancel, running, finished>>
    BY <1>14 DEF StartScan, InitLoop, Slept, Flush, Destroy, Join, AskFails, CountReached
  <2>2. UNCHANGED <<ctrl, kind, mode, abort, state>> BY <1>14, Moves
  <2>3. Ended => Ended' BY <1>14, Moves DEF Ended
  <2> QED BY <1>3, <1>4, <2>1, <2>2, <2>3 DEF Over
<1>15. CASE NextLoop \/ CountCancelled \/ Finish
  <2>1. ~cancel' BY <1>3, <1>15, Zenon DEF NextLoop, CountCancelled, Finish
  <2>2. UNCHANGED <<ctrl, kind, mode, abort, state>> BY <1>15, Moves
  <2>3. ~Ended BY <1>15 DEF NextLoop, CountCancelled, Finish, Ended
  <2> QED BY <1>3, <2>1, <2>2, <2>3, Zenon DEF CalmInv, Over
<1>16. CASE Begin
  <2>1. /\ ~Ended /\ state' = "PAUSE"
        /\ UNCHANGED <<abort, cancel, ctrl, kind, mode>>
    BY <1>16 DEF Begin, control, Ended
  <2> QED BY <1>4, <2>1 DEF Over
<1>17. CASE MaskStep \/ Hits
  <2>1. ~Ended /\ UNCHANGED <<abort, cancel, ctrl, kind, mode, state>>
    BY <1>17 DEF MaskStep, Hits, control, Ended
  <2> QED BY <1>3, <1>4, <2>1 DEF Over
<1>18. CASE Ask
  <2>1. UNCHANGED <<abort, cancel, ctrl, kind, mode, pc, running, finished>>
    BY <1>18 DEF Ask, control
  <2>2. state' # "ERROR" BY <1>18, Asking
  <2> QED BY <1>4, <1>5, <2>1, <2>2
<1>19. CASE GoOn
  <2>1. UNCHANGED <<abort, cancel, ctrl, kind, mode, state, running, finished>>
    BY <1>19 DEF GoOn, control
  <2>2. pc \in {"run", "pause", "stop", "last"}
    BY <1>19 DEF GoOn, Acknowledged, LoopInv
  <2>3. Ended => Ended' BY <1>19, <2>2, Answering DEF Ended
  <2> QED BY <1>3, <1>4, <2>1, <2>3 DEF Over
<1>20. CASE Top \/ Turn \/ Wake \/ GetData \/ Decode
  <2>1. UNCHANGED <<abort, cancel, ctrl, kind, mode, state, pc, running, finished>>
    BY <1>20 DEF Top, Turn, Wake, GetData, Decode, control
  <2> QED BY <1>3, <1>4, <1>5, <2>1
<1>21. CASE UNCHANGED vars
  <2>1. UNCHANGED <<abort, cancel, ctrl, kind, mode, state, pc, running, finished>>
    BY <1>21 DEF vars, control
  <2> QED BY <1>3, <1>4, <1>5, <2>1
<1> QED
  BY <1>6, <1>7, <1>8, <1>9, <1>10, <1>11, <1>12, <1>13, <1>14, <1>15, <1>16,
     <1>17, <1>18, <1>19, <1>20, <1>21, QuietSteps, Actions

(* A step of a quiet scan loses nothing.                                    *)
LEMMA FullStep ==
  ASSUME TypeOK, LoopInv, HandInv, GoneInv, DataInv, CompleteInv,
         [Next]_vars, Quiet'
  PROVE  FullInv'
<1> USE DEF thread, readout, flags
<1>1. Quiet /\ CalmInv /\ FullInv BY QuietSteps DEF CompleteInv
<1>2. \A x \in {"slow", "read fails", "send fails"} : x \notin trouble
  BY <1>1 DEF Quiet
<1>3. ~cancel /\ state # "ERROR" BY <1>1 DEF CalmInv
<1>4. ASSUME UNCHANGED <<mode, pc, loop, mask, batch, fifo, hist>>,
             ctrl' # "idle" => ctrl # "idle"
      PROVE  FullInv'
  BY <1>1, <1>4 DEF FullInv, DoneBefore, Ended, AllOf
<1>5a. CASE NewScanIgnored
  <2>1. UNCHANGED <<mode, thread, batch, fifo, hist>> BY <1>5a, Watching
  <2>2. pc # "off" BY <1>5a DEF NewScanIgnored
  <2> QED BY <1>1, <2>1, <2>2 DEF FullInv, DoneBefore, Ended, AllOf
<1>5. CASE Started \/ NotStarted \/ Watch \/ Poll \/ GiveUp \/ Collected
  <2>1. UNCHANGED <<mode, thread, batch, fifo, hist>> BY <1>5, Watching
  <2>2. ctrl # "idle" BY <1>5 DEF Started, NotStarted, Watch, Poll, GiveUp, Collected
  <2> QED BY <1>4, <2>1, <2>2
<1>6. CASE NewScan
  <2>1. pc' = "start" BY <1>6 DEF NewScan
  <2> QED BY <2>1 DEF FullInv, Ended
<1>7. CASE StartScan
  <2>1. pc' \in {"begin", "init"} /\ (pc' = "init" => mode # "strobe")
        /\ hist' = NoHists /\ UNCHANGED mode
    BY <1>7 DEF StartScan, control
  <2>2. DoneBefore(1)' BY <2>1 DEF DoneBefore, NoHists
  <2> QED BY <2>1, <2>2 DEF FullInv, Ended
<1>8. CASE InitLoop
  <2>1. /\ pc = "init" /\ pc' = IF mode = "strobe" THEN "run" ELSE "begin"
        /\ loop' = loop + 1 /\ mask' = 0 /\ UNCHANGED <<mode, batch, fifo, hist>>
    BY <1>8 DEF InitLoop, control
  <2>2. CASE mode = "strobe"
    <3>1. fifo = {} /\ batch = {} /\ DoneBefore(loop + 1) /\ loop < Loops
      BY <1>1, <1>2, <2>1, <2>2 DEF DataInv, FullInv, LoopInv
    <3>2. loop' \in 1..Loops /\ {loop'} \X (1..mask') = {}
      BY <2>1, <3>1, LoopsAssumption DEF TypeOK
    <3>3. \A k \in 1..Loops : hist'[k] = IF k < loop' THEN AllOf(k) ELSE {}
      BY <2>1, <3>1 DEF DoneBefore
    <3> HIDE DEF DoneBefore
    <3>4. hist'[loop'] = {} BY <3>2, <3>3, LoopsAssumption
    <3>5. hist'[loop'] \cup fifo' \cup batch' = {loop'} \X (1..mask')
      BY <2>1, <3>1, <3>2, <3>4
    <3>6. pc' = "run" BY <2>1, <2>2
    <3> QED BY <2>1, <3>2, <3>3, <3>5, <3>6 DEF FullInv, Ended, AllOf
  <2>3. CASE mode # "strobe" BY <2>1, <2>3 DEF FullInv
  <2> QED BY <2>2, <2>3
<1>9. CASE Begin
  <2>1. /\ pc = "begin" /\ pc' = (IF mode = "strobe" THEN "init" ELSE "run")
        /\ UNCHANGED <<mode, loop, hist>>
    BY <1>2, <1>9 DEF Begin, Go, control
  <2>2. CASE mode = "strobe"
    <3>1. loop = 0 /\ DoneBefore(1) /\ pc' = "init"
      BY <1>1, <2>1, <2>2 DEF LoopInv, FullInv
    <3>2. DoneBefore(loop + 1)' BY <2>1, <3>1 DEF DoneBefore, AllOf
    <3> QED BY <2>1, <3>1, <3>2 DEF FullInv, Ended
  <2>3. CASE mode # "strobe" BY <2>1, <2>3 DEF FullInv
  <2> QED BY <2>2, <2>3
<1>10. CASE MaskStep
  <2>1. pc = "loop" /\ UNCHANGED <<mode, loop, batch, hist>>
    BY <1>10 DEF MaskStep, Go, control
  <2>2. CASE mode = "strobe" /\ mask < MaskSteps
    <3>1. mask' = mask + 1 /\ fifo' = fifo \cup {<<loop, mask + 1>>} /\ pc' = "loop"
      BY <1>10, <2>1, <2>2 DEF MaskStep
    <3>2. {loop} \X (1..mask') = {loop} \X (1..mask) \cup {<<loop, mask + 1>>}
      <4>1. mask \in Nat BY LoopsAssumption DEF TypeOK
      <4>2. 1..mask' = (1..mask) \cup {mask + 1} BY <3>1, <4>1
      <4> QED BY <4>2
    <3>3. hist[loop] \cup fifo \cup batch = {loop} \X (1..mask)
      BY <1>1, <2>1, <2>2 DEF FullInv
    <3>4. hist'[loop'] \cup fifo' \cup batch' = {loop'} \X (1..mask')
      BY <2>1, <3>1, <3>2, <3>3
    <3> QED BY <1>1, <2>1, <2>2, <3>1, <3>4 DEF FullInv, Ended, AllOf
  <2>3. CASE mode = "strobe" /\ ~(mask < MaskSteps)
    <3>1. UNCHANGED <<mask, fifo>> /\ pc' = "sleep" /\ mask = MaskSteps
      BY <1>10, <2>1, <2>3, LoopsAssumption DEF MaskStep, Go, TypeOK
    <3> QED BY <1>1, <2>1, <2>3, <3>1 DEF FullInv, Ended, AllOf
  <2>4. CASE mode # "strobe" BY <2>1, <2>4 DEF FullInv
  <2> QED BY <2>2, <2>3, <2>4
<1>11. CASE Hits \/ CountReached \/ CountCancelled
  <2>1. pc = "count" /\ UNCHANGED mode
    BY <1>11 DEF Hits, CountReached, CountCancelled, control
  <2> QED BY <1>1, <2>1 DEF FullInv
<1>12. CASE NextLoop
  <2>1. /\ pc = "next" /\ UNCHANGED <<mode, loop, mask, batch, fifo, hist>>
        /\ pc' = IF loop = Loops THEN "stop" ELSE "init"
    BY <1>3, <1>12 DEF NextLoop, LastLoop, Go, control
  <2>2. CASE mode = "strobe"
    <3>1. fifo = {} /\ batch = {} BY <1>2, <2>1 DEF DataInv
    <3>2. /\ loop \in 1..Loops /\ hist[loop] = AllOf(loop)
          /\ \A k \in 1..Loops : k # loop => hist[k] = IF k < loop THEN AllOf(k) ELSE {}
      BY <1>1, <2>1, <2>2, <3>1 DEF FullInv, AllOf
    <3>3. DoneBefore(loop + 1)
      BY <3>2 DEF DoneBefore
    <3>4. DoneBefore(loop + 1)' BY <2>1, <3>3 DEF DoneBefore, AllOf
    <3>5. loop = Loops => DoneBefore(Loops + 1)'
      BY <2>1, <3>3 DEF DoneBefore, AllOf
    <3> QED BY <2>1, <3>1, <3>4, <3>5 DEF FullInv, Ended
  <2>3. CASE mode # "strobe" BY <2>1, <2>3 DEF FullInv
  <2> QED BY <2>2, <2>3
<1>13. CASE Slept \/ Flush \/ Finish \/ Destroy \/ Join \/ AskFails
  <2>1. UNCHANGED <<mode, ctrl, fifo, batch>> BY <1>13, Moves
  <2>2. UNCHANGED <<loop, mask, hist>>
    BY <1>13 DEF Slept, Flush, Finish, Destroy, Join, AskFails, Go, Throw
  <2>3. \A n : DoneBefore(n)' <=> DoneBefore(n) BY <2>2 DEF DoneBefore, AllOf
  <2>4. CASE Slept
    BY <1>1, <2>1, <2>2, <2>4 DEF Slept, Go, FullInv, Ended, AllOf
  <2>5. CASE AskFails BY <1>3, <2>5 DEF AskFails
  <2>6. CASE Flush \/ Finish \/ Destroy \/ Join
    <3>1. \/ pc = "flush" /\ pc' = "finish"
          \/ pc = "finish" /\ Ended'
          \/ Ended /\ pc # "off" /\ Ended'
      BY <2>6 DEF Flush, Finish, Destroy, Join, Go, Ended
    <3> QED BY <1>1, <2>1, <2>3, <3>1 DEF FullInv, Ended
  <2> QED BY <1>13, <2>4, <2>5, <2>6
<1>14. CASE Ask \/ Turn \/ Wake
  BY <1>4, <1>14 DEF Ask, Turn, Wake, control
<1>15. CASE Top BY <1>4, <1>15 DEF Top, control
<1>16. CASE GoOn
  <2>1. UNCHANGED <<mode, ctrl, loop, mask, batch, fifo, hist>> BY <1>16 DEF GoOn, control
  <2>2. pc \in {"run", "pause", "stop", "last"}
    BY <1>16 DEF GoOn, Acknowledged, LoopInv
  <2>3. mode = "strobe" =>
          pc' = CASE pc = "run" -> "loop" [] pc = "pause" -> "next"
                  [] pc = "stop" -> "flush" [] pc = "last" -> "join"
    BY <1>16, <2>2, Answering
  <2>4. \A n : DoneBefore(n)' <=> DoneBefore(n) BY <2>1 DEF DoneBefore, AllOf
  <2> QED BY <1>1, <2>1, <2>2, <2>3, <2>4 DEF FullInv, Ended, AllOf
<1>17. CASE GetData
  <2>1. /\ pos = "read" /\ batch' = fifo /\ fifo' = {}
        /\ UNCHANGED <<mode, ctrl, pc, loop, mask, hist>>
    BY <1>17 DEF GetData, control
  <2>2. batch = {} BY <2>1 DEF DataInv
  <2>3. fifo' \cup batch' = fifo \cup batch BY <2>1, <2>2
  <2>4. \A n : DoneBefore(n)' <=> DoneBefore(n) BY <2>1 DEF DoneBefore, AllOf
  <2> QED BY <1>1, <2>1, <2>2, <2>3, <2>4 DEF FullInv, Ended, AllOf
<1>18. CASE Decode
  <2>1. /\ pos = "decode" /\ batch' = {}
        /\ UNCHANGED <<mode, ctrl, pc, loop, mask, fifo>>
        /\ hist' = IF loop = 0 THEN hist ELSE [hist EXCEPT ![loop] = hist[loop] \cup batch]
    BY <1>18 DEF Decode, control
  <2>2. CASE mode = "strobe" /\ pc \in {"run", "loop", "sleep", "pause", "next"}
    <3>1. /\ loop \in 1..Loops
          /\ hist' = [hist EXCEPT ![loop] = hist[loop] \cup batch]
      BY <1>1, <2>1, <2>2 DEF FullInv
    <3>2. /\ hist'[loop] = hist[loop] \cup batch
          /\ \A k \in 1..Loops : k # loop => hist'[k] = hist[k]
      BY <3>1 DEF TypeOK
    <3>3. hist'[loop'] \cup fifo' \cup batch' = hist[loop] \cup fifo \cup batch
      BY <2>1, <3>2
    <3> QED BY <1>1, <2>1, <2>2, <3>1, <3>2, <3>3 DEF FullInv, Ended, AllOf
  <2>3. CASE batch = {}
    <3>1. UNCHANGED <<batch, hist>>
      <4>1. loop # 0 => loop \in 1..Loops BY LoopsAssumption DEF TypeOK
      <4>2. hist' = hist BY <2>1, <2>3, <4>1 DEF TypeOK
      <4> QED BY <2>1, <2>3, <4>2
    <3> QED BY <1>4, <2>1, <3>1
  <2>4. CASE mode # "strobe" BY <2>1, <2>4 DEF FullInv
  <2>5. mode = "strobe" /\ pc \notin {"run", "loop", "sleep", "pause", "next"} =>
          batch = {} \/ pc \in {"off", "start", "begin"} 
    BY <1>1, <1>2 DEF FullInv, DataInv, Ended, TypeOK
  <2>6. pc \notin {"off", "start", "begin"} BY <2>1 DEF HandInv
  <2> QED BY <2>2, <2>3, <2>4, <2>5, <2>6
<1>19. CASE UNCHANGED vars BY <1>4, <1>19 DEF vars, control
<1> QED
  BY <1>5, <1>5a, <1>6, <1>7, <1>8, <1>9, <1>10, <1>11, <1>12, <1>13, <1>14, <1>15,
     <1>16, <1>17, <1>18, <1>19, QuietSteps, Actions

(* A strobe scan in which nothing fails and which nobody stops has all of   *)
(* its data, from all loops and all mask steps, when it is collected.       *)
THEOREM ScansAreComplete == Spec => []Complete
<1>1. ASSUME Init PROVE CompleteInv
  <2>1. ~abort /\ ~cancel BY <1>1, Zenon DEF Init
  <2>2. ~running /\ ~finished BY <1>1, Zenon DEF Init
  <2>3. pc = "off" /\ ctrl = "idle" /\ state = "PAUSE" BY <1>1 DEF Init
  <2> QED BY <2>1, <2>2, <2>3 DEF CompleteInv, CalmInv, FullInv, Over, Ended
<1>2. ASSUME TypeOK, LoopInv, HandInv, StopInv, SeenInv, GoneInv, DataInv, CompleteInv,
             [Next]_vars
      PROVE  CompleteInv'
  BY <1>2, CalmStep, FullStep DEF CompleteInv
<1>3. ASSUME CompleteInv PROVE Complete
  <2> SUFFICES ASSUME trouble \subseteq {"long"}, ~stopped, kind = "strobe", ctrl = "collect",
                      NEW l \in 1..Loops
               PROVE  hist[l] = AllOf(l)
    BY DEF Complete
  <2>1. CalmInv /\ FullInv BY <1>3 DEF CompleteInv, Quiet
  <2>2. DoneBefore(Loops + 1) BY <2>1 DEF CalmInv, FullInv, Over
  <2> QED BY <2>2, LoopsAssumption DEF DoneBefore
<1> QED BY <1>1, <1>2, <1>3, EndAlways, DataAlways, PTL DEF Spec
=============================================================================
