------------------------- MODULE ScanControlProofs -------------------------
(* Theorems of ScanControl, for any set of groups, any number of loop      *)
(* steps and any number of scans.                                          *)
EXTENDS ScanControl, TLAPS

(* The loop index of a step that is being measured.                        *)
IndexInv ==
  \A g \in Groups :
    ctrl[g] \in {"await", "poll", "check", "settle"} => step[g] < Steps

(* The hand-over between CtrlThread and ScanThread, however long the code  *)
(* waits.  Only a CtrlThread that awaits its step has a ScanThread that    *)
(* has not yet raised its flags, and while the flags are raised and the    *)
(* step is prepared the CtrlThread cannot see the end of a run.            *)
FlagsOf(g) ==
  /\ ctrl[g] \in {"idle", "begin", "init", "loop", "settle"} =>
       /\ upc[g].busy = "none" /\ ~ upc[g].done
       /\ thr[g] \notin {"exec", "prepare"}
  /\ thr[g] = "exec" =>
       ctrl[g] = "await" /\ upc[g].busy = "none" /\ ~ upc[g].done
  /\ thr[g] = "prepare" =>
       upc[g].busy # "none" /\ ~ upc[g].done /\ upc[g].init

FlagInv == \A g \in Groups \ fault : FlagsOf(g)

-----------------------------------------------------------------------------
(* What holds if the waiting times are long enough.                        *)

Working == {"await", "poll", "check"}

StartInv == shown # "starting" => toStart = {}

(* The main thread sees no group that is still at work.                    *)
IdleOf(g) ==
  /\ shown = "idle" => ctrl[g] = "idle"
  /\ ctrl[g] \notin {"idle", "begin"} => processing[g]
  /\ ctrl[g] \in {"idle", "begin", "init", "loop"} => thr[g] = "idle"

(* The ScanThread and the flags it has raised.                             *)
ThreadOf(g) ==
  /\ upc[g].busy \in {"none", IF source THEN "source" ELSE "scan"}
  /\ thr[g] \in {"prepare", "measure"} => ctrl[g] \in Working
  /\ thr[g] = "measure" =>
       /\ ~ source /\ upc[g].busy = "scan"
       /\ ~ upc[g].done /\ ~ upc[g].ready
       /\ ~ abort[g] => ~ upc[g].cancelled
  /\ thr[g] = "tail" => ~ source

(* The step at hand is measured.                                           *)
measured(g) ==
  IF source THEN thr[g] = "idle" /\ (upc[g].busy = "none" \/ upc[g].done)
            ELSE thr[g] \in {"tail", "idle"}

(* How many steps are measured, unless a scan with charge injection was    *)
(* stopped.                                                                *)
CountOf(g) ==
  /\ ctrl[g] \in {"begin", "init"} => taken[g] = 0
  /\ ctrl[g] = "loop" => step[g] <= LastStep
  /\ ctrl[g] \in Working \cup {"settle"} => step[g] < LastStep
  /\ source \/ ~ abort[g] =>
       /\ ctrl[g] = "loop" => taken[g] = step[g]
       /\ ctrl[g] \in Working =>
            taken[g] = IF measured(g) THEN step[g] + 1 ELSE step[g]
       /\ ctrl[g] = "settle" => taken[g] = step[g] + 1

SaveOf(g) ==
  written[g] => ctrl[g] = "idle" /\ (g \notin toStart => taken[g] = LastStep)

StepOf(g) == IdleOf(g) /\ ThreadOf(g) /\ CountOf(g) /\ SaveOf(g)

StepInv == StartInv /\ \A g \in Groups \ fault : StepOf(g)

-----------------------------------------------------------------------------
(* Every variable keeps its type.                                          *)

(* The functions on the flags return flags.                                *)
LEMMA FlagsKept ==
  ASSUME NEW u \in Flags
  PROVE  /\ nTrigger(u) \in Flags /\ endSource(u) \in Flags
         /\ stopScan(u) \in Flags /\ afterStatus(u) \in Flags
         /\ resetStatus(u) \in Flags /\ claim(u) \in Flags
         /\ startSource(u) \in Flags /\ setReady(u) \in Flags
         /\ finish(u) \in Flags
<1>1. nTrigger(u) \in Flags
  BY DEF nTrigger, Flags
<1>2. endSource(u) \in Flags /\ setReady(u) \in Flags
  BY DEF endSource, setReady, Flags
<1>3. stopScan(u) \in Flags
  BY <1>2 DEF stopScan, Flags
<1>4. afterStatus(u) \in Flags
  BY DEF afterStatus, Flags
<1>5. resetStatus(u) \in Flags
  BY DEF resetStatus, Flags
<1>6. claim(u) \in Flags
  <2> DEFINE b == IF source THEN "source" ELSE "scan"
  <2>1. b \in {"none", "scan", "source"}
    OBVIOUS
  <2> HIDE DEF b
  <2>2. [u EXCEPT !.busy = b, !.init = TRUE] \in Flags
    BY <2>1 DEF Flags
  <2> QED
    BY <2>2 DEF b, claim
<1>7. startSource(u) \in Flags /\ finish(u) \in Flags
  BY DEF startSource, finish, Flags
<1> QED
  BY <1>1, <1>2, <1>3, <1>4, <1>5, <1>6, <1>7

(* Posting keeps the queue's type, and so does handling its first event.   *)
LEMMA QueueKept ==
  ASSUME TypeOK
  PROVE  /\ \A g \in Groups : \A s \in Status :
              post(g, s) => queue' \in Seq(Groups \X Status)
         /\ queue # <<>> => /\ Tail(queue) \in Seq(Groups \X Status)
                           /\ Head(queue)[1] \in Groups
                           /\ Head(queue)[2] \in Status
<1>1. queue \in Seq(Groups \X Status)
  BY DEF TypeOK
<1>2. ASSUME NEW g \in Groups, NEW s \in Status, post(g, s)
      PROVE  queue' \in Seq(Groups \X Status)
  <2>1. <<g, s>> \in Groups \X Status
    OBVIOUS
  <2> QED
    BY <1>1, <1>2, <2>1 DEF post
<1>3. ASSUME queue # <<>>
      PROVE  /\ Tail(queue) \in Seq(Groups \X Status)
             /\ Head(queue) \in Groups \X Status
  BY <1>1, <1>3
<1> QED
  BY <1>2, <1>3

LEMMA TypeInit == Init => TypeOK /\ IndexInv /\ FlagInv
<1> SUFFICES ASSUME Init PROVE TypeOK /\ IndexInv /\ FlagInv
  OBVIOUS
<1> USE ScanAssumption DEF Init
<1>1. TypeOK
  <2>1. queue \in Seq(Groups \X Status)
    OBVIOUS
  <2>2. status \in [Groups -> Status]
    BY DEF Status
  <2>3. upc \in [Groups -> Flags]
    BY DEF Flags
  <2>4. scans \in 0 .. MaxScans /\ step \in [Groups -> 0 .. Steps]
    OBVIOUS
  <2> QED
    BY <2>1, <2>2, <2>3, <2>4 DEF TypeOK
<1>2. IndexInv
  BY DEF IndexInv
<1>3. FlagInv
  BY DEF FlagInv, FlagsOf
<1> QED
  BY <1>1, <1>2, <1>3

LEMMA TypeStep == TypeOK /\ IndexInv /\ [Next]_vars => TypeOK'
<1> SUFFICES ASSUME TypeOK, IndexInv, [Next]_vars PROVE TypeOK'
  OBVIOUS
<1> USE DEF TypeOK, mainVars, postVars, ctrlVars, scanVars, failed
<1> DEFINE Places == {"idle", "begin", "init", "loop", "await", "poll",
                      "check", "settle"}
<1>1. ASSUME NEW src \in BOOLEAN, PixScan(src) PROVE TypeOK'
  <2>1. scans' \in 0 .. MaxScans
    BY <1>1, ScanAssumption DEF PixScan
  <2> QED
    BY <1>1, <2>1 DEF PixScan
<1>2. ASSUME HandleEvent PROVE TypeOK'
  <2>1. queue' \in Seq(Groups \X Status)
    BY <1>2, QueueKept DEF HandleEvent
  <2>2. status' \in [Groups -> Status]
    BY <1>2, QueueKept DEF HandleEvent
  <2> QED
    BY <1>2, <2>1, <2>2 DEF HandleEvent
<1>3. ASSUME StopPixScan PROVE TypeOK'
  BY <1>3 DEF StopPixScan
<1>4. ASSUME FinishScan PROVE TypeOK'
  BY <1>4 DEF FinishScan
<1>5. ASSUME NEW g \in Groups, StartGroup(g) PROVE TypeOK'
  BY <1>5 DEF StartGroup
<1>6. ASSUME NEW g \in Groups, InitRods(g) PROVE TypeOK'
  BY <1>6 DEF InitRods, Status
<1>7. ASSUME NEW g \in Groups, Begin(g) PROVE TypeOK'
  BY <1>7 DEF Begin
<1>8. ASSUME NEW g \in Groups, InitScan(g) PROVE TypeOK'
  <2>1. queue' \in Seq(Groups \X Status)
    BY <1>8, QueueKept DEF InitScan, Status
  <2>2. ctrl' \in [Groups -> Places]
    BY <1>8 DEF InitScan
  <2>3. step' \in [Groups -> 0 .. Steps]
    <3>1. step' = step \/ step' = [step EXCEPT ![g] = 0]
      BY <1>8 DEF InitScan
    <3>2. step \in [Groups -> 0 .. Steps] /\ 0 \in 0 .. Steps
      BY ScanAssumption DEF TypeOK
    <3> HIDE DEF TypeOK
    <3> QED
      BY <3>1, <3>2
  <2>4. processing' \in [Groups -> BOOLEAN]
    BY <1>8 DEF InitScan
  <2> QED
    BY <1>8, <2>1, <2>2, <2>3, <2>4 DEF InitScan
<1>9. ASSUME NEW g \in Groups, StartStep(g) PROVE TypeOK'
  BY <1>9 DEF StartStep
<1>10. ASSUME NEW g \in Groups, Await(g) PROVE TypeOK'
  <2>1. queue' \in Seq(Groups \X Status)
    BY <1>10, QueueKept DEF Await, Status
  <2>2. upc' \in [Groups -> Flags]
    BY <1>10, FlagsKept DEF Await
  <2> QED
    BY <1>10, <2>1, <2>2 DEF Await
<1>11. ASSUME NEW g \in Groups, Poll(g) PROVE TypeOK'
  <2>1. upc' \in [Groups -> Flags]
    BY <1>11, FlagsKept DEF Poll
  <2>2. taken' \in [Groups -> Nat]
    BY <1>11 DEF Poll
  <2> QED
    BY <1>11, <2>1, <2>2 DEF Poll
<1>12. ASSUME NEW g \in Groups, Check(g) PROVE TypeOK'
  <2>1. queue' \in Seq(Groups \X Status)
    BY <1>12, QueueKept DEF Check, Status
  <2>2. upc' \in [Groups -> Flags]
    BY <1>12, FlagsKept DEF Check
  <2>3. abort' \in [Groups -> BOOLEAN]
    BY <1>12 DEF Check
  <2>4. ctrl' \in [Groups -> Places]
    BY <1>12 DEF Check
  <2>5. fault' \subseteq Groups
    BY <1>12 DEF Check
  <2> QED
    BY <1>12, <2>1, <2>2, <2>3, <2>4, <2>5 DEF Check
<1>13. ASSUME NEW g \in Groups, Settle(g) PROVE TypeOK'
  <2>1. step' \in [Groups -> 0 .. Steps]
    BY <1>13, ScanAssumption DEF Settle, IndexInv
  <2> QED
    BY <1>13, <2>1 DEF Settle
<1>14. ASSUME NEW g \in Groups, EndScan(g) PROVE TypeOK'
  <2>1. queue' \in Seq(Groups \X Status)
    BY <1>14, QueueKept DEF EndScan, Status
  <2> QED
    BY <1>14, <2>1 DEF EndScan, saves, endProcessing
<1>15. ASSUME NEW g \in Groups, CtrlThrows(g) PROVE TypeOK'
  <2>1. queue' \in Seq(Groups \X Status)
    BY <1>15, QueueKept DEF CtrlThrows, Status
  <2> QED
    BY <1>15, <2>1 DEF CtrlThrows
<1>16. ASSUME NEW g \in Groups, ScanExecute(g) PROVE TypeOK'
  <2>1. queue' \in Seq(Groups \X Status)
    BY <1>16, QueueKept DEF ScanExecute, caught, Status
  <2>2. upc' \in [Groups -> Flags]
    <3>1. upc' = upc \/ upc' = [upc EXCEPT ![g] = claim(upc[g])]
      BY <1>16 DEF ScanExecute
    <3>2. upc \in [Groups -> Flags] /\ upc[g] \in Flags
      BY DEF TypeOK
    <3>3. claim(upc[g]) \in Flags
      BY <3>2, FlagsKept
    <3> HIDE DEF TypeOK
    <3> QED
      BY <3>1, <3>2, <3>3
  <2> QED
    BY <1>16, <2>1, <2>2 DEF ScanExecute, caught
<1>17. ASSUME NEW g \in Groups, PrepareScan(g) PROVE TypeOK'
  <2>1. upc' \in [Groups -> Flags]
    <3>1. \/ upc' = [upc EXCEPT ![g] = startSource(upc[g])]
          \/ upc' = [upc EXCEPT ![g] = resetStatus(upc[g])]
      BY <1>17 DEF PrepareScan
    <3>2. upc \in [Groups -> Flags] /\ upc[g] \in Flags
      BY DEF TypeOK
    <3>3. startSource(upc[g]) \in Flags /\ resetStatus(upc[g]) \in Flags
      BY <3>2, FlagsKept
    <3> HIDE DEF TypeOK
    <3> QED
      BY <3>1, <3>2, <3>3
  <2> QED
    BY <1>17, <2>1 DEF PrepareScan
<1>18. ASSUME NEW g \in Groups, StartScan(g) PROVE TypeOK'
  <2>1. upc' \in [Groups -> Flags]
    BY <1>18, FlagsKept DEF StartScan
  <2>2. taken' \in [Groups -> Nat]
    BY <1>18 DEF StartScan
  <2> QED
    BY <1>18, <2>1, <2>2 DEF StartScan
<1>19. ASSUME NEW g \in Groups, FinishStart(g) PROVE TypeOK'
  <2>1. upc' \in [Groups -> Flags]
    BY <1>19, FlagsKept DEF FinishStart
  <2> QED
    BY <1>19, <2>1 DEF FinishStart
<1>20. ASSUME NEW g \in Groups, ScanThrows(g) PROVE TypeOK'
  <2>1. PICK s \in {"ok", "problem"} : caught(g, s)
    BY <1>20 DEF ScanThrows
  <2>2. queue' \in Seq(Groups \X Status)
    BY <2>1, QueueKept DEF caught, Status
  <2> QED
    BY <1>20, <2>1, <2>2 DEF ScanThrows, caught
<1>21. ASSUME NEW g \in Groups, LimitReached(g) PROVE TypeOK'
  <2>1. upc' \in [Groups -> Flags]
    BY <1>21, FlagsKept DEF LimitReached
  <2> QED
    BY <1>21, <2>1 DEF LimitReached
<1>22. ASSUME UNCHANGED vars PROVE TypeOK'
  BY <1>22 DEF vars
<1> QED
  BY <1>1, <1>2, <1>3, <1>4, <1>5, <1>6, <1>7, <1>8, <1>9, <1>10, <1>11,
     <1>12, <1>13, <1>14, <1>15, <1>16, <1>17, <1>18, <1>19, <1>20, <1>21,
     <1>22 DEF Next, CtrlThread, ScanThread

LEMMA IndexStep == TypeOK /\ IndexInv /\ [Next]_vars => IndexInv'
<1> SUFFICES ASSUME TypeOK, IndexInv, [Next]_vars PROVE IndexInv'
  OBVIOUS
<1> USE DEF TypeOK, IndexInv, mainVars, postVars, ctrlVars, scanVars, failed
<1>1. ASSUME UNCHANGED <<ctrl, step>> PROVE IndexInv'
  BY <1>1
<1>2. ASSUME NEW g \in Groups, StartGroup(g) PROVE IndexInv'
  BY <1>2 DEF StartGroup
<1>3. ASSUME NEW g \in Groups, CtrlThread(g) PROVE IndexInv'
  <2>1. CASE StartStep(g)
    <3>1. step[g] < Steps
      BY <2>1, ScanAssumption DEF StartStep, moreSteps, LastStep
    <3> QED
      BY <2>1, <3>1 DEF StartStep
  <2>2. CASE Begin(g) \/ Await(g)
    BY <2>2 DEF Begin, Await
  <2>3. CASE InitScan(g)
    BY <2>3 DEF InitScan
  <2>4. CASE Poll(g)
    BY <2>4 DEF Poll
  <2>5. CASE Check(g)
    BY <2>5 DEF Check
  <2>6. CASE Settle(g) \/ EndScan(g)
    BY <2>6 DEF Settle, EndScan
  <2> QED
    BY <1>3, <2>1, <2>2, <2>3, <2>4, <2>5, <2>6 DEF CtrlThread
<1>4. ASSUME NEW g \in Groups, CtrlThrows(g) PROVE IndexInv'
  BY <1>4 DEF CtrlThrows
<1>5. ASSUME NEW g \in Groups, ScanThread(g) PROVE UNCHANGED <<ctrl, step>>
  BY <1>5 DEF ScanThread, ScanExecute, PrepareScan, StartScan, FinishStart
<1>6. ASSUME NEW g \in Groups, InitRods(g) \/ ScanThrows(g) \/ LimitReached(g)
      PROVE  UNCHANGED <<ctrl, step>>
  BY <1>6 DEF InitRods, ScanThrows, LimitReached
<1>7. ASSUME \/ \E src \in BOOLEAN : PixScan(src)
             \/ HandleEvent \/ StopPixScan \/ FinishScan \/ UNCHANGED vars
      PROVE  UNCHANGED <<ctrl, step>>
  BY <1>7 DEF PixScan, HandleEvent, StopPixScan, FinishScan, vars
<1> QED
  BY <1>1, <1>2, <1>3, <1>4, <1>5, <1>6, <1>7 DEF Next

(* Every variable of the scan keeps its type, for every number of groups,  *)
(* steps and scans.                                                        *)
THEOREM TypeCorrect == Spec => []TypeOK
<1>1. TypeOK /\ IndexInv /\ [Next]_vars => (TypeOK /\ IndexInv)'
  BY TypeStep, IndexStep
<1> QED
  BY TypeInit, <1>1, PTL DEF Spec

-----------------------------------------------------------------------------
(* A step belongs to one group and leaves the others alone.                *)

GroupNext(g) ==
  \/ StartGroup(g) \/ InitRods(g) \/ CtrlThread(g) \/ CtrlThrows(g)
  \/ ScanThread(g) \/ ScanThrows(g) \/ LimitReached(g)

SameAt(g) ==
  /\ ctrl'[g] = ctrl[g] /\ step'[g] = step[g] /\ thr'[g] = thr[g]
  /\ upc'[g] = upc[g] /\ taken'[g] = taken[g] /\ written'[g] = written[g]
  /\ processing'[g] = processing[g] /\ abort'[g] = abort[g]

LEMMA OthersLeftAlone ==
  ASSUME TypeOK, NEW g \in Groups, NEW h \in Groups, h # g, GroupNext(h)
  PROVE  SameAt(g) /\ fault \subseteq fault' /\ source' = source
<1> USE DEF TypeOK, SameAt, mainVars, postVars, ctrlVars, scanVars, failed
<1>1. CASE StartGroup(h) \/ InitRods(h)
  BY <1>1 DEF StartGroup, InitRods
<1>2. CASE CtrlThread(h)
  <2>1. CASE Begin(h) \/ StartStep(h) \/ Settle(h)
    BY <2>1 DEF Begin, StartStep, Settle
  <2>2. CASE InitScan(h)
    BY <2>2 DEF InitScan
  <2>3. CASE Await(h) \/ Poll(h)
    BY <2>3 DEF Await, Poll
  <2>4. CASE Check(h)
    BY <2>4 DEF Check
  <2>5. CASE EndScan(h)
    BY <2>5 DEF EndScan, endProcessing
  <2> QED
    BY <1>2, <2>1, <2>2, <2>3, <2>4, <2>5 DEF CtrlThread
<1>3. CASE ScanThread(h)
  BY <1>3 DEF ScanThread, ScanExecute, PrepareScan, StartScan, FinishStart,
              caught
<1>4. CASE CtrlThrows(h) \/ ScanThrows(h) \/ LimitReached(h)
  BY <1>4 DEF CtrlThrows, ScanThrows, LimitReached, caught
<1> QED
  BY <1>1, <1>2, <1>3, <1>4 DEF GroupNext

LEMMA FaultGrows ==
  ASSUME NEW g \in Groups, GroupNext(g)
  PROVE  fault \subseteq fault'
<1> USE DEF failed, ctrlVars, scanVars
<1>1. CASE CtrlThread(g)
  BY <1>1 DEF CtrlThread, Begin, InitScan, StartStep, Await, Poll, Check,
              Settle, EndScan
<1>2. CASE ScanThread(g)
  BY <1>2 DEF ScanThread, ScanExecute, PrepareScan, StartScan, FinishStart,
              caught
<1> QED
  BY <1>1, <1>2 DEF GroupNext, StartGroup, InitRods, CtrlThrows, ScanThrows,
                    LimitReached, caught

(* What the functions on the flags do to the flags that decide who works.  *)
LEMMA FlagEffects ==
  ASSUME NEW u \in Flags
  PROVE  /\ nTrigger(u).busy = u.busy /\ nTrigger(u).init = u.init
         /\ u.init \/ u.busy = "none" => nTrigger(u).done = u.done
         /\ stopScan(u).busy = u.busy /\ stopScan(u).init = u.init
         /\ stopScan(u).done = u.done
         /\ u.done => afterStatus(u).busy = "none" /\ ~ afterStatus(u).done
         /\ ~ u.done => afterStatus(u) = u
         /\ claim(u).busy = (IF source THEN "source" ELSE "scan")
         /\ claim(u).init /\ claim(u).done = u.done
         /\ setReady(u).busy = u.busy /\ setReady(u).done = u.done
         /\ endSource(u).busy = u.busy /\ endSource(u).init = u.init
         /\ endSource(u).done = u.done
         /\ finish(u).busy = u.busy /\ finish(u).done = u.done
<1>1. /\ nTrigger(u).busy = u.busy /\ nTrigger(u).init = u.init
      /\ u.init \/ u.busy = "none" => nTrigger(u).done = u.done
  BY DEF nTrigger, Flags
<1>2. /\ endSource(u).busy = u.busy /\ endSource(u).init = u.init
      /\ endSource(u).done = u.done
  BY DEF endSource, Flags
<1>3. /\ stopScan(u).busy = u.busy /\ stopScan(u).init = u.init
      /\ stopScan(u).done = u.done
  BY <1>2 DEF stopScan, Flags
<1>4. /\ u.done => afterStatus(u).busy = "none" /\ ~ afterStatus(u).done
      /\ ~ u.done => afterStatus(u) = u
  BY DEF afterStatus, Flags
<1>5. /\ claim(u).busy = (IF source THEN "source" ELSE "scan")
      /\ claim(u).init /\ claim(u).done = u.done
  BY DEF claim, Flags
<1>6. /\ setReady(u).busy = u.busy /\ setReady(u).done = u.done
      /\ finish(u).busy = u.busy /\ finish(u).done = u.done
  BY DEF setReady, finish, Flags
<1> QED
  BY <1>1, <1>2, <1>3, <1>4, <1>5, <1>6

-----------------------------------------------------------------------------
(* The hand-over of the controller.                                        *)

LEMMA FlagOwnStep ==
  ASSUME TypeOK, NEW g \in Groups, FlagsOf(g), GroupNext(g), g \notin fault'
  PROVE  FlagsOf(g)'
<1> DEFINE u == upc[g]
<1>0. /\ u \in Flags /\ upc \in [Groups -> Flags]
      /\ DOMAIN ctrl = Groups /\ DOMAIN thr = Groups
      /\ ~ failed(g)
  BY DEF TypeOK, failed
<1> USE <1>0 DEF FlagsOf, mainVars, postVars, ctrlVars, scanVars
<1>1. CASE StartGroup(g) \/ InitRods(g)
  BY <1>1 DEF StartGroup, InitRods, TypeOK
<1>2. CASE Begin(g) \/ Settle(g) \/ EndScan(g)
  BY <1>2 DEF Begin, Settle, EndScan, TypeOK
<1>3. CASE InitScan(g)
  BY <1>3 DEF InitScan, TypeOK
<1>4. CASE StartStep(g)
  BY <1>4 DEF StartStep, TypeOK
<1>5. CASE Await(g)
  <2>1. upc'[g] = afterStatus(u) /\ thr' = thr
    BY <1>5 DEF Await
  <2>2. runStatus(u) # 0 /\ ctrl'[g] = "poll"
    BY <1>5 DEF Await, TypeOK
  <2>3. u.busy # "none"
    BY <2>2 DEF runStatus
  <2> QED
    BY <1>5, <2>1, <2>2, <2>3, FlagEffects DEF Await
<1>6. CASE Poll(g)
  <2>1. upc'[g] = nTrigger(u) /\ thr' = thr /\ ctrl'[g] = "check"
    BY <1>6 DEF Poll, TypeOK
  <2> QED
    BY <1>6, <2>1, FlagEffects DEF Poll
<1>7. CASE Check(g)
  <2> DEFINE w == IF abort[g] THEN stopScan(u) ELSE u
  <2>1. upc'[g] = afterStatus(w) /\ thr' = thr
    BY <1>7 DEF Check
  <2>2. ctrl'[g] = IF runStatus(w) = 1 THEN "poll" ELSE "settle"
    BY <1>7 DEF Check, TypeOK
  <2>3. w \in Flags /\ w.busy = u.busy /\ w.done = u.done /\ w.init = u.init
    BY FlagEffects, FlagsKept
  <2> HIDE DEF w
  <2>4. runStatus(w) = 1 <=> w.busy # "none" /\ ~ w.done
    BY DEF runStatus
  <2>5. CASE runStatus(w) = 1
    BY <1>7, <2>1, <2>2, <2>3, <2>4, <2>5, FlagEffects DEF Check
  <2>6. CASE runStatus(w) # 1
    BY <1>7, <2>1, <2>2, <2>3, <2>4, <2>6, FlagEffects DEF Check
  <2> QED
    BY <2>5, <2>6
<1>8. CASE ScanExecute(g)
  <2>1. upc'[g] = claim(u) /\ thr'[g] = "prepare" /\ ctrl' = ctrl
    BY <1>8 DEF ScanExecute, caught, TypeOK
  <2> QED
    BY <1>8, <2>1, FlagEffects DEF ScanExecute
<1>9. CASE PrepareScan(g)
  <2>1. thr'[g] \in {"idle", "measure"} /\ ctrl' = ctrl /\ thr[g] = "prepare"
    BY <1>9 DEF PrepareScan, TypeOK
  <2> QED
    BY <2>1
<1>10. CASE StartScan(g) \/ FinishStart(g)
  <2>1. upc'[g] \in {setReady(u), finish(u)}
    BY <1>10 DEF StartScan, FinishStart
  <2>2. thr'[g] \in {"idle", "tail"} /\ ctrl' = ctrl
    BY <1>10 DEF StartScan, FinishStart, TypeOK
  <2> QED
    BY <2>1, <2>2, FlagEffects
<1>11. CASE LimitReached(g)
  <2>1. upc'[g] = endSource(u) /\ ctrl' = ctrl /\ thr' = thr
    BY <1>11 DEF LimitReached
  <2> QED
    BY <2>1, FlagEffects
<1>12. CASE CtrlThrows(g) \/ ScanThrows(g)
  BY <1>12 DEF CtrlThrows, ScanThrows, caught
<1> QED
  BY <1>1, <1>2, <1>3, <1>4, <1>5, <1>6, <1>7, <1>8, <1>9, <1>10, <1>11, <1>12
     DEF GroupNext, CtrlThread, ScanThread

LEMMA FlagStep == TypeOK /\ FlagInv /\ [Next]_vars => FlagInv'
<1> SUFFICES ASSUME TypeOK, FlagInv, [Next]_vars,
                    NEW g \in Groups, g \notin fault'
             PROVE  FlagsOf(g)'
  BY DEF FlagInv
<1>1. ASSUME UNCHANGED <<ctrl, thr, upc, fault>> PROVE FlagsOf(g)'
  BY <1>1 DEF FlagInv, FlagsOf
<1>2. ASSUME NEW h \in Groups, GroupNext(h) PROVE FlagsOf(g)'
  <2>1. CASE h = g
    <3>1. g \notin fault
      BY <1>2, <2>1, FaultGrows
    <3> QED
      BY <1>2, <2>1, <3>1, FlagOwnStep DEF FlagInv
  <2>2. CASE h # g
    <3>1. SameAt(g) /\ g \notin fault
      BY <1>2, <2>2, OthersLeftAlone
    <3> QED
      BY <3>1 DEF FlagInv, FlagsOf, SameAt
  <2> QED
    BY <2>1, <2>2
<1>3. ASSUME \/ \E src \in BOOLEAN : PixScan(src)
             \/ HandleEvent \/ StopPixScan \/ FinishScan \/ UNCHANGED vars
      PROVE  UNCHANGED <<ctrl, thr, upc, fault>>
  BY <1>3 DEF PixScan, HandleEvent, StopPixScan, FinishScan, vars, ctrlVars,
              scanVars
<1> QED
  BY <1>1, <1>2, <1>3 DEF Next, GroupNext

(* The controller of a group in which nothing failed is free when its      *)
(* CtrlThread asks for a step, for any number of groups and steps and      *)
(* however long the code waits: startScan() is never refused.              *)
THEOREM ControllerIsFree == Spec => []ControllerFree
<1> DEFINE Inv == TypeOK /\ IndexInv /\ FlagInv
<1>1. Inv /\ [Next]_vars => Inv'
  BY TypeStep, IndexStep, FlagStep
<1>2. Inv => ControllerFree
  BY DEF FlagInv, FlagsOf, ControllerFree, TypeOK
<1> QED
  BY TypeInit, <1>1, <1>2, PTL DEF Spec

-----------------------------------------------------------------------------
(* The steps of a scan, if the waiting times are long enough.              *)

(* What the functions on the flags do to the others.                       *)
LEMMA StatusEffects ==
  ASSUME NEW u \in Flags
  PROVE  /\ nTrigger(u).ready = u.ready /\ nTrigger(u).cancelled = u.cancelled
         /\ u.busy = "scan" /\ ~ u.ready => nTrigger(u).done = u.done
         /\ u.busy = "source" => (nTrigger(u).done <=> u.done \/ readsOut(u))
         /\ readsOut(u) => u.busy = "source" /\ ~ u.init /\ ~ u.done
         /\ stopScan(u).ready = u.ready
         /\ resetStatus(u).busy = u.busy /\ resetStatus(u).done = u.done
         /\ ~ resetStatus(u).ready /\ ~ resetStatus(u).cancelled
         /\ startSource(u).busy = u.busy /\ startSource(u).done = u.done
<1>1. /\ nTrigger(u).ready = u.ready /\ nTrigger(u).cancelled = u.cancelled
      /\ u.busy = "scan" /\ ~ u.ready => nTrigger(u).done = u.done
      /\ u.busy = "source" => (nTrigger(u).done <=> u.done \/ readsOut(u))
      /\ readsOut(u) => u.busy = "source" /\ ~ u.init /\ ~ u.done
  BY DEF nTrigger, readsOut, Flags
<1>2. stopScan(u).ready = u.ready
  BY DEF stopScan, endSource, Flags
<1>3. /\ resetStatus(u).busy = u.busy /\ resetStatus(u).done = u.done
      /\ ~ resetStatus(u).ready /\ ~ resetStatus(u).cancelled
  BY DEF resetStatus, Flags
<1>4. startSource(u).busy = u.busy /\ startSource(u).done = u.done
  BY DEF startSource, Flags
<1> QED
  BY <1>1, <1>2, <1>3, <1>4

LEMMA CtrlOwnStep ==
  ASSUME Timely, TypeOK, NEW g \in Groups, FlagsOf(g), StepOf(g), StartInv,
         StartGroup(g) \/ InitRods(g) \/ CtrlThread(g), g \notin fault'
  PROVE  StepOf(g)'
<1> DEFINE u == upc[g]
<1>0. /\ u \in Flags /\ source \in BOOLEAN /\ abort[g] \in BOOLEAN
      /\ step[g] \in Nat /\ taken[g] \in Nat /\ LastStep \in Nat \ {0}
      /\ ~ failed(g)
  BY ScanAssumption DEF TypeOK, failed, LastStep
<1> USE <1>0 DEF Working
<1>1. CASE StartGroup(g)
  <2>1. /\ UNCHANGED <<source, processing, step, thr, upc>>
        /\ shown' # "idle" /\ toStart' \subseteq toStart /\ ~ written'[g]
        /\ ctrl[g] = "idle" \/ UNCHANGED <<ctrl[g], abort[g], taken[g]>>
        /\ ctrl[g] = "idle" => \/ ctrl'[g] = "begin" /\ taken'[g] = 0
                              \/ UNCHANGED <<ctrl[g], abort[g], taken[g]>>
    BY <1>1 DEF StartGroup, TypeOK, postVars
  <2>2. CASE UNCHANGED <<ctrl[g], abort[g], taken[g]>>
    BY <2>1, <2>2 DEF StepOf, IdleOf, ThreadOf, CountOf, SaveOf, LastStep, measured
  <2>3. CASE ctrl[g] = "idle" /\ ctrl'[g] = "begin" /\ taken'[g] = 0
    BY <2>1, <2>3 DEF StepOf, IdleOf, ThreadOf, CountOf, SaveOf
  <2> QED
    BY <2>1, <2>2, <2>3
<1>2. CASE InitRods(g)
  <2>1. /\ UNCHANGED <<shown, source, toStart, ctrl, step, thr, upc, abort,
                       taken, written>>
        /\ ctrl[g] = "idle"
    BY <1>2 DEF InitRods, mainVars, ctrlVars, scanVars
  <2> QED
    BY <2>1 DEF StepOf, IdleOf, ThreadOf, CountOf, SaveOf, LastStep, measured
<1>3. CASE Begin(g)
  <2>1. /\ UNCHANGED <<shown, source, toStart, step, thr, upc, abort, taken,
                       written>>
        /\ ctrl[g] = "begin" /\ ctrl'[g] = "init" /\ processing'[g]
    BY <1>3 DEF Begin, mainVars, scanVars, TypeOK
  <2> QED
    BY <2>1 DEF StepOf, IdleOf, ThreadOf, CountOf, SaveOf
<1>4. CASE InitScan(g)
  <2>1. /\ UNCHANGED <<shown, source, toStart, thr, upc, abort, taken, written>>
        /\ ctrl[g] = "init"
        /\ \/ /\ ctrl'[g] = "loop" /\ step'[g] = 0
              /\ UNCHANGED processing
           \/ ctrl'[g] = "idle"
    BY <1>4 DEF InitScan, mainVars, scanVars, TypeOK
  <2>2. thr[g] = "idle" /\ ~ written[g]
    BY <2>1 DEF StepOf, IdleOf, SaveOf
  <2>3. IdleOf(g)' /\ SaveOf(g)'
    BY <2>1, <2>2 DEF StepOf, IdleOf, SaveOf
  <2>4. ThreadOf(g)'
    BY <2>1, <2>2 DEF StepOf, ThreadOf
  <2>5. CountOf(g)'
    BY <2>1 DEF StepOf, CountOf, LastStep
  <2> QED
    BY <2>3, <2>4, <2>5 DEF StepOf
<1>5. CASE StartStep(g)
  <2>1. /\ UNCHANGED <<shown, source, toStart, processing, step, upc, abort,
                       taken, written>>
        /\ ctrl[g] = "loop" /\ ctrl'[g] = "await" /\ step[g] < LastStep
    BY <1>5 DEF StartStep, mainVars, moreSteps, TypeOK
  <2>2. thr[g] = "idle" /\ thr'[g] = "exec"
    BY <1>5 DEF StartStep, StepOf, IdleOf, TypeOK
  <2> QED
    BY <2>1, <2>2 DEF StepOf, IdleOf, ThreadOf, CountOf, SaveOf, measured, LastStep
<1>6. CASE Await(g)
  <2>1. /\ UNCHANGED <<shown, source, toStart, processing, step, thr, abort,
                       taken, written>>
        /\ ctrl[g] = "await" /\ ctrl'[g] = "poll" /\ runStatus(u) # 0
        /\ upc'[g] = afterStatus(u)
    BY <1>6 DEF Await, mainVars, TypeOK
  <2>2. u.busy # "none" /\ (u.done => u.busy = "scan")
    BY <2>1 DEF runStatus
  <2>3. CASE u.done
    BY <2>1, <2>2, <2>3, FlagEffects
       DEF StepOf, IdleOf, ThreadOf, CountOf, SaveOf, measured, LastStep
  <2>4. CASE ~ u.done
    <3>1. upc'[g] = u
      BY <2>1, <2>4, FlagEffects
    <3> QED
      BY <2>1, <3>1 DEF StepOf, IdleOf, ThreadOf, CountOf, SaveOf, measured, LastStep
  <2> QED
    BY <2>3, <2>4
<1>7. CASE Poll(g)
  <2>1. /\ UNCHANGED <<shown, source, toStart, processing, step, thr, abort,
                       written>>
        /\ ctrl[g] = "poll" /\ ctrl'[g] = "check" /\ upc'[g] = nTrigger(u)
        /\ taken'[g] = IF readsOut(u) THEN taken[g] + 1 ELSE taken[g]
    BY <1>7 DEF Poll, mainVars, TypeOK
  <2>2. IdleOf(g)' /\ SaveOf(g)'
    BY <2>1 DEF StepOf, IdleOf, SaveOf
  <2>3. ThreadOf(g)'
    BY <2>1, FlagEffects, StatusEffects DEF StepOf, ThreadOf
  <2>4. readsOut(u) => source /\ thr[g] = "idle"
    BY <2>1, StatusEffects DEF FlagsOf, StepOf, ThreadOf, TypeOK
  <2>5. measured(g)' <=> measured(g) \/ readsOut(u)
    <3>1. CASE source
      BY <2>1, <2>4, <3>1, FlagEffects, StatusEffects DEF StepOf, ThreadOf, measured
    <3>2. CASE ~ source
      BY <2>1, <2>4, <3>2 DEF measured
    <3> QED
      BY <3>1, <3>2
  <2>6. readsOut(u) => ~ measured(g)
    BY <2>4, StatusEffects DEF measured
  <2>7. CountOf(g)'
    BY <2>1, <2>5, <2>6 DEF StepOf, CountOf, LastStep
  <2> QED
    BY <2>2, <2>3, <2>7 DEF StepOf
<1>8. CASE Check(g)
  <2> DEFINE w == IF abort[g] THEN stopScan(u) ELSE u
  <2>1. /\ UNCHANGED <<shown, source, toStart, processing, step, thr, taken,
                       written>>
        /\ ctrl[g] = "check" /\ upc'[g] = afterStatus(w)
        /\ abort'[g] = (abort[g] /\ ~ source)
        /\ ctrl'[g] = IF runStatus(w) = 1 THEN "poll" ELSE "settle"
    BY <1>8 DEF Check, mainVars, TypeOK
  <2>2. /\ w \in Flags /\ w.busy = u.busy /\ w.done = u.done
        /\ w.ready = u.ready /\ (~ abort[g] => w = u)
    <3>1. CASE abort[g]
      <4>1. stopScan(u) \in Flags
        BY FlagsKept
      <4>2. /\ stopScan(u).busy = u.busy /\ stopScan(u).done = u.done
            /\ stopScan(u).ready = u.ready
        BY FlagEffects, StatusEffects
      <4> QED
        BY <3>1, <4>1, <4>2
    <3>2. CASE ~ abort[g]
      BY <3>2
    <3> QED
      BY <3>1, <3>2
  <2> HIDE DEF w
  <2>3. runStatus(w) = 1 <=> w.busy # "none" /\ ~ w.done
    BY DEF runStatus
  <2>4. CASE runStatus(w) = 1
    <3>1. upc'[g] = w /\ ctrl'[g] = "poll"
      BY <2>1, <2>2, <2>3, <2>4, FlagEffects
    <3>2. IdleOf(g)' /\ SaveOf(g)'
      BY <2>1, <3>1 DEF StepOf, IdleOf, SaveOf
    <3>3. ThreadOf(g)'
      BY <2>1, <2>2, <3>1 DEF StepOf, ThreadOf
    <3>4. measured(g)' <=> measured(g)
      BY <2>1, <2>2, <3>1 DEF measured
    <3>5. CountOf(g)'
      BY <2>1, <3>1, <3>4 DEF StepOf, CountOf, LastStep
    <3> QED
      BY <3>2, <3>3, <3>5 DEF StepOf
  <2>5. CASE runStatus(w) # 1
    <3>1. upc'[g].busy = "none" /\ ctrl'[g] = "settle"
      BY <2>1, <2>2, <2>3, <2>5, FlagEffects
    <3>2. thr[g] \in {"idle", "tail"} /\ (source => thr[g] = "idle")
      BY <2>1, <2>2, <2>3, <2>5 DEF FlagsOf, StepOf, ThreadOf, TypeOK
    <3>3. measured(g)
      BY <2>2, <2>3, <2>5, <3>2 DEF measured
    <3>4. IdleOf(g)' /\ SaveOf(g)'
      BY <2>1, <3>1 DEF StepOf, IdleOf, SaveOf
    <3>5. ThreadOf(g)'
      BY <2>1, <3>1, <3>2 DEF StepOf, ThreadOf
    <3>6. CountOf(g)'
      BY <2>1, <3>1, <3>3 DEF StepOf, CountOf, LastStep
    <3> QED
      BY <3>4, <3>5, <3>6 DEF StepOf
  <2> QED
    BY <2>4, <2>5
<1>9. CASE Settle(g)
  <2>1. /\ UNCHANGED <<shown, source, toStart, processing, thr, upc, abort,
                       taken, written>>
        /\ ctrl[g] = "settle" /\ ctrl'[g] = "loop" /\ step'[g] = step[g] + 1
        /\ thr[g] # "tail"
    BY <1>9 DEF Settle, mainVars, scanVars, TypeOK
  <2>2. thr[g] = "idle"
    BY <2>1 DEF FlagsOf, StepOf, ThreadOf, TypeOK
  <2> QED
    BY <2>1, <2>2 DEF StepOf, IdleOf, ThreadOf, CountOf, SaveOf, LastStep
<1>10. CASE EndScan(g)
  <2>1. /\ UNCHANGED <<shown, source, toStart, step, thr, upc, abort, taken>>
        /\ ctrl[g] = "loop" /\ ctrl'[g] = "idle" /\ (written'[g] => ~ abort[g])
        /\ abort[g] \/ ~ (step[g] < LastStep)
    BY <1>10 DEF EndScan, saves, moreSteps, mainVars, scanVars, TypeOK
  <2>2. thr[g] = "idle"
    BY <2>1 DEF StepOf, IdleOf
  <2>3. IdleOf(g)' /\ ThreadOf(g)' /\ CountOf(g)'
    BY <2>1, <2>2 DEF StepOf, IdleOf, ThreadOf, CountOf
  <2>4. SaveOf(g)'
    BY <2>1 DEF StepOf, CountOf, SaveOf, LastStep
  <2> QED
    BY <2>3, <2>4 DEF StepOf
<1> QED
  BY <1>1, <1>2, <1>3, <1>4, <1>5, <1>6, <1>7, <1>8, <1>9, <1>10 DEF CtrlThread

LEMMA ScanOwnStep ==
  ASSUME TypeOK, NEW g \in Groups, FlagsOf(g), StepOf(g),
         \/ ScanThread(g) \/ LimitReached(g)
         \/ CtrlThrows(g) \/ ScanThrows(g), g \notin fault'
  PROVE  StepOf(g)'
<1> DEFINE u == upc[g]
<1>0. /\ u \in Flags /\ source \in BOOLEAN /\ abort[g] \in BOOLEAN
      /\ step[g] \in Nat /\ taken[g] \in Nat /\ ~ failed(g)
  BY DEF TypeOK, failed
<1> USE <1>0 DEF Working
<1>1. CASE ScanExecute(g)
  <2>1. /\ UNCHANGED <<shown, source, toStart, processing, ctrl, step, abort,
                       taken, written>>
        /\ thr[g] = "exec" /\ thr'[g] = "prepare" /\ upc'[g] = claim(u)
    BY <1>1 DEF ScanExecute, caught, mainVars, ctrlVars, TypeOK
  <2>2. ctrl[g] = "await" /\ ~ measured(g)
    BY <2>1 DEF FlagsOf, measured
  <2>3. upc'[g].busy = IF source THEN "source" ELSE "scan"
    BY <2>1, FlagEffects
  <2>4. IdleOf(g)' /\ SaveOf(g)'
    BY <2>1, <2>2 DEF StepOf, IdleOf, SaveOf, LastStep
  <2>5. ThreadOf(g)'
    BY <2>1, <2>2, <2>3 DEF ThreadOf
  <2>6. CountOf(g)'
    BY <2>1, <2>2 DEF StepOf, CountOf, LastStep, measured
  <2> QED
    BY <2>4, <2>5, <2>6 DEF StepOf
<1>2. CASE PrepareScan(g)
  <2>1. /\ UNCHANGED <<shown, source, toStart, processing, ctrl, step, abort,
                       taken, written>>
        /\ thr[g] = "prepare"
        /\ source => thr'[g] = "idle" /\ upc'[g] = startSource(u)
        /\ ~ source => thr'[g] = "measure" /\ upc'[g] = resetStatus(u)
    BY <1>2 DEF PrepareScan, mainVars, ctrlVars, TypeOK
  <2>2. /\ ctrl[g] \in Working /\ ~ measured(g) /\ ~ u.done
        /\ u.busy = IF source THEN "source" ELSE "scan"
    BY <2>1 DEF FlagsOf, StepOf, ThreadOf, measured
  <2>3. /\ upc'[g].busy = u.busy /\ ~ upc'[g].done
        /\ ~ source => ~ upc'[g].ready /\ ~ upc'[g].cancelled
    BY <2>1, <2>2, StatusEffects
  <2>4. IdleOf(g)' /\ SaveOf(g)'
    BY <2>1, <2>2 DEF StepOf, IdleOf, SaveOf, LastStep
  <2>5. ThreadOf(g)'
    BY <2>1, <2>2, <2>3 DEF ThreadOf
  <2>6. ~ measured(g)'
    BY <2>1, <2>2, <2>3 DEF measured
  <2>7. CountOf(g)'
    BY <2>1, <2>2, <2>6 DEF StepOf, CountOf, LastStep
  <2> QED
    BY <2>4, <2>5, <2>7 DEF StepOf
<1>3. CASE StartScan(g)
  <2>1. /\ UNCHANGED <<shown, source, toStart, processing, ctrl, step, abort,
                       written>>
        /\ thr[g] = "measure" /\ thr'[g] = "tail" /\ upc'[g] = setReady(u)
        /\ taken'[g] = IF u.cancelled THEN taken[g] ELSE taken[g] + 1
    BY <1>3 DEF StartScan, mainVars, ctrlVars, TypeOK
  <2>2. /\ ctrl[g] \in Working /\ ~ source /\ (~ abort[g] => ~ u.cancelled)
        /\ ~ measured(g)
    BY <2>1 DEF StepOf, ThreadOf, measured
  <2>3. IdleOf(g)' /\ SaveOf(g)'
    BY <2>1, <2>2 DEF StepOf, IdleOf, SaveOf
  <2>4. ThreadOf(g)'
    BY <2>1, <2>2, FlagEffects DEF StepOf, ThreadOf
  <2>5. CountOf(g)'
    BY <2>1, <2>2 DEF StepOf, CountOf, LastStep, measured
  <2> QED
    BY <2>3, <2>4, <2>5 DEF StepOf
<1>4. CASE FinishStart(g)
  <2>1. /\ UNCHANGED <<shown, source, toStart, processing, ctrl, step, abort,
                       taken, written>>
        /\ thr[g] = "tail" /\ thr'[g] = "idle" /\ upc'[g] = finish(u)
    BY <1>4 DEF FinishStart, mainVars, ctrlVars, TypeOK
  <2>2. ~ source /\ upc'[g].busy = u.busy
    BY <2>1, FlagEffects DEF StepOf, ThreadOf
  <2>3. IdleOf(g)' /\ ThreadOf(g)' /\ SaveOf(g)'
    BY <2>1, <2>2 DEF StepOf, IdleOf, ThreadOf, SaveOf, LastStep
  <2>4. CountOf(g)'
    BY <2>1, <2>2 DEF StepOf, CountOf, LastStep, measured
  <2> QED
    BY <2>3, <2>4 DEF StepOf
<1>5. CASE LimitReached(g)
  <2>1. /\ UNCHANGED <<shown, source, toStart, processing, ctrl, step, abort,
                       thr, taken, written>>
        /\ u.busy = "source" /\ upc'[g] = endSource(u)
    BY <1>5 DEF LimitReached, mainVars, ctrlVars, TypeOK
  <2>2. upc'[g].busy = u.busy /\ upc'[g].done = u.done
    BY <2>1, FlagEffects
  <2>3. thr[g] # "measure"
    BY <2>1 DEF StepOf, ThreadOf
  <2>4. IdleOf(g)' /\ ThreadOf(g)' /\ SaveOf(g)'
    BY <2>1, <2>2, <2>3 DEF StepOf, IdleOf, ThreadOf, SaveOf, LastStep
  <2>5. CountOf(g)'
    BY <2>1, <2>2 DEF StepOf, CountOf, LastStep, measured
  <2> QED
    BY <2>4, <2>5 DEF StepOf
<1>6. CASE CtrlThrows(g) \/ ScanThrows(g)
  BY <1>6 DEF CtrlThrows, ScanThrows, caught
<1> QED
  BY <1>1, <1>2, <1>3, <1>4, <1>5, <1>6 DEF ScanThread

LEMMA StepInit == Init => StepInv
  BY ScanAssumption DEF Init, StepInv, StartInv, StepOf, IdleOf, ThreadOf,
     CountOf, SaveOf, Working

(* The main thread's own steps.                                            *)
LEMMA MainStep ==
  ASSUME Timely, TypeOK, FlagInv, StepInv,
         \/ \E src \in BOOLEAN : PixScan(src)
         \/ HandleEvent \/ StopPixScan \/ FinishScan \/ UNCHANGED vars
  PROVE  StepInv'
<1>1. /\ UNCHANGED <<processing, ctrl, step, written, thr, upc, taken, fault>>
      /\ (UNCHANGED source \/ shown = "idle")
      /\ \A g \in Groups : abort[g] => abort'[g]
  BY DEF PixScan, HandleEvent, StopPixScan, FinishScan, vars, mainVars,
         postVars, ctrlVars, scanVars, TypeOK
<1>2. StartInv'
  BY DEF PixScan, HandleEvent, StopPixScan, FinishScan, vars, mainVars,
         StepInv, StartInv
<1>3. ASSUME NEW g \in Groups, g \notin fault PROVE StepOf(g)'
  <2>1. StepOf(g) /\ FlagsOf(g)
    BY <1>3 DEF StepInv, FlagInv
  <2>2. CASE \E src \in BOOLEAN : PixScan(src)
    <3>1. shown = "idle" /\ shown' = "starting" /\ toStart' = Groups
      BY <2>2 DEF PixScan
    <3>2. ctrl[g] = "idle" /\ thr[g] = "idle" /\ upc[g].busy = "none"
      BY <2>1, <3>1 DEF StepOf, IdleOf, FlagsOf
    <3> QED
      BY <1>1, <2>1, <3>1, <3>2
         DEF StepOf, IdleOf, ThreadOf, CountOf, SaveOf, Working
  <2>3. CASE UNCHANGED <<source, toStart>>
    <3>1. shown' = "idle" => shown = "idle" \/ FinishScan
      BY DEF PixScan, HandleEvent, StopPixScan, vars, mainVars
    <3>2. shown' = "idle" => ctrl[g] = "idle"
      <4>1. CASE FinishScan
        BY <2>1, <4>1 DEF FinishScan, RodProcessing, StepOf, IdleOf
      <4> QED
        BY <2>1, <3>1, <4>1 DEF StepOf, IdleOf
    <3>3. IdleOf(g)' /\ SaveOf(g)'
      BY <1>1, <2>1, <2>3, <3>2 DEF StepOf, IdleOf, SaveOf, LastStep
    <3>4. ThreadOf(g)'
      BY <1>1, <2>1, <2>3 DEF StepOf, ThreadOf
    <3>5. CountOf(g)'
      BY <1>1, <2>1, <2>3 DEF StepOf, CountOf, LastStep, measured
    <3> QED
      BY <3>3, <3>4, <3>5 DEF StepOf
  <2>4. UNCHANGED <<source, toStart>> \/ \E src \in BOOLEAN : PixScan(src)
    BY DEF HandleEvent, StopPixScan, FinishScan, vars, mainVars
  <2> QED
    BY <2>2, <2>3, <2>4
<1> QED
  BY <1>1, <1>2, <1>3 DEF StepInv

LEMMA StepStep ==
  ASSUME Timely, TypeOK, FlagInv, StepInv, [Next]_vars
  PROVE  StepInv'
<1>1. ASSUME NEW h \in Groups, GroupNext(h) PROVE StepInv'
  <2>1. StartInv'
    <3>1. CASE StartGroup(h)
      BY <3>1 DEF StartGroup, StepInv, StartInv
    <3>2. UNCHANGED <<shown, toStart>> \/ StartGroup(h)
      BY <1>1 DEF GroupNext, InitRods, CtrlThread, ScanThread, CtrlThrows,
                  ScanThrows, LimitReached, Begin, InitScan, StartStep, Await,
                  Poll, Check, Settle, EndScan, ScanExecute, PrepareScan,
                  StartScan, FinishStart, mainVars
    <3> QED
      BY <3>1, <3>2 DEF StepInv, StartInv
  <2>2. ASSUME NEW g \in Groups, g \notin fault' PROVE StepOf(g)'
    <3>1. g \notin fault
      BY <1>1, <2>2, FaultGrows
    <3>2. StepOf(g) /\ FlagsOf(g) /\ StartInv
      BY <3>1 DEF StepInv, FlagInv
    <3>3. CASE h = g
      BY <1>1, <2>2, <3>2, <3>3, CtrlOwnStep, ScanOwnStep DEF GroupNext
    <3>4. CASE h # g
      <4>1. SameAt(g) /\ source' = source
        BY <1>1, <3>4, OthersLeftAlone
      <4>2. /\ shown' = "idle" => shown = "idle"
            /\ g \notin toStart' => g \notin toStart
        BY <1>1, <3>4 DEF GroupNext, StartGroup, InitRods, CtrlThread,
           ScanThread, CtrlThrows, ScanThrows, LimitReached, Begin, InitScan,
           StartStep, Await, Poll, Check, Settle, EndScan, ScanExecute,
           PrepareScan, StartScan, FinishStart, mainVars
      <4> QED
        BY <3>2, <4>1, <4>2 DEF StepOf, IdleOf, ThreadOf, CountOf, SaveOf,
                                SameAt, measured, LastStep
    <3> QED
      BY <3>3, <3>4
  <2> QED
    BY <2>1, <2>2 DEF StepInv
<1> QED
  BY <1>1, MainStep DEF Next, GroupNext

(* The inductive invariant of a system whose waiting times suffice.        *)
WorkInv == TypeOK /\ IndexInv /\ FlagInv /\ StepInv

LEMMA WorkAlways == ASSUME Timely PROVE Spec => []WorkInv
<1>1. Init => WorkInv
  BY TypeInit, StepInit DEF WorkInv
<1>2. WorkInv /\ [Next]_vars => WorkInv'
  BY TypeStep, IndexStep, FlagStep, StepStep DEF WorkInv
<1> QED
  BY <1>1, <1>2, PTL DEF Spec

(* If startScan() returns within the 500 ms that the CtrlThread waits, a   *)
(* step's histograms are taken over only when it has been measured, for    *)
(* any number of groups, steps and scans.                                  *)
THEOREM StepsAreMeasured == ASSUME Timely PROVE Spec => []StepIsMeasured
<1>1. WorkInv => StepIsMeasured
  BY DEF WorkInv, StepInv, StepOf, CountOf, StepIsMeasured
<1> QED
  BY <1>1, WorkAlways, PTL

(* Then what is saved of a group that did not fail is complete, too.       *)
THEOREM SavedScansAreComplete == ASSUME Timely PROVE Spec => []SavedIsComplete
<1>1. WorkInv => SavedIsComplete
  BY DEF WorkInv, StepInv, StartInv, StepOf, SaveOf, SavedIsComplete
<1> QED
  BY <1>1, WorkAlways, PTL

(* And the end of a scan is reported when all threads of every group that  *)
(* did not fail are done with it.                                          *)
THEOREM EndsAreTrue == ASSUME Timely PROVE Spec => EndIsTrue
<1> DEFINE Reported ==
      shown = "scanning" /\ shown' = "idle" =>
        \A g \in Groups \ fault : ctrl[g] = "idle" /\ thr[g] = "idle"
<1>1. WorkInv /\ WorkInv' /\ [Next]_vars => [Reported]_vars
  <2> SUFFICES ASSUME WorkInv, WorkInv', [Next]_vars,
                      shown = "scanning", shown' = "idle",
                      NEW g \in Groups, g \notin fault
               PROVE  ctrl[g] = "idle" /\ thr[g] = "idle"
    BY DEF vars, mainVars
  <2>1. FinishScan
    BY DEF Next, PixScan, HandleEvent, StopPixScan, StartGroup, InitRods,
           CtrlThread, ScanThread, CtrlThrows, ScanThrows, LimitReached, Begin,
           InitScan, StartStep, Await, Poll, Check, Settle, EndScan,
           ScanExecute, PrepareScan, StartScan, FinishStart, vars, mainVars
  <2>2. UNCHANGED <<ctrl, thr, fault>>
    BY <2>1 DEF FinishScan, ctrlVars, scanVars
  <2>3. StepOf(g)'
    BY <2>2 DEF WorkInv, StepInv
  <2> QED
    BY <2>2, <2>3 DEF StepOf, IdleOf
<1> QED
  BY <1>1, WorkAlways, PTL DEF Spec, EndIsTrue

-----------------------------------------------------------------------------
(* What the main thread will know of a group when it has handled all that  *)
(* is posted: its last post, or else its status.                           *)
EndsOk(g) ==
  /\ status[g] = "ok" \/ pending(g)
  /\ \A i \in DOMAIN queue :
       queue[i][1] = g /\ (\A j \in DOMAIN queue : queue[j][1] = g => j <= i)
         => queue[i][2] = "ok"

(* A group outside its loops is, or will be, in order; and until something *)
(* fails the main thread has not to wait for a group it is going to start. *)
RestOf(g) ==
  /\ ctrl[g] \in {"idle", "begin", "init"} => EndsOk(g)
  /\ g \in toStart => ctrl[g] = "idle"

RestInv == fault = {} => \A g \in Groups : RestOf(g)

(* The post of a group concerns the group alone.                           *)
LEMMA PostedLast ==
  ASSUME TypeOK, NEW h \in Groups, NEW s \in Status, post(h, s), status' = status
  PROVE  /\ s = "ok" => EndsOk(h)'
         /\ \A g \in Groups : g # h /\ EndsOk(g) => EndsOk(g)'
<1> DEFINE n == Len(queue) + 1
<1>1. queue \in Seq(Groups \X Status)
  BY DEF TypeOK
<1>2. /\ DOMAIN queue' = 1 .. n /\ DOMAIN queue = 1 .. Len(queue)
      /\ Len(queue) \in Nat
      /\ queue'[n][1] = h /\ queue'[n][2] = s
      /\ \A i \in DOMAIN queue : queue'[i] = queue[i]
  BY <1>1 DEF post
<1> HIDE DEF TypeOK, post
<1>3. ASSUME s = "ok" PROVE EndsOk(h)'
  <2>1. n \in DOMAIN queue'
    BY <1>2
  <2>2. pending(h)'
    BY <1>2, <2>1 DEF pending
  <2>3. ASSUME NEW i \in DOMAIN queue', queue'[i][1] = h,
               \A j \in DOMAIN queue' : queue'[j][1] = h => j <= i
        PROVE  i = n
    BY <1>2, <2>1, <2>3
  <2> QED
    BY <1>2, <1>3, <2>2, <2>3 DEF EndsOk
<1>4. ASSUME NEW g \in Groups, g # h, EndsOk(g) PROVE EndsOk(g)'
  <2>1. pending(g) => pending(g)'
    BY <1>2 DEF pending
  <2>2. ASSUME NEW i \in DOMAIN queue', queue'[i][1] = g,
               \A j \in DOMAIN queue' : queue'[j][1] = g => j <= i
        PROVE  queue'[i][2] = "ok"
    <3>1. i \in DOMAIN queue /\ queue[i] = queue'[i]
      BY <1>2, <1>4, <2>2
    <3>2. \A j \in DOMAIN queue : queue[j][1] = g => j <= i
      BY <1>2, <2>2
    <3> QED
      BY <1>4, <2>2, <3>1, <3>2 DEF EndsOk
  <2> QED
    BY <1>4, <2>1, <2>2 DEF EndsOk
<1> QED
  BY <1>3, <1>4

(* Handling an event changes nothing of what will be known in the end.     *)
LEMMA HandledFirst ==
  ASSUME TypeOK, HandleEvent, NEW g \in Groups, EndsOk(g)
  PROVE  EndsOk(g)'
<1> DEFINE n == Len(queue)
<1>1. /\ queue \in Seq(Groups \X Status) /\ queue # <<>>
      /\ queue' = Tail(queue)
      /\ status' = [status EXCEPT ![Head(queue)[1]] = Head(queue)[2]]
      /\ status \in [Groups -> Status]
  BY DEF TypeOK, HandleEvent
<1>2. /\ n \in Nat /\ n > 0 /\ DOMAIN queue = 1 .. n
      /\ DOMAIN queue' = 1 .. (n - 1)
      /\ \A i \in 1 .. (n - 1) : queue'[i] = queue[i + 1]
      /\ Head(queue) = queue[1]
  BY <1>1
<1>3. \A i \in DOMAIN queue : i # 1 => i - 1 \in DOMAIN queue' /\ queue'[i - 1] = queue[i]
  BY <1>2
<1>4. status'[g] = IF queue[1][1] = g THEN queue[1][2] ELSE status[g]
  BY <1>1, <1>2
<1>5. status'[g] = "ok" \/ pending(g)'
  <2>1. CASE \E i \in DOMAIN queue : i # 1 /\ queue[i][1] = g
    <3>1. PICK i \in DOMAIN queue : i # 1 /\ queue[i][1] = g
      BY <2>1
    <3>2. i - 1 \in DOMAIN queue' /\ queue'[i - 1][1] = g
      BY <1>3, <3>1
    <3> QED
      BY <3>2 DEF pending
  <2>2. CASE \A i \in DOMAIN queue : queue[i][1] = g => i = 1
    <3>1. CASE queue[1][1] = g
      <4>1. 1 \in DOMAIN queue /\ \A j \in DOMAIN queue : queue[j][1] = g => j <= 1
        BY <1>2, <2>2
      <4> QED
        BY <1>4, <3>1, <4>1 DEF EndsOk
    <3>2. CASE queue[1][1] # g
      BY <1>4, <2>2, <3>2 DEF EndsOk, pending
    <3> QED
      BY <3>1, <3>2
  <2> QED
    BY <2>1, <2>2
<1>6. ASSUME NEW i \in DOMAIN queue', queue'[i][1] = g,
             \A j \in DOMAIN queue' : queue'[j][1] = g => j <= i
      PROVE  queue'[i][2] = "ok"
  <2>1. i + 1 \in DOMAIN queue /\ queue[i + 1] = queue'[i] /\ i >= 1
    BY <1>2, <1>6
  <2>2. ASSUME NEW j \in DOMAIN queue, queue[j][1] = g
        PROVE  j <= i + 1
    <3>1. CASE j = 1
      BY <2>1, <3>1, <1>2
    <3>2. CASE j # 1
      <4>1. j - 1 <= i
        BY <1>3, <1>6, <2>2, <3>2
      <4> QED
        BY <4>1, <1>2, <1>6
    <3> QED
      BY <3>1, <3>2
  <2> QED
    BY <1>6, <2>1, <2>2 DEF EndsOk
<1> QED
  BY <1>5, <1>6 DEF EndsOk

(* What changes neither a group's way through the loops nor what is posted *)
(* keeps the rest.                                                         *)
LEMMA RestKept ==
  ASSUME NEW g \in Groups, RestOf(g), UNCHANGED <<queue, status>>,
         toStart' \subseteq toStart,
         \/ ctrl'[g] = ctrl[g]
         \/ ctrl[g] \in {"idle", "begin", "init"} /\ g \notin toStart'
         \/ ctrl'[g] \notin {"idle", "begin", "init"} /\ g \notin toStart'
  PROVE  RestOf(g)'
<1>1. EndsOk(g)' <=> EndsOk(g)
  BY DEF EndsOk, pending
<1> QED
  BY <1>1 DEF RestOf

(* A step keeps every group on its way to being in order.                  *)
LEMMA RestStep ==
  ASSUME Timely
  PROVE  WorkInv /\ WorkInv' /\ RestInv /\ [Next]_vars => RestInv'
<1> SUFFICES ASSUME WorkInv, WorkInv', RestInv, [Next]_vars, fault' = {},
                    NEW g \in Groups
             PROVE  RestOf(g)'
  BY DEF RestInv
<1>1. fault = {}
  <2>1. fault \subseteq fault'
    <3>1. ASSUME NEW h \in Groups, GroupNext(h) PROVE fault \subseteq fault'
      BY <3>1, FaultGrows
    <3> QED
      BY <3>1 DEF Next, GroupNext, PixScan, HandleEvent, StopPixScan,
                  FinishScan, vars
  <2> QED
    BY <2>1
<1>2. TypeOK /\ \A h \in Groups : RestOf(h) /\ StepOf(h)
  BY <1>1 DEF WorkInv, StepInv, RestInv
<1>3. RestOf(g) /\ StepOf(g)
  BY <1>2
<1>4. CASE UNCHANGED <<queue, status, ctrl, toStart>>
  BY <1>3, <1>4, RestKept
<1>5. CASE \E src \in BOOLEAN : PixScan(src)
  BY <1>3, <1>5 DEF PixScan, postVars, ctrlVars, RestOf, EndsOk, pending,
                    StepOf, IdleOf
<1>6. CASE HandleEvent
  BY <1>2, <1>6, HandledFirst DEF HandleEvent, RestOf, mainVars, ctrlVars
<1>7. CASE StopPixScan \/ FinishScan \/ UNCHANGED vars
  BY <1>4, <1>7 DEF StopPixScan, FinishScan, vars, mainVars, postVars, ctrlVars
<1>8. ASSUME NEW h \in Groups, StartGroup(h) PROVE RestOf(g)'
  BY <1>2, <1>8, RestKept DEF StartGroup, RestOf, postVars, TypeOK
<1>9. ASSUME NEW h \in Groups, InitRods(h) PROVE RestOf(g)'
  <2>1. queue = <<>> /\ UNCHANGED <<queue, toStart, ctrl>>
    BY <1>9 DEF InitRods, mainVars, ctrlVars
  <2>2. status' = [status EXCEPT ![h] = "ok"]
    BY <1>9, <1>1 DEF InitRods, failed
  <2>3. EndsOk(g) => status[g] = "ok"
    BY <2>1 DEF EndsOk, pending
  <2>4. status'[g] = "ok" => EndsOk(g)'
    BY <2>1 DEF EndsOk, pending
  <2> QED
    BY <1>2, <2>1, <2>2, <2>3, <2>4 DEF RestOf, TypeOK
<1>10. ASSUME NEW h \in Groups, CtrlThread(h) PROVE RestOf(g)'
  <2>1. UNCHANGED <<status, toStart>>
    BY <1>10 DEF CtrlThread, Begin, InitScan, StartStep, Await, Poll, Check,
                 Settle, EndScan, mainVars, postVars
  <2>2. ctrl[h] # "idle" /\ h \notin toStart
    BY <1>2, <1>10 DEF CtrlThread, Begin, InitScan, StartStep, Await, Poll,
                       Check, Settle, EndScan, RestOf
  <2>3. h # g => ctrl'[g] = ctrl[g]
    BY <1>2, <1>10, OthersLeftAlone DEF GroupNext, SameAt
  <2>4. CASE UNCHANGED queue /\ ctrl'[h] \notin {"idle", "begin", "init"}
    BY <1>3, <2>1, <2>2, <2>3, <2>4, RestKept
  <2>5. CASE UNCHANGED queue /\ ctrl[h] \in {"idle", "begin", "init"}
    BY <1>3, <2>1, <2>2, <2>3, <2>5, RestKept
  <2>6. ASSUME NEW s \in Status, post(h, s),
               s = "ok" \/ ctrl'[h] \notin {"idle", "begin", "init"}
        PROVE  RestOf(g)'
    BY <1>2, <1>3, <2>1, <2>2, <2>3, <2>6, PostedLast DEF RestOf
  <2>7. CASE Begin(h) \/ StartStep(h) \/ Poll(h) \/ Settle(h)
    BY <1>2, <2>4, <2>5, <2>7 DEF Begin, StartStep, Poll, Settle, postVars, TypeOK
  <2>8. CASE InitScan(h)
    BY <1>2, <2>5, <2>6, <2>8 DEF InitScan, TypeOK, Status
  <2>9. CASE Await(h)
    BY <1>1, <1>2, <2>6, <2>9 DEF Await, TypeOK, Status, failed
  <2>10. CASE Check(h)
    <3>1. UNCHANGED queue /\ ctrl'[h] \in {"poll", "settle"}
      BY <1>2, <2>10 DEF Check, failed, TypeOK
    <3> QED
      BY <2>4, <3>1
  <2>11. CASE EndScan(h)
    <3>1. CASE putBack(h)
      BY <2>6, <2>11, <3>1 DEF EndScan, Status
    <3>2. CASE ~ putBack(h)
      <4>1. status[h] = "ok" /\ ~ abort[h] /\ UNCHANGED queue
        BY <2>11, <3>2 DEF EndScan, putBack
      <4>2. ~ mainWaits
        BY <1>2 DEF mainWaits, RestOf, TypeOK
      <4>3. ~ pending(h)
        BY <2>11, <4>1, <4>2 DEF EndScan
      <4>4. EndsOk(h)'
        BY <2>1, <4>1, <4>3 DEF EndsOk, pending
      <4>5. CASE g = h
        BY <2>1, <2>2, <4>4, <4>5 DEF RestOf
      <4> QED
        BY <1>3, <2>1, <2>3, <4>1, <4>5, RestKept
    <3> QED
      BY <3>1, <3>2
  <2> QED
    BY <1>10, <2>7, <2>8, <2>9, <2>10, <2>11 DEF CtrlThread
<1>11. ASSUME NEW h \in Groups, ScanThread(h) \/ LimitReached(h)
       PROVE  UNCHANGED <<queue, status, ctrl, toStart>>
  BY <1>11 DEF ScanThread, ScanExecute, PrepareScan, StartScan, FinishStart,
     LimitReached, caught, failed, mainVars, postVars, ctrlVars
<1>12. ASSUME NEW h \in Groups, CtrlThrows(h) \/ ScanThrows(h) PROVE FALSE
  BY <1>12 DEF CtrlThrows, ScanThrows, caught, failed
<1> QED
  BY <1>4, <1>5, <1>6, <1>7, <1>8, <1>9, <1>10, <1>11, <1>12 DEF Next

(* With sufficient waiting times every group is in order again when the    *)
(* end of a scan is reported and nothing has failed, whatever was stopped. *)
THEOREM StatusIsRestored == ASSUME Timely PROVE Spec => []StatusRestored
<1>1. queue = <<>> => \A g \in Groups : EndsOk(g) <=> status[g] = "ok"
  BY DEF EndsOk, pending
<1>2. Init => RestInv
  <2> SUFFICES ASSUME Init, NEW g \in Groups PROVE RestOf(g)
    BY DEF RestInv
  <2>1. queue = <<>> /\ status[g] = "ok" /\ ctrl[g] = "idle"
    BY DEF Init
  <2> QED
    BY <1>1, <2>1 DEF RestOf
<1>3. RestInv /\ WorkInv => StatusRestored
  <2> SUFFICES ASSUME RestInv, WorkInv, shown = "idle", queue = <<>>,
                      fault = {}, NEW g \in Groups
               PROVE  status[g] = "ok"
    BY DEF StatusRestored
  <2>1. RestOf(g) /\ ctrl[g] = "idle"
    BY DEF RestInv, WorkInv, StepInv, StepOf, IdleOf
  <2> QED
    BY <1>1, <2>1 DEF RestOf
<1> QED
  BY <1>2, <1>3, RestStep, WorkAlways, PTL DEF Spec
=============================================================================
