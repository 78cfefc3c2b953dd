--------------------------- MODULE EudaqRunProofs ---------------------------
(***************************************************************************)
(* Theorems about EudaqRun, for any number of configurations, runs and data *)
(* events: types, the framing of a run, what is under way at its end, and   *)
(* (in the calm world) that each run is opened.                             *)
(***************************************************************************)
EXTENDS EudaqRun, TLAPS

Has(s, x) == \E i \in 1..Len(s) : s[i] = x
AtMostOnce(s, S) ==
  \A i, j \in 1..Len(s) : s[i] \in S /\ s[j] \in S => i = j

Mark(kind)   == [kind |-> kind, run |-> run]
Opened       == Has(sent, Mark("BORE"))
Closed       == Has(sent, Mark("EORE"))
Untouched    == \A i \in 1..Len(sent) : sent[i].run # run
Started      == Has(queue, "start") \/ Has(stack, "pixScan")
Ending       == Has(stack, "finished") \/ Has(stack, "sleep")
DataUnderWay == Has(queue, "data") \/ Has(stack, "data")

Before == {"idle", "postInit", "clear", "waitInit"}
During == {"running", "postStop", "reset", "waitStop"}

-----------------------------------------------------------------------------
(* What the main thread keeps to, whatever the run-control thread does: the *)
(* run button stands for the one scan that is being started, is polled, or  *)
(* has just ended, and data is under way only in the last two cases.        *)
MainInv ==
  /\ AtMostOnce(stack, {"pixScan", "post-scan"})
  /\ scanTimer => ~Has(stack, "pixScan") /\ ~Has(stack, "post-scan")
  /\ scanTimer \/ Has(stack, "pixScan") \/ Has(stack, "post-scan") =>
       button = "TBMode"
  /\ scan = "running" => scanTimer
  /\ DataUnderWay => scanTimer \/ Has(stack, "post-scan")
  /\ stack # <<>> => ~Has(Tail(stack), "data") /\ ~Has(Tail(stack), "sleep")
  /\ Top # "data" /\ allReceived => ~held

(* What has been sent of the current run.                                   *)
SentInv ==
  /\ scanning <=> rc = "running"
  /\ \A i \in 1..Len(sent) : sent[i].run <= run
  /\ Closed => rc \in Before
  /\ Opened => rc # "prepare"
  /\ Opened /\ rc = "running" => ~Started

(* As long as OnStopRun() has not given up, there is one scan per run: its  *)
(* start is queued, or it is under way, or its end is being told.           *)
OneScan ==
  /\ AtMostOnce(queue, {"start"})
  /\ AtMostOnce(stack, {"finished", "sleep"})
  /\ Has(queue, "start") \/ button = "TBMode" \/ Ending => rc \in During
  /\ Has(queue, "start") => button = "StartScan" /\ ~Ending
  /\ button = "TBMode" => ~Ending
  /\ rc = "waitStop" /\ runFinished =>
       ~Has(queue, "start") /\ button = "StartScan" /\ ~Ending
  /\ rc \in {"rest", "eore"} => allReceived
  /\ Started \/ rc = "prepare" => Untouched

RunInv == ~gaveUp => OneScan

(* The calm world: one initialisation at a time, whose outcome the producer *)
(* knows, and a start that is always heard.                                 *)
OneInit ==
  /\ AtMostOnce(queue, {"init"}) /\ AtMostOnce(stack, {"init"})
  /\ Has(queue, "init") =>
       rc \in {"clear", "waitInit"} /\ ~Has(stack, "init") /\ ~initTimer
  /\ Has(stack, "init") => rc = "waitInit" /\ ~initTimer
  /\ initTimer => rc = "waitInit"
  /\ rc = "waitInit" /\ configuration # 0 =>
       /\ ~Has(queue, "init") /\ ~Has(stack, "init") /\ ~initTimer
       /\ configuration = 1 => configured = 1
  /\ rc \notin Before => status = "ok"
  /\ rc \notin Before \ {"idle"} /\ status = "ok" => configured = 1

StartHeard ==
  /\ Started => rc = "running"
  /\ rc = "running" => Opened \/ Started
  /\ rc \in {"postStop", "reset", "waitStop", "rest", "eore"} => Opened

CalmInv == calm => ~gaveUp /\ OneInit /\ StartHeard

IInv == TypeOK /\ MainInv /\ SentInv /\ RunInv /\ CalmInv

-----------------------------------------------------------------------------
(* Sequences.                                                               *)

(* Nothing is in the empty sequence.                                        *)
LEMMA Empty ==
  /\ \A x : ~Has(<<>>, x)
  /\ \A T : AtMostOnce(<<>>, T)
BY DEF Has, AtMostOnce

(* What a sequence holds with one more element at its end.                  *)
LEMMA Appended ==
  ASSUME NEW S, NEW s \in Seq(S), NEW e \in S
  PROVE  /\ Append(s, e) \in Seq(S) /\ Append(s, e) # <<>>
         /\ \A x : Has(Append(s, e), x) <=> Has(s, x) \/ x = e
         /\ \A T : AtMostOnce(s, T) /\ (e \in T => \A x \in T : ~Has(s, x))
                     => AtMostOnce(Append(s, e), T)
<1>1. /\ Append(s, e) \in Seq(S) /\ Append(s, e) # <<>>
      /\ Len(Append(s, e)) = Len(s) + 1 /\ Len(s) \in Nat
      /\ Append(s, e)[Len(s) + 1] = e
      /\ \A i \in 1..Len(s) : Append(s, e)[i] = s[i]
  OBVIOUS
<1>2. \A x : Has(Append(s, e), x) <=> Has(s, x) \/ x = e
  <2>1. ASSUME NEW x, Has(Append(s, e), x) PROVE Has(s, x) \/ x = e
    <3>1. PICK i \in 1..Len(Append(s, e)) : Append(s, e)[i] = x
      BY <2>1 DEF Has
    <3>2. i \in 1..Len(s) \/ i = Len(s) + 1
      BY <1>1
    <3> QED BY <1>1, <3>1, <3>2 DEF Has
  <2>2. ASSUME NEW x, Has(s, x) PROVE Has(Append(s, e), x)
    <3>1. PICK i \in 1..Len(s) : s[i] = x
      BY <2>2 DEF Has
    <3>2. i \in 1..Len(Append(s, e))
      BY <1>1
    <3> QED BY <1>1, <3>1, <3>2 DEF Has
  <2>3. Has(Append(s, e), e)
    <3>1. Len(s) + 1 \in 1..Len(Append(s, e))
      BY <1>1
    <3> QED BY <1>1, <3>1 DEF Has
  <2> QED BY <2>1, <2>2, <2>3
<1>3. ASSUME NEW T, AtMostOnce(s, T), e \in T => \A x \in T : ~Has(s, x)
      PROVE  AtMostOnce(Append(s, e), T)
  <2>1. ASSUME e \in T, NEW i \in 1..Len(s) PROVE s[i] \notin T
    BY <1>3, <2>1 DEF Has
  <2> QED BY <1>1, <1>3, <2>1 DEF AtMostOnce
<1> QED BY <1>1, <1>2, <1>3

(* What a sequence holds, by its first element and the rest.                *)
LEMMA Split ==
  ASSUME NEW S, NEW s \in Seq(S), s # <<>>
  PROVE  /\ Tail(s) \in Seq(S) /\ Head(s) \in S
         /\ \A x : Has(s, x) <=> x = Head(s) \/ Has(Tail(s), x)
         /\ \A T : AtMostOnce(s, T) <=>
                     /\ AtMostOnce(Tail(s), T)
                     /\ Head(s) \in T => \A x \in T : ~Has(Tail(s), x)
<1>1. /\ Tail(s) \in Seq(S) /\ Head(s) \in S /\ Head(s) = s[1]
      /\ Len(Tail(s)) = Len(s) - 1 /\ Len(s) \in Nat /\ Len(s) > 0
      /\ \A i \in 1..Len(Tail(s)) : Tail(s)[i] = s[i + 1]
  OBVIOUS
<1>2. \A x : Has(s, x) <=> x = Head(s) \/ Has(Tail(s), x)
  <2>1. ASSUME NEW x, Has(s, x) PROVE x = Head(s) \/ Has(Tail(s), x)
    <3>1. PICK i \in 1..Len(s) : s[i] = x
      BY <2>1 DEF Has
    <3>2. CASE i = 1
      BY <1>1, <3>1, <3>2
    <3>3. CASE i # 1
      <4>1. i - 1 \in 1..Len(Tail(s)) /\ Tail(s)[i - 1] = s[i]
        BY <1>1, <3>3
      <4> QED BY <3>1, <4>1 DEF Has
    <3> QED BY <3>2, <3>3
  <2>2. ASSUME NEW x, Has(Tail(s), x) PROVE Has(s, x)
    <3>1. PICK i \in 1..Len(Tail(s)) : Tail(s)[i] = x
      BY <2>2 DEF Has
    <3>2. i + 1 \in 1..Len(s) /\ s[i + 1] = x
      BY <1>1, <3>1
    <3> QED BY <3>2 DEF Has
  <2>3. Has(s, Head(s))
    <3>1. 1 \in 1..Len(s) /\ s[1] = Head(s)
      BY <1>1
    <3> QED BY <3>1 DEF Has
  <2> QED BY <2>1, <2>2, <2>3
<1>3. ASSUME NEW T, AtMostOnce(s, T)
      PROVE  /\ AtMostOnce(Tail(s), T)
             /\ Head(s) \in T => \A x \in T : ~Has(Tail(s), x)
  <2>1. ASSUME NEW i \in 1..Len(Tail(s)), NEW j \in 1..Len(Tail(s)),
               Tail(s)[i] \in T, Tail(s)[j] \in T
        PROVE  i = j
    <3>1. i + 1 \in 1..Len(s) /\ j + 1 \in 1..Len(s)
          /\ s[i + 1] \in T /\ s[j + 1] \in T
      BY <1>1, <2>1
    <3>2. i + 1 = j + 1
      BY <1>3, <3>1 DEF AtMostOnce
    <3> QED BY <3>2
  <2>2. ASSUME Head(s) \in T, NEW x \in T, Has(Tail(s), x) PROVE FALSE
    <3>1. PICK i \in 1..Len(Tail(s)) : Tail(s)[i] = x
      BY <2>2 DEF Has
    <3>2. i + 1 \in 1..Len(s) /\ 1 \in 1..Len(s) /\ s[i + 1] \in T /\ s[1] \in T
      BY <1>1, <2>2, <3>1
    <3>3. i + 1 = 1
      BY <1>3, <3>2 DEF AtMostOnce
    <3> QED BY <3>3
  <2> QED BY <2>1, <2>2 DEF AtMostOnce
<1>4. ASSUME NEW T, AtMostOnce(Tail(s), T),
             Head(s) \in T => \A x \in T : ~Has(Tail(s), x)
      PROVE  AtMostOnce(s, T)
  <2> SUFFICES ASSUME NEW i \in 1..Len(s), NEW j \in 1..Len(s),
                      s[i] \in T, s[j] \in T, i < j
               PROVE  FALSE
    BY <1>1 DEF AtMostOnce
  <2>1. j - 1 \in 1..Len(Tail(s)) /\ Tail(s)[j - 1] = s[j]
    BY <1>1
  <2>2. CASE i = 1
    BY <1>1, <1>4, <2>1, <2>2 DEF Has
  <2>3. CASE i # 1
    <3>1. i - 1 \in 1..Len(Tail(s)) /\ Tail(s)[i - 1] = s[i]
      BY <1>1, <2>3
    <3>2. i - 1 = j - 1
      BY <1>4, <2>1, <3>1 DEF AtMostOnce
    <3> QED BY <3>2
  <2> QED BY <2>2, <2>3
<1> QED BY <1>1, <1>2, <1>3, <1>4

(* The same for a sequence with one more element in front.                  *)
LEMMA Entered ==
  ASSUME NEW S, NEW s \in Seq(S), NEW f \in S
  PROVE  /\ <<f>> \o s \in Seq(S) /\ <<f>> \o s # <<>>
         /\ Head(<<f>> \o s) = f /\ Tail(<<f>> \o s) = s
         /\ \A x : Has(<<f>> \o s, x) <=> x = f \/ Has(s, x)
         /\ \A T : AtMostOnce(<<f>> \o s, T) <=>
                     AtMostOnce(s, T) /\ (f \in T => \A x \in T : ~Has(s, x))
<1>1. /\ <<f>> \o s \in Seq(S) /\ <<f>> \o s # <<>> /\ Head(<<f>> \o s) = f
      /\ Len(<<f>> \o s) = Len(s) + 1 /\ Len(s) \in Nat
      /\ \A i \in 1..Len(s) : (<<f>> \o s)[i + 1] = s[i]
  OBVIOUS
<1>2. Tail(<<f>> \o s) = s
  <2>1. Tail(<<f>> \o s) \in Seq(S) /\ Len(Tail(<<f>> \o s)) = Len(s)
        /\ \A i \in 1..Len(s) : Tail(<<f>> \o s)[i] = s[i]
    BY <1>1
  <2> QED BY <2>1
<1> DEFINE t == <<f>> \o s
<1> HIDE DEF t
<1>3. t \in Seq(S) /\ t # <<>> /\ Head(t) = f /\ Tail(t) = s
  BY <1>1, <1>2 DEF t
<1>4. /\ \A x : Has(t, x) <=> x = f \/ Has(s, x)
      /\ \A T : AtMostOnce(t, T) <=>
                  AtMostOnce(s, T) /\ (f \in T => \A x \in T : ~Has(s, x))
  BY <1>3, Split
<1> QED BY <1>1, <1>2, <1>4 DEF t

-----------------------------------------------------------------------------
(* Types.                                                                   *)

Messages == [kind : {"BORE", "data", "EORE"}, run : 0..MaxRun]

Plain ==
  /\ rc \in {"idle", "postInit", "clear", "waitInit", "prepare", "running",
             "postStop", "reset", "waitStop", "rest", "eore"}
  /\ configs \in 0..MaxConfig /\ run \in 0..MaxRun /\ posted \in 0..MaxPost
  /\ status \in {"unconfigured", "ok", "error"}
  /\ configuration \in 0..2 /\ configured \in 0..2
  /\ button \in {"StartScan", "TBMode"}
  /\ scan \in {"idle", "running"}

Flags ==
  /\ calm \in BOOLEAN /\ gaveUp \in BOOLEAN
  /\ scanning \in BOOLEAN /\ runFinished \in BOOLEAN
  /\ allReceived \in BOOLEAN /\ pendingRunning \in BOOLEAN /\ held \in BOOLEAN
  /\ initTimer \in BOOLEAN /\ scanTimer \in BOOLEAN /\ abort \in BOOLEAN

(* The type invariant, its sequences and its Booleans apart from the rest.  *)
LEMMA TypeParts ==
  TypeOK <=> /\ Plain /\ Flags
             /\ queue \in Seq(Events)
             /\ stack \in Seq(Frames)
             /\ sent \in Seq(Messages)
BY Zenon DEF TypeOK, Plain, Flags, Messages

(* What the queue can become.                                               *)
LEMMA QueueMoves ==
  ASSUME queue \in Seq(Events)
  PROVE  /\ \A e \in Events : Append(queue, e) \in Seq(Events)
         /\ queue # <<>> => Tail(queue) \in Seq(Events)
OBVIOUS

(* What the stack of handlers can become.                                   *)
LEMMA StackMoves ==
  ASSUME stack \in Seq(Frames)
  PROVE  /\ \A f \in Frames : <<f>> \o stack \in Seq(Frames)
         /\ stack # <<>> =>
              /\ Tail(stack) \in Seq(Frames)
              /\ \A f \in Frames : <<f>> \o Tail(stack) \in Seq(Frames)
OBVIOUS

(* What a message adds to what was sent.                                    *)
LEMMA SentMoves ==
  ASSUME sent \in Seq(Messages), run \in 0..MaxRun,
         NEW kind \in {"BORE", "data", "EORE"}, Send(<<kind>>)
  PROVE  /\ sent' = Append(sent, Mark(kind))
         /\ Mark(kind) \in Messages
         /\ sent' \in Seq(Messages)
<1>1. Mark(kind) \in Messages
  BY DEF Mark, Messages
<1>2. sent' = Append(sent, Mark(kind))
  BY DEF Send, Mark
<1> QED BY <1>1, <1>2

(* The types hold at the start.                                             *)
LEMMA TypeInit == Init => TypeOK
<1>1. Init => Plain
  BY RunBoundAssumption DEF Init, Plain
<1>2. Init => Flags
  BY Zenon DEF Init, Flags
<1>3. Init => /\ queue \in Seq(Events) /\ stack \in Seq(Frames)
              /\ sent \in Seq(Messages)
  BY DEF Init
<1> QED BY <1>1, <1>2, <1>3, TypeParts, Zenon

(* Each action keeps the types of numbers and names, ...                    *)
LEMMA PlainStep ==
  ASSUME Plain, [Next]_vars
  PROVE  Plain'
<1> USE RunBoundAssumption
    DEF Plain, rcVars, handshakes, dataVars, engineVars, threadVars
<1>1. CASE UNCHANGED vars
  BY <1>1 DEF vars
<1>2. CASE RunControl
  <2> USE DEF Step
  <2>1. CASE OnConfigureOnly
    BY <2>1 DEF OnConfigureOnly
  <2>2. CASE OnConfigure
    BY <2>2 DEF OnConfigure
  <2>3. CASE PostInit
    BY <2>3 DEF PostInit
  <2>4. CASE ClearAnswer
    BY <2>4 DEF ClearAnswer
  <2>5. CASE Configured
    BY <2>5 DEF Configured, Answer
  <2>6. CASE OnStartRun
    BY <2>6 DEF OnStartRun
  <2>7. CASE PostStart
    BY <2>7 DEF PostStart, BeginRun
  <2>8. CASE OnStopRun
    BY <2>8 DEF OnStopRun
  <2>9. CASE PostStop
    BY <2>9 DEF PostStop
  <2>10. CASE ResetFinished
    BY <2>10 DEF ResetFinished
  <2>11. CASE StopWait
    BY <2>11 DEF StopWait
  <2>12. CASE SendRest
    BY <2>12 DEF SendRest
  <2>13. CASE SendEore
    BY <2>13 DEF SendEore
  <2> QED BY <1>2, <2>1, <2>2, <2>3, <2>4, <2>5, <2>6, <2>7, <2>8, <2>9, <2>10,
             <2>11, <2>12, <2>13 DEF RunControl
<1>3. CASE Main
  <2>1. CASE InitControler
    BY <2>1 DEF InitControler
  <2>2. CASE InitRods
    BY <2>2 DEF InitRods, InitFailed
  <2>3. CASE InitControler2
    BY <2>3 DEF InitControler2
  <2>4. CASE StartScan
    BY <2>4 DEF StartScan
  <2>5. CASE PixScan
    BY <2>5 DEF PixScan, BeganScanning, Monitor
  <2>6. CASE StopPixScan
    BY <2>6 DEF StopPixScan
  <2>7. CASE DataPending
    BY <2>7 DEF DataPending
  <2>8. CASE SendEvents
    BY <2>8 DEF SendEvents, SendComplete
  <2>9. CASE FinishScan
    BY <2>9 DEF FinishScan
  <2>10. CASE ShowFinished
    BY <2>10 DEF ShowFinished
  <2>11. CASE FinishedScanning
    BY <2>11 DEF FinishedScanning
  <2>12. CASE ScanFinished
    BY <2>12 DEF ScanFinished
  <2> QED BY <1>3, <2>1, <2>2, <2>3, <2>4, <2>5, <2>6, <2>7, <2>8, <2>9, <2>10,
             <2>11, <2>12 DEF Main
<1>4. CASE CtrlThread
  <2>1. CASE PostData
    BY <2>1 DEF PostData
  <2>2. CASE LastReadout
    BY <2>2 DEF LastReadout
  <2>3. CASE Die
    BY <2>3 DEF Die
  <2> QED BY <1>4, <2>1, <2>2, <2>3 DEF CtrlThread
<1> QED BY <1>1, <1>2, <1>3, <1>4 DEF Next

(* ... of the flags, ...                                                    *)
LEMMA FlagsStep ==
  ASSUME Flags, [Next]_vars
  PROVE  Flags'
<1> USE RunBoundAssumption
    DEF Flags, rcVars, handshakes, dataVars, engineVars, threadVars
<1>1. CASE UNCHANGED vars
  BY <1>1, Zenon DEF vars
<1>2. CASE RunControl
  <2> USE DEF Step
  <2>1. CASE OnConfigureOnly
    BY <2>1, Zenon DEF OnConfigureOnly
  <2>2. CASE OnConfigure
    BY <2>2, Zenon DEF OnConfigure
  <2>3. CASE PostInit
    BY <2>3, Zenon DEF PostInit
  <2>4. CASE ClearAnswer
    BY <2>4, Zenon DEF ClearAnswer
  <2>5. CASE Configured
    BY <2>5, Zenon DEF Configured, Answer
  <2>6. CASE OnStartRun
    BY <2>6, Zenon DEF OnStartRun
  <2>7. CASE PostStart
    BY <2>7, Zenon DEF PostStart, BeginRun
  <2>8. CASE OnStopRun
    BY <2>8, Zenon DEF OnStopRun
  <2>9. CASE PostStop
    BY <2>9, Zenon DEF PostStop
  <2>10. CASE ResetFinished
    BY <2>10, Zenon DEF ResetFinished
  <2>11. CASE StopWait
    BY <2>11, Zenon DEF StopWait
  <2>12. CASE SendRest
    BY <2>12, Zenon DEF SendRest
  <2>13. CASE SendEore
    BY <2>13, Zenon DEF SendEore
  <2> QED BY <1>2, <2>1, <2>2, <2>3, <2>4, <2>5, <2>6, <2>7, <2>8, <2>9, <2>10,
             <2>11, <2>12, <2>13 DEF RunControl
<1>3. CASE Main
  <2>1. CASE InitControler
    BY <2>1, Zenon DEF InitControler
  <2>2. CASE InitRods
    BY <2>2, Zenon DEF InitRods, InitFailed
  <2>3. CASE InitControler2
    BY <2>3, Zenon DEF InitControler2
  <2>4. CASE StartScan
    BY <2>4, Zenon DEF StartScan
  <2>5. CASE PixScan
    BY <2>5, Zenon DEF PixScan, BeganScanning, Monitor
  <2>6. CASE StopPixScan
    BY <2>6, Zenon DEF StopPixScan
  <2>7. CASE DataPending
    BY <2>7, Zenon DEF DataPending
  <2>8. CASE SendEvents
    BY <2>8, Zenon DEF SendEvents, SendComplete
  <2>9. CASE FinishScan
    BY <2>9, Zenon DEF FinishScan
  <2>10. CASE ShowFinished
    BY <2>10, Zenon DEF ShowFinished
  <2>11. CASE FinishedScanning
    BY <2>11, Zenon DEF FinishedScanning
  <2>12. CASE ScanFinished
    BY <2>12, Zenon DEF ScanFinished
  <2> QED BY <1>3, <2>1, <2>2, <2>3, <2>4, <2>5, <2>6, <2>7, <2>8, <2>9, <2>10,
             <2>11, <2>12 DEF Main
<1>4. CASE CtrlThread
  <2>1. CASE PostData
    BY <2>1, Zenon DEF PostData
  <2>2. CASE LastReadout
    BY <2>2, Zenon DEF LastReadout
  <2>3. CASE Die
    BY <2>3, Zenon DEF Die
  <2> QED BY <1>4, <2>1, <2>2, <2>3 DEF CtrlThread
<1> QED BY <1>1, <1>2, <1>3, <1>4 DEF Next

(* ... of the queue, ...                                                    *)
LEMMA QueueStep ==
  ASSUME queue \in Seq(Events), [Next]_vars
  PROVE  queue' \in Seq(Events)
<1> USE QueueMoves DEF Post, Events, NextIs
<1>1. CASE RunControl
  BY <1>1 DEF RunControl, OnConfigureOnly, OnConfigure, PostInit, ClearAnswer,
     Configured, Answer, OnStartRun, PostStart, BeginRun, OnStopRun, PostStop,
     ResetFinished, StopWait, SendRest, SendEore
<1>2. CASE Main
  BY <1>2 DEF Main, InitControler, InitRods, InitFailed, InitControler2,
     StartScan, PixScan, BeganScanning, Monitor, StopPixScan, DataPending,
     SendEvents, SendComplete, FinishScan, ShowFinished, FinishedScanning,
     ScanFinished
<1>3. CASE CtrlThread
  BY <1>3 DEF CtrlThread, PostData, LastReadout, Die
<1>4. CASE UNCHANGED vars
  BY <1>4 DEF vars
<1> QED BY <1>1, <1>2, <1>3, <1>4 DEF Next


(* ... of the stack of handlers, ...                                        *)
LEMMA StackStep ==
  ASSUME stack \in Seq(Frames), [Next]_vars
  PROVE  stack' \in Seq(Frames)
<1> USE StackMoves DEF Push, Pop, Top, Flushed, Frames
<1>1. CASE RunControl
  BY <1>1 DEF RunControl, OnConfigureOnly, OnConfigure, PostInit, ClearAnswer,
     Configured, Answer, OnStartRun, PostStart, BeginRun, OnStopRun, PostStop,
     ResetFinished, StopWait, SendRest, SendEore
<1>2. CASE Main
  BY <1>2 DEF Main, InitControler, InitRods, InitFailed, InitControler2,
     StartScan, PixScan, BeganScanning, Monitor, StopPixScan, DataPending,
     SendEvents, SendComplete, FinishScan, ShowFinished, FinishedScanning,
     ScanFinished
<1>3. CASE CtrlThread
  BY <1>3 DEF CtrlThread, PostData, LastReadout, Die
<1>4. CASE UNCHANGED vars
  BY <1>4 DEF vars
<1> QED BY <1>1, <1>2, <1>3, <1>4 DEF Next


(* ... and of what has been sent.                                           *)
LEMMA SentStep ==
  ASSUME sent \in Seq(Messages), run \in 0..MaxRun, [Next]_vars
  PROVE  sent' \in Seq(Messages)
<1> USE SentMoves DEF dataVars
<1>1. CASE RunControl
  BY <1>1 DEF RunControl, OnConfigureOnly, OnConfigure, PostInit, ClearAnswer,
     Configured, Answer, OnStartRun, PostStart, BeginRun, OnStopRun, PostStop,
     ResetFinished, StopWait, SendRest, SendEore
<1>2. CASE Main
  BY <1>2 DEF Main, InitControler, InitRods, InitFailed, InitControler2,
     StartScan, PixScan, BeganScanning, Monitor, StopPixScan, DataPending,
     SendEvents, SendComplete, FinishScan, ShowFinished, FinishedScanning,
     ScanFinished
<1>3. CASE CtrlThread
  BY <1>3 DEF CtrlThread, PostData, LastReadout, Die
<1>4. CASE UNCHANGED vars
  BY <1>4 DEF vars
<1> QED BY <1>1, <1>2, <1>3, <1>4 DEF Next

(* Each action keeps the type invariant.                                    *)
LEMMA TypeStep == TypeOK /\ [Next]_vars => TypeOK'
<1> SUFFICES ASSUME TypeOK, [Next]_vars PROVE TypeOK'
  OBVIOUS
<1>1. /\ Plain /\ Flags /\ queue \in Seq(Events) /\ stack \in Seq(Frames)
      /\ sent \in Seq(Messages) /\ run \in 0..MaxRun
  BY TypeParts, Zenon DEF Plain
<1>2. /\ Plain' /\ Flags' /\ queue' \in Seq(Events) /\ stack' \in Seq(Frames)
      /\ sent' \in Seq(Messages)
  BY <1>1, PlainStep, FlagsStep, QueueStep, StackStep, SentStep
<1> QED BY <1>2, Zenon DEF TypeOK, Plain, Flags, Messages

(* Every variable keeps its type.                                           *)
THEOREM TypeCorrect == Spec => []TypeOK
BY TypeInit, TypeStep, PTL DEF Spec

-----------------------------------------------------------------------------
(* How the queue and the stack of handlers move.                            *)

(* An event is posted.                                                      *)
LEMMA Posted ==
  ASSUME queue \in Seq(Events), NEW e \in Events, Post(e)
  PROVE  /\ \A x : Has(queue', x) <=> Has(queue, x) \/ x = e
         /\ \A T : AtMostOnce(queue, T)
                     /\ (e \in T => \A x \in T : ~Has(queue, x)) =>
                       AtMostOnce(queue', T)
BY Appended DEF Post

(* The next event is taken from the queue.                                  *)
LEMMA Taken ==
  ASSUME queue \in Seq(Events), NEW e, NextIs(e), queue' = Tail(queue)
  PROVE  /\ \A x : Has(queue, x) <=> x = e \/ Has(queue', x)
         /\ \A T : AtMostOnce(queue, T) =>
                       AtMostOnce(queue', T)
         /\ \A T : AtMostOnce(queue, T) /\ e \in T =>
                     \A x \in T : ~Has(queue', x)
         /\ Top \notin {"data", "sleep"}
BY Split DEF NextIs, TakesEvents

(* A handler is entered.                                                    *)
LEMMA Pushed ==
  ASSUME stack \in Seq(Frames), NEW f \in Frames, Push(f)
  PROVE  /\ stack' # <<>> /\ Top' = f /\ Tail(stack') = stack
         /\ \A x : Has(stack', x) <=> x = f \/ Has(stack, x)
         /\ \A T : AtMostOnce(stack, T)
                     /\ (f \in T => \A x \in T : ~Has(stack, x)) =>
                         AtMostOnce(stack', T)
BY Entered DEF Push, Top

(* The innermost handler returns.                                           *)
LEMMA Popped ==
  ASSUME stack \in Seq(Frames), NEW f \in Frames, Top = f, Pop
  PROVE  /\ stack # <<>> /\ stack' = Tail(stack)
         /\ stack' # <<>> => \A x : Has(Tail(stack'), x) => Has(stack', x)
         /\ \A x : Has(stack, x) <=> x = f \/ Has(stack', x)
         /\ \A T : AtMostOnce(stack, T) => AtMostOnce(stack', T)
         /\ \A T : AtMostOnce(stack, T) /\ f \in T =>
                     \A x \in T : ~Has(stack', x)
<1>1. stack # <<>> /\ Head(stack) = f
  BY DEF Top, Frames
<1>2. stack' = Tail(stack) /\ stack' \in Seq(Frames)
  BY <1>1, Split DEF Pop
<1>3. stack' # <<>> => \A x : Has(Tail(stack'), x) => Has(stack', x)
  BY <1>2, Split
<1> QED BY <1>1, <1>2, <1>3, Split

(* It goes on as another one.                                               *)
LEMMA Replaced ==
  ASSUME stack \in Seq(Frames), NEW f \in Frames, Top = f,
         NEW g \in Frames, stack' = <<g>> \o Tail(stack)
  PROVE  /\ stack # <<>> /\ stack' # <<>>
         /\ Top' = g /\ Tail(stack') = Tail(stack)
         /\ \A x : Has(stack, x) <=> x = f \/ Has(Tail(stack), x)
         /\ \A x : Has(stack', x) <=> x = g \/ Has(Tail(stack), x)
         /\ \A T : AtMostOnce(stack, T) /\ (g \in T => f \in T)
                     => AtMostOnce(stack', T)
         /\ \A T : AtMostOnce(stack, T) /\ (\A x \in T : ~Has(stack, x))
                     => AtMostOnce(stack', T)
         /\ \A T : AtMostOnce(stack, T) /\ f \in T =>
                     \A x \in T : ~Has(Tail(stack), x)
<1>1. stack # <<>> /\ Head(stack) = f
  BY DEF Top, Frames
<1>2. Tail(stack) \in Seq(Frames)
  BY <1>1, Split
<1> DEFINE t == Tail(stack)
<1> HIDE DEF t
<1>3. /\ stack' # <<>> /\ Head(stack') = g /\ Tail(stack') = t
      /\ \A x : Has(stack', x) <=> x = g \/ Has(t, x)
      /\ \A T : AtMostOnce(stack', T) <=>
                  AtMostOnce(t, T) /\ (g \in T => \A x \in T : ~Has(t, x))
  <2>1. t \in Seq(Frames) /\ stack' = <<g>> \o t
    BY <1>2 DEF t
  <2>2. /\ <<g>> \o t # <<>> /\ Head(<<g>> \o t) = g /\ Tail(<<g>> \o t) = t
        /\ \A x : Has(<<g>> \o t, x) <=> x = g \/ Has(t, x)
        /\ \A T : AtMostOnce(<<g>> \o t, T) <=>
                    AtMostOnce(t, T) /\ (g \in T => \A x \in T : ~Has(t, x))
    BY <2>1, Entered, Zenon
  <2> QED BY <2>1, <2>2, Zenon
<1>4. Top' = g
  BY <1>3 DEF Top
<1>5. /\ \A x : Has(stack, x) <=> x = f \/ Has(Tail(stack), x)
      /\ \A T : AtMostOnce(stack, T) =>
                  /\ AtMostOnce(Tail(stack), T)
                  /\ f \in T => \A x \in T : ~Has(Tail(stack), x)
  BY <1>1, Split
<1>6. ASSUME NEW T, AtMostOnce(stack, T), g \in T => f \in T
      PROVE  AtMostOnce(stack', T)
  BY <1>3, <1>5, <1>6 DEF t
<1>7. ASSUME NEW T, AtMostOnce(stack, T), \A x \in T : ~Has(stack, x)
      PROVE  AtMostOnce(stack', T)
  BY <1>3, <1>5, <1>7 DEF t
<1> QED BY <1>1, <1>3, <1>4, <1>5, <1>6, <1>7 DEF t

-----------------------------------------------------------------------------
(* What a thread leaves to the others.                                      *)

(* The run-control thread works through the queue and what it sends.        *)
LEMMA RunControlKeeps ==
  ASSUME RunControl
  PROVE  /\ UNCHANGED <<calm, stack, engineVars, threadVars, allReceived>>
         /\ held' => held
         /\ \/ queue' = queue
            \/ Post("init") \/ Post("start") \/ Post("stop")
         /\ \/ sent' = sent
            \/ Send(<<"data">>) /\ rc = "rest" /\ ~allReceived
            \/ Send(<<"EORE">>) /\ rc = "eore"
         /\ gaveUp' = gaveUp \/ (~calm /\ gaveUp')
<1> USE Zenon DEF dataVars, Step
<1>1. CASE OnConfigureOnly BY <1>1 DEF OnConfigureOnly
<1>2. CASE OnConfigure BY <1>2 DEF OnConfigure
<1>3. CASE PostInit BY <1>3 DEF PostInit
<1>4. CASE ClearAnswer BY <1>4 DEF ClearAnswer
<1>5. CASE Configured BY <1>5 DEF Configured
<1>6. CASE OnStartRun BY <1>6 DEF OnStartRun
<1>7. CASE PostStart BY <1>7 DEF PostStart, BeginRun
<1>8. CASE OnStopRun BY <1>8 DEF OnStopRun
<1>9. CASE PostStop BY <1>9 DEF PostStop
<1>10. CASE ResetFinished BY <1>10 DEF ResetFinished
<1>11. CASE StopWait BY <1>11 DEF StopWait
<1>12. CASE SendRest BY <1>12 DEF SendRest
<1>13. CASE SendEore BY <1>13 DEF SendEore
<1> QED BY <1>1, <1>2, <1>3, <1>4, <1>5, <1>6, <1>7, <1>8, <1>9, <1>10, <1>11,
           <1>12, <1>13 DEF RunControl

(* The main thread does not move the run-control thread.                    *)
LEMMA RcMoves == Main \/ CtrlThread => UNCHANGED rcVars
BY DEF Main, InitControler, InitRods, InitControler2, StartScan, PixScan,
       StopPixScan, DataPending, SendEvents, FinishScan, ShowFinished,
       FinishedScanning, ScanFinished, CtrlThread, PostData, LastReadout, Die

(* A behaviour stays in its world, and giving up is not forgotten.          *)
LEMMA WorldKept ==
  ASSUME [Next]_vars
  PROVE  calm' = calm /\ (gaveUp => gaveUp')
<1>1. CASE RunControl
  <2>1. calm' = calm /\ (gaveUp' = gaveUp \/ gaveUp')
    BY <1>1, RunControlKeeps, Zenon
  <2> QED BY <2>1
<1>2. CASE Main \/ CtrlThread \/ UNCHANGED vars
  BY <1>2, RcMoves DEF rcVars, vars
<1> QED BY <1>1, <1>2 DEF Next

-----------------------------------------------------------------------------
(* The main thread.                                                         *)

(* Nothing is under way at the start.                                       *)
LEMMA MainInit == Init => MainInv
BY Empty DEF Init, MainInv, DataUnderWay, Top

(* Only the innermost handler can be that of data, or asleep.               *)
LEMMA Calm ==
  ASSUME stack \in Seq(Frames), MainInv, Top \notin {"data", "sleep"}
  PROVE  ~Has(stack, "data") /\ ~Has(stack, "sleep")
<1>1. CASE stack = <<>>
  BY <1>1, Empty
<1>2. CASE stack # <<>>
  <2>1. /\ ~Has(Tail(stack), "data") /\ ~Has(Tail(stack), "sleep")
        /\ Head(stack) # "data" /\ Head(stack) # "sleep"
    BY <1>2 DEF MainInv, Top
  <2> QED BY <1>2, <2>1, Split
<1> QED BY <1>1, <1>2

(* Each action keeps what the main thread keeps to.                         *)
LEMMA MainStep ==
  ASSUME TypeOK, MainInv, [Next]_vars
  PROVE  MainInv'
<1>0. /\ queue \in Seq(Events) /\ stack \in Seq(Frames)
      /\ button \in {"StartScan", "TBMode"} /\ scan \in {"idle", "running"}
  BY TypeParts, Zenon DEF Plain
<1>1. ASSUME UNCHANGED <<stack, scanTimer, button, scan, allReceived>>,
             held' => held, Has(queue', "data") => Has(queue, "data")
      PROVE  MainInv'
  BY <1>1, Zenon DEF MainInv, DataUnderWay, Top
<1> USE DEF dataVars, engineVars, threadVars
<1>2. CASE UNCHANGED vars
  BY <1>1, <1>2, Zenon DEF vars
<1>3. CASE RunControl
  <2>1. /\ UNCHANGED <<stack, scanTimer, button, scan, allReceived>>
        /\ held' => held
        /\ queue' = queue \/ Post("init") \/ Post("start") \/ Post("stop")
    BY <1>3, RunControlKeeps, Zenon
  <2>2. Has(queue', "data") => Has(queue, "data")
    BY <1>0, <2>1, Posted DEF Events
  <2> QED BY <1>1, <2>1, <2>2, Zenon
<1>4. CASE InitControler
  <2>1. /\ NextIs("init") /\ queue' = Tail(queue) /\ Push("init")
        /\ UNCHANGED <<scanTimer, button, scan, allReceived, held>>
    BY <1>4, Zenon DEF InitControler
  <2>2. /\ Has(queue', "data") => Has(queue, "data")
        /\ Top \notin {"data", "sleep"}
    BY <1>0, <2>1, Taken
  <2>3. ~Has(stack, "data") /\ ~Has(stack, "sleep") /\ Top # "data"
    BY <1>0, <2>2, Calm
  <2>4. /\ stack' # <<>> /\ Top' # "data" /\ Tail(stack') = stack
        /\ Has(stack', "pixScan") <=> Has(stack, "pixScan")
        /\ Has(stack', "post-scan") <=> Has(stack, "post-scan")
        /\ Has(stack', "data") <=> Has(stack, "data")
        /\ AtMostOnce(stack, {"pixScan", "post-scan"}) =>
             AtMostOnce(stack', {"pixScan", "post-scan"})
    BY <1>0, <2>1, Pushed DEF Frames
  <2> QED BY <2>1, <2>2, <2>3, <2>4, Zenon DEF MainInv, DataUnderWay
<1>5. CASE InitRods
  <2>1. /\ Top = "init" /\ Pop
        /\ UNCHANGED <<queue, scanTimer, button, scan, allReceived, held>>
    BY <1>5, Zenon DEF InitRods, Flushed
  <2>2. /\ Top # "data" /\ ~Has(stack, "data")
        /\ stack' # <<>> => /\ ~Has(Tail(stack'), "data")
                            /\ ~Has(Tail(stack'), "sleep")
        /\ ~Has(stack', "data")
        /\ Has(stack', "pixScan") <=> Has(stack, "pixScan")
        /\ Has(stack', "post-scan") <=> Has(stack, "post-scan")
        /\ AtMostOnce(stack, {"pixScan", "post-scan"}) =>
             AtMostOnce(stack', {"pixScan", "post-scan"})
    BY <1>0, <2>1, Calm, Popped DEF Frames
  <2> QED BY <2>1, <2>2, Zenon DEF MainInv, DataUnderWay
<1>6. CASE InitControler2
  BY <1>1, <1>6, Zenon DEF InitControler2
<1>7. CASE StartScan
  <2>1. /\ NextIs("start") /\ queue' = Tail(queue)
        /\ \/ Push("pixScan") /\ button = "StartScan" /\ button' = "TBMode"
           \/ UNCHANGED <<stack, button>>
        /\ UNCHANGED <<scanTimer, scan, allReceived, held>>
    BY <1>7, Zenon DEF StartScan
  <2>2. /\ Has(queue', "data") => Has(queue, "data")
        /\ Top \notin {"data", "sleep"}
    BY <1>0, <2>1, Taken
  <2>3. CASE UNCHANGED <<stack, button>>
    BY <1>1, <2>1, <2>2, <2>3, Zenon
  <2>4. CASE Push("pixScan") /\ button = "StartScan" /\ button' = "TBMode"
    <3>1. ~Has(stack, "data") /\ ~Has(stack, "sleep") /\ Top # "data"
      BY <1>0, <2>2, Calm
    <3>2. ~scanTimer /\ ~Has(stack, "pixScan") /\ ~Has(stack, "post-scan")
      <4>1. button # "TBMode"
        BY <2>4
      <4> QED BY <4>1, Zenon DEF MainInv
    <3>3. /\ stack' # <<>> /\ Top' # "data" /\ Tail(stack') = stack
          /\ ~Has(stack', "data")
          /\ AtMostOnce(stack, {"pixScan", "post-scan"}) =>
               AtMostOnce(stack', {"pixScan", "post-scan"})
      BY <1>0, <2>4, <3>1, <3>2, Pushed DEF Frames
    <3> QED BY <2>1, <2>2, <2>4, <3>1, <3>2, <3>3, Zenon
            DEF MainInv, DataUnderWay
  <2> QED BY <2>1, <2>3, <2>4
<1>8. CASE PixScan
  <2>1. /\ Top = "pixScan" /\ Pop /\ scanTimer'
        /\ UNCHANGED <<queue, button, allReceived, held>>
    BY <1>8, Zenon DEF PixScan, Flushed, Monitor
  <2>2. /\ Top # "data" /\ Has(stack, "pixScan")
        /\ stack' # <<>> => /\ ~Has(Tail(stack'), "data")
                            /\ ~Has(Tail(stack'), "sleep")
        /\ AtMostOnce(stack, {"pixScan", "post-scan"}) =>
             /\ AtMostOnce(stack', {"pixScan", "post-scan"})
             /\ ~Has(stack', "pixScan") /\ ~Has(stack', "post-scan")
    BY <1>0, <2>1, Calm, Popped DEF Frames
  <2> QED BY <2>1, <2>2, Zenon DEF MainInv, DataUnderWay
<1>9. CASE StopPixScan
  <2>1. /\ NextIs("stop") /\ queue' = Tail(queue)
        /\ UNCHANGED <<stack, scanTimer, button, scan, allReceived, held>>
    BY <1>9, Zenon DEF StopPixScan
  <2>2. Has(queue', "data") => Has(queue, "data")
    BY <1>0, <2>1, Taken
  <2> QED BY <1>1, <2>1, <2>2, Zenon
<1>10. CASE DataPending
  <2>1. /\ NextIs("data") /\ queue' = Tail(queue) /\ Push("data")
        /\ UNCHANGED <<scanTimer, button, scan>>
    BY <1>10, Zenon DEF DataPending
  <2>2. Has(queue, "data") /\ Top \notin {"data", "sleep"}
    BY <1>0, <2>1, Taken
  <2>3. ~Has(stack, "data") /\ ~Has(stack, "sleep")
    BY <1>0, <2>2, Calm
  <2>4. /\ Top' = "data" /\ Tail(stack') = stack
        /\ Has(stack', "pixScan") <=> Has(stack, "pixScan")
        /\ Has(stack', "post-scan") <=> Has(stack, "post-scan")
        /\ AtMostOnce(stack, {"pixScan", "post-scan"}) =>
             AtMostOnce(stack', {"pixScan", "post-scan"})
    BY <1>0, <2>1, Pushed DEF Frames
  <2> QED BY <2>1, <2>2, <2>3, <2>4, Zenon DEF MainInv, DataUnderWay
<1>11. CASE SendEvents
  <2>1. /\ Top = "data" /\ Pop
        /\ UNCHANGED <<queue, scanTimer, button, scan, allReceived>>
    BY <1>11, Zenon DEF SendEvents
  <2>2. allReceived => ~held'
    BY <1>11, Zenon DEF SendEvents, SendComplete
  <2>3. /\ Has(stack, "data")
        /\ ~Has(stack', "data") /\ ~Has(stack', "sleep")
        /\ stack' # <<>> => /\ ~Has(Tail(stack'), "data")
                            /\ ~Has(Tail(stack'), "sleep")
        /\ Has(stack', "pixScan") <=> Has(stack, "pixScan")
        /\ Has(stack', "post-scan") <=> Has(stack, "post-scan")
        /\ AtMostOnce(stack, {"pixScan", "post-scan"}) =>
             AtMostOnce(stack', {"pixScan", "post-scan"})
    <3>1. stack # <<>> =>
            ~Has(Tail(stack), "data") /\ ~Has(Tail(stack), "sleep")
      BY Zenon DEF MainInv
    <3> QED BY <1>0, <2>1, <3>1, Popped DEF Frames
  <2> QED BY <2>1, <2>2, <2>3, Zenon DEF MainInv, DataUnderWay
<1>12. CASE FinishScan
  <2>1. /\ Top \notin {"data", "sleep"} /\ Push("post-scan")
        /\ scanTimer /\ ~scanTimer' /\ scan = "idle"
        /\ UNCHANGED <<queue, button, scan, allReceived, held>>
    BY <1>12 DEF FinishScan, TakesEvents
  <2>2. ~Has(stack, "data") /\ ~Has(stack, "sleep")
    BY <1>0, <2>1, Calm
  <2>3. ~Has(stack, "pixScan") /\ ~Has(stack, "post-scan") /\ Top # "data"
    BY <2>1 DEF MainInv
  <2>4. /\ Top' # "data" /\ Tail(stack') = stack
        /\ Has(stack', "post-scan") /\ ~Has(stack', "pixScan")
        /\ AtMostOnce(stack, {"pixScan", "post-scan"}) =>
             AtMostOnce(stack', {"pixScan", "post-scan"})
    BY <1>0, <2>1, <2>3, Pushed DEF Frames
  <2>5. scan' # "running"
    BY <2>1
  <2> QED BY <2>1, <2>2, <2>3, <2>4, <2>5, Zenon DEF MainInv, DataUnderWay
<1>13. CASE ShowFinished
  <2>1. /\ Top = "post-scan" /\ stack' = <<"finished">> \o Tail(stack)
        /\ queue = <<>> /\ button' = "StartScan"
        /\ UNCHANGED <<queue, scanTimer, scan, allReceived, held>>
    BY <1>13, Zenon DEF ShowFinished, Flushed
  <2>2. /\ Has(stack, "post-scan") /\ Top # "data" /\ Top' # "data"
        /\ Tail(stack') = Tail(stack) /\ stack # <<>>
        /\ AtMostOnce(stack, {"pixScan", "post-scan"}) =>
             ~Has(stack', "pixScan") /\ ~Has(stack', "post-scan")
    BY <1>0, <2>1, Replaced DEF Frames
  <2>3. AtMostOnce(stack', {"pixScan", "post-scan"})
    BY <1>0, <2>1, Replaced DEF Frames, MainInv
  <2>4. ~Has(queue', "data") /\ ~Has(stack', "data")
    BY <1>0, <2>1, <2>2, Empty, Calm, Replaced DEF Frames
  <2> QED BY <2>1, <2>2, <2>3, <2>4, Zenon DEF MainInv, DataUnderWay
<1>14. CASE FinishedScanning
  <2>1. /\ Top = "finished"
        /\ stack' = <<"sleep">> \o Tail(stack) \/ Pop
        /\ UNCHANGED <<queue, scanTimer, button, scan, allReceived, held>>
    BY <1>14, Zenon DEF FinishedScanning, Flushed
  <2>2. ~Has(stack, "data") /\ ~Has(stack, "sleep") /\ Top # "data"
    BY <1>0, <2>1, Calm
  <2>3. /\ Has(stack', "data") <=> Has(stack, "data")
        /\ Has(stack', "pixScan") <=> Has(stack, "pixScan")
        /\ Has(stack', "post-scan") <=> Has(stack, "post-scan")
    BY <1>0, <2>1, Popped, Replaced DEF Frames
  <2>4. AtMostOnce(stack, {"pixScan", "post-scan"}) =>
          AtMostOnce(stack', {"pixScan", "post-scan"})
    BY <1>0, <2>1, Popped, Replaced DEF Frames
  <2>5. stack' # <<>> =>
          ~Has(Tail(stack'), "data") /\ ~Has(Tail(stack'), "sleep")
    BY <1>0, <2>1, <2>2, Popped, Replaced DEF Frames
  <2> QED BY <2>1, <2>2, <2>3, <2>4, <2>5, Zenon DEF MainInv, DataUnderWay
<1>15. CASE ScanFinished
  <2>1. /\ Top = "sleep" /\ Pop
        /\ UNCHANGED <<queue, scanTimer, button, scan, allReceived, held>>
    BY <1>15, Zenon DEF ScanFinished
  <2>2. /\ Top # "data"
        /\ stack' # <<>> => /\ Has(Tail(stack'), "data") => Has(stack', "data")
                            /\ Has(Tail(stack'), "sleep") => Has(stack', "sleep")
        /\ stack # <<>> /\ stack' = Tail(stack)
        /\ Has(stack', "data") <=> Has(stack, "data")
        /\ Has(stack', "pixScan") <=> Has(stack, "pixScan")
        /\ Has(stack', "post-scan") <=> Has(stack, "post-scan")
        /\ AtMostOnce(stack, {"pixScan", "post-scan"}) =>
             AtMostOnce(stack', {"pixScan", "post-scan"})
    BY <1>0, <2>1, Popped DEF Frames
  <2> QED BY <2>1, <2>2, Zenon DEF MainInv, DataUnderWay
<1>16. CASE CtrlThread
  <2>1. /\ scan = "running"
        /\ UNCHANGED <<stack, scanTimer, button, allReceived, held>>
    BY <1>16, Zenon DEF CtrlThread, PostData, LastReadout, Die
  <2>2. scanTimer
    BY <2>1, Zenon DEF MainInv
  <2>3. scanTimer' /\ Top' = Top
    BY <2>1, <2>2, Zenon DEF Top
  <2> QED BY <2>1, <2>2, <2>3, Zenon DEF MainInv, DataUnderWay
<1> QED BY <1>2, <1>3, <1>4, <1>5, <1>6, <1>7, <1>8, <1>9, <1>10, <1>11, <1>12,
           <1>13, <1>14, <1>15, <1>16 DEF Next, Main

-----------------------------------------------------------------------------
(* What has been sent.                                                      *)

(* One message more.                                                        *)
LEMMA Told ==
  ASSUME sent \in Seq(Messages), run \in 0..MaxRun,
         NEW kind \in {"BORE", "data", "EORE"}, Send(<<kind>>)
  PROVE  /\ \A x : Has(sent', x) <=> Has(sent, x) \/ x = Mark(kind)
         /\ Len(sent) \in Nat /\ Len(sent') = Len(sent) + 1
         /\ sent'[Len(sent) + 1] = Mark(kind)
         /\ \A i \in 1..Len(sent) : sent'[i] = sent[i]
<1>1. sent' = Append(sent, Mark(kind)) /\ Mark(kind) \in Messages
  BY SentMoves
<1> QED BY <1>1, Appended

(* The three kinds of messages are told apart.                              *)
LEMMA Kinds ==
  /\ Mark("BORE") # Mark("data") /\ Mark("BORE") # Mark("EORE")
  /\ Mark("EORE") # Mark("data")
  /\ \A kind : Mark(kind).run = run /\ Mark(kind).kind = kind
BY DEF Mark

(* Nothing is sent at the start.                                            *)
LEMMA SentInit == Init => SentInv
<1> SUFFICES ASSUME Init PROVE SentInv
  OBVIOUS
<1>1. ~Closed /\ ~Opened /\ \A i \in 1..Len(sent) : FALSE
  BY Empty DEF Init, Closed, Opened
<1>2. rc = "idle" /\ ~scanning /\ rc # "running"
  BY DEF Init
<1> QED BY <1>1, <1>2, Zenon DEF SentInv

(* A message that leaves the run where it is.                               *)
LEMMA SentMore ==
  ASSUME sent \in Seq(Messages), run \in 0..MaxRun, UNCHANGED run,
         \A i \in 1..Len(sent) : sent[i].run <= run,
         NEW kind \in {"BORE", "data", "EORE"}, Send(<<kind>>)
  PROVE  \A i \in 1..Len(sent') : sent'[i].run <= run'
<1>1. ASSUME NEW i \in 1..Len(sent') PROVE sent'[i].run <= run
  <2>1. CASE i = Len(sent) + 1
    BY <2>1, Told, Kinds
  <2>2. CASE i # Len(sent) + 1
    BY <2>2, Told
  <2> QED BY <2>1, <2>2
<1> QED BY <1>1

(* Twice at most once is once.                                              *)
LEMMA NotBoth ==
  ASSUME NEW s, NEW T, AtMostOnce(s, T), NEW x \in T, NEW y \in T, x # y
  PROVE  ~(Has(s, x) /\ Has(s, y))
BY DEF Has, AtMostOnce

(* Each action keeps what is known of the messages of the current run.      *)
LEMMA SentKept ==
  ASSUME TypeOK, MainInv, SentInv, [Next]_vars
  PROVE  SentInv'
<1>0. /\ queue \in Seq(Events) /\ stack \in Seq(Frames)
      /\ sent \in Seq(Messages) /\ run \in 0..MaxRun
  BY TypeParts, Zenon DEF Plain
<1>1. ASSUME UNCHANGED <<sent, run, scanning>>, Started' => Started,
             \/ rc' = rc
             \/ /\ rc # "running" /\ rc' # "running" /\ rc' # "prepare"
                /\ rc \in Before => rc' \in Before
      PROVE  SentInv'
  BY <1>1 DEF SentInv, Closed, Opened, Mark
<1> USE DEF rcVars, handshakes, dataVars, Step
<1>2. CASE UNCHANGED vars
  BY <1>1, <1>2 DEF vars, Started
<1>3. CASE RunControl
  <2>1. CASE OnConfigureOnly
    BY <1>1, <2>1 DEF OnConfigureOnly, Started
  <2>2. CASE OnConfigure
    BY <1>1, <2>2 DEF OnConfigure, Started, Before
  <2>3. CASE PostInit
    <3>1. Started' => Started
      BY <1>0, <2>3, Posted DEF PostInit, Started, Events
    <3> QED BY <1>1, <2>3, <3>1 DEF PostInit, Before
  <2>4. CASE ClearAnswer
    BY <1>1, <2>4 DEF ClearAnswer, Started, Before
  <2>5. CASE Configured
    BY <1>1, <2>5 DEF Configured, Started, Before
  <2>6. CASE OnStartRun
    <3>1. /\ rc = "idle" /\ rc' = "prepare" /\ run' = run + 1
          /\ sent' = sent /\ scanning' = scanning
      BY <2>6 DEF OnStartRun
    <3>2. \A i \in 1..Len(sent) : sent[i].run <= run
      BY DEF SentInv
    <3>3. \A i \in 1..Len(sent') : sent'[i].run <= run' /\ sent'[i].run # run'
      <4>1. ASSUME NEW i \in 1..Len(sent)
            PROVE  sent[i].run <= run + 1 /\ sent[i].run # run + 1
        <5>0. sent[i] \in Messages
          BY <1>0
        <5>1. sent[i].run \in 0..MaxRun
          BY <5>0 DEF Messages
        <5> QED BY <1>0, <3>2, <5>1
      <4> QED BY <3>1, <4>1
    <3>4. ~Opened' /\ ~Closed'
      BY <3>3 DEF Opened, Closed, Has, Mark
    <3>5. ~scanning /\ rc' # "running"
      BY <3>1 DEF SentInv
    <3> QED BY <3>1, <3>3, <3>4, <3>5 DEF SentInv
  <2>7. CASE PostStart
    <3>1. /\ rc = "prepare" /\ rc' = "running" /\ scanning'
          /\ UNCHANGED <<run, sent>>
      BY <2>7, Zenon DEF PostStart, BeginRun
    <3>2. ~Opened /\ ~Closed
      BY <3>1 DEF SentInv, Before
    <3>3. ~Opened' /\ ~Closed'
      BY <3>1, <3>2 DEF Opened, Closed, Mark
    <3>4. \A i \in 1..Len(sent') : sent'[i].run <= run'
      BY <3>1 DEF SentInv
    <3> QED BY <3>1, <3>3, <3>4, Zenon DEF SentInv
  <2>8. CASE OnStopRun
    <3>1. /\ rc = "running" /\ rc' = "postStop" /\ ~scanning'
          /\ UNCHANGED <<run, sent>>
      BY <2>8, Zenon DEF OnStopRun
    <3>2. ~Closed /\ (Closed' <=> Closed)
      BY <3>1 DEF SentInv, Before, Closed, Mark
    <3>3. \A i \in 1..Len(sent') : sent'[i].run <= run'
      BY <3>1 DEF SentInv
    <3>4. rc' # "running" /\ rc' # "prepare"
      BY <3>1
    <3> QED BY <3>1, <3>2, <3>3, <3>4, Zenon DEF SentInv
  <2>9. CASE PostStop
    <3>1. Started' => Started
      BY <1>0, <2>9, Posted DEF PostStop, Started, Events
    <3> QED BY <1>1, <2>9, <3>1 DEF PostStop, Before
  <2>10. CASE ResetFinished
    BY <1>1, <2>10 DEF ResetFinished, Started, Before
  <2>11. CASE StopWait
    BY <1>1, <2>11 DEF StopWait, Started, Before
  <2>12. CASE SendRest
    <3>1. /\ rc = "rest" /\ rc' = "eore" /\ UNCHANGED <<run, scanning>>
          /\ (sent' = sent \/ Send(<<"data">>))
      BY <2>12, Zenon DEF SendRest
    <3>2. Closed' => Closed
      BY <1>0, <3>1, Told, Kinds DEF Closed, Mark
    <3>3. \A i \in 1..Len(sent') : sent'[i].run <= run'
      BY <1>0, <3>1, SentMore DEF SentInv
    <3>4. ~Closed /\ ~scanning /\ rc' # "running" /\ rc' # "prepare"
      BY <3>1 DEF SentInv, Before
    <3> QED BY <3>1, <3>2, <3>3, <3>4, Zenon DEF SentInv
  <2>13. CASE SendEore
    <3>1. /\ rc = "eore" /\ rc' = "idle" /\ Send(<<"EORE">>)
          /\ UNCHANGED <<run, scanning>>
      BY <2>13, Zenon DEF SendEore
    <3>2. \A i \in 1..Len(sent') : sent'[i].run <= run'
      BY <1>0, <3>1, SentMore DEF SentInv
    <3>3. ~scanning /\ rc' \in Before /\ rc' # "prepare" /\ rc' # "running"
      BY <3>1 DEF SentInv, Before
    <3> QED BY <3>1, <3>2, <3>3, Zenon DEF SentInv
  <2> QED BY <1>3, <2>1, <2>2, <2>3, <2>4, <2>5, <2>6, <2>7, <2>8, <2>9, <2>10,
             <2>11, <2>12, <2>13 DEF RunControl
<1>4. CASE Main
  <2>0. ASSUME UNCHANGED <<sent, run, scanning, rc>>,
               Has(queue', "start") => Has(queue, "start"),
               Has(stack', "pixScan") =>
                 Has(queue, "start") \/ Has(stack, "pixScan")
        PROVE  SentInv'
    BY <1>1, <2>0 DEF Started
  <2>1. CASE InitControler
    BY <1>0, <2>0, <2>1, Taken, Pushed DEF InitControler, Frames
  <2>2. CASE InitRods
    BY <1>0, <2>0, <2>2, Popped DEF InitRods, Flushed, Frames
  <2>3. CASE InitControler2
    BY <2>0, <2>3 DEF InitControler2
  <2>4. CASE StartScan
    BY <1>0, <2>0, <2>4, Taken, Pushed DEF StartScan, Frames
  <2>5. CASE PixScan
    <3>1. /\ Top = "pixScan" /\ queue = <<>> /\ queue' = queue /\ Pop
          /\ UNCHANGED <<rc, run, scanning>>
          /\ (sent' = sent \/ (Send(<<"BORE">>) /\ scanning))
      BY <2>5, Zenon DEF PixScan, Flushed, BeganScanning
    <3>2. ~Started'
      BY <1>0, <3>1, Popped, Empty DEF MainInv, Started, Frames
    <3>3. Closed' => Closed
      BY <1>0, <3>1, Told, Kinds DEF Closed, Mark
    <3>4. \A i \in 1..Len(sent') : sent'[i].run <= run'
      BY <1>0, <3>1, SentMore DEF SentInv
    <3>5. Opened' => Opened \/ scanning
      BY <3>1 DEF Opened, Mark
    <3>6. scanning => rc # "prepare"
      BY DEF SentInv
    <3> QED BY <3>1, <3>2, <3>3, <3>4, <3>5, <3>6, Zenon DEF SentInv
  <2>6. CASE StopPixScan
    BY <1>0, <2>0, <2>6, Taken DEF StopPixScan
  <2>7. CASE DataPending
    BY <1>0, <2>0, <2>7, Taken, Pushed DEF DataPending, Frames
  <2>8. CASE SendEvents
    <3>1. /\ Top = "data" /\ queue' = queue /\ Pop
          /\ UNCHANGED <<rc, run, scanning>>
          /\ (sent' = sent \/ Send(<<"data">>))
      BY <2>8, Zenon DEF SendEvents, SendComplete
    <3>2. Started' => Started
      BY <1>0, <3>1, Popped DEF Started, Frames
    <3>3. (Closed' => Closed) /\ (Opened' => Opened)
      BY <1>0, <3>1, Told, Kinds DEF Closed, Opened, Mark
    <3>4. \A i \in 1..Len(sent') : sent'[i].run <= run'
      BY <1>0, <3>1, SentMore DEF SentInv
    <3> QED BY <3>1, <3>2, <3>3, <3>4, Zenon DEF SentInv
  <2>9. CASE FinishScan
    BY <1>0, <2>0, <2>9, Pushed DEF FinishScan, Frames
  <2>10. CASE ShowFinished
    BY <1>0, <2>0, <2>10, Replaced DEF ShowFinished, Flushed, Frames
  <2>11. CASE FinishedScanning
    BY <1>0, <2>0, <2>11, Popped, Replaced DEF FinishedScanning, Flushed, Frames
  <2>12. CASE ScanFinished
    BY <1>0, <2>0, <2>12, Popped DEF ScanFinished, Frames
  <2> QED BY <1>4, <2>1, <2>2, <2>3, <2>4, <2>5, <2>6, <2>7, <2>8, <2>9, <2>10,
             <2>11, <2>12 DEF Main
<1>5. CASE CtrlThread
  <2>1. Started' => Started
    BY <1>0, <1>5, Posted
       DEF CtrlThread, PostData, LastReadout, Die, Started, Events
  <2> QED BY <1>1, <1>5, <2>1 DEF CtrlThread, PostData, LastReadout, Die
<1> QED BY <1>2, <1>3, <1>4, <1>5 DEF Next

-----------------------------------------------------------------------------
(* One scan per run.                                                        *)

(* No scan is asked for at the start.                                       *)
LEMMA RunInit == Init => RunInv
<1> SUFFICES ASSUME Init PROVE OneScan
  BY DEF RunInv
<1>1. /\ \A x : ~Has(queue, x) /\ ~Has(stack, x)
      /\ AtMostOnce(queue, {"start"})
      /\ AtMostOnce(stack, {"finished", "sleep"})
  BY Empty DEF Init
<1>2. rc = "idle" /\ button # "TBMode"
  BY DEF Init
<1> QED BY <1>1, <1>2 DEF OneScan, Started, Ending

(* Data is under way only while the run button says so, and then no scan is *)
(* being started.                                                           *)
LEMMA NotStarted ==
  ASSUME MainInv, OneScan, DataUnderWay
  PROVE  button = "TBMode" /\ ~Started /\ rc \in During
<1>1. button = "TBMode"
  BY Zenon DEF MainInv
<1>2. ~Has(stack, "pixScan")
  BY NotBoth DEF MainInv
<1>3. ~Has(queue, "start") /\ rc \in During
  BY <1>1 DEF OneScan
<1> QED BY <1>1, <1>2, <1>3 DEF Started

(* Each action keeps to one scan per run.                                   *)
LEMMA RunStep ==
  ASSUME TypeOK, MainInv, SentInv, RunInv, [Next]_vars
  PROVE  RunInv'
<1> SUFFICES ASSUME ~gaveUp' PROVE OneScan'
  BY DEF RunInv
<1>0. /\ queue \in Seq(Events) /\ stack \in Seq(Frames)
      /\ sent \in Seq(Messages) /\ run \in 0..MaxRun
      /\ button \in {"StartScan", "TBMode"}
  BY TypeParts, Zenon DEF Plain
<1> USE DEF rcVars, handshakes, dataVars, engineVars, threadVars, Step
<1>1. CASE UNCHANGED vars
  <2>1. OneScan
    BY <1>1, Zenon DEF vars, RunInv
  <2> QED BY <1>1, <2>1 DEF vars, OneScan, Started, Ending, Untouched
<1>2. CASE RunControl
  <2> USE <1>0
  <2>0. /\ UNCHANGED <<stack, button>> /\ ~gaveUp
    BY <1>2, RunControlKeeps, WorldKept, Zenon
  <2>a. OneScan
    BY <2>0 DEF RunInv
  <2> USE DEF OneScan, Started, Ending, Untouched, During
  <2>1. CASE OnConfigureOnly
    BY <2>0, <2>a, <2>1 DEF OnConfigureOnly
  <2>2. CASE OnConfigure
    BY <2>0, <2>a, <2>2 DEF OnConfigure
  <2>3. CASE PostInit
    BY <2>0, <2>a, <2>3, Posted DEF PostInit, Events
  <2>4. CASE ClearAnswer
    BY <2>0, <2>a, <2>4 DEF ClearAnswer
  <2>5. CASE Configured
    BY <2>0, <2>a, <2>5 DEF Configured
  <2>6. CASE OnStartRun
    BY <2>0, <2>a, <2>6 DEF OnStartRun, SentInv
  <2>7. CASE PostStart
    BY <2>0, <2>a, <2>7, Posted DEF PostStart, BeginRun, Events
  <2>8. CASE OnStopRun
    BY <2>0, <2>a, <2>8 DEF OnStopRun
  <2>9. CASE PostStop
    BY <2>0, <2>a, <2>9, Posted DEF PostStop, Events
  <2>10. CASE ResetFinished
    BY <2>0, <2>a, <2>10 DEF ResetFinished
  <2>11. CASE StopWait
    BY <2>0, <2>a, <2>11 DEF StopWait, RunIsOver
  <2>12. CASE SendRest
    <3>1. rc = "rest" /\ rc' = "eore" /\ UNCHANGED <<run, queue, allReceived>>
      BY <2>12, Zenon DEF SendRest
    <3>2. sent' = sent
      BY <2>a, <3>1, <2>12 DEF SendRest
    <3>3. allReceived'
      BY <2>a, <3>1
    <3>4. ~Started' /\ ~Ending' /\ ~Has(queue', "start") /\ button' # "TBMode"
      <4>1. button # "TBMode" /\ ~Ending /\ ~Has(queue, "start")
        BY <2>a, <3>1
      <4>2. ~Has(stack, "pixScan")
        BY <4>1, Zenon DEF MainInv
      <4> QED BY <2>0, <3>1, <4>1, <4>2
    <3> QED BY <2>0, <2>a, <3>1, <3>3, <3>4
  <2>13. CASE SendEore
    <3>1. rc = "eore" /\ rc' = "idle" /\ UNCHANGED queue
      BY <2>13, Zenon DEF SendEore
    <3>2. button # "TBMode" /\ ~Ending /\ ~Has(queue, "start")
      BY <2>a, <3>1
    <3>3. ~Has(stack, "pixScan")
      BY <3>2, Zenon DEF MainInv
    <3> QED BY <2>0, <2>a, <3>1, <3>2, <3>3
  <2> QED BY <1>2, <2>1, <2>2, <2>3, <2>4, <2>5, <2>6, <2>7, <2>8, <2>9, <2>10,
             <2>11, <2>12, <2>13 DEF RunControl
<1>3. CASE Main
  <2> USE <1>0
  <2>0. UNCHANGED <<rc, run>> /\ ~gaveUp
    <3>1. rcVars' = rcVars
      BY <1>3, RcMoves
    <3> QED BY <3>1
  <2>a. OneScan
    BY <2>0 DEF RunInv
  <2> USE DEF OneScan, Started, Ending, Untouched
  <2>1. CASE InitControler
    BY <2>0, <2>a, <2>1, Taken, Pushed DEF InitControler, Frames
  <2>2. CASE InitRods
    BY <2>0, <2>a, <2>2, Popped DEF InitRods, Flushed, Frames
  <2>3. CASE InitControler2
    BY <2>0, <2>a, <2>3 DEF InitControler2
  <2>4. CASE StartScan
    BY <2>0, <2>a, <2>4, Taken, Pushed DEF StartScan, Frames
  <2>5. CASE PixScan
    <3>1. /\ Top = "pixScan" /\ queue = <<>> /\ queue' = queue /\ Pop
          /\ UNCHANGED <<allReceived, button, runFinished>>
          /\ sent' = sent \/ (Send(<<"BORE">>) /\ scanning)
      BY <2>5, Zenon DEF PixScan, Flushed, BeganScanning
    <3>2. ~Started'
      BY <3>1, Popped, Empty DEF MainInv, Frames
    <3>3. rc # "prepare"
      BY <2>a, <3>1, Popped DEF MainInv, Frames, During
    <3> QED BY <2>0, <2>a, <3>1, <3>2, <3>3, Popped DEF Frames
  <2>6. CASE StopPixScan
    BY <2>0, <2>a, <2>6, Taken DEF StopPixScan
  <2>7. CASE DataPending
    <3>1. DataUnderWay
      BY <2>7, Taken DEF DataPending, DataUnderWay
    <3>2. ~Started /\ rc \in During /\ button = "TBMode"
      BY <2>a, <3>1, NotStarted
    <3> QED BY <2>0, <2>a, <2>7, <3>2, Taken, Pushed
            DEF DataPending, Frames, During
  <2>8. CASE SendEvents
    <3>1. /\ Top = "data" /\ Pop
          /\ UNCHANGED <<queue, allReceived, button, runFinished>>
      BY <2>8, Zenon DEF SendEvents
    <3>2. DataUnderWay
      BY <3>1, Popped DEF DataUnderWay, Frames
    <3>3. ~Started /\ rc \in During /\ button = "TBMode"
      BY <2>a, <3>2, NotStarted
    <3> QED BY <2>0, <2>a, <3>1, <3>3, Popped DEF Frames, During
  <2>9. CASE FinishScan
    BY <2>0, <2>a, <2>9, Pushed DEF FinishScan, Frames
  <2>10. CASE ShowFinished
    <3>1. /\ Top = "post-scan" /\ stack' = <<"finished">> \o Tail(stack)
          /\ button' = "StartScan"
          /\ UNCHANGED <<queue, sent, allReceived, runFinished>>
      BY <2>10, Zenon DEF ShowFinished, Flushed
    <3>2. button = "TBMode"
      BY <3>1, Replaced DEF MainInv, Frames
    <3> QED BY <2>0, <2>a, <3>1, <3>2, Replaced DEF Frames
  <2>11. CASE FinishedScanning
    BY <2>0, <2>a, <2>11, Popped, Replaced DEF FinishedScanning, Flushed, Frames
  <2>12. CASE ScanFinished
    BY <2>0, <2>a, <2>12, Popped DEF ScanFinished, Frames
  <2> QED BY <1>3, <2>1, <2>2, <2>3, <2>4, <2>5, <2>6, <2>7, <2>8, <2>9, <2>10,
             <2>11, <2>12 DEF Main
<1>4. CASE CtrlThread
  <2>1. UNCHANGED <<rc, run, sent, stack, button, allReceived, runFinished,
                    gaveUp>>
    BY <1>4, Zenon DEF CtrlThread, PostData, LastReadout, Die
  <2>2. OneScan
    BY <2>1 DEF RunInv
  <2>3. /\ AtMostOnce(queue', {"start"})
        /\ Has(queue', "start") <=> Has(queue, "start")
    BY <1>0, <1>4, <2>2, Posted
       DEF CtrlThread, PostData, LastReadout, Die, OneScan, Events
  <2> QED BY <2>1, <2>2, <2>3 DEF OneScan, Started, Ending, Untouched
<1> QED BY <1>1, <1>2, <1>3, <1>4 DEF Next

-----------------------------------------------------------------------------
(* The framing of a run.                                                    *)

(* What an action that sends a message, or none, has to see to.             *)
LEMMA FramedStep ==
  ASSUME TypeOK, MainInv, SentInv, RunInv, RunFramed, [Next]_vars
  PROVE  RunFramed'
<1>0. /\ queue \in Seq(Events) /\ stack \in Seq(Frames)
      /\ sent \in Seq(Messages) /\ run \in 0..MaxRun
  BY TypeParts, Zenon DEF Plain
<1>1. gaveUp => gaveUp'
  BY WorldKept
<1>2. CASE sent' = sent
  BY <1>1, <1>2, Zenon DEF RunFramed
<1>3. ASSUME NEW kind \in {"BORE", "data", "EORE"}, Send(<<kind>>),
             kind = "BORE" => ~Opened /\ ~Closed,
             ~gaveUp => ~Closed /\ (kind = "BORE" => Untouched)
      PROVE  RunFramed'
  <2> SUFFICES ASSUME NEW i \in 1..Len(sent'), NEW j \in 1..Len(sent'),
                      i < j, sent'[i].run = sent'[j].run
               PROVE  /\ sent'[j].kind = "BORE" => sent'[i].kind = "data"
                      /\ ~gaveUp' => /\ sent'[j].kind # "BORE"
                                     /\ sent'[i].kind # "EORE"
    BY DEF RunFramed
  <2>1. /\ Len(sent') = Len(sent) + 1 /\ sent'[Len(sent) + 1] = Mark(kind)
        /\ Len(sent) \in Nat
        /\ \A k \in 1..Len(sent) : sent'[k] = sent[k]
    BY <1>0, <1>3, Told
  <2>2. i \in 1..Len(sent) /\ sent'[i] = sent[i]
    BY <2>1
  <2>3. CASE j # Len(sent) + 1
    <3>1. j \in 1..Len(sent) /\ sent'[j] = sent[j]
      BY <2>1, <2>3
    <3> QED BY <1>1, <2>2, <3>1 DEF RunFramed
  <2>4. CASE j = Len(sent) + 1
    <3>1. sent'[j].run = run /\ sent'[j].kind = kind
      BY <2>1, <2>4, Kinds
    <3>2. sent[i].run = run
      BY <2>2, <3>1
    <3>3. /\ sent[i] = Mark(sent[i].kind)
          /\ sent[i].kind \in {"BORE", "data", "EORE"}
      <4>1. sent[i] \in Messages
        BY <1>0, <2>2
      <4> QED BY <3>2, <4>1 DEF Messages, Mark
    <3>4. /\ ~Opened => sent[i].kind # "BORE"
          /\ ~Closed => sent[i].kind # "EORE"
      BY <2>2, <3>3 DEF Opened, Closed, Has
    <3>5. ~Untouched
      BY <2>2, <3>2 DEF Untouched
    <3> QED BY <1>1, <1>3, <2>2, <3>1, <3>3, <3>4, <3>5
  <2> QED BY <2>3, <2>4
<1>4. CASE RunControl
  <2>1. \/ sent' = sent
        \/ Send(<<"data">>) /\ rc = "rest" /\ ~allReceived
        \/ Send(<<"EORE">>) /\ rc = "eore"
    BY <1>4, RunControlKeeps
  <2>2. CASE Send(<<"data">>) /\ rc = "rest" /\ ~allReceived
    <3>1. ~Closed
      BY <2>2 DEF SentInv, Before
    <3> QED BY <1>3, <2>2, <3>1
  <2>3. CASE Send(<<"EORE">>) /\ rc = "eore"
    <3>1. ~Closed
      BY <2>3 DEF SentInv, Before
    <3> QED BY <1>3, <2>3, <3>1
  <2> QED BY <1>2, <2>1, <2>2, <2>3
<1>5. CASE PixScan
  <2>1. /\ Top = "pixScan" /\ Pop
        /\ sent' = sent \/ (Send(<<"BORE">>) /\ scanning)
    BY <1>5, Zenon DEF PixScan, Flushed, BeganScanning
  <2>2. CASE Send(<<"BORE">>) /\ scanning
    <3>1. Started
      BY <1>0, <2>1, Popped DEF Started, Frames
    <3>2. rc = "running" /\ rc \notin Before
      BY <2>2 DEF SentInv, Before
    <3>3. ~Opened /\ ~Closed
      BY <3>1, <3>2, Zenon DEF SentInv
    <3>4. ~gaveUp => Untouched
      BY <3>1, Zenon DEF RunInv, OneScan
    <3> QED BY <1>3, <2>2, <3>3, <3>4
  <2> QED BY <1>2, <2>1, <2>2
<1>6. CASE SendEvents
  <2>1. Top = "data" /\ Pop /\ (sent' = sent \/ Send(<<"data">>))
    BY <1>6, Zenon DEF SendEvents, SendComplete
  <2>2. DataUnderWay
    BY <1>0, <2>1, Popped DEF DataUnderWay, Frames
  <2>3. ~gaveUp => rc \in During
    BY <2>2, NotStarted, Zenon DEF RunInv
  <2>4. ~gaveUp => ~Closed
    BY <2>3 DEF SentInv, Before, During
  <2> QED BY <1>2, <1>3, <2>1, <2>4
<1>7. CASE \/ InitControler \/ InitRods \/ InitControler2 \/ StartScan
           \/ StopPixScan \/ DataPending \/ FinishScan \/ ShowFinished
           \/ FinishedScanning \/ ScanFinished \/ CtrlThread \/ UNCHANGED vars
  <2>1. sent' = sent
    BY <1>7 DEF InitControler, InitRods, InitControler2, StartScan, StopPixScan,
           DataPending, FinishScan, ShowFinished, FinishedScanning,
           ScanFinished, CtrlThread, PostData, LastReadout, Die, vars, dataVars
  <2> QED BY <1>2, <2>1
<1> QED BY <1>4, <1>5, <1>6, <1>7 DEF Next, Main

(* These invariants hold in both worlds.                                    *)
LEMMA Runs == Spec => [](TypeOK /\ MainInv /\ SentInv /\ RunInv)
<1>1. Init => TypeOK /\ MainInv /\ SentInv /\ RunInv
  BY TypeInit, MainInit, SentInit, RunInit
<1>2. TypeOK /\ MainInv /\ SentInv /\ RunInv /\ [Next]_vars
        => TypeOK' /\ MainInv' /\ SentInv' /\ RunInv'
  BY TypeStep, MainStep, SentKept, RunStep
<1> QED BY <1>1, <1>2, PTL DEF Spec

(* A run is opened at most once and never after it was closed; and as long  *)
(* as OnStopRun() does not give up, nothing of a run is sent before its     *)
(* BORE or after its EORE.                                                  *)
THEOREM RunsAreFramed == Spec => []RunFramed
<1>1. Init => RunFramed
  BY DEF Init, RunFramed
<1> QED BY <1>1, FramedStep, Runs, PTL DEF Spec

(* When the EORE goes out, nothing of the run is under way.                 *)
THEOREM NothingUnderWay == Spec => EoreComplete
<1>1. ASSUME TypeOK, MainInv, SentInv, RunInv, rc = "eore", ~gaveUp
      PROVE  /\ scan = "idle" /\ ~held /\ Top # "data"
             /\ \A i \in 1..Len(queue) : queue[i] # "data"
  <2>0. stack \in Seq(Frames) /\ scan \in {"idle", "running"}
    BY <1>1, TypeParts, Zenon DEF Plain
  <2>1. OneScan
    BY <1>1 DEF RunInv
  <2>2. button # "TBMode" /\ allReceived
    BY <1>1, <2>1 DEF OneScan, During
  <2>3. ~scanTimer /\ ~DataUnderWay
    BY <1>1, <2>2, Zenon DEF MainInv
  <2>4. scan = "idle"
    BY <1>1, <2>0, <2>3 DEF MainInv
  <2>5. Top # "data"
    BY <2>0, <2>3, Split DEF Top, DataUnderWay
  <2>6. ~held
    BY <1>1, <2>2, <2>5, Zenon DEF MainInv
  <2> QED BY <2>3, <2>4, <2>5, <2>6 DEF DataUnderWay, Has
<1>2. TypeOK /\ MainInv /\ SentInv /\ RunInv
        => [rc = "eore" /\ rc' = "idle" /\ ~gaveUp =>
              /\ scan = "idle" /\ ~held /\ Top # "data"
              /\ \A i \in 1..Len(queue) : queue[i] # "data"]_vars
  BY <1>1
<1> QED BY <1>2, Runs, PTL DEF EoreComplete

-----------------------------------------------------------------------------
(* The calm world.                                                          *)

(* The calm world starts with nothing asked for.                            *)
LEMMA CalmInit == Init => CalmInv
<1> SUFFICES ASSUME Init PROVE ~gaveUp /\ OneInit /\ StartHeard
  BY DEF CalmInv
<1>1. /\ \A x : ~Has(queue, x) /\ ~Has(stack, x)
      /\ AtMostOnce(queue, {"init"}) /\ AtMostOnce(stack, {"init"})
  BY Empty DEF Init
<1>2. rc = "idle" /\ status = "unconfigured" /\ ~initTimer /\ ~gaveUp
  BY DEF Init
<1> QED BY <1>1, <1>2 DEF OneInit, StartHeard, Started, Before

(* Each action keeps the invariant of the calm world.                       *)
LEMMA CalmStep ==
  ASSUME TypeOK, MainInv, SentInv, RunInv, CalmInv, [Next]_vars
  PROVE  CalmInv'
<1> SUFFICES ASSUME calm' PROVE ~gaveUp' /\ OneInit' /\ StartHeard'
  BY DEF CalmInv
<1>0. /\ queue \in Seq(Events) /\ stack \in Seq(Frames)
      /\ sent \in Seq(Messages) /\ run \in 0..MaxRun
  BY TypeParts, Zenon DEF Plain
<1>a. calm
  BY WorldKept
<1>b. ~gaveUp /\ OneInit /\ StartHeard
  BY <1>a DEF CalmInv
<1>c. OneScan
  BY <1>b DEF RunInv
<1> USE <1>0 DEF rcVars, handshakes, dataVars, engineVars, threadVars, Step
<1>1. CASE UNCHANGED vars
  BY <1>b, <1>1 DEF vars, OneInit, StartHeard, Started, Opened, Mark
<1>2. CASE RunControl
  <2>0. UNCHANGED <<stack, initTimer, configured>> /\ ~gaveUp'
    <3>1. UNCHANGED <<stack, initTimer, configured, gaveUp>>
      BY <1>a, <1>2, RunControlKeeps, Zenon
    <3> QED BY <1>b, <3>1
  <2> USE <1>a, <1>b, <2>0
      DEF OneInit, StartHeard, Started, Opened, Mark, Before
  <2>1. CASE OnConfigureOnly
    BY <2>1 DEF OnConfigureOnly
  <2>2. CASE OnConfigure
    BY <2>2 DEF OnConfigure
  <2>3. CASE PostInit
    BY <2>3, Posted DEF PostInit, Events
  <2>4. CASE ClearAnswer
    BY <2>4 DEF ClearAnswer
  <2>5. CASE Configured
    BY <2>5 DEF Configured, Answer
  <2>6. CASE OnStartRun
    BY <2>6 DEF OnStartRun
  <2>7. CASE PostStart
    BY <2>7, Posted DEF PostStart, BeginRun, Events
  <2>8. CASE OnStopRun
    <3>1. ~Started
      BY <2>8 DEF OnStopRun, StartPending, Has
    <3> QED BY <2>8, <3>1 DEF OnStopRun
  <2>9. CASE PostStop
    BY <2>9, Posted DEF PostStop, Events
  <2>10. CASE ResetFinished
    BY <2>10 DEF ResetFinished
  <2>11. CASE StopWait
    BY <2>11 DEF StopWait
  <2>12. CASE SendRest
    <3>1. /\ rc = "rest" /\ rc' = "eore" /\ UNCHANGED <<run, status, queue>>
          /\ (sent' = sent \/ Send(<<"data">>))
      BY <2>12, Zenon DEF SendRest
    <3> QED BY <3>1, Told
  <2>13. CASE SendEore
    BY <2>13 DEF SendEore
  <2> QED BY <1>2, <2>1, <2>2, <2>3, <2>4, <2>5, <2>6, <2>7, <2>8, <2>9, <2>10,
             <2>11, <2>12, <2>13 DEF RunControl
<1>3. CASE Main
  <2>0. UNCHANGED <<rc, run, status>> /\ ~gaveUp'
    <3>1. rcVars' = rcVars
      BY <1>3, RcMoves
    <3> QED BY <1>b, <3>1
  <2> USE <1>a, <1>b, <2>0 DEF OneInit, StartHeard, Started, Opened, Mark
  <2>1. CASE InitControler
    BY <2>1, Taken, Pushed DEF InitControler, Frames
  <2>2. CASE InitRods
    BY <2>2, Popped, Empty DEF InitRods, InitFailed, Flushed, Frames, Before
  <2>3. CASE InitControler2
    BY <2>3 DEF InitControler2, Before
  <2>4. CASE StartScan
    BY <1>c, <2>4, Taken, Pushed DEF StartScan, Frames, OneScan
  <2>5. CASE PixScan
    BY <2>5, Popped, Empty, Told
       DEF PixScan, Flushed, BeganScanning, Frames, SentInv, Before
  <2>6. CASE StopPixScan
    BY <2>6, Taken DEF StopPixScan
  <2>7. CASE DataPending
    BY <2>7, Taken, Pushed DEF DataPending, Frames
  <2>8. CASE SendEvents
    <3>1. /\ Top = "data" /\ Pop /\ (sent' = sent \/ Send(<<"data">>))
          /\ UNCHANGED <<queue, initTimer, configured, configuration>>
      BY <2>8, Zenon DEF SendEvents, SendComplete
    <3> QED BY <3>1, Popped, Told DEF Frames
  <2>9. CASE FinishScan
    BY <2>9, Pushed DEF FinishScan, Frames
  <2>10. CASE ShowFinished
    BY <2>10, Replaced DEF ShowFinished, Flushed, Frames
  <2>11. CASE FinishedScanning
    BY <2>11, Popped, Replaced DEF FinishedScanning, Flushed, Frames
  <2>12. CASE ScanFinished
    BY <2>12, Popped DEF ScanFinished, Frames
  <2> QED BY <1>3, <2>1, <2>2, <2>3, <2>4, <2>5, <2>6, <2>7, <2>8, <2>9, <2>10,
             <2>11, <2>12 DEF Main
<1>4. CASE CtrlThread
  <2>1. /\ UNCHANGED <<rc, run, sent, status, stack, initTimer, configured,
                       configuration, gaveUp>>
        /\ queue' = queue \/ Post("data")
    BY <1>4, Zenon DEF CtrlThread, PostData, LastReadout, Die
  <2> QED BY <1>b, <2>1, Posted
          DEF OneInit, StartHeard, Started, Opened, Mark, Events
<1> QED BY <1>1, <1>2, <1>3, <1>4 DEF Next

(* The inductive invariant of the whole specification.                      *)
LEMMA Inductive == Spec => []IInv
<1>1. Init => CalmInv
  BY CalmInit
<1>2. TypeOK /\ MainInv /\ SentInv /\ RunInv /\ CalmInv /\ [Next]_vars
        => CalmInv'
  BY CalmStep
<1> QED BY <1>1, <1>2, Runs, PTL DEF Spec, IInv

(* The EORE is the only message that a run needs its BORE for.              *)
LEMMA BoreStep ==
  ASSUME IInv, EveryRunHasBore, [Next]_vars
  PROVE  EveryRunHasBore'
<1> SUFFICES ASSUME calm', NEW j \in 1..Len(sent'), sent'[j].kind = "EORE"
             PROVE  \E i \in 1..j :
                      sent'[i] = [kind |-> "BORE", run |-> sent'[j].run]
  BY DEF EveryRunHasBore
<1>0. sent \in Seq(Messages) /\ run \in 0..MaxRun
  BY TypeParts, Zenon DEF IInv, Plain
<1>1. calm
  BY WorldKept
<1>2. StartHeard
  BY <1>1 DEF IInv, CalmInv
<1>3. \/ sent' = sent
      \/ Send(<<"BORE">>) \/ Send(<<"data">>)
      \/ Send(<<"EORE">>) /\ rc = "eore"
  <2> USE DEF dataVars
  <2>1. CASE RunControl
    BY <2>1, RunControlKeeps
  <2>2. CASE PixScan
    BY <2>2 DEF PixScan, BeganScanning
  <2>3. CASE SendEvents
    BY <2>3 DEF SendEvents, SendComplete
  <2>4. CASE \/ InitControler \/ InitRods \/ InitControler2 \/ StartScan
             \/ StopPixScan \/ DataPending \/ FinishScan \/ ShowFinished
             \/ FinishedScanning \/ ScanFinished \/ CtrlThread \/ UNCHANGED vars
    BY <2>4 DEF InitControler, InitRods, InitControler2, StartScan, StopPixScan,
           DataPending, FinishScan, ShowFinished, FinishedScanning,
           ScanFinished, CtrlThread, PostData, LastReadout, Die, vars
  <2> QED BY <2>1, <2>2, <2>3, <2>4 DEF Next, Main
<1>4. CASE sent' = sent
  BY <1>1, <1>4 DEF EveryRunHasBore
<1>5. ASSUME NEW kind \in {"BORE", "data", "EORE"}, Send(<<kind>>),
             kind = "EORE" => Opened
      PROVE  \E i \in 1..j : sent'[i] = [kind |-> "BORE", run |-> sent'[j].run]
  <2>1. /\ Len(sent) \in Nat /\ Len(sent') = Len(sent) + 1
        /\ sent'[Len(sent) + 1] = Mark(kind)
        /\ \A i \in 1..Len(sent) : sent'[i] = sent[i]
    BY <1>0, <1>5, Told
  <2>2. CASE j = Len(sent) + 1
    <3>1. kind = "EORE" /\ sent'[j].run = run
      BY <2>1, <2>2, Kinds
    <3>2. PICK i \in 1..Len(sent) : sent[i] = Mark("BORE")
      BY <1>5, <3>1 DEF Opened, Has
    <3>3. i \in 1..j /\ sent'[i] = Mark("BORE")
      BY <2>1, <2>2, <3>2
    <3> QED BY <3>1, <3>3 DEF Mark
  <2>3. CASE j # Len(sent) + 1
    <3>1. j \in 1..Len(sent) /\ sent'[j] = sent[j]
      BY <2>1, <2>3
    <3>2. PICK i \in 1..j : sent[i] = [kind |-> "BORE", run |-> sent[j].run]
      BY <1>1, <3>1 DEF EveryRunHasBore
    <3>3. sent'[i] = sent[i]
      BY <2>1, <3>1
    <3> QED BY <3>1, <3>2, <3>3
  <2> QED BY <2>2, <2>3
<1>6. rc = "eore" => Opened
  BY <1>2 DEF StartHeard
<1> QED BY <1>3, <1>4, <1>5, <1>6

(* In the calm world a run is not closed before it was opened.              *)
THEOREM RunsAreOpened == Spec => []EveryRunHasBore
<1>1. Init => EveryRunHasBore
  BY DEF Init, EveryRunHasBore
<1> QED BY <1>1, BoreStep, Inductive, PTL DEF Spec

=============================================================================
