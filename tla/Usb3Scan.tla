------------------------------ MODULE Usb3Scan ------------------------------
(***************************************************************************)
(* A scan on a USBpix3 board (USB3PixController.cxx): the scan thread sends *)
(* the commands, loop by loop, while a read-out thread (readout.cpp) moves  *)
(* the data from the board's FIFO into the histograms of the current loop;  *)
(* the CtrlThread (STPixModuleGroup.cxx) watches and stops the scan.  The   *)
(* scan thread starts, pauses and stops the read-out thread by a request    *)
(* (state, change) that it waits for to be acknowledged.                    *)
(***************************************************************************)
EXTENDS Naturals

CONSTANTS
  Loops,      (* values of the parameter that is scanned                     *)
  MaskSteps,  (* mask steps of a loop: each leaves some data in the FIFO     *)
  Troubles,   (* the sets of troubles to look at, see trouble                *)
  AbortWaits, (* turns with the abort flag up before the CtrlThread gives up *)
  MaxScan     (* bound: the number of scans                                  *)

TroubleKinds == {"read fails", "send fails", "slow", "long"}

ASSUME LoopsAssumption   == Loops \in Nat \ {0} /\ MaskSteps \in Nat \ {0}
ASSUME TroubleAssumption == Troubles \subseteq SUBSET TroubleKinds
ASSUME ScanAssumption    == MaxScan \in Nat /\ AbortWaits \in Nat \ {0}

VARIABLES
  trouble,   (* what may happen: getData() throws; sendCommands() throws;    *)
             (* the read-out interval is longer than the scan thread's       *)
             (* pause; a loop is longer than AbortWaits turns                *)
  scan,      (* the number of the last scan                                  *)
  kind,      (* of scan: "strobe" or "source"                                *)
  mode,      (* the kind of scan that the scan thread was started for        *)
  ctrl,      (* the CtrlThread: idle, wait (943), watch and poll (the        *)
             (* do-while loop), collect (scanTerminate())                    *)
  abort,     (* m_abortScan                                                  *)
  waits,     (* nAbortWait                                                   *)
  stopped,   (* a history variable: some scan has been aborted               *)
  running,   (* running, finished, cancel_scan of the controller             *)
  finished,
  cancel,
  pc,        (* the scan thread: see Step                                    *)
  asked,     (* it waits in setState()                                       *)
  loop,      (* the number of histogrammer sets, and the mask step           *)
  mask,
  state,     (* state and change of Readout                                  *)
  change,
  pos,       (* the read-out thread: none, top (of its loop), turn, read,    *)
             (* decode, park, gone                                           *)
  current,   (* its current_state                                            *)
  batch,     (* what getData() has returned to it                            *)
  fifo,      (* the board's FIFO: from which loop and mask step; loop 0 is   *)
             (* anything from earlier scans                                  *)
  hist       (* per loop, what went into its histograms                      *)

control == <<trouble, scan, kind, mode, ctrl, abort, waits, stopped>>
flags   == <<running, finished, cancel>>
thread  == <<pc, asked, loop, mask>>
readout == <<state, change, pos, current, batch>>
vars    == <<control, flags, thread, readout, fifo, hist>>

Data     == (0..Loops) \X (1..MaskSteps)
AllOf(l) == {l} \X (1..MaskSteps)
NoHists  == [l \in 1..Loops |-> {}]

Init ==
  /\ trouble \in Troubles /\ scan = 0 /\ kind = "strobe" /\ mode = "strobe"
  /\ ctrl = "idle" /\ abort = FALSE /\ waits = 0 /\ stopped = FALSE
  /\ running = FALSE /\ finished = FALSE /\ cancel = FALSE
  /\ pc = "off" /\ asked = FALSE /\ loop = 0 /\ mask = 0
  /\ state = "PAUSE" /\ change = FALSE /\ pos = "none" /\ current = "PAUSE"
  /\ batch = {} /\ fifo = {} /\ hist = NoHists

-----------------------------------------------------------------------------
(* The CtrlThread and the user.                                             *)

BeginScan ==
  /\ ctrl = "idle" /\ scan < MaxScan
  /\ scan' = scan + 1 /\ kind' \in {"strobe", "source"}
  /\ ctrl' = "wait" /\ abort' = FALSE
  /\ UNCHANGED <<trouble, waits, stopped, flags, asked, loop, mask, readout, fifo, hist>>

NewScan ==
  /\ BeginScan /\ pc = "off"
  /\ pc' = "start" /\ mode' = kind'

(* QThread::start() does nothing while the scan thread is still at its last *)
(* scan: the CtrlThread then watches that one.                              *)
NewScanIgnored ==
  /\ BeginScan /\ pc # "off"
  /\ UNCHANGED <<pc, mode>>

Abort ==
  /\ ctrl # "idle" /\ ~abort
  /\ abort' = TRUE /\ stopped' = TRUE
  /\ UNCHANGED <<trouble, scan, kind, mode, ctrl, waits, flags, thread, readout, fifo, hist>>

(* runStatus(): 1 while the scan runs; 2 and 0 mean that it does not, and 2 *)
(* is reported only once.                                                   *)
RunStatus ==
  /\ running'  = (running /\ ~finished)
  /\ finished' = FALSE
  /\ UNCHANGED cancel

Started ==
  /\ ctrl = "wait" /\ (running \/ finished)
  /\ RunStatus /\ ctrl' = "watch" /\ waits' = 0
  /\ UNCHANGED <<trouble, scan, kind, mode, abort, stopped, thread, readout, fifo, hist>>

(* "failed to start scan in time"                                           *)
NotStarted ==
  /\ ctrl = "wait" /\ pc = "off" /\ ~running /\ ~finished
  /\ ctrl' = "idle"
  /\ UNCHANGED <<trouble, scan, kind, mode, abort, waits, stopped, flags, thread,
                 readout, fifo, hist>>

(* stopScan() (slip: it looks at the wrong flag); a source scan keeps its   *)
(* data, so that its abort is forgotten.                                    *)
SlipStopScan == cancel' = (cancel \/ (abort /\ ~running))
StopScan     == cancel' = (cancel \/ (abort /\ ~finished))

(* A turn of the do-while loop, up to its condition.                        *)
Watch ==
  /\ ctrl = "watch" /\ StopScan
  /\ waits' = IF abort /\ waits < AbortWaits THEN waits + 1 ELSE waits
  /\ abort' = (abort /\ kind # "source") /\ ctrl' = "poll"
  /\ UNCHANGED <<trouble, scan, kind, mode, stopped, running, finished, thread, readout,
                 fifo, hist>>

Busy == running /\ ~finished

Poll ==
  /\ ctrl = "poll" /\ ~(Busy /\ waits = AbortWaits)
  /\ RunStatus
  /\ ctrl' = IF Busy THEN "watch" ELSE "collect"
  /\ UNCHANGED <<trouble, scan, kind, mode, abort, waits, stopped, thread, readout,
                 fifo, hist>>

(* "clean stop of scan after abort signal didn't succeed": AbortWaits turns *)
(* have gone by.  The code does not ask what the scan thread is at; if it   *)
(* is neither gone nor waits for a read-out thread that is gone, it is in a *)
(* loop that is longer than that.                                           *)
Hopeless == pc = "off" \/ (asked /\ change /\ pos = "gone")
GiveUp ==
  /\ ctrl = "poll" /\ Busy /\ waits = AbortWaits
  /\ "long" \in trouble \/ Hopeless
  /\ ctrl' = "collect"
  /\ UNCHANGED <<trouble, scan, kind, mode, abort, waits, stopped, flags, thread,
                 readout, fifo, hist>>

(* scanTerminate() has taken the histograms.                                *)
Collected ==
  /\ ctrl = "collect" /\ ctrl' = "idle"
  /\ UNCHANGED <<trouble, scan, kind, mode, abort, waits, stopped, flags, thread,
                 readout, fifo, hist>>

-----------------------------------------------------------------------------
(* The scan thread: startScan(), strobeScan(), sourceScan().                *)

Go(p) == pc' = p /\ UNCHANGED <<asked, loop, mask>>

(* strobeScan() catches exceptions, sourceScan() leaves them to             *)
(* ScanThread::run().                                                       *)
Throw == Go(IF mode = "strobe" THEN "flush" ELSE "destroy")

(* writeScanConfig(), a new Scan.                                           *)
StartScan ==
  /\ pc = "start"
  /\ pc' = (IF mode = "strobe" THEN "begin" ELSE "init") /\ UNCHANGED asked
  /\ loop' = 0 /\ mask' = 0 /\ hist' = NoHists
  /\ UNCHANGED <<control, flags, readout, fifo>>

StartFails ==
  /\ pc = "start" /\ "send fails" \in trouble /\ Go("off")
  /\ UNCHANGED <<control, flags, readout, fifo, hist>>

(* initLoop()                                                               *)
InitLoop ==
  /\ pc = "init"
  /\ pc' = (IF mode = "strobe" THEN "run" ELSE "begin")
  /\ loop' = loop + 1 /\ mask' = 0 /\ UNCHANGED asked
  /\ UNCHANGED <<control, flags, readout, fifo, hist>>

(* The Readout is made, and what is in the FIFO read and forgotten.         *)
Begin ==
  /\ pc = "begin"
  /\ running' = TRUE /\ finished' = FALSE
  /\ state' = "PAUSE" /\ change' = FALSE /\ pos' = "top" /\ current' = "PAUSE"
  /\ \/ Go(IF mode = "strobe" THEN "init" ELSE "run") /\ fifo' = {}
     \/ "read fails" \in trouble /\ Go("destroy") /\ fifo' = fifo
  /\ UNCHANGED <<control, cancel, batch, hist>>

(* Commands are sent: configuration, then mask by mask; the trigger of a    *)
(* source scan.                                                             *)
SendFails ==
  /\ "send fails" \in trouble
  /\ pc \in {"loop", "count"} \/ (pc = "run" /\ mode = "strobe" /\ ~asked)
  /\ Throw
  /\ UNCHANGED <<control, flags, readout, fifo, hist>>

MaskStep ==
  /\ pc = "loop"
  /\ IF mask < MaskSteps
     THEN /\ mask' = mask + 1 /\ fifo' = fifo \cup {<<loop, mask + 1>>}
          /\ UNCHANGED <<pc, asked, loop>>
     ELSE Go("sleep") /\ fifo' = fifo
  /\ UNCHANGED <<control, flags, readout, hist>>

(* 100 ms, many turns of the read-out thread (slip: no sleep).              *)
SlipNoSleep == TRUE
AllRead     == fifo = {} \/ pos = "gone" \/ "slow" \in trouble

Slept ==
  /\ pc = "sleep" /\ AllRead
  /\ Go("pause")
  /\ UNCHANGED <<control, flags, readout, fifo, hist>>

(* (slips: one loop too many, one too few)                                  *)
SlipOneMore == loop > Loops
SlipOneLess == loop + 1 >= Loops
LastLoop    == loop = Loops

NextLoop ==
  /\ pc = "next"
  /\ cancel' = FALSE
  /\ Go(IF cancel \/ LastLoop THEN "stop" ELSE "init")
  /\ UNCHANGED <<control, running, finished, readout, fifo, hist>>

(* The loop of sourceScan() over event_count and cancel_scan.               *)
Hits ==
  /\ pc = "count"
  /\ \E m \in 1..MaskSteps : fifo' = fifo \cup {<<loop, m>>}
  /\ UNCHANGED <<control, flags, thread, readout, hist>>

CountReached ==
  /\ pc = "count" /\ Go("stop")
  /\ UNCHANGED <<control, flags, readout, fifo, hist>>

CountCancelled ==
  /\ pc = "count" /\ cancel /\ cancel' = FALSE /\ Go("stop")
  /\ UNCHANGED <<control, running, finished, readout, fifo, hist>>

(* raw_writer.reset()                                                       *)
Flush ==
  /\ pc = "flush" /\ Go("finish")
  /\ UNCHANGED <<control, flags, readout, fifo, hist>>

Finish ==
  /\ pc = "finish" /\ finished' = TRUE /\ Go("destroy")
  /\ UNCHANGED <<control, running, cancel, readout, fifo, hist>>

(* ~Readout()                                                               *)
Destroy ==
  /\ pc = "destroy"
  /\ Go(IF state \in {"STOP", "ERROR"} THEN "join" ELSE "last")
  /\ UNCHANGED <<control, flags, readout, fifo, hist>>

Join ==
  /\ pc = "join" /\ pos = "gone" /\ Go("off")
  /\ UNCHANGED <<control, flags, readout, fifo, hist>>

(* setState(): what is asked for at each place, and where it goes on.       *)
Wanted == [run |-> "RUN", pause |-> "PAUSE", stop |-> "STOP", last |-> "STOP"]
After  == [run |-> IF mode = "strobe" THEN "loop" ELSE "count",
           pause |-> "next", stop |-> "flush", last |-> "join"]

Ask ==
  /\ pc \in DOMAIN Wanted /\ ~asked /\ state # "ERROR"
  /\ state' = Wanted[pc] /\ change' = TRUE
  /\ asked' = TRUE /\ UNCHANGED <<pc, loop, mask>>
  /\ UNCHANGED <<control, flags, pos, current, batch, fifo, hist>>

(* (slip: the request is taken as granted)                                  *)
SlipGranted  == asked
Acknowledged == asked /\ ~change

GoOn ==
  /\ Acknowledged
  /\ pc' = After[pc] /\ asked' = FALSE /\ UNCHANGED <<loop, mask>>
  /\ UNCHANGED <<control, flags, readout, fifo, hist>>

(* future.get(): in ~Readout() this is the end of the program.              *)
AskFails ==
  /\ pc \in DOMAIN Wanted /\ ~asked /\ state = "ERROR"
  /\ IF pc = "last" THEN Go("terminated") ELSE Throw
  /\ UNCHANGED <<control, flags, readout, fifo, hist>>

-----------------------------------------------------------------------------
(* The read-out thread.                                                     *)

Top ==
  /\ pos = "top"
  /\ IF change
     THEN /\ change' = FALSE /\ current' = state
          /\ pos' = IF state = "STOP" THEN "gone" ELSE "turn"
     ELSE pos' = "turn" /\ UNCHANGED <<change, current>>
  /\ UNCHANGED <<control, flags, thread, state, batch, fifo, hist>>

Turn ==
  /\ pos = "turn"
  /\ pos' = IF current = "RUN" THEN "read" ELSE "park"
  /\ UNCHANGED <<control, flags, thread, state, change, current, batch, fifo, hist>>

Wake ==
  /\ pos = "park" /\ change /\ pos' = "top"
  /\ UNCHANGED <<control, flags, thread, state, change, current, batch, fifo, hist>>

GetData ==
  /\ pos = "read"
  /\ batch' = fifo /\ fifo' = {} /\ pos' = "decode"
  /\ UNCHANGED <<control, flags, thread, state, change, current, hist>>

(* The data go to the histogrammers of the current loop.                    *)
Decode ==
  /\ pos = "decode"
  /\ hist' = IF loop = 0 THEN hist ELSE [hist EXCEPT ![loop] = @ \cup batch]
  /\ batch' = {} /\ pos' = "top"
  /\ UNCHANGED <<control, flags, thread, state, change, current, fifo>>

(* The exception is kept for the next setState(); one that waits already is *)
(* not told.                                                                *)
ReadFails ==
  /\ pos = "read" /\ "read fails" \in trouble
  /\ state' = "ERROR" /\ pos' = "gone"
  /\ UNCHANGED <<control, flags, thread, change, current, batch, fifo, hist>>

-----------------------------------------------------------------------------
Ctrl ==
  /\ pc # "terminated"
  /\ NewScan \/ NewScanIgnored \/ Started \/ NotStarted \/ Watch \/ Poll
     \/ GiveUp \/ Collected
Scan ==
  \/ StartScan \/ InitLoop \/ Begin \/ MaskStep \/ Slept \/ NextLoop
  \/ CountCancelled \/ Flush \/ Finish \/ Destroy \/ Join \/ Ask \/ GoOn \/ AskFails
Reader == Top \/ Turn \/ Wake \/ GetData \/ Decode

Next ==
  Ctrl \/ Abort \/ Scan \/ StartFails \/ SendFails \/ Hits \/ CountReached
  \/ Reader \/ ReadFails

Spec == Init /\ [][Next]_vars

(* Three threads that keep running.  Nothing is assumed of the triggers of  *)
(* a source scan.                                                           *)
FairSpec == Spec /\ WF_vars(Ctrl) /\ WF_vars(Scan) /\ WF_vars(Reader)

-----------------------------------------------------------------------------
(* Every variable keeps its type.                                           *)
TypeOK ==
  /\ trouble \in Troubles /\ scan \in 0..MaxScan
  /\ kind \in {"strobe", "source"} /\ mode \in {"strobe", "source"}
  /\ ctrl \in {"idle", "wait", "watch", "poll", "collect"}
  /\ abort \in BOOLEAN /\ stopped \in BOOLEAN /\ waits \in 0..AbortWaits
  /\ running \in BOOLEAN /\ finished \in BOOLEAN /\ cancel \in BOOLEAN
  /\ pc \in {"off", "start", "begin", "init", "run", "loop", "sleep", "pause",
             "next", "count", "stop", "flush", "finish", "destroy", "last",
             "join", "terminated"}
  /\ asked \in BOOLEAN /\ loop \in 0..Loops /\ mask \in 0..MaskSteps
  /\ state \in {"PAUSE", "RUN", "STOP", "ERROR"} /\ change \in BOOLEAN
  /\ pos \in {"none", "top", "turn", "read", "decode", "park", "gone"}
  /\ current \in {"PAUSE", "RUN", "STOP"}
  /\ batch \in SUBSET Data /\ fifo \in SUBSET Data
  /\ hist \in [1..Loops -> SUBSET Data]

(* The decoder and its histogrammers belong to one thread at a time.  The   *)
(* read-out thread does not touch them while initLoop() replaces them, nor  *)
(* after the scan thread has gone, whatever fails; nor while the raw file   *)
(* is closed, unless a command could not be sent; nor while the CtrlThread  *)
(* takes the histograms, unless a command could not be sent or the          *)
(* CtrlThread may have given up on an aborted scan whose loops are long.    *)
Working == pos \in {"read", "decode"} \/ (pos = "turn" /\ current = "RUN")
MayGiveUp == "long" \in trouble /\ stopped
HandsOff ==
  /\ pc \in {"init", "off"} => ~Working
  /\ "send fails" \notin trouble /\ pc = "flush" => ~Working
  /\ "send fails" \notin trouble /\ ~MayGiveUp /\ ctrl = "collect" => ~Working

(* If the scan thread's pause is long enough, the data of a loop never end  *)
(* up in the histograms of another one, whatever else fails.                *)
OwnLoop ==
  "slow" \notin trouble => \A l \in 1..Loops : hist[l] \subseteq AllOf(l)

(* A strobe scan in which nothing fails, that is collected with no stop     *)
(* ever asked for, has measured all loops, however long they are, and all   *)
(* of their data are in the histograms.                                     *)
Complete ==
  trouble \subseteq {"long"} /\ ~stopped /\ kind = "strobe" /\ ctrl = "collect" =>
    \A l \in 1..Loops : hist[l] = AllOf(l)

(* If nothing fails, a strobe scan comes to its end, and so does a source   *)
(* scan that is aborted.                                                    *)
ScanEnds ==
  trouble \subseteq {"slow", "long"} =>
    (ctrl # "idle" /\ (kind = "strobe" \/ abort) ~> ctrl = "idle")
=============================================================================
