---------------------------- MODULE ScanControl ----------------------------
(***************************************************************************)
(* A scan on the USBpix boards, from the run button to the end of it.      *)
(*                                                                         *)
(* Three kinds of threads take part and share plain members.               *)
(*   - The Qt main thread starts a CtrlThread per module group, polls      *)
(*     `processing' every 500 ms, and handles the status changes the       *)
(*     threads post.                                                       *)
(*   - The CtrlThread of a group goes through the loop steps of the scan.  *)
(*     For each it starts the ScanThread, waits until the controller says  *)
(*     that it is scanning, and polls it until it says that it is done.    *)
(*   - The ScanThread calls the controller's startScan(), which does not   *)
(*     return before the step is measured (a source scan: is started).     *)
(* Two of these threads call into the controller at once; the flags of     *)
(* USBPixController are all that keeps them apart.                         *)
(***************************************************************************)
EXTENDS Naturals, Sequences

CONSTANTS
  Groups,     (* the module groups, one controller each                     *)
  Steps,      (* loop steps of a scan with charge injection                 *)
  MaxScans,   (* bound: number of scans                                     *)
  MayFail,    (* groups whose hardware may fail                             *)
  Timely,     (* TRUE: the code's waiting times are long enough             *)
  QuickStop   (* TRUE: a source scan may be stopped while it is starting    *)

ASSUME ScanAssumption ==
  /\ Steps \in Nat \ {0}
  /\ MaxScans \in Nat
  /\ MayFail \subseteq Groups
  /\ {Timely, QuickStop} \subseteq BOOLEAN

VARIABLES
  shown,       (* the main thread: no scan, inside pixScan(), FinishScan()  *)
               (* polls                                                     *)
  toStart,     (* groups pixScan() has still to start                       *)
  source,      (* the scan is a source scan                                 *)
  scans,       (* number of scans so far                                    *)
  queue,       (* status changes posted to the main thread                  *)
  status,      (* m_rodStatus                                               *)
  processing, abort,
               (* processing, m_abortScan                                   *)
  ctrl, step,  (* where the CtrlThread is, and its loop index               *)
  thr,         (* where the ScanThread is                                   *)
  upc,         (* the flags of USBPixController and of the driver           *)
  taken,       (* history: steps of this scan that were measured completely *)
  written,     (* history: the histograms of this scan were saved           *)
  fault        (* history: groups in which something failed                 *)

mainVars == <<shown, toStart, source, scans>>
postVars == <<queue, status>>
ctrlVars == <<ctrl, step, written>>
scanVars == <<thr, upc, taken>>
vars == <<mainVars, postVars, processing, abort, ctrlVars, scanVars, fault>>

Status == {"ok", "busy", "scanning", "problem"}

(* busy: m_upcScanBusy with m_scanBusy or m_sourceScanBusy; init:          *)
(* m_upcScanInit; finished: m_upcStartScanHasFinished; done: m_scanDone or *)
(* m_sourceScanDone; ready, cancelled: the driver's m_scanReady and        *)
(* m_scanCancelled; measuring: the FPGA's measurement register.            *)
Flags == [busy : {"none", "scan", "source"}, init : BOOLEAN,
          finished : BOOLEAN, done : BOOLEAN, ready : BOOLEAN,
          cancelled : BOOLEAN, measuring : BOOLEAN]

TypeOK ==
  /\ shown \in {"idle", "starting", "scanning"}
  /\ toStart \subseteq Groups
  /\ source \in BOOLEAN
  /\ scans \in 0 .. MaxScans
  /\ queue \in Seq(Groups \X Status)
  /\ status \in [Groups -> Status]
  /\ processing \in [Groups -> BOOLEAN]
  /\ abort \in [Groups -> BOOLEAN]
  /\ ctrl \in [Groups -> {"idle", "begin", "init", "loop", "await", "poll",
                          "check", "settle"}]
  /\ step \in [Groups -> 0 .. Steps]
  /\ thr \in [Groups -> {"idle", "exec", "prepare", "measure", "tail"}]
  /\ upc \in [Groups -> Flags]
  /\ taken \in [Groups -> Nat]
  /\ written \in [Groups -> BOOLEAN]
  /\ fault \subseteq Groups

(* A source scan is one step: its loop 0 is not active.                    *)
LastStep == IF source THEN 1 ELSE Steps

post(g, s) == queue' = Append(queue, <<g, s>>)
failed(g) == fault' = fault \cup {g}

(* Bound: the hardware of a group fails once; what follows from it is free.*)
mayFail(g) == g \in MayFail \ fault

pending(g) == \E i \in DOMAIN queue : queue[i][1] = g

(* The main thread is held up in ThreadExecute() by a running CtrlThread.  *)
mainWaits ==
  shown = "starting" /\ \E g \in toStart : status[g] # "busy" /\ ctrl[g] # "idle"

Init ==
  /\ shown = "idle" /\ toStart = {} /\ source = FALSE /\ scans = 0
  /\ queue = <<>> /\ status = [g \in Groups |-> "ok"]
  /\ processing = [g \in Groups |-> FALSE]
  /\ abort = [g \in Groups |-> FALSE]
  /\ ctrl = [g \in Groups |-> "idle"] /\ step = [g \in Groups |-> 0]
  /\ thr = [g \in Groups |-> "idle"]
  /\ upc = [g \in Groups |-> [busy |-> "none", init |-> FALSE,
              finished |-> FALSE, done |-> FALSE, ready |-> FALSE,
              cancelled |-> FALSE, measuring |-> FALSE]]
  /\ taken = [g \in Groups |-> 0]
  /\ written = [g \in Groups |-> FALSE]
  /\ fault = {}

-----------------------------------------------------------------------------
(* The main thread.                                                        *)

(* pixScan(), which the panel and the primitive list call only when the    *)
(* last scan has been reported as finished.                                *)
PixScan(src) ==
  /\ shown = "idle" /\ scans < MaxScans
  /\ shown' = "starting" /\ toStart' = Groups
  /\ source' = src /\ scans' = scans + 1
  /\ UNCHANGED <<postVars, processing, abort, ctrlVars, scanVars, fault>>

(* STRodCrate::scan() and ThreadExecute(MTscan) for one group: a busy one  *)
(* is skipped, and a CtrlThread that still runs is waited for by the main  *)
(* thread itself.  The last one switches the polling on.                   *)
StartGroup(g) ==
  LET begins == status[g] # "busy" IN
  /\ shown = "starting" /\ g \in toStart
  /\ begins => ctrl[g] = "idle"
  /\ toStart' = toStart \ {g}
  /\ shown' = IF toStart = {g} THEN "scanning" ELSE "starting"
  /\ abort' = [abort EXCEPT ![g] = ~ begins /\ @]
  /\ ctrl' = [ctrl EXCEPT ![g] = IF begins THEN "begin" ELSE @]
  /\ taken' = [taken EXCEPT ![g] = IF begins THEN 0 ELSE @]
  /\ written' = [written EXCEPT ![g] = FALSE]
  /\ UNCHANGED <<source, scans, postVars, processing, step, thr, upc, fault>>

HandleEvent ==
  /\ shown # "starting" /\ queue # <<>>
  /\ status' = [status EXCEPT ![Head(queue)[1]] = Head(queue)[2]]
  /\ queue' = Tail(queue)
  /\ UNCHANGED <<mainVars, processing, abort, ctrlVars, scanVars, fault>>

(* stopPixScan(): by the user or when the time limit of the scan is over.  *)
StopPixScan ==
  /\ shown = "scanning"
  /\ \A g \in Groups :
       ~ QuickStop /\ source => thr[g] \notin {"exec", "prepare"}
  /\ abort' = [g \in Groups |-> TRUE]
  /\ UNCHANGED <<mainVars, postVars, processing, ctrlVars, scanVars, fault>>

(* Slip: the first group that is through ends the polling.                 *)
SlipFirst == \A g \in Groups : processing[g]

RodProcessing == \E g \in Groups : processing[g]

(* FinishScan() when no group is processing.  Its processEvents() calls    *)
(* leave nothing in the queue.  The timer waits 500 ms, in which a         *)
(* CtrlThread gets to its first statement if the system is timely.         *)
FinishScan ==
  /\ shown = "scanning" /\ queue = <<>>
  /\ Timely => \A g \in Groups : ctrl[g] # "begin"
  /\ ~ RodProcessing
  /\ shown' = "idle"
  /\ UNCHANGED <<toStart, source, scans, postVars, processing, abort,
                 ctrlVars, scanVars, fault>>

(* initRods(): the user initialises a controller again, the main thread    *)
(* waits until it is done and handles what it posts.                       *)
InitRods(g) ==
  /\ shown = "idle" /\ queue = <<>>
  /\ status[g] # "busy" /\ ctrl[g] = "idle"
  /\ processing' = [processing EXCEPT ![g] = FALSE]
  /\ \/ status' = [status EXCEPT ![g] = "ok"] /\ UNCHANGED fault
     \/ mayFail(g) /\ status' = [status EXCEPT ![g] = "problem"] /\ failed(g)
  /\ UNCHANGED <<mainVars, queue, abort, ctrlVars, scanVars>>

-----------------------------------------------------------------------------
(* The controller, as the CtrlThread sees it.                              *)

(* nTrigger() makes done of what the driver and the FPGA say, unless       *)
(* startScan() is still preparing the step.                                *)
nTrigger(u) ==
  [u EXCEPT !.done =
     \/ u.done
     \/ ~ u.init /\ u.busy = "scan" /\ u.ready /\ u.finished
     \/ ~ u.init /\ u.busy = "source" /\ ~ u.measuring]

(* The data of a source scan is read when nTrigger() finds it stopped.     *)
readsOut(u) == ~ u.init /\ u.busy = "source" /\ ~ u.measuring /\ ~ u.done

(* The measurement register is cleared, by the code or by the FPGA.         *)
endSource(u) == [u EXCEPT !.measuring = FALSE]

(* Slip: a source scan is not stopped.                                     *)
SlipNormalOnly(u) == IF u.busy = "scan" THEN [u EXCEPT !.cancelled = TRUE] ELSE u

stopScan(u) ==
  CASE u.busy = "scan"   -> [u EXCEPT !.cancelled = TRUE]
    [] u.busy = "source" -> endSource(u)
    [] OTHER             -> u

runStatus(u) ==
  CASE u.busy = "none"          -> 0
    [] u.busy # "none" /\ ~ u.done -> 1
    [] OTHER                    -> IF u.busy = "scan" THEN 2 ELSE 0

(* Slip: the busy flags stay up.                                           *)
SlipStaysBusy(u) == [u EXCEPT !.done = FALSE]

(* Asking for the status of a run that is done ends it.                    *)
afterStatus(u) ==
  IF u.done THEN [u EXCEPT !.busy = "none", !.done = FALSE] ELSE u

-----------------------------------------------------------------------------
(* The CtrlThread: scan().                                                 *)

Begin(g) ==
  /\ ctrl[g] = "begin"
  /\ processing' = [processing EXCEPT ![g] = TRUE]
  /\ ctrl' = [ctrl EXCEPT ![g] = "init"]
  /\ UNCHANGED <<mainVars, postVars, abort, step, written, scanVars, fault>>

(* scan() returns when no module of the group is enabled, and when the     *)
(* controller is not in order; then it leaves `processing' as it is.       *)
InitScan(g) ==
  /\ ctrl[g] = "init"
  /\ \/ /\ status[g] = "ok"
        /\ post(g, "busy")
        /\ ctrl' = [ctrl EXCEPT ![g] = "loop"]
        /\ step' = [step EXCEPT ![g] = 0]
        /\ UNCHANGED processing
     \/ /\ ctrl' = [ctrl EXCEPT ![g] = "idle"]
        /\ processing' = [processing EXCEPT ![g] = FALSE]
        /\ UNCHANGED <<queue, step>>
     \/ /\ status[g] # "ok"
        /\ ctrl' = [ctrl EXCEPT ![g] = "idle"]
        /\ UNCHANGED <<queue, step, processing>>
  /\ UNCHANGED <<mainVars, status, abort, written, scanVars, fault>>

(* Slip: <= for <.                                                          *)
SlipOneMore(g) == step[g] <= LastStep

moreSteps(g) == step[g] < LastStep

(* start() does nothing while the ScanThread still runs.                   *)
StartStep(g) ==
  /\ ctrl[g] = "loop" /\ ~ abort[g] /\ moreSteps(g)
  /\ thr' = IF thr[g] = "idle" THEN [thr EXCEPT ![g] = "exec"] ELSE thr
  /\ ctrl' = [ctrl EXCEPT ![g] = "await"]
  /\ UNCHANGED <<mainVars, postVars, processing, abort, step, written, upc,
                 taken, fault>>

(* The wait for a controller that is scanning, until the time limit.       *)
Await(g) ==
  /\ ctrl[g] = "await"
  /\ upc' = [upc EXCEPT ![g] = afterStatus(@)]
  /\ \/ /\ runStatus(upc[g]) # 0
        /\ post(g, "scanning")
        /\ ctrl' = [ctrl EXCEPT ![g] = "poll"]
        /\ UNCHANGED <<processing, fault>>
     \/ /\ runStatus(upc[g]) = 0 /\ g \in MayFail
        /\ post(g, "ok")
        /\ ctrl' = [ctrl EXCEPT ![g] = "idle"]
        /\ processing' = [processing EXCEPT ![g] = FALSE]
        /\ failed(g)
  /\ UNCHANGED <<mainVars, status, abort, step, written, thr, taken>>

(* A turn of the do-while loop, until nTrigger() returns.                  *)
Poll(g) ==
  /\ ctrl[g] = "poll"
  /\ upc' = [upc EXCEPT ![g] = nTrigger(@)]
  /\ taken' = [taken EXCEPT ![g] = IF readsOut(upc[g]) THEN @ + 1 ELSE @]
  /\ ctrl' = [ctrl EXCEPT ![g] = "check"]
  /\ UNCHANGED <<mainVars, postVars, processing, abort, step, written, thr,
                 fault>>

(* The rest of the turn: the scan is stopped again in every turn, except a *)
(* source scan, which goes on to store what it has; the loop is left when  *)
(* the run is over, or by force after 100 turns with the abort flag up.    *)
Check(g) ==
  LET u == IF abort[g] THEN stopScan(upc[g]) ELSE upc[g] IN
  /\ ctrl[g] = "check"
  /\ upc' = [upc EXCEPT ![g] = afterStatus(u)]
  /\ abort' = [abort EXCEPT ![g] = @ /\ ~ source]
  /\ \/ /\ ctrl' = [ctrl EXCEPT ![g] = IF runStatus(u) = 1 THEN "poll" ELSE "settle"]
        /\ UNCHANGED <<queue, fault>>
     \/ /\ runStatus(u) = 1 /\ abort[g] /\ ~ source /\ g \in MayFail
        /\ ctrl' = [ctrl EXCEPT ![g] = "settle"]
        /\ post(g, "problem") /\ failed(g)
  /\ UNCHANGED <<mainVars, status, processing, step, written, thr, taken>>

(* After 500 ms, in which startScan() returns if the system is timely, the *)
(* histograms are taken over and the loop goes to the next step.           *)
Settle(g) ==
  /\ ctrl[g] = "settle"
  /\ Timely => thr[g] # "tail"
  /\ ctrl' = [ctrl EXCEPT ![g] = "loop"]
  /\ step' = [step EXCEPT ![g] = @ + 1]
  /\ UNCHANGED <<mainVars, postVars, processing, abort, written, scanVars, fault>>

(* Slip: a stopped scan keeps its status.                                  *)
SlipKeepsStatus(g) == status[g] # "ok" /\ ~ abort[g]

(* The status is put back to ok when it is seen to be something else, and  *)
(* once more for a scan that was stopped.                                  *)
putBack(g) == status[g] # "ok" \/ abort[g]

(* Slip: a stopped scan is saved as well.                                  *)
SlipSaves(g) == TRUE

saves(g) == ~ abort[g]

(* Slip: the end is left to the catch blocks.                              *)
SlipProcessing(g) == processing' = processing

endProcessing(g) == processing' = [processing EXCEPT ![g] = FALSE]

(* The end of the loops.  The sleeps of each step gave the main thread the *)
(* time to handle what was posted before, if the system is timely and the  *)
(* main thread is not kept in ThreadExecute(); a scan that was stopped may *)
(* have had no step.                                                       *)
EndScan(g) ==
  /\ ctrl[g] = "loop" /\ (abort[g] \/ ~ moreSteps(g))
  /\ Timely => abort[g] \/ ~ pending(g) \/ mainWaits
  /\ IF putBack(g) THEN post(g, "ok") ELSE UNCHANGED queue
  /\ written' = [written EXCEPT ![g] = saves(g)]
  /\ endProcessing(g)
  /\ ctrl' = [ctrl EXCEPT ![g] = "idle"]
  /\ UNCHANGED <<mainVars, status, abort, step, scanVars, fault>>

(* An exception in scan(), whichever statement throws it.                  *)
CtrlThrows(g) ==
  /\ mayFail(g) /\ ctrl[g] \notin {"idle", "begin"}
  /\ post(g, "problem") /\ failed(g)
  /\ processing' = [processing EXCEPT ![g] = FALSE]
  /\ ctrl' = [ctrl EXCEPT ![g] = "idle"]
  /\ UNCHANGED <<mainVars, status, abort, step, written, scanVars>>

-----------------------------------------------------------------------------
(* The ScanThread: run(), scanExecute() and startScan().                   *)

(* The catch blocks of run(): the CtrlThread goes on.                      *)
caught(g, s) ==
  /\ post(g, s) /\ failed(g)
  /\ processing' = [processing EXCEPT ![g] = FALSE]
  /\ thr' = [thr EXCEPT ![g] = "idle"]

claim(u) == [u EXCEPT !.busy = IF source THEN "source" ELSE "scan", !.init = TRUE]

(* scanExecute() configures the modules and calls startScan(), which       *)
(* refuses while an earlier run is not over and else raises its flags.     *)
ScanExecute(g) ==
  /\ thr[g] = "exec"
  /\ \/ /\ upc[g].busy # "none"
        /\ caught(g, "problem")
        /\ UNCHANGED upc
     \/ /\ upc[g].busy = "none"
        /\ upc' = [upc EXCEPT ![g] = claim(@)]
        /\ thr' = [thr EXCEPT ![g] = "prepare"]
        /\ UNCHANGED <<queue, processing, fault>>
  /\ UNCHANGED <<mainVars, status, abort, ctrlVars, taken>>

(* Slip: the driver's status is left as it was.                            *)
SlipNoReset(u) == [u EXCEPT !.init = FALSE]

(* Before the driver's loops may be looked at, its status is reset.        *)
resetStatus(u) == [u EXCEPT !.ready = FALSE, !.cancelled = FALSE, !.init = FALSE]

startSource(u) == [u EXCEPT !.measuring = TRUE, !.init = FALSE, !.finished = TRUE]

(* The configuration is written; then a source scan is started, and        *)
(* startScan() returns, or the driver's status is reset and its loops      *)
(* begin.                                                                  *)
PrepareScan(g) ==
  /\ thr[g] = "prepare"
  /\ IF source
       THEN /\ upc' = [upc EXCEPT ![g] = startSource(@)]
            /\ thr' = [thr EXCEPT ![g] = "idle"]
       ELSE /\ upc' = [upc EXCEPT ![g] = resetStatus(@)]
            /\ thr' = [thr EXCEPT ![g] = "measure"]
  /\ UNCHANGED <<mainVars, postVars, processing, abort, ctrlVars, taken, fault>>

setReady(u) == [u EXCEPT !.ready = TRUE]

(* The driver's StartScan() leaves its loops: all is measured, it was      *)
(* cancelled, or it met an error.                                          *)
StartScan(g) ==
  /\ thr[g] = "measure"
  /\ upc' = [upc EXCEPT ![g] = setReady(@)]
  /\ thr' = [thr EXCEPT ![g] = "tail"]
  /\ \/ /\ taken' = [taken EXCEPT ![g] = IF upc[g].cancelled THEN @ ELSE @ + 1]
        /\ UNCHANGED fault
     \/ /\ mayFail(g) /\ failed(g)
        /\ UNCHANGED taken
  /\ UNCHANGED <<mainVars, postVars, processing, abort, ctrlVars>>

finish(u) == [u EXCEPT !.init = FALSE, !.finished = TRUE]

FinishStart(g) ==
  /\ thr[g] = "tail"
  /\ upc' = [upc EXCEPT ![g] = finish(@)]
  /\ thr' = [thr EXCEPT ![g] = "idle"]
  /\ UNCHANGED <<mainVars, postVars, processing, abort, ctrlVars, taken, fault>>

(* An exception in scanExecute().                                          *)
ScanThrows(g) ==
  /\ mayFail(g) /\ thr[g] # "idle"
  /\ \E s \in {"ok", "problem"} : caught(g, s)
  /\ UNCHANGED <<mainVars, status, abort, ctrlVars, upc, taken>>

(* A source scan may come to its end by its time or event limit.           *)
LimitReached(g) ==
  /\ upc[g].busy = "source" /\ upc[g].measuring
  /\ upc' = [upc EXCEPT ![g] = endSource(@)]
  /\ UNCHANGED <<mainVars, postVars, processing, abort, ctrlVars, thr, taken,
                 fault>>

-----------------------------------------------------------------------------
CtrlThread(g) ==
  \/ Begin(g) \/ InitScan(g) \/ StartStep(g) \/ Await(g) \/ Poll(g)
  \/ Check(g) \/ Settle(g) \/ EndScan(g)

ScanThread(g) ==
  \/ ScanExecute(g) \/ PrepareScan(g) \/ StartScan(g) \/ FinishStart(g)

Next ==
  \/ \E src \in BOOLEAN : PixScan(src)
  \/ HandleEvent \/ StopPixScan \/ FinishScan
  \/ \E g \in Groups :
       \/ StartGroup(g) \/ InitRods(g)
       \/ CtrlThread(g) \/ CtrlThrows(g)
       \/ ScanThread(g) \/ ScanThrows(g) \/ LimitReached(g)

(* Threads are scheduled and the main thread comes back to its event loop; *)
(* nobody has to stop a scan, and nothing has to fail.                     *)
Fairness ==
  /\ WF_vars(HandleEvent) /\ WF_vars(FinishScan)
  /\ \A g \in Groups :
       WF_vars(StartGroup(g)) /\ WF_vars(CtrlThread(g)) /\ WF_vars(ScanThread(g))

Spec == Init /\ [][Next]_vars /\ Fairness

-----------------------------------------------------------------------------
(* The end of a scan is reported when all threads of every group that did  *)
(* not fail are done with it: nothing writes into histograms the user      *)
(* already looks at, and the next start need not wait for a thread.        *)
EndIsTrue ==
  [][shown = "scanning" /\ shown' = "idle" =>
       \A g \in Groups \ fault : ctrl[g] = "idle" /\ thr[g] = "idle"]_vars

(* A step's histograms are taken over when exactly this step and those     *)
(* before it have been measured, unless the group failed or the scan was   *)
(* stopped: nothing old is taken for the new step.                         *)
StepIsMeasured ==
  \A g \in Groups \ fault :
    ctrl[g] = "settle" /\ ~ abort[g] => taken[g] = step[g] + 1

(* What is saved of a group that did not fail is a complete scan.          *)
SavedIsComplete ==
  shown # "starting" =>
    \A g \in Groups \ fault : written[g] => taken[g] = LastStep

(* The controller of a group that did not fail is free whenever the        *)
(* CtrlThread asks for the next step, so that startScan() is not refused:  *)
(* the failure of another group does not spread.                           *)
ControllerFree ==
  \A g \in Groups \ fault :
    ctrl[g] \in {"idle", "begin", "init", "loop"} \/ thr[g] = "exec"
      => upc[g].busy = "none" /\ ~ upc[g].done

(* Until something fails, every group is ready for the next scan as soon   *)
(* as the end of one is reported, whatever was stopped and when.  (After a *)
(* failure the main thread may hang in ThreadExecute(), and the other      *)
(* groups miss the moment to put their status back.)                       *)
StatusRestored ==
  shown = "idle" /\ queue = <<>> /\ fault = {} =>
    \A g \in Groups : status[g] = "ok"

(* A scan with charge injection ends by itself.                            *)
ScanEnds ==
  (shown # "idle" /\ ~ source) ~> (shown = "idle" \/ fault # {})

(* A stop ends a scan of either kind.                                      *)
StopEnds ==
  (shown = "scanning" /\ \A g \in Groups : abort[g])
    ~> (shown = "idle" \/ fault # {})
=============================================================================
