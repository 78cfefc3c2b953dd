------------------------------ MODULE EudaqRun ------------------------------
(***************************************************************************)
(* A run of the EUDAQ producer, from the configuration to the end-of-run   *)
(* event.                                                                  *)
(*                                                                         *)
(* The run-control thread executes OnConfigure(), OnStartRun() and         *)
(* OnStopRun().  It hands its work to the Qt main thread by posting events *)
(* and waits for the outcome by polling plain members of the producer.     *)
(* The main thread handles one event after the other, but pixScan(),       *)
(* FinishScan() and initControlerTS() call processEvents(), which handles  *)
(* everything that is queued in the middle of them: the main thread is a   *)
(* stack of unfinished handlers.  The scan itself (the CtrlThreads of all  *)
(* boards, see TestbeamReadout) appears as one actor that posts data.      *)
(***************************************************************************)
EXTENDS Naturals, Sequences

CONSTANTS
  MaxConfig,   (* bound: number of configurations                           *)
  MaxRun,      (* bound: number of runs                                     *)
  MaxPost      (* bound: data events a scan posts before its last read-out  *)

ASSUME RunBoundAssumption ==
  MaxConfig \in Nat /\ MaxRun \in Nat /\ MaxPost \in Nat

VARIABLES
  calm,           (* constant in a behaviour.  If TRUE: the run-control     *)
                  (* thread gets to its next statement while the main       *)
                  (* thread does work that takes seconds; a stop comes when *)
                  (* the start has been handled; OnStopRun() does not give  *)
                  (* up (120 s); scans do not end by errors of their own;   *)
                  (* no configuration asks to skip the initialisation       *)
  rc,             (* where the run-control thread is                        *)
  configs,        (* number of configurations so far                        *)
  status,         (* what the producer reports to run control               *)
  run,            (* m_run                                                  *)
  configuration,  (* 0: busy/unconfigured, 1: success, 2: error             *)
  scanning, runFinished, allReceived,
                  (* scanning, run_finished, all_events_recieved            *)
  pendingRunning, (* data_pending_running                                   *)
  held,           (* EventData holds data that has not been sent            *)
  queue,          (* events posted to the main thread                       *)
  stack,          (* the main thread's unfinished handlers, innermost first *)
  configured,     (* STEUDAQ::configured                                    *)
  initTimer,      (* initControler2() is due                                *)
  scanTimer,      (* m_scanTimer2 polls FinishScan()                        *)
  button,         (* the text of the scan panel's run button                *)
  scan, abort,    (* the CtrlThread, and its m_abortScan                    *)
  posted,         (* data events this scan has posted                       *)
  gaveUp,         (* history: OnStopRun() gave up waiting once              *)
  sent            (* history: what was sent to the data collector           *)

rcVars       == <<calm, rc, configs, status, run, gaveUp>>
handshakes   == <<configuration, scanning, runFinished>>
dataVars     == <<allReceived, pendingRunning, held, sent>>
engineVars   == <<configured, initTimer, scanTimer, button>>
threadVars   == <<scan, abort, posted>>
vars == <<rcVars, handshakes, dataVars, queue, stack, engineVars, threadVars>>

Events == {"init", "start", "stop", "data"}
Frames == {"init", "pixScan", "post-scan", "finished", "sleep", "data"}

TypeOK ==
  /\ rc \in {"idle", "postInit", "clear", "waitInit", "prepare", "running",
             "postStop", "reset", "waitStop", "rest", "eore"}
  /\ configs \in 0..MaxConfig /\ run \in 0..MaxRun /\ posted \in 0..MaxPost
  /\ status \in {"unconfigured", "ok", "error"}
  /\ configuration \in 0..2 /\ configured \in 0..2
  /\ calm \in BOOLEAN /\ gaveUp \in BOOLEAN
  /\ scanning \in BOOLEAN /\ runFinished \in BOOLEAN
  /\ allReceived \in BOOLEAN /\ pendingRunning \in BOOLEAN /\ held \in BOOLEAN
  /\ initTimer \in BOOLEAN /\ scanTimer \in BOOLEAN /\ abort \in BOOLEAN
  /\ queue \in Seq(Events) /\ stack \in Seq(Frames)
  /\ button \in {"StartScan", "TBMode"}
  /\ scan \in {"idle", "running"}
  /\ sent \in Seq([kind : {"BORE", "data", "EORE"}, run : 0..MaxRun])

(* run_finished and data_pending_running have no initial value; the first   *)
(* is read after OnStopRun() has set it, the second after OnStartRun() has. *)
Init ==
  /\ calm \in BOOLEAN
  /\ rc = "idle" /\ configs = 0 /\ status = "unconfigured"
  /\ run = 0 /\ gaveUp = FALSE
  /\ configuration = 0 /\ configured = 0
  /\ scanning = FALSE
  /\ runFinished \in BOOLEAN /\ pendingRunning \in BOOLEAN /\ allReceived = FALSE
  /\ held = FALSE /\ sent = <<>>
  /\ queue = <<>> /\ stack = <<>>
  /\ initTimer = FALSE /\ scanTimer = FALSE /\ button = "StartScan"
  /\ scan = "idle" /\ abort = FALSE /\ posted = 0

Step(from, to) ==
  rc = from /\ rc' = to /\ UNCHANGED <<calm, configs, status, run, gaveUp>>
Post(event)    == queue' = Append(queue, event)
Send(kinds)    ==
  sent' = sent \o [i \in 1..Len(kinds) |-> [kind |-> kinds[i], run |-> run]]

Top == IF stack = <<>> THEN "loop" ELSE Head(stack)
Push(frame) == stack' = <<frame>> \o stack
Pop == stack' = Tail(stack)

-----------------------------------------------------------------------------
(* The run-control thread.                                                  *)

(* OnConfigure() returns at once when the configuration is invalid or the   *)
(* initialisation is to be skipped.                                         *)
OnConfigureOnly ==
  /\ rc = "idle" /\ configs < MaxConfig
  /\ configs' = configs + 1
  /\ configuration' = 0
  /\ status' \in {"error"} \cup (IF calm THEN {} ELSE {"ok"})
  /\ UNCHANGED <<calm, rc, run, gaveUp, scanning, runFinished, dataVars, queue, stack,
                 engineVars, threadVars>>

(* OnConfigure(): reset the answer, ask for the initialisation, ...         *)
OnConfigure ==
  /\ rc = "idle" /\ configs < MaxConfig
  /\ rc' = "postInit"
  /\ configs' = configs + 1
  /\ configuration' = 0
  /\ UNCHANGED <<calm, status, run, gaveUp, scanning, runFinished, dataVars, queue, stack,
                 engineVars, threadVars>>

PostInit ==
  /\ Step("postInit", "clear")
  /\ Post("init")
  /\ UNCHANGED <<handshakes, dataVars, stack, engineVars, threadVars>>

(* ... reset the answer once more and wait until it is there.               *)
ClearAnswer ==
  /\ Step("clear", "waitInit")
  /\ configuration' = 0
  /\ UNCHANGED <<scanning, runFinished, dataVars, queue, stack, engineVars,
                 threadVars>>

(* The status that run control is told (slip: an error leaves it busy).     *)
SlipStaysBusy == IF configuration = 1 THEN "ok" ELSE "busy"
Answer == IF configuration = 1 THEN "ok" ELSE "error"

Configured ==
  /\ rc = "waitInit" /\ configuration # 0
  /\ rc' = "idle"
  /\ status' = Answer
  /\ UNCHANGED <<calm, configs, run, gaveUp, handshakes, dataVars, queue, stack, engineVars,
                 threadVars>>

(* OnStartRun(): take the run number, wait three seconds, drop what the     *)
(* last run left behind and post the start (slip: scanning is not set).     *)
OnStartRun ==
  /\ rc = "idle" /\ status = "ok" /\ run < MaxRun
  /\ rc' = "prepare"
  /\ run' = run + 1
  /\ pendingRunning' = FALSE
  /\ UNCHANGED <<calm, configs, status, gaveUp, handshakes, allReceived, held, sent, queue,
                 stack, engineVars, threadVars>>

SlipNotScanning == held' = FALSE /\ Post("start") /\ UNCHANGED scanning
BeginRun        == held' = FALSE /\ Post("start") /\ scanning' = TRUE

PostStart ==
  /\ Step("prepare", "running")
  /\ BeginRun
  /\ UNCHANGED <<configuration, runFinished, allReceived, pendingRunning, sent,
                 stack, engineVars, threadVars>>

StartPending ==
  \/ \E i \in 1..Len(queue) : queue[i] = "start"
  \/ \E i \in 1..Len(stack) : stack[i] = "pixScan"

(* OnStopRun(): no more BORE, post the stop, and only then forget that an   *)
(* earlier scan has finished.                                               *)
OnStopRun ==
  /\ calm => ~StartPending
  /\ Step("running", "postStop")
  /\ scanning' = FALSE
  /\ UNCHANGED <<configuration, runFinished, dataVars, queue, stack,
                 engineVars, threadVars>>

PostStop ==
  /\ Step("postStop", "reset")
  /\ Post("stop")
  /\ UNCHANGED <<handshakes, dataVars, stack, engineVars, threadVars>>

ResetFinished ==
  /\ Step("reset", "waitStop")
  /\ runFinished' = FALSE
  /\ UNCHANGED <<configuration, scanning, dataVars, queue, stack, engineVars,
                 threadVars>>

(* The condition of the waiting loop (slip: only the data is asked for).    *)
SlipAllReceived == ~pendingRunning /\ allReceived
RunIsOver == runFinished /\ ~pendingRunning /\ allReceived

(* Wait for the end of the run, or give up.                                 *)
StopWait ==
  /\ rc = "waitStop" /\ rc' = "rest"
  /\ \/ RunIsOver /\ UNCHANGED gaveUp
     \/ ~RunIsOver /\ ~calm /\ gaveUp' = TRUE
  /\ UNCHANGED <<calm, configs, status, run>>
  /\ UNCHANGED <<handshakes, dataVars, queue, stack, engineVars, threadVars>>

(* Send what the boards delivered although their trigger numbers differ.    *)
SendRest ==
  /\ Step("rest", "eore")
  /\ IF ~allReceived /\ held
     THEN held' = FALSE /\ Send(<<"data">>)
     ELSE UNCHANGED <<held, sent>>
  /\ UNCHANGED <<handshakes, allReceived, pendingRunning, queue, stack,
                 engineVars, threadVars>>

SendEore ==
  /\ Step("eore", "idle")
  /\ Send(<<"EORE">>)
  /\ UNCHANGED <<handshakes, allReceived, pendingRunning, held, queue, stack,
                 engineVars, threadVars>>

RunControl ==
  \/ OnConfigureOnly \/ OnConfigure \/ PostInit \/ ClearAnswer \/ Configured
  \/ OnStartRun \/ PostStart
  \/ OnStopRun \/ PostStop \/ ResetFinished \/ StopWait \/ SendRest \/ SendEore

-----------------------------------------------------------------------------
(* The Qt main thread.  It takes the next event in its own loop and in the  *)
(* handlers that call processEvents(), and such a handler goes on when the  *)
(* queue is empty.                                                          *)
TakesEvents == Top \in {"loop", "init", "pixScan", "post-scan", "finished"}
NextIs(event) == TakesEvents /\ queue # <<>> /\ Head(queue) = event
Flushed(frame) == Top = frame /\ queue = <<>>

(* initControlerTS(): load the configuration, ...                           *)
InitControler ==
  /\ NextIs("init") /\ (calm => rc = "waitInit")
  /\ queue' = Tail(queue)
  /\ Push("init")
  /\ UNCHANGED <<rcVars, handshakes, dataVars, engineVars, threadVars>>

(* ... initialise the boards: none is left, which is answered at once       *)
(* (slip: it is not), or it goes on in a second.                            *)
SlipNoAnswer == configured' = 2 /\ UNCHANGED <<configuration, initTimer>>
InitFailed   == configured' = 2 /\ configuration' = 2 /\ UNCHANGED initTimer

InitRods ==
  /\ Flushed("init")
  /\ Pop
  /\ \/ InitFailed
     \/ configured' = 0 /\ initTimer' = TRUE /\ UNCHANGED configuration
  /\ UNCHANGED <<rcVars, scanning, runFinished, dataVars, queue, scanTimer,
                 button, threadVars>>

(* initControler2() and EUDAQProducer::configured(): a board that was asked *)
(* for may be missing, or the front-end flavours may be mixed.              *)
InitControler2 ==
  /\ TakesEvents /\ initTimer
  /\ initTimer' = FALSE
  /\ configured' = 1
  /\ configuration' \in {1, 2}
  /\ UNCHANGED <<rcVars, scanning, runFinished, dataVars, queue, stack,
                 scanTimer, button, threadVars>>

(* extStartScan(): the remote start presses the run button, which starts a  *)
(* scan only when it says so; pixScan() lets the panel update itself, ...   *)
StartScan ==
  /\ NextIs("start")
  /\ queue' = Tail(queue)
  /\ IF button = "StartScan"
     THEN Push("pixScan") /\ button' = "TBMode"
     ELSE UNCHANGED <<stack, button>>
  /\ UNCHANGED <<rcVars, handshakes, dataVars, configured, initTimer,
                 scanTimer, threadVars>>

(* beganScanning(): send the BORE, unless the run was stopped meanwhile     *)
(* (slip: even then).                                                       *)
SlipBoreAnyway == IF configured = 1 THEN Send(<<"BORE">>) ELSE UNCHANGED sent
BeganScanning ==
  IF configured = 1 /\ scanning THEN Send(<<"BORE">>) ELSE UNCHANGED sent

(* ... announces the scan, lets the CtrlThreads run and starts to poll      *)
(* (slip: it leaves that to the caller).                                    *)
SlipNoMonitor == UNCHANGED scanTimer
Monitor       == scanTimer' = TRUE

PixScan ==
  /\ Flushed("pixScan")
  /\ Pop
  /\ BeganScanning
  /\ IF scan = "idle"
     THEN scan' = "running" /\ abort' = FALSE /\ posted' = 0
     ELSE UNCHANGED threadVars
  /\ Monitor
  /\ UNCHANGED <<rcVars, handshakes, allReceived, pendingRunning, held, queue,
                 configured, initTimer, button>>

(* stopPixScan(): raise the abort flag of the CtrlThreads.                  *)
StopPixScan ==
  /\ NextIs("stop")
  /\ queue' = Tail(queue)
  /\ abort' = TRUE
  /\ UNCHANGED <<rcVars, handshakes, dataVars, stack, engineVars, scan, posted>>

(* dataPending(): keep what carries a trigger number, see whether all chips *)
(* have delivered the same triggers (data_pending_running is taken back     *)
(* early when the last chip has none), ...                                  *)
DataPending ==
  /\ NextIs("data")
  /\ queue' = Tail(queue)
  /\ Push("data")
  /\ pendingRunning' \in BOOLEAN
  /\ held' \in {held, TRUE}
  /\ allReceived' \in BOOLEAN
  /\ UNCHANGED <<rcVars, handshakes, sent, engineVars, threadVars>>

(* ... and send the events that all chips have: nothing is kept back when   *)
(* all have the same (slip: it returns before that).                        *)
SlipNothingSent == UNCHANGED <<sent, held>>
SendComplete ==
  \/ held /\ Send(<<"data">>) /\ held' = ~allReceived
  \/ ~(held /\ allReceived) /\ UNCHANGED <<sent, held>>

SendEvents ==
  /\ Top = "data"
  /\ Pop
  /\ SendComplete
  /\ pendingRunning' = FALSE
  /\ UNCHANGED <<rcVars, handshakes, allReceived, queue, engineVars, threadVars>>

(* FinishScan(): once no CtrlThread is processing, do the post-scan         *)
(* actions, ...                                                             *)
FinishScan ==
  /\ TakesEvents /\ scanTimer /\ scan = "idle"
  /\ scanTimer' = FALSE
  /\ Push("post-scan")
  /\ UNCHANGED <<rcVars, handshakes, dataVars, queue, configured, initTimer,
                 button, threadVars>>

(* ... give the run button free, ...                                        *)
ShowFinished ==
  /\ Flushed("post-scan")
  /\ stack' = <<"finished">> \o Tail(stack)
  /\ button' = "StartScan"
  /\ UNCHANGED <<rcVars, handshakes, dataVars, queue, configured, initTimer,
                 scanTimer, threadVars>>

(* ... and tell the producer, which sleeps for two seconds ...              *)
FinishedScanning ==
  /\ Flushed("finished")
  /\ IF configured = 1 THEN stack' = <<"sleep">> \o Tail(stack) ELSE Pop
  /\ UNCHANGED <<rcVars, handshakes, dataVars, queue, engineVars, threadVars>>

(* ... before it notes the end of the run.                                  *)
ScanFinished ==
  /\ Top = "sleep" /\ (calm => rc # "reset")
  /\ Pop
  /\ runFinished' = TRUE
  /\ UNCHANGED <<rcVars, configuration, scanning, dataVars, queue, engineVars,
                 threadVars>>

Main ==
  \/ InitControler \/ InitRods \/ InitControler2
  \/ StartScan \/ PixScan \/ StopPixScan
  \/ DataPending \/ SendEvents
  \/ FinishScan \/ ShowFinished \/ FinishedScanning \/ ScanFinished

-----------------------------------------------------------------------------
(* The CtrlThreads.                                                         *)

(* A read-out during the scan.                                              *)
PostData ==
  /\ scan = "running" /\ posted < MaxPost
  /\ posted' = posted + 1
  /\ Post("data")
  /\ UNCHANGED <<rcVars, handshakes, dataVars, stack, engineVars, scan, abort>>

(* The stop is carried out: the last read-out is posted before the thread   *)
(* says that it is no longer processing.                                    *)
LastReadout ==
  /\ scan = "running" /\ abort
  /\ abort' = FALSE
  /\ scan' = "idle"
  /\ Post("data")
  /\ UNCHANGED <<rcVars, handshakes, dataVars, stack, engineVars, posted>>

(* The scan ends by an error: no data is posted.                            *)
Die ==
  /\ ~calm /\ scan = "running"
  /\ scan' = "idle"
  /\ UNCHANGED <<rcVars, handshakes, dataVars, queue, stack, engineVars,
                 abort, posted>>

CtrlThread == PostData \/ LastReadout \/ Die

-----------------------------------------------------------------------------
Next == RunControl \/ Main \/ CtrlThread

Spec == Init /\ [][Next]_vars

(* Threads run, and an abort flag is noticed at the end of a turn.  Nobody  *)
(* has to configure, start or stop a run.                                   *)
Waiting == PostInit \/ ClearAnswer \/ Configured \/ PostStart \/ PostStop
             \/ ResetFinished \/ StopWait \/ SendRest \/ SendEore
FairSpec == Spec /\ WF_vars(Waiting) /\ WF_vars(Main) /\ WF_vars(LastReadout)

-----------------------------------------------------------------------------
(* Safety.                                                                  *)

(* A run is framed.  It is opened at most once, and not after it was closed: *)
(* a start that is handled late, after its run was stopped or given up, or  *)
(* in the middle of another handler, does not announce a run of its own.    *)
(* And as long as OnStopRun() did not give up on a run, nothing of it is    *)
(* sent before its BORE, nor after its EORE: "Send an EORE after all the    *)
(* real events have been sent" (STeudaq_producer.cxx:493).                  *)
RunFramed ==
  \A i, j \in 1..Len(sent) : i < j /\ sent[i].run = sent[j].run =>
    /\ sent[j].kind = "BORE" => sent[i].kind = "data"
    /\ ~gaveUp => sent[j].kind # "BORE" /\ sent[i].kind # "EORE"

(* When the EORE goes out, nothing of the run is still under way: no data   *)
(* event is queued or half handled, nothing is held back, and no scan runs. *)
EoreComplete ==
  [][ rc = "eore" /\ rc' = "idle" /\ ~gaveUp =>
        /\ scan = "idle" /\ ~held /\ Top # "data"
        /\ \A i \in 1..Len(queue) : queue[i] # "data" ]_vars

(* "It must send a BORE to the Data Collector" (STeudaq_producer.cxx:409):  *)
(* a run is not closed before it was opened, unless it was stopped before   *)
(* its start was handled.                                                   *)
EveryRunHasBore ==
  calm => \A j \in 1..Len(sent) : sent[j].kind = "EORE" =>
    \E i \in 1..j : sent[i] = [kind |-> "BORE", run |-> sent[j].run]

-----------------------------------------------------------------------------
(* Liveness.                                                                *)

(* Every request of the run-control thread is answered: "wait for           *)
(* configuration to be finished" (STeudaq_producer.cxx:230) comes to an end, *)
(* and so does "wait for STcontrol to finish the scan" (473), unless a stop  *)
(* is handled before the scan that it is meant for has begun.               *)
RequestsAnswered ==
  calm => /\ rc = "waitInit" ~> rc # "waitInit"
          /\ rc = "waitStop" ~> runFinished \/ rc # "waitStop"

=============================================================================
