--------------------------- MODULE TestbeamReadout ---------------------------
(***************************************************************************)
(* The read-out round of a beam-test run (STcontrol with EUDAQ).           *)
(*                                                                         *)
(* Every USBpix board has a CtrlThread of its own that polls the FPGA in   *)
(* the do-while loop of CtrlThread::scan().  The first thread that finds   *)
(* its SRAM at the read-out level raises the static flag global_readout;   *)
(* every thread that sees the flag pauses its board, reads the SRAM, posts *)
(* the data to the main thread and parks until the flag is down again.     *)
(* The main thread hands each data event to the EUDAQProducer, which only  *)
(* counts them and lowers the flag when the count reaches the number of    *)
(* boards.  The EUDAQ run-control thread may end the run at any moment.    *)
(*                                                                         *)
(* Threads: one per board, the Qt main thread, the run-control thread.     *)
(* The FPGA fills its SRAM on its own while a measurement is running.      *)
(***************************************************************************)
EXTENDS Naturals, Sequences, FiniteSets

CONSTANTS
  Boards,     (* the boards (one STPixModuleGroup and CtrlThread each)      *)
  StopEvent,  (* the prodStopScanEvent in the main thread's event queue     *)
  VetoAt,     (* SRAM fill level at which the FPGA raises the TLU veto      *)
  FullAt,     (* SRAM fill level at which the FPGA reports "SRAM full"      *)
  MaxRun,     (* bound: number of runs started                              *)
  MaxStop,    (* bound: number of runs that are asked to stop               *)
  SlowFill    (* TRUE: no SRAM reaches its read-out level while a released  *)
              (* board has not yet noticed its release (a timing assumption *)
              (* that nothing but two 200 ms sleeps backs in the code)      *)

ASSUME BoardsAssumption == IsFiniteSet(Boards) /\ Boards # {}
ASSUME StopEventAssumption == StopEvent \notin Boards
ASSUME LevelAssumption ==
  VetoAt \in Nat \ {0} /\ FullAt \in Nat /\ VetoAt < FullAt
ASSUME BoundAssumption == MaxRun \in Nat \ {0} /\ MaxStop \in Nat
ASSUME SlowFillAssumption == SlowFill \in BOOLEAN

VARIABLES
  measuring,      (* FPGA: the measurement start/stop register              *)
  level,          (* FPGA: the SRAM fill level                              *)
  seen,           (* the status nTrigger() read in this turn of the loop:   *)
                  (* m_measurementRunning, m_sramFull, m_tluVeto and their  *)
                  (* copies m_curr...; Unread outside of its use in a turn  *)
  scanDone,       (* m_sourceScanDone                                       *)
  paused,         (* m_testbeam_pause                                       *)
  readSram,       (* m_readSram                                             *)
  abort,          (* m_abortScan                                            *)
  pc,             (* where the CtrlThread is in its loop                    *)
  globalReadout,  (* STPixModuleGroup::global_readout                       *)
  queue,          (* events the Qt main thread has not handled yet          *)
  aborting,       (* boards the main thread's abortScan() loop still has to *)
                  (* visit                                                  *)
  boardsReadOut,  (* EUDAQProducer::boards_read_out                         *)
  rc,             (* where the run-control thread is                        *)
  run,            (* number of the current run                              *)
  arrived         (* history: boards that posted data since the last time   *)
                  (* the producer lowered the flag in this run              *)

fpgaVars   == <<measuring, level>>
cacheVars  == <<seen, scanDone>>
groupVars  == <<paused, readSram, abort>>
mainVars   == <<queue, aborting, boardsReadOut>>
rcVars     == <<rc, run>>
vars == <<fpgaVars, cacheVars, groupVars, pc, globalReadout, mainVars, rcVars,
          arrived>>

Status == [running : BOOLEAN, full : BOOLEAN, veto : BOOLEAN]
Unread == [running |-> TRUE, full |-> FALSE, veto |-> FALSE]

Places == {"poll", "flag", "pause", "read", "park", "end", "done"}

(* The first run, before anybody asked for its end. *)
Undisturbed == run = 1 /\ rc = "taking"

TypeOK ==
  /\ measuring \in [Boards -> BOOLEAN]
  /\ level \in [Boards -> 0..FullAt]
  /\ seen \in [Boards -> Status]
  /\ scanDone \in [Boards -> BOOLEAN]
  /\ paused \in [Boards -> BOOLEAN]
  /\ readSram \in [Boards -> BOOLEAN]
  /\ abort \in [Boards -> BOOLEAN]
  /\ pc \in [Boards -> Places]
  /\ globalReadout \in BOOLEAN
  /\ queue \in Seq(Boards \cup {StopEvent})
  /\ aborting \in SUBSET Boards
  /\ boardsReadOut \in Nat
  /\ rc \in {"taking", "unlocked", "stopped"}
  /\ run \in 1..MaxRun
  /\ arrived \in SUBSET Boards

(* startScan() has just started the measurement on every board.  m_readSram *)
(* is never initialised, neither in a constructor nor at the start of a     *)
(* scan, so its first value is arbitrary.                                   *)
Init ==
  /\ measuring = [b \in Boards |-> TRUE]
  /\ level = [b \in Boards |-> 0]
  /\ seen = [b \in Boards |-> Unread]
  /\ scanDone = [b \in Boards |-> FALSE]
  /\ paused = [b \in Boards |-> FALSE]
  /\ readSram \in [Boards -> BOOLEAN]
  /\ abort = [b \in Boards |-> FALSE]
  /\ pc = [b \in Boards |-> "poll"]
  /\ globalReadout = FALSE
  /\ queue = <<>>
  /\ aborting = {}
  /\ boardsReadOut = 0
  /\ rc = "taking"
  /\ run = 1
  /\ arrived = {}

Goto(b, from, to) ==
  /\ pc[b] = from
  /\ pc' = [pc EXCEPT ![b] = to]

-----------------------------------------------------------------------------
(* The FPGA.                                                                *)

(* The flag is down but the thread of board b is still asleep in its loop.  *)
Oversleeping(b) == pc[b] = "park" /\ paused[b] /\ ~readSram[b] /\ ~globalReadout

Fill(b) ==
  /\ measuring[b]
  /\ level[b] < FullAt
  /\ SlowFill /\ level[b] + 1 >= VetoAt => \A c \in Boards : ~Oversleeping(c)
  /\ level' = [level EXCEPT ![b] = @ + 1]
  /\ UNCHANGED <<measuring, cacheVars, groupVars, pc, globalReadout, mainVars,
                 rcVars, arrived>>

-----------------------------------------------------------------------------
(* One turn of the CtrlThread's loop.                                       *)

(* GetSourceScanStatus()                                                    *)
ScanStatus(b) ==
  [running |-> measuring[b], full |-> level[b] = FullAt, veto |-> level[b] >= VetoAt]

(* nTrigger(): read the status registers of the board.                      *)
Poll(b) ==
  /\ Goto(b, "poll", "flag")
  /\ seen' = [seen EXCEPT ![b] = ScanStatus(b)]
  /\ UNCHANGED <<fpgaVars, scanDone, groupVars, globalReadout, mainVars,
                 rcVars, arrived>>

(* A full SRAM, or one at the read-out level, asks all boards to read out.  *)
RaiseFlag(b) ==
  /\ Goto(b, "flag", "pause")
  /\ globalReadout' = (globalReadout \/ seen[b].full \/ seen[b].veto)
  /\ UNCHANGED <<fpgaVars, cacheVars, groupVars, mainVars, rcVars, arrived>>

(* Pause the board and ask for its read-out.                                *)
Pause(b) ==
  /\ measuring' = [measuring EXCEPT ![b] = FALSE]
  /\ paused' = [paused EXCEPT ![b] = TRUE]
  /\ readSram' = [readSram EXCEPT ![b] = TRUE]

(* pauseRun(), if somebody asked for a read-out and b is not paused yet.    *)
PauseRun(b) ==
  /\ Goto(b, "pause", "read")
  /\ IF globalReadout /\ ~paused[b]
     THEN Pause(b)
     ELSE UNCHANGED <<measuring, paused, readSram>>
  /\ UNCHANGED <<level, cacheVars, abort, globalReadout, mainVars, rcVars,
                 arrived>>

(* The two conditions of getSourceScanData(): a read-out during the run,    *)
(* and the last one after the measurement was stopped.                      *)
RoundRead(b) ==
  \/ seen[b].running /\ seen[b].full
  \/ ~seen[b].running /\ readSram[b]
FinalRead(b) == ~seen[b].running /\ ~RoundRead(b)

(* Post the data, and take the request back.                                *)
PostData(b) ==
  /\ queue' = Append(queue, b)
  /\ arrived' = arrived \cup {b}
  /\ readSram' = [readSram EXCEPT ![b] = FALSE]

(* getSourceScanData(): read and clear the SRAM, post the data.             *)
GetSourceScanData(b) ==
  /\ Goto(b, "read", "park")
  /\ seen' = [seen EXCEPT ![b] = Unread]
  /\ IF RoundRead(b) \/ FinalRead(b)
     THEN /\ level' = [level EXCEPT ![b] = 0]
          /\ scanDone' = [scanDone EXCEPT ![b] = @ \/ FinalRead(b)]
          /\ PostData(b)
     ELSE UNCHANGED <<level, scanDone, readSram, queue, arrived>>
  /\ UNCHANGED <<measuring, paused, abort, globalReadout, aborting,
                 boardsReadOut, rcVars>>

(* resumeRun(), and the condition it waits for (slip: none).                *)
Resume(b) ==
  /\ measuring' = [measuring EXCEPT ![b] = TRUE]
  /\ paused' = [paused EXCEPT ![b] = FALSE]
SlipNoWait == TRUE
Released == ~globalReadout

(* A board that is paused and has been read out waits for the flag to go    *)
(* down, then resumes its measurement.                                      *)
Park(b) ==
  /\ Goto(b, "park", "end")
  /\ IF paused[b] /\ ~readSram[b]
     THEN Released /\ Resume(b)
     ELSE UNCHANGED <<measuring, paused>>
  /\ UNCHANGED <<level, cacheVars, readSram, abort, globalReadout, mainVars,
                 rcVars, arrived>>

(* stopScan(), if the abort flag is up (slip: the flag is only cleared), and *)
(* the end of the loop, runStatus() (slip: a stop ends it at once).         *)
SlipStopSkipped(b) ==
  /\ abort' = [abort EXCEPT ![b] = FALSE]
  /\ UNCHANGED measuring
StopScan(b) ==
  /\ abort' = [abort EXCEPT ![b] = FALSE]
  /\ measuring' = [measuring EXCEPT ![b] = @ /\ ~abort[b]]
SlipStopEnds(b) == scanDone[b] \/ abort[b]
Finished(b) == scanDone[b]

(* The end of the turn: a requested stop is carried out once, and the loop  *)
(* goes on while runStatus() reports a running source scan.                 *)
EndTurn(b) ==
  /\ Goto(b, "end", IF Finished(b) THEN "done" ELSE "poll")
  /\ StopScan(b)
  /\ scanDone' = [scanDone EXCEPT ![b] = FALSE]
  /\ UNCHANGED <<level, seen, paused, readSram, globalReadout,
                 mainVars, rcVars, arrived>>

BoardStep(b) ==
  \/ Poll(b)
  \/ RaiseFlag(b)
  \/ PauseRun(b)
  \/ GetSourceScanData(b)
  \/ Park(b)
  \/ EndTurn(b)

-----------------------------------------------------------------------------
(* The Qt main thread handles one event after the other.                    *)

(* The count reaches board_count (slip: one board late), and the boards are *)
(* released (slip: the count is not reset).                                 *)
SlipOneLate == boardsReadOut = Cardinality(Boards)
AllReadOut == boardsReadOut + 1 = Cardinality(Boards)
SlipCountStays ==
  /\ globalReadout' = FALSE
  /\ arrived' = {}
  /\ boardsReadOut' = boardsReadOut + 1
Release ==
  /\ globalReadout' = FALSE
  /\ arrived' = {}
  /\ boardsReadOut' = 0

(* EUDAQProducer::dataPending(): whoever sent it, one more board is read.   *)
DataPending ==
  /\ aborting = {}
  /\ queue # <<>> /\ Head(queue) # StopEvent
  /\ queue' = Tail(queue)
  /\ IF AllReadOut
     THEN Release
     ELSE /\ boardsReadOut' = boardsReadOut + 1
          /\ UNCHANGED <<globalReadout, arrived>>
  /\ UNCHANGED <<fpgaVars, cacheVars, groupVars, pc, aborting, rcVars>>

(* stopPixScan(): the main thread walks over the groups ...                 *)
StopPixScan ==
  /\ aborting = {}
  /\ queue # <<>> /\ Head(queue) = StopEvent
  /\ queue' = Tail(queue)
  /\ aborting' = Boards
  /\ UNCHANGED <<fpgaVars, cacheVars, groupVars, pc, globalReadout,
                 boardsReadOut, rcVars, arrived>>

(* ... and sets the abort flag of each, while the threads keep running.     *)
AbortScan(b) ==
  /\ b \in aborting
  /\ aborting' = aborting \ {b}
  /\ abort' = [abort EXCEPT ![b] = TRUE]
  /\ UNCHANGED <<fpgaVars, cacheVars, paused, readSram, pc, globalReadout,
                 queue, boardsReadOut, rcVars, arrived>>

MainStep == DataPending \/ StopPixScan \/ \E b \in Boards : AbortScan(b)

-----------------------------------------------------------------------------
(* The run-control thread: OnStopRun() and the start of the next run.       *)

(* OnStopRun() first unlocks whoever waits for the flag ...                 *)
UnlockBoards ==
  /\ rc = "taking" /\ run <= MaxStop
  /\ rc' = "unlocked"
  /\ globalReadout' = FALSE
  /\ UNCHANGED <<fpgaVars, cacheVars, groupVars, pc, mainVars, run, arrived>>

(* ... and then posts the stop event.                                       *)
PostStop ==
  /\ rc = "unlocked"
  /\ rc' = "stopped"
  /\ queue' = Append(queue, StopEvent)
  /\ UNCHANGED <<fpgaVars, cacheVars, groupVars, pc, globalReadout, aborting,
                 boardsReadOut, run, arrived>>

(* The next run: startScan() resets the controller's flags and starts the   *)
(* measurement; ThreadExecute() resets the abort flag.  The flag, the pause *)
(* and read flags of the groups and the producer's count are not reset.     *)
StartRun ==
  /\ rc = "stopped" /\ run < MaxRun
  /\ queue = <<>> /\ aborting = {}
  /\ \A b \in Boards : pc[b] = "done"
  /\ run' = run + 1
  /\ rc' = "taking"
  /\ measuring' = [b \in Boards |-> TRUE]
  /\ level' = [b \in Boards |-> 0]
  /\ seen' = [b \in Boards |-> Unread]
  /\ scanDone' = [b \in Boards |-> FALSE]
  /\ abort' = [b \in Boards |-> FALSE]
  /\ pc' = [b \in Boards |-> "poll"]
  /\ arrived' = {}
  /\ UNCHANGED <<paused, readSram, globalReadout, mainVars>>

RunControlStep == UnlockBoards \/ PostStop \/ StartRun

-----------------------------------------------------------------------------
Next ==
  \/ \E b \in Boards : Fill(b) \/ BoardStep(b)
  \/ MainStep
  \/ RunControlStep

Spec == Init /\ [][Next]_vars

(* Every thread goes on while it can: they are threads of the operating     *)
(* system, and a posted stop follows at once on the unlocking.  The FPGA    *)
(* need not fill, and nobody need stop the run.                             *)
Fairness ==
  /\ \A b \in Boards : WF_vars(BoardStep(b))
  /\ WF_vars(MainStep)
  /\ WF_vars(PostStop)

FairSpec == Spec /\ Fairness

(* A parked thread looks at the flag again and again.  Here it even meets   *)
(* it down if the flag is down time after time.                             *)
PersistentSpec == FairSpec /\ \A b \in Boards : SF_vars(Park(b))

-----------------------------------------------------------------------------
(* Safety.                                                                  *)

(* The producer lowers the flag only when every board has posted its data   *)
(* and parked: "the producers task to check if it received data from all    *)
(* boards and then unlock the threads" (STPixModuleGroup.cxx:1003).  The    *)
(* producer only counts events, so this rests on no board posting twice.    *)
ReleaseNeedsAll ==
  [][ Undisturbed /\ Undisturbed' /\ globalReadout /\ ~globalReadout'
      => arrived = Boards /\ \A b \in Boards : pc[b] = "park" ]_vars

(* The producer's count and the events still queued account for exactly the *)
(* boards of the current round, each of them once.                          *)
CountMatchesArrived ==
  Undisturbed => boardsReadOut + Len(queue) = Cardinality(arrived)

(* A round that is over leaves nothing behind: with the flag down there is  *)
(* no data event under way, no count, and the only boards still paused are  *)
(* those that were read out and have not woken up yet.                      *)
NothingLeftBehind ==
  Undisturbed /\ ~globalReadout =>
    /\ queue = <<>> /\ boardsReadOut = 0
    /\ \A b \in Boards : paused[b] => Oversleeping(b)

(* A paused board takes no data, in any run and after any stop: pauseRun(), *)
(* resumeRun() and stopScan() all write the same start/stop register.       *)
PausedIsQuiet == \A b \in Boards : paused[b] => ~measuring[b]

(* A CtrlThread leaves its loop only when its board is stopped, not paused, *)
(* and everything in its SRAM has been posted: no data is left on the board *)
(* although status is read before, and acted on after, pauses and stops.    *)
FinishedIsDrained ==
  \A b \in Boards : pc[b] = "done" => level[b] = 0 /\ ~measuring[b] /\ ~paused[b]

(* The round as a reusable barrier.                                         *)
Barrier == INSTANCE ReadoutBarrier
  WITH Parties <- Boards, raised <- globalReadout, disturbed <- ~Undisturbed

RefinesBarrier == Barrier!Spec

-----------------------------------------------------------------------------
(* The inductive invariant behind the safety properties.                    *)

(* What each thread keeps true in every run, stops included: the order of   *)
(* its turn protects the pause, the read request and the final read.        *)
LoopInv ==
  \A b \in Boards :
    /\ paused[b] => ~measuring[b]
    /\ paused[b] /\ pc[b] # "park" => readSram[b]
    /\ pc[b] \in {"flag", "pause", "read"} /\ ~seen[b].running => ~measuring[b]
    /\ scanDone[b] => pc[b] \in {"park", "end"}
    /\ scanDone[b] \/ pc[b] = "done" => level[b] = 0 /\ ~measuring[b] /\ ~paused[b]

(* What the round keeps true until somebody asks for the end of the run.    *)
BoardRoundInv(b) ==
  /\ ~abort[b] /\ ~scanDone[b] /\ pc[b] # "done"
  /\ ~paused[b] => measuring[b]
  /\ pc[b] \in {"flag", "pause", "read"} /\ ~seen[b].running => paused[b]
  /\ pc[b] = "pause" /\ seen[b].full => globalReadout
  /\ pc[b] = "read" /\ seen[b].full => paused[b]
  /\ b \in arrived => pc[b] = "park" /\ paused[b] /\ ~readSram[b]
  /\ paused[b] /\ readSram[b] => globalReadout

RoundOK ==
  /\ aborting = {}
  /\ queue \in Seq(Boards)
  /\ boardsReadOut + Len(queue) = Cardinality(arrived)
  /\ boardsReadOut < Cardinality(Boards)
  /\ arrived # {} => globalReadout
  /\ \A b \in Boards : BoardRoundInv(b)

RoundInv == Undisturbed => RoundOK

IInv == TypeOK /\ LoopInv /\ RoundInv

-----------------------------------------------------------------------------
(* Liveness.                                                                *)

(* A read-out that was asked for comes to its end and releases the boards.  *)
(* It holds when boards fill slowly; when a board may fill up before        *)
(* another one has noticed its release the flag is up again, the sleeper    *)
(* never posts for the new round, and all wait.                             *)
RoundCompletes ==
  (Undisturbed /\ globalReadout) ~> (~Undisturbed \/ ~globalReadout)

AllDone == \A b \in Boards : pc[b] = "done"

StopPending == \E i \in 1..Len(queue) : queue[i] = StopEvent

(* A run that is stopped between two rounds comes to its end, unless a      *)
(* board reaches its read-out level before it has seen the stop.            *)
StopEndsQuietRun ==
  (StopPending /\ ~globalReadout /\ \A b \in Boards : ~paused[b])
    ~> (globalReadout \/ AllDone)

-----------------------------------------------------------------------------
(* What a comment of the source promises and the code does not keep.        *)

StopHandled == rc = "stopped" /\ aborting = {} /\ ~StopPending

(* A board that carried out the stop stays stopped until the next run.      *)
StopIsFinal ==
  [][ \A b \in Boards :
        StopHandled /\ ~abort[b] /\ ~measuring[b] /\ run' = run => ~measuring'[b] ]_vars

=============================================================================
