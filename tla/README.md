# A TLA+ model of USBpix

USBpix is a data-acquisition system for ATLAS pixel detectors: Qt applications
(`Applications/STcontrol` and others), a library of controllers, modules and
scans (`Applications/PixLib`), drivers for the USBpix boards (`USBpix2I4`,
`USBpix2I3`, `USBpix3I4`, `SiLibUSB`) and host and DSP software for the older
VME ROD crates (`RodDaq`).  This directory holds TLA+ modules of the parts whose
correctness depends on the order of steps of several actors, TLC configurations
that check them on small instances, and proofs that TLAPS checks.

All line numbers refer to files under `src/`; where only a file name is given
the file is in `src/Applications/STcontrol`.

## 1. Inventory

| Part | State it keeps | Operations | Interacts through | What is hard |
|---|---|---|---|---|
| Test-beam read-out round (`STPixModuleGroup.cxx` 978-1123, `USBPixController.cxx`, `STeudaq_producer.cxx` 563-612) | per board: start/stop register and fill level of the FPGA, cached status, `m_sourceScanDone`, `m_testbeam_pause`, `m_readSram`, `m_abortScan`; static `global_readout`; `boards_read_out` | one turn of the CtrlThread's loop, `dataPending`, `OnStopRun`, `stopPixScan` | a static flag, the Qt event queue, plain members polled by threads | a barrier made of a flag and a count; status read before and used after a pause; a stop at any moment |
| EUDAQ run control (`STeudaq_producer.cxx`, `STeudaq.cxx`, `STControlEngine.cxx` `pixScan`/`FinishScan`) | `configuration`, `scanning`, `run_finished`, `all_events_recieved`, `data_pending_running`, `EventData`; `configured`; timers; run button | `OnConfigure`, `OnStartRun`, `OnStopRun` and the Qt handlers they post | posted events, busy waiting on plain members, `processEvents()` inside handlers | re-entrant handlers, lost answers, a 120 s limit |
| Trigger alignment (`STeudaq_producer_I4.cxx`, `_I3.cxx`) | `EventData`, `recieved_trigger`, `lastTriggerNumber` | `dataPendingI4`, `sendEventsI4` | called by the producer | 15-bit rollover, missing triggers |
| Scan life cycle (`STPixModuleGroup.cxx` CtrlThread and ScanThread, `STRodCrate.cxx`, `STControlEngine::FinishScan`, `USBPixController.cxx`) | `processing`, `m_rodStatus`, `m_abortScan`; the controller's `m_upc...` and `m_scan...` flags and the driver's scan status | `ThreadExecute`, `run`, `scan`, `abortScan`, `startScan`, `stopScan`, `nTrigger`, `runStatus` | three kinds of threads, plain flags, posted events and a 500 ms timer | early returns, timeouts, aborts, flags left from the last step |
| Primitive lists and wafer test (`STControlEngine.cxx` 2463-4113, `PrimlistPanel.cxx`, `WaferTestPanel.cxx`) | list, position, stop and skip flags; per panel: repetition, abort flag, connections; chip count, chuck | `launchPrimList`, `processPrimList`, `launchPrlScans`, `startPrl`, `finishedPrl`, `abortPrl`, `probeStepInit` | Qt signals that are connected and disconnected per item, `processEvents()` inside handlers | two panels that hear the same signals; a handler that is called once too often or never; an abort in the middle; a prober that fails |
| Scan loops (`PixScan`, `PixModuleGroup`) | loop indices, histograms | `loop()`, `next()`, mask steps | called by CtrlThread | end conditions of nested loops |
| Pixel controllers and board drivers (`PixController`, `USBpix2I4`, `USBpix2I3`) | register contents, scan flags | register access, configuration | USB transfers | mostly data; the scan flags are part of the scan life cycle |
| USBpix3 boards (`PixController/USB3PixController.cxx`, `USBpix3I4/readout.cpp`, `datadecoder.cpp`) | `running`, `finished`, `cancel_scan`; `state`, `change` of the reader; FIFO, histogrammers of the current loop | `startScan`, `strobeScan`, `sourceScan`, `stopScan`, `runStatus`, `setState`, `readoutThread` | a std::thread with mutex, two condition variables and a request flag; atomics polled by the CtrlThread | whose turn it is at the decoder; data left in the FIFO; exceptions in either thread |
| `SiLibUSB` | list of USB devices, mutex per device | open, close, transfers | shared list | a device removed while in use |
| Request channel of the ROD (`RodDaq/RodCrate/RodModule.cxx`, `RodDaq/NewDsp/common/requestChannel.c`) | host: `m_myPrimState`; DSP: state, `nPrimitives`, `kPrimitive`; shared: control and status word, request and reply buffer | `sendPrimList`, `primHandler`, `waitPrimitiveCompletion`, `synchSendPrim`; `proc` | memory words polled by both sides | a two-sided handshake, time limits, lists nobody waits for, rejected lists |
| Other ROD host software and DSP firmware | text buffers, heap, tasks | `textBuffers`, `heap` | shared registers | two-sided handshake |
| DCS, probers, GPIB, RS232, VME | device handles | commands and answers | instruments | I/O |
| Configuration databases, panels, analysis, tools | files, widgets | load, save, display, fit | ROOT files | I/O, floating point |
| Vendored code (`eudaq`, `SmtpClient-for-Qt`, `inc`, `driver`, `xc3sprog`) | | | | third party |

Correctness, part by part:

* *Read-out round*: boards are released only when each of them has delivered
  its data; rounds do not mix; a paused board takes no data; a stopped board
  keeps no data and stays stopped; a read-out that was asked for ends.
* *Run control*: every request is answered; BORE first, EORE last and only when
  all data is sent; a stop ends the scan.
* *Trigger alignment*: an event holds the data of one trigger from every chip;
  no trigger is lost or sent twice across the rollover.
* *Scan life cycle*: a scan that began ends; its end is reported when all
  threads are done with it; no step is taken over before it is measured; what is
  saved is complete; a stop stops; the next scan finds everything as it must be.
* *Primitive lists*: one scan at a time; a die is left only when its list is
  through; an abort starts nothing more; every list ends and its panel knows.
* *USBpix3 scan*: the decoder has one user at a time; no data goes to another
  loop's histograms; what is collected is complete; a scan ends.
* *Request channel*: the two processors take turns at the buffers; a caller gets
  the whole reply to its own list; a call returns.

## 2. Modules

| Module | What it is |
|---|---|
| `TestbeamReadout` | the read-out round: FPGA, CtrlThreads, main thread, run-control thread |
| `ReadoutBarrier` | what the round promises: a reusable barrier |
| `MCTestbeamReadout` | instances of `TestbeamReadout` for TLC |
| `TestbeamReadoutProofs` | its theorems |
| `EudaqRun` | a run of the EUDAQ producer with re-entrant main-thread handlers |
| `EudaqRunProofs` | its theorems |
| `TriggerAlign` | how events are built from the chips' data, by trigger number |
| `MCTriggerAlign` | an instance of `TriggerAlign` for TLC |
| `TriggerWordProofs` | lemmas about its operators: what the code makes of one list of words |
| `TriggerAlignProofs` | its theorems |
| `ScanControl` | a scan on the USBpix boards: main thread, CtrlThreads, ScanThreads, controller |
| `MCScanControl` | an instance of `ScanControl` for TLC |
| `ScanControlProofs` | its theorems |
| `PrimList` | primitive lists, their panels, and the wafer test |
| `MCPrimList` | lists and desks for TLC |
| `PrimListProofs` | its theorems |
| `RequestChannel` | host and DSP of a ROD around a request channel |
| `RemoteCall` | what the request channel promises: a remote call |
| `MCRequestChannel` | sets of troubles for TLC |
| `RequestChannelProofs` | its theorems |
| `Usb3Scan` | a scan on a USBpix3 board: CtrlThread, scan thread, read-out thread |
| `MCUsb3Scan` | sets of troubles for TLC |
| `Usb3ScanProofs` | its theorems |

The modules meet where one says what another takes for granted.  `TestbeamReadout`
says when data is posted, `EudaqRun` in which order it is handled, `TriggerAlign`
what becomes of it.  `ScanControl` is the life of one scan: `EudaqRun` takes from it
that a stopped scan ends, `PrimList` that every scan does.  `Usb3Scan` is another
controller under the same CtrlThread, in more detail than `ScanControl` has the
FE-I4 one.  `RequestChannel` is what a ROD controller's calls go through.

### TestbeamReadout

| Variable | Code |
|---|---|
| `measuring`, `level` | the FPGA's measurement register (`USBpix2I4/ConfigRegister.cpp` 2039-2067) and SRAM fill level |
| `seen` | `m_measurementRunning`, `m_sramFull`, `m_tluVeto` as `nTrigger()` read them, and the copies `m_curr...` |
| `scanDone` | `m_sourceScanDone` |
| `paused`, `readSram`, `abort` | `m_testbeam_pause`, `m_readSram`, `m_abortScan` |
| `pc` | where the thread is in the do-while loop (978-1123) |
| `globalReadout` | `STPixModuleGroup::global_readout` |
| `queue`, `aborting` | the Qt main thread's event queue, and the groups its abort loop has still to visit |
| `boardsReadOut` | `EUDAQProducer::boards_read_out` |
| `rc`, `run` | where `OnStopRun()` is, and the run number |
| `arrived` | a history variable: who posted data since the last release |

A turn of the loop is six actions, in the order of the code: `Poll` (987),
`RaiseFlag` (1019-1035), `PauseRun` (1038-1044), `GetSourceScanData`
(1049-1054), `Park` (1057-1076), `EndTurn` (1098-1123).  The main thread has
`DataPending`, `StopPixScan` and `AbortScan` (one group per step, because the
threads run on meanwhile), the run-control thread `UnlockBoards`, `PostStop` and
`StartRun`.  `Fill` is the FPGA.

Abstractions:

* data words are left out: an SRAM is its fill level, with the level that raises
  the TLU veto (`VetoAt`, from `SRAM_READOUT_AT`) and the full one (`FullAt`);
* reading the status registers in one `nTrigger()` call, and the check of the
  flag with the pause that follows it, are single steps;
* the test-beam run has no limits: `Poll` leaves out that `nTrigger()` itself stops
  the measurement when the time or the number of events is reached
  (USBPixController.cxx 3161-3167, 3247-3250).  A limit would stop one board without a
  stop request and without a pause, and the pause of the next round would start it
  again (1073).  Limits are part of `ScanControl` (`LimitReached`);
* there is one board per controller, as in the beam tests; with several chips
  per board the status of the last one counts in `nTrigger()`;
* the SRAM is read while its board is stopped or full, so that reading it and
  clearing it is one step;
* the uninitialised `m_readSram` (`STPixModuleGroup.h` 327) starts with any value.

`SlowFill` is an assumption on the environment, not on the code: no SRAM reaches
its read-out level while a released board's thread is still asleep in its 200 ms
wait.  The safety runs and all proofs do without it.

### EudaqRun

The run-control thread is a program counter `rc` that follows the statements of
`OnConfigure()`, `OnStartRun()` and `OnStopRun()` that touch shared state, in
their order.  The main thread is the event `queue` and a `stack` of unfinished
handlers: `pixScan()`, `FinishScan()` and `initControlerTS()` call
`processEvents()`, and what is queued is then handled inside them.  A handler
goes on when the queue is empty.  `sent` records what the data collector gets.

Abstractions: the CtrlThreads of all boards are one actor (`PostData`,
`LastReadout`, `Die`) whose data event stands for a round; which chips lack
which triggers is a free choice of `allReceived` in `DataPending`, subject to
what `sendEventsI4()` makes of it (complete data is sent completely); the
configuration's contents are reduced to "invalid", "skip", "initialise"; the
`processEvents()` in `initControler2()` (STeudaq.cxx 220) and the first one of
`FinishScan()` handle events a moment earlier than the model and nothing else.
`pixScan()`'s error returns (no configuration) are left out.  `AbortRun()` is
called by nobody in the repository and left out, as are `OnTerminate()` and
`OnPrepareRun()`.

The variable `calm` is chosen once.  In the calm world `OnStopRun()` does not give
up after its 120 s, no scan ends by an error, a stop comes after the start was
handled, no configuration asks to skip the initialisation, and the run-control
thread is not suspended for the seconds that initialising boards or the
two-second sleep of `scanFinished()` take.  In the other one all of this may
happen.  `RunFramed`, `EoreComplete` and `TypeOK` are about both; `EveryRunHasBore`
and `RequestsAnswered` only about the calm one, because the code breaks them in the
other: a stop that is handled by the `processEvents()` inside `pixScan()` is
cleared by `ThreadExecute()` (STPixModuleGroup.cxx 359), and the scan runs on.

### TriggerAlign

`TestbeamReadout` says when a board's data is posted, `EudaqRun` in which order
it is handled among starts and stops; `TriggerAlign` says what becomes of it.

| Variable | Code |
|---|---|
| `next`, `sram`, `recorded` | the triggers, by their true number; what each chip recorded of them |
| `due` | boards of this round whose `dataPending()` is still to come |
| `recieved`, `eventData`, `lastTrigger` | `recieved_trigger`, `EventData`, `lastTriggerNumber` |
| `counter`, `limit` | `triggerCounter`, `min_trigger_number` |
| `allReceived` | `all_events_recieved` |
| `at` | whether the main thread is inside the loop of `sendEventsI4()` |
| `event`, `first`, `failed` | history: the last event sent, the first one's number, numbers whose `SendEvent()` threw |

`DataPending` is `dataPendingI4()` with the head of `sendEventsI4()`;
`SendEvent` and `SendFails` are one turn of its loop; `EndRun` is the
`sendEvents(true)` of `OnStopRun()`.  The code sees a number modulo `Amount`
(2^15) only; the model keeps the true number beside it to say what is right.

Abstractions: a trigger with its hits and its two trigger words is one element;
the end of the data in the SRAM (more than ten zeros) is its last element; a
round is read out of all boards before the next trigger is taken, which is what
`TestbeamReadout` shows of the rounds until a stop; data that comes after
`OnStopRun()` gave up is left to `EudaqRun`.

What the code promises depends on which triggers are missed.  `MissesAllowed` is
the condition: never the last number before a rollover, of which the code must see
that it is within `Margin` of it, and not all the others either (then successive
triggers of a chip are less than a lap apart).  `TriggerOrder` keeps it and the theorems
assume it.  Without it (`MayMiss = {Amount - 1}` on two boards is enough) `DroppedIsPast`
is violated: a chip that missed the last number of a lap has the first triggers of the
next lap dropped as too small (261).  `Derailed` excepts one more case from `EventAligned`, `DummyMeansMissing` and
`DroppedIsPast`: a `SendEvent()` that throws at the last number of a lap takes its
words with it, the lists do not show the rollover any more, and the retry takes words
of the next lap for old ones, or one a whole lap later for its own.  (With a bound
that ends at the rollover `EventAligned` holds even then: two rollovers are needed to
see it.)  What other chips recorded before the first trigger word that is scanned gets
no event; `NothingKept` asks only that no trigger beyond `lastTriggerNumber` is left.

### ScanControl

`TestbeamReadout` and `EudaqRun` take for granted that scans begin and end;
`ScanControl` is about that, for scans with charge injection (measured step by
step) and source scans outside the test-beam mode.

| Variable | Code |
|---|---|
| `shown`, `toStart` | where the main thread is: the panel shows no scan, `pixScan()` is starting threads, `FinishScan()` polls every 500 ms |
| `source`, `scans` | `getSourceScanFlag()`; the number of scans |
| `queue`, `status` | posted `setCtrlStatusEvent`s, `m_rodStatus` |
| `processing`, `abort` | `processing`, `m_abortScan` |
| `ctrl`, `step` | where the CtrlThread is in `scan()`, and the scan's loop index |
| `thr` | where the ScanThread is in `scanExecute()` and `startScan()` |
| `upc` | the flags of `USBPixController` (`busy`: `m_upcScanBusy` with `m_scanBusy` or `m_sourceScanBusy`; `done` likewise; `init`: `m_upcScanInit`; `finished`: `m_upcStartScanHasFinished`), the driver's `m_scanReady` and `m_scanCancelled`, the FPGA's measurement register |
| `taken`, `written`, `fault` | history: steps measured in this scan, whether its histograms were saved, groups in which something failed |

The CtrlThread's loop over steps is `StartStep` (848-931), `Await` (933-976, the
wait for a controller that is scanning), `Poll` (987, `nTrigger()`), `Check`
(1097-1134, the stop and `runStatus()`), `Settle` (the 500 ms at 1137 and
`next(0)`) and `EndScan` (1143-1218).  The ScanThread's `startScan()` is
`ScanExecute` (flags raised), `PrepareScan` (configuration written, the driver's
status reset, `m_upcScanInit` lowered; a source scan is started),  `StartScan`
(the driver's loops) and `FinishStart`.  `CtrlThrows` and `ScanThrows` are the
exceptions and their catch blocks, `InitRods` the initialisation by the user.

Abstractions: the three nested loops are one index; what is measured is a count;
the wait in `Await` fails only if something failed before its time limit ran
out; a group whose hardware failed once fails no more, but everything that
follows from it (the CtrlThread that is left waiting, flags that stay up, a main
thread that waits in `ThreadExecute()`) is modelled.  Left out are the loops
over DCS values, mask staging by the host, the FE-by-FE mode, the first part of
a cross-talk scan, ROD groups, and the processing of events inside `pixScan()`
(`EudaqRun`).

The properties except groups in which something failed, and what the code does
to such a group is not good: its end may be reported too early, `processing`
stays up after an early return (635, 640), and the flags of a controller whose
`startScan()` threw stay up until the program ends.  What they show is that the
other groups' data is not touched.  `StatusRestored` holds only as long as
nothing failed anywhere: a main thread that waits in `ThreadExecute()` for a
left-over thread does not handle the other groups' events.

Two circumstances are constants.  `Timely`: the code's waiting times suffice, that
is, a thread gets to its first statement within 500 ms, `startScan()` returns
within 500 ms of the driver's end, and the main thread handles an event during
the sleeps of a step.  The code has no other synchronisation: the flag that was
meant for it, `m_upcStartScanHasFinished`, is raised at the end of the first
step and never lowered.  `QuickStop`: a source scan may be stopped while it is
being started; then the stop is lost (STPixModuleGroup.cxx 1099-1102 before
USBPixController.cxx 2439), and TLC finds `StopEnds` violated.

### PrimList

| Variable | Code |
|---|---|
| `desk` | chosen once: repetitions asked for, whether there is a prober, whether `pixScan()` may fail, whether labels may be refused |
| `panel` | per panel (main window, inside the wafer test): `m_iiter`, `m_abortPressed`, the run button, and which of the engine's signals it is connected to |
| `engine` | `m_prlList`, `m_prlIndex`, `m_stopProcessing`, `m_prlSkipToEnd`, and who will call `processPrimList()` next: the start timer or `finishedScanning()` |
| `wafer` | `m_abortFlag`, `m_nChips`, the connection to `finishedList()`, the chuck; history: `tested`, `missed` |
| `stack` | handlers of the GUI thread that are inside `processEvents()` |
| `scan`, `monitor` | the scan threads; `m_scanTimer2` polls `FinishScan()` |
| `starts`, `late` | the bound; history: items begun after the abort |

A Qt signal calls the connected slots inside the `emit`, so slots are operators on
the record `u` of what the GUI thread owns, composed the way the code emits them
(`EmitPrlDone` is `finishedPrl()` of the main panel, then of the wafer panel, then
`probeStepInit()`, which starts the next list inside the same emit).  Only
`processEvents()` lets a button or a timer in, and an action ends there.  The three
calls of `processPrimList()` between its GUI updates (2614-2627) are two frames.

Abstractions: an item is its kind and its flags; a tool or chip test does nothing
but take time and, perhaps, fail.  Left out: the burn-in mask, a result file that
cannot be created, scans and tools the user starts by hand while a list is worked,
the GUI update in `startProbing()`, refused labels in wafer mode, and the check
for a running prober (`checkReadyForProbing()`); duplicate Qt connections, which
make a slot run twice, do not occur in what is modelled.  A desk with a prober asks
for one repetition in the main window: with more, the main panel launches its own
list when the wafer's list is done (PrimlistPanel.cxx 556-558).

### RequestChannel

| Variable | Code |
|---|---|
| `trouble` | chosen once: lists that `validate()` rejects, time limits that pass, lists sent without waiting |
| `call`, `size`, `kind`, `pc` | the host's current call and where it is |
| `prim` | `m_myPrimState` |
| `request`, `control`, `status` | request buffer, control word, the two halves of the status word |
| `dsp` | `state`, `nPrimitives`, `kPrimitive`; whose list it works on |
| `reply`, `got` | reply buffer (`whole`: its length has been filled in), what the host has taken |

Host: `Call`, `StartWriting`, `Written`, `SendTimeout` (`sendPrimList()`), `StartList`,
`SeeDone`, `ReadReply`, `Release` (`primHandler()`), `Return`, `GiveUp` (its callers).
DSP: one action per case of `proc()`, with the update of the status word as an action
of its own (`DspShow`), because the host polls in between.

Abstractions: primitives and replies are counted, not read; a list is torn while it is
being written (`Torn`, any length); `validateReplyBuffer()` is the length that
`wrapUpList()` fills in; the host's exceptions are the end of the call.  `RemoteCall`
is the abstract specification: ask, serve, answer, once per call.

### Usb3Scan

| Variable | Code |
|---|---|
| `trouble` | chosen once: `getData()` throws ("read fails"), `sendCommands()` throws ("send fails"), the read-out interval is longer than the scan thread's pause ("slow"), a loop is longer than the CtrlThread waits after an abort ("long") |
| `kind`, `mode` | the kind of scan that was asked for, and the one that the scan thread is at |
| `ctrl`, `abort`, `waits`, `stopped` | where the CtrlThread is, `m_abortScan`, `nAbortWait`; history: some scan was aborted |
| `running`, `finished`, `cancel` | the flags of `USB3PixController` |
| `pc`, `asked`, `loop`, `mask` | the scan thread: where it is, whether it waits in `setState()`, number of histogrammer sets, mask step |
| `state`, `change`, `pos`, `current`, `batch` | `Readout`: request, request flag; its thread's place, `current_state`, the data it holds |
| `fifo`, `hist` | which data (loop, mask step) are in the FIFO, in whose histograms |

Abstractions: a mask step leaves one element in the FIFO; data from earlier scans is
loop 0; the 100 ms at USB3PixController.cxx 906 are the guard `AllRead` of `Slept`
(until the FIFO has been read, or the reader is gone or slow); the conditional sends at
the end of a source scan are part of `SendFails`.  The CtrlThread is the same as in
`ScanControl`, reduced to what matters for one board.

Giving up.  The CtrlThread leaves its loop after 100 turns with the abort flag up,
about 100 s, whatever the scan thread is at (STPixModuleGroup.cxx 981, 1123).  The model
counts the turns (`waits`, up to `AbortWaits`) and gives up then.  What it cannot count
is how long the scan thread takes: it looks at `cancel_scan` between two loops only, and
one `scanLoop()` is mask steps times (50 ms and 40 double columns of commands), which can
be more than 100 s.  That is the trouble "long": with it `GiveUp` comes whenever the
turns have gone by, in the middle of a loop too, and the scan thread and the reader go on
while the CtrlThread takes the histograms.  Without it the turns go by only when the scan
thread is gone or waits for a dead reader (`Hopeless`).  After giving up, the next scan
may find the scan thread still at the last one: its `start()` does nothing
(`NewScanIgnored`), and the CtrlThread watches and collects the old scan.

## 3. Runs

| Run | Result | Shows |
|---|---|---|
| `TestbeamRound` | pass | two boards, two runs, a stop of the first at any moment, boards that fill at any speed: rounds do not mix, a stopped board is drained, `ReadoutBarrier` is refined |
| `TestbeamLive` | pass | under `SlowFill` every read-out is completed, and a stop between two rounds ends the run |
| `TestbeamLostRelease` | violation | without `SlowFill` a release is lost on a sleeping thread and everybody waits |
| `TestbeamStopUndone` | violation | a stop during a read-out pause is undone by the resume |
| `EudaqOrder` | pass | two runs in both worlds: framing of a run by BORE and EORE, nothing under way at the EORE; in the calm world every request is answered and every run opened |
| `TriggerOrder` | pass | three chips on two boards, any cut into rounds, a throwing `SendEvent()`: numbers are unwrapped exactly, events are aligned, a dummy means a missing trigger, only past data is dropped, nothing is left when the run is over |
| `ScanRound` | pass | two groups of which one may fail anywhere, two scans of either kind, a stop at any moment: steps are measured before they are taken over, saved scans are complete, the controller is free when it is asked, the reported end is one, the status is put back |
| `ScanLive` | pass | one scan of two steps, or a source scan: a scan with charge injection ends, a stop ends either kind |
| `PrlRound` | pass | a list that is repeated three times, or a wafer with a prober that may fail at any command; starts and aborts whenever a button allows them: no die left untested, an abort starts nothing more, one scan at a time, every list ends |
| `DspRound` | pass | four calls with lists of one to three primitives and every set of troubles: the reply is the caller's own and whole, the status word is true, turns are taken, calls return, `RemoteCall` is refined when there is no trouble |
| `DspPartLost` | violation | a list that is sent without waiting is written over before it was started |
| `Usb3Round` | pass | two scans of two loops and two mask steps, any abort, every set of troubles: one user of the decoder as far as no command fails and nobody gives up on a long loop, loops kept apart, complete results, an end |

Bounds.  Two boards are enough for everything that distinguishes "one" from
"all" (the count is compared with the number of boards; the proofs cover any
number).  Three fill levels (empty, read-out level, full) are all the code
tells apart.  Two runs show what one leaves to the next.  In `EudaqRun` one data
event before the last one is enough to have data queued behind a start, a stop
and another data event (the proofs cover any number).  In `TriggerOrder` (1.4
million states) a lap of three numbers and triggers up to 7 give two rollovers, with
triggers missed on both sides of each, lists that hold two triggers with the same TLU
number, and a `SendEvent()` that throws anywhere in a lap; two chips on one board and
one on the other tell "all chips of a board" from "all chips"; the proofs cover any
number of chips, laps and failures.  Runs follow each other without end there, so that what one leaves to the next is
covered.
In `ScanControl` the second scan (`ScanRound`) and the second step (`ScanLive`) meet
all that the first one left in the flags; the proofs cover any number of both.
`PrlRound` (12836 states): three dies, because the inner panel is frozen on the
first and not from the second on; three starts, so that a list follows an aborted
one; lists of three items hold each kind of item and a successor of each.
`DspRound` (136001 states): lists of one, two and three primitives tell "first",
"last" and "some"; the fourth call meets what three troubled ones left.
`Usb3Round` (1704594 states): two loops, two mask steps, a second scan after an
abort of the first, or on top of one that was given up; the proofs cover any number of
them.  `AbortWaits = 2` stands for the 100 turns: one turn is not enough to give up, and
the abort of a source scan, which counts one turn per press, needs two of them.
`EudaqOrder` has 355494 states.

`CHECK_DEADLOCK FALSE` stands where the modelled system really stops: after the last
run or call the bound allows, with every user free to do nothing, and where threads
wait for each other after a failure.

Fairness.  Threads are scheduled by the operating system and the Qt event loop
takes what is queued: weak fairness for each CtrlThread, for the main thread and
for the run-control thread once it is inside a callback.  Nobody has to
configure, start or stop a run, and the FPGA need not fill.  `PersistentSpec`
adds strong fairness for a parked thread: even a thread that sees the flag down
whenever it is down again and again does not escape the lost release.

In `ScanControl` the threads are scheduled and the main thread returns to its event
loop; `ScanEnds` and `StopEnds` need nothing else, because a board that is told to
stop, and the driver's loops, come to their end.  `PrimList` takes this as the
fairness of `ScanEnds`, and the event loop's of the GUI thread; the user need not do
anything.  `RequestChannel`: the callers' loops and the DSP's main loop go on.
`Usb3Scan`: each of the three threads keeps running; nothing is assumed of the
triggers of a source scan, which is why its end needs an abort.

Every property has a mutant: the `Slip...` operators stand next to the
definition they corrupt and differ from it the way a plausible mistake would.

## 4. Proofs

`TestbeamReadoutProofs` proves, for every finite set of boards, all levels and
any number of runs and stops, from the assumptions named in `TestbeamReadout`:

* `TypeCorrect`: the type invariant;
* `PausedBoardsAreQuiet`, `FinishedBoardsAreDrained`: in every run, whatever
  stops come, a paused board takes no data, and a thread that left its loop left
  an empty memory;
* `RoundAlways` (the inductive invariant `IInv`), `RoundIsCounted`, `RoundsDoNotMix`,
  `ReleaseIsComplete`: the accounting of the rounds until the first stop;
* `ReadoutIsABarrier`: the detailed round implements `ReadoutBarrier`.

The argument.  The producer counts events, not boards, so a release is complete
only if no board posts twice in a round.  What forbids that is the thread's own
order of work: a board posts in a round only while `readSram` is up or its
status said "stopped" or "full", and a board that has posted is parked with
`readSram` down.  `LoopInv` states what the order of a turn protects by itself
(each conjunct about one board, written only by its own thread), and is
inductive with `TypeOK` alone.  `RoundInv` adds the accounting: count plus queue
is the number of boards in `arrived`, and each of those is parked, paused and
asked for nothing.  It speaks of the first run until its stop only, because a
stop really breaks it: `boards_read_out` keeps what a stopped run counted
(STeudaq_producer.cxx 603-606; `OnStartRun()` does not reset it), and the next run
releases its boards too early.  `IInv` is their conjunction; the
proof has one lemma per conjunct and one step per action, and the four kinds of
steps on the round (flag raised, board arrives, flag lowered, nothing) are the
abstract actions of the refinement.

`EudaqRunProofs` proves, for any number of configurations, runs and data events:

* `TypeCorrect`, its sequences, its flags and the rest apart, each with a lemma;
* `RunsAreFramed` and `NothingUnderWay`, in both worlds.  `MainInv` is what the main
  thread keeps to, whatever the run-control thread does: "TB Mode" on the run button
  stands for the one scan that is being started, polled or wound up, and data is
  under way only in the last two cases.  `SentInv` relates the messages of the
  current run to the place of the run-control thread, and is why a late start cannot
  open a run again.  `RunInv` holds until `OnStopRun()` gives up and says that there
  is one scan per run: its start is queued, or it is under way, or its end is being
  told, and `run_finished` is true in the waiting loop only when all three are over;
* `RunsAreOpened`, with `CalmInv`: one initialisation at a time, whose outcome the
  producer knows (`OneInit`), and a start that is always heard (`StartHeard`).

The queue and the stack of handlers enter these only by what is in them (`Has`) and
what is in them at most once (`AtMostOnce`); six lemmas say how posting, taking,
entering, leaving and replacing change both.  `IInv` is the conjunction of the five
parts; each has a step lemma with one case per action.

`TriggerWordProofs` is about the operators, for every `Amount` and `Margin` and any list
of words: `UnwrapExact` (the number computed from a TLU number is the true one, while
successive triggers of a chip are less than a lap apart and a step over the rollover
starts within the margin), `FitsIsAligned` (triggers less than a lap apart that compare
equal are the same), `ScanExact` and `ScanBounded` (the same of a whole scan) and
`TurnIsExact` (one turn of the loop in `sendEventsI4()` on one chip's list).  `Scan` is
a recursive function of the words; `ScanByWord` unfolds it, by induction.  The library's
induction theorems take an operator as a parameter, which the provers here cannot
instantiate, so induction is taken in the form of the least-number principle, a
first-order statement about sets of natural numbers (`LeastNatural`, `Induction`); `Min`
and `Max` of a bounded set of integers rest on it, too.

`TriggerAlignProofs` proves all invariants of `TriggerAlign`, for any layout of boards and
chips, any lap length, number of laps and runs, misses and failures:

* `TypeCorrect`, whatever the chips miss.  `TypeInv` adds what it needs: what a chip
  keeps comes after all it handed over, in order, and no number is ahead of the
  triggers;
* `ExactCorrect`, from `MissesAllowed`.  `Covered` says what the condition gives: a
  number that nobody may miss is recorded by every chip, from the end of the first lap
  on.  Between two successive triggers of a chip there is then at most one end of a
  lap, and it is the first of the two (`RecordedFollow`), so that the scan can follow;
* `AlignedCorrect`, `DummyCorrect`, `DroppedCorrect`, `NothingKeptCorrect`, from
  `MissesAllowed`.  `Queued` is the heart: a chip's list holds, in order, exactly the
  triggers handed over that no turn has reached, except those whose `SendEvent()` threw.
  The code compares TLU numbers only; that this is enough follows from two things
  (`TurnPremises`): there is nothing before the turn's number in the list, and a list
  that goes on into the next lap has the last number of this one before that, which
  stops the dropping.  `Starting` is about the run's first number, where -1 means both
  "not set" and "before number 0", and `Limits` compares the limits and the chips' last
  numbers in each phase.

`SendInv` is the conjunction; each part has one lemma per action.

`ScanControlProofs` proves, for any set of groups and any number of steps and scans:

* `TypeCorrect`: the type invariant (with `IndexInv`, the bound of the loop index
  while a step is under way, which it needs to be inductive);
* `ControllerIsFree`: `startScan()` is never refused in a group in which nothing
  failed, whether or not the waiting times suffice.  `FlagInv` says who may touch
  the flags: a ScanThread that has not raised them has a CtrlThread that awaits
  it, and while `m_upcScanInit` is up the CtrlThread cannot see the end of a run;
* `StepsAreMeasured`, `SavedScansAreComplete`, `EndsAreTrue`, under the assumption
  `Timely`.  `StepInv` adds what each thread knows of the other: `IdleOf` (the main
  thread's view: a group at work is processing, and outside the step its
  ScanThread is idle), `ThreadOf` (while the driver measures, its status is
  neither ready nor, unless there was a stop, cancelled), `CountOf` (the steps
  measured are the loop index, plus one once this step is measured) and `SaveOf`;
* `StatusIsRestored`, under `Timely`.  A status change reaches the main thread as a
  queued signal, so what counts of a group is its last post in the queue or, when there
  is none, the status that the main thread holds (`EndsOk`).  `RestInv`: until something
  fails, a group whose CtrlThread is outside the loops ends as "ok", and a group still to
  be started is idle.  `PostedLast` and `HandledFirst` say how a post and its handling
  change that.

`Timely` is used in one place for each: by `Settle`, so that the next step finds the
ScanThread idle, and by `FinishScan`, so that a CtrlThread has raised `processing`
before it is polled.  A step belongs to one group (`OthersLeftAlone`), so each
lemma is about one group and the step lemmas have one case per action.

`RequestChannelProofs` proves, for any list sizes, any number of calls and every set
of troubles:

* `TypeCorrect`; `StatusTellsTheTruth` from `DspInv`, what the DSP's own state says of
  the status word and the reply, which holds whatever the host does;
* `RepliesAreOwn` from `CallInv`: from its start to the end of its reply the channel
  holds the list of the caller that waits, and the DSP can only have started this
  one.  The key is that `sendPrimList()` waits for a status of zero, which the DSP
  writes only after the control word was lowered, so an earlier call that was given
  up cannot be answered late;
* `TurnsAreTaken` from `OrderInv`: where the DSP can be, wherever the host is;
* `ChannelIsACall`: every step without trouble is `Ask`, `Serve`, `Answer` or a
  stutter.  `OldInv` adds that the reply buffer belongs to an earlier call until the
  DSP starts the list of this one, so that "served" begins once.

`Always` combines the five parts; each has a step lemma with one case per action.

`Usb3ScanProofs` proves, for any number of loops, mask steps and scans and every set of
troubles:

* `TypeCorrect` (with `LoopInv`, the bound of the loop number before `initLoop()`);
* `HandsKeptOff`: `HandInv` is the handshake of `setState()`: a request is up only
  while the scan thread waits, and an acknowledged state is the reader's own.
  `EndInv` says that, unless a command could not be sent, the reader is gone once the
  scan thread has stopped it, and `SeenInv` that the CtrlThread sees an end only then, or
  gives up on a scan thread that waits for a dead reader, or on a loop that is too long.
  For the last, `StopInv` says that turns are counted only after somebody has aborted a
  scan.  The theorem has the exceptions of `HandsOff`: the raw file is closed under the
  reader's hands only when a command failed, and histograms are taken under them only
  then or when an abort has been given up with long loops; the other two parts have none;
* `LoopsKeptApart`: `GoneInv` (a reader is gone only when stopped or dead) and
  `DataInv` (what is in the FIFO and in the reader's hands belongs to the current
  loop, and nothing is left of it when the loop changes);
* `ScansAreComplete`: however long the loops are, but without other trouble and without
  a stop (`CalmInv`: then nobody has given up, and the scan thread is at the scan that is
  watched), the mask steps measured in this loop are in the FIFO, in the reader's hands
  or in the loop's histograms, those of earlier loops are in theirs, and once the scan
  thread has the reader stopped nothing is left in the first two (`CompleteInv`).

`PrimListProofs` proves the five invariants of `PrimList`, for any two lists, any desks,
any number of chips and of starts.  There is first a lemma for each slot and each
operator, saying of the record `u` what it changes and what not (`BeganEffect` to
`AbortEffect`); after that no slot is opened again.  `IInv` says of the record:

* `EngineInv`: the engine waits in exactly one way, for its timer, for the end of a scan
  or for a handler to go on, and the stack has at most two handlers, of which the upper
  is the end of a scan that is met before `pixScan()` has returned (`OneScan`);
* `ListInv`: while a list is worked it is the list of a panel that shows it
  (`ListStillRunning`); `InMain` and `InWafer` say which buttons are then disabled and
  which connections are off, which is why nobody can start another one; otherwise
  everything is at rest.  `Held` says who knows of an abort: the panel, the engine and,
  in a wafer test, the prober (`AbortsHonoured`); and an engine that is through with
  the list of a die has either worked it or was aborted (`EveryDieIsTested`).

The theorems assume `OnceWithProber`: a desk with a prober asks for one repetition in the
main window.  The code does not see to that.  Without it `StillRunning` is false (TLC
finds it violated as soon as such a desk asks for two, see PrimList above), and with it
falls the argument for the others.

Only model-checked: the liveness properties (fairness and ENABLED are out of the
prover's reach).  For five formulas of `TestbeamReadout` (the type invariant, `IInv`,
`CountMatchesArrived`, `PausedIsQuiet` and `ReleaseNeedsAll`) and the type invariant of
`TriggerAlign` it is the other way round: they are proved and in no run.

## 5. Observations

What the code does in circumstances that the properties except, at its line:

* A run's count of read-out boards is carried into the next run
  (STeudaq_producer.cxx 603-606), whose first release then comes too early.
* A stop handled inside `pixScan()` (STControlEngine.cxx 2072) or while a source scan
  is being started (STPixModuleGroup.cxx 1102) is forgotten.
* A primitive list whose scan cannot be started waits for ever
  (STControlEngine.cxx 2835).
* With a prober and more than one repetition the main panel starts its own list when
  the wafer's list is done (PrimlistPanel.cxx 556-558), and the engine's list changes
  underneath the wafer test.
* A rejected list's status word counts as done, and its caller gets an old reply
  (RodModule.cxx 1272-1278).
* An abort that comes when a USBpix3 scan has just ended cuts the next one short
  (USB3PixController.cxx 1374); an exception in a source scan leaves `running` set
  (933); after a command that failed the raw file is closed under the reader's hands
  (926); data that arrive after the last read of a source scan are lost (1035).
* After 100 turns with the abort flag up the histograms of a USBpix3 scan are taken while
  a long loop still fills them (STPixModuleGroup.cxx 1123, 1136).  The next scan's
  `start()` then does nothing (926), and the old scan is watched and collected in its
  place; or its end, `finished`, is seen as that of the new one.  The abort of a source
  scan is taken back each time (1102): one that does not end takes a hundred presses.
* A reader that dies while the scan thread waits for it is not noticed
  (USBpix3I4/readout.cpp 16, 73), and one that died before `~Readout()` ends the
  program (33-34, 10).

## 6. What is left

1. To prove: every safety property that a run checks is proved.  Still open are which of
   `PrimList`'s theorems hold in part without `OnceWithProber`, and which of
   `ScanControl`'s without `Timely`.
2. To model: the text buffers and the heap of the DSP firmware; the FE-I3 variant of
   `TriggerAlign`; the device list of `SiLibUSB`.

Not modelled, and not planned: register contents and configuration data (data
without control), the nesting of the scan loops (arithmetic over configuration data;
`ScanControl` has its steps) and histograms, instrument and file I/O, display and fits,
vendored code.  These are nearly all of the repository's lines: what is modelled is the
control that is spread over several actors, and that is concentrated in few files.
