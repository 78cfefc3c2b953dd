------------------------------ MODULE PrimList ------------------------------
(***************************************************************************)
(* The execution of primitive lists and the probing of a wafer.            *)
(*                                                                         *)
(* Everything runs in the GUI thread.  The engine works a list item by     *)
(* item; a scan item returns to the event loop and the list goes on when   *)
(* FinishScan() emits finishedScanning().  Two primitive-list panels       *)
(* listen to the one engine: the panel of the main window ("main") and the *)
(* one inside the wafer-test panel ("wafer"), which starts the list again  *)
(* for every die.  Qt calls the connected slots in the middle of an emit,  *)
(* so a slot is an operator on the record u of the GUI thread's state, and *)
(* the calls of processEvents() are the only places where a timer or a     *)
(* button gets in between: `stack' holds the handlers that wait there.     *)
(***************************************************************************)
EXTENDS Naturals, Sequences, FiniteSets

CONSTANTS
  List,      (* panel -> sequence of items [kind, abort, keep, raise]       *)
  Desks,     (* what the user's desk looks like: records [repeat, prober,   *)
             (* mayFail, mayRefuse], see the assumption                     *)
  Chips,     (* the number of chips asked for in the wafer panel            *)
  MaxStart   (* bound: how often the user starts something                  *)

Panels == {"main", "wafer"}
Items  == [kind : {"scan", "tool", "chiptest"}, abort : BOOLEAN,
           keep : BOOLEAN, raise : BOOLEAN]

ASSUME ListAssumption  == List \in [Panels -> Seq(Items)]
ASSUME DeskAssumption  ==
  Desks \subseteq [repeat : Nat, prober : BOOLEAN, mayFail : BOOLEAN,
                   mayRefuse : BOOLEAN]
ASSUME ChipsAssumption == Chips \in Nat /\ MaxStart \in Nat

VARIABLES
  desk,     (* repetitions asked for, a prober is there, scans may fail,    *)
            (* list labels may be refused                                   *)
  panel,    (* each panel: iter, aborted (m_abortPressed), run (the button  *)
            (* is enabled), abortable (the button says "Abort"), frozen,    *)
            (* hears (connected to beganScanning() and finishedScanning()), *)
            (* freezes (connected to prlScanStarted())                      *)
  engine,   (* m_prlList, m_prlIndex, m_stopProcessing, m_prlSkipToEnd, the *)
            (* start timer, and listens: finishedScanning() is connected    *)
            (* to processPrimList()                                         *)
  wafer,    (* the wafer panel: probing, abort, chips, waits (connected to  *)
            (* finishedList()), the chuck, and what is known of its die     *)
  stack,    (* handlers of the GUI thread inside processEvents()            *)
  scan,     (* the scan threads: idle, running, over (not noticed yet)      *)
  monitor,  (* m_scanTimer2 polls FinishScan()                              *)
  starts,   (* bound: how often the user has started something              *)
  late      (* history: items begun since the list was told to stop         *)

vars == <<desk, panel, engine, wafer, stack, scan, monitor, starts, late>>

Now == [panel |-> panel, engine |-> engine, wafer |-> wafer, stack |-> stack]
Becomes(u) ==
  /\ panel' = u.panel /\ engine' = u.engine /\ wafer' = u.wafer
  /\ stack' = u.stack

Frames == {"finish", "next", "item", "tool", "scan", "started", "post"}

Init ==
  /\ desk \in Desks
  /\ panel = [p \in Panels |->
       [iter |-> 0, aborted |-> FALSE, run |-> TRUE,
        abortable |-> FALSE, frozen |-> FALSE, hears |-> TRUE, freezes |-> TRUE]]
  /\ engine = [list |-> "none", index |-> 0, stop |-> FALSE, skip |-> FALSE,
               timer |-> FALSE, listens |-> FALSE]
  /\ wafer = [probing |-> FALSE, abort |-> FALSE, chips |-> 0, waits |-> FALSE,
              chuck |-> "separate", tested |-> TRUE, missed |-> FALSE]
  /\ stack = <<>> /\ scan = "idle" /\ monitor = FALSE
  /\ starts = 0 /\ late = 0

Niter(p) == IF p = "main" THEN desk.repeat ELSE 1
Push(u, frame) == [u EXCEPT !.stack = <<frame>> \o @]
Pop(u)         == [u EXCEPT !.stack = Tail(@)]

-----------------------------------------------------------------------------
(* What a panel does when the engine emits one of its signals.              *)

DisableStart(p) == [p EXCEPT !.run = FALSE]

(* freezePanel() (slip: the panel still hears of the scans in its list).    *)
SlipStillHears(p) == [p EXCEPT !.frozen = TRUE, !.run = FALSE]
FreezePanel(p) == [p EXCEPT !.hears = FALSE, !.frozen = TRUE, !.run = FALSE]

(* finishedScan(): the panel goes into its idle state.                      *)
FinishedScan(p) ==
  [p EXCEPT !.iter = 0, !.freezes = TRUE, !.abortable = FALSE, !.run = TRUE]

EmitBegan(u) ==
  [u EXCEPT !.panel = [p \in Panels |->
     IF @[p].hears THEN DisableStart(@[p]) ELSE @[p]]]

EmitFinished(u) ==
  [u EXCEPT !.panel = [p \in Panels |->
     IF @[p].hears THEN FinishedScan(@[p]) ELSE @[p]]]

EmitPrlStarted(u) ==
  [u EXCEPT !.panel = [p \in Panels |->
     IF @[p].freezes THEN FreezePanel(@[p]) ELSE @[p]]]

-----------------------------------------------------------------------------
(* Starting a list.                                                         *)

(* launchPrimList(): forget the last list and start the timer (slip: the    *)
(* stop flag of the last list is not taken back).                           *)
SlipKeepsStop(u, p) ==
  [u EXCEPT !.engine.list = p, !.engine.index = 0, !.engine.skip = FALSE,
            !.engine.timer = TRUE]
SetList(u, p) ==
  [u EXCEPT !.engine.list = p, !.engine.index = 0, !.engine.skip = FALSE,
            !.engine.stop = FALSE, !.engine.timer = TRUE]

Launch(u, p) == SetList(EmitPrlStarted(EmitBegan(u)), p)

(* The end of finishedPrl(): the panel is idle and can be edited again.     *)
Settle(u, p) ==
  [u EXCEPT !.panel[p] = [FinishedScan(@) EXCEPT !.hears = TRUE, !.frozen = FALSE]]

(* startPrl(): the panel's button becomes an abort button; the panel of the *)
(* wafer test has been frozen by that panel's own start.                    *)
StartPrl(u, p) ==
  LET clean == [u EXCEPT !.panel[p].aborted = FALSE, !.panel[p].freezes = FALSE,
                         !.panel[p].iter = 0]
      shown == [clean EXCEPT !.panel[p] =
                  [FreezePanel(@) EXCEPT !.run = TRUE, !.abortable = TRUE]]
  IN Launch(IF p = "main" THEN shown ELSE clean, p)

(* finishedPrl() repeats the list as often as asked for, unless abort was   *)
(* pressed.                                                                 *)
Repeats(u, p) == u.panel[p].iter + 1 < Niter(p) /\ ~u.panel[p].aborted

FinishedPrl(u, p) ==
  IF Repeats(u, p) THEN Launch([u EXCEPT !.panel[p].iter = @ + 1], p)
  ELSE Settle(u, p)

-----------------------------------------------------------------------------
(* The wafer test.  A prober command may throw, which ends the probing      *)
(* where it stands; `fault' is the command that does.                       *)

Faults == {"none", "separate", "move", "waferend", "contact", "position"}

FinishProbing(u) ==
  Settle([u EXCEPT !.wafer.probing = FALSE, !.panel["wafer"].run = TRUE], "wafer")

Separate(u) == [u EXCEPT !.wafer.chuck = "separate"]

(* The chuck leaves a die for another one: was its list run to the end?     *)
Move(u) ==
  [u EXCEPT !.wafer.missed = @ \/ ~u.wafer.tested \/ u.wafer.chuck = "contact"]

(* Contact the die and start the list.                                      *)
TestDie(u, fault) ==
  IF fault = "contact" THEN FinishProbing(u)
  ELSE LET down == [u EXCEPT !.wafer.chuck = "contact", !.wafer.tested = FALSE]
       IN IF fault = "position" THEN FinishProbing(down)
          ELSE StartPrl([down EXCEPT !.wafer.waits = TRUE], "wafer")

(* probeStepInit(): after an abort and after the last chip only separate.   *)
LastStep(u) == u.wafer.abort \/ (Chips > 0 /\ u.wafer.chips + 1 >= Chips)

NextDie(u, fault) ==
  LET off == Separate([u EXCEPT !.wafer.waits = FALSE])
  IN IF fault = "separate" THEN FinishProbing([u EXCEPT !.wafer.waits = FALSE])
     ELSE IF LastStep(u) THEN FinishProbing(off)
     ELSE IF fault = "move" THEN FinishProbing(off)
     ELSE IF fault = "waferend"
     THEN FinishProbing([off EXCEPT !.wafer.chips = @ + 1])
     ELSE TestDie(Move([off EXCEPT !.wafer.chips = @ + 1]), fault)

(* prlDone(): first the main panel's finishedPrl(), then the wafer panel's, *)
(* whose finishedList() brings on the next die.                             *)
EmitPrlDone(u, fault) ==
  LET both == FinishedPrl(FinishedPrl(u, "main"), "wafer")
  IN IF u.wafer.waits THEN NextDie(both, fault) ELSE both

-----------------------------------------------------------------------------
(* Working a list.                                                          *)

(* processPrimList() disconnects itself from the timer and from             *)
(* finishedScanning() and takes the next item.  At the end of the list or   *)
(* after an abort it emits finishedScanning() and lets the GUI update.      *)
Disconnect(u) == [u EXCEPT !.engine.timer = FALSE, !.engine.listens = FALSE]

(* The list has come to its end (slip: it is noticed one item too late).    *)
SlipPastEnd(u) ==
  u.engine.index > Len(List[u.engine.list]) \/ u.engine.stop
ListOver(u) ==
  u.engine.index = Len(List[u.engine.list]) \/ u.engine.stop

Finish(u) == Push(EmitFinished(u), "finish")

(* The die has been tested when all items have been worked.                 *)
Tested(u) ==
  IF u.engine.list = "wafer" THEN [u EXCEPT !.wafer.tested = TRUE] ELSE u
EndOfList(u) ==
  Finish(IF u.engine.index = Len(List[u.engine.list]) THEN Tested(u) ELSE u)

NextItem(v) ==
  LET u == Disconnect(v)
  IN IF ListOver(u) THEN EndOfList(u)
     ELSE Push([u EXCEPT !.engine.index = @ + 1], "next")

Item == List[engine.list][engine.index]

(* An item that could not be started ends the list only if it says so.      *)
StartError(u) == IF Item.abort THEN Finish(Tested(u)) ELSE NextItem(u)

Top == IF stack = <<>> THEN "loop" ELSE Head(stack)
Popped == Pop(Now)

(* The start timer fires.                                                   *)
ProcessPrimList ==
  /\ engine.timer
  /\ Becomes(NextItem(Now))
  /\ UNCHANGED <<desk, scan, monitor, starts, late>>

(* All panels that listen are frozen before the item is worked.             *)
ShowItem ==
  /\ Top = "next"
  /\ Becomes(Push(EmitPrlStarted(Popped), "item"))
  /\ UNCHANGED <<desk, scan, monitor, starts, late>>

Counted == late' = IF panel[engine.list].aborted THEN late + 1 ELSE late

(* The item is left out once a test has failed, unless it is to be kept.    *)
SkipItem ==
  /\ Top = "item" /\ engine.skip /\ ~Item.keep
  /\ Becomes(NextItem(Popped))
  /\ UNCHANGED <<desk, scan, monitor, starts, late>>

Works(kind) == Top = "item" /\ (engine.skip => Item.keep) /\ Item.kind = kind

(* launchPrlScans(): pixScan() lets the GUI update itself first.            *)
BeginScan ==
  /\ Works("scan")
  /\ Becomes(Push(EmitPrlStarted(Popped), "scan"))
  /\ Counted
  /\ UNCHANGED <<desk, scan, monitor, starts>>

(* No board is initialised, or a tool's arguments are missing.              *)
ItemRefused ==
  /\ \E kind \in {"scan", "tool"} : Works(kind)
  /\ Becomes(StartError(Popped))
  /\ UNCHANGED <<desk, scan, monitor, starts, late>>

(* A tool or a chip test lets the GUI update itself while it works; a chip  *)
(* test announces itself like a scan.                                       *)
BeginTool ==
  /\ \E kind \in {"tool", "chiptest"} : Works(kind)
  /\ Becomes(Push(IF Item.kind = "chiptest" THEN EmitBegan(Popped) ELSE Popped, "tool"))
  /\ Counted
  /\ UNCHANGED <<desk, scan, monitor, starts>>

(* It is done: whoever is connected to finishedScanning() hears of a chip   *)
(* test, and a failure may skip the rest of the list.                       *)
Heard(u) == IF u.engine.listens THEN NextItem(u) ELSE u

EndTool ==
  /\ Top = "tool"
  /\ \E skip \in {engine.skip, engine.skip \/ Item.raise} :
       LET told == IF Item.kind = "chiptest" THEN Heard(EmitFinished(Popped))
                   ELSE Popped
       IN Becomes(NextItem([told EXCEPT !.engine.skip = skip]))
  /\ UNCHANGED <<desk, scan, monitor, starts, late>>

(* pixScan() starts the scan threads and its own monitoring ...             *)
ScanStarts ==
  /\ Top = "scan"
  /\ Becomes(Push(EmitBegan(Popped), "started"))
  /\ scan' = "running" /\ monitor' = TRUE
  /\ UNCHANGED <<desk, starts, late>>

(* ... or returns early because a board refuses the scan configuration;     *)
(* launchPrlScans() does not look at the outcome.                           *)
ScanFails ==
  /\ Top = "scan" /\ desk.mayFail
  /\ Becomes([Popped EXCEPT !.engine.listens = TRUE])
  /\ UNCHANGED <<desk, scan, monitor, starts, late>>

(* "after scan: go to next prl item" (slips: the connection is forgotten;   *)
(* the next item is not kept waiting).                                      *)
SlipNotConnected(u) == u
SlipGoesOn(u) == NextItem(u)
GoOnAfterScan(u)    == [u EXCEPT !.engine.listens = TRUE]

ScanStarted ==
  /\ Top = "started"
  /\ Becomes(GoOnAfterScan(Popped))
  /\ UNCHANGED <<desk, scan, monitor, starts, late>>

(* The scan threads are done.                                               *)
ScanEnds ==
  /\ scan = "running" /\ scan' = "over"
  /\ UNCHANGED <<desk, panel, engine, wafer, stack, monitor, starts, late>>

(* FinishScan() notices, in the event loop or (when pixScan()'s last        *)
(* processEvents() takes longer than the poll interval) inside pixScan().   *)
FinishScan ==
  /\ monitor /\ scan = "over"
  /\ Top = "loop" \/ (Top = "started" /\ desk.mayFail)
  /\ monitor' = FALSE
  /\ Becomes(Push(Now, "post"))
  /\ UNCHANGED <<desk, scan, starts, late>>

FinishedScanning ==
  /\ Top = "post"
  /\ scan' = "idle"
  /\ Becomes(Heard(EmitFinished(Popped)))
  /\ UNCHANGED <<desk, monitor, starts, late>>

PrlDone ==
  /\ Top = "finish"
  /\ \E fault \in IF desk.prober THEN Faults ELSE {"none"} :
       Becomes(EmitPrlDone(Popped, fault))
  /\ UNCHANGED <<desk, scan, monitor, starts, late>>

-----------------------------------------------------------------------------
(* The user.                                                                *)

(* "Start list" in the main window.  The labels may be refused, or the      *)
(* output file is there already, which leads to the idle state.             *)
StartList ==
  /\ starts < MaxStart /\ starts' = starts + 1
  /\ panel["main"].run /\ ~panel["main"].abortable
  /\ Becomes(StartPrl(Now, "main"))
  /\ late' = 0
  /\ UNCHANGED <<desk, scan, monitor>>

StartRefused ==
  /\ desk.mayRefuse /\ starts < MaxStart /\ starts' = starts + 1
  /\ panel["main"].run /\ ~panel["main"].abortable
  /\ Becomes([Now EXCEPT !.panel["main"].aborted = FALSE])
  /\ UNCHANGED <<desk, scan, monitor, late>>

(* "Start Probing": separate, go to the first die, contact, start the list. *)
FirstDie(u, fault) ==
  LET on == [u EXCEPT !.wafer.probing = TRUE, !.wafer.abort = FALSE,
                      !.panel["wafer"] = [FreezePanel(@) EXCEPT !.run = TRUE]]
  IN IF fault = "separate" THEN FinishProbing(on)
     ELSE IF fault = "move" THEN FinishProbing(Separate(on))
     ELSE TestDie([Separate(on) EXCEPT !.wafer.chips = 0, !.wafer.waits = FALSE],
                  fault)

StartProbing ==
  /\ starts < MaxStart /\ starts' = starts + 1
  /\ desk.prober /\ panel["wafer"].run /\ ~wafer.probing
  /\ \E fault \in Faults \ {"waferend"} : Becomes(FirstDie(Now, fault))
  /\ late' = 0
  /\ UNCHANGED <<desk, scan, monitor>>

(* abortPrl(): remembered by the panel, which starts no further list, and   *)
(* by the engine, which starts no further item (slip: only by the panel).   *)
SlipAbort(u, p) == [u EXCEPT !.panel[p].aborted = TRUE, !.panel[p].run = FALSE]
AbortPrl(u, p) ==
  [u EXCEPT !.panel[p].aborted = TRUE, !.panel[p].run = FALSE, !.engine.stop = TRUE]

AbortList ==
  /\ panel["main"].run /\ panel["main"].abortable
  /\ Becomes(AbortPrl(Now, "main"))
  /\ UNCHANGED <<desk, scan, monitor, starts, late>>

AbortProbing ==
  /\ panel["wafer"].run /\ wafer.probing
  /\ Becomes(AbortPrl([Now EXCEPT !.wafer.abort = TRUE], "wafer"))
  /\ UNCHANGED <<desk, scan, monitor, starts, late>>

-----------------------------------------------------------------------------
GuiThread ==
  \/ ProcessPrimList \/ ShowItem \/ SkipItem \/ BeginScan \/ ItemRefused
  \/ BeginTool \/ EndTool \/ ScanStarts \/ ScanFails \/ ScanStarted
  \/ FinishScan \/ FinishedScanning \/ PrlDone

User == StartList \/ StartRefused \/ StartProbing \/ AbortList \/ AbortProbing

Next == GuiThread \/ ScanEnds \/ User

Spec == Init /\ [][Next]_vars

(* Timers fire, handlers go on when nothing is pending, and scans end (see  *)
(* ScanControl).  The user need not do anything.                            *)
FairSpec == Spec /\ WF_vars(GuiThread) /\ WF_vars(ScanEnds)

-----------------------------------------------------------------------------
(* Every variable keeps its type.                                           *)
TypeOK ==
  /\ desk \in Desks
  /\ panel \in [Panels -> [iter : Nat, aborted : BOOLEAN, run : BOOLEAN,
                           abortable : BOOLEAN, frozen : BOOLEAN,
                           hears : BOOLEAN, freezes : BOOLEAN]]
  /\ \A p \in Panels : panel[p].iter <= Niter(p)
  /\ engine \in [list : Panels \cup {"none"}, index : Nat, stop : BOOLEAN,
                 skip : BOOLEAN, timer : BOOLEAN, listens : BOOLEAN]
  /\ engine.list # "none" => engine.index <= Len(List[engine.list])
  /\ wafer \in [probing : BOOLEAN, abort : BOOLEAN, chips : Nat, waits : BOOLEAN,
                chuck : {"separate", "contact"}, tested : BOOLEAN,
                missed : BOOLEAN]
  /\ stack \in Seq(Frames)
  /\ scan \in {"idle", "running", "over"} /\ monitor \in BOOLEAN
  /\ starts \in 0..MaxStart /\ late \in Nat

(* A list is being worked, and what its panel shows as being in progress.   *)
Busy == engine.timer \/ engine.listens \/ Len(stack) > 0

InProgress(p) ==
  IF p = "main" THEN panel[p].abortable ELSE wafer.probing /\ wafer.waits

(* The chuck leaves a die for the next one only after the list has worked   *)
(* all its items there, or ended itself at an item that asks for that, and  *)
(* never in contact: the two panels and the engine are all connected to the *)
(* same few signals (WaferTestPanel::probeStepInit()).                      *)
EveryDieTested == ~wafer.missed

(* After the user's abort the list begins at most the item that was already *)
(* on its way through the GUI updates of processPrimList(): neither the     *)
(* next item, repetition nor die (abortPrl(), abortPrlExec()).              *)
AbortHonoured == late <= 1

(* The engine has one scan at a time: pixScan() is not entered while it is  *)
(* already inside pixScan(), and does not start the scan threads while      *)
(* those of the last scan run or have not been finished yet.                *)
OneScanAtATime ==
  /\ Cardinality({i \in DOMAIN stack : stack[i] \in {"scan", "started"}}) <= 1
  /\ Top = "scan" => scan = "idle"

(* As long as the engine works a list, it is the list of a panel that shows *)
(* it as in progress: nobody can start another one underneath, and the      *)
(* end of it finds its panel (launchPrimList(), finishedPrl()).             *)
StillRunning == Busy => engine.list \in Panels /\ InProgress(engine.list)

(* The engine ends every list that a panel has started, and the panel and   *)
(* the prober come back to their idle state; provided that pixScan() does   *)
(* not fail and does not spend 500 ms in its last GUI update.               *)
ListEnds ==
  ~desk.mayFail =>
    (panel["main"].abortable \/ wafer.probing
       ~> ~panel["main"].abortable /\ ~wafer.probing)

=============================================================================
