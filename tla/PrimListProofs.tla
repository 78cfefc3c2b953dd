--------------------------- MODULE PrimListProofs ---------------------------
(***************************************************************************)
(* Proofs about PrimList: the slots of the GUI thread one by one, as what  *)
(* they do to the record u, and from them the inductive invariant.         *)
(*                                                                         *)
(* A list is being worked exactly while the timer runs, the engine listens *)
(* for the end of a scan, or a handler waits in processEvents().  All that *)
(* time it is the list of one panel, and every way to start another one is *)
(* closed: the other panel is disabled or not connected, and the button of *)
(* the panel itself says "Abort".  An abort is known at once to the panel, *)
(* to the engine and (in a wafer test) to the prober, so neither an item,  *)
(* a repetition nor a die can follow.                                      *)
(***************************************************************************)
EXTENDS PrimList, FiniteSetTheorems, SequenceTheorems, TLAPS

(* The record that the slots work on, and its parts.                        *)
PanelType == [iter : Nat, aborted : BOOLEAN, run : BOOLEAN, abortable : BOOLEAN,
              frozen : BOOLEAN, hears : BOOLEAN, freezes : BOOLEAN]
EngineType == [list : Panels \cup {"none"}, index : Nat, stop : BOOLEAN,
               skip : BOOLEAN, timer : BOOLEAN, listens : BOOLEAN]
WaferType == [probing : BOOLEAN, abort : BOOLEAN, chips : Nat, waits : BOOLEAN,
              chuck : {"separate", "contact"}, tested : BOOLEAN, missed : BOOLEAN]
State == [panel : [Panels -> PanelType], engine : EngineType, wafer : WaferType,
          stack : Seq(Frames)]

-----------------------------------------------------------------------------
(* What the panels make of the engine's signals.                            *)

(* Nothing but the panels is touched, and of those neither the count of the *)
(* repetitions, unless it is reset, nor the abort.                          *)
PanelsOnly(u, v) ==
  /\ v \in State
  /\ v.engine = u.engine /\ v.wafer = u.wafer /\ v.stack = u.stack
  /\ \A p \in Panels : /\ v.panel[p].aborted = u.panel[p].aborted
                       /\ v.panel[p].iter \in {0, u.panel[p].iter}

LEMMA BeganEffect ==
  ASSUME NEW u \in State
  PROVE  /\ PanelsOnly(u, EmitBegan(u))
         /\ \A p \in Panels :
              LET x == u.panel[p]
                  y == EmitBegan(u).panel[p]
              IN /\ y.iter = x.iter /\ y.abortable = x.abortable
                 /\ y.hears = x.hears /\ y.freezes = x.freezes
                 /\ ~x.run \/ x.hears => ~y.run
                 /\ ~x.hears => y.run = x.run
<1> DEFINE f == [p \in Panels |->
                   IF u.panel[p].hears THEN DisableStart(u.panel[p]) ELSE u.panel[p]]
<1>1. EmitBegan(u) = [u EXCEPT !.panel = f]
  BY DEF EmitBegan
<1>2. \A p \in Panels : u.panel[p] \in PanelType
  BY DEF State
<1>3. \A p \in Panels :
        LET x == u.panel[p] IN
        /\ f[p] \in PanelType
        /\ f[p].aborted = x.aborted /\ f[p].iter = x.iter
        /\ f[p].abortable = x.abortable
        /\ f[p].hears = x.hears /\ f[p].freezes = x.freezes
        /\ ~x.run \/ x.hears => ~f[p].run
        /\ ~x.hears => f[p].run = x.run
  BY <1>2 DEF DisableStart, PanelType
<1>4. f \in [Panels -> PanelType]
  BY <1>3
<1> HIDE DEF f
<1>5. /\ EmitBegan(u) \in State /\ EmitBegan(u).panel = f
      /\ EmitBegan(u).engine = u.engine /\ EmitBegan(u).wafer = u.wafer
      /\ EmitBegan(u).stack = u.stack
  BY <1>1, <1>4 DEF State
<1> QED
  BY <1>3, <1>5 DEF PanelsOnly

LEMMA FinishedEffect ==
  ASSUME NEW u \in State
  PROVE  /\ PanelsOnly(u, EmitFinished(u))
         /\ \A p \in Panels :
              LET x == u.panel[p]
                  y == EmitFinished(u).panel[p]
              IN /\ y.hears = x.hears
                 /\ ~x.hears => y.iter = x.iter /\ y.abortable = x.abortable
                                /\ y.freezes = x.freezes /\ y.run = x.run
<1> DEFINE f == [p \in Panels |->
                   IF u.panel[p].hears THEN FinishedScan(u.panel[p]) ELSE u.panel[p]]
<1>1. EmitFinished(u) = [u EXCEPT !.panel = f]
  BY DEF EmitFinished
<1>2. \A p \in Panels : u.panel[p] \in PanelType
  BY DEF State
<1>3. \A p \in Panels :
        LET x == u.panel[p] IN
        /\ f[p] \in PanelType
        /\ f[p].aborted = x.aborted /\ f[p].iter \in {0, x.iter}
        /\ f[p].hears = x.hears
        /\ ~x.hears => f[p] = x
  BY <1>2 DEF FinishedScan, PanelType
<1>4. f \in [Panels -> PanelType]
  BY <1>3
<1> HIDE DEF f
<1>5. /\ EmitFinished(u) \in State /\ EmitFinished(u).panel = f
      /\ EmitFinished(u).engine = u.engine /\ EmitFinished(u).wafer = u.wafer
      /\ EmitFinished(u).stack = u.stack
  BY <1>1, <1>4 DEF State
<1> QED
  BY <1>3, <1>5 DEF PanelsOnly

LEMMA StartedEffect ==
  ASSUME NEW u \in State
  PROVE  /\ PanelsOnly(u, EmitPrlStarted(u))
         /\ \A p \in Panels :
              LET x == u.panel[p]
                  y == EmitPrlStarted(u).panel[p]
              IN /\ y.iter = x.iter /\ y.abortable = x.abortable
                 /\ y.freezes = x.freezes
                 /\ x.freezes => ~y.hears /\ ~y.run
                 /\ ~x.freezes => y.hears = x.hears /\ y.run = x.run
<1> DEFINE f == [p \in Panels |->
                   IF u.panel[p].freezes THEN FreezePanel(u.panel[p]) ELSE u.panel[p]]
<1>1. EmitPrlStarted(u) = [u EXCEPT !.panel = f]
  BY DEF EmitPrlStarted
<1>2. \A p \in Panels : u.panel[p] \in PanelType
  BY DEF State
<1>3. \A p \in Panels :
        LET x == u.panel[p] IN
        /\ f[p] \in PanelType
        /\ f[p].aborted = x.aborted /\ f[p].iter = x.iter
        /\ f[p].abortable = x.abortable
        /\ f[p].freezes = x.freezes
        /\ x.freezes => ~f[p].hears /\ ~f[p].run
        /\ ~x.freezes => f[p] = x
  BY <1>2 DEF FreezePanel, PanelType
<1>4. f \in [Panels -> PanelType]
  BY <1>3
<1> HIDE DEF f
<1>5. /\ EmitPrlStarted(u) \in State /\ EmitPrlStarted(u).panel = f
      /\ EmitPrlStarted(u).engine = u.engine /\ EmitPrlStarted(u).wafer = u.wafer
      /\ EmitPrlStarted(u).stack = u.stack
  BY <1>1, <1>4 DEF State
<1> QED
  BY <1>3, <1>5 DEF PanelsOnly

(* A launched list waits for its timer, and the panels have heard of it.    *)
LEMMA LaunchEffect ==
  ASSUME NEW u \in State, NEW l \in Panels
  PROVE  LET v == Launch(u, l) IN
         /\ v \in State /\ v.wafer = u.wafer /\ v.stack = u.stack
         /\ v.engine.list = l /\ v.engine.index = 0 /\ v.engine.timer
         /\ ~v.engine.stop /\ v.engine.listens = u.engine.listens
         /\ \A p \in Panels :
              LET x == u.panel[p]
                  y == v.panel[p]
              IN /\ y.aborted = x.aborted /\ y.iter = x.iter
                 /\ y.abortable = x.abortable /\ y.freezes = x.freezes
                 /\ x.freezes => ~y.hears /\ ~y.run
                 /\ ~x.freezes => y.hears = x.hears
                 /\ ~x.freezes /\ ~x.hears => y.run = x.run
<1> DEFINE a == EmitBegan(u)
           b == EmitPrlStarted(a)
           v == Launch(u, l)
<1>1. a \in State
  BY BeganEffect DEF PanelsOnly
<1>2. b \in State
  BY <1>1, StartedEffect DEF PanelsOnly
<1>3. v = SetList(b, l)
  BY DEF Launch
<1>4. /\ v \in State /\ v.panel = b.panel /\ v.wafer = b.wafer /\ v.stack = b.stack
      /\ v.engine.list = l /\ v.engine.index = 0 /\ v.engine.timer
      /\ ~v.engine.stop /\ v.engine.listens = b.engine.listens
  <2> HIDE DEF v, b
  <2> QED
    BY <1>2, <1>3 DEF SetList, State, EngineType
<1>5. /\ b.engine = u.engine /\ b.wafer = u.wafer /\ b.stack = u.stack
  BY <1>1, BeganEffect, StartedEffect DEF PanelsOnly
<1>6. ASSUME NEW p \in Panels
      PROVE  LET x == u.panel[p]
                 y == b.panel[p]
             IN /\ y.aborted = x.aborted /\ y.iter = x.iter
                /\ y.abortable = x.abortable /\ y.freezes = x.freezes
                /\ x.freezes => ~y.hears /\ ~y.run
                /\ ~x.freezes => y.hears = x.hears
                /\ ~x.freezes /\ ~x.hears => y.run = x.run
  BY <1>1, BeganEffect, StartedEffect DEF PanelsOnly
<1> HIDE DEF a, b, v
<1> QED
  BY <1>4, <1>5, <1>6 DEF v

-----------------------------------------------------------------------------
(* Who is allowed to do what while a list is being worked.                  *)

(* Nothing is in progress, and every panel will be frozen by the next list. *)
Rested(u) ==
  /\ ~u.panel["main"].abortable /\ u.panel["main"].freezes
  /\ u.panel["wafer"].freezes
  /\ ~u.wafer.probing /\ ~u.wafer.waits

(* The list of the main panel is worked; with a prober the wafer test       *)
(* cannot be started meanwhile.                                             *)
InMain(u) ==
  /\ u.engine.list = "main"
  /\ u.panel["main"].abortable
  /\ ~u.panel["main"].hears /\ ~u.panel["main"].freezes
  /\ ~u.wafer.probing /\ ~u.wafer.waits
  /\ desk.prober => ~u.panel["wafer"].run /\ ~u.panel["wafer"].hears

(* The list of the wafer panel is worked; the main panel is frozen.         *)
InWafer(u) ==
  /\ u.engine.list = "wafer"
  /\ desk.prober /\ u.wafer.probing /\ u.wafer.waits
  /\ ~u.panel["main"].abortable
  /\ ~u.panel["main"].run /\ ~u.panel["main"].hears

(* A list has just been launched, and nobody has stopped it yet.            *)
Launched(u) ==
  /\ u.engine.timer /\ ~u.engine.stop /\ u.engine.index = 0
  /\ InMain(u) \/ InWafer(u)
  /\ ~u.panel[u.engine.list].aborted

(* No panel has repeated its list more often than asked for.                *)
Iterations(u) == \A p \in Panels : u.panel[p].iter <= Niter(p)

(* The assumption: with a prober the main window's list is not repeated.    *)
OnceWithProber == \A d \in Desks : d.prober => d.repeat <= 1

LEMMA StateParts ==
  ASSUME NEW u \in State
  PROVE  /\ u.panel \in [Panels -> PanelType] /\ u.engine \in EngineType
         /\ u.wafer \in WaferType /\ u.stack \in Seq(Frames)
         /\ \A p \in Panels : u.panel[p] \in PanelType /\ u.panel[p].iter \in Nat
BY DEF State, PanelType

(* A panel that is settled can start and hear again.                        *)
LEMMA SettleEffect ==
  ASSUME NEW u \in State, NEW l \in Panels
  PROVE  LET v == Settle(u, l) IN
         /\ v \in State
         /\ v.engine = u.engine /\ v.wafer = u.wafer /\ v.stack = u.stack
         /\ \A p \in Panels \ {l} : v.panel[p] = u.panel[p]
         /\ v.panel[l].iter = 0 /\ v.panel[l].aborted = u.panel[l].aborted
         /\ v.panel[l].freezes /\ v.panel[l].run /\ ~v.panel[l].abortable
<1> DEFINE x == [FinishedScan(u.panel[l]) EXCEPT !.hears = TRUE, !.frozen = FALSE]
<1>1. Settle(u, l) = [u EXCEPT !.panel = [u.panel EXCEPT ![l] = x]]
  BY DEF Settle
<1>2. /\ x \in PanelType /\ x.iter = 0 /\ x.aborted = u.panel[l].aborted
      /\ x.freezes /\ x.run /\ ~x.abortable
  BY StateParts DEF FinishedScan, PanelType
<1> HIDE DEF x
<1> QED
  BY <1>1, <1>2 DEF State

LEMMA NiterNat ==
  ASSUME desk \in Desks
  PROVE  \A p \in Panels : Niter(p) \in Nat
BY DeskAssumption DEF Niter, Panels

(* A panel whose list is started: nothing is left of the last one.          *)
Cleaned(u, l) == [u EXCEPT !.panel[l].aborted = FALSE, !.panel[l].freezes = FALSE,
                           !.panel[l].iter = 0]

LEMMA CleanEffect ==
  ASSUME NEW u \in State, NEW l \in Panels
  PROVE  LET v == Cleaned(u, l) IN
         /\ v \in State
         /\ v.engine = u.engine /\ v.wafer = u.wafer /\ v.stack = u.stack
         /\ \A p \in Panels \ {l} : v.panel[p] = u.panel[p]
         /\ v.panel[l].iter = 0 /\ ~v.panel[l].aborted /\ ~v.panel[l].freezes
         /\ v.panel[l].abortable = u.panel[l].abortable
<1> DEFINE x == [u.panel[l] EXCEPT !.aborted = FALSE, !.freezes = FALSE, !.iter = 0]
<1>1. u.panel[l] \in PanelType /\ u.panel \in [Panels -> PanelType]
  BY StateParts
<1>2. Cleaned(u, l) = [u EXCEPT !.panel = [u.panel EXCEPT ![l] = x]]
  BY <1>1 DEF Cleaned, State, PanelType
<1>3. /\ x \in PanelType /\ x.iter = 0 /\ ~x.aborted /\ ~x.freezes
      /\ x.abortable = u.panel[l].abortable
  BY <1>1 DEF PanelType
<1> HIDE DEF x
<1> QED
  BY <1>1, <1>2, <1>3 DEF State

(* A panel that shows its list as being in progress.                        *)
Shown(u, l) ==
  [u EXCEPT !.panel[l] = [FreezePanel(@) EXCEPT !.run = TRUE, !.abortable = TRUE]]

LEMMA ShownEffect ==
  ASSUME NEW u \in State, NEW l \in Panels
  PROVE  LET v == Shown(u, l) IN
         /\ v \in State
         /\ v.engine = u.engine /\ v.wafer = u.wafer /\ v.stack = u.stack
         /\ \A p \in Panels \ {l} : v.panel[p] = u.panel[p]
         /\ v.panel[l].iter = u.panel[l].iter /\ v.panel[l].aborted = u.panel[l].aborted
         /\ v.panel[l].freezes = u.panel[l].freezes
         /\ v.panel[l].abortable /\ ~v.panel[l].hears
<1> DEFINE x == [FreezePanel(u.panel[l]) EXCEPT !.run = TRUE, !.abortable = TRUE]
<1>1. u.panel[l] \in PanelType /\ u.panel \in [Panels -> PanelType]
  BY StateParts
<1>2. Shown(u, l) = [u EXCEPT !.panel = [u.panel EXCEPT ![l] = x]]
  BY DEF Shown
<1>3. /\ x \in PanelType /\ x.iter = u.panel[l].iter
      /\ x.aborted = u.panel[l].aborted /\ x.freezes = u.panel[l].freezes
      /\ x.abortable /\ ~x.hears
  BY <1>1 DEF PanelType, FreezePanel
<1> HIDE DEF x
<1> QED
  BY <1>1, <1>2, <1>3 DEF State

(* What a started list leaves of the two panels' counts.                    *)
Counts(u, v) == \A p \in Panels : v.panel[p].iter \in {0, u.panel[p].iter}

(* "Start list" in the main window.                                         *)
LEMMA StartMain ==
  ASSUME NEW u \in State, Rested(u)
  PROVE  LET v == StartPrl(u, "main") IN
         /\ v \in State /\ v.wafer = u.wafer /\ v.stack = u.stack
         /\ v.engine.listens = u.engine.listens
         /\ Launched(v) /\ InMain(v) /\ Counts(u, v)
<1> DEFINE c == Cleaned(u, "main")
           s == Shown(c, "main")
           v == Launch(s, "main")
<1>1. StartPrl(u, "main") = v
  BY DEF StartPrl, Cleaned, Shown
<1>2. "main" \in Panels /\ "wafer" \in Panels \ {"main"}
  BY DEF Panels
<1> HIDE DEF v
<1>3. c \in State
  BY <1>2, CleanEffect
<1>4. /\ s \in State /\ s.engine = c.engine /\ s.wafer = c.wafer /\ s.stack = c.stack
      /\ s.panel["wafer"] = c.panel["wafer"]
      /\ s.panel["main"].iter = c.panel["main"].iter
      /\ s.panel["main"].aborted = c.panel["main"].aborted
      /\ s.panel["main"].freezes = c.panel["main"].freezes
      /\ s.panel["main"].abortable /\ ~s.panel["main"].hears
  <2> HIDE DEF c, s
  <2> QED
    BY <1>2, <1>3, ShownEffect DEF s
<1> HIDE DEF s
<1>5. /\ s.engine = u.engine /\ s.wafer = u.wafer /\ s.stack = u.stack
      /\ s.panel["wafer"] = u.panel["wafer"]
      /\ s.panel["main"].iter = 0
      /\ ~s.panel["main"].aborted /\ ~s.panel["main"].freezes
  <2> HIDE DEF c
  <2> QED
    BY <1>2, <1>4, CleanEffect DEF c
<1>6. /\ v \in State /\ v.wafer = s.wafer /\ v.stack = s.stack
      /\ v.engine.list = "main" /\ v.engine.index = 0 /\ v.engine.timer
      /\ ~v.engine.stop /\ v.engine.listens = s.engine.listens
      /\ \A p \in Panels :
           LET y == v.panel[p] IN
           /\ y.aborted = s.panel[p].aborted /\ y.iter = s.panel[p].iter
           /\ y.abortable = s.panel[p].abortable /\ y.freezes = s.panel[p].freezes
           /\ s.panel[p].freezes => ~y.hears /\ ~y.run
           /\ ~s.panel[p].freezes => y.hears = s.panel[p].hears
  BY <1>2, <1>4, LaunchEffect DEF v
<1>7. InMain(v)
  BY <1>2, <1>4, <1>5, <1>6 DEF InMain, Rested
<1>8. Launched(v)
  BY <1>2, <1>5, <1>6, <1>7 DEF Launched
<1>9. Counts(u, v)
  BY <1>2, <1>5, <1>6 DEF Counts, Panels
<1> QED
  BY <1>1, <1>5, <1>6, <1>7, <1>8, <1>9

(* The list of the wafer panel is started for a die.                        *)
LEMMA StartWafer ==
  ASSUME NEW u \in State, desk.prober, u.wafer.probing, u.wafer.waits,
         ~u.panel["main"].abortable, u.panel["main"].freezes
  PROVE  LET v == StartPrl(u, "wafer") IN
         /\ v \in State /\ v.wafer = u.wafer /\ v.stack = u.stack
         /\ v.engine.listens = u.engine.listens
         /\ Launched(v) /\ InWafer(v) /\ Counts(u, v)
<1> DEFINE s == Cleaned(u, "wafer")
           v == Launch(s, "wafer")
<1>1. StartPrl(u, "wafer") = v
  BY DEF StartPrl, Cleaned
<1>2. "wafer" \in Panels /\ "main" \in Panels \ {"wafer"}
  BY DEF Panels
<1> HIDE DEF v, s
<1>3. /\ s \in State /\ s.engine = u.engine /\ s.wafer = u.wafer /\ s.stack = u.stack
      /\ s.panel["main"] = u.panel["main"]
      /\ s.panel["wafer"].iter = 0 /\ ~s.panel["wafer"].aborted
  BY <1>2, CleanEffect DEF s
<1>4. /\ v \in State /\ v.wafer = s.wafer /\ v.stack = s.stack
      /\ v.engine.list = "wafer" /\ v.engine.index = 0 /\ v.engine.timer
      /\ ~v.engine.stop /\ v.engine.listens = s.engine.listens
      /\ \A p \in Panels :
           LET y == v.panel[p] IN
           /\ y.aborted = s.panel[p].aborted /\ y.iter = s.panel[p].iter
           /\ y.abortable = s.panel[p].abortable
           /\ s.panel[p].freezes => ~y.hears /\ ~y.run
  BY <1>2, <1>3, LaunchEffect DEF v
<1>5. InWafer(v)
  BY <1>2, <1>3, <1>4 DEF InWafer
<1>6. Launched(v)
  BY <1>2, <1>3, <1>4, <1>5 DEF Launched
<1>7. Counts(u, v)
  BY <1>2, <1>3, <1>4 DEF Counts, Panels
<1> QED
  BY <1>1, <1>3, <1>4, <1>5, <1>6, <1>7

-----------------------------------------------------------------------------
(* The prober.                                                              *)

(* What a prober command leaves: everything is at rest, or the list of the  *)
(* wafer panel has been launched for another die.  No die is passed over.   *)
Probed(u, v) ==
  /\ v \in State /\ v.stack = u.stack
  /\ v.engine.listens = u.engine.listens
  /\ v.wafer.missed = u.wafer.missed
  /\ Counts(u, v)
  /\ \/ Rested(v) /\ v.engine = u.engine
     \/ Launched(v) /\ InWafer(v)

(* No die follows an aborted one.                                           *)
NoneAfterAbort(u, v) == u.wafer.abort => Rested(v) /\ v.engine = u.engine

(* A change of nothing but the wafer panel's own data.                      *)
WaferOnly(u, v) ==
  /\ v \in State
  /\ v.panel = u.panel /\ v.engine = u.engine /\ v.stack = u.stack

LEMMA WaferStep ==
  ASSUME NEW u \in State, NEW w \in WaferType
  PROVE  WaferOnly(u, [u EXCEPT !.wafer = w]) /\ [u EXCEPT !.wafer = w].wafer = w
BY DEF State, WaferOnly

(* After finishProbing() both panels are at rest.                           *)
LEMMA FinishProbingEffect ==
  ASSUME NEW u \in State, ~u.wafer.waits, ~u.panel["main"].abortable,
         u.panel["main"].freezes
  PROVE  Probed(u, FinishProbing(u)) /\ Rested(FinishProbing(u))
         /\ FinishProbing(u).engine = u.engine
<1> DEFINE w == [u.wafer EXCEPT !.probing = FALSE]
           x == [u.panel["wafer"] EXCEPT !.run = TRUE]
           a == [u EXCEPT !.wafer = w]
           b == [a EXCEPT !.panel = [a.panel EXCEPT !["wafer"] = x]]
           v == Settle(b, "wafer")
<1>1. /\ "wafer" \in Panels /\ "main" \in Panels \ {"wafer"}
      /\ u.panel \in [Panels -> PanelType] /\ u.panel["wafer"] \in PanelType
      /\ u.wafer \in WaferType
  BY StateParts DEF Panels
<1>2. /\ w \in WaferType /\ ~w.probing /\ ~w.waits /\ w.missed = u.wafer.missed
  BY <1>1 DEF WaferType
<1>3. x \in PanelType /\ x.iter = u.panel["wafer"].iter
  BY <1>1 DEF PanelType
<1>4. FinishProbing(u) = v
  BY <1>1 DEF FinishProbing, State, WaferType, PanelType
<1> HIDE DEF w, x, v
<1>5. /\ b \in State /\ b.wafer = w /\ b.engine = u.engine /\ b.stack = u.stack
      /\ b.panel["main"] = u.panel["main"] /\ b.panel["wafer"] = x
  BY <1>1, <1>2, <1>3 DEF State
<1> HIDE DEF a, b
<1>6. /\ v \in State
      /\ v.engine = b.engine /\ v.wafer = b.wafer /\ v.stack = b.stack
      /\ v.panel["main"] = b.panel["main"]
      /\ v.panel["wafer"].iter = 0 /\ v.panel["wafer"].freezes
  BY <1>1, <1>5, SettleEffect DEF v
<1>7. Rested(v)
  BY <1>2, <1>5, <1>6 DEF Rested
<1>8. Counts(u, v)
  BY <1>5, <1>6 DEF Counts, Panels
<1> QED
  BY <1>2, <1>4, <1>5, <1>6, <1>7, <1>8 DEF Probed

(* The list is started once the chuck is in contact; a prober that throws   *)
(* has ended the probing.                                                   *)
LEMMA TestDieEffect ==
  ASSUME NEW u \in State, NEW fault \in Faults, desk.prober, u.wafer.probing,
         ~u.wafer.waits, ~u.panel["main"].abortable, u.panel["main"].freezes
  PROVE  Probed(u, TestDie(u, fault))
<1> DEFINE w == [u.wafer EXCEPT !.chuck = "contact", !.tested = FALSE]
           down == [u EXCEPT !.wafer = w]
           w2 == [w EXCEPT !.waits = TRUE]
           on == [down EXCEPT !.wafer = w2]
<1>1. u.wafer \in WaferType
  BY StateParts
<1>2. /\ w \in WaferType /\ w.probing /\ ~w.waits /\ w.missed = u.wafer.missed
  BY <1>1 DEF WaferType
<1>3. /\ w2 \in WaferType /\ w2.probing /\ w2.waits /\ w2.missed = u.wafer.missed
  BY <1>1 DEF WaferType
<1>4. TestDie(u, fault) = IF fault = "contact" THEN FinishProbing(u)
                          ELSE IF fault = "position" THEN FinishProbing(down)
                          ELSE StartPrl(on, "wafer")
  BY <1>1 DEF TestDie, State, WaferType
<1> HIDE DEF w, w2
<1>5. WaferOnly(u, down) /\ down.wafer = w
  BY <1>2, WaferStep
<1>6. WaferOnly(down, on) /\ on.wafer = w2
  BY <1>3, <1>5, WaferStep DEF WaferOnly
<1> HIDE DEF down, on
<1>7. CASE fault = "contact"
  BY <1>4, <1>7, FinishProbingEffect
<1>8. CASE fault = "position"
  <2>1. Probed(down, FinishProbing(down)) /\ Rested(FinishProbing(down))
        /\ FinishProbing(down).engine = down.engine
    BY <1>2, <1>5, FinishProbingEffect DEF WaferOnly
  <2> QED
    BY <1>2, <1>4, <1>5, <1>8, <2>1 DEF Probed, WaferOnly, Counts
<1>9. CASE fault \notin {"contact", "position"}
  <2> DEFINE v == StartPrl(on, "wafer")
  <2>1. /\ on \in State /\ on.panel = u.panel /\ on.engine = u.engine
        /\ on.stack = u.stack
    BY <1>5, <1>6 DEF WaferOnly
  <2> HIDE DEF v
  <2>2. /\ v \in State /\ v.wafer = on.wafer /\ v.stack = on.stack
        /\ v.engine.listens = on.engine.listens
        /\ Launched(v) /\ InWafer(v) /\ Counts(on, v)
    BY <1>3, <1>6, <2>1, StartWafer DEF v
  <2>3. TestDie(u, fault) = v
    BY <1>4, <1>9 DEF v
  <2> QED
    BY <1>3, <1>6, <2>1, <2>2, <2>3 DEF Probed, Counts
<1> QED
  BY <1>7, <1>8, <1>9

(* The next die: the chuck leaves a die only when its list has been worked, *)
(* because an aborted list ends the probing.                                *)
LEMMA NextDieEffect ==
  ASSUME NEW u \in State, NEW fault \in Faults, desk.prober, u.wafer.probing,
         ~u.panel["main"].abortable, u.panel["main"].freezes,
         u.wafer.tested \/ u.wafer.abort
  PROVE  Probed(u, NextDie(u, fault)) /\ NoneAfterAbort(u, NextDie(u, fault))
<1> DEFINE w0 == [u.wafer EXCEPT !.waits = FALSE]
           w1 == [w0 EXCEPT !.chuck = "separate"]
           w2 == [w1 EXCEPT !.chips = @ + 1]
           w3 == [w2 EXCEPT !.missed = @ \/ ~w2.tested \/ w2.chuck = "contact"]
           at(w) == [u EXCEPT !.wafer = w]
<1>1. u.wafer \in WaferType
  BY StateParts
<1>2. /\ w0 \in WaferType /\ ~w0.waits /\ w0.probing /\ w0.missed = u.wafer.missed
      /\ w1 \in WaferType /\ ~w1.waits /\ w1.probing /\ w1.missed = u.wafer.missed
      /\ w1.chuck = "separate" /\ w1.tested = u.wafer.tested
  BY <1>1 DEF WaferType
<1>3. /\ w2 \in WaferType /\ ~w2.waits /\ w2.probing /\ w2.missed = u.wafer.missed
      /\ w2.chuck = "separate" /\ w2.tested = u.wafer.tested
  <2> HIDE DEF w1
  <2> QED
    BY <1>2 DEF WaferType
<1>4. ASSUME u.wafer.tested
      PROVE  w3 \in WaferType /\ ~w3.waits /\ w3.probing /\ w3.missed = u.wafer.missed
  <2>1. (w2.missed \/ ~w2.tested \/ w2.chuck = "contact") = w2.missed
    BY <1>3, <1>4, Zenon DEF WaferType
  <2> HIDE DEF w2
  <2>2. w3 = [w2 EXCEPT !.missed = w2.missed]
    BY <2>1
  <2> QED
    BY <1>3, <2>2 DEF WaferType
<1>5. NextDie(u, fault) =
        IF fault = "separate" THEN FinishProbing(at(w0))
        ELSE IF LastStep(u) \/ fault = "move" THEN FinishProbing(at(w1))
        ELSE IF fault = "waferend" THEN FinishProbing(at(w2))
        ELSE TestDie(at(w3), fault)
  BY <1>1 DEF NextDie, Separate, Move, State, WaferType
<1> HIDE DEF w0, w1, w2, w3
<1>6. ASSUME NEW w \in WaferType PROVE WaferOnly(u, at(w)) /\ at(w).wafer = w
  BY WaferStep
<1> HIDE DEF at
<1>7. ASSUME NEW w \in WaferType, ~w.waits, w.missed = u.wafer.missed
      PROVE  /\ Probed(u, FinishProbing(at(w)))
             /\ Rested(FinishProbing(at(w))) /\ FinishProbing(at(w)).engine = u.engine
  <2>1. WaferOnly(u, at(w)) /\ at(w).wafer = w
    BY <1>6
  <2>2. /\ Probed(at(w), FinishProbing(at(w)))
        /\ Rested(FinishProbing(at(w)))
        /\ FinishProbing(at(w)).engine = at(w).engine
    BY <1>7, <2>1, FinishProbingEffect DEF WaferOnly
  <2> QED
    BY <1>7, <2>1, <2>2 DEF Probed, WaferOnly, Counts
<1>8. ASSUME u.wafer.tested PROVE Probed(u, TestDie(at(w3), fault))
  <2>1. WaferOnly(u, at(w3)) /\ at(w3).wafer = w3
    BY <1>4, <1>6, <1>8
  <2>2. Probed(at(w3), TestDie(at(w3), fault))
    BY <1>4, <1>8, <2>1, TestDieEffect DEF WaferOnly
  <2> QED
    BY <1>4, <1>8, <2>1, <2>2 DEF Probed, WaferOnly, Counts
<1>9. /\ u.wafer.tested \/ LastStep(u)
      /\ u.wafer.abort => LastStep(u)
  BY DEF LastStep
<1> QED
  BY <1>2, <1>3, <1>5, <1>7, <1>8, <1>9 DEF NoneAfterAbort

-----------------------------------------------------------------------------
(* The end of a list.                                                       *)

(* The wafer panel's list is worked once for each die.                      *)
LEMMA WaferOnce ==
  ASSUME NEW u \in State
  PROVE  FinishedPrl(u, "wafer") = Settle(u, "wafer")
<1>1. u.panel["wafer"].iter \in Nat
  BY StateParts DEF Panels
<1> QED
  BY <1>1 DEF FinishedPrl, Repeats, Niter

(* One more repetition is noted.                                            *)
Again(u, l) == [u EXCEPT !.panel[l].iter = @ + 1]

LEMMA AgainEffect ==
  ASSUME NEW u \in State, NEW l \in Panels
  PROVE  LET v == Again(u, l) IN
         /\ v \in State
         /\ v.engine = u.engine /\ v.wafer = u.wafer /\ v.stack = u.stack
         /\ \A p \in Panels \ {l} : v.panel[p] = u.panel[p]
         /\ v.panel[l].iter = u.panel[l].iter + 1
         /\ v.panel[l].aborted = u.panel[l].aborted
         /\ v.panel[l].freezes = u.panel[l].freezes
         /\ v.panel[l].hears = u.panel[l].hears
         /\ v.panel[l].abortable = u.panel[l].abortable
<1> DEFINE x == [u.panel[l] EXCEPT !.iter = @ + 1]
<1>1. u.panel[l] \in PanelType /\ u.panel \in [Panels -> PanelType]
  BY StateParts
<1>2. Again(u, l) = [u EXCEPT !.panel = [u.panel EXCEPT ![l] = x]]
  BY <1>1 DEF Again, State, PanelType
<1>3. /\ x \in PanelType /\ x.iter = u.panel[l].iter + 1
      /\ x.aborted = u.panel[l].aborted /\ x.freezes = u.panel[l].freezes
      /\ x.hears = u.panel[l].hears /\ x.abortable = u.panel[l].abortable
  BY <1>1 DEF PanelType
<1> HIDE DEF x
<1> QED
  BY <1>1, <1>2, <1>3 DEF State

(* The list of the main window is launched again, which happens at desks    *)
(* without a prober only, or its panel is idle again.                       *)
LEMMA FinishedMain ==
  ASSUME OnceWithProber, desk \in Desks, NEW u \in State, InMain(u), Iterations(u)
  PROVE  LET v == FinishedPrl(u, "main") IN
         /\ v \in State /\ v.wafer = u.wafer /\ v.stack = u.stack
         /\ v.engine.listens = u.engine.listens /\ Iterations(v)
         /\ \/ ~desk.prober /\ Launched(v) /\ InMain(v) /\ ~u.panel["main"].aborted
            \/ /\ v.engine = u.engine
               /\ v.panel["main"].freezes /\ ~v.panel["main"].abortable
<1>1. /\ "main" \in Panels /\ "wafer" \in Panels \ {"main"} /\ "wafer" # "main"
      /\ \A p \in Panels : u.panel[p].iter \in Nat /\ Niter(p) \in Nat
  BY StateParts, NiterNat DEF Panels
<1>2. CASE Repeats(u, "main")
  <2> DEFINE a == Again(u, "main")
             v == Launch(a, "main")
  <2>1. FinishedPrl(u, "main") = v
    BY <1>2 DEF FinishedPrl, Again
  <2>2. ~desk.prober
    <3>1. u.panel["main"].iter + 1 < desk.repeat
      BY <1>2 DEF Repeats, Niter
    <3>2. desk.repeat \in Nat
      BY DeskAssumption
    <3> QED
      BY <1>1, <3>1, <3>2 DEF OnceWithProber
  <2> HIDE DEF v, a
  <2>3. /\ a \in State /\ a.engine = u.engine /\ a.wafer = u.wafer /\ a.stack = u.stack
        /\ a.panel["wafer"] = u.panel["wafer"]
        /\ a.panel["main"].iter = u.panel["main"].iter + 1
        /\ a.panel["main"].aborted = u.panel["main"].aborted
        /\ a.panel["main"].freezes = u.panel["main"].freezes
        /\ a.panel["main"].hears = u.panel["main"].hears
        /\ a.panel["main"].abortable = u.panel["main"].abortable
    BY <1>1, AgainEffect DEF a
  <2>4. /\ v \in State /\ v.wafer = a.wafer /\ v.stack = a.stack
        /\ v.engine.list = "main" /\ v.engine.index = 0 /\ v.engine.timer
        /\ ~v.engine.stop /\ v.engine.listens = a.engine.listens
        /\ \A p \in Panels :
             LET y == v.panel[p] IN
             /\ y.aborted = a.panel[p].aborted /\ y.iter = a.panel[p].iter
             /\ y.abortable = a.panel[p].abortable /\ y.freezes = a.panel[p].freezes
             /\ ~a.panel[p].freezes => y.hears = a.panel[p].hears
    BY <1>1, <2>3, LaunchEffect DEF v
  <2>5. InMain(v)
    BY <1>1, <2>2, <2>3, <2>4 DEF InMain
  <2>6. Launched(v)
    BY <1>1, <1>2, <2>3, <2>4, <2>5 DEF Launched, Repeats
  <2>7. Iterations(v)
    <3>1. v.panel["main"].iter <= Niter("main")
      BY <1>1, <1>2, <2>3, <2>4 DEF Repeats
    <3>2. v.panel["wafer"].iter <= Niter("wafer")
      BY <1>1, <2>3, <2>4 DEF Iterations
    <3> QED
      BY <3>1, <3>2 DEF Iterations, Panels
  <2> QED
    BY <1>2, <2>1, <2>2, <2>3, <2>4, <2>5, <2>6, <2>7 DEF Repeats
<1>3. CASE ~Repeats(u, "main")
  <2> DEFINE v == Settle(u, "main")
  <2>1. FinishedPrl(u, "main") = v
    BY <1>3 DEF FinishedPrl
  <2> HIDE DEF v
  <2>2. /\ v \in State
        /\ v.engine = u.engine /\ v.wafer = u.wafer /\ v.stack = u.stack
        /\ v.panel["wafer"] = u.panel["wafer"]
        /\ v.panel["main"].iter = 0
        /\ v.panel["main"].freezes /\ ~v.panel["main"].abortable
    BY <1>1, SettleEffect DEF v
  <2>3. Iterations(v)
    BY <1>1, <2>2 DEF Iterations, Panels
  <2> QED
    BY <2>1, <2>2, <2>3
<1> QED
  BY <1>2, <1>3

(* A panel whose list has not run is idle again after prlDone(), too.       *)
LEMMA SettledMain ==
  ASSUME OnceWithProber, desk \in Desks, NEW u \in State, desk.prober
  PROVE  FinishedPrl(u, "main") = Settle(u, "main")
<1>1. u.panel["main"].iter \in Nat
  BY StateParts DEF Panels
<1>2. desk.repeat \in Nat /\ desk.repeat <= 1
  BY DeskAssumption DEF OnceWithProber
<1> QED
  BY <1>1, <1>2 DEF FinishedPrl, Repeats, Niter

(* The user's abort, as the panel or the wafer test remembers it.           *)
Aborted(u) == IF u.engine.list = "main" THEN u.panel["main"].aborted
              ELSE u.wafer.abort

(* prlDone() ends with a launched list or with everything at rest, the      *)
(* latter after an abort.                                                   *)
Ended(u, v) ==
  /\ v \in State /\ v.stack = u.stack
  /\ v.engine.listens = u.engine.listens
  /\ v.wafer.missed = u.wafer.missed
  /\ Iterations(v)
  /\ \/ Rested(v) /\ v.engine = u.engine
     \/ Launched(v) /\ ~Aborted(u)

LEMMA CountsKept ==
  ASSUME desk \in Desks, NEW u, NEW v, Counts(u, v), Iterations(u)
  PROVE  Iterations(v)
<1> SUFFICES ASSUME NEW p \in Panels PROVE v.panel[p].iter <= Niter(p)
  BY DEF Iterations
<1>1. /\ v.panel[p].iter = 0 \/ v.panel[p].iter = u.panel[p].iter
      /\ u.panel[p].iter <= Niter(p) /\ Niter(p) \in Nat
  BY NiterNat DEF Counts, Iterations
<1> QED
  BY <1>1

LEMMA PrlDoneEffect ==
  ASSUME OnceWithProber, desk \in Desks, NEW u \in State, NEW fault \in Faults,
         Iterations(u),
         InMain(u) \/ (InWafer(u) /\ (u.wafer.tested \/ u.wafer.abort))
  PROVE  Ended(u, EmitPrlDone(u, fault))
<1> DEFINE a == FinishedPrl(u, "main")
           b == Settle(a, "wafer")
<1>1. "wafer" \in Panels /\ "main" \in Panels \ {"wafer"} /\ "main" \in Panels
      /\ "wafer" \in Panels \ {"main"}
  BY DEF Panels
<1>2. CASE InMain(u)
  <2> HIDE DEF a
  <2>1. /\ a \in State /\ a.wafer = u.wafer /\ a.stack = u.stack
        /\ a.engine.listens = u.engine.listens /\ Iterations(a)
        /\ \/ ~desk.prober /\ Launched(a) /\ InMain(a) /\ ~u.panel["main"].aborted
           \/ /\ a.engine = u.engine
              /\ a.panel["main"].freezes /\ ~a.panel["main"].abortable
    BY <1>2, FinishedMain DEF a
  <2>2. EmitPrlDone(u, fault) = b
    BY <1>2, <2>1, WaferOnce DEF EmitPrlDone, InMain, a
  <2> HIDE DEF b
  <2>3. /\ b \in State
        /\ b.engine = a.engine /\ b.wafer = a.wafer /\ b.stack = a.stack
        /\ b.panel["main"] = a.panel["main"]
        /\ b.panel["wafer"].iter = 0 /\ b.panel["wafer"].freezes
    BY <1>1, <2>1, SettleEffect DEF b
  <2>4. Iterations(b)
    BY <2>1, <2>3, NiterNat DEF Iterations, Panels
  <2>5. CASE ~desk.prober /\ Launched(a) /\ InMain(a) /\ ~u.panel["main"].aborted
    <3>1. InMain(b)
      BY <2>3, <2>5 DEF InMain
    <3>2. Launched(b)
      BY <2>3, <2>5, <3>1 DEF Launched, InMain
    <3> QED
      BY <1>2, <2>1, <2>2, <2>3, <2>4, <2>5, <3>2 DEF Ended, Aborted, InMain
  <2>6. CASE a.engine = u.engine /\ a.panel["main"].freezes
             /\ ~a.panel["main"].abortable
    <3>1. Rested(b)
      BY <1>2, <2>1, <2>3, <2>6 DEF Rested, InMain
    <3> QED
      BY <2>1, <2>2, <2>3, <2>4, <2>6, <3>1 DEF Ended
  <2> QED
    BY <2>1, <2>5, <2>6
<1>3. CASE InWafer(u) /\ (u.wafer.tested \/ u.wafer.abort)
  <2> DEFINE v == NextDie(b, fault)
  <2>1. desk.prober /\ u.wafer.probing /\ u.wafer.waits
    BY <1>3 DEF InWafer
  <2>2. a = Settle(u, "main")
    BY <2>1, SettledMain
  <2> HIDE DEF a
  <2>3. /\ a \in State
        /\ a.engine = u.engine /\ a.wafer = u.wafer /\ a.stack = u.stack
        /\ a.panel["wafer"] = u.panel["wafer"] /\ a.panel["main"].iter = 0
        /\ a.panel["main"].freezes /\ ~a.panel["main"].abortable
    BY <1>1, <2>2, SettleEffect
  <2>4. EmitPrlDone(u, fault) = v
    BY <2>1, <2>3, WaferOnce DEF EmitPrlDone, a
  <2> HIDE DEF b
  <2>5. /\ b \in State
        /\ b.engine = a.engine /\ b.wafer = a.wafer /\ b.stack = a.stack
        /\ b.panel["main"] = a.panel["main"] /\ b.panel["wafer"].iter = 0
    BY <1>1, <2>3, SettleEffect DEF b
  <2> HIDE DEF v
  <2>6. Probed(b, v) /\ NoneAfterAbort(b, v)
    BY <1>3, <2>1, <2>3, <2>5, NextDieEffect DEF v
  <2>7. Iterations(b)
    BY <2>3, <2>5, NiterNat DEF Iterations, Panels
  <2>8. Iterations(v)
    BY <2>6, <2>7, CountsKept DEF Probed
  <2>9. u.engine.list = "wafer"
    BY <1>3 DEF InWafer
  <2> QED
    BY <2>3, <2>4, <2>5, <2>6, <2>8, <2>9 DEF Probed, Ended, Aborted, NoneAfterAbort
<1> QED
  BY <1>2, <1>3

-----------------------------------------------------------------------------
(* The first die.                                                           *)

(* The wafer panel shows the probing.                                       *)
Probing(u) ==
  [u EXCEPT !.wafer.probing = TRUE, !.wafer.abort = FALSE,
            !.panel["wafer"] = [FreezePanel(@) EXCEPT !.run = TRUE]]

LEMMA FirstDieEffect ==
  ASSUME NEW u \in State, NEW fault \in Faults, desk.prober, Rested(u)
  PROVE  Probed(u, FirstDie(u, fault))
<1> DEFINE w0 == [u.wafer EXCEPT !.probing = TRUE, !.abort = FALSE]
           w1 == [w0 EXCEPT !.chuck = "separate"]
           w2 == [w1 EXCEPT !.chips = 0, !.waits = FALSE]
           x == [FreezePanel(u.panel["wafer"]) EXCEPT !.run = TRUE]
           on == [u EXCEPT !.panel = [u.panel EXCEPT !["wafer"] = x], !.wafer = w0]
           at(w) == [on EXCEPT !.wafer = w]
<1>1. /\ u.wafer \in WaferType /\ ~u.wafer.waits
      /\ u.panel \in [Panels -> PanelType] /\ u.panel["wafer"] \in PanelType
      /\ "wafer" \in Panels /\ "main" \in Panels /\ "main" # "wafer"
  BY StateParts DEF Panels, Rested
<1>2. x \in PanelType /\ x.iter = u.panel["wafer"].iter
  BY <1>1 DEF PanelType, FreezePanel
<1>3. Probing(u) = on
  <2> HIDE DEF x
  <2>1. x = [FreezePanel(u.panel["wafer"]) EXCEPT !.run = TRUE]
    BY DEF x
  <2> QED
    BY <1>1, <2>1 DEF Probing, State, WaferType
<1>4. /\ w0 \in WaferType /\ ~w0.waits /\ w0.probing /\ w0.missed = u.wafer.missed
      /\ w1 \in WaferType /\ ~w1.waits /\ w1.probing /\ w1.missed = u.wafer.missed
      /\ w2 \in WaferType /\ ~w2.waits /\ w2.probing /\ w2.missed = u.wafer.missed
  BY <1>1 DEF WaferType
<1> HIDE DEF x
<1>5. /\ on \in State /\ on.wafer = w0 /\ on.engine = u.engine /\ on.stack = u.stack
      /\ on.panel["main"] = u.panel["main"]
      /\ on.panel["wafer"].iter = u.panel["wafer"].iter
  <2> HIDE DEF w0
  <2> QED
    BY <1>1, <1>2, <1>4 DEF State
<1>6. FirstDie(u, fault) =
        IF fault = "separate" THEN FinishProbing(on)
        ELSE IF fault = "move" THEN FinishProbing(at(w1))
        ELSE TestDie(at(w2), fault)
  <2> DEFINE p == Probing(u)
  <2>1. FirstDie(u, fault) =
          IF fault = "separate" THEN FinishProbing(p)
          ELSE IF fault = "move" THEN FinishProbing(Separate(p))
          ELSE TestDie([Separate(p) EXCEPT !.wafer.chips = 0, !.wafer.waits = FALSE],
                       fault)
    BY DEF FirstDie, Probing
  <2> HIDE DEF on, w0, p
  <2>2. Separate(on) = at(w1)
    BY <1>5 DEF Separate
  <2>3. [Separate(on) EXCEPT !.wafer.chips = 0, !.wafer.waits = FALSE] = at(w2)
    BY <1>5 DEF State, WaferType, Separate
  <2> QED
    BY <1>3, <2>1, <2>2, <2>3 DEF p
<1> HIDE DEF on, w0, w1, w2
<1>7. ASSUME NEW w \in WaferType PROVE WaferOnly(on, at(w)) /\ at(w).wafer = w
  BY <1>5, WaferStep
<1> HIDE DEF at
<1>8. ~on.panel["main"].abortable /\ on.panel["main"].freezes
  BY <1>5 DEF Rested
<1>9. ASSUME NEW v, Probed(on, v) PROVE Probed(u, v)
  BY <1>4, <1>5, <1>9 DEF Probed, Counts, Panels
<1>10. ASSUME NEW w \in WaferType, w.missed = u.wafer.missed, NEW v, Probed(at(w), v)
       PROVE  Probed(on, v)
  <2>1. WaferOnly(on, at(w)) /\ at(w).wafer = w
    BY <1>7
  <2> QED
    BY <1>4, <1>5, <1>10, <2>1 DEF Probed, WaferOnly, Counts
<1>11. CASE fault = "separate"
  <2>1. Probed(on, FinishProbing(on))
    BY <1>4, <1>5, <1>8, FinishProbingEffect
  <2> QED
    BY <1>6, <1>9, <1>11, <2>1
<1>12. CASE fault = "move"
  <2>1. WaferOnly(on, at(w1)) /\ at(w1).wafer = w1
    BY <1>4, <1>7
  <2>2. Probed(at(w1), FinishProbing(at(w1)))
    BY <1>4, <1>8, <2>1, FinishProbingEffect DEF WaferOnly
  <2> QED
    BY <1>4, <1>6, <1>9, <1>10, <1>12, <2>2
<1>13. CASE fault \notin {"separate", "move"}
  <2>1. WaferOnly(on, at(w2)) /\ at(w2).wafer = w2
    BY <1>4, <1>7
  <2>2. Probed(at(w2), TestDie(at(w2), fault))
    BY <1>4, <1>8, <2>1, TestDieEffect DEF WaferOnly
  <2> QED
    BY <1>4, <1>6, <1>9, <1>10, <1>13, <2>2
<1> QED
  BY <1>11, <1>12, <1>13

-----------------------------------------------------------------------------
(* The handlers that wait in processEvents(), and the next item.            *)

LEMMA PushEffect ==
  ASSUME NEW u \in State, NEW f \in Frames
  PROVE  LET v == Push(u, f) IN
         /\ v \in State
         /\ v.panel = u.panel /\ v.engine = u.engine /\ v.wafer = u.wafer
         /\ v.stack = <<f>> \o u.stack
<1>1. <<f>> \o u.stack \in Seq(Frames)
  BY DEF State
<1> QED
  BY <1>1 DEF Push, State

LEMMA PopEffect ==
  ASSUME NEW u \in State, u.stack # <<>>
  PROVE  LET v == Pop(u) IN
         /\ v \in State
         /\ v.panel = u.panel /\ v.engine = u.engine /\ v.wafer = u.wafer
         /\ v.stack = Tail(u.stack)
<1>1. Tail(u.stack) \in Seq(Frames)
  BY DEF State
<1> QED
  BY <1>1 DEF Pop, State

(* The engine stands at an item of its list, or behind the last one.        *)
Placed(u) ==
  u.engine.list # "none" => u.engine.index <= Len(List[u.engine.list])

LEMMA LengthNat ==
  \A p \in Panels : Len(List[p]) \in Nat
BY ListAssumption

(* What the engine's own steps leave alone.                                 *)
Keeps(u, v) ==
  /\ v \in State
  /\ v.engine.list = u.engine.list /\ v.engine.stop = u.engine.stop
  /\ v.wafer.probing = u.wafer.probing /\ v.wafer.abort = u.wafer.abort
  /\ v.wafer.missed = u.wafer.missed
  /\ \A p \in Panels : v.panel[p].aborted = u.panel[p].aborted
  /\ Counts(u, v)
  /\ InMain(u) => InMain(v)
  /\ InWafer(u) => InWafer(v)

(* The panel whose list is worked does not hear of the engine's signals.    *)
LEMMA SignalsKeep ==
  ASSUME NEW u \in State,
         NEW v \in {EmitBegan(u), EmitFinished(u), EmitPrlStarted(u)}
  PROVE  Keeps(u, v) /\ v.engine = u.engine /\ v.wafer = u.wafer
         /\ v.stack = u.stack
<1>1. "main" \in Panels /\ "wafer" \in Panels
  BY DEF Panels
<1>2. CASE v = EmitBegan(u)
  BY <1>1, <1>2, BeganEffect DEF PanelsOnly, Keeps, Counts, InMain, InWafer
<1>3. CASE v = EmitFinished(u)
  BY <1>1, <1>3, FinishedEffect DEF PanelsOnly, Keeps, Counts, InMain, InWafer
<1>4. CASE v = EmitPrlStarted(u)
  BY <1>1, <1>4, StartedEffect DEF PanelsOnly, Keeps, Counts, InMain, InWafer
<1> QED
  BY <1>2, <1>3, <1>4

LEMMA TestedEffect ==
  ASSUME NEW u \in State
  PROVE  /\ Keeps(u, Tested(u)) /\ Tested(u).engine = u.engine
         /\ Tested(u).stack = u.stack
         /\ u.engine.list = "wafer" => Tested(u).wafer.tested
<1> DEFINE w == [u.wafer EXCEPT !.tested = TRUE]
<1>1. u.wafer \in WaferType
  BY StateParts
<1>2. /\ w \in WaferType /\ w.probing = u.wafer.probing /\ w.abort = u.wafer.abort
      /\ w.missed = u.wafer.missed /\ w.waits = u.wafer.waits /\ w.tested
  BY <1>1 DEF WaferType
<1>3. Tested(u) = IF u.engine.list = "wafer" THEN [u EXCEPT !.wafer = w] ELSE u
  BY DEF Tested
<1> HIDE DEF w
<1>4. WaferOnly(u, [u EXCEPT !.wafer = w]) /\ [u EXCEPT !.wafer = w].wafer = w
  BY <1>2, WaferStep
<1>5. CASE u.engine.list = "wafer"
  <2> DEFINE v == [u EXCEPT !.wafer = w]
  <2>1. Tested(u) = v
    BY <1>3, <1>5
  <2>2. WaferOnly(u, v) /\ v.wafer = w
    BY <1>4
  <2> HIDE DEF v
  <2> QED
    BY <1>2, <2>1, <2>2 DEF WaferOnly, Keeps, Counts, InMain, InWafer
<1>6. CASE u.engine.list # "wafer"
  BY <1>3, <1>6 DEF Keeps, Counts
<1> QED
  BY <1>5, <1>6

(* Transitivity of what the steps leave alone.                              *)
LEMMA KeepsOn ==
  ASSUME NEW u \in State, NEW v, NEW w, Keeps(u, v), Keeps(v, w)
  PROVE  Keeps(u, w)
<1>1. Counts(u, w)
  BY DEF Keeps, Counts
<1> QED
  BY <1>1 DEF Keeps

(* An item is taken when there is one and nobody has stopped the list;      *)
(* otherwise the list is over.                                              *)
Taken(u, w) ==
  /\ Keeps(u, w) /\ Placed(w)
  /\ ~w.engine.timer /\ ~w.engine.listens
  /\ \/ w.stack = <<"next">> /\ ~w.engine.stop /\ w.engine.index >= 1
     \/ /\ w.stack = <<"finish">>
        /\ w.engine.list = "wafer" => w.wafer.tested \/ w.engine.stop

LEMMA Single == ASSUME NEW f PROVE <<f>> \o <<>> = <<f>>
OBVIOUS

LEMMA DisconnectEffect ==
  ASSUME NEW u \in State
  PROVE  LET v == Disconnect(u) IN
         /\ Keeps(u, v) /\ v.stack = u.stack /\ v.panel = u.panel
         /\ v.wafer = u.wafer /\ v.engine.index = u.engine.index
         /\ ~v.engine.timer /\ ~v.engine.listens
<1> DEFINE e == [u.engine EXCEPT !.timer = FALSE, !.listens = FALSE]
           v == [u EXCEPT !.engine = e]
<1>1. u.engine \in EngineType
  BY StateParts
<1>2. /\ e \in EngineType /\ e.list = u.engine.list /\ e.stop = u.engine.stop
      /\ e.index = u.engine.index /\ ~e.timer /\ ~e.listens
  BY <1>1 DEF EngineType
<1>3. Disconnect(u) = v
  BY <1>1 DEF Disconnect, State, EngineType
<1> HIDE DEF e
<1>4. /\ v \in State /\ v.engine = e /\ v.panel = u.panel /\ v.wafer = u.wafer
      /\ v.stack = u.stack
  BY <1>2 DEF State
<1> HIDE DEF v
<1> QED
  BY <1>2, <1>3, <1>4 DEF Keeps, Counts, InMain, InWafer

(* The list is over: the panels and then, in the event loop, prlDone().     *)
LEMMA FinishEffect ==
  ASSUME NEW u \in State, u.stack = <<>>, Placed(u),
         ~u.engine.timer, ~u.engine.listens,
         u.engine.list = "wafer" => u.wafer.tested \/ u.engine.stop
  PROVE  Taken(u, Finish(u))
<1> DEFINE a == EmitFinished(u)
           w == Push(a, "finish")
<1>1. Keeps(u, a) /\ a.engine = u.engine /\ a.wafer = u.wafer /\ a.stack = u.stack
  BY SignalsKeep
<1>2. a \in State
  BY <1>1 DEF Keeps
<1> HIDE DEF a
<1>3. /\ w \in State /\ w.panel = a.panel /\ w.engine = a.engine /\ w.wafer = a.wafer
      /\ w.stack = <<"finish">> \o a.stack
  BY <1>2, PushEffect DEF Frames
<1>4. w.stack = <<"finish">>
  BY <1>1, <1>3, Single
<1>5. Finish(u) = w
  BY DEF Finish, a
<1> HIDE DEF w
<1>6. Keeps(a, w)
  BY <1>3 DEF Keeps, Counts, InMain, InWafer
<1>7. Keeps(u, w)
  BY <1>1, <1>6, KeepsOn
<1> QED
  BY <1>1, <1>3, <1>4, <1>5, <1>7 DEF Taken, Placed

LEMMA TakenOn ==
  ASSUME NEW u \in State, NEW v, NEW w, Keeps(u, v), Taken(v, w)
  PROVE  Taken(u, w)
BY KeepsOn DEF Taken

LEMMA NextItemEffect ==
  ASSUME NEW u \in State, u.engine.list \in Panels, Placed(u), u.stack = <<>>
  PROVE  Taken(u, NextItem(u))
<1> DEFINE v == Disconnect(u)
           e == [v.engine EXCEPT !.index = @ + 1]
           o == [v EXCEPT !.engine = e]
           n == Push(o, "next")
<1>1. /\ Keeps(u, v) /\ v.stack = u.stack /\ v.panel = u.panel
      /\ v.wafer = u.wafer /\ v.engine.index = u.engine.index
      /\ ~v.engine.timer /\ ~v.engine.listens
  BY DisconnectEffect
<1>2. NextItem(u) = IF ListOver(v) THEN EndOfList(v) ELSE n
  BY DEF NextItem
<1> HIDE DEF v
<1>3. /\ v \in State /\ v.engine \in EngineType /\ v.engine.list = u.engine.list
      /\ Placed(v)
  BY <1>1, StateParts DEF Keeps, Placed
<1>4. CASE ListOver(v)
  <2> DEFINE t == IF v.engine.index = Len(List[v.engine.list]) THEN Tested(v) ELSE v
  <2>1. NextItem(u) = Finish(t)
    BY <1>2, <1>4 DEF EndOfList
  <2>2. /\ Keeps(v, Tested(v)) /\ Tested(v).engine = v.engine
        /\ Tested(v).stack = v.stack
        /\ v.engine.list = "wafer" => Tested(v).wafer.tested
    BY <1>3, TestedEffect
  <2>3. Keeps(v, v)
    BY <1>3 DEF Keeps, Counts
  <2>4. /\ Keeps(v, t) /\ t.engine = v.engine /\ t.stack = v.stack
        /\ t.engine.list = "wafer" => t.wafer.tested \/ t.engine.stop
    BY <1>4, <2>2, <2>3 DEF ListOver
  <2> HIDE DEF t
  <2>5. t \in State /\ Placed(t)
    BY <1>3, <2>4 DEF Keeps, Placed
  <2>6. Taken(t, Finish(t))
    BY <1>1, <2>4, <2>5, FinishEffect
  <2> QED
    BY <1>1, <1>3, <2>1, <2>4, <2>6, TakenOn
<1>5. CASE ~ListOver(v)
  <2>1. v.engine.index \in Nat /\ Len(List[v.engine.list]) \in Nat
    BY <1>3, LengthNat DEF EngineType
  <2>2. /\ ~v.engine.stop /\ v.engine.index # Len(List[v.engine.list])
        /\ v.engine.index <= Len(List[v.engine.list])
    BY <1>3, <1>5 DEF ListOver, Placed, Panels
  <2>3. /\ e \in EngineType /\ e.list = v.engine.list /\ e.stop = v.engine.stop
        /\ e.index = v.engine.index + 1 /\ ~e.timer /\ ~e.listens
    BY <1>1, <1>3 DEF EngineType
  <2> HIDE DEF e
  <2>4. /\ o \in State /\ o.panel = v.panel /\ o.engine = e /\ o.wafer = v.wafer
        /\ o.stack = v.stack
    BY <1>3, <2>3 DEF State
  <2> HIDE DEF o
  <2>5. /\ n \in State /\ n.panel = o.panel /\ n.engine = o.engine
        /\ n.wafer = o.wafer /\ n.stack = <<"next">> \o o.stack
    BY <2>4, PushEffect DEF Frames
  <2>6. n.stack = <<"next">>
    BY <1>1, <2>4, <2>5, Single
  <2>7. NextItem(u) = n
    BY <1>2, <1>5
  <2> HIDE DEF n
  <2>8. Keeps(v, n)
    BY <2>3, <2>4, <2>5 DEF Keeps, Counts, InMain, InWafer
  <2>9. Keeps(u, n)
    BY <1>1, <2>8, KeepsOn
  <2>10. Placed(n) /\ n.engine.index >= 1
    BY <2>1, <2>2, <2>3, <2>4, <2>5 DEF Placed
  <2> QED
    BY <2>2, <2>3, <2>4, <2>5, <2>6, <2>7, <2>9, <2>10 DEF Taken
<1> QED
  BY <1>4, <1>5

(* The engine is connected to finishedScanning().                           *)
Listening(u) == [u EXCEPT !.engine.listens = TRUE]

LEMMA ListeningEffect ==
  ASSUME NEW u \in State
  PROVE  LET v == Listening(u) IN
         /\ Keeps(u, v) /\ v.stack = u.stack /\ v.engine.index = u.engine.index
         /\ v.engine.timer = u.engine.timer /\ v.engine.listens
<1> DEFINE e == [u.engine EXCEPT !.listens = TRUE]
           v == [u EXCEPT !.engine = e]
<1>1. u.engine \in EngineType
  BY StateParts
<1>2. /\ e \in EngineType /\ e.list = u.engine.list /\ e.stop = u.engine.stop
      /\ e.index = u.engine.index /\ e.timer = u.engine.timer /\ e.listens
  BY <1>1 DEF EngineType
<1>3. Listening(u) = v
  BY DEF Listening
<1> HIDE DEF e
<1>4. /\ v \in State /\ v.engine = e /\ v.panel = u.panel /\ v.wafer = u.wafer
      /\ v.stack = u.stack
  BY <1>2 DEF State
<1> HIDE DEF v
<1> QED
  BY <1>2, <1>3, <1>4 DEF Keeps, Counts, InMain, InWafer

(* The outcome of a test is noted.                                          *)
Skipping(u, skip) == [u EXCEPT !.engine.skip = skip]

LEMMA SkippingEffect ==
  ASSUME NEW u \in State, NEW skip \in BOOLEAN
  PROVE  LET v == Skipping(u, skip) IN
         /\ Keeps(u, v) /\ v.stack = u.stack /\ v.engine.index = u.engine.index
<1> DEFINE e == [u.engine EXCEPT !.skip = skip]
           v == [u EXCEPT !.engine = e]
<1>1. u.engine \in EngineType
  BY StateParts
<1>2. /\ e \in EngineType /\ e.list = u.engine.list /\ e.stop = u.engine.stop
      /\ e.index = u.engine.index
  BY <1>1 DEF EngineType
<1>3. Skipping(u, skip) = v
  BY DEF Skipping
<1> HIDE DEF e
<1>4. /\ v \in State /\ v.engine = e /\ v.panel = u.panel /\ v.wafer = u.wafer
      /\ v.stack = u.stack
  BY <1>2 DEF State
<1> HIDE DEF v
<1> QED
  BY <1>2, <1>3, <1>4 DEF Keeps, Counts, InMain, InWafer

(* The user's abort.                                                        *)
LEMMA AbortEffect ==
  ASSUME NEW u \in State, NEW l \in Panels
  PROVE  LET v == AbortPrl(u, l) IN
         /\ v \in State /\ v.wafer = u.wafer /\ v.stack = u.stack
         /\ \A p \in Panels \ {l} : v.panel[p] = u.panel[p]
         /\ v.panel[l].iter = u.panel[l].iter /\ v.panel[l].aborted
         /\ v.panel[l].abortable = u.panel[l].abortable /\ ~v.panel[l].run
         /\ v.panel[l].hears = u.panel[l].hears
         /\ v.panel[l].freezes = u.panel[l].freezes
         /\ v.engine.list = u.engine.list /\ v.engine.index = u.engine.index
         /\ v.engine.timer = u.engine.timer
         /\ v.engine.listens = u.engine.listens /\ v.engine.stop
<1> DEFINE x == [u.panel[l] EXCEPT !.aborted = TRUE, !.run = FALSE]
           e == [u.engine EXCEPT !.stop = TRUE]
           v == [u EXCEPT !.panel = [u.panel EXCEPT ![l] = x], !.engine = e]
<1>1. /\ u.panel[l] \in PanelType /\ u.panel \in [Panels -> PanelType]
      /\ u.engine \in EngineType
  BY StateParts
<1>2. /\ x \in PanelType /\ x.iter = u.panel[l].iter /\ x.aborted
      /\ x.abortable = u.panel[l].abortable /\ ~x.run
      /\ x.hears = u.panel[l].hears /\ x.freezes = u.panel[l].freezes
  BY <1>1 DEF PanelType
<1>3. /\ e \in EngineType /\ e.list = u.engine.list /\ e.index = u.engine.index
      /\ e.timer = u.engine.timer /\ e.listens = u.engine.listens /\ e.stop
  BY <1>1 DEF EngineType
<1>4. AbortPrl(u, l) = v
  BY <1>1 DEF AbortPrl, State, PanelType
<1> HIDE DEF x, e
<1> QED
  BY <1>1, <1>2, <1>3, <1>4 DEF State

-----------------------------------------------------------------------------
(* The inductive invariant.                                                 *)

(* A handler waits in processEvents() below at most one other: that of the  *)
(* end of a scan, which pixScan() meets before it has returned.             *)
Nested == <<"post", "started">>
Stacks == {<<>>, Nested} \cup {<<f>> : f \in Frames}
Posts  == {<<"post">>, Nested}
Midst  == {<<"next">>, <<"item">>, <<"tool">>, <<"scan">>, <<"started">>, Nested}

(* How the engine waits: for its timer, for the end of the scan, or for a   *)
(* handler to go on; and what the scan threads do meanwhile.                *)
EngineInv(u, s, m) ==
  /\ u.stack \in Stacks
  /\ u.engine.timer => ~u.engine.listens /\ u.stack = <<>>
  /\ u.engine.listens => u.stack = <<>> \/ u.stack = <<"post">>
  /\ u.stack = <<"post">> => u.engine.listens
  /\ m => /\ s # "idle"
          /\ u.stack = <<"started">> \/ (u.engine.listens /\ u.stack = <<>>)
  /\ s # "idle" /\ ~m => u.stack \in Posts
  /\ u.stack \in Posts => s = "over" /\ ~m
  /\ u.stack \in Midst => u.engine.index >= 1

(* An abort, once pressed, is known to everyone who could go on: the panel, *)
(* the engine and the wafer test.                                           *)
Held(u, l) ==
  /\ l = 0 \/ l = 1
  /\ u.panel[u.engine.list].aborted => u.engine.stop
  /\ u.engine.list = "wafer" /\ u.engine.stop => u.wafer.abort
  /\ ~u.panel[u.engine.list].aborted => l = 0

(* Between two steps: no die was missed, and the engine stands in its list. *)
Sound(u) ==
  /\ u \in State /\ Iterations(u) /\ Placed(u) /\ ~u.wafer.missed

Working(u) == u.engine.timer \/ u.engine.listens \/ u.stack # <<>>

(* While a list is worked.                                                  *)
Worked(u, l) == Sound(u) /\ (InMain(u) \/ InWafer(u)) /\ Held(u, l)

ListInv(u, l) ==
  /\ Sound(u)
  /\ Working(u) => Worked(u, l)
  /\ Working(u) /\ l # 0 =>
       ~u.engine.timer /\ u.stack # <<"next">> /\ u.stack # <<"item">>
  /\ ~Working(u) => Rested(u) /\ (l = 0 \/ l = 1)
  /\ u.engine.list = "wafer" /\ u.stack = <<"finish">> =>
       u.wafer.tested \/ u.wafer.abort

PrlInv(u, s, m, l) == EngineInv(u, s, m) /\ ListInv(u, l)

(* The stacks are told apart by their handlers.                             *)
LEMMA StacksApart ==
  /\ \A f \in Frames : /\ <<f>> # <<>> /\ <<f>> # Nested
                       /\ Head(<<f>>) = f /\ Tail(<<f>>) = <<>>
  /\ \A f, g \in Frames : <<f>> = <<g>> => f = g
  /\ Nested # <<>> /\ Head(Nested) = "post" /\ Tail(Nested) = <<"started">>
  /\ <<"post">> \o <<"started">> = Nested
<1>1. ASSUME NEW f \in Frames
      PROVE  <<f>> # <<>> /\ <<f>> # Nested /\ Head(<<f>>) = f /\ Tail(<<f>>) = <<>>
  <2>1. Len(<<f>>) = 1 /\ Len(Nested) = 2
    BY DEF Nested
  <2>2. <<f>> # <<>> /\ <<f>> # Nested
    BY <2>1
  <2> QED
    BY <2>2
<1>2. ASSUME NEW f \in Frames, NEW g \in Frames, <<f>> = <<g>> PROVE f = g
  BY <1>2
<1>3. Nested # <<>> /\ Head(Nested) = "post"
  BY DEF Nested
<1>4. Tail(Nested) = <<"started">>
  BY DEF Nested
<1>5. <<"post">> \o <<"started">> = Nested
  <2> DEFINE c == <<"post">> \o <<"started">>
  <2>1. <<"post">> \in Seq(Frames) /\ <<"started">> \in Seq(Frames)
        /\ Nested \in Seq(Frames)
    BY DEF Frames, Nested
  <2>2. c \in Seq(Frames) /\ Len(c) = 2 /\ c[1] = "post" /\ c[2] = "started"
    BY <2>1
  <2>3. Len(Nested) = 2 /\ Nested[1] = "post" /\ Nested[2] = "started"
    BY DEF Nested
  <2> HIDE DEF c
  <2>4. \A i \in 1..Len(c) : c[i] = Nested[i]
    BY <2>2, <2>3
  <2>5. c = Nested
    BY <2>1, <2>2, <2>3, <2>4, SeqEqual
  <2> QED
    BY <2>5 DEF c
<1> QED
  BY <1>1, <1>2, <1>3, <1>4, <1>5

LEMMA WorkedOn ==
  ASSUME desk \in Desks, NEW u, NEW v, NEW l, Worked(u, l), Keeps(u, v), Placed(v)
  PROVE  Worked(v, l)
<1>1. u.engine.list \in Panels
  BY DEF Worked, InMain, InWafer, Panels
<1>2. Iterations(v)
  BY CountsKept DEF Worked, Sound, Keeps
<1>3. Sound(v)
  BY <1>2 DEF Worked, Sound, Keeps
<1>4. Held(v, l)
  BY <1>1 DEF Worked, Held, Keeps
<1> QED
  BY <1>3, <1>4 DEF Worked, Keeps

(* A handler other than those of the end of a scan goes on.                 *)
LEMMA MidInv ==
  ASSUME NEW u, NEW l, NEW f \in {"item", "tool", "scan"}, Worked(u, l),
         u.stack = <<f>>, ~u.engine.timer, ~u.engine.listens,
         u.engine.index >= 1, l # 0 => f # "item", NEW s, NEW m, s = "idle", ~m
  PROVE  PrlInv(u, s, m, l)
<1>1. f \in Frames /\ f # "next" /\ f # "finish" /\ f # "post"
      /\ "next" \in Frames /\ "item" \in Frames /\ "finish" \in Frames
      /\ "post" \in Frames
      /\ "started" \in Frames
  BY DEF Frames
<1>2. /\ u.stack \in Stacks /\ u.stack # <<>> /\ u.stack # Nested
      /\ u.stack # <<"post">> /\ u.stack # <<"next">> /\ u.stack # <<"finish">>
      /\ l # 0 => u.stack # <<"item">>
  BY <1>1, StacksApart DEF Stacks
<1>3. EngineInv(u, s, m)
  BY <1>2 DEF EngineInv, Posts
<1>4. ListInv(u, l)
  BY <1>2 DEF ListInv, Working, Worked
<1> QED
  BY <1>3, <1>4 DEF PrlInv

(* The next item has been taken, or the list is over.                       *)
LEMMA TakenInv ==
  ASSUME desk \in Desks, NEW u, NEW l, Worked(u, l), NEW w, Taken(u, w),
         NEW s, NEW m, s = "idle", ~m
  PROVE  PrlInv(w, s, m, l)
<1>1. "next" \in Frames /\ "item" \in Frames /\ "finish" \in Frames
      /\ "post" \in Frames
      /\ "started" \in Frames /\ "tool" \in Frames /\ "scan" \in Frames
  BY DEF Frames
<1>2. Worked(w, l)
  BY WorkedOn DEF Taken
<1>3. ~w.engine.timer /\ ~w.engine.listens
  BY DEF Taken
<1>4. CASE w.stack = <<"next">> /\ ~w.engine.stop /\ w.engine.index >= 1
  <2>1. /\ w.stack \in Stacks /\ w.stack # <<>> /\ w.stack # Nested
        /\ w.stack # <<"post">> /\ w.stack # <<"finish">>
    BY <1>1, <1>4, StacksApart DEF Stacks
  <2>2. l = 0
    BY <1>2, <1>4 DEF Worked, Held
  <2>3. EngineInv(w, s, m)
    BY <1>3, <1>4, <2>1 DEF EngineInv, Posts
  <2>4. ListInv(w, l)
    BY <1>2, <2>1, <2>2 DEF ListInv, Working, Worked
  <2> QED
    BY <2>3, <2>4 DEF PrlInv
<1>5. CASE w.stack = <<"finish">>
           /\ (w.engine.list = "wafer" => w.wafer.tested \/ w.engine.stop)
  <2>1. /\ w.stack \in Stacks /\ w.stack # <<>> /\ w.stack \notin Posts
        /\ w.stack \notin Midst /\ w.stack # <<"next">> /\ w.stack # <<"item">>
    BY <1>1, <1>5, StacksApart DEF Stacks, Posts, Midst
  <2>2. EngineInv(w, s, m)
    BY <1>3, <2>1 DEF EngineInv, Posts
  <2>3. w.engine.list = "wafer" => w.wafer.tested \/ w.wafer.abort
    BY <1>2, <1>5 DEF Worked, Held
  <2>4. ListInv(w, l)
    BY <1>2, <1>3, <2>1, <2>3 DEF ListInv, Working, Worked
  <2> QED
    BY <2>2, <2>4 DEF PrlInv
<1> QED
  BY <1>4, <1>5 DEF Taken

(* A list has been launched.                                                *)
LEMMA LaunchedInv ==
  ASSUME NEW u, Sound(u), Launched(u), ~u.engine.listens, u.stack = <<>>,
         NEW s, NEW m, s = "idle", ~m
  PROVE  PrlInv(u, s, m, 0)
<1>1. "finish" \in Frames /\ "post" \in Frames /\ "next" \in Frames /\ "item" \in Frames
      /\ "tool" \in Frames /\ "scan" \in Frames /\ "started" \in Frames
  BY DEF Frames
<1>2. /\ u.stack \in Stacks /\ u.stack \notin Posts /\ u.stack \notin Midst
      /\ u.stack # <<"finish">>
  BY <1>1, StacksApart DEF Stacks, Posts, Midst
<1>3. EngineInv(u, s, m)
  BY <1>1, <1>2, StacksApart DEF EngineInv, Posts
<1>4. Worked(u, 0)
  BY DEF Worked, Held, Launched
<1>5. ListInv(u, 0)
  BY <1>2, <1>4 DEF ListInv, Working, Launched
<1> QED
  BY <1>3, <1>5 DEF PrlInv

(* Everything is at rest.                                                   *)
LEMMA RestedInv ==
  ASSUME NEW u, Sound(u), Rested(u), ~u.engine.listens, ~u.engine.timer,
         u.stack = <<>>, NEW s, NEW m, s = "idle", ~m, NEW l \in {0, 1}
  PROVE  PrlInv(u, s, m, l)
<1>1. "finish" \in Frames /\ "post" \in Frames /\ "next" \in Frames /\ "item" \in Frames
      /\ "tool" \in Frames /\ "scan" \in Frames /\ "started" \in Frames
  BY DEF Frames
<1>2. /\ u.stack \in Stacks /\ u.stack \notin Posts /\ u.stack \notin Midst
      /\ u.stack # <<"finish">>
  BY <1>1, StacksApart DEF Stacks, Posts, Midst
<1>3. EngineInv(u, s, m)
  BY <1>1, <1>2, StacksApart DEF EngineInv, Posts
<1>4. ListInv(u, l)
  BY <1>2 DEF ListInv, Working
<1> QED
  BY <1>3, <1>4 DEF PrlInv

IInv ==
  /\ desk \in Desks /\ starts \in 0..MaxStart
  /\ scan \in {"idle", "running", "over"} /\ monitor \in BOOLEAN
  /\ PrlInv(Now, scan, monitor, late)

LEMMA NowParts ==
  /\ Now.panel = panel /\ Now.engine = engine /\ Now.wafer = wafer
  /\ Now.stack = stack
BY DEF Now

(* The invariant of the record is the invariant of the variables it becomes.*)
LEMMA Kept ==
  ASSUME NEW v \in State, Becomes(v), desk' = desk,
         PrlInv(v, scan', monitor', late')
  PROVE  PrlInv(Now, scan, monitor, late)'
<1>1. Now' = v
  <2>1. v = [panel |-> v.panel, engine |-> v.engine, wafer |-> v.wafer,
             stack |-> v.stack]
    BY DEF State
  <2> QED
    BY <2>1 DEF Now, Becomes
<1>2. Worked(Now, late)' <=> Worked(v, late')
  <2>1. InMain(Now)' <=> InMain(v)
    BY <1>1 DEF InMain
  <2>2. InWafer(Now)' <=> InWafer(v)
    BY <1>1 DEF InWafer
  <2>3. Held(Now, late)' <=> Held(v, late')
    BY <1>1 DEF Held
  <2>4. Iterations(Now)' <=> Iterations(v)
    BY <1>1 DEF Iterations, Niter
  <2>5. Sound(Now)' <=> Sound(v)
    BY <1>1, <2>4 DEF Sound, Placed, State
  <2> QED
    BY <2>1, <2>2, <2>3, <2>5 DEF Worked
<1>3. Sound(Now)' <=> Sound(v)
  <2>1. Iterations(Now)' <=> Iterations(v)
    BY <1>1 DEF Iterations, Niter
  <2> QED
    BY <1>1, <2>1 DEF Sound, Placed, State
<1>4. (Rested(Now)' <=> Rested(v)) /\ (Working(Now)' <=> Working(v))
  BY <1>1 DEF Rested, Working
<1>5. ListInv(Now, late)'
  BY <1>1, <1>2, <1>3, <1>4 DEF PrlInv, ListInv
<1>6. EngineInv(Now, scan, monitor)'
  BY <1>1 DEF PrlInv, EngineInv
<1> QED
  BY <1>5, <1>6 DEF PrlInv

(* Which handler is on top.                                                 *)
LEMMA TopIs ==
  ASSUME stack \in Stacks
  PROVE  /\ \A f \in Frames \ {"post"} : Top = f <=> stack = <<f>>
         /\ Top = "loop" <=> stack = <<>>
         /\ Top = "post" <=> stack \in Posts
<1>1. "post" \in Frames /\ "loop" \notin Frames
  BY DEF Frames
<1>2. CASE stack = <<>>
  BY <1>1, <1>2, StacksApart DEF Top, Posts
<1>3. CASE stack = Nested
  <2>1. Top = "post"
    BY <1>3, StacksApart DEF Top
  <2> QED
    BY <1>1, <1>3, <2>1, StacksApart DEF Posts
<1>4. ASSUME NEW g \in Frames, stack = <<g>>
      PROVE  /\ \A f \in Frames \ {"post"} : Top = f <=> stack = <<f>>
             /\ Top = "loop" <=> stack = <<>>
             /\ Top = "post" <=> stack \in Posts
  <2>1. Top = g /\ stack # <<>> /\ stack # Nested
    BY <1>4, StacksApart DEF Top
  <2> QED
    BY <1>1, <1>4, <2>1, StacksApart DEF Posts
<1> QED
  BY <1>2, <1>3, <1>4 DEF Stacks

(* What is known when a handler other than the end of a scan goes on.       *)
LEMMA AtHandler ==
  ASSUME IInv, NEW f \in Frames \ {"post"}, Top = f
  PROVE  /\ stack = <<f>> /\ Worked(Popped, late) /\ Popped.stack = <<>>
         /\ Popped.engine = engine /\ Popped.panel = panel /\ Popped.wafer = wafer
         /\ ~engine.timer /\ ~engine.listens
         /\ f # "started" => scan = "idle" /\ ~monitor
         /\ f # "finish" => engine.index >= 1
         /\ f \in {"next", "item"} => late = 0
         /\ f = "finish" /\ engine.list = "wafer" => wafer.tested \/ wafer.abort
<1>1. EngineInv(Now, scan, monitor) /\ ListInv(Now, late)
  BY DEF IInv, PrlInv
<1>2. Now \in State /\ stack \in Stacks
  BY <1>1, NowParts DEF EngineInv, ListInv, Sound
<1>3. stack = <<f>>
  BY <1>2, TopIs
<1>4. "finish" \in Frames /\ "post" \in Frames /\ "next" \in Frames /\ "item" \in Frames
      /\ "tool" \in Frames /\ "scan" \in Frames /\ "started" \in Frames
  BY DEF Frames
<1>5. /\ stack # <<>> /\ stack # Nested /\ stack # <<"post">> /\ Tail(stack) = <<>>
      /\ f # "started" => stack # <<"started">>
  BY <1>3, <1>4, StacksApart
<1>6. ~engine.timer /\ ~engine.listens
  BY <1>1, <1>5, NowParts DEF EngineInv
<1>7. f # "started" => scan = "idle" /\ ~monitor
  BY <1>1, <1>5, NowParts DEF EngineInv, Posts
<1>8. f # "finish" => engine.index >= 1
  <2>1. f # "finish" => stack \in Midst
    BY <1>3 DEF Midst, Frames
  <2> QED
    BY <1>1, <2>1, NowParts DEF EngineInv
<1>9. /\ Popped.engine = engine /\ Popped.panel = panel /\ Popped.wafer = wafer
      /\ Popped.stack = <<>> /\ Popped \in State
  BY <1>2, <1>5, PopEffect, NowParts DEF Popped
<1>10. Worked(Now, late)
  BY <1>1, <1>5, NowParts DEF ListInv, Working
<1>11. Worked(Popped, late)
  BY <1>9, <1>10, NowParts
     DEF Worked, Sound, Iterations, Placed, InMain, InWafer, Held
<1>12. f \in {"next", "item"} => late = 0
  BY <1>1, <1>3, <1>5, NowParts DEF ListInv, Working
<1>13. f = "finish" /\ engine.list = "wafer" => wafer.tested \/ wafer.abort
  BY <1>1, <1>3, NowParts DEF ListInv
<1> QED
  BY <1>3, <1>6, <1>7, <1>8, <1>9, <1>11, <1>12, <1>13

(* A handler lets the GUI update itself in the middle of an item.           *)
LEMMA Pushed ==
  ASSUME desk \in Desks, NEW u, NEW l, Worked(u, l), NEW a, Keeps(u, a),
         a.engine = u.engine, a.stack = <<>>, ~u.engine.timer, ~u.engine.listens,
         u.engine.index >= 1, NEW f \in {"item", "tool", "scan", "started"},
         l # 0 => f # "item"
  PROVE  LET v == Push(a, f) IN
         /\ v \in State /\ Worked(v, l) /\ v.stack = <<f>>
         /\ v.engine = u.engine
<1> DEFINE v == Push(a, f)
<1>1. f \in Frames /\ u \in State /\ a \in State
  BY DEF Frames, Worked, Sound, Keeps
<1>2. /\ v \in State
      /\ v.panel = a.panel /\ v.engine = a.engine /\ v.wafer = a.wafer
      /\ v.stack = <<f>> \o a.stack
  BY <1>1, PushEffect
<1> HIDE DEF v
<1>3. v.stack = <<f>>
  BY <1>2, Single
<1>4. Keeps(a, v)
  BY <1>2 DEF Keeps, Counts, InMain, InWafer
<1>5. Keeps(u, v)
  BY <1>1, <1>4, KeepsOn
<1>6. Placed(v)
  BY <1>2 DEF Worked, Sound, Placed
<1>7. Worked(v, l)
  BY <1>5, <1>6, WorkedOn
<1> QED
  BY <1>2, <1>3, <1>7 DEF v

-----------------------------------------------------------------------------
(* One lemma for each action.                                               *)

LEMMA InvParts ==
  ASSUME IInv
  PROVE  /\ EngineInv(Now, scan, monitor) /\ ListInv(Now, late)
         /\ desk \in Desks /\ Now \in State /\ stack \in Stacks
         /\ Sound(Now) /\ late \in {0, 1}
BY NowParts DEF IInv, PrlInv, EngineInv, ListInv, Sound, Worked, Held

LEMMA TimerStep == ASSUME IInv, ProcessPrimList PROVE IInv'
<1> DEFINE v == NextItem(Now)
<1>1. engine.timer /\ Becomes(v) /\ UNCHANGED <<desk, scan, monitor, starts, late>>
  BY DEF ProcessPrimList
<1> HIDE DEF v
<1>2. /\ EngineInv(Now, scan, monitor) /\ ListInv(Now, late)
      /\ desk \in Desks /\ Now \in State
  BY InvParts
<1>3. stack = <<>> /\ ~engine.listens
  BY <1>1, <1>2, NowParts DEF EngineInv
<1>4. Worked(Now, late)
  BY <1>1, <1>2, NowParts DEF ListInv, Working
<1>5. scan = "idle" /\ ~monitor
  <2>1. stack \notin Posts /\ stack # <<"started">>
    BY <1>3, StacksApart DEF Posts, Frames
  <2> QED
    BY <1>2, <1>3, <2>1, NowParts DEF EngineInv
<1>6. engine.list \in Panels /\ Placed(Now)
  BY <1>4, NowParts DEF Worked, Sound, InMain, InWafer, Panels
<1>7. Taken(Now, v)
  BY <1>2, <1>3, <1>6, NowParts, NextItemEffect DEF v
<1>8. PrlInv(v, scan, monitor, late)
  BY <1>2, <1>4, <1>5, <1>7, TakenInv
<1>9. v \in State
  BY <1>7 DEF Taken, Keeps
<1> QED
  BY <1>1, <1>8, <1>9, Kept DEF IInv

LEMMA ShowStep == ASSUME IInv, ShowItem PROVE IInv'
<1> DEFINE a == EmitPrlStarted(Popped)
           v == Push(a, "item")
<1>1. Top = "next" /\ Becomes(v) /\ UNCHANGED <<desk, scan, monitor, starts, late>>
  BY DEF ShowItem
<1> HIDE DEF v
<1>2. /\ Worked(Popped, late) /\ Popped.stack = <<>> /\ Popped.engine = engine
      /\ ~engine.timer /\ ~engine.listens /\ scan = "idle" /\ ~monitor
      /\ engine.index >= 1 /\ late = 0
  BY <1>1, AtHandler DEF Frames
<1>3. Keeps(Popped, a) /\ a.engine = Popped.engine /\ a.stack = <<>>
  BY <1>2, SignalsKeep DEF Worked, Sound
<1> HIDE DEF a
<1>4. desk \in Desks
  BY DEF IInv
<1>5. /\ v \in State /\ Worked(v, late) /\ v.stack = <<"item">>
      /\ v.engine = engine
  BY <1>2, <1>3, <1>4, Pushed DEF v
<1>6. PrlInv(v, scan, monitor, late)
  BY <1>2, <1>5, MidInv
<1> QED
  BY <1>1, <1>5, <1>6, Kept DEF IInv

(* The next item is taken by a handler that has come to its end.            *)
LEMMA TakeStep ==
  ASSUME IInv, NEW u \in State, Worked(u, late), u.stack = <<>>,
         scan = "idle", ~monitor, Becomes(NextItem(u)),
         UNCHANGED <<desk, scan, monitor, starts, late>>
  PROVE  IInv'
<1> DEFINE v == NextItem(u)
<1>1. Becomes(v)
  OBVIOUS
<1> HIDE DEF v
<1>2. u.engine.list \in Panels /\ Placed(u)
  BY DEF Worked, Sound, InMain, InWafer, Panels
<1>3. Taken(u, v)
  BY <1>2, NextItemEffect DEF v
<1>4. PrlInv(v, scan, monitor, late) /\ v \in State
  BY <1>3, TakenInv DEF Taken, Keeps, IInv
<1> QED
  BY <1>1, <1>4, Kept DEF IInv

LEMMA SkipStep == ASSUME IInv, SkipItem PROVE IInv'
<1>1. /\ Top = "item" /\ Becomes(NextItem(Popped))
      /\ UNCHANGED <<desk, scan, monitor, starts, late>>
  BY DEF SkipItem
<1>2. /\ Worked(Popped, late) /\ Popped.stack = <<>> /\ scan = "idle" /\ ~monitor
  BY <1>1, AtHandler DEF Frames
<1> QED
  BY <1>1, <1>2, TakeStep DEF Worked, Sound

(* An item is begun: the count of the items begun after an abort goes up by *)
(* one, and it was zero.                                                    *)
LEMMA CountedHeld ==
  ASSUME IInv, Top = "item", Counted
  PROVE  Worked(Popped, late')
<1>1. /\ Worked(Popped, late) /\ late = 0 /\ Popped.panel = panel
      /\ Popped.engine = engine
  BY AtHandler DEF Frames
<1>2. Held(Popped, late')
  BY <1>1 DEF Counted, Worked, Held
<1> QED
  BY <1>1, <1>2 DEF Worked

LEMMA BeginScanStep == ASSUME IInv, BeginScan PROVE IInv'
<1> DEFINE a == EmitPrlStarted(Popped)
           v == Push(a, "scan")
<1>1. /\ Top = "item" /\ Becomes(v) /\ Counted
      /\ UNCHANGED <<desk, scan, monitor, starts>>
  BY DEF BeginScan, Works
<1> HIDE DEF v
<1>2. /\ Popped \in State /\ Popped.stack = <<>> /\ Popped.engine = engine
      /\ ~engine.timer /\ ~engine.listens /\ scan = "idle" /\ ~monitor
      /\ engine.index >= 1
  BY <1>1, AtHandler DEF Frames, Worked, Sound
<1>3. Keeps(Popped, a) /\ a.engine = Popped.engine /\ a.stack = <<>>
  BY <1>2, SignalsKeep
<1> HIDE DEF a
<1>4. desk \in Desks /\ Worked(Popped, late')
  BY <1>1, CountedHeld DEF IInv
<1>5. /\ v \in State /\ Worked(v, late') /\ v.stack = <<"scan">>
      /\ v.engine = engine
  BY <1>2, <1>3, <1>4, Pushed DEF v
<1>6. PrlInv(v, scan', monitor', late')
  BY <1>1, <1>2, <1>5, MidInv
<1> QED
  BY <1>1, <1>5, <1>6, Kept DEF IInv

LEMMA RefusedStep == ASSUME IInv, ItemRefused PROVE IInv'
<1>1. /\ Top = "item" /\ Becomes(StartError(Popped))
      /\ UNCHANGED <<desk, scan, monitor, starts, late>>
  BY DEF ItemRefused, Works
<1>2. /\ Worked(Popped, late) /\ Popped.stack = <<>> /\ Popped.engine = engine
      /\ ~engine.timer /\ ~engine.listens /\ scan = "idle" /\ ~monitor
  BY <1>1, AtHandler DEF Frames
<1>3. Popped \in State /\ Placed(Popped)
  BY <1>2 DEF Worked, Sound
<1>4. CASE Item.abort
  <2> DEFINE t == Tested(Popped)
             v == Finish(t)
  <2>1. Becomes(v)
    BY <1>1, <1>4 DEF StartError
  <2>2. /\ Keeps(Popped, t) /\ t.engine = engine /\ t.stack = <<>>
        /\ t.engine.list = "wafer" => t.wafer.tested
    BY <1>2, <1>3, TestedEffect
  <2> HIDE DEF t
  <2>3. t \in State /\ Placed(t)
    BY <1>2, <1>3, <2>2 DEF Keeps, Placed
  <2>4. Taken(t, v)
    BY <1>2, <2>2, <2>3, FinishEffect
  <2> HIDE DEF v
  <2>5. Taken(Popped, v)
    BY <1>3, <2>2, <2>4, TakenOn
  <2>6. PrlInv(v, scan, monitor, late) /\ v \in State
    BY <1>2, <2>5, TakenInv DEF Taken, Keeps, IInv
  <2> QED
    BY <1>1, <2>1, <2>6, Kept DEF IInv
<1>5. CASE ~Item.abort
  <2>1. Becomes(NextItem(Popped))
    BY <1>1, <1>5 DEF StartError
  <2> QED
    BY <1>1, <1>2, <1>3, <2>1, TakeStep
<1> QED
  BY <1>4, <1>5

LEMMA BeginToolStep == ASSUME IInv, BeginTool PROVE IInv'
<1> DEFINE a == IF Item.kind = "chiptest" THEN EmitBegan(Popped) ELSE Popped
           v == Push(a, "tool")
<1>1. /\ Top = "item" /\ Becomes(v) /\ Counted
      /\ UNCHANGED <<desk, scan, monitor, starts>>
  BY DEF BeginTool, Works
<1> HIDE DEF v
<1>2. /\ Popped \in State /\ Popped.stack = <<>> /\ Popped.engine = engine
      /\ ~engine.timer /\ ~engine.listens /\ scan = "idle" /\ ~monitor
      /\ engine.index >= 1
  BY <1>1, AtHandler DEF Frames, Worked, Sound
<1>3. Keeps(Popped, a) /\ a.engine = Popped.engine /\ a.stack = <<>>
  <2>1. Keeps(Popped, Popped)
    BY <1>2 DEF Keeps, Counts
  <2>2. LET b == EmitBegan(Popped) IN
        Keeps(Popped, b) /\ b.engine = Popped.engine /\ b.stack = Popped.stack
    BY <1>2, SignalsKeep
  <2> QED
    BY <1>2, <2>1, <2>2
<1> HIDE DEF a
<1>4. desk \in Desks /\ Worked(Popped, late')
  BY <1>1, CountedHeld DEF IInv
<1>5. /\ v \in State /\ Worked(v, late') /\ v.stack = <<"tool">>
      /\ v.engine = engine
  BY <1>2, <1>3, <1>4, Pushed DEF v
<1>6. PrlInv(v, scan', monitor', late')
  BY <1>1, <1>2, <1>5, MidInv
<1> QED
  BY <1>1, <1>5, <1>6, Kept DEF IInv

LEMMA EndToolStep == ASSUME IInv, EndTool PROVE IInv'
<1>1. PICK skip \in {engine.skip, engine.skip \/ Item.raise} :
        LET told == IF Item.kind = "chiptest" THEN Heard(EmitFinished(Popped))
                    ELSE Popped
        IN Becomes(NextItem([told EXCEPT !.engine.skip = skip]))
  BY DEF EndTool
<1>2. Top = "tool" /\ UNCHANGED <<desk, scan, monitor, starts, late>>
  BY DEF EndTool
<1>3. /\ Worked(Popped, late) /\ Popped.stack = <<>> /\ Popped.engine = engine
      /\ ~engine.timer /\ ~engine.listens /\ scan = "idle" /\ ~monitor
  BY <1>2, AtHandler DEF Frames
<1>4. Popped \in State /\ Placed(Popped) /\ desk \in Desks
  BY <1>3 DEF Worked, Sound, IInv
<1> DEFINE f == EmitFinished(Popped)
           told == IF Item.kind = "chiptest" THEN Heard(f) ELSE Popped
           u == Skipping(told, skip)
<1>5. Becomes(NextItem(u))
  BY <1>1 DEF Skipping
<1>6. Keeps(Popped, told) /\ told.engine = engine /\ told.stack = <<>>
  <2>1. Keeps(Popped, Popped)
    BY <1>4 DEF Keeps, Counts
  <2>2. Keeps(Popped, f) /\ f.engine = engine /\ f.stack = <<>>
    BY <1>3, <1>4, SignalsKeep
  <2> HIDE DEF f
  <2>3. Heard(f) = f
    BY <1>3, <2>2 DEF Heard
  <2> QED
    BY <1>3, <2>1, <2>2, <2>3
<1>7. skip \in BOOLEAN
  <2>1. Now.engine \in EngineType
    BY InvParts, StateParts
  <2>2. engine.skip \in BOOLEAN
    BY <2>1, NowParts DEF EngineType
  <2>3. (engine.skip \/ Item.raise) \in BOOLEAN
    BY Zenon
  <2> QED
    BY <2>2, <2>3
<1> HIDE DEF told, u
<1>8. Keeps(told, u) /\ u.stack = <<>> /\ u.engine.index = engine.index
  BY <1>6, <1>7, SkippingEffect DEF u, Keeps
<1>9. Keeps(Popped, u)
  BY <1>4, <1>6, <1>8, KeepsOn
<1>10. Placed(u) /\ u \in State
  BY <1>3, <1>4, <1>8, <1>9 DEF Placed, Keeps
<1>11. Worked(u, late)
  BY <1>3, <1>4, <1>9, <1>10, WorkedOn
<1> QED
  BY <1>2, <1>3, <1>5, <1>8, <1>10, <1>11, TakeStep

(* The scan threads work while pixScan() lets the GUI update itself.        *)
LEMMA ScanStartsStep == ASSUME IInv, ScanStarts PROVE IInv'
<1> DEFINE a == EmitBegan(Popped)
           v == Push(a, "started")
<1>1. /\ Top = "scan" /\ Becomes(v) /\ scan' = "running" /\ monitor' = TRUE
      /\ UNCHANGED <<desk, starts, late>>
  BY DEF ScanStarts
<1> HIDE DEF v
<1>2. /\ Worked(Popped, late) /\ Popped.stack = <<>> /\ Popped.engine = engine
      /\ ~engine.timer /\ ~engine.listens /\ engine.index >= 1
  BY <1>1, AtHandler DEF Frames
<1>3. Keeps(Popped, a) /\ a.engine = Popped.engine /\ a.stack = <<>>
  BY <1>2, SignalsKeep DEF Worked, Sound
<1> HIDE DEF a
<1>4. desk \in Desks
  BY DEF IInv
<1>5. /\ v \in State /\ Worked(v, late) /\ v.stack = <<"started">>
      /\ v.engine = engine
  BY <1>2, <1>3, <1>4, Pushed DEF v
<1>6. /\ v.stack \in Stacks /\ v.stack # <<>> /\ v.stack \notin Posts
      /\ v.stack # <<"next">> /\ v.stack # <<"item">> /\ v.stack # <<"finish">>
  BY <1>5, StacksApart DEF Stacks, Posts, Frames
<1>7. EngineInv(v, "running", TRUE)
  BY <1>2, <1>5, <1>6 DEF EngineInv, Posts
<1>8. ListInv(v, late)
  BY <1>2, <1>5, <1>6 DEF ListInv, Working, Worked
<1>9. PrlInv(v, scan', monitor', late')
  BY <1>1, <1>7, <1>8 DEF PrlInv
<1> QED
  BY <1>1, <1>5, <1>9, Kept DEF IInv

(* The engine waits for the end of the scan, which may be over already, or  *)
(* which has never begun.                                                   *)
LEMMA ListeningStep ==
  ASSUME IInv, NEW f \in {"scan", "started"}, Top = f,
         Becomes(Listening(Popped)), UNCHANGED <<desk, scan, monitor, starts, late>>
  PROVE  IInv'
<1> DEFINE v == Listening(Popped)
<1>1. Becomes(v)
  OBVIOUS
<1>2. /\ Worked(Popped, late) /\ Popped.stack = <<>> /\ Popped.engine = engine
      /\ ~engine.timer /\ stack = <<f>>
  BY AtHandler DEF Frames
<1>3. Popped \in State /\ desk \in Desks
  BY <1>2 DEF Worked, Sound, IInv
<1>4. /\ Keeps(Popped, v) /\ v.stack = <<>> /\ v.engine.index = engine.index
      /\ ~v.engine.timer /\ v.engine.listens
  BY <1>2, <1>3, ListeningEffect
<1> HIDE DEF v
<1>5. Worked(v, late)
  BY <1>2, <1>3, <1>4, WorkedOn DEF Worked, Sound, Placed, Keeps
<1>6. /\ v.stack \in Stacks /\ v.stack \notin Posts /\ v.stack \notin Midst
      /\ v.stack # <<"next">> /\ v.stack # <<"item">> /\ v.stack # <<"finish">>
  BY <1>4, StacksApart DEF Stacks, Posts, Midst, Frames
<1>7. /\ monitor => scan # "idle"
      /\ scan # "idle" => monitor
  <2>1. stack \notin Posts
    BY <1>2, StacksApart DEF Posts, Frames
  <2> QED
    BY <2>1, InvParts, NowParts DEF EngineInv
<1>8. EngineInv(v, scan, monitor)
  BY <1>4, <1>6, <1>7, StacksApart DEF EngineInv, Posts
<1>9. ListInv(v, late)
  BY <1>4, <1>5, <1>6 DEF ListInv, Working, Worked
<1>10. PrlInv(v, scan', monitor', late') /\ v \in State
  BY <1>8, <1>9, <1>4 DEF PrlInv, Keeps
<1> QED
  BY <1>1, <1>10, Kept DEF IInv

LEMMA ScanEndsStep == ASSUME IInv, ScanEnds PROVE IInv'
<1>1. /\ scan = "running" /\ scan' = "over"
      /\ UNCHANGED <<desk, panel, engine, wafer, stack, monitor, starts, late>>
  BY DEF ScanEnds
<1>2. EngineInv(Now, scan, monitor) /\ ListInv(Now, late) /\ Now \in State
  BY InvParts
<1>3. stack \notin Posts /\ monitor
  BY <1>1, <1>2, NowParts DEF EngineInv
<1>4. EngineInv(Now, "over", monitor)
  BY <1>2, <1>3, NowParts DEF EngineInv
<1>5. PrlInv(Now, scan', monitor', late')
  BY <1>1, <1>2, <1>4 DEF PrlInv
<1>6. Becomes(Now)
  BY <1>1, NowParts DEF Becomes
<1> QED
  BY <1>1, <1>2, <1>5, <1>6, Kept DEF IInv

(* FinishScan() meets the event loop, or pixScan() before it has returned.  *)
LEMMA FinishScanStep == ASSUME IInv, FinishScan PROVE IInv'
<1> DEFINE v == Push(Now, "post")
<1>1. /\ monitor /\ scan = "over" /\ Top \in {"loop", "started"}
      /\ monitor' = FALSE /\ Becomes(v)
      /\ UNCHANGED <<desk, scan, starts, late>>
  BY DEF FinishScan
<1>2. /\ EngineInv(Now, scan, monitor) /\ ListInv(Now, late) /\ Now \in State
      /\ stack \in Stacks
  BY InvParts
<1>3. /\ v \in State
      /\ v.panel = panel /\ v.engine = engine /\ v.wafer = wafer
      /\ v.stack = <<"post">> \o stack
  BY <1>2, PushEffect, NowParts DEF Frames
<1> HIDE DEF v
<1>4. stack = <<>> \/ stack = <<"started">>
  BY <1>1, <1>2, TopIs DEF Frames
<1>5. /\ engine.listens <=> stack = <<>>
      /\ ~engine.timer
  <2>1. stack # <<"post">> /\ (stack = <<"started">> => stack # <<>>)
    BY <1>4, StacksApart DEF Frames
  <2> QED
    BY <1>1, <1>2, <1>4, <2>1, NowParts DEF EngineInv
<1>6. /\ stack = <<>> => v.stack = <<"post">>
      /\ stack = <<"started">> => v.stack = Nested
  BY <1>3, Single, StacksApart
<1>7. /\ v.stack \in Stacks /\ v.stack \in Posts /\ v.stack # <<>>
      /\ v.stack # <<"next">> /\ v.stack # <<"item">> /\ v.stack # <<"finish">>
      /\ v.stack # <<"started">>
      /\ v.stack = Nested <=> stack = <<"started">>
      /\ v.stack = <<"post">> <=> stack = <<>>
  BY <1>4, <1>6, StacksApart DEF Stacks, Posts, Frames
<1>8. stack = <<"started">> => engine.index >= 1
  BY <1>2, NowParts DEF EngineInv, Midst
<1>9. v.stack \in Midst => stack = <<"started">>
  BY <1>4, <1>6, <1>7, StacksApart DEF Midst, Frames
<1>10. EngineInv(v, scan, FALSE)
  BY <1>1, <1>3, <1>5, <1>7, <1>8, <1>9 DEF EngineInv
<1>11. Worked(Now, late)
  BY <1>1, <1>2, <1>4, <1>5, NowParts, StacksApart DEF ListInv, Working, Frames
<1>12. Worked(v, late)
  BY <1>3, <1>11, NowParts
     DEF Worked, Sound, Iterations, Placed, InMain, InWafer, Held
<1>13. ListInv(v, late)
  BY <1>3, <1>5, <1>7, <1>12 DEF ListInv, Working, Worked
<1>14. PrlInv(v, scan', monitor', late')
  BY <1>1, <1>10, <1>13 DEF PrlInv
<1> QED
  BY <1>1, <1>3, <1>14, Kept DEF IInv

(* After the scan the engine goes on with the list, if it listens already.  *)
LEMMA FinishedScanningStep == ASSUME IInv, FinishedScanning PROVE IInv'
<1> DEFINE p == Popped
           a == EmitFinished(p)
           v == Heard(a)
<1>1. /\ Top = "post" /\ scan' = "idle" /\ Becomes(v)
      /\ UNCHANGED <<desk, monitor, starts, late>>
  BY DEF FinishedScanning
<1>2. /\ EngineInv(Now, scan, monitor) /\ ListInv(Now, late) /\ Now \in State
      /\ stack \in Stacks /\ desk \in Desks
  BY InvParts
<1>3. stack \in Posts
  BY <1>1, <1>2, TopIs
<1>4. stack # <<>> /\ ~engine.timer /\ ~monitor
  BY <1>2, <1>3, StacksApart, NowParts DEF Posts, EngineInv, Frames
<1>5. /\ p \in State /\ p.engine = engine /\ p.panel = panel /\ p.wafer = wafer
      /\ p.stack = Tail(stack)
  BY <1>2, <1>4, PopEffect, NowParts DEF Popped
<1>6. Worked(Now, late)
  BY <1>2, <1>4, NowParts DEF ListInv, Working
<1>7. Worked(p, late)
  <2> HIDE DEF p
  <2> QED
    BY <1>5, <1>6, NowParts
       DEF Worked, Sound, Iterations, Placed, InMain, InWafer, Held
<1> HIDE DEF p
<1>8. /\ Keeps(p, a) /\ a.engine = engine /\ a.wafer = wafer
      /\ a.stack = p.stack
  BY <1>5, SignalsKeep
<1> HIDE DEF a
<1>9. Worked(a, late) /\ a \in State
  BY <1>2, <1>5, <1>7, <1>8, WorkedOn DEF Worked, Sound, Placed, Keeps
<1>10. CASE stack = <<"post">>
  <2>1. engine.listens /\ a.stack = <<>>
    BY <1>2, <1>5, <1>8, <1>10, NowParts, StacksApart DEF EngineInv, Frames
  <2>2. v = NextItem(a)
    BY <1>8, <2>1 DEF Heard
  <2>3. a.engine.list \in Panels /\ Placed(a)
    BY <1>9 DEF Worked, Sound, InMain, InWafer, Panels
  <2>4. Taken(a, v)
    BY <1>9, <2>1, <2>2, <2>3, NextItemEffect
  <2> HIDE DEF v
  <2>5. PrlInv(v, scan', monitor', late') /\ v \in State
    BY <1>1, <1>2, <1>4, <1>9, <2>4, TakenInv DEF Taken, Keeps
  <2> QED
    BY <1>1, <2>5, Kept DEF IInv
<1>11. CASE stack = Nested
  <2>1. stack # <<"post">> /\ stack \in Midst /\ a.stack = <<"started">>
    BY <1>5, <1>8, <1>11, StacksApart DEF Midst, Frames
  <2>2. ~engine.listens
    BY <1>2, <1>4, <2>1, NowParts DEF EngineInv
  <2>3. v = a
    BY <1>8, <2>2 DEF Heard
  <2>4. /\ a.stack \in Stacks /\ a.stack # <<>> /\ a.stack \notin Posts
        /\ a.stack # <<"next">> /\ a.stack # <<"item">> /\ a.stack # <<"finish">>
    BY <2>1, StacksApart DEF Stacks, Posts, Frames
  <2>5. engine.index >= 1
    BY <1>2, <2>1, NowParts DEF EngineInv
  <2>6. EngineInv(a, "idle", monitor)
    BY <1>4, <1>8, <2>2, <2>4, <2>5 DEF EngineInv, Posts
  <2>7. ListInv(a, late)
    BY <1>9, <1>4, <1>8, <2>4 DEF ListInv, Working, Worked
  <2>8. PrlInv(v, scan', monitor', late')
    BY <1>1, <2>3, <2>6, <2>7 DEF PrlInv
  <2> QED
    BY <1>1, <1>9, <2>3, <2>8, Kept DEF IInv
<1> QED
  BY <1>3, <1>10, <1>11 DEF Posts

(* prlDone(): the next repetition, the next die, or the end.                *)
LEMMA PrlDoneStep == ASSUME OnceWithProber, IInv, PrlDone PROVE IInv'
<1>1. /\ Top = "finish" /\ UNCHANGED <<desk, scan, monitor, starts, late>>
  BY DEF PrlDone
<1>2. PICK fault \in Faults : Becomes(EmitPrlDone(Popped, fault))
  BY DEF PrlDone, Faults
<1> DEFINE v == EmitPrlDone(Popped, fault)
<1>3. /\ Worked(Popped, late) /\ Popped.stack = <<>> /\ Popped.engine = engine
      /\ Popped.wafer = wafer /\ ~engine.timer /\ ~engine.listens
      /\ scan = "idle" /\ ~monitor
      /\ engine.list = "wafer" => wafer.tested \/ wafer.abort
  BY <1>1, AtHandler DEF Frames
<1>4. desk \in Desks /\ Popped \in State /\ Iterations(Popped) /\ ~wafer.missed
  BY <1>3 DEF IInv, Worked, Sound
<1>5. InMain(Popped)
      \/ (InWafer(Popped) /\ (Popped.wafer.tested \/ Popped.wafer.abort))
  BY <1>3 DEF Worked, InWafer
<1>6. Ended(Popped, v)
  BY <1>4, <1>5, PrlDoneEffect
<1>7. Becomes(v)
  BY <1>2
<1> HIDE DEF v
<1>8. /\ v \in State /\ v.stack = <<>> /\ ~v.engine.listens /\ ~v.wafer.missed
      /\ Iterations(v)
  BY <1>3, <1>4, <1>6 DEF Ended
<1>9. CASE Rested(v) /\ v.engine = engine
  <2>1. Sound(v)
    BY <1>3, <1>8, <1>9 DEF Sound, Placed, Worked
  <2>2. PrlInv(v, scan, monitor, late)
    BY <1>3, <1>8, <1>9, <2>1, RestedInv, InvParts
  <2> QED
    BY <1>1, <1>7, <1>8, <2>2, Kept DEF IInv
<1>10. CASE Launched(v) /\ ~Aborted(Popped)
  <2>1. late = 0
    BY <1>3, <1>10 DEF Aborted, Worked, Held, InMain, InWafer
  <2>2. Sound(v)
    BY <1>8, <1>10, LengthNat
       DEF Sound, Placed, Launched, InMain, InWafer, Panels
  <2>3. PrlInv(v, scan, monitor, late)
    BY <1>3, <1>8, <1>10, <2>1, <2>2, LaunchedInv
  <2> QED
    BY <1>1, <1>7, <1>8, <2>3, Kept DEF IInv
<1> QED
  BY <1>3, <1>6, <1>9, <1>10 DEF Ended

-----------------------------------------------------------------------------
(* Nothing can be started while a list is worked: the main window's button  *)
(* aborts its own list and is disabled during the wafer test, and the wafer *)
(* panel's is disabled while the main window's list is worked.              *)
LEMMA AtRest ==
  ASSUME IInv, \/ panel["main"].run /\ ~panel["main"].abortable
               \/ desk.prober /\ panel["wafer"].run /\ ~wafer.probing
  PROVE  /\ Rested(Now) /\ stack = <<>> /\ ~engine.timer /\ ~engine.listens
         /\ scan = "idle" /\ ~monitor
<1>1. EngineInv(Now, scan, monitor) /\ ListInv(Now, late)
  BY InvParts
<1>2. ~Working(Now)
  BY <1>1, NowParts DEF ListInv, Worked, InMain, InWafer
<1>3. Rested(Now)
  BY <1>1, <1>2 DEF ListInv
<1>4. stack = <<>> /\ ~engine.timer /\ ~engine.listens
  BY <1>2, NowParts DEF Working
<1>5. stack \notin Posts /\ stack # <<"started">>
  BY <1>4, StacksApart DEF Posts, Frames
<1>6. scan = "idle" /\ ~monitor
  BY <1>1, <1>4, <1>5, NowParts DEF EngineInv
<1> QED
  BY <1>3, <1>4, <1>6

LEMMA LaunchedSound ==
  ASSUME NEW v \in State, Launched(v), Iterations(v), ~v.wafer.missed
  PROVE  Sound(v)
BY LengthNat DEF Sound, Placed, Launched, InMain, InWafer, Panels

LEMMA StartListStep == ASSUME IInv, StartList PROVE IInv'
<1> DEFINE v == StartPrl(Now, "main")
<1>1. /\ starts < MaxStart /\ starts' = starts + 1 /\ late' = 0
      /\ panel["main"].run /\ ~panel["main"].abortable /\ Becomes(v)
      /\ UNCHANGED <<desk, scan, monitor>>
  BY DEF StartList
<1>2. /\ Rested(Now) /\ stack = <<>> /\ ~engine.listens
      /\ scan = "idle" /\ ~monitor
  BY <1>1, AtRest
<1>3. /\ Now \in State /\ Sound(Now) /\ desk \in Desks
  BY InvParts
<1>4. /\ v \in State /\ v.wafer = wafer /\ v.stack = <<>>
      /\ ~v.engine.listens /\ Launched(v) /\ Counts(Now, v)
  BY <1>2, <1>3, StartMain, NowParts
<1> HIDE DEF v
<1>5. Sound(v)
  BY <1>3, <1>4, CountsKept, LaunchedSound, NowParts DEF Sound
<1>6. PrlInv(v, scan', monitor', late')
  BY <1>1, <1>2, <1>4, <1>5, LaunchedInv
<1>7. starts' \in 0..MaxStart
  BY <1>1, ChipsAssumption DEF IInv
<1> QED
  BY <1>1, <1>4, <1>6, <1>7, Kept DEF IInv

LEMMA RefusedStartStep == ASSUME IInv, StartRefused PROVE IInv'
<1> DEFINE x == [panel["main"] EXCEPT !.aborted = FALSE]
           v == [Now EXCEPT !.panel = [panel EXCEPT !["main"] = x]]
<1>1. /\ starts < MaxStart /\ starts' = starts + 1
      /\ panel["main"].run /\ ~panel["main"].abortable
      /\ Becomes([Now EXCEPT !.panel["main"].aborted = FALSE])
      /\ UNCHANGED <<desk, scan, monitor, late>>
  BY DEF StartRefused
<1>2. Becomes(v)
  BY <1>1, NowParts
<1>3. /\ Rested(Now) /\ stack = <<>> /\ ~engine.listens /\ ~engine.timer
      /\ scan = "idle" /\ ~monitor
  BY <1>1, AtRest
<1>4. /\ Now \in State /\ Sound(Now) /\ desk \in Desks /\ late \in {0, 1}
  BY InvParts
<1>5. /\ panel["main"] \in PanelType /\ panel \in [Panels -> PanelType]
      /\ "main" \in Panels /\ "main" # "wafer"
  BY <1>4, StateParts, NowParts DEF Panels
<1>6. /\ x \in PanelType /\ x.iter = panel["main"].iter
      /\ x.freezes = panel["main"].freezes
      /\ x.abortable = panel["main"].abortable
  BY <1>5 DEF PanelType
<1> HIDE DEF x
<1>7. /\ v \in State /\ v.engine = engine /\ v.wafer = wafer /\ v.stack = stack
      /\ v.panel["main"] = x /\ \A p \in Panels \ {"main"} : v.panel[p] = panel[p]
  BY <1>4, <1>5, <1>6, NowParts DEF State
<1> HIDE DEF v
<1>8. Rested(v)
  BY <1>3, <1>5, <1>6, <1>7, NowParts DEF Rested, Panels
<1>9. Sound(v)
  BY <1>4, <1>6, <1>7, NowParts DEF Sound, Placed, Iterations
<1>10. PrlInv(v, scan', monitor', late')
  BY <1>1, <1>3, <1>4, <1>7, <1>8, <1>9, RestedInv
<1>11. starts' \in 0..MaxStart
  BY <1>1, ChipsAssumption DEF IInv
<1> QED
  BY <1>1, <1>2, <1>7, <1>10, <1>11, Kept DEF IInv

LEMMA StartProbingStep == ASSUME IInv, StartProbing PROVE IInv'
<1>1. /\ starts < MaxStart /\ starts' = starts + 1 /\ late' = 0
      /\ desk.prober /\ panel["wafer"].run /\ ~wafer.probing
      /\ UNCHANGED <<desk, scan, monitor>>
  BY DEF StartProbing
<1>2. PICK fault \in Faults : Becomes(FirstDie(Now, fault))
  BY DEF StartProbing
<1> DEFINE v == FirstDie(Now, fault)
<1>3. /\ Rested(Now) /\ stack = <<>> /\ ~engine.listens /\ ~engine.timer
      /\ scan = "idle" /\ ~monitor
  BY <1>1, AtRest
<1>4. /\ Now \in State /\ Sound(Now) /\ desk \in Desks
  BY InvParts
<1>5. Probed(Now, v)
  BY <1>1, <1>3, <1>4, FirstDieEffect
<1>6. Becomes(v)
  BY <1>2
<1> HIDE DEF v
<1>7. /\ v \in State /\ v.stack = <<>> /\ ~v.engine.listens /\ ~v.wafer.missed
  BY <1>3, <1>4, <1>5, NowParts DEF Probed, Sound
<1>8. Iterations(v)
  BY <1>4, <1>5, CountsKept DEF Probed, Sound
<1>9. PrlInv(v, scan, monitor, 0)
  <2>1. CASE Rested(v) /\ v.engine = Now.engine
    <3>1. Sound(v)
      BY <1>4, <1>7, <1>8, <2>1 DEF Sound, Placed
    <3> QED
      BY <1>3, <1>7, <2>1, <3>1, RestedInv, NowParts
  <2>2. CASE Launched(v)
    BY <1>3, <1>7, <1>8, <2>2, LaunchedSound, LaunchedInv
  <2> QED
    BY <1>5, <2>1, <2>2 DEF Probed
<1>10. starts' \in 0..MaxStart
  BY <1>1, ChipsAssumption DEF IInv
<1> QED
  BY <1>1, <1>6, <1>7, <1>9, <1>10, Kept DEF IInv

LEMMA AbortListStep == ASSUME IInv, AbortList PROVE IInv'
<1> DEFINE v == AbortPrl(Now, "main")
<1>1. /\ panel["main"].abortable /\ Becomes(v)
      /\ UNCHANGED <<desk, scan, monitor, starts, late>>
  BY DEF AbortList
<1>2. EngineInv(Now, scan, monitor) /\ ListInv(Now, late) /\ Now \in State
  BY InvParts
<1>3. Working(Now) /\ Worked(Now, late) /\ InMain(Now)
  BY <1>1, <1>2, NowParts DEF ListInv, Rested, Worked, InWafer
<1>4. "main" \in Panels /\ "wafer" \in Panels \ {"main"} /\ engine.list = "main"
  BY <1>3, NowParts DEF Panels, InMain
<1>5. /\ v \in State /\ v.wafer = wafer /\ v.stack = stack
      /\ v.panel["wafer"] = panel["wafer"]
      /\ v.panel["main"].iter = panel["main"].iter /\ v.panel["main"].aborted
      /\ v.panel["main"].abortable
      /\ v.panel["main"].hears = panel["main"].hears
      /\ v.panel["main"].freezes = panel["main"].freezes
      /\ v.engine.list = "main" /\ v.engine.index = engine.index
      /\ v.engine.timer = engine.timer
      /\ v.engine.listens = engine.listens /\ v.engine.stop
  BY <1>1, <1>2, <1>4, AbortEffect, NowParts
<1> HIDE DEF v
<1>6. InMain(v)
  BY <1>3, <1>5, NowParts DEF InMain
<1>7. Held(v, late)
  BY <1>3, <1>5 DEF Held, Worked
<1>8. Sound(v)
  BY <1>3, <1>4, <1>5, NowParts DEF Worked, Sound, Iterations, Placed, Panels
<1>9. EngineInv(v, scan, monitor)
  BY <1>2, <1>5, NowParts DEF EngineInv
<1>10. ListInv(v, late)
  BY <1>2, <1>3, <1>5, <1>6, <1>7, <1>8, NowParts DEF ListInv, Worked, Working
<1>11. PrlInv(v, scan', monitor', late')
  BY <1>1, <1>9, <1>10 DEF PrlInv
<1> QED
  BY <1>1, <1>5, <1>11, Kept DEF IInv

LEMMA AbortProbingStep == ASSUME IInv, AbortProbing PROVE IInv'
<1> DEFINE w == [wafer EXCEPT !.abort = TRUE]
           u == [Now EXCEPT !.wafer = w]
           v == AbortPrl(u, "wafer")
<1>1. /\ wafer.probing /\ Becomes(AbortPrl([Now EXCEPT !.wafer.abort = TRUE], "wafer"))
      /\ UNCHANGED <<desk, scan, monitor, starts, late>>
  BY DEF AbortProbing
<1>2. EngineInv(Now, scan, monitor) /\ ListInv(Now, late) /\ Now \in State
  BY InvParts
<1>3. Working(Now) /\ Worked(Now, late) /\ InWafer(Now)
  BY <1>1, <1>2, NowParts DEF ListInv, Rested, Worked, InMain
<1>4. "wafer" \in Panels /\ "main" \in Panels \ {"wafer"} /\ engine.list = "wafer"
  BY <1>3, NowParts DEF Panels, InWafer
<1>5. /\ w \in WaferType /\ w.abort /\ w.probing = wafer.probing
      /\ w.waits = wafer.waits /\ w.missed = wafer.missed
  BY <1>2, StateParts, NowParts DEF WaferType
<1>6. Becomes(v)
  <2>1. [Now EXCEPT !.wafer.abort = TRUE] = u
    BY NowParts
  <2> QED
    BY <1>1, <2>1
<1> HIDE DEF w
<1>7. WaferOnly(Now, u) /\ u.wafer = w
  BY <1>2, <1>5, WaferStep
<1> HIDE DEF u
<1>8. /\ v \in State /\ v.wafer = w /\ v.stack = stack
      /\ v.panel["main"] = panel["main"]
      /\ v.panel["wafer"].iter = panel["wafer"].iter /\ v.panel["wafer"].aborted
      /\ v.engine.list = "wafer" /\ v.engine.index = engine.index
      /\ v.engine.timer = engine.timer
      /\ v.engine.listens = engine.listens /\ v.engine.stop
  BY <1>4, <1>7, AbortEffect, NowParts DEF WaferOnly
<1> HIDE DEF v
<1>9. InWafer(v)
  BY <1>3, <1>5, <1>8, NowParts DEF InWafer
<1>10. Held(v, late)
  BY <1>3, <1>5, <1>8 DEF Held, Worked
<1>11. Sound(v)
  BY <1>3, <1>4, <1>5, <1>8, NowParts DEF Worked, Sound, Iterations, Placed, Panels
<1>12. EngineInv(v, scan, monitor)
  BY <1>2, <1>8, NowParts DEF EngineInv
<1>13. ListInv(v, late)
  BY <1>2, <1>3, <1>5, <1>8, <1>9, <1>10, <1>11, NowParts
     DEF ListInv, Worked, Working
<1>14. PrlInv(v, scan', monitor', late')
  BY <1>1, <1>12, <1>13 DEF PrlInv
<1> QED
  BY <1>1, <1>6, <1>8, <1>14, Kept DEF IInv

LEMMA InitInv == Init => IInv
<1> SUFFICES ASSUME Init PROVE IInv
  OBVIOUS
<1>1. /\ desk \in Desks /\ stack = <<>> /\ scan = "idle" /\ monitor = FALSE
      /\ starts = 0 /\ late = 0
  BY DEF Init
<1>2. Now \in State
  <2>1. panel \in [Panels -> PanelType]
    BY DEF Init, PanelType
  <2>2. engine \in EngineType
    BY DEF Init, EngineType
  <2>3. wafer \in WaferType
    BY DEF Init, WaferType
  <2>4. stack \in Seq(Frames)
    BY <1>1
  <2> QED
    BY <2>1, <2>2, <2>3, <2>4 DEF Now, State
<1>3. Rested(Now)
  BY NowParts DEF Init, Rested, Panels
<1>4. Sound(Now)
  <2>1. \A p \in Panels : panel[p].iter = 0
    BY DEF Init
  <2>2. Iterations(Now)
    BY <1>1, <2>1, NiterNat, NowParts DEF Iterations
  <2>3. engine.list = "none" /\ ~wafer.missed
    BY DEF Init
  <2> QED
    BY <1>2, <2>2, <2>3, NowParts DEF Sound, Placed
<1>5. ~engine.timer /\ ~engine.listens
  BY DEF Init
<1>6. PrlInv(Now, scan, monitor, late)
  BY <1>1, <1>3, <1>4, <1>5, RestedInv, NowParts
<1>7. monitor \in BOOLEAN
  BY <1>1, Zenon
<1>8. starts \in 0..MaxStart
  BY <1>1, ChipsAssumption
<1> QED
  BY <1>1, <1>6, <1>7, <1>8 DEF IInv

LEMMA StutterInv == ASSUME IInv, UNCHANGED vars PROVE IInv'
<1>1. Now \in State
  BY InvParts
<1>2. Becomes(Now)
  BY NowParts DEF Becomes, vars
<1> QED
  BY <1>1, <1>2, Kept DEF IInv, vars

LEMMA NextInv == ASSUME OnceWithProber, IInv, [Next]_vars PROVE IInv'
<1>1. CASE ScanFails
  BY <1>1, ListeningStep DEF ScanFails, Listening
<1>2. CASE ScanStarted
  BY <1>2, ListeningStep DEF ScanStarted, GoOnAfterScan, Listening
<1>3. CASE GuiThread
  BY <1>1, <1>2, <1>3, TimerStep, ShowStep, SkipStep, BeginScanStep, RefusedStep,
     BeginToolStep, EndToolStep, ScanStartsStep, FinishScanStep,
     FinishedScanningStep, PrlDoneStep
     DEF GuiThread
<1>4. CASE ScanEnds
  BY <1>4, ScanEndsStep
<1>5. CASE User
  BY <1>5, StartListStep, RefusedStartStep, StartProbingStep, AbortListStep,
     AbortProbingStep DEF User
<1>6. CASE UNCHANGED vars
  BY <1>6, StutterInv
<1> QED
  BY <1>3, <1>4, <1>5, <1>6 DEF Next

(* The inductive invariant holds of every behaviour.                        *)
THEOREM InvHolds == ASSUME OnceWithProber PROVE Spec => []IInv
BY InitInv, NextInv, PTL DEF Spec

-----------------------------------------------------------------------------
(* Every variable keeps its type: the engine never stands behind the end of *)
(* its list, and no list is repeated more often than asked for.             *)
THEOREM TypeCorrect == ASSUME OnceWithProber PROVE Spec => []TypeOK
<1>1. IInv => TypeOK
  <2> SUFFICES ASSUME IInv PROVE TypeOK
    OBVIOUS
  <2>1. Now \in State /\ Sound(Now) /\ late \in {0, 1}
    BY InvParts
  <2>2. /\ panel \in [Panels -> PanelType] /\ engine \in EngineType
        /\ wafer \in WaferType /\ stack \in Seq(Frames)
    BY <2>1, StateParts, NowParts
  <2>3. /\ \A p \in Panels : panel[p].iter <= Niter(p)
        /\ engine.list # "none" => engine.index <= Len(List[engine.list])
    BY <2>1, NowParts DEF Sound, Iterations, Placed
  <2> QED
    BY <2>1, <2>2, <2>3 DEF TypeOK, IInv, PanelType, EngineType, WaferType
<1> QED
  BY <1>1, InvHolds, PTL

(* Nobody starts a list underneath the one that is worked, and its end      *)
(* finds the panel that shows it (launchPrimList(), finishedPrl()).         *)
THEOREM ListStillRunning == ASSUME OnceWithProber PROVE Spec => []StillRunning
<1>1. IInv => StillRunning
  <2> SUFFICES ASSUME IInv, Busy PROVE engine.list \in Panels /\ InProgress(engine.list)
    BY DEF StillRunning
  <2>1. ListInv(Now, late)
    BY InvParts
  <2>2. Working(Now)
    BY NowParts DEF Busy, Working
  <2>3. InMain(Now) \/ InWafer(Now)
    BY <2>1, <2>2 DEF ListInv, Worked
  <2> QED
    BY <2>3, NowParts DEF InMain, InWafer, InProgress, Panels
<1> QED
  BY <1>1, InvHolds, PTL

(* pixScan() is not entered twice, and starts the scan threads only when    *)
(* those of the last scan are done and finished.                            *)
THEOREM OneScan == ASSUME OnceWithProber PROVE Spec => []OneScanAtATime
<1>1. IInv => OneScanAtATime
  <2> SUFFICES ASSUME IInv PROVE OneScanAtATime
    OBVIOUS
  <2> DEFINE S == {i \in DOMAIN stack : stack[i] \in {"scan", "started"}}
  <2>1. EngineInv(Now, scan, monitor) /\ stack \in Stacks
    BY InvParts
  <2>2. Top = "scan" => scan = "idle"
    BY AtHandler DEF Frames
  <2>3. \E i : S \subseteq {i}
    <3>1. CASE stack = Nested
      <4>1. DOMAIN stack = 1..2 /\ stack[1] = "post"
        BY <3>1 DEF Nested
      <4>2. S \subseteq {2}
        BY <4>1
      <4> QED
        BY <4>2
    <3>2. CASE stack = <<>>
      <4>1. DOMAIN stack = {}
        BY <3>2
      <4> QED
        BY <4>1
    <3>3. ASSUME NEW f \in Frames, stack = <<f>> PROVE S \subseteq {1}
      <4>1. DOMAIN stack = 1..1
        BY <3>3
      <4> QED
        BY <4>1
    <3> QED
      BY <2>1, <3>1, <3>2, <3>3 DEF Stacks
  <2> HIDE DEF S
  <2>4. PICK i : S \subseteq {i}
    BY <2>3
  <2>5. Cardinality(S) <= 1
    <3>1. IsFiniteSet({i}) /\ Cardinality({i}) = 1
      BY FS_Singleton
    <3>2. Cardinality(S) <= Cardinality({i})
      BY <2>4, <3>1, FS_Subset
    <3> QED
      BY <3>1, <3>2
  <2> QED
    BY <2>2, <2>5 DEF OneScanAtATime, S
<1> QED
  BY <1>1, InvHolds, PTL

(* After the user's abort no item is begun but the one on its way.          *)
THEOREM AbortsHonoured == ASSUME OnceWithProber PROVE Spec => []AbortHonoured
<1>1. IInv => AbortHonoured
  <2> SUFFICES ASSUME IInv PROVE AbortHonoured
    OBVIOUS
  <2>1. late \in {0, 1}
    BY InvParts
  <2> QED
    BY <2>1 DEF AbortHonoured
<1> QED
  BY <1>1, InvHolds, PTL

(* The chuck never leaves a die whose list has not been worked, and never   *)
(* in contact.                                                              *)
THEOREM EveryDieIsTested == ASSUME OnceWithProber PROVE Spec => []EveryDieTested
<1>1. IInv => EveryDieTested
  <2> SUFFICES ASSUME IInv PROVE EveryDieTested
    OBVIOUS
  <2>1. Sound(Now)
    BY InvParts
  <2> QED
    BY <2>1, NowParts DEF Sound, EveryDieTested
<1> QED
  BY <1>1, InvHolds, PTL

=============================================================================
