---------------------------- MODULE TriggerAlign ----------------------------
(***************************************************************************)
(* How the EUDAQ producer builds events from the data of several FE-I4     *)
(* chips (STeudaq_producer_I4.cxx).                                        *)
(*                                                                         *)
(* Every chip records a trigger with the number the TLU gives it, which    *)
(* counts modulo Amount, and may miss some.  After every round of          *)
(* read-outs (TestbeamReadout) each board's data goes through              *)
(* dataPendingI4(), which undoes the rollover, and sendEventsI4(), which   *)
(* sends one event per trigger number, with a block per chip: its data, or *)
(* a dummy if the trigger is missing there.  Here a trigger is its true    *)
(* number, counted from the start of the run without rollover; the code    *)
(* sees it modulo Amount only.                                             *)
(***************************************************************************)
EXTENDS Integers, FiniteSets, SequencesExt

CONSTANTS
  Amount,       (* TLU_TRIGGER_AMOUNT                                       *)
  Margin,       (* the 50 in front of the rollover                          *)
  Layout,       (* per board, the set of its chips' indices, in order       *)
  FirstNumbers, (* the numbers the first trigger of a run may have          *)
  MaxTrigger,   (* bound: the last trigger                                  *)
  MayMiss,      (* the TLU numbers that a chip may fail to record           *)
  MaxFailed     (* bound: calls of SendEvent() that throw, in one run       *)

Boards == DOMAIN Layout
Chips  == UNION {Layout[b] : b \in Boards}

ASSUME AmountAssumption == Amount \in Nat \ {0} /\ Margin \in 0..Amount
ASSUME LayoutAssumption ==
  /\ IsFiniteSet(Chips) /\ Chips = 1..Cardinality(Chips) /\ Chips # {}
  /\ \A b, d \in Boards : b < d => \A c \in Layout[b], e \in Layout[d] : c < e
ASSUME TriggerAssumption ==
  /\ FirstNumbers \subseteq 0..Amount - 1 /\ FirstNumbers # {}
  /\ MayMiss \subseteq 0..Amount - 1
  /\ MaxTrigger \in Nat /\ MaxFailed \in Nat
  /\ \A n \in FirstNumbers : n <= MaxTrigger

VARIABLES
  next,        (* the number of the next trigger                            *)
  sram,        (* what each chip recorded since its last read-out           *)
  due,         (* boards whose data of this round is not handled yet        *)
  at,          (* the main thread: "idle", "send", "end", or "over"         *)
  recieved,    (* recieved_trigger                                          *)
  eventData,   (* EventData                                                 *)
  lastTrigger, (* lastTriggerNumber                                         *)
  counter,     (* triggerCounter                                            *)
  limit,       (* min_trigger_number                                        *)
  allReceived, (* all_events_recieved                                       *)
  recorded,    (* history: the triggers each chip recorded in this run      *)
  event,       (* history: the last event sent, its number and its blocks   *)
  first,       (* history: the number of the run's first event, -1: none    *)
  failed       (* history: the numbers for which SendEvent() threw          *)

triggerVars == <<next, sram, recorded>>
sendVars    == <<event, first, failed>>
vars == <<triggerVars, due, at, recieved, eventData, lastTrigger, counter,
          limit, allReceived, sendVars>>

Dummy   == -1
Triggers == 0..MaxTrigger
Blocks  == [Chips -> Triggers \cup {Dummy}]
Nothing == [c \in Chips |-> <<>>]
NoEvent == [number |-> -1, blocks |-> [c \in Chips |-> Dummy]]

TypeOK ==
  /\ next \in 0..MaxTrigger + 1
  /\ sram \in [Chips -> Seq(Triggers)] /\ eventData \in [Chips -> Seq(Triggers)]
  /\ due \subseteq Boards
  /\ at \in {"idle", "send", "end", "over"}
  /\ recieved \in [Chips -> -1..MaxTrigger]
  /\ {lastTrigger, limit} \subseteq -1..MaxTrigger /\ counter \in 0..MaxTrigger + 1
  /\ allReceived \in BOOLEAN
  /\ recorded \in [Chips -> SUBSET Triggers]
  /\ event \in [number : -1..MaxTrigger, blocks : Blocks]
  /\ first \in -1..MaxTrigger /\ failed \in SUBSET Triggers

Init ==
  /\ next \in FirstNumbers /\ sram = Nothing /\ due = {} /\ at = "idle"
  /\ recieved = [c \in Chips |-> -1] /\ eventData = Nothing
  /\ lastTrigger = -1 /\ counter = 0 /\ limit = -1 /\ allReceived = FALSE
  /\ recorded = [c \in Chips |-> {}] /\ event = NoEvent
  /\ first = -1 /\ failed = {}

(* The next run: OnStartRun() clears everything but all_events_recieved.    *)
OnStartRun ==
  /\ at = "over" /\ at' = "idle"
  /\ next' \in FirstNumbers /\ sram' = Nothing /\ due' = {}
  /\ recieved' = [c \in Chips |-> -1] /\ eventData' = Nothing
  /\ lastTrigger' = -1 /\ counter' = 0 /\ limit' = -1
  /\ recorded' = [c \in Chips |-> {}] /\ event' = NoEvent
  /\ first' = -1 /\ failed' = {}
  /\ UNCHANGED allReceived

-----------------------------------------------------------------------------
(* The chips and the read-out rounds.                                       *)

(* A trigger while no board is vetoed: the chips in C record it, with their *)
(* hits; the others miss it.                                                *)
Trigger(C) ==
  /\ at = "idle" /\ due = {} /\ next <= MaxTrigger
  /\ next % Amount \in MayMiss \/ C = Chips
  /\ sram' = [c \in Chips |-> IF c \in C THEN Append(sram[c], next) ELSE sram[c]]
  /\ recorded' = [c \in Chips |-> IF c \in C THEN recorded[c] \cup {next}
                                            ELSE recorded[c]]
  /\ next' = next + 1
  /\ UNCHANGED <<due, at, recieved, eventData, lastTrigger, counter, limit,
                 allReceived, sendVars>>

(* All boards are vetoed and read out, and post their data.                 *)
ReadOut ==
  /\ at = "idle" /\ due = {}
  /\ due' = Boards
  /\ UNCHANGED <<triggerVars, at, recieved, eventData, lastTrigger, counter,
                 limit, allReceived, sendVars>>

-----------------------------------------------------------------------------
(* dataPendingI4() and the head of sendEventsI4().                          *)

(* C++ keeps the sign of the dividend: -1 % Amount is -1.                   *)
Seen(r) == IF r = -1 THEN -1 ELSE r % Amount
Lap(r)  == IF r = -1 THEN 0 ELSE r \div Amount

(* Slip: the multiplier is not increased.                                   *)
SlipNoCarry(r, t) == IF t > Seen(r) THEN Lap(r) * Amount + t ELSE r

(* recieved_trigger[index] after a trigger word with the TLU number t.      *)
Unwrap(r, t) ==
  IF t < Seen(r) /\ Seen(r) > Amount - Margin THEN (Lap(r) + 1) * Amount + t
  ELSE IF t > Seen(r) THEN Lap(r) * Amount + t
  ELSE r

Scan(r, words) ==
  LET got[i \in 0..Len(words)] ==
        IF i = 0 THEN r ELSE Unwrap(got[i - 1], words[i] % Amount)
  IN  got[Len(words)]

(* lastTriggerNumber is set by the first trigger word of the run, whichever *)
(* chip it is from, and by the next one too as long as it comes out as -1;  *)
(* a board's chips are scanned in order.                                    *)
Telling(word)  == word % Amount # 0
FirstIn(words) == words[SelectInSeq(words, Telling)]
Tells(b)       == {c \in Layout[b] : \E word \in ToSet(sram[c]) : Telling(word)}

FirstWord(last, b) ==
  IF last # -1 \/ Tells(b) = {} THEN last
  ELSE (FirstIn(sram[Min(Tells(b))]) % Amount) - 1

Least(rec) == Min({rec[c] : c \in Chips})

(* Slip: the end of the run sends up to the slowest chip only.              *)
SlipSlowest(rec) == Min({rec[c] : c \in Chips})

Greatest(rec) == Max({rec[c] : c \in Chips})

(* Slip: every read-out counts as complete.                                 *)
SlipAlwaysSame(rec) == TRUE

(* The check at the end of dataPendingI4(): every chip got equally far.     *)
SameEverywhere(rec) == Greatest(rec) = Least(rec)

(* sendEventsI4() up to its loop: nothing to do while a chip has no         *)
(* trigger, or when the next number is beyond the limit.                    *)
BeginSend(lim, last, loop, done) ==
  /\ lastTrigger' = last
  /\ limit' = lim
  /\ counter' = last + 1
  /\ at' = IF lim # -1 /\ last + 1 <= lim THEN loop ELSE done

(* The data of board b: all its chips are scanned and queued, then the      *)
(* triggers that every chip has reached are sent.                           *)
DataPending(b) ==
  /\ at = "idle" /\ b \in due
  /\ due' = due \ {b}
  /\ recieved' = [c \in Chips |-> IF c \in Layout[b] THEN Scan(recieved[c], sram[c])
                                                     ELSE recieved[c]]
  /\ eventData' = [c \in Chips |-> IF c \in Layout[b] THEN eventData[c] \o sram[c]
                                                      ELSE eventData[c]]
  /\ sram' = [c \in Chips |-> IF c \in Layout[b] THEN <<>> ELSE sram[c]]
  /\ allReceived' = SameEverywhere(recieved')
  /\ BeginSend(Least(recieved'), FirstWord(lastTrigger, b),
               "send", "idle")
  /\ UNCHANGED <<next, recorded, sendVars>>

(* OnStopRun() after the last round: what is left is sent up to the         *)
(* furthest chip, unless everything has been received.                      *)
EndRun ==
  /\ at = "idle" /\ due = {} /\ sram = Nothing
  /\ IF allReceived
     THEN at' = "over" /\ UNCHANGED <<lastTrigger, counter, limit>>
     ELSE BeginSend(Greatest(recieved), lastTrigger, "end", "over")
  /\ UNCHANGED <<triggerVars, due, recieved, eventData, allReceived, sendVars>>

-----------------------------------------------------------------------------
(* One turn of the loop in sendEventsI4().                                  *)

(* Slip: <= for <.                                                          *)
SlipDropsOwn(n, word) == word % Amount <= n % Amount

(* "Trigger Number to small": the words at the front that are dropped.      *)
TooSmall(n, word) == word % Amount < n % Amount

(* A chip's list without them.                                              *)
Remaining(n, words) ==
  LET k == SelectInSeq(words, LAMBDA w : ~TooSmall(n, w))
  IN  IF k = 0 THEN <<>> ELSE SubSeq(words, k, Len(words))

(* Slip: what is at the front is taken unseen.                              *)
SlipTakesAny(n, words) == words # <<>>

(* The chip's data belongs to number n; otherwise the trigger is missing.   *)
Fits(n, words) == words # <<>> /\ Head(words) % Amount = n % Amount

Block(n, words) ==
  LET rest == Remaining(n, words) IN IF Fits(n, rest) THEN Head(rest) ELSE Dummy

Rest(n, words) ==
  LET rest == Remaining(n, words) IN IF Fits(n, rest) THEN Tail(rest) ELSE rest

TakeBlocks == eventData' = [c \in Chips |-> Rest(counter, eventData[c])]

Idle == IF at = "end" THEN "over" ELSE "idle"

SendEvent ==
  /\ at \in {"send", "end"}
  /\ TakeBlocks
  /\ event' = [number |-> counter,
               blocks |-> [c \in Chips |-> Block(counter, eventData[c])]]
  /\ first' = IF first = -1 THEN counter ELSE first
  /\ counter' = counter + 1
  /\ IF counter' <= limit
     THEN UNCHANGED <<at, lastTrigger>>
     ELSE at' = Idle /\ lastTrigger' = counter
  /\ UNCHANGED <<triggerVars, due, recieved, limit, allReceived, failed>>

(* SendEvent() throws: the blocks are gone, the loop is left, and the next  *)
(* call of sendEventsI4() tries the same number again.                      *)
SendFails ==
  /\ at \in {"send", "end"} /\ Cardinality(failed) < MaxFailed
  /\ TakeBlocks
  /\ failed' = failed \cup {counter}
  /\ lastTrigger' = counter - 1
  /\ at' = Idle
  /\ UNCHANGED <<triggerVars, due, recieved, counter, limit, allReceived, event,
                 first>>

Next ==
  \/ OnStartRun \/ ReadOut \/ EndRun \/ SendEvent \/ SendFails
  \/ \E C \in SUBSET Chips : Trigger(C)
  \/ \E b \in Boards : DataPending(b)

Spec == Init /\ [][Next]_vars

-----------------------------------------------------------------------------
(* Properties.                                                              *)

(* What the producer has been handed of a chip's triggers.                  *)
HandedOver(c) == recorded[c] \ ToSet(sram[c])

(* Which triggers a chip may miss for the code to follow it: not the last   *)
(* one before the rollover, which is less than Margin from it, and not all  *)
(* the others either.                                                       *)
MissesAllowed ==
  /\ Margin > 1 /\ Amount - 1 \notin MayMiss
  /\ \E n \in 0..Amount - 2 : n \notin MayMiss

(* The rollover is undone exactly (84-106): recieved_trigger is the true    *)
(* number of the last trigger the chip handed over, whatever it missed and  *)
(* however the triggers were cut into rounds.                               *)
RecievedIsExact ==
  \A c \in Chips : recieved[c] = Max(HandedOver(c) \cup {-1})

(* The turn for the last number before a rollover has thrown.               *)
Derailed == \E n \in failed : n % Amount = Amount - 1

(* Events are aligned (255-309): all the data in an event is of the event's *)
(* own trigger, not of the trigger with the same TLU number a lap later;    *)
(* unless SendEvent() threw at the last number before a rollover.           *)
EventAligned ==
  ~Derailed => \A c \in Chips : event.blocks[c] \in {event.number, Dummy}

(* A dummy tells the truth (270-289, 311-321): when a block says that the   *)
(* trigger is missing, the chip did not record it, unless the SendEvent()   *)
(* of this very number has thrown before (its blocks are lost).             *)
DummyMeansMissing ==
  ~Derailed =>
    \A c \in Chips :
      event.blocks[c] = Dummy /\ event.number \in recorded[c]
        => event.number \in failed

(* What is dropped at the front of a chip's list is past (260-269): its     *)
(* event "should have already been sent in an earlier loop".                *)
DroppedIsPast ==
  at \in {"send", "end"} /\ ~Derailed =>
    \A c \in Chips : \A i \in DOMAIN eventData[c] :
      i <= Len(eventData[c]) - Len(Remaining(counter, eventData[c]))
        => eventData[c][i] < counter

(* Nothing is kept back for good.  all_events_recieved is a safe reason to  *)
(* end the run without sending the rest (155-161, STeudaq_producer.cxx:485): *)
(* nothing is queued then; and the end of the run sends everything: each    *)
(* trigger that was handed over, from the first event's number on, has had  *)
(* its event.  Both unless a SendEvent() threw.                             *)
NothingKept ==
  failed = {} =>
    /\ at = "idle" /\ allReceived => eventData = Nothing
    /\ at = "over" =>
         /\ eventData = Nothing
         /\ \A c \in Chips : \A n \in recorded[c] : n <= lastTrigger
=============================================================================
